--------------------------- MODULE SequenceLemmas ---------------------------
(***************************************************************************)
(* What filtering, appending, inserting and removing leave of a sequence,  *)
(* for the proofs about the lists of the frontend.                         *)
(*                                                                         *)
(* What a recursive function computes is proved without an induction       *)
(* theorem: a counterexample would have a least index, and there is none.  *)
(***************************************************************************)
EXTENDS Filtered, SequencesExt, SequenceTheorems, WellFoundedInduction, TLAPS

\* A set of numbers that is not empty has a least member.
LEMMA LeastExists ==
  ASSUME NEW S \in SUBSET Nat, S # {}
  PROVE  \E m \in S : \A n \in Nat : n < m => n \notin S
<1>1. PICK x \in S : \A y \in S : ~(<<y, x>> \in OpToRel(<, Nat))
  BY NatLessThanWellFounded, WFMin, Zenon
<1>2. ASSUME NEW n \in Nat, n < x, n \in S PROVE FALSE
  <2>1. ~(<<n, x>> \in OpToRel(<, Nat)) /\ x \in Nat
    BY <1>1, <1>2
  <2> QED BY <1>2, <2>1 DEF OpToRel
<1> QED BY <1>1, <1>2

\* Without computes what its recursion says: the function its LET chooses exists.
LEMMA WithoutIs ==
  ASSUME NEW T, NEW s \in Seq(T), NEW X
  PROVE  \E f : /\ DOMAIN f = 0..Len(s) /\ f[0] = <<>>
                /\ \A n \in 1..Len(s) : f[n] = IF s[n] \in X THEN f[n - 1] ELSE Append(f[n - 1], s[n])
                /\ Without(s, X) = f[Len(s)]
<1> DEFINE L == Len(s)
           E(f, n) == IF n = 0 THEN <<>> ELSE IF s[n] \in X THEN f[n - 1] ELSE Append(f[n - 1], s[n])
           Good(m) == \E f : f = [n \in 0..m |-> E(f, n)]
           S == {m \in 0..L : ~Good(m)}
<1>1. L \in Nat
  BY LenProperties
<1> HIDE DEF E
<1>2. Good(L)
  <2> SUFFICES ASSUME ~Good(L) PROVE FALSE
    OBVIOUS
  <2> HIDE DEF Good
  <2>1. S # {} /\ S \in SUBSET Nat
    BY <1>1
  <2> USE DEF Good
  <2>2. PICK m \in S : \A n \in Nat : n < m => n \notin S
    BY <2>1, LeastExists
  <2> USE DEF E
  <2>3. CASE m = 0
    <3>1. [n \in 0..0 |-> <<>>] = [n \in 0..0 |-> E([k \in 0..0 |-> <<>>], n)]
      OBVIOUS
    <3>2. Good(0)
      BY <3>1
    <3> QED BY <2>2, <2>3, <3>2
  <2>4. CASE m # 0
    <3>1. m \in Nat /\ m - 1 \in 0..L /\ m - 1 < m /\ m - 1 \in Nat
      BY <1>1, <2>2, <2>4
    <3>2. Good(m - 1)
      BY <2>2, <3>1
    <3>3. PICK f : f = [n \in 0..m - 1 |-> E(f, n)]
      BY <3>2
    <3> DEFINE g == [n \in 0..m |-> IF n = m THEN E(f, n) ELSE f[n]]
    <3>4. \A n \in 0..m : g[n] = E(g, n)
      <4> TAKE n \in 0..m
      <4>1. CASE n = m
        <5>1. m - 1 \in 0..m /\ m - 1 # m
          BY <3>1
        <5>2. g[m - 1] = f[m - 1]
          BY <5>1
        <5> QED BY <3>1, <4>1, <5>2
      <4>2. CASE n # m
        <5>1. n \in 0..m - 1 /\ (n # 0 => n - 1 \in 0..m /\ n - 1 # m)
          BY <3>1, <4>2
        <5>2. f[n] = E(f, n)
          BY <3>3, <5>1
        <5>3. n # 0 => g[n - 1] = f[n - 1]
          BY <5>1
        <5> QED BY <4>2, <5>2, <5>3
      <4> QED BY <4>1, <4>2
    <3>5. g = [n \in 0..m |-> g[n]]
      OBVIOUS
    <3> HIDE DEF g
    <3>6. g = [n \in 0..m |-> E(g, n)]
      BY <3>4, <3>5, Zenon
    <3>7. Good(m)
      BY <3>6
    <3> QED BY <2>2, <3>7
  <2> QED BY <2>3, <2>4
<1> USE DEF E
<1> DEFINE f == CHOOSE h : h = [n \in 0..L |-> E(h, n)]
<1>3. f = [n \in 0..L |-> E(f, n)]
  BY <1>2, Zenon
<1>4. Without(s, X) = f[L]
  BY Zenon DEF Without
<1> HIDE DEF f
<1>5. \A n \in 0..L : f[n] = E(f, n)
  BY <1>3
<1>6. DOMAIN f = 0..L
  BY <1>3
<1>7. f[0] = <<>>
  BY <1>1, <1>5
<1>8. \A n \in 1..L : f[n] = IF s[n] \in X THEN f[n - 1] ELSE Append(f[n - 1], s[n])
  BY <1>1, <1>5
<1> HIDE DEF L
<1>9. /\ DOMAIN f = 0..L /\ f[0] = <<>>
      /\ \A n \in 1..L : f[n] = IF s[n] \in X THEN f[n - 1] ELSE Append(f[n - 1], s[n])
      /\ Without(s, X) = f[L]
  BY <1>4, <1>6, <1>7, <1>8, Zenon
<1> QED BY <1>9, Zenon DEF L

\* Appending: what is in the sequence, and whether twice.
LEMMA AppendKeeps ==
  ASSUME NEW T, NEW s \in Seq(T), NEW e \in T
  PROVE  /\ Append(s, e) \in Seq(T)
         /\ \A x : Contains(Append(s, e), x) <=> Contains(s, x) \/ x = e
         /\ IsInjective(s) /\ ~Contains(s, e) => IsInjective(Append(s, e))
<1>1. /\ Append(s, e) \in Seq(T) /\ Len(Append(s, e)) = Len(s) + 1 /\ Len(s) \in Nat
      /\ \A i \in 1..Len(s) : Append(s, e)[i] = s[i]
      /\ Append(s, e)[Len(s) + 1] = e
  BY LenProperties, AppendProperties
<1> DEFINE a == Append(s, e)
<1>2. 1..Len(a) = 1..Len(s) \cup {Len(s) + 1}
  BY <1>1
<1> HIDE DEF a
<1>3. \A i \in 1..Len(s) : a[i] = s[i]
  BY <1>1 DEF a
<1>4. a[Len(s) + 1] = e
  BY <1>1 DEF a
<1>5. \A x : Contains(a, x) <=> Contains(s, x) \/ x = e
  BY <1>2, <1>3, <1>4, Zenon DEF Contains
<1>6. DOMAIN s = 1..Len(s) /\ DOMAIN a = 1..Len(a)
  BY <1>1, LenProperties DEF a
<1>7. ASSUME IsInjective(s), ~Contains(s, e) PROVE IsInjective(a)
  <2> SUFFICES ASSUME NEW i \in 1..Len(a), NEW j \in 1..Len(a), a[i] = a[j] PROVE i = j
    BY <1>6, Zenon DEF IsInjective
  <2>1. \A k \in 1..Len(s) : a[k] # e
    BY <1>3, <1>7, Zenon DEF Contains
  <2>2. CASE i \in 1..Len(s) /\ j \in 1..Len(s)
    BY <1>3, <1>6, <1>7, <2>2, Zenon DEF IsInjective
  <2> QED BY <1>2, <1>4, <2>1, <2>2, Zenon
<1> QED BY <1>1, <1>5, <1>7 DEF a

\* Filtering: what is left is what was there and is not in the set, and nothing is there twice
\* that was not.
LEMMA WithoutKeeps ==
  ASSUME NEW T, NEW s \in Seq(T), NEW X
  PROVE  /\ Without(s, X) \in Seq(T)
         /\ \A x : Contains(Without(s, X), x) <=> Contains(s, x) /\ x \notin X
         /\ IsInjective(s) => IsInjective(Without(s, X))
<1>1. PICK f : /\ DOMAIN f = 0..Len(s) /\ f[0] = <<>>
               /\ \A n \in 1..Len(s) : f[n] = IF s[n] \in X THEN f[n - 1] ELSE Append(f[n - 1], s[n])
               /\ Without(s, X) = f[Len(s)]
  BY WithoutIs
<1> DEFINE L == Len(s)
           Kept(n) == /\ f[n] \in Seq(T)
                      /\ \A x : Contains(f[n], x) <=> x \notin X /\ \E i \in 1..n : s[i] = x
                      /\ IsInjective(s) => IsInjective(f[n])
           S == {n \in 0..L : ~Kept(n)}
<1>2. L \in Nat /\ \A n \in 1..L : s[n] \in T
  BY LenProperties, ElementOfSeq
<1>3. Kept(L)
  <2> SUFFICES ASSUME ~Kept(L) PROVE FALSE
    OBVIOUS
  <2> HIDE DEF Kept
  <2>1. S # {} /\ S \in SUBSET Nat
    BY <1>2
  <2>2. PICK m \in S : \A n \in Nat : n < m => n \notin S
    BY <2>1, LeastExists
  <2>3. CASE m = 0
    <3>1. f[0] = <<>> /\ Len(<<>>) = 0 /\ 1..0 = {} /\ <<>> \in Seq(T)
      BY <1>1
    <3>2. Kept(0)
      BY <3>1 DEF Kept, Contains, IsInjective
    <3> QED BY <2>2, <2>3, <3>2
  <2>4. CASE m # 0
    <3>1. m \in 1..L /\ m \in Nat /\ m - 1 \in 0..L /\ m - 1 \in Nat /\ m - 1 < m
      BY <1>2, <2>2, <2>4
    <3>2. Kept(m - 1)
      BY <2>2, <3>1
    <3>3. s[m] \in T /\ 1..m = 1..m - 1 \cup {m} /\ m \notin 1..m - 1
      BY <1>2, <3>1
    <3>4. f[m] = IF s[m] \in X THEN f[m - 1] ELSE Append(f[m - 1], s[m])
      BY <1>1, <3>1
    <3>5. CASE s[m] \in X
      <4>1. f[m] = f[m - 1]
        BY <3>4, <3>5
      <4>2. \A x : Contains(f[m], x) <=> x \notin X /\ \E i \in 1..m : s[i] = x
        BY <3>2, <3>3, <3>5, <4>1, Zenon DEF Kept
      <4> QED BY <2>2, <3>2, <4>1, <4>2 DEF Kept
    <3>6. CASE s[m] \notin X
      <4>1. f[m] = Append(f[m - 1], s[m])
        BY <3>4, <3>6
      <4>2. /\ f[m] \in Seq(T)
            /\ \A x : Contains(f[m], x) <=> Contains(f[m - 1], x) \/ x = s[m]
            /\ IsInjective(f[m - 1]) /\ ~Contains(f[m - 1], s[m]) => IsInjective(f[m])
        BY <3>2, <3>3, <4>1, AppendKeeps DEF Kept
      <4>3. \A x : Contains(f[m], x) <=> x \notin X /\ \E i \in 1..m : s[i] = x
        BY <3>2, <3>3, <3>6, <4>2, Zenon DEF Kept
      <4>4. IsInjective(s) => ~Contains(f[m - 1], s[m])
        <5> SUFFICES ASSUME IsInjective(s), Contains(f[m - 1], s[m]) PROVE FALSE
          OBVIOUS
        <5>1. PICK i \in 1..m - 1 : s[i] = s[m]
          BY <3>2 DEF Kept
        <5>2. i \in 1..L /\ i # m
          BY <1>2, <3>1, <3>3, <5>1
        <5> QED BY <3>1, <5>1, <5>2 DEF IsInjective
      <4>5. Kept(m)
        BY <3>2, <4>2, <4>3, <4>4 DEF Kept
      <4> QED BY <2>2, <4>5
    <3> QED BY <3>5, <3>6
  <2> QED BY <2>3, <2>4
<1> QED BY <1>1, <1>3 DEF Contains

\* Leaving one element out makes a sequence without duplicates at most one shorter.
LEMMA WithoutOne ==
  ASSUME NEW T, NEW s \in Seq(T), NEW e, IsInjective(s)
  PROVE  Len(Without(s, {e})) >= Len(s) - 1
<1> DEFINE X == {e}
<1>1. PICK f : /\ DOMAIN f = 0..Len(s) /\ f[0] = <<>>
               /\ \A n \in 1..Len(s) : f[n] = IF s[n] \in X THEN f[n - 1] ELSE Append(f[n - 1], s[n])
               /\ Without(s, X) = f[Len(s)]
  BY WithoutIs
<1> DEFINE L == Len(s)
           Kept(n) == /\ f[n] \in Seq(T) /\ Len(f[n]) >= n - 1
                      /\ (\A i \in 1..n : s[i] # e) => Len(f[n]) >= n
           S == {n \in 0..L : ~Kept(n)}
<1>2. L \in Nat /\ DOMAIN s = 1..L /\ \A n \in 1..L : s[n] \in T
  BY LenProperties, ElementOfSeq
<1>3. Kept(L)
  <2> SUFFICES ASSUME ~Kept(L) PROVE FALSE
    OBVIOUS
  <2> HIDE DEF Kept
  <2>1. S # {} /\ S \in SUBSET Nat
    BY <1>2
  <2>2. PICK m \in S : \A n \in Nat : n < m => n \notin S
    BY <2>1, LeastExists
  <2>3. CASE m = 0
    <3>1. f[0] = <<>> /\ Len(<<>>) = 0 /\ <<>> \in Seq(T)
      BY <1>1
    <3>2. Kept(0)
      BY <3>1 DEF Kept
    <3> QED BY <2>2, <2>3, <3>2
  <2>4. CASE m # 0
    <3>1. m \in 1..L /\ m \in Nat /\ m - 1 \in 0..L /\ m - 1 \in Nat /\ m - 1 < m
      BY <1>2, <2>2, <2>4
    <3>2. Kept(m - 1)
      BY <2>2, <3>1
    <3>3. s[m] \in T /\ 1..m = 1..m - 1 \cup {m} /\ \A i \in 1..m - 1 : i \in 1..L /\ i # m
      BY <1>2, <3>1
    <3>4. f[m] = IF s[m] \in X THEN f[m - 1] ELSE Append(f[m - 1], s[m])
      BY <1>1, <3>1
    <3>5. CASE s[m] = e
      <4>1. f[m] = f[m - 1]
        BY <3>4, <3>5
      <4>2. \A i \in 1..m - 1 : s[i] # e
        BY <1>2, <3>1, <3>3, <3>5 DEF IsInjective
      <4>3. Len(f[m]) >= m - 1 /\ f[m] \in Seq(T)
        BY <3>2, <4>1, <4>2 DEF Kept
      <4> QED BY <2>2, <3>1, <3>5, <4>3 DEF Kept
    <3>6. CASE s[m] # e
      <4>1. f[m] = Append(f[m - 1], s[m])
        BY <3>4, <3>6
      <4>2. f[m] \in Seq(T) /\ Len(f[m]) = Len(f[m - 1]) + 1 /\ Len(f[m - 1]) \in Nat
        BY <3>2, <3>3, <4>1, AppendProperties, LenProperties DEF Kept
      <4>3. Len(f[m]) >= m - 1
        BY <3>1, <3>2, <4>2 DEF Kept
      <4>4. (\A i \in 1..m : s[i] # e) => Len(f[m]) >= m
        BY <3>1, <3>2, <3>3, <4>2 DEF Kept
      <4> QED BY <2>2, <4>2, <4>3, <4>4 DEF Kept
    <3> QED BY <3>5, <3>6
  <2> QED BY <2>3, <2>4
<1> QED BY <1>1, <1>3

\* Inserting an element that is not there yet.
LEMMA InsertKeeps ==
  ASSUME NEW T, NEW s \in Seq(T), NEW e \in T, NEW i \in 1..Len(s) + 1, IsInjective(s), ~Contains(s, e)
  PROVE  /\ InsertAt(s, i, e) \in Seq(T) /\ IsInjective(InsertAt(s, i, e))
         /\ \A x : Contains(InsertAt(s, i, e), x) <=> Contains(s, x) \/ x = e
<1> DEFINE a == SubSeq(s, 1, i - 1)
           b == <<e>>
           c == SubSeq(s, i, Len(s))
           r == InsertAt(s, i, e)
           L == Len(s)
<1>1. L \in Nat /\ DOMAIN s = 1..L /\ i \in Nat
  BY LenProperties
<1>2. a \in Seq(T) /\ Len(a) = i - 1 /\ \A j \in 1..i - 1 : a[j] = s[j]
  BY <1>1, SubSeqProperties
<1>3. b \in Seq(T) /\ Len(b) = 1 /\ b[1] = e
  OBVIOUS
<1>4. c \in Seq(T) /\ Len(c) = L - i + 1 /\ \A j \in 1..L - i + 1 : c[j] = s[j + i - 1]
  <2>1. i <= L => /\ c \in Seq(T) /\ Len(c) = L - i + 1
                  /\ \A j \in 1..L - i + 1 : c[j] = s[i + j - 1]
    BY <1>1, SubSeqProperties
  <2>2. i = L + 1 => c = <<>>
    BY <1>1, SubSeqEmpty
  <2> HIDE DEF c
  <2>3. i <= L \/ i = L + 1
    BY <1>1
  <2>4. CASE i = L + 1
    BY <1>1, <2>2, <2>4
  <2>5. CASE i <= L
    <3>1. \A j \in 1..L - i + 1 : i + j - 1 = j + i - 1
      BY <1>1
    <3> QED BY <2>1, <2>5, <3>1
  <2> QED BY <2>3, <2>4, <2>5
<1> HIDE DEF a, b, c
<1> DEFINE ab == a \o b
<1>5. ab \in Seq(T) /\ Len(ab) = i /\ (\A j \in 1..i - 1 : ab[j] = s[j]) /\ ab[i] = e
  <2>1. ab \in Seq(T) /\ Len(ab) = Len(a) + Len(b)
        /\ \A j \in 1..Len(a) + Len(b) : ab[j] = IF j <= Len(a) THEN a[j] ELSE b[j - Len(a)]
    BY <1>2, <1>3, ConcatProperties
  <2> HIDE DEF ab
  <2>2. \A j \in 1..i - 1 : ab[j] = s[j]
    BY <1>1, <1>2, <1>3, <2>1
  <2>3. ab[i] = e
    BY <1>1, <1>2, <1>3, <2>1
  <2> QED BY <1>1, <1>2, <1>3, <2>1, <2>2, <2>3
<1>6. r = ab \o c
  BY DEF InsertAt, a, b, c
<1> HIDE DEF ab, r
<1>7. r \in Seq(T) /\ Len(r) = L + 1 /\ r[i] = e
      /\ (\A j \in 1..i - 1 : r[j] = s[j]) /\ (\A j \in i + 1..L + 1 : r[j] = s[j - 1])
  <2>1. r \in Seq(T) /\ Len(r) = Len(ab) + Len(c)
        /\ \A j \in 1..Len(ab) + Len(c) : r[j] = IF j <= Len(ab) THEN ab[j] ELSE c[j - Len(ab)]
    BY <1>4, <1>5, <1>6, ConcatProperties
  <2>2. \A j \in 1..i - 1 : r[j] = s[j]
    BY <1>1, <1>4, <1>5, <2>1
  <2>3. r[i] = e
    BY <1>1, <1>4, <1>5, <2>1
  <2>4. ASSUME NEW j \in i + 1..L + 1 PROVE r[j] = s[j - 1]
    <3>1. j \in 1..i + (L - i + 1) /\ ~(j <= i) /\ j - i \in 1..L - i + 1 /\ (j - i) + i - 1 = j - 1
      BY <1>1
    <3>2. r[j] = c[j - i]
      BY <1>4, <1>5, <2>1, <3>1
    <3>3. c[j - i] = s[(j - i) + i - 1]
      BY <1>4, <3>1
    <3> QED BY <3>1, <3>2, <3>3
  <2> QED BY <1>1, <1>4, <1>5, <2>1, <2>2, <2>3, <2>4
<1>8. DOMAIN r = 1..L + 1
  BY <1>7, LenProperties
<1>9. \A j \in 1..L + 1 : j \in 1..i - 1 \/ j = i \/ (j \in i + 1..L + 1 /\ j - 1 \in 1..L)
  BY <1>1
<1>10. \A k \in 1..L : k \in 1..i - 1 \/ (k + 1 \in i + 1..L + 1 /\ (k + 1) - 1 = k)
  BY <1>1
<1>11. \A x : Contains(r, x) <=> Contains(s, x) \/ x = e
  <2> TAKE x
  <2>1. ASSUME Contains(r, x) PROVE Contains(s, x) \/ x = e
    <3>1. PICK j \in 1..L + 1 : r[j] = x
      BY <1>7, <2>1 DEF Contains
    <3>2. CASE j \in 1..i - 1
      BY <1>1, <1>7, <3>1, <3>2 DEF Contains
    <3>3. CASE j = i
      BY <1>7, <3>1, <3>3
    <3>4. CASE j \in i + 1..L + 1 /\ j - 1 \in 1..L
      BY <1>1, <1>7, <3>1, <3>4 DEF Contains
    <3> QED BY <1>9, <3>2, <3>3, <3>4
  <2>2. ASSUME Contains(s, x) PROVE Contains(r, x)
    <3>1. PICK k \in 1..L : s[k] = x
      BY <2>2 DEF Contains
    <3>2. CASE k \in 1..i - 1
      BY <1>1, <1>7, <3>1, <3>2 DEF Contains
    <3>3. CASE k + 1 \in i + 1..L + 1 /\ (k + 1) - 1 = k
      <4>1. r[k + 1] = x /\ k + 1 \in 1..L + 1
        BY <1>1, <1>7, <3>1, <3>3
      <4> QED BY <1>7, <4>1 DEF Contains
    <3> QED BY <1>10, <3>2, <3>3
  <2>3. Contains(r, e)
    BY <1>1, <1>7 DEF Contains
  <2> QED BY <2>1, <2>2, <2>3
<1>12. IsInjective(r)
  <2> SUFFICES ASSUME NEW j \in 1..L + 1, NEW k \in 1..L + 1, r[j] = r[k], j < k PROVE FALSE
    BY <1>1, <1>8 DEF IsInjective
  <2>1. \A n \in 1..L : s[n] # e
    BY DEF Contains
  <2>2. j \in 1..i - 1 \/ j = i \/ (j \in i + 1..L + 1 /\ j - 1 \in 1..L)
    BY <1>9
  <2>3. k \in 1..i - 1 \/ k = i \/ (k \in i + 1..L + 1 /\ k - 1 \in 1..L)
    BY <1>9
  <2>4. \A m, n \in 1..L : s[m] = s[n] => m = n
    BY <1>1 DEF IsInjective
  <2>5. CASE j \in 1..i - 1 /\ k \in 1..i - 1
    BY <1>1, <1>7, <2>4, <2>5
  <2>6. CASE j = i \/ k = i
    BY <1>1, <1>7, <2>1, <2>2, <2>3, <2>6
  <2>7. CASE j \in 1..i - 1 /\ k \in i + 1..L + 1 /\ k - 1 \in 1..L
    BY <1>1, <1>7, <2>4, <2>7
  <2>8. CASE j \in i + 1..L + 1 /\ j - 1 \in 1..L /\ k \in i + 1..L + 1 /\ k - 1 \in 1..L
    BY <1>1, <1>7, <2>4, <2>8
  <2> QED BY <1>1, <2>2, <2>3, <2>5, <2>6, <2>7, <2>8
<1> QED BY <1>7, <1>11, <1>12 DEF r

\* Removing an element leaves a sequence of the same kind.
LEMMA RemoveAtTyped ==
  ASSUME NEW T, NEW s \in Seq(T), NEW i \in DOMAIN s
  PROVE  RemoveAt(s, i) \in Seq(T)
<1>1. Len(s) \in Nat /\ i \in 1..Len(s)
  BY LenProperties
<1>2. SubSeq(s, 1, i - 1) \in Seq(T) /\ SubSeq(s, i + 1, Len(s)) \in Seq(T)
  BY <1>1, SubSeqProperties
<1> QED BY <1>2, ConcatProperties DEF RemoveAt
=============================================================================
