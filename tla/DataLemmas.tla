------------------------------ MODULE DataLemmas ------------------------------
(***************************************************************************)
(* Facts about data that the proofs rest on and the library does not have, *)
(* or not in this form: the least element of a set of numbers, powers of   *)
(* two, quotients and remainders, and what is at which place of a sequence *)
(* after an operation.                                                     *)
(***************************************************************************)
EXTENDS Integers, Sequences, FiniteSetsExt, Functions, FiniteSetTheorems, FunctionTheorems,
        SequenceTheorems, WellFoundedInduction, TLAPS

-----------------------------------------------------------------------------
(* Well-ordering of the naturals.  It stands in for induction in the       *)
(* proofs below: take the least counterexample.                            *)
LEMMA NatLeast ==
  ASSUME NEW S \in SUBSET Nat, S # {}
  PROVE  \E n \in S : \A m \in S : n <= m
<1>1. \E x \in S : \A y \in S : ~ (<<y, x>> \in OpToRel(<, Nat))
  BY NatLessThanWellFounded, WFMin
<1>2. PICK x \in S : \A y \in S : ~ (<<y, x>> \in OpToRel(<, Nat))
  BY <1>1
<1>3. OpToRel(<, Nat) = {ss \in Nat \X Nat : ss[1] < ss[2]}
  BY DEF OpToRel
<1>4. \A y \in S : ~ (y < x)
  <2> SUFFICES ASSUME NEW y \in S, y < x PROVE FALSE
    OBVIOUS
  <2>1. <<y, x>> \in {ss \in Nat \X Nat : ss[1] < ss[2]}
    OBVIOUS
  <2> QED BY <2>1, <1>2, <1>3
<1> QED BY <1>4

(* Min is the least element of a non-empty set of naturals. *)
LEMMA MinLeast ==
  ASSUME NEW S \in SUBSET Nat, S # {}
  PROVE  Min(S) \in S /\ \A m \in S : Min(S) <= m
BY NatLeast DEF Min

(* Powers of two, by counting subsets: the library has no other fact on ^. *)
LEMMA Pow2Nat ==
  ASSUME NEW n \in Nat
  PROVE  2^n \in Nat
<1>1. IsFiniteSet(1..n) /\ Cardinality(1..n) = n
  BY FS_Interval
<1>2. IsFiniteSet(SUBSET (1..n)) /\ Cardinality(SUBSET (1..n)) = 2^n
  BY <1>1, FS_SUBSET
<1> QED BY <1>2, FS_CardinalityType

(* Half of the subsets of 1..n+1 contain n+1. *)
LEMMA Pow2Succ ==
  ASSUME NEW n \in Nat
  PROVE  2^(n+1) = 2 * 2^n
<1> DEFINE A == 1..n
           B == 1..(n+1)
           T == {X \in SUBSET B : n+1 \in X}
           f == [X \in SUBSET A |-> X \cup {n+1}]
<1>1. IsFiniteSet(A) /\ Cardinality(A) = n /\ IsFiniteSet(B) /\ Cardinality(B) = n+1
  BY FS_Interval
<1>2. IsFiniteSet(SUBSET A) /\ Cardinality(SUBSET A) = 2^n
  BY <1>1, FS_SUBSET
<1>3. IsFiniteSet(SUBSET B) /\ Cardinality(SUBSET B) = 2^(n+1)
  BY <1>1, FS_SUBSET
<1>4. f \in Bijection(SUBSET A, T)
  <2>1. f \in [SUBSET A -> T]
    OBVIOUS
  <2>2. \A X, Y \in SUBSET A : f[X] = f[Y] => X = Y
    OBVIOUS
  <2>3. \A Z \in T : \E X \in SUBSET A : f[X] = Z
    <3> TAKE Z \in T
    <3>1. Z \ {n+1} \in SUBSET A
      OBVIOUS
    <3>2. f[Z \ {n+1}] = Z
      BY <3>1
    <3> QED BY <3>1, <3>2
  <2> HIDE DEF f
  <2> QED BY <2>1, <2>2, <2>3 DEF Bijection, Injection, Surjection, IsInjective
<1>5. IsFiniteSet(T) /\ Cardinality(T) = Cardinality(SUBSET A)
  BY <1>2, <1>4, FS_Bijection DEF ExistsBijection
<1>6. SUBSET B = (SUBSET A) \cup T
  OBVIOUS
<1>7. (SUBSET A) \cap T = {}
  OBVIOUS
<1>8. Cardinality(SUBSET B)
        = Cardinality(SUBSET A) + Cardinality(T) - Cardinality((SUBSET A) \cap T)
  BY <1>2, <1>5, <1>6, FS_Union
<1>9. Cardinality((SUBSET A) \cap T) = 0
  BY <1>7, FS_EmptySet
<1>10. 2^n \in Nat
  BY Pow2Nat
<1> HIDE DEF A, B, T, f
<1> QED BY <1>2, <1>3, <1>5, <1>8, <1>9, <1>10

(* Powers of two are positive.                                             *)
LEMMA Pow2Pos ==
  ASSUME NEW n \in Nat
  PROVE  2^n \in Nat \ {0}
<1>1. IsFiniteSet(1..n) /\ Cardinality(1..n) = n
  BY FS_Interval
<1>2. IsFiniteSet(SUBSET (1..n)) /\ Cardinality(SUBSET (1..n)) = 2^n
  BY <1>1, FS_SUBSET
<1>3. SUBSET (1..n) # {}
  OBVIOUS
<1> QED BY <1>2, <1>3, FS_CardinalityType, FS_EmptySet

(* The least of them.                                                      *)
LEMMA Pow2Zero == 2^0 = 1
<1>1. IsFiniteSet(1..0) /\ Cardinality(1..0) = 0
  BY FS_Interval
<1>2. IsFiniteSet(SUBSET (1..0)) /\ Cardinality(SUBSET (1..0)) = 2^0
  BY <1>1, FS_SUBSET
<1>3. SUBSET (1..0) = {{}}
  OBVIOUS
<1> QED BY <1>2, <1>3, FS_Singleton

(* Powers of two outgrow their exponents, and multiply as the exponents add. *)
LEMMA Pow2Above ==
  ASSUME NEW n \in Nat
  PROVE  n < 2^n
<1> DEFINE Bad == {k \in Nat : ~(k < 2^k)}
<1>1. Bad = {}
  <2> SUFFICES ASSUME Bad # {} PROVE FALSE
    OBVIOUS
  <2>1. PICK k \in Bad : \A m \in Bad : k <= m
    BY NatLeast
  <2>2. CASE k = 0
    BY <2>1, <2>2, Pow2Pos
  <2>3. CASE k # 0
    <3>1. k - 1 \in Nat /\ ~(k <= k - 1) /\ (k - 1) + 1 = k
      BY <2>3
    <3>2. k - 1 < 2^(k - 1)
      BY <2>1, <3>1
    <3>3. 2^k = 2 * 2^(k - 1) /\ 2^(k - 1) \in Nat
      BY <3>1, Pow2Succ, Pow2Nat
    <3>4. k < 2^k
      BY <3>1, <3>2, <3>3
    <3> QED BY <2>1, <3>4
  <2> QED BY <2>2, <2>3
<1> QED BY <1>1

(* Exponents add up.                                                       *)
LEMMA Pow2Add ==
  ASSUME NEW m \in Nat, NEW n \in Nat
  PROVE  2^(m + n) = 2^m * 2^n
<1> DEFINE Bad == {k \in Nat : 2^(m + k) # 2^m * 2^k}
<1>1. Bad = {}
  <2> SUFFICES ASSUME Bad # {} PROVE FALSE
    OBVIOUS
  <2>1. PICK k \in Bad : \A j \in Bad : k <= j
    BY NatLeast
  <2>2. CASE k = 0
    <3>1. m + k = m /\ 2^k = 1 /\ 2^m \in Nat
      BY <2>2, Pow2Zero, Pow2Nat
    <3> QED BY <2>1, <3>1
  <2>3. CASE k # 0
    <3> DEFINE j == k - 1
    <3>1. j \in Nat /\ ~(k <= j) /\ j + 1 = k /\ m + j \in Nat /\ (m + j) + 1 = m + k
      BY <2>3
    <3> HIDE DEF j
    <3>2. 2^(m + j) = 2^m * 2^j
      BY <2>1, <3>1
    <3>3. 2^k = 2 * 2^j /\ 2^(m + k) = 2 * 2^(m + j)
      BY <3>1, Pow2Succ
    <3>4. 2^m \in Nat /\ 2^j \in Nat
      BY <3>1, Pow2Nat
    <3>5. 2^(m + k) = 2^m * 2^k
      BY <3>2, <3>3, <3>4
    <3> QED BY <2>1, <3>5
  <2> QED BY <2>2, <2>3
<1> QED BY <1>1

-----------------------------------------------------------------------------
(* Quotient and remainder, and that they are unique.                       *)
LEMMA QuotRem ==
  ASSUME NEW a \in Nat, NEW p \in Nat, p > 0
  PROVE  /\ a \div p \in Nat
         /\ a % p \in Nat
         /\ a % p < p
         /\ a = (a \div p) * p + (a % p)
OBVIOUS

(* Multiples of p are p apart.                                             *)
LEMMA MultMono ==
  ASSUME NEW p \in Nat, p > 0, NEW m \in Int, NEW n \in Int, m < n
  PROVE  m * p + p <= n * p
<1>1. PICK d \in Nat : n = m + 1 + d
  <2>1. n - m - 1 \in Nat /\ n = m + 1 + (n - m - 1)
    OBVIOUS
  <2> QED BY <2>1
<1>2. n * p = m * p + p + d * p
  BY <1>1
<1>3. d * p \in Nat
  OBVIOUS
<1> QED BY <1>2, <1>3

(* Quotient and remainder are unique.                                      *)
LEMMA QuotUnique ==
  ASSUME NEW p \in Nat, p > 0, NEW q \in Int, NEW k \in Int,
         NEW r \in Nat, NEW s \in Nat, r < p, s < p,
         q * p + r = k * p + s
  PROVE  q = k /\ r = s
<1>1. ~(q < k)
  <2> SUFFICES ASSUME q < k PROVE FALSE
    OBVIOUS
  <2>1. q * p + p <= k * p
    BY MultMono
  <2>2. q * p \in Int /\ k * p \in Int
    OBVIOUS
  <2> QED BY <2>1, <2>2
<1>2. ~(k < q)
  <2> SUFFICES ASSUME k < q PROVE FALSE
    OBVIOUS
  <2>1. k * p + p <= q * p
    BY MultMono
  <2>2. q * p \in Int /\ k * p \in Int
    OBVIOUS
  <2> QED BY <2>1, <2>2
<1>3. q = k
  BY <1>1, <1>2
<1>4. q * p \in Int /\ q * p = k * p
  BY <1>3
<1> QED BY <1>3, <1>4

(* Quotient and remainder of a number that is given by them.               *)
LEMMA RemOfSum ==
  ASSUME NEW p \in Nat, p > 0, NEW q \in Nat, NEW r \in Nat, r < p
  PROVE  (q * p + r) % p = r /\ (q * p + r) \div p = q
<1> DEFINE a == q * p + r
<1>1. a \in Nat
  OBVIOUS
<1>2. a \div p \in Nat /\ a % p \in Nat /\ a % p < p /\ a = (a \div p) * p + (a % p)
  BY <1>1, QuotRem
<1>3. a = q * p + r
  OBVIOUS
<1> HIDE DEF a
<1>4. a \div p = q /\ a % p = r
  BY <1>1, <1>2, <1>3, QuotUnique
<1> QED BY <1>3, <1>4

(* The same for integers; two naturals differ by a multiple of p if and only *)
(* if they have the same remainder. *)
LEMMA IntQuotRem ==
  ASSUME NEW a \in Int, NEW p \in Nat, p > 0
  PROVE  /\ a \div p \in Int
         /\ a % p \in Nat
         /\ a % p < p
         /\ a = (a \div p) * p + (a % p)
OBVIOUS

(* The same for integers.                                                  *)
LEMMA IntRemUnique ==
  ASSUME NEW p \in Nat, p > 0, NEW q \in Int, NEW r \in Nat, r < p
  PROVE  (q * p + r) % p = r
<1> DEFINE a == q * p + r
<1>1. a \in Int
  OBVIOUS
<1>2. a \div p \in Int /\ a % p \in Nat /\ a % p < p /\ a = (a \div p) * p + (a % p)
  BY <1>1, IntQuotRem
<1>3. a = q * p + r
  OBVIOUS
<1> HIDE DEF a
<1>4. a % p = r
  BY <1>1, <1>2, <1>3, QuotUnique
<1> QED BY <1>3, <1>4

(* p divides a difference exactly if the remainders agree.                 *)
LEMMA DiffRem ==
  ASSUME NEW a \in Nat, NEW b \in Nat, NEW p \in Nat, p > 0
  PROVE  (a - b) % p = 0 <=> a % p = b % p
<1> DEFINE d == a - b
<1>1. /\ a \div p \in Int /\ a % p \in Nat /\ a % p < p /\ a = (a \div p) * p + (a % p)
      /\ b \div p \in Int /\ b % p \in Nat /\ b % p < p /\ b = (b \div p) * p + (b % p)
  BY IntQuotRem
<1>2. d \in Int /\ d \div p \in Int /\ d % p \in Nat /\ d % p < p /\ d = (d \div p) * p + (d % p)
  BY IntQuotRem
<1>3. ASSUME a % p = b % p PROVE d % p = 0
  <2> DEFINE q == (a \div p) - (b \div p)
  <2>1. q \in Int /\ d = q * p + 0
    BY <1>1, <1>3
  <2> HIDE DEF q, d
  <2> QED BY <2>1, IntRemUnique
<1>4. ASSUME d % p = 0 PROVE a % p = b % p
  <2> DEFINE q == (d \div p) + (b \div p)
  <2>1. q \in Int /\ a = q * p + (b % p)
    BY <1>1, <1>2, <1>4
  <2> HIDE DEF q, d
  <2> QED BY <1>1, <2>1, IntRemUnique
<1> QED BY <1>3, <1>4

(* The remainder by q * p consists of the remainder by q and the next digit. *)
LEMMA DigitRem ==
  ASSUME NEW a \in Nat, NEW p \in Nat, p > 0, NEW q \in Nat, q > 0
  PROVE  /\ a % (q * p) = ((a \div q) % p) * q + (a % q)
         /\ (a \div q) % p \in Nat /\ a % q \in Nat /\ a % q < q
<1> DEFINE A == a \div q
           x == a % q
           B == A \div p
           y == A % p
<1>1. A \in Nat /\ x \in Nat /\ x < q /\ a = A * q + x
  BY QuotRem
<1>2. B \in Nat /\ y \in Nat /\ y < p /\ A = B * p + y
  BY <1>1, QuotRem
<1> HIDE DEF A, x, B, y
<1> DEFINE r == y * q + x
           m == q * p
<1>3. m \in Nat /\ r \in Nat
  BY <1>1, <1>2
<1>4. a = B * m + r
  BY <1>1, <1>2
<1>5. r < m
  <2>1. y * q + q <= p * q
    BY <1>2, MultMono
  <2>2. y * q \in Nat /\ p * q \in Nat /\ p * q = m
    BY <1>2
  <2> QED BY <1>1, <2>1, <2>2
<1>6. m > 0
  BY <1>3, <1>5
<1> HIDE DEF m, r
<1>7. (B * m + r) % m = r
  BY <1>2, <1>3, <1>5, <1>6, RemOfSum
<1>8. a % m = r
  BY <1>4, <1>7
<1> QED BY <1>1, <1>2, <1>8 DEF m, r, A, x, B, y

-----------------------------------------------------------------------------
(* Sequences: what is in them after an operation, and at which places.     *)
LEMMA SeqAppend ==
  ASSUME NEW S, NEW s \in Seq(S), NEW e \in S
  PROVE  /\ Append(s, e) \in Seq(S)
         /\ Len(Append(s, e)) = Len(s) + 1
         /\ DOMAIN Append(s, e) = 1 .. Len(s) + 1
         /\ \A n \in DOMAIN s : Append(s, e)[n] = s[n]
         /\ Append(s, e)[Len(s) + 1] = e
         /\ Range(Append(s, e)) = Range(s) \cup {e}
BY DEF Range

(* A sequence is its head and its tail.                                    *)
LEMMA SeqTail ==
  ASSUME NEW S, NEW s \in Seq(S), s # <<>>
  PROVE  /\ Head(s) \in S /\ Head(s) = s[1] /\ 1 \in DOMAIN s
         /\ Tail(s) \in Seq(S)
         /\ DOMAIN s = 1 .. Len(s) /\ Len(s) \in Nat
         /\ DOMAIN Tail(s) = 1 .. Len(s) - 1
         /\ \A n \in DOMAIN Tail(s) : Tail(s)[n] = s[n + 1]
         /\ Head(s) \in Range(s) /\ Range(Tail(s)) \subseteq Range(s)
BY DEF Range

(* The elements of two sequences, one after the other.                     *)
LEMMA SeqConcat ==
  ASSUME NEW S, NEW s \in Seq(S), NEW l \in Seq(S)
  PROVE  /\ s \o l \in Seq(S)
         /\ Len(s) \in Nat /\ Len(l) \in Nat
         /\ DOMAIN (s \o l) = 1 .. Len(s) + Len(l)
         /\ \A n \in DOMAIN s : (s \o l)[n] = s[n]
         /\ \A n \in DOMAIN l : (s \o l)[Len(s) + n] = l[n]
         /\ Range(s \o l) = Range(s) \cup Range(l)
<1> DEFINE c == s \o l
<1>1. /\ c \in Seq(S)
      /\ Len(c) = Len(s) + Len(l)
      /\ \A i \in 1 .. Len(s) + Len(l) : c[i] = IF i <= Len(s) THEN s[i] ELSE l[i - Len(s)]
  BY ConcatProperties
<1>2. Len(s) \in Nat /\ Len(l) \in Nat /\ DOMAIN s = 1 .. Len(s) /\ DOMAIN l = 1 .. Len(l)
      /\ DOMAIN c = 1 .. Len(c)
  BY <1>1, LenProperties
<1> HIDE DEF c
<1>3. DOMAIN c = 1 .. Len(s) + Len(l)
  BY <1>1, <1>2
<1>4. \A n \in DOMAIN s : n \in DOMAIN c /\ c[n] = s[n]
  BY <1>1, <1>2, <1>3
<1>5. \A n \in DOMAIN l : Len(s) + n \in DOMAIN c /\ c[Len(s) + n] = l[n]
  <2> TAKE n \in DOMAIN l
  <2>1. Len(s) + n \in 1 .. Len(s) + Len(l) /\ ~(Len(s) + n <= Len(s)) /\ (Len(s) + n) - Len(s) = n
    BY <1>2
  <2> QED BY <1>1, <1>3, <2>1
<1>6. \A i \in DOMAIN c : (i \in DOMAIN s /\ c[i] = s[i])
                            \/ (i - Len(s) \in DOMAIN l /\ c[i] = l[i - Len(s)])
  BY <1>1, <1>2, <1>3
<1>7. Range(c) = Range(s) \cup Range(l)
  BY <1>4, <1>5, <1>6 DEF Range
<1> QED BY <1>1, <1>2, <1>3, <1>4, <1>5, <1>7 DEF c

(* The elements of a sequence with one put before it.                      *)
LEMMA SeqCons ==
  ASSUME NEW S, NEW s \in Seq(S), NEW e \in S
  PROVE  /\ <<e>> \o s \in Seq(S)
         /\ Len(s) \in Nat
         /\ DOMAIN (<<e>> \o s) = 1 .. Len(s) + 1
         /\ (<<e>> \o s)[1] = e
         /\ \A n \in DOMAIN s : (<<e>> \o s)[n + 1] = s[n]
         /\ Range(<<e>> \o s) = {e} \cup Range(s)
<1> DEFINE h == <<e>>
<1>1. h \in Seq(S) /\ Len(h) = 1 /\ DOMAIN h = {1} /\ h[1] = e
  OBVIOUS
<1> HIDE DEF h
<1>2. Range(h) = {e}
  BY <1>1 DEF Range
<1>3. /\ h \o s \in Seq(S)
      /\ Len(s) \in Nat
      /\ DOMAIN (h \o s) = 1 .. Len(h) + Len(s)
      /\ \A n \in DOMAIN h : (h \o s)[n] = h[n]
      /\ \A n \in DOMAIN s : (h \o s)[Len(h) + n] = s[n]
      /\ Range(h \o s) = Range(h) \cup Range(s)
  <2>1. h \in Seq(S)
    BY <1>1
  <2> QED BY <2>1, SeqConcat
<1>4. DOMAIN s = 1 .. Len(s)
  BY LenProperties
<1>5. \A n \in DOMAIN s : Len(h) + n = n + 1
  BY <1>1, <1>3, <1>4
<1> QED BY <1>1, <1>2, <1>3, <1>5 DEF h

(* Lists without repetition stay so. *)
LEMMA InjectiveTail ==
  ASSUME NEW S, NEW s \in Seq(S), s # <<>>, IsInjective(s)
  PROVE  /\ IsInjective(Tail(s))
         /\ Range(Tail(s)) = Range(s) \ {Head(s)}
<1> DEFINE l == Tail(s)
           h == Head(s)
<1>1. /\ h = s[1] /\ 1 \in DOMAIN s /\ Len(s) \in Nat
      /\ DOMAIN s = 1 .. Len(s) /\ DOMAIN l = 1 .. Len(s) - 1
      /\ \A n \in DOMAIN l : l[n] = s[n + 1]
  BY SeqTail
<1> HIDE DEF l, h
<1>2. \A n \in DOMAIN l : n + 1 \in DOMAIN s /\ n + 1 # 1 /\ l[n] = s[n + 1]
  BY <1>1
<1>3. \A m \in DOMAIN s : m = 1 \/ (m - 1 \in DOMAIN l /\ l[m - 1] = s[m])
  BY <1>1
<1>4. IsInjective(l)
  <2> SUFFICES ASSUME NEW a \in DOMAIN l, NEW b \in DOMAIN l, l[a] = l[b] PROVE a = b
    BY DEF IsInjective
  <2>1. a + 1 = b + 1
    BY <1>2 DEF IsInjective
  <2> QED BY <1>1, <2>1
<1>5. \A n \in DOMAIN l : l[n] # h
  BY <1>1, <1>2 DEF IsInjective
<1>6. Range(l) = Range(s) \ {h}
  BY <1>1, <1>2, <1>3, <1>5 DEF Range
<1> QED BY <1>4, <1>6 DEF l, h

(* Putting something new before a sequence repeats nothing.                *)
LEMMA InjectiveCons ==
  ASSUME NEW S, NEW s \in Seq(S), NEW e \in S, e \notin Range(s), IsInjective(s)
  PROVE  IsInjective(<<e>> \o s)
<1> DEFINE c == <<e>> \o s
<1>1. /\ DOMAIN c = 1 .. Len(s) + 1 /\ Len(s) \in Nat /\ DOMAIN s = 1 .. Len(s)
      /\ c[1] = e
      /\ \A n \in DOMAIN s : c[n + 1] = s[n]
  BY SeqCons, LenProperties
<1> HIDE DEF c
<1>2. \A m \in DOMAIN c : m = 1 \/ (m - 1 \in DOMAIN s /\ c[m] = s[m - 1])
  <2> TAKE m \in DOMAIN c
  <2>1. CASE m # 1
    <3>1. m - 1 \in DOMAIN s /\ (m - 1) + 1 = m
      BY <1>1, <2>1
    <3> QED BY <1>1, <3>1
  <2> QED BY <2>1
<1>3. \A n \in DOMAIN s : s[n] # e
  BY DEF Range
<1>4. ASSUME NEW a \in DOMAIN c, NEW b \in DOMAIN c, c[a] = c[b] PROVE a = b
  <2>1. CASE a = 1 \/ b = 1
    BY <1>1, <1>2, <1>3, <1>4, <2>1
  <2>2. CASE a # 1 /\ b # 1
    <3>1. a - 1 = b - 1
      BY <1>2, <1>4, <2>2 DEF IsInjective
    <3> QED BY <1>1, <3>1
  <2> QED BY <2>1, <2>2
<1> QED BY <1>4 DEF IsInjective, c

(* The image of a finite set, and the positions of finitely many sequences. *)
LEMMA FiniteImage ==
  ASSUME NEW S, IsFiniteSet(S), NEW f
  PROVE  IsFiniteSet({f[x] : x \in S})
<1> DEFINE T == {f[x] : x \in S}
           g == [x \in S |-> f[x]]
<1>1. g \in Surjection(S, T)
  BY DEF Surjection
<1> HIDE DEF T, g
<1>2. IsFiniteSet(T)
  BY <1>1, FS_Surjection
<1> QED BY <1>2 DEF T

(* A function that repeats nothing has as many values as arguments.         *)
LEMMA CountOfImage ==
  ASSUME NEW S, IsFiniteSet(S), NEW f, \A x, y \in S : f[x] = f[y] => x = y
  PROVE  IsFiniteSet({f[x] : x \in S}) /\ Cardinality({f[x] : x \in S}) = Cardinality(S)
<1> DEFINE T == {f[x] : x \in S}
           g == [x \in S |-> f[x]]
<1>1. g \in Bijection(S, T)
  <2>1. g \in [S -> T] /\ \A x \in S : g[x] = f[x]
    OBVIOUS
  <2>2. \A x, y \in S : g[x] = g[y] => x = y
    BY <2>1
  <2>3. \A t \in T : \E x \in S : g[x] = t
    BY <2>1
  <2> HIDE DEF g, T
  <2> QED BY <2>1, <2>2, <2>3 DEF Bijection, Injection, Surjection, IsInjective
<1>2. ExistsBijection(S, T)
  BY <1>1 DEF ExistsBijection
<1> HIDE DEF g, T
<1>3. IsFiniteSet(T) /\ Cardinality(T) = Cardinality(S)
  BY <1>2, FS_Bijection
<1> QED BY <1>3 DEF T

PositionsIn(c, I) == UNION {{<<i, n>> : n \in DOMAIN c[i]} : i \in I}

(* Finitely many sequences have finitely many positions.                   *)
LEMMA FinitePositions ==
  ASSUME NEW I, IsFiniteSet(I), NEW S, NEW c \in [I -> Seq(S)]
  PROVE  IsFiniteSet(PositionsIn(c, I))
<1> DEFINE f == [i \in I |-> {<<i, n>> : n \in DOMAIN c[i]}]
           F == {f[i] : i \in I}
<1>1. ASSUME NEW i \in I PROVE IsFiniteSet(f[i])
  <2> DEFINE g == [n \in DOMAIN c[i] |-> <<i, n>>]
  <2>1. IsFiniteSet(DOMAIN c[i])
    <3>1. c[i] \in Seq(S)
      OBVIOUS
    <3>2. DOMAIN c[i] = 1 .. Len(c[i]) /\ Len(c[i]) \in Nat
      BY <3>1, LenProperties
    <3> QED BY <3>2, FS_Interval
  <2>2. IsFiniteSet({g[n] : n \in DOMAIN c[i]})
    BY <2>1, FiniteImage
  <2>3. {g[n] : n \in DOMAIN c[i]} = f[i]
    OBVIOUS
  <2> QED BY <2>2, <2>3
<1>2. PositionsIn(c, I) = UNION F
  BY DEF PositionsIn
<1> HIDE DEF f
<1>3. IsFiniteSet(F)
  BY FiniteImage
<1>4. \A T \in F : IsFiniteSet(T)
  BY <1>1
<1> HIDE DEF F
<1>5. IsFiniteSet(UNION F)
  BY <1>3, <1>4, FS_UNION
<1> QED BY <1>2, <1>5

(* A finite set of numbers has a greatest one. *)
LEMMA MaxGreatest ==
  ASSUME NEW S \in SUBSET Nat, S # {}, IsFiniteSet(S)
  PROVE  Max(S) \in S /\ \A m \in S : m <= Max(S)
<1>1. PICK n \in Nat : ExistsBijection(1 .. n, S)
  BY FS_CardinalityType
<1>2. PICK f : f \in Bijection(1 .. n, S)
  BY <1>1 DEF ExistsBijection
<1>3. /\ \A k \in 1 .. n : f[k] \in S
      /\ \A m \in S : \E k \in 1 .. n : f[k] = m
  BY <1>2 DEF Bijection, Injection, Surjection
<1> DEFINE Good(k) == k = 0 \/ \E m \in 1 .. k : \A j \in 1 .. k : f[j] <= f[m]
           Bad == {k \in Nat : k <= n /\ ~Good(k)}
<1>4. Bad = {}
  <2> SUFFICES ASSUME Bad # {} PROVE FALSE
    OBVIOUS
  <2>1. PICK b \in Bad : \A k \in Bad : b <= k
    BY NatLeast
  <2>2. b \in Nat /\ b <= n /\ b # 0 /\ b \in 1 .. n
    BY <2>1
  <2>3. b - 1 \in Nat /\ b - 1 <= n /\ ~(b <= b - 1)
    BY <2>2
  <2>4. Good(b - 1)
    BY <2>1, <2>3
  <2>5. Good(b)
    <3>1. \A k \in 1 .. b : f[k] \in Nat
      <4> TAKE k \in 1 .. b
      <4>1. k \in 1 .. n
        BY <2>2
      <4> QED BY <1>3, <4>1
    <3>2. CASE b - 1 = 0
      <4>1. b = 1
        BY <2>2, <3>2
      <4>2. f[1] <= f[1]
        BY <3>1, <4>1
      <4>3. \A j \in 1 .. b : f[j] <= f[1]
        BY <4>1, <4>2
      <4> QED BY <4>1, <4>3
    <3>3. CASE b - 1 # 0
      <4>1. PICK m \in 1 .. b - 1 : \A j \in 1 .. b - 1 : f[j] <= f[m]
        BY <2>4, <3>3
      <4>2. m \in 1 .. b /\ b \in 1 .. b /\ f[m] \in Nat /\ f[b] \in Nat
        BY <2>2, <3>1
      <4>3. \A j \in 1 .. b : j \in 1 .. b - 1 \/ j = b
        BY <2>2
      <4>4. CASE f[b] <= f[m]
        <5>1. \A j \in 1 .. b : f[j] <= f[m]
          BY <4>1, <4>3, <4>4
        <5> QED BY <4>2, <5>1
      <4>5. CASE f[m] < f[b]
        <5>1. ASSUME NEW j \in 1 .. b PROVE f[j] <= f[b]
          <6>1. f[j] \in Nat
            BY <3>1
          <6>2. CASE j = b
            BY <6>1, <6>2
          <6>3. CASE j \in 1 .. b - 1
            <7>1. f[j] <= f[m]
              BY <4>1, <6>3
            <7> QED BY <4>2, <4>5, <6>1, <7>1
          <6> QED BY <4>3, <6>2, <6>3
        <5> QED BY <4>2, <5>1
      <4> QED BY <4>2, <4>4, <4>5
    <3> QED BY <3>2, <3>3
  <2> QED BY <2>1, <2>5
<1>5. n # 0 /\ Good(n)
  <2>1. n # 0
    <3> SUFFICES ASSUME n = 0 PROVE FALSE
      OBVIOUS
    <3>1. PICK m \in S : TRUE
      OBVIOUS
    <3>2. PICK k \in 1 .. n : f[k] = m
      BY <1>3
    <3> QED BY <3>2
  <2>2. n \notin Bad
    BY <1>4
  <2> QED BY <2>1, <2>2
<1>6. PICK m \in 1 .. n : \A j \in 1 .. n : f[j] <= f[m]
  BY <1>5
<1>7. f[m] \in S /\ \A x \in S : x <= f[m]
  BY <1>3, <1>6
<1>8. \E x \in S : \A y \in S : x >= y
  BY <1>7
<1>9. Max(S) \in S /\ \A y \in S : Max(S) >= y
  BY <1>8 DEF Max
<1> QED BY <1>9

(* The leading bit of a number. *)
LEMMA Pow2Mono ==
  ASSUME NEW m \in Nat, NEW n \in Nat, m < n
  PROVE  2 * 2 ^ m <= 2 ^ n
<1>1. n - (m + 1) \in Nat /\ m + 1 \in Nat /\ (m + 1) + (n - (m + 1)) = n
  OBVIOUS
<1>2. 2 ^ n = 2 ^ (m + 1) * 2 ^ (n - (m + 1))
  BY <1>1, Pow2Add
<1> DEFINE p == 2 ^ m
           q == 2 ^ (n - (m + 1))
<1>3. p \in Nat /\ q \in Nat \ {0}
  BY <1>1, Pow2Pos
<1>4. 2 ^ (m + 1) = 2 * p
  BY Pow2Succ
<1> HIDE DEF p, q
<1>5. 2 ^ n = (2 * p) * q
  BY <1>2, <1>4 DEF q
<1>6. 2 * p <= (2 * p) * q
  <2> DEFINE r == 2 * p
  <2>1. r \in Nat
    BY <1>3
  <2> HIDE DEF r
  <2>2. q - 1 \in Nat /\ q = (q - 1) + 1
    BY <1>3
  <2>3. r * q = r * (q - 1) + r
    BY <1>3, <2>1, <2>2
  <2>4. r * (q - 1) \in Nat
    BY <2>1, <2>2
  <2>5. r <= r * q
    BY <2>1, <2>3, <2>4
  <2> QED BY <2>5 DEF r
<1> QED BY <1>5, <1>6 DEF p

(* When a quotient is 1.                                                   *)
LEMMA QuotOne ==
  ASSUME NEW x \in Nat, NEW p \in Nat, p > 0
  PROVE  x \div p = 1 <=> p <= x /\ x < 2 * p
<1>1. /\ x \div p \in Nat /\ x % p \in Nat /\ x % p < p
      /\ x = (x \div p) * p + (x % p)
  BY QuotRem
<1> DEFINE q == x \div p
           r == x % p
<1> HIDE DEF q, r
<1>2. q \in Nat /\ r \in Nat /\ r < p /\ x = q * p + r
  BY <1>1 DEF q, r
<1>3. ASSUME q = 1 PROVE p <= x /\ x < 2 * p
  BY <1>2, <1>3
<1>4. ASSUME p <= x, x < 2 * p PROVE q = 1
  <2>1. x - p \in Nat /\ x - p < p /\ x = 1 * p + (x - p)
    BY <1>4
  <2>2. q * p + r = 1 * p + (x - p)
    BY <1>2, <2>1
  <2> QED BY <1>2, <2>1, <2>2, QuotUnique
<1> QED BY <1>3, <1>4 DEF q

(* Every positive number has a leading bit.                                *)
LEMMA LeadingBit ==
  ASSUME NEW x \in Nat \ {0}, NEW n \in Nat, x < 2 ^ n
  PROVE  \E k \in 0 .. n - 1 : 2 ^ k <= x /\ x < 2 ^ (k + 1)
<1> DEFINE S == {j \in Nat : x < 2 ^ j}
<1>1. PICK j \in S : \A i \in S : j <= i
  <2>1. n \in S
    OBVIOUS
  <2> HIDE DEF S
  <2>2. S \subseteq Nat
    BY DEF S
  <2> QED BY <2>1, <2>2, NatLeast
<1>2. j # 0
  <2> SUFFICES ASSUME j = 0 PROVE FALSE
    OBVIOUS
  <2>1. x < 2 ^ 0
    BY <1>1
  <2> QED BY <2>1, Pow2Zero
<1>3. j - 1 \in Nat /\ ~(j <= j - 1) /\ j - 1 + 1 = j /\ j <= n
  BY <1>1, <1>2
<1>4. ~(x < 2 ^ (j - 1))
  BY <1>1, <1>3
<1>5. 2 ^ (j - 1) \in Nat
  BY <1>3, Pow2Nat
<1>6. 2 ^ (j - 1) <= x /\ x < 2 ^ (j - 1 + 1) /\ j - 1 \in 0 .. n - 1
  BY <1>1, <1>3, <1>4, <1>5
<1> QED BY <1>6

(* Quotients grow with what is divided. *)
LEMMA QuotMono ==
  ASSUME NEW p \in Nat \ {0}, NEW a \in Nat, NEW b \in Nat, a <= b
  PROVE  a \div p <= b \div p
<1> DEFINE q == a \div p
           k == b \div p
<1>1. /\ q \in Nat /\ (a % p) \in Nat /\ a = q * p + (a % p)
      /\ k \in Nat /\ (b % p) \in Nat /\ (b % p) < p /\ b = k * p + (b % p)
  BY QuotRem
<1> HIDE DEF q, k
<1>2. ASSUME k < q PROVE FALSE
  <2>1. k * p + p <= q * p
    BY <1>1, <1>2, MultMono
  <2>2. k * p \in Int /\ q * p \in Int
    BY <1>1
  <2> QED BY <1>1, <2>1, <2>2
<1> QED BY <1>1, <1>2 DEF q, k

(* The range of 8 bits.                                                    *)
LEMMA PowEight == 2 ^ 8 = 256
<1>1. 2 ^ (0 + 1) = 2 * 2 ^ 0
  BY Pow2Succ
<1>2. 2 ^ (1 + 1) = 2 * 2 ^ 1
  BY Pow2Succ
<1>3. 2 ^ (2 + 2) = 2 ^ 2 * 2 ^ 2
  BY Pow2Add
<1>4. 2 ^ (4 + 4) = 2 ^ 4 * 2 ^ 4
  BY Pow2Add
<1>5. 2 ^ 1 = 2
  BY <1>1, Pow2Zero
<1>6. 2 ^ 2 = 4
  BY <1>2, <1>5
<1>7. 2 ^ 4 = 16
  BY <1>3, <1>6
<1> QED BY <1>4, <1>7
-----------------------------------------------------------------------------
(* A walk along links: from start, as long as it is at one of cells.       *)
Walk(start, cells, links, end) ==
  CHOOSE w : w = [n \in Nat |-> IF n = 0 THEN start
                                ELSE IF w[n - 1] \in cells THEN links[w[n - 1]] ELSE end]

(* w is its first k steps.                                                 *)
IsWalk(w, start, cells, links, end, k) ==
  w = [n \in 0 .. k |-> IF n = 0 THEN start
                        ELSE IF w[n - 1] \in cells THEN links[w[n - 1]] ELSE end]

(* There is such a walk, of any length.                                    *)
LEMMA WalkPrefix ==
  ASSUME NEW start, NEW cells, NEW links, NEW end, NEW k \in Nat
  PROVE  \E w : IsWalk(w, start, cells, links, end, k)
<1> DEFINE Next(x) == IF x \in cells THEN links[x] ELSE end
           Loop(m) == \E w : /\ w = [n \in 0 .. m |-> w[n]] /\ w[0] = start
                             /\ \A n \in 0 .. m : n # 0 => w[n] = Next(w[n - 1])
           Bad == {m \in Nat : ~Loop(m)}
<1>1. Bad = {}
  <2> SUFFICES ASSUME Bad # {} PROVE FALSE
    OBVIOUS
  <2>1. PICK b \in Bad : \A m \in Bad : b <= m
    BY NatLeast
  <2>2. b # 0
    <3> DEFINE w == [n \in 0 .. 0 |-> start]
    <3>1. w = [n \in 0 .. 0 |-> w[n]] /\ w[0] = start /\ \A n \in 0 .. 0 : n = 0
      OBVIOUS
    <3> HIDE DEF w, Next
    <3>2. Loop(0)
      BY <3>1
    <3> QED BY <2>1, <3>2
  <2>3. b - 1 \in Nat /\ ~(b <= b - 1)
    BY <2>2
  <2>4. Loop(b - 1)
    BY <2>1, <2>3
  <2>5. PICK v : /\ v = [n \in 0 .. b - 1 |-> v[n]] /\ v[0] = start
                 /\ \A n \in 0 .. b - 1 : n # 0 => v[n] = Next(v[n - 1])
    BY <2>4
  <2> HIDE DEF Next
  <2> DEFINE w == [n \in 0 .. b |-> IF n = b THEN Next(v[b - 1]) ELSE v[n]]
  <2>6. w = [n \in 0 .. b |-> w[n]] /\ w[0] = start
    BY <2>2, <2>5
  <2>7. ASSUME NEW n \in 0 .. b, n # 0 PROVE w[n] = Next(w[n - 1])
    <3>1. n - 1 \in 0 .. b - 1 /\ n - 1 \in 0 .. b /\ n - 1 # b /\ (n # b => n \in 0 .. b - 1)
      BY <2>7
    <3>2. w[n - 1] = v[n - 1] /\ w[n] = (IF n = b THEN Next(v[b - 1]) ELSE v[n])
      BY <3>1
    <3> HIDE DEF w
    <3> QED BY <2>5, <2>7, <3>1, <3>2
  <2> HIDE DEF w
  <2>8. Loop(b)
    BY <2>6, <2>7
  <2> QED BY <2>1, <2>8
<1>2. PICK w : /\ w = [n \in 0 .. k |-> w[n]] /\ w[0] = start
               /\ \A n \in 0 .. k : n # 0 => w[n] = Next(w[n - 1])
  BY <1>1
<1>3. \A n \in 0 .. k : w[n] = IF n = 0 THEN start ELSE Next(w[n - 1])
  BY <1>2
<1>4. w = [n \in 0 .. k |-> IF n = 0 THEN start ELSE Next(w[n - 1])]
  BY <1>2, <1>3
<1> QED BY <1>4 DEF IsWalk

(* The first k steps of w go along the links.                              *)
GoesAlong(w, k, cells, links, end) ==
  \A n \in 0 .. k - 1 : w[n + 1] = IF w[n] \in cells THEN links[w[n]] ELSE end

(* Walks from the same cell are the same.                                  *)
LEMMA WalkUnique ==
  ASSUME NEW cells, NEW links, NEW end, NEW k \in Nat, NEW v, NEW w, v[0] = w[0],
         GoesAlong(v, k, cells, links, end), GoesAlong(w, k, cells, links, end)
  PROVE  \A n \in 0 .. k : v[n] = w[n]
<1> DEFINE Bad == {n \in Nat : n <= k /\ v[n] # w[n]}
<1> SUFFICES ASSUME Bad # {} PROVE FALSE
  OBVIOUS
<1>1. PICK b \in Bad : \A m \in Bad : b <= m
  BY NatLeast
<1>2. b - 1 \in 0 .. k - 1 /\ b - 1 \in Nat /\ (b - 1) + 1 = b /\ ~(b <= b - 1) /\ b - 1 <= k
  <2>1. b # 0
    BY <1>1
  <2> QED BY <1>1, <2>1
<1>3. v[b - 1] = w[b - 1]
  BY <1>1, <1>2
<1>4. v[(b - 1) + 1] = w[(b - 1) + 1]
  BY <1>2, <1>3 DEF GoesAlong
<1> QED BY <1>1, <1>2, <1>4

(* So there is one that does not end, and it goes along the links.         *)
LEMMA WalkSteps ==
  ASSUME NEW start, NEW cells, NEW links, NEW end, NEW w, w = Walk(start, cells, links, end)
  PROVE  /\ w[0] = start
         /\ \A n \in Nat : w[n + 1] = IF w[n] \in cells THEN links[w[n]] ELSE end
<1> DEFINE Next(x) == IF x \in cells THEN links[x] ELSE end
           to == [k \in Nat |-> CHOOSE v : IsWalk(v, start, cells, links, end, k)]
           u == [n \in Nat |-> to[n][n]]
<1>1. \A k \in Nat : IsWalk(to[k], start, cells, links, end, k)
  BY WalkPrefix
<1>2. ASSUME NEW k \in Nat
      PROVE  to[k][0] = start /\ \A n \in 0 .. k - 1 : to[k][n + 1] = Next(to[k][n])
  <2>1. PICK v : v = to[k] /\ v = [n \in 0 .. k |-> IF n = 0 THEN start ELSE Next(v[n - 1])]
    <3> HIDE DEF to
    <3> QED BY <1>1 DEF IsWalk
  <2> HIDE DEF Next, to
  <2>2. v[0] = start
    <3>1. 0 \in 0 .. k
      OBVIOUS
    <3> QED BY <2>1, <3>1
  <2>3. ASSUME NEW n \in 0 .. k - 1 PROVE v[n + 1] = Next(v[n])
    <3>1. n + 1 \in 0 .. k /\ n + 1 # 0 /\ (n + 1) - 1 = n
      OBVIOUS
    <3> QED BY <2>1, <3>1
  <2> QED BY <2>1, <2>2, <2>3
<1> HIDE DEF to
<1>3. ASSUME NEW k \in Nat PROVE to[k + 1][k] = to[k][k]
  <2>1. /\ to[k + 1][0] = to[k][0]
        /\ \A n \in 0 .. k - 1 : /\ to[k + 1][n + 1] = Next(to[k + 1][n])
                                 /\ to[k][n + 1] = Next(to[k][n])
    <3>1. k + 1 \in Nat /\ \A n \in 0 .. k - 1 : n \in 0 .. (k + 1) - 1
      OBVIOUS
    <3> HIDE DEF Next
    <3> QED BY <1>2, <3>1
  <2>2. \A n \in 0 .. k : to[k + 1][n] = to[k][n]
    <3>1. PICK v, x : v = to[k + 1] /\ x = to[k]
      OBVIOUS
    <3>2. /\ v[0] = x[0]
          /\ GoesAlong(v, k, cells, links, end) /\ GoesAlong(x, k, cells, links, end)
      BY <2>1, <3>1 DEF GoesAlong
    <3>3. \A n \in 0 .. k : v[n] = x[n]
      BY <3>2, WalkUnique
    <3> QED BY <3>1, <3>3
  <2>3. k \in 0 .. k
    OBVIOUS
  <2> QED BY <2>2, <2>3
<1>4. u[0] = start
  BY <1>2
<1>5. \A n \in Nat : u[n + 1] = Next(u[n])
  <2> TAKE n \in Nat
  <2>1. n + 1 \in Nat /\ n \in 0 .. (n + 1) - 1
    OBVIOUS
  <2>2. to[n + 1][n + 1] = Next(to[n + 1][n])
    <3> HIDE DEF Next
    <3> QED BY <1>2, <2>1
  <2> HIDE DEF Next
  <2> QED BY <1>3, <2>1, <2>2
<1>6. u = [n \in Nat |-> IF n = 0 THEN start ELSE Next(u[n - 1])]
  <2>1. u = [n \in Nat |-> u[n]]
    OBVIOUS
  <2> HIDE DEF u, Next
  <2>2. ASSUME NEW n \in Nat PROVE u[n] = IF n = 0 THEN start ELSE Next(u[n - 1])
    <3>1. CASE n = 0
      BY <1>4, <3>1
    <3>2. CASE n # 0
      <4>1. n - 1 \in Nat /\ (n - 1) + 1 = n
        BY <3>2
      <4>2. u[(n - 1) + 1] = Next(u[n - 1])
        BY <1>5, <4>1
      <4> QED BY <3>2, <4>1, <4>2
    <3> QED BY <3>1, <3>2
  <2> QED BY <2>1, <2>2
<1> HIDE DEF u
<1>7. w = [n \in Nat |-> IF n = 0 THEN start ELSE Next(w[n - 1])]
  BY <1>6 DEF Walk
<1>8. w[0] = start
  BY <1>7
<1>9. ASSUME NEW n \in Nat PROVE w[n + 1] = Next(w[n])
  <2>1. n + 1 \in Nat /\ n + 1 # 0 /\ (n + 1) - 1 = n
    OBVIOUS
  <2> HIDE DEF Next
  <2> QED BY <1>7, <2>1
<1> QED BY <1>8, <1>9

(* The walk along links that are known.                                    *)
LEMMA WalkAlong ==
  ASSUME NEW start, NEW cells, NEW links, NEW end, NEW k \in Nat, NEW f, f[0] = start,
         \A n \in 0 .. k - 1 : f[n] \in cells /\ f[n + 1] = links[f[n]]
  PROVE  \A n \in 0 .. k : Walk(start, cells, links, end)[n] = f[n]
<1>1. PICK w : w = Walk(start, cells, links, end)
  OBVIOUS
<1>2. w[0] = start /\ \A n \in Nat : w[n + 1] = IF w[n] \in cells THEN links[w[n]] ELSE end
  BY <1>1, WalkSteps
<1>3. \A n \in 0 .. k - 1 : n \in Nat
  OBVIOUS
<1>4. \A n \in 0 .. k : w[n] = f[n]
  <2>1. /\ w[0] = f[0]
        /\ GoesAlong(w, k, cells, links, end) /\ GoesAlong(f, k, cells, links, end)
    BY <1>2, <1>3 DEF GoesAlong
  <2> QED BY <2>1, WalkUnique
<1> QED BY <1>1, <1>4
-----------------------------------------------------------------------------
(* f counts the n nodes of a linked list, each once, and then its end.     *)
Linked(f, n, first, links, end, nodes) ==
  /\ f[0] = first /\ f[n] = end
  /\ \A m \in 0 .. n - 1 : f[m] \in nodes /\ links[f[m]] = f[m + 1]
  /\ \A m, k \in 0 .. n - 1 : f[m] = f[k] => m = k
  /\ nodes \subseteq {f[m] : m \in 0 .. n - 1}

(* Only the links of its nodes matter.                                     *)
LEMMA LinkedSame ==
  ASSUME NEW f, NEW n \in Nat, NEW first, NEW links, NEW new, NEW end, NEW nodes,
         Linked(f, n, first, links, end, nodes), \A x \in nodes : new[x] = links[x]
  PROVE  Linked(f, n, first, new, end, nodes)
BY DEF Linked

(* Such a list has n nodes.                                                *)
LEMMA LinkedCount ==
  ASSUME NEW f, NEW n \in Nat, NEW first, NEW links, NEW end, NEW nodes,
         Linked(f, n, first, links, end, nodes)
  PROVE  IsFiniteSet(nodes) /\ Cardinality(nodes) = n
<1> DEFINE S == 0 .. n - 1
<1>1. IsFiniteSet(S) /\ Cardinality(S) = n
  <2>1. 0 \in Int /\ n - 1 \in Int /\ (0 > n - 1 => n = 0) /\ (n - 1) - 0 + 1 = n
    OBVIOUS
  <2> QED BY <2>1, FS_Interval
<1>2. \A x, y \in S : f[x] = f[y] => x = y
  BY DEF Linked
<1>3. nodes = {f[m] : m \in S}
  BY DEF Linked
<1> HIDE DEF S
<1> QED BY <1>1, <1>2, <1>3, CountOfImage

(* Taking the first node, which leads to the others.                       *)
LEMMA LinkedPop ==
  ASSUME NEW f, NEW n \in Nat, n # 0, NEW first, NEW links, NEW end, NEW nodes,
         Linked(f, n, first, links, end, nodes)
  PROVE  first \in nodes /\ \E g : Linked(g, n - 1, links[first], links, end, nodes \ {first})
<1> DEFINE g == [m \in 0 .. n - 1 |-> f[m + 1]]
<1>1. /\ f[0] = first /\ f[n] = end
      /\ \A m \in 0 .. n - 1 : f[m] \in nodes /\ links[f[m]] = f[m + 1]
      /\ \A m, k \in 0 .. n - 1 : f[m] = f[k] => m = k
      /\ nodes \subseteq {f[m] : m \in 0 .. n - 1}
  BY DEF Linked
<1>2. 0 \in 0 .. n - 1 /\ n - 1 \in 0 .. n - 1 /\ (n - 1) + 1 = n /\ n - 1 \in Nat
  OBVIOUS
<1>3. g[0] = links[first] /\ g[n - 1] = end
  BY <1>1, <1>2
<1>4. ASSUME NEW m \in 0 .. (n - 1) - 1
      PROVE  /\ m \in 0 .. n - 1 /\ m + 1 \in 0 .. n - 1 /\ m + 1 # 0
             /\ g[m] = f[m + 1] /\ g[m + 1] = f[(m + 1) + 1]
  <2>1. m \in 0 .. n - 1 /\ m + 1 \in 0 .. n - 1 /\ m + 1 # 0
    OBVIOUS
  <2> QED BY <2>1
<1> HIDE DEF g
<1>5. \A m \in 0 .. (n - 1) - 1 : g[m] \in nodes \ {first} /\ links[g[m]] = g[m + 1]
  <2> TAKE m \in 0 .. (n - 1) - 1
  <2>1. f[m + 1] # f[0]
    BY <1>1, <1>2, <1>4
  <2> QED BY <1>1, <1>4, <2>1
<1>6. \A m, k \in 0 .. (n - 1) - 1 : g[m] = g[k] => m = k
  <2> SUFFICES ASSUME NEW m \in 0 .. (n - 1) - 1, NEW k \in 0 .. (n - 1) - 1, g[m] = g[k]
               PROVE  m = k
    OBVIOUS
  <2>1. m + 1 = k + 1
    BY <1>1, <1>4
  <2> QED BY <2>1
<1>7. ASSUME NEW x \in nodes \ {first} PROVE x \in {g[m] : m \in 0 .. (n - 1) - 1}
  <2>1. PICK m \in 0 .. n - 1 : x = f[m]
    BY <1>1
  <2>2. m # 0
    BY <1>1, <1>7, <2>1
  <2>3. m - 1 \in 0 .. (n - 1) - 1 /\ (m - 1) + 1 = m
    BY <2>2
  <2>4. g[m - 1] = f[(m - 1) + 1]
    BY <1>4, <2>3
  <2> QED BY <2>1, <2>3, <2>4
<1>8. Linked(g, n - 1, links[first], links, end, nodes \ {first})
  BY <1>3, <1>5, <1>6, <1>7 DEF Linked
<1> QED BY <1>1, <1>2, <1>8

(* Pushing a node that leads to what was the first one.                    *)
LEMMA LinkedPush ==
  ASSUME NEW f, NEW n \in Nat, NEW first, NEW links, NEW new, NEW end, NEW nodes,
         Linked(f, n, first, links, end, nodes),
         NEW p, p \notin nodes, new[p] = first, \A x \in nodes : new[x] = links[x]
  PROVE  \E g : Linked(g, n + 1, p, new, end, nodes \cup {p})
<1> DEFINE g == [m \in 0 .. n + 1 |-> IF m = 0 THEN p ELSE f[m - 1]]
<1>1. /\ f[0] = first /\ f[n] = end
      /\ \A m \in 0 .. n - 1 : f[m] \in nodes /\ new[f[m]] = f[m + 1]
      /\ \A m, k \in 0 .. n - 1 : f[m] = f[k] => m = k
      /\ nodes \subseteq {f[m] : m \in 0 .. n - 1}
  BY DEF Linked
<1>2. g[0] = p
  OBVIOUS
<1>3. ASSUME NEW m \in 0 .. n PROVE g[m + 1] = f[m]
  <2>1. m + 1 \in 0 .. n + 1 /\ m + 1 # 0 /\ (m + 1) - 1 = m
    OBVIOUS
  <2> QED BY <2>1
<1> HIDE DEF g
<1>4. g[n + 1] = end
  <2>1. n \in 0 .. n
    OBVIOUS
  <2> QED BY <1>1, <1>3, <2>1
<1>5. ASSUME NEW m \in 0 .. (n + 1) - 1, m # 0
      PROVE  /\ m - 1 \in 0 .. n - 1 /\ (m - 1) + 1 = m /\ m \in 0 .. n
             /\ g[m] = f[m - 1]
  <2>1. m - 1 \in 0 .. n - 1 /\ (m - 1) + 1 = m /\ m \in 0 .. n /\ m - 1 \in 0 .. n
    BY <1>5
  <2>2. g[(m - 1) + 1] = f[m - 1]
    BY <1>3, <2>1
  <2> QED BY <2>1, <2>2
<1>6. ASSUME NEW m \in 0 .. (n + 1) - 1 PROVE g[m] \in nodes \cup {p} /\ new[g[m]] = g[m + 1]
  <2>1. CASE m = 0
    <3>1. g[0 + 1] = f[0]
      <4>1. 0 \in 0 .. n
        OBVIOUS
      <4> QED BY <1>3, <4>1
    <3> QED BY <1>1, <1>2, <2>1, <3>1
  <2>2. CASE m # 0
    <3>1. g[m] = f[m - 1] /\ f[m - 1] \in nodes /\ new[f[m - 1]] = f[m]
      BY <1>1, <1>5, <2>2
    <3>2. g[m + 1] = f[m]
      BY <1>3, <1>5, <2>2
    <3> QED BY <3>1, <3>2
  <2> QED BY <2>1, <2>2
<1>7. \A m, k \in 0 .. (n + 1) - 1 : g[m] = g[k] => m = k
  <2> SUFFICES ASSUME NEW m \in 0 .. (n + 1) - 1, NEW k \in 0 .. (n + 1) - 1, g[m] = g[k]
               PROVE  m = k
    OBVIOUS
  <2>1. \A j \in 0 .. (n + 1) - 1 : j # 0 => g[j] # p
    BY <1>1, <1>5
  <2>2. CASE m # 0 /\ k # 0
    <3>1. m - 1 = k - 1
      BY <1>1, <1>5, <2>2
    <3> QED BY <1>5, <2>2, <3>1
  <2> QED BY <1>2, <2>1, <2>2
<1>8. \A x \in nodes \cup {p} : x \in {g[m] : m \in 0 .. (n + 1) - 1}
  <2>1. p \in {g[m] : m \in 0 .. (n + 1) - 1}
    <3>1. 0 \in 0 .. (n + 1) - 1
      OBVIOUS
    <3> QED BY <1>2, <3>1
  <2>2. ASSUME NEW x \in nodes PROVE x \in {g[m] : m \in 0 .. (n + 1) - 1}
    <3>1. PICK m \in 0 .. n - 1 : x = f[m]
      BY <1>1
    <3>2. m \in 0 .. n /\ m + 1 \in 0 .. (n + 1) - 1
      OBVIOUS
    <3> QED BY <1>3, <3>1, <3>2
  <2> QED BY <2>1, <2>2
<1>9. Linked(g, n + 1, p, new, end, nodes \cup {p})
  BY <1>2, <1>4, <1>6, <1>7, <1>8 DEF Linked
<1> QED BY <1>9

(* Who follows the links from the first node comes to the end ...          *)
LEMMA LinkedEnd ==
  ASSUME NEW f, NEW n \in Nat, NEW first, NEW links, NEW end, NEW nodes, NEW cells,
         Linked(f, n, first, links, end, nodes), nodes \subseteq cells
  PROVE  Walk(first, cells, links, end)[n] = end
<1>1. /\ f[0] = first /\ f[n] = end
      /\ \A m \in 0 .. n - 1 : f[m] \in nodes /\ f[m] \in cells /\ f[m + 1] = links[f[m]]
  BY DEF Linked
<1>2. \A m \in 0 .. n : Walk(first, cells, links, end)[m] = f[m]
  BY <1>1, WalkAlong
<1>3. n \in 0 .. n
  OBVIOUS
<1> QED BY <1>1, <1>2, <1>3

(* The first n cells of a walk.                                            *)
Visited(w, n) == {w[m] : m \in 0 .. n - 1}

(* ... and finds the nodes before it.                                      *)
LEMMA LinkedNodes ==
  ASSUME NEW f, NEW n \in Nat, NEW first, NEW links, NEW end, NEW nodes, NEW cells,
         Linked(f, n, first, links, end, nodes), nodes \subseteq cells
  PROVE  Visited(Walk(first, cells, links, end), n) = nodes
<1>1. /\ f[0] = first
      /\ \A m \in 0 .. n - 1 : f[m] \in nodes /\ f[m] \in cells /\ f[m + 1] = links[f[m]]
      /\ nodes \subseteq {f[m] : m \in 0 .. n - 1}
  BY DEF Linked
<1>2. PICK w : w = Walk(first, cells, links, end)
  OBVIOUS
<1>3. \A m \in 0 .. n : w[m] = f[m]
  BY <1>1, <1>2, WalkAlong
<1>4. \A m \in 0 .. n - 1 : m \in 0 .. n
  OBVIOUS
<1> QED BY <1>1, <1>2, <1>3, <1>4 DEF Visited
-----------------------------------------------------------------------------
(* links lead from a cell through the elements of s, in order, to its last *)
(* one (from itself if there is none), whose own link may be any.          *)
Chained(s, from, to, links) ==
  /\ s = <<>> => to = from
  /\ s # <<>> => links[from] = s[1] /\ to = s[Len(s)]
  /\ \A k \in 1 .. Len(s) - 1 : links[s[k]] = s[k + 1]

(* The same from the first element on, and the last one leads to the end.  *)
Tailed(s, first, links, end) ==
  /\ s = <<>> => first = end
  /\ s # <<>> => first = s[1] /\ links[s[Len(s)]] = end
  /\ \A k \in 1 .. Len(s) - 1 : links[s[k]] = s[k + 1]

(* Of the links of D, only that of one cell may differ.                    *)
SameBut(links, new, cell, D) == \A x \in D : x # cell => new[x] = links[x]

(* None of them differs.                                                   *)
Same(links, new, D) == \A x \in D : new[x] = links[x]

(* Putting something new behind a sequence repeats nothing.                *)
LEMMA InjectiveAppend ==
  ASSUME NEW S, NEW s \in Seq(S), NEW e \in S, e \notin Range(s), IsInjective(s)
  PROVE  IsInjective(Append(s, e))
<1>1. PICK c : c = Append(s, e)
  OBVIOUS
<1>2. /\ DOMAIN c = 1 .. Len(s) + 1 /\ DOMAIN s = 1 .. Len(s) /\ Len(s) \in Nat
      /\ \A n \in DOMAIN s : c[n] = s[n]
      /\ c[Len(s) + 1] = e
  BY <1>1, SeqAppend, LenProperties
<1>3. \A n \in DOMAIN c : n = Len(s) + 1 \/ (n \in DOMAIN s /\ c[n] = s[n] /\ c[n] # e)
  BY <1>2 DEF Range
<1>4. ASSUME NEW a \in DOMAIN c, NEW b \in DOMAIN c, c[a] = c[b] PROVE a = b
  BY <1>2, <1>3, <1>4 DEF IsInjective
<1> QED BY <1>1, <1>4 DEF IsInjective

(* The cells before the last one are not the last one.                     *)
LEMMA ChainedBefore ==
  ASSUME NEW S, NEW s \in Seq(S), IsInjective(s), NEW from, from \notin Range(s),
         NEW to, NEW links, Chained(s, from, to, links)
  PROVE  /\ to \in {from} \cup Range(s)
         /\ s # <<>> => from # to
         /\ \A k \in 1 .. Len(s) - 1 : s[k] \in Range(s) /\ s[k] # to
<1>1. DOMAIN s = 1 .. Len(s) /\ Len(s) \in Nat /\ (s # <<>> <=> Len(s) # 0)
  BY LenProperties, EmptySeq
<1>2. \A k \in 1 .. Len(s) - 1 : k \in DOMAIN s /\ Len(s) \in DOMAIN s /\ k # Len(s) /\ s # <<>>
  <2> TAKE k \in 1 .. Len(s) - 1
  <2>1. PICK n \in Nat : n = Len(s)
    BY <1>1
  <2>2. k \in 1 .. n /\ n \in 1 .. n /\ k # n /\ n # 0
    BY <2>1
  <2> QED BY <1>1, <2>1, <2>2
<1>3. s # <<>> => Len(s) \in DOMAIN s /\ to = s[Len(s)]
  BY <1>1 DEF Chained
<1>4. \A k \in DOMAIN s : s[k] \in Range(s)
  BY DEF Range
<1>5. s = <<>> => to = from
  BY DEF Chained
<1>6. \A k \in 1 .. Len(s) - 1 : s[k] # to
  BY <1>2, <1>3 DEF IsInjective
<1> QED BY <1>2, <1>3, <1>4, <1>5, <1>6

(* The link of the last one does not matter.                               *)
LEMMA ChainedSame ==
  ASSUME NEW S, NEW s \in Seq(S), IsInjective(s), NEW from, from \notin Range(s),
         NEW to, NEW links, NEW new, Chained(s, from, to, links),
         SameBut(links, new, to, {from} \cup Range(s))
  PROVE  Chained(s, from, to, new)
<1>1. /\ s # <<>> => from # to
      /\ \A k \in 1 .. Len(s) - 1 : s[k] \in Range(s) /\ s[k] # to
  BY ChainedBefore
<1>2. s # <<>> => new[from] = links[from]
  BY <1>1 DEF SameBut
<1>3. \A k \in 1 .. Len(s) - 1 : new[s[k]] = links[s[k]]
  BY <1>1 DEF SameBut
<1> QED BY <1>2, <1>3 DEF Chained

(* Once it leads to a further element, that is the last one.               *)
LEMMA ChainedAppend ==
  ASSUME NEW S, NEW s \in Seq(S), IsInjective(s), NEW from, from \notin Range(s),
         NEW to, NEW links, NEW new, Chained(s, from, to, links),
         NEW e \in S, new[to] = e,
         SameBut(links, new, to, {from} \cup Range(s))
  PROVE  Chained(Append(s, e), from, e, new)
<1>1. PICK c : c = Append(s, e)
  OBVIOUS
<1>2. /\ Len(s) \in Nat /\ DOMAIN s = 1 .. Len(s)
      /\ Len(c) = Len(s) + 1 /\ DOMAIN c = 1 .. Len(s) + 1 /\ c # <<>>
      /\ \A n \in DOMAIN s : c[n] = s[n]
      /\ c[Len(s) + 1] = e
  BY <1>1, SeqAppend, LenProperties
<1>3. /\ s # <<>> => Len(s) # 0
      /\ s = <<>> => Len(s) = 0
  BY EmptySeq, LenProperties
<1>4. Chained(s, from, to, new)
  BY ChainedSame
<1>5. new[from] = c[1]
  <2>1. CASE s = <<>>
    BY <1>2, <1>3, <2>1 DEF Chained
  <2>2. CASE s # <<>>
    <3>1. 1 \in DOMAIN s
      BY <1>2, <1>3, <2>2
    <3> QED BY <1>2, <1>4, <2>2, <3>1 DEF Chained
  <2> QED BY <2>1, <2>2
<1>6. ASSUME NEW k \in 1 .. Len(c) - 1 PROVE new[c[k]] = c[k + 1]
  <2>1. k \in DOMAIN s /\ c[k] = s[k]
    BY <1>2
  <2>2. CASE k = Len(s)
    <3>1. s # <<>>
      BY <1>3, <2>1, <2>2, <1>2
    <3>2. s[k] = to
      BY <2>2, <3>1 DEF Chained
    <3> QED BY <1>2, <2>1, <2>2, <3>2
  <2>3. CASE k # Len(s)
    <3>1. k \in 1 .. Len(s) - 1 /\ k + 1 \in DOMAIN s
      BY <1>2, <2>1, <2>3
    <3> QED BY <1>2, <1>4, <2>1, <3>1 DEF Chained
  <2> QED BY <2>2, <2>3
<1> QED BY <1>1, <1>2, <1>5, <1>6 DEF Chained

(* Once it leads to the end, the list can be taken.                        *)
LEMMA ChainedTake ==
  ASSUME NEW S, NEW s \in Seq(S), s # <<>>, IsInjective(s), NEW from, from \notin Range(s),
         NEW to, NEW links, NEW new, NEW end, Chained(s, from, to, links),
         new[to] = end,
         SameBut(links, new, to, {from} \cup Range(s))
  PROVE  Tailed(s, new[from], new, end)
<1>1. Chained(s, from, to, new)
  BY ChainedSame
<1> QED BY <1>1 DEF Chained, Tailed

(* What the first element leads to is the rest.                            *)
LEMMA TailedTail ==
  ASSUME NEW S, NEW s \in Seq(S), s # <<>>, NEW first, NEW links, NEW new, NEW end,
         Tailed(s, first, links, end), Same(links, new, Range(s))
  PROVE  Tailed(Tail(s), new[first], new, end) /\ first = s[1] /\ first \in Range(s)
<1>1. PICK c : c = Tail(s)
  OBVIOUS
<1>2. /\ 1 \in DOMAIN s /\ DOMAIN s = 1 .. Len(s) /\ Len(s) \in Nat /\ c \in Seq(S)
      /\ DOMAIN c = 1 .. Len(s) - 1
      /\ \A n \in DOMAIN c : c[n] = s[n + 1]
  BY <1>1, SeqTail
<1>3. Len(c) \in Nat /\ DOMAIN c = 1 .. Len(c) /\ (c = <<>> <=> Len(c) = 0)
  BY <1>2, EmptySeq, LenProperties
<1>4. Len(c) = Len(s) - 1
  BY <1>1, HeadTailProperties
<1>5. \A n \in DOMAIN s : s[n] \in Range(s) /\ new[s[n]] = links[s[n]]
  BY DEF Range, Same
<1>6. first = s[1]
  BY DEF Tailed
<1>7. CASE c = <<>>
  <2>1. Len(s) = 1
    <3>1. Len(s) - 1 = 0 /\ Len(s) \in Nat
      BY <1>2, <1>3, <1>4, <1>7
    <3> QED BY <3>1
  <2>2. new[first] = end
    BY <1>2, <1>5, <1>6, <2>1 DEF Tailed
  <2> QED BY <1>1, <1>2, <1>3, <1>5, <1>6, <1>7, <2>2 DEF Tailed
<1>8. CASE c # <<>>
  <2>1. Len(c) \in DOMAIN c /\ 1 \in DOMAIN c /\ 1 \in 1 .. Len(s) - 1 /\ Len(s) \in DOMAIN s
    BY <1>2, <1>3, <1>4, <1>8
  <2>2. new[first] = c[1]
    BY <1>2, <1>5, <1>6, <2>1 DEF Tailed
  <2>3. new[c[Len(c)]] = end
    <3>1. c[Len(c)] = s[Len(s)]
      BY <1>2, <1>4, <2>1
    <3> QED BY <1>5, <2>1, <3>1 DEF Tailed
  <2>4. ASSUME NEW k \in 1 .. Len(c) - 1 PROVE new[c[k]] = c[k + 1]
    <3>1. /\ k \in DOMAIN c /\ k + 1 \in DOMAIN c
          /\ k + 1 \in 1 .. Len(s) - 1 /\ k + 1 \in DOMAIN s
      BY <1>2, <1>3, <1>4
    <3>2. c[k] = s[k + 1] /\ c[k + 1] = s[(k + 1) + 1]
      BY <1>2, <3>1
    <3>3. links[s[k + 1]] = s[(k + 1) + 1]
      BY <3>1 DEF Tailed
    <3> QED BY <1>5, <3>1, <3>2, <3>3
  <2> QED BY <1>1, <1>2, <1>5, <1>6, <1>8, <2>2, <2>3, <2>4 DEF Tailed
<1> QED BY <1>7, <1>8

(* Only the links of its elements matter.                                  *)
LEMMA TailedSame ==
  ASSUME NEW S, NEW s \in Seq(S), NEW first, NEW links, NEW new, NEW end,
         Tailed(s, first, links, end), Same(links, new, Range(s))
  PROVE  Tailed(s, first, new, end)
<1>1. DOMAIN s = 1 .. Len(s) /\ Len(s) \in Nat /\ (s # <<>> => Len(s) # 0)
  BY LenProperties, EmptySeq
<1>2. \A k \in 1 .. Len(s) - 1 : k \in DOMAIN s
  BY <1>1
<1>3. s # <<>> => Len(s) \in DOMAIN s
  BY <1>1
<1>4. \A k \in DOMAIN s : new[s[k]] = links[s[k]]
  BY DEF Range, Same
<1> QED BY <1>2, <1>3, <1>4 DEF Tailed
-----------------------------------------------------------------------------
(* w selects, from the first n elements of s, those at positions of keep.  *)
Selects(w, s, n, keep) ==
  w = [k \in 0 .. n |-> IF k = 0 THEN <<>>
                        ELSE IF k \in keep THEN Append(w[k - 1], s[k]) ELSE w[k - 1]]

(* The loop that does so comes to an end.                                  *)
LEMMA SelectLoop ==
  ASSUME NEW s, NEW keep, NEW n \in Nat
  PROVE  \E w : Selects(w, s, n, keep)
<1> DEFINE G(w, k) == IF k = 0 THEN <<>>
                      ELSE IF k \in keep THEN Append(w[k - 1], s[k]) ELSE w[k - 1]
           Loop(m) == \E w : w = [k \in 0 .. m |-> w[k]] /\ \A k \in 0 .. m : w[k] = G(w, k)
           Bad == {m \in Nat : ~Loop(m)}
<1>1. Bad = {}
  <2> SUFFICES ASSUME Bad # {} PROVE FALSE
    OBVIOUS
  <2>1. PICK b \in Bad : \A m \in Bad : b <= m
    BY NatLeast
  <2>2. b # 0
    <3> DEFINE w == [k \in 0 .. 0 |-> <<>>]
    <3>1. w = [k \in 0 .. 0 |-> w[k]] /\ \A k \in 0 .. 0 : k = 0 /\ w[k] = <<>>
      OBVIOUS
    <3> HIDE DEF w
    <3>2. \A k \in 0 .. 0 : w[k] = G(w, k)
      BY <3>1
    <3>3. Loop(0)
      BY <3>1, <3>2
    <3> QED BY <2>1, <3>3
  <2>3. b - 1 \in Nat /\ ~(b <= b - 1)
    BY <2>2
  <2>4. Loop(b - 1)
    BY <2>1, <2>3
  <2>5. PICK v : v = [k \in 0 .. b - 1 |-> v[k]] /\ \A k \in 0 .. b - 1 : v[k] = G(v, k)
    BY <2>4
  <2> DEFINE w == [k \in 0 .. b |-> IF k = b THEN G(v, b) ELSE v[k]]
  <2>6. /\ w = [k \in 0 .. b |-> w[k]] /\ w[b] = G(v, b)
        /\ \A k \in 0 .. b - 1 : w[k] = v[k]
    OBVIOUS
  <2> HIDE DEF w
  <2>7. ASSUME NEW k \in 0 .. b PROVE w[k] = G(w, k)
    <3>1. CASE k = 0
      <4>1. k \in 0 .. b - 1
        BY <2>2, <3>1
      <4> QED BY <2>5, <2>6, <3>1, <4>1
    <3>2. CASE k # 0
      <4>1. k - 1 \in 0 .. b - 1 /\ (k # b => k \in 0 .. b - 1)
        BY <3>2
      <4>2. w[k - 1] = v[k - 1]
        BY <2>6, <4>1
      <4>3. w[k] = G(v, k)
        BY <2>5, <2>6, <4>1
      <4> QED BY <3>2, <4>2, <4>3
    <3> QED BY <3>1, <3>2
  <2>8. Loop(b)
    BY <2>6, <2>7
  <2> QED BY <2>1, <2>8
<1>2. PICK w : w = [k \in 0 .. n |-> w[k]] /\ \A k \in 0 .. n : w[k] = G(w, k)
  BY <1>1
<1>3. w = [k \in 0 .. n |-> G(w, k)]
  BY <1>2
<1> QED BY <1>3 DEF Selects

(* It yields a sequence.                                                   *)
LEMMA SelectSequence ==
  ASSUME NEW S, NEW s \in Seq(S), NEW n \in 0 .. Len(s), NEW keep, NEW w, Selects(w, s, n, keep)
  PROVE  \A k \in 0 .. n : w[k] \in Seq(S)
<1> DEFINE Bad == {k \in Nat : k <= n /\ w[k] \notin Seq(S)}
<1>1. Len(s) \in Nat /\ n \in Nat /\ \A k \in 1 .. n : s[k] \in S
  BY LenProperties, ElementOfSeq
<1>2. \A k \in 0 .. n : w[k] = IF k = 0 THEN <<>>
                               ELSE IF k \in keep THEN Append(w[k - 1], s[k]) ELSE w[k - 1]
  BY DEF Selects
<1> SUFFICES ASSUME Bad # {} PROVE FALSE
  BY <1>1
<1>3. PICK b \in Bad : \A m \in Bad : b <= m
  BY NatLeast
<1>4. b # 0
  <2>1. 0 \in 0 .. n /\ <<>> \in Seq(S)
    BY <1>1, EmptySeq
  <2>2. w[0] \in Seq(S)
    BY <1>2, <2>1
  <2> QED BY <1>3, <2>2
<1>5. b - 1 \in Nat /\ b - 1 <= n /\ ~(b <= b - 1) /\ b \in 1 .. n /\ b \in 0 .. n
  BY <1>1, <1>3, <1>4
<1>6. w[b - 1] \in Seq(S) /\ s[b] \in S
  BY <1>1, <1>3, <1>5
<1>7. w[b] = IF b \in keep THEN Append(w[b - 1], s[b]) ELSE w[b - 1]
  BY <1>2, <1>4, <1>5
<1>8. w[b] \in Seq(S)
  BY <1>6, <1>7, AppendProperties
<1> QED BY <1>3, <1>8

Put(s, e) == Append(s, e)

Joined(s, t) == s \o t

(* Putting behind two sequences is putting behind the second one; the      *)
(* provers expand the operators of sequences unless they have other names. *)
LEMMA AppendOfConcat ==
  ASSUME NEW S, NEW s \in Seq(S), NEW t \in Seq(S), NEW e \in S
  PROVE  Put(Joined(s, t), e) = Joined(s, Put(t, e))
BY DEF Put, Joined

(* What is put behind one sequence is put before the other.                *)
LEMMA JoinedPut ==
  ASSUME NEW S, NEW s \in Seq(S), NEW t \in Seq(S), NEW e \in S
  PROVE  Joined(Put(s, e), t) = Joined(s, Joined(<<e>>, t))
BY DEF Put, Joined

(* The positions in keep, one further on. *)
OneLess(rest, keep) == \A k \in Nat \ {0} : k \in rest <=> k + 1 \in keep

IsTail(t, s) == t = Tail(s)

FirstIf(s, keep) == IF 1 \in keep THEN <<s[1]>> ELSE <<>>

(* The loop over the tail yields the rest of what the loop over all does.  *)
LEMMA SelectTail ==
  ASSUME NEW S, NEW s \in Seq(S), s # <<>>, NEW keep, NEW w, Selects(w, s, Len(s), keep),
         NEW rest, OneLess(rest, keep), NEW t, IsTail(t, s), NEW v, Selects(v, t, Len(t), rest)
  PROVE  w[Len(s)] = Joined(FirstIf(s, keep), v[Len(t)])
<1>1. PICK n \in Nat : n = Len(s) - 1 /\ n + 1 = Len(s)
  <2>1. PICK l \in Nat : l = Len(s) /\ l # 0
    BY EmptySeq
  <2>2. l - 1 \in Nat /\ (l - 1) + 1 = l
    BY <2>1
  <2> QED BY <2>1, <2>2
<1>2. \A k \in Nat \ {0} : k \in rest <=> k + 1 \in keep
  BY DEF OneLess
<1>3. t \in Seq(S) /\ Len(t) = n /\ \A k \in 1 .. n : t[k] = s[k + 1]
  <2>1. Len(t) = Len(s) - 1 /\ t \in Seq(S) /\ \A k \in 1 .. Len(t) : t[k] = s[k + 1]
    BY HeadTailProperties DEF IsTail
  <2> QED BY <1>1, <2>1
<1>4. PICK h : h = IF 1 \in keep THEN <<s[1]>> ELSE <<>>
  OBVIOUS
<1>5. h \in Seq(S) /\ s[1] \in S
  <2>1. s[1] \in S
    BY <1>1, ElementOfSeq
  <2> QED BY <1>4, <2>1
<1>6. \A k \in 0 .. n : v[k] \in Seq(S)
  <2>1. Selects(v, t, n, rest) /\ n \in 0 .. Len(t)
    BY <1>1, <1>3
  <2> QED BY <1>3, <2>1, SelectSequence
<1>7. /\ \A k \in 0 .. n + 1 : w[k] = IF k = 0 THEN <<>>
                                      ELSE IF k \in keep THEN Append(w[k - 1], s[k]) ELSE w[k - 1]
      /\ \A k \in 0 .. n : v[k] = IF k = 0 THEN <<>>
                                  ELSE IF k \in rest THEN Append(v[k - 1], t[k]) ELSE v[k - 1]
  BY <1>1, <1>3 DEF Selects
<1> DEFINE Bad == {k \in Nat : k <= n /\ w[k + 1] # h \o v[k]}
<1>8. Bad = {}
  <2> SUFFICES ASSUME Bad # {} PROVE FALSE
    OBVIOUS
  <2>1. PICK b \in Bad : \A m \in Bad : b <= m
    BY NatLeast
  <2>2. CASE b = 0
    <3>1. w[0] = <<>> /\ v[0] = <<>> /\ w[0 + 1] = IF 1 \in keep THEN Append(w[0], s[1]) ELSE w[0]
      <4>1. 0 \in 0 .. n + 1 /\ 0 \in 0 .. n /\ 1 \in 0 .. n + 1 /\ 1 - 1 = 0 /\ 0 + 1 = 1
        BY <1>1
      <4>2. w[0] = <<>>
        BY <1>7, <4>1
      <4>3. v[0] = <<>>
        BY <1>7, <4>1
      <4>4. w[1] = IF 1 \in keep THEN Append(w[1 - 1], s[1]) ELSE w[1 - 1]
        BY <1>7, <4>1
      <4> QED BY <4>1, <4>2, <4>3, <4>4
    <3>2. w[0 + 1] = h
      <4>1. Append(<<>>, s[1]) = <<s[1]>>
        OBVIOUS
      <4> QED BY <1>4, <3>1, <4>1
    <3>3. h \o <<>> = h
      BY <1>5, ConcatEmptySeq
    <3> QED BY <2>1, <2>2, <3>1, <3>2, <3>3
  <2>3. CASE b # 0
    <3>1. /\ b - 1 \in Nat /\ b - 1 <= n /\ ~(b <= b - 1) /\ b \in 1 .. n
          /\ b \in 0 .. n /\ b + 1 \in 0 .. n + 1 /\ b + 1 # 0 /\ (b + 1) - 1 = b
          /\ b - 1 \in 0 .. n /\ (b - 1) + 1 = b
      BY <2>1, <2>3
    <3>2. w[(b - 1) + 1] = h \o v[b - 1]
      BY <2>1, <3>1
    <3>3. w[b + 1] = IF b + 1 \in keep THEN Append(w[b], s[b + 1]) ELSE w[b]
      BY <1>7, <3>1
    <3>4. v[b] = IF b + 1 \in keep THEN Append(v[b - 1], s[b + 1]) ELSE v[b - 1]
      BY <1>2, <1>3, <1>7, <2>3, <3>1
    <3>5. v[b - 1] \in Seq(S) /\ s[b + 1] \in S
      <4>1. b + 1 \in 1 .. Len(s)
        BY <1>1, <3>1
      <4> QED BY <1>6, <3>1, <4>1, ElementOfSeq
    <3>6. Append(h \o v[b - 1], s[b + 1]) = h \o Append(v[b - 1], s[b + 1])
      <4>1. PICK x, e : x = v[b - 1] /\ e = s[b + 1]
        OBVIOUS
      <4>2. h \in Seq(S) /\ x \in Seq(S) /\ e \in S
        BY <1>5, <3>5, <4>1
      <4>3. Put(Joined(h, x), e) = Joined(h, Put(x, e))
        BY <4>2, AppendOfConcat
      <4>4. Append(h \o x, e) = h \o Append(x, e)
        BY <4>3 DEF Put, Joined
      <4> QED BY <4>1, <4>4
    <3> QED BY <2>1, <3>1, <3>2, <3>3, <3>4, <3>6
  <2> QED BY <2>2, <2>3
<1>9. w[n + 1] = h \o v[n]
  <2> SUFFICES ASSUME w[n + 1] # h \o v[n] PROVE FALSE
    OBVIOUS
  <2>1. n <= n
    OBVIOUS
  <2>2. n \in Bad
    BY <2>1, Zenon
  <2> QED BY <1>8, <2>2
<1> QED BY <1>1, <1>3, <1>4, <1>9 DEF Joined, FirstIf
=============================================================================
