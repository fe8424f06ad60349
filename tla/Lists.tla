------------------------------- MODULE Lists --------------------------------
(***************************************************************************)
(* What the kernel's list operations do to a list on which nothing is      *)
(* twice: the elements left, and that still nothing is twice on it.        *)
(***************************************************************************)
EXTENDS Integers, Sequences, SequencesExt, Functions, SequenceTheorems, WellFoundedInduction, TLAPS

\* A list without its head.
LEMMA TailOfList ==
  ASSUME NEW S, NEW q \in Seq(S), IsInjective(q), q # <<>>
  PROVE  /\ Tail(q) \in Seq(S) /\ IsInjective(Tail(q))
         /\ Head(q) \in Range(q) /\ Range(Tail(q)) = Range(q) \ {Head(q)}
<1>1. Len(q) \in Nat /\ Len(q) # 0 /\ DOMAIN q = 1..Len(q) /\ Head(q) = q[1]
  OBVIOUS
<1>2. Tail(q) \in Seq(S) /\ DOMAIN Tail(q) = 1..(Len(q) - 1) /\ \A i \in 1..(Len(q) - 1) : Tail(q)[i] = q[i + 1]
  BY <1>1
<1>3. IsInjective(Tail(q))
  BY <1>1, <1>2 DEF IsInjective
<1>4. ASSUME NEW x PROVE x \in Range(Tail(q)) <=> x \in Range(q) /\ x # q[1]
  <2>1. ASSUME x \in Range(Tail(q)) PROVE x \in Range(q) /\ x # q[1]
    BY <1>1, <1>2, <2>1 DEF Range, IsInjective
  <2>2. ASSUME NEW i \in DOMAIN q, x = q[i], x # q[1] PROVE x \in Range(Tail(q))
    <3>1. i - 1 \in 1..(Len(q) - 1) /\ Tail(q)[i - 1] = x
      BY <1>1, <1>2, <2>2
    <3>2. QED BY <1>2, <3>1 DEF Range
  <2>3. QED BY <2>1, <2>2 DEF Range
<1>5. Head(q) \in Range(q)
  BY <1>1 DEF Range
<1>6. QED BY <1>1, <1>2, <1>3, <1>4, <1>5

\* A list with a new head.
LEMMA ListWithHead ==
  ASSUME NEW S, NEW q \in Seq(S), IsInjective(q), NEW p \in S, p \notin Range(q)
  PROVE  /\ <<p>> \o q \in Seq(S) /\ IsInjective(<<p>> \o q)
         /\ Range(<<p>> \o q) = Range(q) \cup {p}
<1> DEFINE r == <<p>> \o q
<1>1. /\ Len(q) \in Nat /\ DOMAIN q = 1..Len(q) /\ r \in Seq(S) /\ DOMAIN r = 1..(Len(q) + 1)
      /\ r[1] = p /\ \A i \in 1..Len(q) : r[i + 1] = q[i]
  OBVIOUS
<1>2. \A i \in DOMAIN r : i # 1 => i - 1 \in DOMAIN q /\ r[i] = q[i - 1]
  <2>1. TAKE i \in DOMAIN r
  <2>2. HAVE i # 1
  <2>3. i - 1 \in 1..Len(q) /\ (i - 1) + 1 = i
    BY <1>1, <2>2
  <2>4. QED BY <1>1, <2>3
<1> HIDE DEF r
<1>3. \A i \in DOMAIN q : q[i] # p
  BY DEF Range
<1>4. IsInjective(r)
  BY <1>1, <1>2, <1>3 DEF IsInjective
<1>5. ASSUME NEW x PROVE x \in Range(r) <=> x \in Range(q) \/ x = p
  <2>1. x \in Range(r) => x \in Range(q) \/ x = p
    BY <1>1, <1>2 DEF Range
  <2>2. x \in Range(q) => x \in Range(r)
    <3>1. ASSUME NEW i \in DOMAIN q, x = q[i] PROVE x \in Range(r)
      <4>1. i + 1 \in DOMAIN r /\ r[i + 1] = x
        BY <1>1, <3>1
      <4>2. QED BY <4>1 DEF Range
    <3>2. QED BY <3>1 DEF Range
  <2>3. p \in Range(r)
    BY <1>1 DEF Range
  <2>4. QED BY <2>1, <2>2, <2>3
<1>6. QED BY <1>1, <1>4, <1>5 DEF r

\* A list with a new tail.
LEMMA ListWithLast ==
  ASSUME NEW S, NEW q \in Seq(S), IsInjective(q), NEW p \in S, p \notin Range(q)
  PROVE  /\ Append(q, p) \in Seq(S) /\ IsInjective(Append(q, p))
         /\ Range(Append(q, p)) = Range(q) \cup {p}
<1> DEFINE r == Append(q, p)
<1>1. /\ Len(q) \in Nat /\ DOMAIN q = 1..Len(q) /\ r \in Seq(S) /\ DOMAIN r = 1..(Len(q) + 1)
      /\ r[Len(q) + 1] = p /\ \A i \in 1..Len(q) : r[i] = q[i]
  OBVIOUS
<1> HIDE DEF r
<1>2. \A i \in DOMAIN r : i = Len(q) + 1 \/ i \in DOMAIN q
  BY <1>1
<1>3. \A i \in DOMAIN q : q[i] # p
  BY DEF Range
<1>4. IsInjective(r)
  BY <1>1, <1>2, <1>3 DEF IsInjective
<1>5. ASSUME NEW x PROVE x \in Range(r) <=> x \in Range(q) \/ x = p
  <2>1. x \in Range(r) => x \in Range(q) \/ x = p
    BY <1>1, <1>2 DEF Range
  <2>2. ASSUME NEW i \in DOMAIN q, x = q[i] PROVE x \in Range(r)
    BY <1>1, <2>2 DEF Range
  <2>3. p \in Range(r)
    BY <1>1 DEF Range
  <2>4. QED BY <2>1, <2>2, <2>3 DEF Range
<1>6. QED BY <1>1, <1>4, <1>5 DEF r

\* A list without one of its elements.
LEMMA ListWithoutPlace ==
  ASSUME NEW S, NEW q \in Seq(S), IsInjective(q), NEW k \in DOMAIN q
  PROVE  /\ RemoveAt(q, k) \in Seq(S) /\ IsInjective(RemoveAt(q, k))
         /\ Range(RemoveAt(q, k)) = Range(q) \ {q[k]}
<1> DEFINE p == q[k]
           r == RemoveAt(q, k)
<1>1. k \in DOMAIN q /\ q[k] = p
  OBVIOUS
<1>2. Len(q) \in Nat /\ DOMAIN q = 1..Len(q)
  OBVIOUS
<1>3. r = SubSeq(q, 1, k - 1) \o SubSeq(q, k + 1, Len(q))
  BY DEF RemoveAt
<1> HIDE DEF p, r
<1>4. /\ SubSeq(q, 1, k - 1) \in Seq(S) /\ Len(SubSeq(q, 1, k - 1)) = k - 1
      /\ \A i \in 1..k - 1 : SubSeq(q, 1, k - 1)[i] = q[i]
  BY <1>1, <1>2
<1>5. /\ SubSeq(q, k + 1, Len(q)) \in Seq(S) /\ Len(SubSeq(q, k + 1, Len(q))) = Len(q) - k
      /\ \A i \in 1..Len(q) - k : SubSeq(q, k + 1, Len(q))[i] = q[i + k]
  BY <1>1, <1>2
<1>6. /\ r \in Seq(S) /\ DOMAIN r = 1..Len(q) - 1
      /\ \A i \in 1..Len(q) - 1 : r[i] = IF i < k THEN q[i] ELSE q[i + 1]
  <2> DEFINE a == SubSeq(q, 1, k - 1)
             b == SubSeq(q, k + 1, Len(q))
  <2> HIDE DEF a, b
  <2>1. /\ a \in Seq(S) /\ Len(a) = k - 1 /\ \A i \in 1..k - 1 : a[i] = q[i]
        /\ b \in Seq(S) /\ Len(b) = Len(q) - k /\ \A i \in 1..Len(q) - k : b[i] = q[i + k]
        /\ r = a \o b
    BY <1>3, <1>4, <1>5 DEF a, b
  <2> HIDE DEF p, r
  <2>2. /\ r \in Seq(S) /\ DOMAIN r = 1..Len(q) - 1
        /\ \A i \in 1..Len(q) - 1 : r[i] = IF i <= k - 1 THEN a[i] ELSE b[i - (k - 1)]
    <3>1. a \in Seq(S) /\ b \in Seq(S) /\ r = a \o b /\ k \in 1..Len(q) /\ Len(a) + Len(b) = Len(q) - 1
      BY <1>1, <1>2, <2>1
    <3>2. r \in Seq(S) /\ Len(r) = Len(q) - 1
      BY <3>1
    <3>3. \A i \in 1..Len(r) : r[i] = IF i <= Len(a) THEN a[i] ELSE b[i - Len(a)]
      <4>1. Len(r) = Len(a) + Len(b) /\ Len(a) \in Nat /\ Len(b) \in Nat
        BY <3>1
      <4>2. \A i \in 1..Len(a) + Len(b) : (a \o b)[i] = IF i <= Len(a) THEN a[i] ELSE b[i - Len(a)]
        BY ONLY <3>1, ConcatProperties
      <4>3. QED BY ONLY <3>1, <4>1, <4>2
    <3>4. Len(a) = k - 1
      BY <2>1
    <3>5. DOMAIN r = 1..Len(r)
      BY ONLY <3>2
    <3>6. QED BY ONLY <3>2, <3>3, <3>4, <3>5
  <2>3. k \in 1..Len(q) /\ Len(q) \in Nat
    BY <1>1, <1>2
  <2>4. ASSUME NEW i \in 1..Len(q) - 1 PROVE r[i] = IF i < k THEN q[i] ELSE q[i + 1]
    <3>1. ASSUME i < k PROVE r[i] = q[i]
      <4>1. i <= k - 1 /\ i \in 1..k - 1
        BY <2>3, <3>1
      <4>2. r[i] = a[i]
        BY <2>2, <4>1
      <4>3. QED BY <2>1, <4>1, <4>2
    <3>2. ASSUME ~(i < k) PROVE r[i] = q[i + 1]
      <4>1. i - (k - 1) \in 1..Len(q) - k /\ (i - (k - 1)) + k = i + 1 /\ ~(i <= k - 1)
        BY <2>3, <3>2
      <4>2. r[i] = b[i - (k - 1)]
        BY <2>2, <4>1
      <4>3. b[i - (k - 1)] = q[(i - (k - 1)) + k]
        BY <2>1, <4>1
      <4>4. QED BY <4>1, <4>2, <4>3
    <3>3. QED BY <3>1, <3>2
  <2>5. QED BY <2>2, <2>4
<1>7. IsInjective(r)
  <2>1. SUFFICES ASSUME NEW i \in 1..Len(q) - 1, NEW j \in 1..Len(q) - 1, r[i] = r[j] PROVE i = j
    BY <1>6 DEF IsInjective
  <2>2. /\ i \in Int /\ j \in Int /\ k \in 1..Len(q) /\ Len(q) \in Nat
        /\ {i, i + 1, j, j + 1} \subseteq DOMAIN q
    BY <1>1, <1>2
  <2>3. \A x, y \in DOMAIN q : q[x] = q[y] => x = y
    BY DEF IsInjective
  <2>4. /\ r[i] = IF i < k THEN q[i] ELSE q[i + 1]
        /\ r[j] = IF j < k THEN q[j] ELSE q[j + 1]
    BY <1>6
  <2>5. CASE i < k /\ j < k
    BY <2>1, <2>2, <2>3, <2>4, <2>5
  <2>6. CASE i < k /\ ~(j < k)
    <3>1. q[i] = q[j + 1]
      BY <2>1, <2>4, <2>6
    <3>2. QED BY <2>2, <2>3, <2>6, <3>1
  <2>7. CASE ~(i < k) /\ j < k
    <3>1. q[i + 1] = q[j]
      BY <2>1, <2>4, <2>7
    <3>2. QED BY <2>2, <2>3, <2>7, <3>1
  <2>8. CASE ~(i < k) /\ ~(j < k)
    <3>1. q[i + 1] = q[j + 1]
      BY <2>1, <2>4, <2>8
    <3>2. QED BY <2>2, <2>3, <2>8, <3>1
  <2>9. QED BY <2>5, <2>6, <2>7, <2>8
<1>8. ASSUME NEW x PROVE x \in Range(r) <=> x \in Range(q) /\ x # p
  <2>1. ASSUME NEW i \in DOMAIN r, x = r[i] PROVE x \in Range(q) /\ x # p
    <3>1. CASE i < k
      <4>1. i \in DOMAIN q /\ i # k /\ r[i] = q[i]
        BY <1>1, <1>2, <1>6, <2>1, <3>1
      <4>2. QED BY <1>1, <2>1, <4>1 DEF Range, IsInjective
    <3>2. CASE ~(i < k)
      <4>1. i + 1 \in DOMAIN q /\ i + 1 # k /\ r[i] = q[i + 1]
        BY <1>1, <1>2, <1>6, <2>1, <3>2
      <4>2. QED BY <1>1, <2>1, <4>1 DEF Range, IsInjective
    <3>3. QED BY <3>1, <3>2
  <2>2. ASSUME NEW i \in DOMAIN q, x = q[i], x # p PROVE x \in Range(r)
    <3>1. CASE i < k
      <4>1. i \in DOMAIN r /\ r[i] = x
        BY <1>1, <1>2, <1>6, <2>2, <3>1
      <4>2. QED BY <4>1 DEF Range
    <3>2. CASE ~(i < k)
      <4>1. i - 1 \in DOMAIN r /\ r[i - 1] = x
        BY <1>1, <1>2, <1>6, <2>2, <3>2
      <4>2. QED BY <4>1 DEF Range
    <3>3. QED BY <3>1, <3>2
  <2>3. QED BY <2>1, <2>2 DEF Range
<1>9. QED BY <1>6, <1>7, <1>8 DEF p, r

\* The lowest of some numbers.
LEMMA LowestOf ==
  ASSUME NEW S \in SUBSET Nat, S # {}
  PROVE  Min(S) \in S /\ \A y \in S : Min(S) <= y
<1> DEFINE R == OpToRel(<, Nat)
<1>1. IsWellFoundedOn(R, Nat)
  BY NatLessThanWellFounded
<1>2. \A x, y \in Nat : y < x => <<y, x>> \in R
  BY DEF OpToRel
<1> HIDE DEF R
<1>3. PICK x \in S : \A y \in S : ~(<<y, x>> \in R)
  BY <1>1, WFMin
<1>4. \A y \in S : x <= y
  <2>1. TAKE y \in S
  <2>2. x \in Nat /\ y \in Nat /\ ~(y < x)
    BY <1>2, <1>3
  <2>3. QED BY <2>2
<1>5. QED BY <1>4 DEF Min
=============================================================================
