--------------------------- MODULE DriversProofs ---------------------------
(***************************************************************************)
(* Proofs about the device drivers (MCDrivers): what the ring of a         *)
(* terminal holds and who waits for it; that the log is read once and in   *)
(* order; where the screens' cursors are; what the keyboard driver knows   *)
(* of its keys; and what comes out of the printer: for any sizes, any      *)
(* processes and any menus of keys and calls.                              *)
(***************************************************************************)
EXTENDS MCDrivers, Lists, FiniteSetTheorems, TLAPS

\* Whatever keys send, and what stands in a slot without input.
TtyBytes == (UNION {UNION {ToSet(k) : k \in m.keys} : m \in TtyMenus}) \cup {Blank, VEOL, CR}

LEMMA BlankIsByte == Blank \in TtyBytes
BY DEF TtyBytes

(***************************************************************************)
(* The ring of a terminal.                                                 *)
(***************************************************************************)
\* A place behind the end of the ring is one at its start.
LEMMA RoundTheRing ==
  ASSUME NEW x \in 0..2 * MaxInput - 1
  PROVE  x % MaxInput = IF x < MaxInput THEN x ELSE x - MaxInput
<1>1. MaxInput \in Nat \ {0}
  BY TerminalAssumption
<1>2. CASE x < MaxInput
  BY <1>1, <1>2
<1>3. CASE x >= MaxInput
  <2>1. x - MaxInput \in 0..MaxInput - 1 /\ x = MaxInput + (x - MaxInput)
    BY <1>1, <1>3
  <2>2. (MaxInput + (x - MaxInput)) % MaxInput = (x - MaxInput) % MaxInput
    BY <1>1, <2>1
  <2>3. QED BY <1>1, <1>3, <2>1, <2>2
<1>4. QED BY <1>1, <1>2, <1>3

\* The highest of a few places, which FoldLeft() takes first.
LEMMA HighestOf ==
  ASSUME NEW m \in 0..3, NEW t \in SUBSET (1..m), t # {}
  PROVE  Max(t) \in t /\ (\A x \in t : x <= Max(t)) /\ m # 0 /\ t \ {Max(t)} \in SUBSET (1..m - 1)
<1>0. \A x \in t : x \in Int /\ 1 <= x /\ x <= m /\ x <= 3
  OBVIOUS
<1>1. PICK y \in t : TRUE
  OBVIOUS
<1>2. \E x \in t : \A z \in t : x >= z
  <2>1. CASE 3 \in t
    BY <1>0, <2>1
  <2>2. CASE 3 \notin t /\ 2 \in t
    <3>1. ASSUME NEW z \in t PROVE 2 >= z
      BY <1>0, <2>2
    <3>2. QED BY <2>2, <3>1
  <2>3. CASE 3 \notin t /\ 2 \notin t
    <3>1. ASSUME NEW z \in t PROVE z = 1
      BY <1>0, <2>3
    <3>2. QED BY <1>1, <3>1
  <2>4. QED BY <2>1, <2>2, <2>3
<1>3. Max(t) \in t /\ \A x \in t : Max(t) >= x
  BY <1>2 DEF Max
<1>4. m # 0
  BY <1>0, <1>1
<1>5. ASSUME NEW x \in t, x # Max(t) PROVE x \in 1..m - 1
  <2>1. x \in Int /\ 1 <= x /\ x <= m /\ Max(t) \in Int /\ Max(t) <= m /\ Max(t) >= x
    BY <1>0, <1>3
  <2>2. QED BY <1>5, <2>1
<1>6. \A x \in t : x <= Max(t)
  BY <1>0, <1>3
<1>7. QED BY <1>3, <1>4, <1>5, <1>6

\* vtty_insertkey() puts the bytes of a key into the ring one by one.
Fed(k, s) == FoldLeft(Put, k, s)

LEMMA BytesOfAKey ==
  ASSUME NEW k, NEW s \in Seq(TtyBytes), Len(s) \in 1..3
  PROVE  \E a : /\ a[0] = k /\ Fed(k, s) = a[Len(s)]
               /\ \A i \in 1..Len(s) : a[i] = Put(a[i - 1], s[i])
<1> DEFINE eq(g) == g = [t \in SUBSET DOMAIN s |-> IF t = {} THEN k ELSE Put(g[t \ {Max(t)}], s[Max(t)])]
           g1(t) == IF t = {} THEN k ELSE Put(k, s[Max(t)])
           g2(t) == IF t = {} THEN k ELSE Put(g1(t \ {Max(t)}), s[Max(t)])
           g3(t) == IF t = {} THEN k ELSE Put(g2(t \ {Max(t)}), s[Max(t)])
           f     == [t \in SUBSET DOMAIN s |-> g3(t)]
           e     == CHOOSE g : eq(g)
           a     == [n \in 0..3 |-> e[1..n]]
<1>1. Fed(k, s) = e[DOMAIN s]
  BY DEF Fed, FoldLeft, MapThenFoldSet
<1>0. Len(s) \in Int /\ 1 <= Len(s) /\ Len(s) <= 3
  <2>1. \A n \in 1..3 : n \in Int /\ 1 <= n /\ n <= 3
    OBVIOUS
  <2>2. QED BY <2>1, Zenon
<1>2. DOMAIN s = 1..Len(s) /\ SUBSET DOMAIN s \subseteq SUBSET (1..3)
  OBVIOUS
<1>3. \A t \in SUBSET (1..1) : t # {} => t \ {Max(t)} = {}
  <2> TAKE t \in SUBSET (1..1)
  <2> HAVE t # {}
  <2>1. t \ {Max(t)} \in SUBSET (1..1 - 1)
    BY HighestOf
  <2>2. QED BY <2>1
<1>4. \A t \in SUBSET (1..2) : t # {} => t \ {Max(t)} \in SUBSET (1..1)
  BY HighestOf
<1>5. \A t \in SUBSET (1..3) : t # {} => t \ {Max(t)} \in SUBSET (1..2)
  BY HighestOf
<1>6. \A t \in SUBSET (1..1) : g2(t) = g1(t)
  BY <1>3
<1>7. \A t \in SUBSET (1..2) : g3(t) = g2(t)
  BY <1>4, <1>6 DEF g3, g2
<1>8. \A t \in SUBSET DOMAIN s : t # {} => t \ {Max(t)} \in SUBSET DOMAIN s /\ f[t] = Put(f[t \ {Max(t)}], s[Max(t)])
  BY <1>2, <1>5, <1>7
<1>9. {} \in SUBSET DOMAIN s /\ f[{}] = k
  OBVIOUS
<1>10. eq(f)
  BY <1>8, <1>9
<1>11. eq(e)
  BY <1>10
<1>12. \A n \in 1..Len(s) : /\ 1..n \in SUBSET DOMAIN s /\ 1..n # {} /\ Max(1..n) = n /\ (1..n) \ {n} = 1..n - 1
  <2> TAKE n \in 1..Len(s)
  <2>1. n \in 0..3 /\ 1..n \in SUBSET (1..n) /\ 1..n # {} /\ n \in 1..n
    BY <1>2
  <2>2. Max(1..n) \in 1..n /\ \A x \in 1..n : x <= Max(1..n)
    BY <2>1, HighestOf
  <2>3. QED BY <1>2, <2>1, <2>2
<1> HIDE DEF eq, g1, g2, g3, f, e
<1>13. e[{}] = k /\ \A n \in 1..Len(s) : e[1..n] = Put(e[1..n - 1], s[n])
  <2>1. e = [t \in SUBSET DOMAIN s |-> IF t = {} THEN k ELSE Put(e[t \ {Max(t)}], s[Max(t)])]
    BY <1>11 DEF eq
  <2>2. e[{}] = k
    BY <1>9, <2>1
  <2>3. ASSUME NEW n \in 1..Len(s) PROVE e[1..n] = Put(e[1..n - 1], s[n])
    <3>1. e[1..n] = Put(e[(1..n) \ {Max(1..n)}], s[Max(1..n)])
      BY <1>12, <2>1
    <3>2. QED BY <1>12, <3>1
  <2>4. QED BY <2>2, <2>3
<1>14. a[0] = k /\ Fed(k, s) = a[Len(s)] /\ \A i \in 1..Len(s) : a[i] = Put(a[i - 1], s[i])
  <2>1. 1..0 = {}
    OBVIOUS
  <2>2. a[0] = k /\ a[Len(s)] = e[1..Len(s)]
    BY <1>13, <2>1
  <2>3. ASSUME NEW i \in 1..Len(s) PROVE a[i] = e[1..i] /\ a[i - 1] = e[1..i - 1]
    <3>1. Len(s) \in Int /\ Len(s) <= 3 /\ i \in Int /\ 1 <= i /\ i <= Len(s)
      BY <1>0
    <3>2. i \in 0..3 /\ i - 1 \in 0..3
      BY <3>1
    <3>3. QED BY <3>2
  <2>4. QED BY <1>1, <1>2, <1>13, <2>2, <2>3
<1>15. QED BY <1>14

\* A ring that holds count bytes from its head on, and nothing behind its end.
GoodRing(k) ==
    /\ k \in [queue : [0..MaxInput -> TtyBytes], head : 0..MaxInput, tail : 0..MaxInput - 1, count : 0..MaxInput - 1]
    /\ k.tail = (k.head + k.count) % MaxInput
    /\ k.queue[MaxInput] = Blank
    /\ \A i \in 1..k.count : k.queue[(k.head + i - 1) % MaxInput] # Blank

\* Its bytes, and where they are.
Bytes(k)    == [i \in 1..k.count |-> k.queue[(k.head + i - 1) % MaxInput]]
Place(k, i) == IF k.head + i - 1 < MaxInput THEN k.head + i - 1 ELSE k.head + i - 1 - MaxInput

LEMMA PlacesOfRing ==
  ASSUME NEW k, k.head \in 0..MaxInput
  PROVE  /\ \A i \in 1..MaxInput : (k.head + i - 1) % MaxInput = Place(k, i) /\ Place(k, i) \in 0..MaxInput - 1
         /\ \A i, j \in 1..MaxInput : i # j => Place(k, i) # Place(k, j)
<1>1. MaxInput \in Nat /\ MaxInput > 4
  BY TerminalAssumption
<1>2. ASSUME NEW i \in 1..MaxInput
      PROVE  (k.head + i - 1) % MaxInput = Place(k, i) /\ Place(k, i) \in 0..MaxInput - 1
  <2>1. k.head + i - 1 \in 0..2 * MaxInput - 1
    BY <1>1
  <2>2. (k.head + i - 1) % MaxInput = Place(k, i)
    <3>1. \A x \in 0..2 * MaxInput - 1 : /\ x < MaxInput => x % MaxInput = x
                                         /\ x >= MaxInput => x % MaxInput = x - MaxInput
      BY <1>1, RoundTheRing
    <3>2. PICK x \in 0..2 * MaxInput - 1 : x = k.head + i - 1
      BY <2>1
    <3>3. CASE x < MaxInput
      BY <1>1, <3>1, <3>2, <3>3 DEF Place
    <3>4. CASE x >= MaxInput
      BY <1>1, <3>1, <3>2, <3>4 DEF Place
    <3>5. QED BY <1>1, <3>3, <3>4
  <2>3. QED BY <1>1, <2>2 DEF Place
<1>3. ASSUME NEW i \in 1..MaxInput, NEW j \in 1..MaxInput, i # j PROVE Place(k, i) # Place(k, j)
  BY <1>1, <1>3 DEF Place
<1>4. QED BY <1>2, <1>3

\* What it is for a ring to be good, without remainders.
LEMMA RingByPlaces ==
  ASSUME NEW k \in [queue : [0..MaxInput -> TtyBytes], head : 0..MaxInput, tail : 0..MaxInput - 1, count : 0..MaxInput - 1]
  PROVE  /\ GoodRing(k) <=> /\ k.tail = Place(k, k.count + 1)
                            /\ k.queue[MaxInput] = Blank
                            /\ \A i \in 1..k.count : k.queue[Place(k, i)] # Blank
         /\ Bytes(k) = [i \in 1..k.count |-> k.queue[Place(k, i)]]
         /\ Bytes(k) \in Seq(TtyBytes) /\ Len(Bytes(k)) = k.count
<1>1. MaxInput \in Nat /\ MaxInput > 4 /\ k.count \in 0..MaxInput - 1 /\ k.head \in 0..MaxInput
  BY TerminalAssumption
<1>2. k.count + 1 \in 1..MaxInput /\ \A i \in 1..k.count : i \in 1..MaxInput
  BY <1>1
<1>3. (k.head + (k.count + 1) - 1) % MaxInput = Place(k, k.count + 1)
  BY <1>1, <1>2, PlacesOfRing
<1>4. k.head + (k.count + 1) - 1 = k.head + k.count
  BY <1>1
<1>5. \A i \in 1..k.count : /\ (k.head + i - 1) % MaxInput = Place(k, i) /\ Place(k, i) \in 0..MaxInput
                            /\ k.queue[Place(k, i)] \in TtyBytes
  <2>1. ASSUME NEW i \in 1..k.count PROVE (k.head + i - 1) % MaxInput = Place(k, i) /\ Place(k, i) \in 0..MaxInput
    <3>1. i \in 1..MaxInput
      BY <1>2
    <3>2. (k.head + i - 1) % MaxInput = Place(k, i) /\ Place(k, i) \in 0..MaxInput - 1
      BY <1>1, <3>1, PlacesOfRing
    <3>3. QED BY <1>1, <3>2
  <2>2. QED BY <2>1
<1>6. GoodRing(k) <=> /\ k.tail = Place(k, k.count + 1)
                      /\ k.queue[MaxInput] = Blank
                      /\ \A i \in 1..k.count : k.queue[Place(k, i)] # Blank
  BY <1>3, <1>4, <1>5 DEF GoodRing
<1>7. Bytes(k) = [i \in 1..k.count |-> k.queue[Place(k, i)]]
  BY <1>5 DEF Bytes
<1>8. Bytes(k) \in Seq(TtyBytes) /\ Len(Bytes(k)) = k.count
  <2>1. k.count \in Nat
    BY <1>1
  <2>2. QED BY <1>5, <1>7, <2>1
<1>9. QED BY <1>6, <1>7, <1>8

\* What a good ring gives.
LEMMA OfGoodRing ==
  ASSUME NEW k, GoodRing(k)
  PROVE  /\ MaxInput \in Nat /\ MaxInput > 4
         /\ k = [queue |-> k.queue, head |-> k.head, tail |-> k.tail, count |-> k.count]
         /\ k.queue \in [0..MaxInput -> TtyBytes] /\ k.head \in 0..MaxInput /\ k.tail \in 0..MaxInput - 1
         /\ k.count \in 0..MaxInput - 1
         /\ k.tail = Place(k, k.count + 1) /\ k.queue[MaxInput] = Blank
         /\ \A i \in 1..MaxInput : Place(k, i) \in 0..MaxInput - 1
         /\ \A i, j \in 1..MaxInput : i # j => Place(k, i) # Place(k, j)
         /\ \A i \in 1..k.count : k.queue[Place(k, i)] # Blank
         /\ Bytes(k) = [i \in 1..k.count |-> k.queue[Place(k, i)]]
         /\ Bytes(k) \in Seq(TtyBytes) /\ Len(Bytes(k)) = k.count
<1>1. k \in [queue : [0..MaxInput -> TtyBytes], head : 0..MaxInput, tail : 0..MaxInput - 1, count : 0..MaxInput - 1]
  BY DEF GoodRing
<1>2. /\ k.tail = Place(k, k.count + 1) /\ k.queue[MaxInput] = Blank
      /\ \A i \in 1..k.count : k.queue[Place(k, i)] # Blank
      /\ Bytes(k) = [i \in 1..k.count |-> k.queue[Place(k, i)]]
      /\ Bytes(k) \in Seq(TtyBytes) /\ Len(Bytes(k)) = k.count
  BY <1>1, RingByPlaces
<1>3. k.head \in 0..MaxInput
  BY <1>1
<1>4. /\ \A i \in 1..MaxInput : Place(k, i) \in 0..MaxInput - 1
      /\ \A i, j \in 1..MaxInput : i # j => Place(k, i) # Place(k, j)
  BY <1>3, PlacesOfRing
<1>5. k = [queue |-> k.queue, head |-> k.head, tail |-> k.tail, count |-> k.count]
  BY <1>1
<1>6. QED BY <1>1, <1>2, <1>4, <1>5, TerminalAssumption

LEMMA OneLonger ==
  ASSUME NEW S, NEW q \in Seq(S), NEW s \in Seq(S), NEW b \in S, Len(s) = Len(q) + 1,
         \A i \in 1..Len(q) : s[i] = q[i], s[Len(q) + 1] = b
  PROVE  s = Append(q, b)
OBVIOUS

LEMMA TwoParts ==
  ASSUME NEW S, NEW q \in Seq(S), NEW r \in Seq(S), NEW s \in Seq(S), Len(s) = Len(q) + Len(r),
         \A i \in 1..Len(q) : s[i] = q[i], \A i \in 1..Len(r) : s[Len(q) + i] = r[i]
  PROVE  s = q \o r
<1>1. q \o r \in Seq(S) /\ Len(q \o r) = Len(q) + Len(r) /\ Len(q) \in Nat /\ Len(r) \in Nat
  OBVIOUS
<1>2. ASSUME NEW i \in 1..Len(s) PROVE s[i] = (q \o r)[i]
  <2>1. CASE i \in 1..Len(q)
    BY <2>1
  <2>2. CASE i \notin 1..Len(q)
    <3>1. i - Len(q) \in 1..Len(r) /\ i = Len(q) + (i - Len(q))
      BY <1>1, <2>2
    <3>2. s[i] = r[i - Len(q)]
      BY <3>1
    <3>3. (q \o r)[i] = r[i - Len(q)]
      BY <1>1, <2>2, <3>1
    <3>4. QED BY <3>2, <3>3
  <2>3. QED BY <2>1, <2>2
<1>3. QED BY <1>1, <1>2

LEMMA BeginningOf ==
  ASSUME NEW S, NEW q \in Seq(S), NEW n \in 0..Len(q), NEW s \in Seq(S), Len(s) = n, \A i \in 1..n : s[i] = q[i]
  PROVE  s = SubSeq(q, 1, n)
OBVIOUS

LEMMA EndOf ==
  ASSUME NEW S, NEW q \in Seq(S), NEW n \in 0..Len(q), NEW s \in Seq(S), Len(s) = Len(q) - n,
         \A i \in 1..Len(q) - n : s[i] = q[n + i]
  PROVE  s = SubSeq(q, n + 1, Len(q))
OBVIOUS

LEMMA TailIsEnd ==
  ASSUME NEW S, NEW q \in Seq(S), Len(q) # 0
  PROVE  q # <<>> /\ SubSeq(q, 2, Len(q)) = Tail(q) /\ Len(Tail(q)) = Len(q) - 1 /\ Tail(q) \in Seq(S)
<1>1. q # <<>> /\ Tail(q) \in Seq(S) /\ Len(Tail(q)) = Len(q) - 1 /\ 1 \in 0..Len(q)
  OBVIOUS
<1>2. \A i \in 1..Len(q) - 1 : Tail(q)[i] = q[1 + i]
  <2>1. TAKE i \in 1..Len(q) - 1
  <2>2. Tail(q)[i] = q[i + 1] /\ i \in Int
    BY <1>1
  <2>3. QED BY <2>2
<1>3. Tail(q) = SubSeq(q, 1 + 1, Len(q))
  BY <1>1, <1>2, EndOf
<1>4. QED BY <1>1, <1>3

\* A byte is put behind the last one.
LEMMA PutInRing ==
  ASSUME NEW k, GoodRing(k), k.count + 1 < MaxInput, NEW b \in TtyBytes, b # Blank
  PROVE  /\ GoodRing(Put(k, b)) /\ Put(k, b).count = k.count + 1 /\ Put(k, b).head = k.head
         /\ Bytes(Put(k, b)) = Append(Bytes(k), b)
<1> DEFINE j == Put(k, b)
<1>1. /\ MaxInput \in Nat /\ MaxInput > 4
      /\ k.queue \in [0..MaxInput -> TtyBytes] /\ k.head \in 0..MaxInput /\ k.tail \in 0..MaxInput - 1
      /\ k.count \in 0..MaxInput - 1
      /\ k.tail = Place(k, k.count + 1) /\ k.queue[MaxInput] = Blank
  BY OfGoodRing
<1>2. /\ \A i \in 1..MaxInput : Place(k, i) \in 0..MaxInput - 1
      /\ \A i, l \in 1..MaxInput : i # l => Place(k, i) # Place(k, l)
      /\ \A i \in 1..k.count : k.queue[Place(k, i)] # Blank
  BY OfGoodRing
<1>3. /\ Bytes(k) = [i \in 1..k.count |-> k.queue[Place(k, i)]]
      /\ Bytes(k) \in Seq(TtyBytes) /\ Len(Bytes(k)) = k.count
  BY OfGoodRing
<1>4. /\ j = [queue |-> j.queue, head |-> j.head, tail |-> j.tail, count |-> j.count]
      /\ j.queue = [k.queue EXCEPT ![k.tail] = b] /\ j.head = k.head /\ j.count = k.count + 1
      /\ j.tail = IF k.tail + 1 = MaxInput THEN 0 ELSE k.tail + 1
  BY DEF Put
<1>5. j.queue \in [0..MaxInput -> TtyBytes] /\ j.queue[MaxInput] = Blank
  BY <1>1, <1>4
<1>6. j.head \in 0..MaxInput /\ j.tail \in 0..MaxInput - 1 /\ j.count \in 0..MaxInput - 1
  BY <1>1, <1>4
<1>7. \A i : Place(j, i) = Place(k, i)
  BY <1>4 DEF Place
<1>8. j.tail = Place(j, j.count + 1)
  <2>1. k.tail = IF k.head + k.count < MaxInput THEN k.head + k.count ELSE k.head + k.count - MaxInput
    BY <1>1 DEF Place
  <2>2. Place(k, k.count + 2) = IF k.head + k.count + 1 < MaxInput THEN k.head + k.count + 1
                                ELSE k.head + k.count + 1 - MaxInput
    BY <1>1 DEF Place
  <2>3. j.tail = Place(k, k.count + 2)
    <3>1. \A h \in 0..MaxInput, c \in 0..MaxInput - 2, t \in 0..MaxInput - 1, u \in Int :
             /\ t = IF h + c < MaxInput THEN h + c ELSE h + c - MaxInput
             /\ u = IF t + 1 = MaxInput THEN 0 ELSE t + 1
             => u = IF h + c + 1 < MaxInput THEN h + c + 1 ELSE h + c + 1 - MaxInput
      BY <1>1
    <3>2. k.count \in 0..MaxInput - 2
      BY <1>1
    <3>3. j.tail \in Int
      BY <1>6
    <3>4. k.head \in 0..MaxInput /\ k.tail \in 0..MaxInput - 1 /\ j.tail = IF k.tail + 1 = MaxInput THEN 0 ELSE k.tail + 1
      BY <1>1, <1>4
    <3>5. j.tail = IF k.head + k.count + 1 < MaxInput THEN k.head + k.count + 1 ELSE k.head + k.count + 1 - MaxInput
      BY <2>1, <3>1, <3>2, <3>3, <3>4
    <3>6. QED BY <2>2, <3>5
  <2>4. j.count + 1 = k.count + 2
    BY <1>1, <1>4
  <2>5. QED BY <1>7, <2>3, <2>4
<1>9. k.count \in Nat /\ k.count + 1 \in 1..MaxInput /\ \A i \in 1..k.count + 1 : i \in 1..MaxInput /\ (i # k.count + 1 => i \in 1..k.count)
  BY <1>1
<1>10. ASSUME NEW i \in 1..k.count + 1
       PROVE  j.queue[Place(k, i)] = IF i = k.count + 1 THEN b ELSE k.queue[Place(k, i)]
  <2>1. Place(k, i) \in 0..MaxInput
    BY <1>1, <1>2, <1>9
  <2>2. i # k.count + 1 => Place(k, i) # k.tail
    BY <1>1, <1>2, <1>9
  <2>3. QED BY <1>1, <1>4, <2>1, <2>2
<1> HIDE DEF j
<1>11. \A i \in 1..j.count : j.queue[Place(j, i)] # Blank
  BY <1>2, <1>4, <1>7, <1>9, <1>10
<1>12. j \in [queue : [0..MaxInput -> TtyBytes], head : 0..MaxInput, tail : 0..MaxInput - 1, count : 0..MaxInput - 1]
  BY <1>4, <1>5, <1>6
<1>13. /\ GoodRing(j)
       /\ Bytes(j) = [i \in 1..j.count |-> j.queue[Place(j, i)]]
       /\ Bytes(j) \in Seq(TtyBytes) /\ Len(Bytes(j)) = j.count
  BY <1>5, <1>8, <1>11, <1>12, RingByPlaces
<1>14. Bytes(j) = Append(Bytes(k), b)
  <2>1. \A i \in 1..k.count : Bytes(j)[i] = Bytes(k)[i]
    BY <1>3, <1>4, <1>7, <1>9, <1>10, <1>13
  <2>2. Bytes(j)[k.count + 1] = b
    <3>1. k.count + 1 \in 1..k.count + 1
      BY <1>9
    <3>2. Bytes(j)[k.count + 1] = j.queue[Place(k, k.count + 1)]
      BY <1>4, <1>7, <1>13, <3>1
    <3>3. QED BY <1>10, <3>1, <3>2
  <2>3. /\ Len(Bytes(j)) = Len(Bytes(k)) + 1 /\ \A i \in 1..Len(Bytes(k)) : Bytes(j)[i] = Bytes(k)[i]
        /\ Bytes(j)[Len(Bytes(k)) + 1] = b
    BY <1>3, <1>4, <1>13, <2>1, <2>2
  <2>4. Bytes(j) \in Seq(TtyBytes) /\ Bytes(k) \in Seq(TtyBytes)
    BY <1>3, <1>13
  <2>5. QED BY <2>3, <2>4, OneLonger
<1>15. QED BY <1>4, <1>13, <1>14 DEF j

\* A key is put behind the last byte, whole.
LEMMA KeyInRing ==
  ASSUME NEW k, GoodRing(k), MaxInput - k.count >= 4,
         NEW s \in Seq(TtyBytes), Len(s) \in 1..3, \A i \in DOMAIN s : s[i] # Blank
  PROVE  /\ GoodRing(Fed(k, s)) /\ Fed(k, s).head = k.head
         /\ Bytes(Fed(k, s)) = Bytes(k) \o s
<1>1. PICK a : /\ a[0] = k /\ Fed(k, s) = a[Len(s)]
               /\ \A i \in 1..Len(s) : a[i] = Put(a[i - 1], s[i])
  BY BytesOfAKey
<1> DEFINE P(n) == /\ GoodRing(a[n]) /\ a[n].count = k.count + n /\ a[n].head = k.head
                   /\ \A i \in 1..k.count : Bytes(a[n])[i] = Bytes(k)[i]
                   /\ \A i \in 1..n : Bytes(a[n])[k.count + i] = s[i]
<1>2. MaxInput \in Nat /\ k.count \in Nat /\ k.count + 3 < MaxInput /\ Bytes(k) \in Seq(TtyBytes) /\ Len(Bytes(k)) = k.count
  <2>1. MaxInput \in Nat /\ k.count \in 0..MaxInput - 1 /\ Bytes(k) \in Seq(TtyBytes) /\ Len(Bytes(k)) = k.count
    BY OfGoodRing
  <2>2. QED BY <2>1
<1>3. Len(s) \in Int /\ 1 <= Len(s) /\ Len(s) <= 3
  <2>1. \A n \in 1..3 : n \in Int /\ 1 <= n /\ n <= 3
    OBVIOUS
  <2>2. QED BY <2>1, Zenon
<1>4. P(0)
  BY <1>1, <1>2
<1>5. ASSUME NEW n \in 1..3, n <= Len(s), P(n - 1) PROVE P(n)
  <2>1. n \in 1..Len(s) /\ s[n] \in TtyBytes /\ s[n] # Blank /\ n - 1 \in Int /\ n - 1 <= 2
    BY <1>3, <1>5
  <2>2. a[n] = Put(a[n - 1], s[n])
    BY <1>1, <2>1
  <2>3. GoodRing(a[n - 1]) /\ a[n - 1].count = k.count + (n - 1) /\ a[n - 1].head = k.head
    BY <1>5
  <2>4. a[n - 1].count + 1 < MaxInput
    <3>1. n - 1 \in Int /\ n - 1 <= 2 /\ k.count \in Int /\ MaxInput \in Int /\ k.count + 3 < MaxInput
      BY <1>2, <2>1
    <3>2. k.count + (n - 1) + 1 < MaxInput
      BY ONLY <3>1
    <3>3. QED BY <2>3, <3>2
  <2>5. /\ GoodRing(a[n]) /\ a[n].count = a[n - 1].count + 1 /\ a[n].head = a[n - 1].head
        /\ Bytes(a[n]) = Append(Bytes(a[n - 1]), s[n])
    BY <2>1, <2>2, <2>3, <2>4, PutInRing
  <2>6. Bytes(a[n - 1]) \in Seq(TtyBytes) /\ Len(Bytes(a[n - 1])) = k.count + (n - 1)
    BY <2>3, OfGoodRing
  <2>7. ASSUME NEW i \in 1..k.count PROVE Bytes(a[n])[i] = Bytes(k)[i]
    <3>1. i \in 1..k.count + (n - 1) /\ Bytes(a[n - 1])[i] = Bytes(k)[i]
      BY <1>2, <1>5
    <3>2. Append(Bytes(a[n - 1]), s[n])[i] = Bytes(a[n - 1])[i]
      BY <2>1, <2>6, <3>1
    <3>3. QED BY <2>5, <3>1, <3>2
  <2>8. ASSUME NEW i \in 1..n PROVE Bytes(a[n])[k.count + i] = s[i]
    <3>1. CASE i = n
      <4>1. Append(Bytes(a[n - 1]), s[n])[k.count + (n - 1) + 1] = s[n]
        BY <2>1, <2>6
      <4>2. k.count + (n - 1) + 1 = k.count + i
        BY <1>2, <2>1, <3>1
      <4>3. QED BY <2>5, <3>1, <4>1, <4>2
    <3>2. CASE i # n
      <4>1. i \in 1..n - 1 /\ k.count + i \in 1..k.count + (n - 1)
        <5>1. k.count \in Int /\ n \in Int /\ 0 <= k.count
          BY <1>2, <2>1
        <5>2. i \in Int /\ 1 <= i /\ i <= n - 1
          BY <3>2, <5>1
        <5>3. QED BY ONLY <5>1, <5>2
      <4>2. Bytes(a[n - 1])[k.count + i] = s[i]
        BY <1>5, <4>1
      <4>3. Append(Bytes(a[n - 1]), s[n])[k.count + i] = Bytes(a[n - 1])[k.count + i]
        BY <2>1, <2>6, <4>1
      <4>4. QED BY <2>5, <4>2, <4>3
    <3>3. QED BY <3>1, <3>2
  <2>9. a[n].count = k.count + n /\ a[n].head = k.head
    BY <1>2, <2>1, <2>3, <2>5
  <2>10. QED BY <2>5, <2>7, <2>8, <2>9
<1> HIDE DEF P
<1>6. P(1)
  BY <1>3, <1>4, <1>5
<1>7. Len(s) >= 2 => P(2)
  BY <1>3, <1>5, <1>6
<1>8. Len(s) >= 3 => P(3)
  BY <1>3, <1>5, <1>7
<1>9. P(Len(s))
  <2>1. Len(s) = 1 \/ Len(s) = 2 \/ Len(s) = 3
    <3>1. \A n \in 1..3 : n = 1 \/ n = 2 \/ n = 3
      OBVIOUS
    <3>2. QED BY <3>1, Zenon
  <2>2. QED BY <1>3, <1>6, <1>7, <1>8, <2>1
<1> DEFINE f == a[Len(s)]
<1>10. /\ GoodRing(f) /\ f.count = k.count + Len(s) /\ f.head = k.head
       /\ \A i \in 1..k.count : Bytes(f)[i] = Bytes(k)[i]
       /\ \A i \in 1..Len(s) : Bytes(f)[k.count + i] = s[i]
  BY <1>9 DEF P
<1>11. Bytes(f) \in Seq(TtyBytes) /\ Len(Bytes(f)) = k.count + Len(s)
  BY <1>10, OfGoodRing
<1> HIDE DEF f
<1>12. Bytes(f) = Bytes(k) \o s
  <2>1. /\ Bytes(k) \in Seq(TtyBytes) /\ Bytes(f) \in Seq(TtyBytes) /\ Len(Bytes(f)) = Len(Bytes(k)) + Len(s)
        /\ \A i \in 1..Len(Bytes(k)) : Bytes(f)[i] = Bytes(k)[i]
        /\ \A i \in 1..Len(s) : Bytes(f)[Len(Bytes(k)) + i] = s[i]
    BY <1>2, <1>10, <1>11
  <2>2. QED BY <2>1, TwoParts
<1>13. QED BY <1>1, <1>10, <1>12 DEF f

\* VERASE takes the last byte.
LEMMA ErasedInRing ==
  ASSUME NEW k, GoodRing(k), k.count # 0
  PROVE  GoodRing(Erased(k)) /\ Erased(k).head = k.head /\ Bytes(Erased(k)) = SubSeq(Bytes(k), 1, k.count - 1)
<1> DEFINE j == Erased(k)
           t == IF k.tail # 0 THEN k.tail - 1 ELSE MaxInput - 1
<1>1. /\ MaxInput \in Nat /\ MaxInput > 4
      /\ k = [queue |-> k.queue, head |-> k.head, tail |-> k.tail, count |-> k.count]
      /\ k.queue \in [0..MaxInput -> TtyBytes] /\ k.head \in 0..MaxInput /\ k.tail \in 0..MaxInput - 1
      /\ k.count \in 0..MaxInput - 1
      /\ k.tail = Place(k, k.count + 1) /\ k.queue[MaxInput] = Blank
  BY OfGoodRing
<1>2. /\ \A i \in 1..MaxInput : Place(k, i) \in 0..MaxInput - 1
      /\ \A i, l \in 1..MaxInput : i # l => Place(k, i) # Place(k, l)
      /\ \A i \in 1..k.count : k.queue[Place(k, i)] # Blank
  BY OfGoodRing
<1>3. /\ Bytes(k) = [i \in 1..k.count |-> k.queue[Place(k, i)]]
      /\ Bytes(k) \in Seq(TtyBytes) /\ Len(Bytes(k)) = k.count
  BY OfGoodRing
<1>4. /\ j = [queue |-> [k.queue EXCEPT ![t] = Blank], head |-> k.head, tail |-> t, count |-> k.count - 1]
  <2>1. j = [k EXCEPT !.queue[t] = Blank, !.tail = t, !.count = @ - 1]
    BY DEF Erased
  <2> HIDE DEF j, t
  <2>2. ASSUME NEW q \in [0..MaxInput -> TtyBytes], NEW h, NEW a, NEW c, k = [queue |-> q, head |-> h, tail |-> a, count |-> c]
        PROVE  j = [queue |-> [q EXCEPT ![t] = Blank], head |-> h, tail |-> t, count |-> c - 1]
    BY <2>1, <2>2
  <2>3. QED BY <1>1, <2>2
<1>5. t \in 0..MaxInput - 1
  BY <1>1
<1>6. t = Place(k, k.count)
  <2>1. k.tail = IF k.head + k.count < MaxInput THEN k.head + k.count ELSE k.head + k.count - MaxInput
    BY <1>1 DEF Place
  <2>2. Place(k, k.count) = IF k.head + k.count - 1 < MaxInput THEN k.head + k.count - 1
                            ELSE k.head + k.count - 1 - MaxInput
    BY DEF Place
  <2>3. QED BY <1>1, <2>1, <2>2
<1> HIDE DEF t
<1>7. /\ j.queue = [k.queue EXCEPT ![t] = Blank] /\ j.head = k.head /\ j.tail = t /\ j.count = k.count - 1
  BY <1>4
<1>8. j.queue \in [0..MaxInput -> TtyBytes] /\ j.queue[MaxInput] = Blank
  BY <1>1, <1>5, <1>7, BlankIsByte
<1>9. j.count \in 0..MaxInput - 1
  BY <1>1, <1>7
<1>10. j \in [queue : [0..MaxInput -> TtyBytes], head : 0..MaxInput, tail : 0..MaxInput - 1, count : 0..MaxInput - 1]
  BY <1>1, <1>4, <1>5, <1>7, <1>8, <1>9
<1> HIDE DEF j
<1>11. \A i : Place(j, i) = Place(k, i)
  BY <1>7 DEF Place
<1>12. j.tail = Place(j, j.count + 1)
  <2>1. j.count + 1 = k.count
    BY <1>1, <1>7
  <2>2. QED BY <1>6, <1>7, <1>11, <2>1
<1>13. ASSUME NEW i \in 1..j.count
       PROVE  i \in 1..k.count /\ j.queue[Place(j, i)] = k.queue[Place(k, i)]
  <2>1. i \in 1..MaxInput /\ k.count \in 1..MaxInput /\ i # k.count /\ i \in 1..k.count
    BY <1>1, <1>7
  <2>2. Place(k, i) # t /\ Place(k, i) \in 0..MaxInput
    BY <1>1, <1>2, <1>6, <2>1
  <2>3. QED BY <1>1, <1>7, <1>11, <2>1, <2>2
<1>14. \A i \in 1..j.count : j.queue[Place(j, i)] # Blank
  BY <1>2, <1>13
<1>15. /\ GoodRing(j)
       /\ Bytes(j) = [i \in 1..j.count |-> j.queue[Place(j, i)]]
       /\ Bytes(j) \in Seq(TtyBytes) /\ Len(Bytes(j)) = j.count
  BY <1>8, <1>10, <1>12, <1>14, RingByPlaces
<1>16. Bytes(j) = SubSeq(Bytes(k), 1, k.count - 1)
  <2>1. \A i \in 1..j.count : Bytes(j)[i] = Bytes(k)[i]
    BY <1>3, <1>13, <1>15
  <2>2. k.count - 1 \in 0..Len(Bytes(k)) /\ Len(Bytes(j)) = k.count - 1
    BY <1>1, <1>3, <1>7, <1>15
  <2>3. Len(Bytes(j)) = k.count - 1 /\ \A i \in 1..k.count - 1 : Bytes(j)[i] = Bytes(k)[i]
    BY <1>7, <2>1, <2>2
  <2>4. Bytes(j) \in Seq(TtyBytes) /\ Bytes(k) \in Seq(TtyBytes)
    BY <1>3, <1>15
  <2>5. QED BY <2>2, <2>3, <2>4, BeginningOf
<1>17. QED BY <1>7, <1>15, <1>16 DEF j

\* A read takes the first bytes.
LEMMA TakenFromRing ==
  ASSUME NEW k, GoodRing(k), NEW n \in 0..k.count
  PROVE  GoodRing(Taken(k, n)) /\ Bytes(Taken(k, n)) = SubSeq(Bytes(k), n + 1, k.count)
<1> DEFINE j == Taken(k, n)
           gone == {i \in 0..MaxInput - 1 : i \in k.head..k.head + n - 1 \/ i + MaxInput \in k.head..k.head + n - 1}
<1>1. /\ MaxInput \in Nat /\ MaxInput > 4
      /\ k.queue \in [0..MaxInput -> TtyBytes] /\ k.head \in 0..MaxInput /\ k.tail \in 0..MaxInput - 1
      /\ k.count \in 0..MaxInput - 1 /\ k.tail = Place(k, k.count + 1) /\ k.queue[MaxInput] = Blank
  BY OfGoodRing
<1>2. /\ \A i \in 1..MaxInput : Place(k, i) \in 0..MaxInput - 1
      /\ \A i \in 1..k.count : k.queue[Place(k, i)] # Blank
  BY OfGoodRing
<1>3. /\ Bytes(k) = [i \in 1..k.count |-> k.queue[Place(k, i)]]
      /\ Bytes(k) \in Seq(TtyBytes) /\ Len(Bytes(k)) = k.count
  BY OfGoodRing
<1>4. /\ j = [queue |-> j.queue, head |-> j.head, tail |-> j.tail, count |-> j.count]
      /\ j.queue = [i \in 0..MaxInput |-> IF i \in gone THEN Blank ELSE k.queue[i]]
      /\ j.head = IF n > MaxInput - k.head THEN n - (MaxInput - k.head) ELSE k.head + n
      /\ j.tail = k.tail /\ j.count = k.count - n
  BY DEF Taken
<1> HIDE DEF j
<1>5. j.queue \in [0..MaxInput -> TtyBytes] /\ j.queue[MaxInput] = Blank
  BY <1>1, <1>4, BlankIsByte
<1>6. j.head \in 0..MaxInput /\ j.count \in 0..MaxInput - 1 /\ n \in Nat /\ k.count \in Nat /\ n <= k.count
  <2>1. /\ n \in Nat /\ k.count \in Nat /\ n <= k.count /\ k.count < MaxInput /\ k.head \in Nat /\ k.head <= MaxInput
        /\ MaxInput \in Nat
    BY <1>1
  <2>2. j.count = k.count - n /\ j.head = IF n > MaxInput - k.head THEN n - (MaxInput - k.head) ELSE k.head + n
    BY <1>4
  <2>3. j.count \in 0..MaxInput - 1
    BY <2>1, <2>2
  <2>4. CASE n > MaxInput - k.head
    BY <2>1, <2>2, <2>3, <2>4
  <2>5. CASE ~(n > MaxInput - k.head)
    BY <2>1, <2>2, <2>3, <2>5
  <2>6. QED BY <2>4, <2>5
<1>7. ASSUME NEW i \in 1..MaxInput, n + i <= MaxInput
      PROVE  Place(j, i) = Place(k, n + i) /\ Place(k, n + i) \notin gone
  <2>1. Place(k, n + i) = IF k.head + n + i - 1 < MaxInput THEN k.head + n + i - 1 ELSE k.head + n + i - 1 - MaxInput
    BY <1>1, <1>6 DEF Place
  <2>2. Place(j, i) = IF j.head + i - 1 < MaxInput THEN j.head + i - 1 ELSE j.head + i - 1 - MaxInput
    BY DEF Place
  <2>3. Place(j, i) = Place(k, n + i)
    <3>1. CASE n > MaxInput - k.head
      <4>1. j.head = n - (MaxInput - k.head)
        BY <1>4, <3>1
      <4>2. k.head + n - MaxInput \in Int /\ k.head + n > MaxInput /\ j.head + i - 1 = k.head + n + i - 1 - MaxInput
        <5>1. k.head \in Int /\ MaxInput \in Int /\ n \in Int /\ i \in Int
          BY <1>1, <1>6
        <5>2. QED BY <3>1, <4>1, <5>1
      <4>3. k.head + n + i - 1 - MaxInput < MaxInput /\ ~(k.head + n + i - 1 < MaxInput)
        <5>1. k.head \in Int /\ MaxInput \in Int /\ n \in Int /\ i \in Int /\ k.head <= MaxInput /\ 1 <= i /\ n + i <= MaxInput
          BY <1>1, <1>6, <1>7
        <5>2. QED BY ONLY <4>2, <5>1
      <4>4. QED BY <2>1, <2>2, <4>2, <4>3
    <3>2. CASE ~(n > MaxInput - k.head)
      <4>1. j.head = k.head + n
        BY <1>4, <3>2
      <4>2. QED BY <1>1, <1>6, <1>7, <2>1, <2>2, <3>2, <4>1
    <3>3. QED BY <3>1, <3>2
  <2>4. k.head \in Int /\ MaxInput \in Int /\ n \in Int /\ i \in Int /\ 0 <= k.head /\ 0 <= n /\ 1 <= i /\ n + i <= MaxInput
    BY <1>1, <1>6, <1>7
  <2>5. Place(k, n + i) \notin gone
    <3>1. PICK x : x = Place(k, n + i)
      OBVIOUS
    <3>2. x \in Int /\ ~(x \in k.head..k.head + n - 1)
      <4>1. x = k.head + n + i - 1 \/ x = k.head + n + i - 1 - MaxInput
        BY <2>1, <3>1
      <4>2. CASE x = k.head + n + i - 1
        BY <2>4, <4>2
      <4>3. CASE x = k.head + n + i - 1 - MaxInput
        BY <2>4, <4>3
      <4>4. QED BY <4>1, <4>2, <4>3
    <3>3. ~(x + MaxInput \in k.head..k.head + n - 1)
      <4>1. x = k.head + n + i - 1 \/ x = k.head + n + i - 1 - MaxInput
        BY <2>1, <3>1
      <4>2. CASE x = k.head + n + i - 1
        BY <2>4, <4>2
      <4>3. CASE x = k.head + n + i - 1 - MaxInput
        BY <2>4, <4>3
      <4>4. QED BY <4>1, <4>2, <4>3
    <3>4. QED BY <3>1, <3>2, <3>3
  <2>6. QED BY <2>3, <2>5
<1>8. j.tail = Place(j, j.count + 1)
  <2>1. j.count + 1 \in 1..MaxInput /\ n + (j.count + 1) <= MaxInput /\ n + (j.count + 1) = k.count + 1
    <3>1. j.count = k.count - n /\ k.count \in 0..MaxInput - 1
      BY <1>1, <1>4
    <3>2. n \in Int /\ k.count \in Int /\ MaxInput \in Int /\ 0 <= n /\ n <= k.count /\ k.count <= MaxInput - 1
      BY <1>1, <1>6
    <3>3. QED BY ONLY <3>1, <3>2
  <2>2. QED BY <1>1, <1>4, <1>7, <2>1
<1>9. ASSUME NEW i \in 1..j.count
      PROVE  n + i \in 1..k.count /\ j.queue[Place(j, i)] = k.queue[Place(k, n + i)]
  <2>1. i \in 1..MaxInput /\ n + i \in 1..MaxInput /\ n + i <= MaxInput /\ n + i \in 1..k.count
    <3>1. j.count = k.count - n /\ k.count \in 0..MaxInput - 1
      BY <1>1, <1>4
    <3>2. n \in Int /\ k.count \in Int /\ MaxInput \in Int /\ 0 <= n /\ n <= k.count /\ k.count <= MaxInput - 1
      BY <1>1, <1>6
    <3>3. i \in Int /\ 1 <= i /\ i <= j.count
      BY <1>6, <1>9
    <3>4. QED BY ONLY <3>1, <3>2, <3>3
  <2>2. Place(k, n + i) \in 0..MaxInput
    <3>1. Place(k, n + i) \in 0..MaxInput - 1
      BY <1>2, <2>1
    <3>2. MaxInput \in Nat
      BY <1>1
    <3>3. QED BY ONLY <3>1, <3>2
  <2>3. Place(j, i) = Place(k, n + i) /\ Place(k, n + i) \notin gone
    BY <1>7, <2>1
  <2>4. QED BY <1>4, <2>1, <2>2, <2>3
<1> HIDE DEF gone
<1>10. \A i \in 1..j.count : j.queue[Place(j, i)] # Blank
  BY <1>2, <1>9
<1>11. j \in [queue : [0..MaxInput -> TtyBytes], head : 0..MaxInput, tail : 0..MaxInput - 1, count : 0..MaxInput - 1]
  BY <1>1, <1>4, <1>5, <1>6
<1>12. /\ GoodRing(j)
       /\ Bytes(j) = [i \in 1..j.count |-> j.queue[Place(j, i)]]
       /\ Bytes(j) \in Seq(TtyBytes) /\ Len(Bytes(j)) = j.count
  BY <1>5, <1>8, <1>10, <1>11, RingByPlaces
<1>13. Bytes(j) = SubSeq(Bytes(k), n + 1, k.count)
  <2>1. \A i \in 1..j.count : Bytes(j)[i] = Bytes(k)[n + i]
    BY <1>3, <1>9, <1>12
  <2>2. n \in 0..Len(Bytes(k)) /\ Len(Bytes(j)) = Len(Bytes(k)) - n /\ j.count = Len(Bytes(k)) - n
    BY <1>3, <1>4, <1>12
  <2>3. \A i \in 1..Len(Bytes(k)) - n : Bytes(j)[i] = Bytes(k)[n + i]
    BY <2>1, <2>2
  <2>4. Bytes(j) \in Seq(TtyBytes) /\ Bytes(k) \in Seq(TtyBytes)
    BY <1>3, <1>12
  <2>5. Bytes(j) = SubSeq(Bytes(k), n + 1, Len(Bytes(k)))
    BY <2>2, <2>3, <2>4, EndOf
  <2>6. QED BY <1>3, <2>5
<1>14. QED BY <1>12, <1>13 DEF j

\* An end of file that comes next goes too, but for one behind the end of the ring.
LEMMA EofFromRing ==
  ASSUME NEW k, GoodRing(k)
  PROVE  /\ GoodRing(discard_eof(k))
         /\ IF k.count # 0 /\ k.head # MaxInput /\ Bytes(k)[1] = VEOF
            THEN Bytes(discard_eof(k)) = SubSeq(Bytes(k), 2, k.count)
            ELSE discard_eof(k) = k
<1>1. /\ MaxInput \in Nat /\ MaxInput > 4
      /\ k = [queue |-> k.queue, head |-> k.head, tail |-> k.tail, count |-> k.count]
      /\ k.queue \in [0..MaxInput -> TtyBytes] /\ k.head \in 0..MaxInput /\ k.tail \in 0..MaxInput - 1
      /\ k.count \in 0..MaxInput - 1
      /\ k.tail = Place(k, k.count + 1) /\ k.queue[MaxInput] = Blank
  BY OfGoodRing
<1>2. /\ \A i \in 1..MaxInput : Place(k, i) \in 0..MaxInput - 1
      /\ \A i, l \in 1..MaxInput : i # l => Place(k, i) # Place(k, l)
      /\ \A i \in 1..k.count : k.queue[Place(k, i)] # Blank
  BY OfGoodRing
<1>3. /\ Bytes(k) = [i \in 1..k.count |-> k.queue[Place(k, i)]]
      /\ Bytes(k) \in Seq(TtyBytes) /\ Len(Bytes(k)) = k.count
  BY OfGoodRing
<1>4. k.count # 0 => Bytes(k)[1] = k.queue[Place(k, 1)]
  <2>1. k.count # 0 => 1 \in 1..k.count
    BY <1>1
  <2>2. QED BY <1>3, <2>1
<1>5. k.head # MaxInput => Place(k, 1) = k.head
  BY <1>1 DEF Place
<1>6. CASE ~(k.count # 0 /\ k.head # MaxInput /\ Bytes(k)[1] = VEOF)
  <2>1. ~(k.count # 0 /\ k.queue[k.head] = VEOF)
    BY <1>1, <1>4, <1>5, <1>6 DEF Blank, VEOF
  <2>2. discard_eof(k) = k
    BY <2>1 DEF discard_eof
  <2>3. QED BY <1>6, <2>2
<1>7. CASE k.count # 0 /\ k.head # MaxInput /\ Bytes(k)[1] = VEOF
  <2> DEFINE j == discard_eof(k)
             h == IF k.head + 1 = MaxInput THEN 0 ELSE k.head + 1
  <2>1. k.queue[k.head] = VEOF
    BY <1>4, <1>5, <1>7
  <2>2. j = [queue |-> [k.queue EXCEPT ![k.head] = Blank], head |-> h, tail |-> k.tail, count |-> k.count - 1]
    <3>1. j = [k EXCEPT !.queue[k.head] = Blank, !.head = h, !.count = @ - 1]
      BY <1>7, <2>1 DEF discard_eof
    <3> HIDE DEF j, h
    <3>2. ASSUME NEW q \in [0..MaxInput -> TtyBytes], NEW x, NEW a, NEW c,
                 k = [queue |-> q, head |-> x, tail |-> a, count |-> c]
          PROVE  j = [queue |-> [q EXCEPT ![x] = Blank], head |-> h, tail |-> a, count |-> c - 1]
      BY <3>1, <3>2
    <3>3. QED BY <1>1, <3>2
  <2>3. h \in 0..MaxInput - 1 /\ k.count \in Nat /\ k.count - 1 \in Nat /\ k.count < MaxInput
    BY <1>1, <1>7
  <2>4. \A i \in 1..MaxInput - 1 : i + 1 \in 1..MaxInput /\ Place(j, i) = Place(k, i + 1)
    <3>1. j.head = h
      BY <2>2
    <3> HIDE DEF j
    <3>2. TAKE i \in 1..MaxInput - 1
    <3>3. i + 1 \in 1..MaxInput
      BY <1>1
    <3>4. Place(j, i) = IF h + i - 1 < MaxInput THEN h + i - 1 ELSE h + i - 1 - MaxInput
      BY <3>1 DEF Place
    <3>5. Place(k, i + 1) = IF k.head + i < MaxInput THEN k.head + i ELSE k.head + i - MaxInput
      BY <1>1 DEF Place
    <3>6. k.head \in Int /\ MaxInput \in Int /\ i \in Int /\ 0 <= k.head /\ k.head < MaxInput /\ 1 <= i /\ i <= MaxInput - 1
      BY <1>1, <1>7, <3>3
    <3>7. CASE k.head + 1 = MaxInput
      <4>1. h + i - 1 < MaxInput /\ h + i - 1 = i - 1 /\ ~(k.head + i < MaxInput) /\ k.head + i - MaxInput = i - 1
        BY <3>6, <3>7
      <4> HIDE DEF h
      <4>2. Place(j, i) = i - 1
        BY ONLY <3>4, <4>1
      <4>3. Place(k, i + 1) = i - 1
        BY ONLY <3>5, <4>1
      <4>4. QED BY <3>3, <4>2, <4>3
    <3>8. CASE k.head + 1 # MaxInput
      <4>1. h = k.head + 1
        BY <3>8
      <4> HIDE DEF h
      <4>2. h + i - 1 = k.head + i /\ h \in Int
        BY ONLY <3>6, <4>1
      <4>3. Place(j, i) = IF k.head + i < MaxInput THEN k.head + i ELSE k.head + i - MaxInput
        BY ONLY <3>4, <3>6, <4>2
      <4>4. QED BY ONLY <3>3, <3>5, <4>3
    <3>9. QED BY <3>7, <3>8
  <2> HIDE DEF h
  <2>5. /\ j.queue = [k.queue EXCEPT ![k.head] = Blank] /\ j.head = h /\ j.tail = k.tail /\ j.count = k.count - 1
    BY <2>2
  <2>6. j.queue \in [0..MaxInput -> TtyBytes] /\ j.queue[MaxInput] = Blank
    BY <1>1, <2>5, BlankIsByte
  <2>7. j \in [queue : [0..MaxInput -> TtyBytes], head : 0..MaxInput, tail : 0..MaxInput - 1, count : 0..MaxInput - 1]
    <3>1. j.count \in 0..MaxInput - 1 /\ h \in 0..MaxInput
      BY <1>1, <2>3, <2>5
    <3>2. QED BY <1>1, <2>2, <2>5, <2>6, <3>1
  <2> HIDE DEF j
  <2>8. j.tail = Place(j, j.count + 1)
    <3>1. j.count + 1 = k.count /\ k.count \in 1..MaxInput - 1
      BY <1>1, <1>7, <2>3, <2>5
    <3>2. QED BY <1>1, <2>4, <2>5, <3>1
  <2>9. ASSUME NEW i \in 1..j.count
        PROVE  i + 1 \in 1..k.count /\ j.queue[Place(j, i)] = k.queue[Place(k, i + 1)]
    <3>1. i \in 1..MaxInput - 1 /\ i + 1 \in 1..k.count /\ i + 1 \in 1..MaxInput /\ 1 \in 1..MaxInput /\ i + 1 # 1
      <4>1. i \in 1..k.count - 1 /\ k.count \in Int /\ MaxInput \in Int /\ k.count < MaxInput
        BY <1>1, <2>3, <2>5
      <4>2. QED BY ONLY <4>1
    <3>2. Place(k, i + 1) # k.head /\ Place(k, i + 1) \in 0..MaxInput
      <4>1. Place(k, 1) = k.head /\ Place(k, i + 1) # Place(k, 1)
        BY <1>2, <1>5, <1>7, <3>1
      <4>2. Place(k, i + 1) \in 0..MaxInput - 1 /\ MaxInput \in Nat
        BY <1>1, <1>2, <3>1
      <4>3. QED BY <4>1, <4>2
    <3>3. QED BY <1>1, <2>4, <2>5, <3>1, <3>2
  <2>10. \A i \in 1..j.count : j.queue[Place(j, i)] # Blank
    BY <1>2, <2>9
  <2>11. /\ GoodRing(j)
         /\ Bytes(j) = [i \in 1..j.count |-> j.queue[Place(j, i)]]
         /\ Bytes(j) \in Seq(TtyBytes) /\ Len(Bytes(j)) = j.count
    BY <2>6, <2>7, <2>8, <2>10, RingByPlaces
  <2>12. Bytes(j) = SubSeq(Bytes(k), 1 + 1, Len(Bytes(k)))
    <3>1. 1 \in 0..Len(Bytes(k)) /\ Len(Bytes(j)) = Len(Bytes(k)) - 1 /\ j.count = Len(Bytes(k)) - 1
      BY <1>3, <1>7, <2>3, <2>5, <2>11
    <3>2. \A i \in 1..Len(Bytes(k)) - 1 : Bytes(j)[i] = Bytes(k)[1 + i]
      <4>1. TAKE i \in 1..Len(Bytes(k)) - 1
      <4>2. i \in 1..j.count /\ i + 1 \in 1..k.count /\ i + 1 = 1 + i
        <5>1. i \in 1..j.count
          BY <3>1
        <5>2. i \in Int
          OBVIOUS
        <5>3. QED BY <2>9, <5>1, <5>2
      <4>3. Bytes(j)[i] = j.queue[Place(j, i)] /\ Bytes(k)[i + 1] = k.queue[Place(k, i + 1)]
        BY <1>3, <2>11, <4>2
      <4>4. QED BY <2>9, <4>2, <4>3
    <3>3. Bytes(j) \in Seq(TtyBytes) /\ Bytes(k) \in Seq(TtyBytes)
      BY <1>3, <2>11
    <3>4. QED BY <3>1, <3>2, <3>3, EndOf
  <2>13. Bytes(j) = SubSeq(Bytes(k), 2, k.count)
    <3>1. 1 + 1 = 2
      OBVIOUS
    <3>2. QED BY <1>3, <2>12, <3>1
  <2>14. QED BY <1>7, <2>11, <2>13 DEF j
<1>8. QED BY <1>6, <1>7

\* vtty_line_count() looks at the bytes in the order in which they came.
LEMMA ScannedInOrder ==
  ASSUME NEW k, GoodRing(k)
  PROVE  Scanned(k) = Bytes(k)
<1>1. /\ MaxInput \in Nat /\ MaxInput > 4
      /\ k.queue \in [0..MaxInput -> TtyBytes] /\ k.head \in 0..MaxInput /\ k.tail \in 0..MaxInput - 1
      /\ k.count \in 0..MaxInput - 1
      /\ k.tail = Place(k, k.count + 1)
  BY OfGoodRing
<1>2. /\ Bytes(k) = [i \in 1..k.count |-> k.queue[Place(k, i)]]
      /\ Bytes(k) \in Seq(TtyBytes) /\ Len(Bytes(k)) = k.count
  BY OfGoodRing
<1>3. k.tail = IF k.head + k.count < MaxInput THEN k.head + k.count ELSE k.head + k.count - MaxInput
  BY <1>1 DEF Place
<1>4. k.head \in Int /\ k.count \in Int /\ MaxInput \in Int /\ k.tail \in Int /\ 0 <= k.count /\ k.count < MaxInput
      /\ 0 <= k.head /\ k.head <= MaxInput /\ 0 <= k.tail /\ k.tail < MaxInput
  BY <1>1
<1>5. CASE k.head > k.tail
  <2> DEFINE a == [i \in 1..MaxInput - k.head |-> k.queue[k.head + i - 1]]
             b == [i \in 1..k.tail |-> k.queue[i - 1]]
  <2>1. k.count = (MaxInput - k.head) + k.tail /\ ~(k.head + k.count < MaxInput)
    BY <1>3, <1>4, <1>5
  <2>2. a \in Seq(TtyBytes) /\ Len(a) = MaxInput - k.head
    <3>1. MaxInput - k.head \in Nat /\ \A i \in 1..MaxInput - k.head : k.head + i - 1 \in 0..MaxInput
      BY <1>4
    <3>2. \A i \in 1..MaxInput - k.head : k.queue[k.head + i - 1] \in TtyBytes
      BY <1>1, <3>1
    <3>3. QED BY <3>1, <3>2
  <2>3. b \in Seq(TtyBytes) /\ Len(b) = k.tail
    <3>1. k.tail \in Nat /\ \A i \in 1..k.tail : i - 1 \in 0..MaxInput
      BY <1>4
    <3>2. \A i \in 1..k.tail : k.queue[i - 1] \in TtyBytes
      BY <1>1, <3>1
    <3>3. QED BY <3>1, <3>2
  <2>4. Len(Bytes(k)) = Len(a) + Len(b)
    BY <1>2, <2>1, <2>2, <2>3
  <2>5. \A i \in 1..Len(a) : Bytes(k)[i] = a[i]
    <3>1. TAKE i \in 1..Len(a)
    <3>2. i \in 1..MaxInput - k.head /\ i \in 1..k.count /\ Place(k, i) = k.head + i - 1
      <4>1. i \in Int /\ 1 <= i /\ i <= MaxInput - k.head
        BY <1>4, <2>2
      <4>2. i \in 1..MaxInput - k.head /\ i \in 1..k.count /\ k.head + i - 1 < MaxInput
        BY ONLY <1>4, <2>1, <4>1
      <4>3. QED BY <4>2 DEF Place
    <3>3. QED BY <1>2, <3>2
  <2>6. \A i \in 1..Len(b) : Bytes(k)[Len(a) + i] = b[i]
    <3>1. TAKE i \in 1..Len(b)
    <3>2. i \in 1..k.tail /\ Len(a) + i = MaxInput - k.head + i
      BY <2>2, <2>3
    <3>3. MaxInput - k.head + i \in 1..k.count /\ i \in Int /\ 1 <= i
      BY <1>4, <2>1, <3>2
    <3>4. Place(k, MaxInput - k.head + i) = i - 1
      BY <1>4, <3>3 DEF Place
    <3>5. Bytes(k)[MaxInput - k.head + i] = k.queue[i - 1]
      BY <1>2, <3>3, <3>4
    <3>6. QED BY <3>2, <3>5
  <2> HIDE DEF a, b
  <2>7. Bytes(k) = a \o b
    BY <1>2, <2>2, <2>3, <2>4, <2>5, <2>6, TwoParts
  <2>8. Scanned(k) = a \o b
    BY <1>5 DEF Scanned, a, b
  <2>9. QED BY <2>7, <2>8
<1>6. CASE ~(k.head > k.tail)
  <2>1. k.count = k.tail - k.head /\ \A i \in 1..k.count : Place(k, i) = k.head + i - 1
    <3>1. k.head + k.count < MaxInput
      BY <1>3, <1>4, <1>6
    <3>2. QED BY <1>3, <1>4, <3>1 DEF Place
  <2>2. QED BY <1>2, <1>6, <2>1 DEF Scanned
<1>7. QED BY <1>5, <1>6

\* What it finds: nothing, or the end of the first line.
Ends(q) == {i \in DOMAIN q : q[i] \in {VEOL, VEOF}}

LEMMA FirstLine ==
  ASSUME NEW k, GoodRing(k)
  PROVE  \/ Ends(Bytes(k)) = {} /\ vtty_line_count(k) = -1
         \/ \E m \in Ends(Bytes(k)) : /\ m \in 1..k.count /\ \A i \in Ends(Bytes(k)) : m <= i
                                      /\ vtty_line_count(k) = m - (IF Bytes(k)[m] = VEOF THEN 1 ELSE 0)
<1> DEFINE q == Bytes(k)
           m == Min(Ends(q))
<1>1. q \in Seq(TtyBytes) /\ Len(q) = k.count /\ DOMAIN q = 1..k.count /\ k.count \in Nat
  <2>1. q \in Seq(TtyBytes) /\ Len(q) = k.count /\ k.count \in 0..MaxInput - 1 /\ MaxInput \in Nat
    BY OfGoodRing
  <2>2. QED BY <2>1
<1>2. vtty_line_count(k) = IF Ends(q) = {} THEN -1 ELSE m - (IF q[m] = VEOF THEN 1 ELSE 0)
  BY ScannedInOrder DEF vtty_line_count, Ends
<1>3. Ends(q) \in SUBSET Nat /\ \A i \in Ends(q) : i \in 1..k.count
  BY <1>1 DEF Ends
<1>4. CASE Ends(q) # {}
  <2>1. m \in Ends(q) /\ \A i \in Ends(q) : m <= i
    BY <1>3, <1>4, LowestOf
  <2>2. QED BY <1>2, <1>3, <1>4, <2>1
<1>5. QED BY <1>2, <1>4

\* The two copies of a read are what comes first.
LEMMA CopiedInOrder ==
  ASSUME NEW k, GoodRing(k), NEW n \in 0..k.count
  PROVE  Copied(k, n) = SubSeq(Bytes(k), 1, n)
<1>1. /\ MaxInput \in Nat /\ MaxInput > 4
      /\ k.queue \in [0..MaxInput -> TtyBytes] /\ k.head \in 0..MaxInput /\ k.count \in 0..MaxInput - 1
  BY OfGoodRing
<1>2. /\ Bytes(k) = [i \in 1..k.count |-> k.queue[Place(k, i)]]
      /\ Bytes(k) \in Seq(TtyBytes) /\ Len(Bytes(k)) = k.count
  BY OfGoodRing
<1>3. /\ k.head \in Int /\ k.count \in Int /\ MaxInput \in Int /\ n \in Nat /\ n <= k.count /\ k.count < MaxInput
      /\ 0 <= k.head /\ k.head <= MaxInput
  BY <1>1
<1>4. Copied(k, n) = [i \in 1..n |-> k.queue[IF i <= MaxInput - k.head THEN k.head + i - 1 ELSE i - (MaxInput - k.head) - 1]]
  BY DEF Copied
<1>5. ASSUME NEW i \in 1..n
      PROVE  i \in 1..k.count /\ (IF i <= MaxInput - k.head THEN k.head + i - 1 ELSE i - (MaxInput - k.head) - 1) = Place(k, i)
  BY <1>3 DEF Place
<1>6. \A i \in 1..n : Copied(k, n)[i] = Bytes(k)[i] /\ Bytes(k)[i] \in TtyBytes
  <2>1. TAKE i \in 1..n
  <2>2. Copied(k, n)[i] = k.queue[Place(k, i)]
    BY <1>4, <1>5
  <2>3. i \in 1..k.count
    BY <1>5
  <2>4. Bytes(k)[i] = k.queue[Place(k, i)] /\ Bytes(k)[i] \in TtyBytes
    <3>1. Bytes(k)[i] = k.queue[Place(k, i)]
      BY <1>2, <2>3
    <3>2. \A q \in Seq(TtyBytes) : \A l \in 1..Len(q) : q[l] \in TtyBytes
      OBVIOUS
    <3>3. QED BY <1>2, <2>3, <3>1, <3>2
  <2>5. QED BY <2>2, <2>4
<1>7. Copied(k, n) \in Seq(TtyBytes) /\ Len(Copied(k, n)) = n
  <2>1. DOMAIN Copied(k, n) = 1..n
    BY <1>4
  <2>2. Copied(k, n) = [i \in 1..n |-> Bytes(k)[i]]
    BY <1>4, <1>6, <2>1
  <2>3. QED BY <1>3, <1>6, <2>2
<1>8. n \in 0..Len(Bytes(k))
  BY <1>2
<1>9. QED BY <1>2, <1>6, <1>7, <1>8, BeginningOf

\* What a call that reads n bytes of ring k leaves: ring j.
ReadLeaves(k, n, lines, j) ==
    LET rest == SubSeq(Bytes(k), n + 1, k.count)
    IN  /\ GoodRing(j) /\ j.count <= k.count
        /\ Ends(Bytes(k)) = {} => Ends(Bytes(j)) = {}
        /\ \/ Bytes(j) = rest /\ (~lines \/ rest = <<>> \/ rest[1] # VEOF \/ n = MaxInput - k.head)
           \/ rest # <<>> /\ rest[1] = VEOF /\ Bytes(j) = Tail(rest)

LEMMA ReadFromRing ==
  ASSUME NEW k, GoodRing(k), NEW n \in 0..k.count, NEW lines \in BOOLEAN,
         NEW j, (lines /\ j = discard_eof(Taken(k, n))) \/ (~lines /\ j = Taken(k, n))
  PROVE  ReadLeaves(k, n, lines, j)
<1> DEFINE t == Taken(k, n)
           rest == SubSeq(Bytes(k), n + 1, k.count)
<1> SUFFICES /\ GoodRing(j) /\ j.count <= k.count
             /\ Ends(Bytes(k)) = {} => Ends(Bytes(j)) = {}
             /\ \/ Bytes(j) = rest /\ (~lines \/ rest = <<>> \/ rest[1] # VEOF \/ n = MaxInput - k.head)
                \/ rest # <<>> /\ rest[1] = VEOF /\ Bytes(j) = Tail(rest)
  BY DEF ReadLeaves
<1>1. /\ MaxInput \in Nat /\ MaxInput > 4 /\ k.head \in 0..MaxInput /\ k.count \in 0..MaxInput - 1
      /\ Bytes(k) \in Seq(TtyBytes) /\ Len(Bytes(k)) = k.count
  BY OfGoodRing
<1>2. GoodRing(t) /\ Bytes(t) = rest
  BY TakenFromRing
<1>3. Bytes(t) \in Seq(TtyBytes) /\ Len(Bytes(t)) = t.count /\ t.count \in Nat
  <2>1. Bytes(t) \in Seq(TtyBytes) /\ Len(Bytes(t)) = t.count /\ t.count \in 0..MaxInput - 1
    BY <1>2, OfGoodRing
  <2>2. QED BY <1>1, <2>1
<1>4. t.count = k.count - n /\ t.head = IF n > MaxInput - k.head THEN n - (MaxInput - k.head) ELSE k.head + n
  BY DEF Taken
<1>5. t.head = MaxInput => n = MaxInput - k.head
  <2>1. n \in Int /\ n < MaxInput /\ k.head \in Int /\ k.head <= MaxInput /\ MaxInput \in Int
    BY <1>1
  <2>2. QED BY <1>4, <2>1
<1>6. Ends(Bytes(k)) = {} => Ends(Bytes(t)) = {}
  <2>1. ASSUME NEW i \in 1..t.count PROVE n + i \in 1..k.count /\ Bytes(t)[i] = Bytes(k)[n + i]
    <3>1. n \in Nat /\ k.count \in Nat /\ i \in Nat /\ 1 <= i /\ i <= k.count - n
      BY <1>1, <1>4
    <3>2. n + i \in 1..k.count
      BY <3>1
    <3>3. \A q \in Seq(TtyBytes) : \A a, b \in Nat : \A l \in 1..b - a : b <= Len(q) => SubSeq(q, a + 1, b)[l] = q[a + l]
      OBVIOUS
    <3>4. i \in 1..k.count - n
      BY <3>1
    <3>5. SubSeq(Bytes(k), n + 1, k.count)[i] = Bytes(k)[n + i]
      BY <1>1, <3>1, <3>3, <3>4
    <3>6. QED BY <1>2, <3>2, <3>5
  <2>2. DOMAIN Bytes(t) = 1..t.count /\ DOMAIN Bytes(k) = 1..k.count
    BY <1>1, <1>3
  <2>3. ASSUME NEW i \in Ends(Bytes(t)) PROVE n + i \in Ends(Bytes(k))
    <3>1. i \in 1..t.count /\ Bytes(t)[i] \in {VEOL, VEOF}
      BY <2>2 DEF Ends
    <3>2. QED BY <2>1, <2>2, <3>1 DEF Ends
  <2>4. QED BY <2>3
<1> HIDE DEF t
<1>7. CASE j = t
  <2>1. ~lines \/ discard_eof(t) = t
    BY <1>7 DEF t
  <2>2. ~lines \/ rest = <<>> \/ rest[1] # VEOF \/ n = MaxInput - k.head
    <3>1. CASE lines
      <4>1. t.count # 0 /\ t.head # MaxInput /\ Bytes(t)[1] = VEOF => Bytes(t) = SubSeq(Bytes(t), 2, t.count)
        BY <1>2, <2>1, <3>1, EofFromRing
      <4>2. t.count # 0 => Bytes(t) # SubSeq(Bytes(t), 2, t.count)
        <5>1. \A q \in Seq(TtyBytes) : Len(q) # 0 => Len(SubSeq(q, 2, Len(q))) = Len(q) - 1
          BY TailIsEnd
        <5>2. QED BY <1>3, <5>1
      <4>3. t.count = 0 => rest = <<>>
        BY <1>2, <1>3
      <4>4. QED BY <1>2, <1>5, <4>1, <4>2, <4>3
    <3>2. QED BY <3>1
  <2>3. j.count <= k.count
    BY <1>1, <1>4, <1>7
  <2>4. QED BY <1>2, <1>6, <1>7, <2>2, <2>3
<1>8. CASE j # t
  <2>1. lines /\ j = discard_eof(t)
    BY <1>8 DEF t
  <2>2. t.count # 0 /\ Bytes(t)[1] = VEOF /\ Bytes(j) = SubSeq(Bytes(t), 2, t.count) /\ GoodRing(j)
    BY <1>2, <1>8, <2>1, EofFromRing
  <2>3. Bytes(t) # <<>> /\ Bytes(j) = Tail(Bytes(t)) /\ Len(Bytes(j)) = t.count - 1
    <3>1. \A q \in Seq(TtyBytes) : Len(q) # 0 => /\ Len(SubSeq(q, 2, Len(q))) = Len(q) - 1
                                               /\ q # <<>> /\ SubSeq(q, 2, Len(q)) = Tail(q)
      BY TailIsEnd
    <3>2. QED BY <1>3, <2>2, <3>1
  <2>4. 1 \in Ends(Bytes(t))
    BY <1>3, <2>2 DEF Ends
  <2>5. j.count = t.count - 1
    BY <2>2, <2>3, OfGoodRing
  <2>6. j.count <= k.count
    BY <1>1, <1>3, <1>4, <2>5
  <2>7. QED BY <1>2, <1>6, <2>2, <2>3, <2>4, <2>6
<1>9. QED BY <1>7, <1>8

(***************************************************************************)
(* The invariant.                                                          *)
(***************************************************************************)
TtyPlaces == {"user", "line", "line again", "min", "min again", "poll", "out", "out again"}
Wants     == [cnt : Nat, min : Nat, start : Nat]

\* Of a process at place l: it has the terminal open, waits by the mode that is still set unless someone set
\* another one, and sleeps for what is not there.
TtyProcOK(p) ==
    /\ tpc[p] # "user" => tty[p].open
    /\ tpc[p] \in {"min", "min again"} /\ p \notin crossed => ~tio.icanon
    /\ tpc[p] = "line" => Ends(Bytes(kbd)) = {}
    /\ tpc[p] = "min" /\ p \notin crossed => kbd.count < rd[p].min
    /\ tpc[p] = "out" => ~scroll \/ rebooting

TtyTypes ==
    /\ tmenu \in TtyMenus /\ tio \in Attributes
    /\ tpc \in [TtyProcs -> TtyPlaces] /\ rd \in [TtyProcs -> Wants]
    /\ tty \in [TtyProcs -> [open : BOOLEAN, ctty : BOOLEAN]]

TtyInv == TtyTypes /\ GoodRing(kbd) /\ \A p \in TtyProcs : TtyProcOK(p)

\* Someone is woken, or nobody.
WokenUp(from, to) == to = from \/ <<from, to>> \in {<<"line", "line again">>, <<"min", "min again">>, <<"out", "out again">>}

LEMMA AwakenedAre ==
  ASSUME tpc \in [TtyProcs -> TtyPlaces], NEW ps, NEW ls \in SUBSET {"line", "min", "out"}, tpc' = Awakened(ps, ls)
  PROVE  /\ tpc' \in [TtyProcs -> TtyPlaces]
         /\ \A p \in TtyProcs : WokenUp(tpc[p], tpc'[p]) /\ (p \in ps /\ tpc[p] \in ls => tpc'[p] # tpc[p])
<1>1. ASSUME NEW p \in TtyProcs
      PROVE  /\ tpc'[p] \in TtyPlaces /\ WokenUp(tpc[p], tpc'[p])
             /\ p \in ps /\ tpc[p] \in ls => tpc'[p] # tpc[p]
  <2>1. tpc'[p] = IF p \in ps /\ tpc[p] \in ls THEN Ready(tpc[p]) ELSE tpc[p]
    BY DEF Awakened
  <2>2. tpc[p] \in TtyPlaces
    OBVIOUS
  <2>3. CASE p \in ps /\ tpc[p] \in ls
    <3>1. tpc[p] = "line" \/ tpc[p] = "min" \/ tpc[p] = "out"
      BY <2>3
    <3>2. QED BY <2>1, <2>3, <3>1 DEF Ready, WokenUp, TtyPlaces
  <2>4. CASE ~(p \in ps /\ tpc[p] \in ls)
    BY <2>1, <2>2, <2>4 DEF WokenUp
  <2>5. QED BY <2>3, <2>4
<1>2. tpc' = [p \in TtyProcs |-> tpc'[p]]
  BY DEF Awakened
<1>3. QED BY <1>1, <1>2

\* A step of the keyboard, or of a call that does not move its caller, keeps the invariant when the ring stays one
\* and those who are left asleep still have nothing.
LEMMA StepAround ==
  ASSUME TtyInv, UNCHANGED <<tmenu, tio, rd, tty, crossed>>, GoodRing(kbd'), tpc' \in [TtyProcs -> TtyPlaces],
         \A p \in TtyProcs : WokenUp(tpc[p], tpc'[p]),
         \A p \in TtyProcs : /\ tpc'[p] = "line" => Ends(Bytes(kbd')) = {}
                             /\ tpc'[p] = "min" /\ p \notin crossed => kbd'.count < rd[p].min
                             /\ tpc'[p] = "out" => ~scroll' \/ rebooting'
  PROVE  TtyInv'
<1>1. TtyTypes'
  BY DEF TtyInv, TtyTypes
<1>2. ASSUME NEW p \in TtyProcs PROVE TtyProcOK(p)'
  <2>1. TtyProcOK(p)
    BY DEF TtyInv
  <2>2. /\ tpc'[p] # "user" => tpc[p] # "user"
        /\ tpc'[p] \in {"min", "min again"} => tpc[p] \in {"min", "min again"}
    BY DEF WokenUp
  <2>3. QED BY <2>1, <2>2 DEF TtyProcOK
<1>3. QED BY <1>1, <1>2 DEF TtyInv

\* A call ends.
LEMMA StepOut ==
  ASSUME TtyInv, NEW p \in TtyProcs, Leaves(p), GoodRing(kbd'), kbd'.count <= kbd.count,
         Ends(Bytes(kbd)) = {} => Ends(Bytes(kbd')) = {},
         rd' \in [TtyProcs -> Wants], \A q \in TtyProcs \ {p} : rd'[q] = rd[q]
  PROVE  TtyInv'
<1>1. /\ tpc' = [tpc EXCEPT ![p] = "user"] /\ crossed' = crossed \ {p}
      /\ UNCHANGED <<tmenu, tio, scroll, rebooting, tty>>
  BY DEF Leaves, tGoto, modes
<1>2. TtyTypes'
  BY <1>1 DEF TtyInv, TtyTypes, TtyPlaces
<1>3. ASSUME NEW q \in TtyProcs PROVE TtyProcOK(q)'
  <2>1. TtyProcOK(q) /\ tpc \in [TtyProcs -> TtyPlaces]
    BY DEF TtyInv, TtyTypes
  <2>2. CASE q = p
    <3>1. tpc'[q] = "user"
      BY <1>1, <2>1, <2>2
    <3>2. QED BY <3>1 DEF TtyProcOK
  <2>3. CASE q # p
    <3>1. tpc'[q] = tpc[q] /\ rd'[q] = rd[q] /\ (q \in crossed' <=> q \in crossed)
      BY <1>1, <2>1, <2>3
    <3>2. kbd'.count <= kbd.count /\ kbd.count < rd[q].min => kbd'.count < rd[q].min
      <4>1. kbd.count \in Int /\ kbd'.count \in Int /\ rd[q].min \in Int
        <5>1. MaxInput \in Nat /\ kbd.count \in 0..MaxInput - 1 /\ kbd'.count \in 0..MaxInput - 1
          BY OfGoodRing DEF TtyInv
        <5>2. rd[q].min \in Nat
          BY DEF TtyInv, TtyTypes, Wants
        <5>3. QED BY <5>1, <5>2
      <4>2. QED BY <4>1
    <3>3. QED BY <1>1, <2>1, <3>1, <3>2 DEF TtyProcOK
  <2>4. QED BY <2>2, <2>3
<1>4. QED BY <1>2, <1>3 DEF TtyInv

\* A call waits.
LEMMA StepToWait ==
  ASSUME TtyInv, NEW p \in TtyProcs, NEW l \in TtyPlaces, tGoto(p, l), Stays(p), tty[p].open,
         rd' \in [TtyProcs -> Wants], \A q \in TtyProcs \ {p} : rd'[q] = rd[q],
         l = "line" => Ends(Bytes(kbd)) = {},
         l \in {"min", "min again"} /\ p \notin crossed => ~tio.icanon,
         l = "min" => kbd.count < rd'[p].min,
         l = "out" => ~scroll
  PROVE  TtyInv'
<1>1. tpc' = [tpc EXCEPT ![p] = l] /\ UNCHANGED <<kbd, tmenu, tio, scroll, rebooting, tty, crossed>>
  BY DEF tGoto, Stays, modes
<1>2. TtyTypes'
  BY <1>1 DEF TtyInv, TtyTypes
<1>3. ASSUME NEW q \in TtyProcs PROVE TtyProcOK(q)'
  <2>1. TtyProcOK(q) /\ tpc \in [TtyProcs -> TtyPlaces]
    BY DEF TtyInv, TtyTypes
  <2>2. CASE q = p
    <3>1. tpc'[q] = l
      BY <1>1, <2>1, <2>2
    <3>2. QED BY <1>1, <2>2, <3>1 DEF TtyProcOK
  <2>3. CASE q # p
    <3>1. tpc'[q] = tpc[q] /\ rd'[q] = rd[q]
      BY <1>1, <2>1, <2>3
    <3>2. QED BY <1>1, <2>1, <3>1 DEF TtyProcOK
  <2>4. QED BY <2>2, <2>3
<1>4. GoodRing(kbd')
  BY <1>1 DEF TtyInv
<1>5. QED BY <1>2, <1>3, <1>4 DEF TtyInv

(***************************************************************************)
(* The steps.  Each keeps the invariant and does to the bytes what         *)
(* TypeAhead allows.                                                       *)
(***************************************************************************)
KeyCodes == (UNION {m.keys : m \in TtyMenus}) \cup {<<CR>>, <<VEOL>>}
ByLine   == tio.icanon /\ \A p \in TtyProcs : tpc[p] \notin {"min", "min again", "poll"}

ReadsLine(n) ==
    \E i \in Ends(Bytes(kbd)) : /\ \A j \in Ends(Bytes(kbd)) : i <= j
                                /\ n <= i - (IF Bytes(kbd)[i] = VEOF THEN 1 ELSE 0)
ReadsAhead(n) ==
    \E rest : /\ rest = SubSeq(Bytes(kbd), n + 1, Len(Bytes(kbd)))
              /\ n <= Len(Bytes(kbd))
              /\ \/ Bytes(kbd') = rest /\ ~(ByLine /\ rest # <<>> /\ rest[1] = VEOF /\ n # MaxInput - kbd.head)
                 \/ rest # <<>> /\ rest[1] = VEOF /\ Bytes(kbd') = Tail(rest)
              /\ ByLine => ReadsLine(n)
AheadStep ==
    \/ Bytes(kbd') = Bytes(kbd)
    \/ \E c \in KeyCodes : Len(Bytes(kbd)) + Len(c) <= MaxInput /\ Bytes(kbd') = Bytes(kbd) \o c
    \/ Bytes(kbd) # <<>> /\ Bytes(kbd') = Front(Bytes(kbd))
    \/ Bytes(kbd') = <<>>
    \/ \E n \in 0..MaxInput : ReadsAhead(n)

LEMMA EmptyRing ==
  GoodRing(Empty) /\ Empty.count = 0 /\ Bytes(Empty) = <<>> /\ Ends(Bytes(Empty)) = {}
<1>1. MaxInput \in Nat /\ MaxInput > 4
  BY TerminalAssumption
<1>2. Empty \in [queue : [0..MaxInput -> TtyBytes], head : 0..MaxInput, tail : 0..MaxInput - 1, count : 0..MaxInput - 1]
  <2>1. [i \in 0..MaxInput |-> Blank] \in [0..MaxInput -> TtyBytes]
    <3>1. QED BY BlankIsByte
  <2>2. 0 \in 0..MaxInput /\ 0 \in 0..MaxInput - 1
    BY <1>1
  <2>3. QED BY <2>1, <2>2 DEF Empty
<1>3. Empty.tail = 0 /\ Empty.head = 0 /\ Empty.count = 0 /\ Empty.queue[MaxInput] = Blank
  BY <1>1 DEF Empty
<1>4. Place(Empty, Empty.count + 1) = 0
  BY <1>1, <1>3 DEF Place
<1>5. \A i \in 1..Empty.count : Empty.queue[Place(Empty, i)] # Blank
  BY <1>3
<1>6. GoodRing(Empty) /\ Bytes(Empty) \in Seq(TtyBytes) /\ Len(Bytes(Empty)) = 0
  BY <1>2, <1>3, <1>4, <1>5, RingByPlaces
<1>7. Bytes(Empty) = <<>>
  BY <1>6
<1>8. QED BY <1>3, <1>6, <1>7 DEF Ends

\* A ring that is emptied leaves nobody asleep who was not.
LEMMA StepToEmpty ==
  ASSUME TtyInv, kbd' = Empty \/ kbd' = kbd
  PROVE  /\ GoodRing(kbd') /\ AheadStep
         /\ Ends(Bytes(kbd)) = {} => Ends(Bytes(kbd')) = {}
         /\ \A p \in TtyProcs : kbd.count < rd[p].min => kbd'.count < rd[p].min
<1>1. CASE kbd' = kbd
  BY <1>1 DEF TtyInv, AheadStep
<1>2. CASE kbd' = Empty
  <2>1. GoodRing(kbd') /\ kbd'.count = 0 /\ Bytes(kbd') = <<>> /\ Ends(Bytes(kbd')) = {}
    BY <1>2, EmptyRing
  <2>2. ASSUME NEW p \in TtyProcs, kbd.count < rd[p].min PROVE 0 < rd[p].min
    <3>1. kbd.count \in Nat
      <4>1. MaxInput \in Nat /\ kbd.count \in 0..MaxInput - 1
        BY OfGoodRing DEF TtyInv
      <4>2. QED BY <4>1
    <3>2. rd[p].min \in Nat
      BY DEF TtyInv, TtyTypes, Wants
    <3>3. QED BY <2>2, <3>1, <3>2
  <2>3. QED BY <2>1, <2>2 DEF AheadStep
<1>3. QED BY <1>1, <1>2

\* What a key sends is whole.
LEMMA KeyOfMenu ==
  ASSUME TtyInv, NEW k \in tmenu.keys
  PROVE  /\ Mapped(k) \in KeyCodes /\ Mapped(k) \in Seq(TtyBytes) /\ Len(Mapped(k)) \in 1..3
         /\ \A i \in DOMAIN Mapped(k) : Mapped(k)[i] # Blank /\ (i > 1 => Mapped(k)[i] \notin {VEOL, VEOF})
<1>0. /\ k \in Seq(ToSet(k)) /\ Len(k) \in 1..3 /\ k \in KeyCodes /\ tmenu \in TtyMenus
      /\ \A i \in DOMAIN k : k[i] # Blank /\ (i > 1 => k[i] \notin {VEOL, VEOF})
  BY TerminalAssumption DEF TtyInv, TtyTypes, KeyCodes
<1>1. /\ k \in Seq(TtyBytes) /\ Len(k) \in 1..3 /\ k \in KeyCodes
      /\ \A i \in DOMAIN k : k[i] # Blank /\ (i > 1 => k[i] \notin {VEOL, VEOF})
  <2>1. ToSet(k) \in {ToSet(l) : l \in tmenu.keys}
    OBVIOUS
  <2>2. ToSet(k) \subseteq TtyBytes
    BY <1>0, <2>1 DEF TtyBytes
  <2>3. \A S, T : S \subseteq T => Seq(S) \subseteq Seq(T)
    OBVIOUS
  <2>4. QED BY <1>0, <2>2, <2>3, Zenon
<1>2. Mapped(k) = <<VEOL>> \/ Mapped(k) = <<CR>> \/ Mapped(k) = k
  BY DEF Mapped
<1>3. ASSUME NEW b \in {VEOL, CR}, Mapped(k) = <<b>>
      PROVE  /\ Mapped(k) \in KeyCodes /\ Mapped(k) \in Seq(TtyBytes) /\ Len(Mapped(k)) = 1
             /\ \A i \in DOMAIN Mapped(k) : i = 1 /\ Mapped(k)[i] # Blank
  <2>1. b \in TtyBytes /\ b # Blank /\ <<b>> \in KeyCodes
    <3>1. <<VEOL>> \in {<<CR>>, <<VEOL>>} /\ <<CR>> \in {<<CR>>, <<VEOL>>}
      OBVIOUS
    <3>2. VEOL \in TtyBytes /\ CR \in TtyBytes
      BY DEF TtyBytes
    <3>6. VEOL # Blank /\ CR # Blank
      BY DEF VEOL, CR, Blank
    <3>7. <<VEOL>> \in KeyCodes /\ <<CR>> \in KeyCodes
      BY <3>1 DEF KeyCodes
    <3>3. CASE b = VEOL
      BY <3>2, <3>6, <3>3, <3>7
    <3>4. CASE b = CR
      BY <3>2, <3>6, <3>7, <3>4
    <3>5. QED BY <3>3, <3>4
  <2>2. <<b>> \in Seq(TtyBytes) /\ Len(<<b>>) = 1 /\ DOMAIN <<b>> = {1} /\ <<b>>[1] = b
    BY <2>1
  <2>3. QED BY <1>3, <2>1, <2>2
<1>4. 1 \in 1..3 /\ ~(1 > 1)
  OBVIOUS
<1>5. CASE Mapped(k) = k
  BY <1>1, <1>5, Zenon
<1>6. CASE Mapped(k) = <<VEOL>> \/ Mapped(k) = <<CR>>
  <2>1. PICK b \in {VEOL, CR} : Mapped(k) = <<b>>
    BY <1>6
  <2>2. QED BY <1>3, <1>4, <2>1
<1>7. QED BY <1>2, <1>5, <1>6

\* Whoever sleeps has nothing to read.
LEMMA WhoSleeps ==
  ASSUME TtyInv
  PROVE  /\ tpc \in [TtyProcs -> TtyPlaces] /\ GoodRing(kbd) /\ kbd.count \in Nat
         /\ \A p \in TtyProcs : /\ rd[p].min \in Nat
                                /\ tpc[p] = "line" => Ends(Bytes(kbd)) = {}
                                /\ tpc[p] = "min" /\ p \notin crossed => kbd.count < rd[p].min /\ ~tio.icanon
                                /\ tpc[p] = "out" => ~scroll \/ rebooting
<1>1. MaxInput \in Nat /\ kbd.count \in 0..MaxInput - 1
  BY OfGoodRing DEF TtyInv
<1>2. kbd.count \in Nat
  BY <1>1
<1>3. tpc \in [TtyProcs -> TtyPlaces] /\ rd \in [TtyProcs -> Wants] /\ GoodRing(kbd)
  BY DEF TtyInv, TtyTypes
<1>4. ASSUME NEW p \in TtyProcs
      PROVE  /\ rd[p].min \in Nat
             /\ tpc[p] = "line" => Ends(Bytes(kbd)) = {}
             /\ tpc[p] = "min" /\ p \notin crossed => kbd.count < rd[p].min /\ ~tio.icanon
             /\ tpc[p] = "out" => ~scroll \/ rebooting
  <2>1. TtyProcOK(p)
    BY DEF TtyInv
  <2>2. rd[p].min \in Nat
    BY <1>3 DEF Wants
  <2>3. QED BY <2>1, <2>2 DEF TtyProcOK
<1>5. QED BY <1>2, <1>3, <1>4

LEMMA KeySignalStep ==
  ASSUME TtyInv, NEW k \in tmenu.keys, KeySignal(k)
  PROVE  TtyInv' /\ AheadStep
<1>1. /\ UNCHANGED <<tmenu, tio, rd, tty, crossed, scroll, rebooting>> /\ (kbd' = Empty \/ kbd' = kbd)
      /\ \E ps : tpc' = Awakened(ps, {"line", "min", "out"})
  BY DEF KeySignal, modes, Killed
<1>2. tpc' \in [TtyProcs -> TtyPlaces] /\ \A p \in TtyProcs : WokenUp(tpc[p], tpc'[p])
  BY <1>1, WhoSleeps, AwakenedAre
<1>3. /\ GoodRing(kbd') /\ AheadStep
      /\ Ends(Bytes(kbd)) = {} => Ends(Bytes(kbd')) = {}
      /\ \A p \in TtyProcs : kbd.count < rd[p].min => kbd'.count < rd[p].min
  BY <1>1, StepToEmpty
<1>4. ASSUME NEW p \in TtyProcs
      PROVE  /\ tpc'[p] = "line" => Ends(Bytes(kbd')) = {}
             /\ tpc'[p] = "min" /\ p \notin crossed => kbd'.count < rd[p].min
             /\ tpc'[p] = "out" => ~scroll' \/ rebooting'
  <2>1. tpc'[p] \in {"line", "min", "out"} => tpc[p] = tpc'[p]
    BY <1>2 DEF WokenUp
  <2>2. QED BY <1>1, <1>3, <2>1, WhoSleeps
<1>5. QED BY <1>1, <1>2, <1>3, <1>4, StepAround

LEMMA KeyEraseStep ==
  ASSUME TtyInv, NEW k \in tmenu.keys, KeyErase(k)
  PROVE  TtyInv' /\ AheadStep
<1>1. /\ UNCHANGED <<tmenu, tio, rd, tty, crossed, scroll, rebooting, tpc>>
      /\ kbd' = Empty \/ (kbd.count # 0 /\ kbd' = Erased(kbd))
  BY DEF KeyErase, modes
<1>2. /\ GoodRing(kbd') /\ AheadStep
      /\ Ends(Bytes(kbd)) = {} => Ends(Bytes(kbd')) = {}
      /\ \A p \in TtyProcs : kbd.count < rd[p].min => kbd'.count < rd[p].min
  <2>1. CASE kbd' = Empty
    BY <2>1, StepToEmpty
  <2>2. CASE kbd.count # 0 /\ kbd' = Erased(kbd)
    <3>1. GoodRing(kbd) /\ kbd.count \in Nat
      BY WhoSleeps
    <3>2. GoodRing(kbd') /\ Bytes(kbd') = SubSeq(Bytes(kbd), 1, kbd.count - 1)
      BY <2>2, <3>1, ErasedInRing
    <3>3. Bytes(kbd) \in Seq(TtyBytes) /\ Len(Bytes(kbd)) = kbd.count
      BY <3>1, OfGoodRing
    <3>4. /\ Len(Bytes(kbd')) = kbd.count - 1 /\ Bytes(kbd') \in Seq(TtyBytes)
          /\ \A i \in 1..kbd.count - 1 : Bytes(kbd')[i] = Bytes(kbd)[i]
      BY <2>2, <3>1, <3>2, <3>3
    <3>5. kbd'.count = kbd.count - 1
      BY <3>2, <3>4, OfGoodRing
    <3>6. Ends(Bytes(kbd)) = {} => Ends(Bytes(kbd')) = {}
      <4>1. DOMAIN Bytes(kbd') = 1..kbd.count - 1 /\ DOMAIN Bytes(kbd) = 1..kbd.count
        BY <3>3, <3>4
      <4>2. ASSUME NEW i \in Ends(Bytes(kbd')) PROVE i \in Ends(Bytes(kbd))
        <5>1. i \in 1..kbd.count - 1 /\ Bytes(kbd')[i] \in {VEOL, VEOF}
          BY <4>1 DEF Ends
        <5>2. i \in 1..kbd.count /\ Bytes(kbd)[i] \in {VEOL, VEOF}
          BY <3>1, <3>4, <5>1
        <5>3. QED BY <4>1, <5>2 DEF Ends
      <4>3. QED BY <4>2
    <3>7. AheadStep
      <4>1. Bytes(kbd) # <<>>
        BY <2>2, <3>3
      <4>2. Bytes(kbd') = Front(Bytes(kbd))
        BY <3>2, <3>3 DEF Front
      <4>3. QED BY <4>1, <4>2 DEF AheadStep
    <3>8. \A p \in TtyProcs : kbd.count < rd[p].min => kbd'.count < rd[p].min
      <4>1. TAKE p \in TtyProcs
      <4>2. rd[p].min \in Nat
        BY WhoSleeps
      <4>3. QED BY <3>1, <3>5, <4>2
    <3>9. QED BY <3>2, <3>6, <3>7, <3>8
  <2>3. QED BY <1>1, <2>1, <2>2
<1>3. tpc' \in [TtyProcs -> TtyPlaces] /\ \A p \in TtyProcs : WokenUp(tpc[p], tpc'[p])
  BY <1>1, WhoSleeps DEF WokenUp
<1>4. ASSUME NEW p \in TtyProcs
      PROVE  /\ tpc'[p] = "line" => Ends(Bytes(kbd')) = {}
             /\ tpc'[p] = "min" /\ p \notin crossed => kbd'.count < rd[p].min
             /\ tpc'[p] = "out" => ~scroll' \/ rebooting'
  BY <1>1, <1>2, WhoSleeps
<1>5. QED BY <1>1, <1>2, <1>3, <1>4, StepAround

\* The output is stopped, or started and all who wait for it are woken.
LEMMA StopStep ==
  ASSUME TtyInv, NEW locked \in BOOLEAN, StopsAt(locked), UNCHANGED <<tmenu, kbd, tio, rebooting, rd, tty, crossed>>
  PROVE  TtyInv' /\ AheadStep
<1>1. scroll' = ~locked /\ (IF locked THEN tpc' = tpc ELSE tpc' = Awakened(TtyProcs, {"out"}))
  BY DEF StopsAt
<1>2. /\ tpc' \in [TtyProcs -> TtyPlaces]
      /\ \A p \in TtyProcs : WokenUp(tpc[p], tpc'[p]) /\ (~locked /\ tpc[p] = "out" => tpc'[p] # "out")
  <2>1. CASE locked
    BY <1>1, <2>1, WhoSleeps DEF WokenUp
  <2>2. CASE ~locked
    <3>1. /\ tpc' \in [TtyProcs -> TtyPlaces]
          /\ \A p \in TtyProcs : WokenUp(tpc[p], tpc'[p]) /\ (p \in TtyProcs /\ tpc[p] \in {"out"} => tpc'[p] # tpc[p])
      BY <1>1, <2>2, WhoSleeps, AwakenedAre
    <3>2. QED BY <3>1
  <2>3. QED BY <2>1, <2>2
<1>3. GoodRing(kbd')
  BY WhoSleeps
<1>4. ASSUME NEW p \in TtyProcs
      PROVE  /\ tpc'[p] = "line" => Ends(Bytes(kbd')) = {}
             /\ tpc'[p] = "min" /\ p \notin crossed => kbd'.count < rd[p].min
             /\ tpc'[p] = "out" => ~scroll' \/ rebooting'
  <2>1. tpc'[p] \in {"line", "min", "out"} => tpc[p] = tpc'[p]
    BY <1>2 DEF WokenUp
  <2>2. QED BY <1>1, <1>2, <2>1, WhoSleeps
<1>5. QED BY <1>2, <1>3, <1>4, StepAround DEF AheadStep

LEMMA CtrlAltDelStep ==
  ASSUME TtyInv, CtrlAltDel
  PROVE  TtyInv' /\ AheadStep
<1>1. UNCHANGED <<tmenu, kbd, tio, rd, tty, crossed, tpc>> /\ rebooting'
  BY DEF CtrlAltDel
<1>2. tpc' \in [TtyProcs -> TtyPlaces] /\ \A p \in TtyProcs : WokenUp(tpc[p], tpc'[p])
  BY <1>1, WhoSleeps DEF WokenUp
<1>3. GoodRing(kbd')
  BY <1>1, WhoSleeps
<1>4. ASSUME NEW p \in TtyProcs
      PROVE  /\ tpc'[p] = "line" => Ends(Bytes(kbd')) = {}
             /\ tpc'[p] = "min" /\ p \notin crossed => kbd'.count < rd[p].min
             /\ tpc'[p] = "out" => ~scroll' \/ rebooting'
  BY <1>1, WhoSleeps
<1>5. QED BY <1>1, <1>2, <1>3, <1>4, StepAround DEF AheadStep

LEMMA KeyInsertStep ==
  ASSUME TtyInv, NEW k \in tmenu.keys, KeyInsert(k)
  PROVE  TtyInv' /\ AheadStep
<1> DEFINE s == Mapped(k)
           w == tio.icanon /\ s[1] \notin {VEOL, VEOF}
<1>1. /\ UNCHANGED <<tmenu, tio, rd, tty, crossed, scroll, rebooting>>
      /\ MaxInput - kbd.count >= 4 /\ kbd' = Fed(kbd, s)
      /\ tpc' = IF w THEN tpc ELSE Awakened(TtyProcs, Readers)
  BY DEF KeyInsert, modes, Fed
<1>2. /\ s \in KeyCodes /\ s \in Seq(TtyBytes) /\ Len(s) \in 1..3
      /\ \A i \in DOMAIN s : s[i] # Blank /\ (i > 1 => s[i] \notin {VEOL, VEOF})
  BY KeyOfMenu
<1>3. GoodRing(kbd) /\ kbd.count \in Nat /\ tpc \in [TtyProcs -> TtyPlaces]
  BY WhoSleeps
<1>4. Bytes(kbd) \in Seq(TtyBytes) /\ Len(Bytes(kbd)) = kbd.count /\ MaxInput \in Nat
  BY <1>3, OfGoodRing
<1> HIDE DEF s
<1>5. GoodRing(kbd') /\ Bytes(kbd') = Bytes(kbd) \o s
  BY <1>1, <1>2, <1>3, KeyInRing
<1>6. Len(s) \in Int /\ 1 <= Len(s) /\ Len(s) <= 3
  <2>1. \A n \in 1..3 : n \in Int /\ 1 <= n /\ n <= 3
    OBVIOUS
  <2>2. QED BY <1>2, <2>1, Zenon
<1>7. AheadStep
  <2>1. Len(Bytes(kbd)) + Len(s) <= MaxInput
    BY <1>1, <1>3, <1>4, <1>6
  <2>2. QED BY <1>2, <1>5, <2>1 DEF AheadStep
<1>8. w /\ Ends(Bytes(kbd)) = {} => Ends(Bytes(kbd')) = {}
  <2>1. ASSUME w, NEW i \in Ends(Bytes(kbd')) PROVE i \in Ends(Bytes(kbd))
    <3>1. i \in 1..kbd.count + Len(s) /\ (Bytes(kbd) \o s)[i] \in {VEOL, VEOF}
      BY <1>2, <1>4, <1>5 DEF Ends
    <3>2. CASE i <= kbd.count
      <4>1. i \in 1..Len(Bytes(kbd)) /\ (Bytes(kbd) \o s)[i] = Bytes(kbd)[i]
        BY <1>2, <1>3, <1>4, <3>1, <3>2
      <4>2. QED BY <1>4, <3>1, <4>1 DEF Ends
    <3>3. CASE ~(i <= kbd.count)
      <4>1. i - kbd.count \in 1..Len(s) /\ (Bytes(kbd) \o s)[i] = s[i - kbd.count]
        BY <1>2, <1>3, <1>4, <3>1, <3>3
      <4>2. s[i - kbd.count] \notin {VEOL, VEOF}
        <5>1. CASE i - kbd.count = 1
          BY <2>1, <5>1
        <5>2. CASE i - kbd.count # 1
          BY <1>2, <1>6, <4>1, <5>2
        <5>3. QED BY <5>1, <5>2
      <4>3. QED BY <3>1, <4>1, <4>2
    <3>4. QED BY <3>2, <3>3
  <2>2. QED BY <2>1
<1>9. /\ tpc' \in [TtyProcs -> TtyPlaces]
      /\ \A p \in TtyProcs : WokenUp(tpc[p], tpc'[p]) /\ (~w /\ tpc[p] \in Readers => tpc'[p] # tpc[p])
  <2>1. CASE w
    BY <1>1, <1>3, <2>1 DEF WokenUp
  <2>2. CASE ~w
    <3>1. tpc' = Awakened(TtyProcs, Readers) /\ Readers \in SUBSET {"line", "min", "out"}
      BY <1>1, <2>2 DEF Readers
    <3>2. /\ tpc' \in [TtyProcs -> TtyPlaces]
          /\ \A p \in TtyProcs : WokenUp(tpc[p], tpc'[p]) /\ (p \in TtyProcs /\ tpc[p] \in Readers => tpc'[p] # tpc[p])
      BY <1>3, <3>1, AwakenedAre
    <3>3. QED BY <3>2
  <2>3. QED BY <2>1, <2>2
<1>10. ASSUME NEW p \in TtyProcs
       PROVE  /\ tpc'[p] = "line" => Ends(Bytes(kbd')) = {}
              /\ tpc'[p] = "min" /\ p \notin crossed => kbd'.count < rd[p].min
              /\ tpc'[p] = "out" => ~scroll' \/ rebooting'
  <2>1. tpc'[p] \in {"line", "min", "out"} => tpc[p] = tpc'[p]
    BY <1>9 DEF WokenUp
  <2>2. tpc'[p] \in {"line", "min"} => w
    BY <1>9, <2>1 DEF Readers
  <2>3. tpc'[p] = "line" => Ends(Bytes(kbd')) = {}
    BY <1>8, <2>1, <2>2, WhoSleeps
  <2>4. ~(tpc'[p] = "min" /\ p \notin crossed)
    BY <2>1, <2>2, WhoSleeps
  <2>5. QED BY <1>1, <2>1, <2>3, <2>4, WhoSleeps
<1>11. QED BY <1>1, <1>5, <1>7, <1>9, <1>10, StepAround

LEMMA KeyboardStep ==
  ASSUME TtyInv, vtty_keyboard_interrupt
  PROVE  TtyInv' /\ AheadStep
<1>1. ASSUME NEW k \in tmenu.keys, KeyStop(k) PROVE TtyInv' /\ AheadStep
  <2>1. StopsAt(Mapped(k)[1] = VSTOP) /\ UNCHANGED <<tmenu, kbd, tio, rebooting, rd, tty, crossed>>
    BY <1>1 DEF KeyStop
  <2>2. (Mapped(k)[1] = VSTOP) \in BOOLEAN
    OBVIOUS
  <2>3. QED BY <2>1, <2>2, StopStep
<1>2. ASSUME ScrollLockKey PROVE TtyInv' /\ AheadStep
  <2>1. StopsAt(~scrolllock) /\ UNCHANGED <<tmenu, kbd, tio, rebooting, rd, tty, crossed>>
    BY <1>2 DEF ScrollLockKey
  <2>2. (~scrolllock) \in BOOLEAN
    OBVIOUS
  <2>3. QED BY <2>1, <2>2, StopStep
<1>3. QED BY <1>1, <1>2, KeySignalStep, KeyEraseStep, KeyInsertStep, CtrlAltDelStep DEF vtty_keyboard_interrupt

(***************************************************************************)
(* read() and write().                                                     *)
(***************************************************************************)
KeepsOf(p) == rd' \in [TtyProcs -> Wants] /\ \A q \in TtyProcs \ {p} : rd'[q] = rd[q]

LEMMA KeepsStep ==
  ASSUME TtyInv, NEW p \in TtyProcs, NEW r \in Wants, Keeps(p, r)
  PROVE  KeepsOf(p) /\ (tpc'[p] # "user" => rd'[p] = r)
<1>1. rd \in [TtyProcs -> Wants] /\ rd' = [rd EXCEPT ![p] = IF tpc'[p] = "user" THEN NoRead ELSE r]
  BY DEF TtyInv, TtyTypes, Keeps
<1>2. NoRead \in Wants
  BY DEF NoRead, Wants
<1>3. QED BY <1>1, <1>2 DEF KeepsOf

\* A read ends with n bytes.
LEMMA FinishStep ==
  ASSUME TtyInv, NEW p \in TtyProcs, NEW n \in 0..kbd.count, Finish(p, n), KeepsOf(p), ByLine => ReadsLine(n)
  PROVE  TtyInv' /\ AheadStep
<1>1. GoodRing(kbd) /\ tio.icanon \in BOOLEAN
  BY DEF TtyInv, TtyTypes, Attributes
<1>2. kbd' = (IF tio.icanon THEN discard_eof(Taken(kbd, n)) ELSE Taken(kbd, n)) /\ Leaves(p)
  BY DEF Finish
<1>3. Bytes(kbd) \in Seq(TtyBytes) /\ Len(Bytes(kbd)) = kbd.count /\ MaxInput \in Nat /\ kbd.count \in 0..MaxInput - 1
  BY <1>1, OfGoodRing
<1> DEFINE rest == SubSeq(Bytes(kbd), n + 1, kbd.count)
           icanon == tio.icanon
<1> HIDE DEF rest, icanon
<1>4. /\ GoodRing(kbd') /\ kbd'.count <= kbd.count
      /\ Ends(Bytes(kbd)) = {} => Ends(Bytes(kbd')) = {}
      /\ \/ Bytes(kbd') = rest /\ (~icanon \/ rest = <<>> \/ rest[1] # VEOF \/ n = MaxInput - kbd.head)
         \/ rest # <<>> /\ rest[1] = VEOF /\ Bytes(kbd') = Tail(rest)
  <2>1. kbd' = (IF icanon THEN discard_eof(Taken(kbd, n)) ELSE Taken(kbd, n)) /\ icanon \in BOOLEAN
    BY <1>1, <1>2 DEF icanon
  <2>2. rest = SubSeq(Bytes(kbd), n + 1, kbd.count)
    BY DEF rest
  <2>3. PICK k, j : k = kbd /\ j = kbd'
    OBVIOUS
  <2>4. GoodRing(k) /\ n \in 0..k.count
    BY <1>1, <2>3
  <2>5. icanon \in BOOLEAN /\ ((icanon /\ j = discard_eof(Taken(k, n))) \/ (~icanon /\ j = Taken(k, n)))
    BY <2>1, <2>3
  <2>6. ReadLeaves(k, n, icanon, j)
    BY <2>4, <2>5, ReadFromRing
  <2>7. QED BY <2>3, <2>6 DEF ReadLeaves, rest
<1>5. TtyInv'
  BY <1>2, <1>4, StepOut DEF KeepsOf
<1>6. n \in 0..MaxInput /\ n <= Len(Bytes(kbd))
  BY <1>3
<1>7. ReadsAhead(n)
  <2>1. rest = SubSeq(Bytes(kbd), n + 1, Len(Bytes(kbd)))
    BY <1>3 DEF rest
  <2>2. ByLine => icanon
    BY DEF ByLine, icanon
  <2>3. QED BY <1>4, <1>6, <2>1, <2>2 DEF ReadsAhead
<1>8. QED BY <1>5, <1>6, <1>7 DEF AheadStep

LEMMA FailStep ==
  ASSUME TtyInv, NEW p \in TtyProcs, Fails(p), KeepsOf(p)
  PROVE  TtyInv' /\ AheadStep
<1>1. Leaves(p) /\ kbd' = kbd
  BY DEF Fails
<1>2. GoodRing(kbd') /\ kbd'.count <= kbd.count
  BY <1>1, WhoSleeps
<1>3. QED BY <1>1, <1>2, StepOut DEF KeepsOf, AheadStep

LEMMA WaitStep ==
  ASSUME TtyInv, NEW p \in TtyProcs, NEW l \in TtyPlaces, Waits(p, l), KeepsOf(p), tty[p].open, l # "user",
         l = "line" => Ends(Bytes(kbd)) = {},
         l = "min" /\ p \notin crossed => ~tio.icanon, l # "min again",
         l = "min" /\ tpc'[p] # "user" => kbd.count < rd'[p].min,
         l = "out" => ~scroll
  PROVE  TtyInv' /\ AheadStep
<1>1. CASE Fails(p)
  BY <1>1, FailStep
<1>2. CASE tGoto(p, l) /\ Stays(p)
  <2>1. tpc'[p] # "user"
    <3>1. tpc \in [TtyProcs -> TtyPlaces]
      BY WhoSleeps
    <3>2. QED BY <1>2, <3>1 DEF tGoto
  <2>2. TtyInv'
    BY <1>2, <2>1, StepToWait DEF KeepsOf
  <2>3. kbd' = kbd
    BY <1>2 DEF Stays
  <2>4. QED BY <2>2, <2>3 DEF AheadStep
<1>3. QED BY <1>1, <1>2 DEF Waits

\* The lower of two numbers.
LEMMA LowerOf ==
  ASSUME NEW a \in Nat, NEW b \in Nat
  PROVE  Min({a, b}) \in 0..b /\ Min({a, b}) <= b
<1>1. Min({a, b}) \in {a, b} /\ \A y \in {a, b} : Min({a, b}) <= y
  <2>1. {a, b} \in SUBSET Nat /\ {a, b} # {}
    OBVIOUS
  <2>2. QED BY <2>1, LowestOf
<1>2. QED BY <1>1

LEMMA ReadLineStep ==
  ASSUME TtyInv, NEW p \in TtyProcs, NEW r \in Wants, ReadLine(p, r), Keeps(p, r), tty[p].open
  PROVE  TtyInv' /\ AheadStep
<1> DEFINE count == vtty_line_count(kbd)
<1>1. KeepsOf(p)
  BY KeepsStep
<1>2. GoodRing(kbd) /\ kbd.count \in Nat
  BY WhoSleeps
<1>3. \/ Ends(Bytes(kbd)) = {} /\ count = -1
      \/ \E m \in Ends(Bytes(kbd)) : /\ m \in 1..kbd.count /\ \A i \in Ends(Bytes(kbd)) : m <= i
                                     /\ count = m - (IF Bytes(kbd)[m] = VEOF THEN 1 ELSE 0)
  BY <1>2, FirstLine
<1>4. IF count # -1 THEN Finish(p, Min({r.cnt, count})) ELSE Waits(p, "line")
  BY DEF ReadLine
<1> HIDE DEF count
<1>5. CASE Ends(Bytes(kbd)) = {} /\ count = -1
  <2>1. Waits(p, "line") /\ "line" \in TtyPlaces
    BY <1>4, <1>5 DEF TtyPlaces
  <2>2. QED BY <1>1, <1>5, <2>1, WaitStep
<1>6. ASSUME NEW m \in Ends(Bytes(kbd)), m \in 1..kbd.count, \A i \in Ends(Bytes(kbd)) : m <= i,
             count = m - (IF Bytes(kbd)[m] = VEOF THEN 1 ELSE 0)
      PROVE  TtyInv' /\ AheadStep
  <2> DEFINE n == Min({r.cnt, count})
  <2>1. count \in Nat /\ count <= kbd.count
    BY <1>2, <1>6
  <2>2. r.cnt \in Nat
    BY DEF Wants
  <2>3. n \in 0..count /\ n <= count
    BY <2>1, <2>2, LowerOf
  <2>4. Finish(p, n)
    BY <1>4, <2>1
  <2> HIDE DEF n
  <2>5. n \in 0..kbd.count
    BY <1>2, <2>1, <2>3
  <2>6. ReadsLine(n)
    BY <1>6, <2>3 DEF ReadsLine
  <2>7. QED BY <1>1, <2>4, <2>5, <2>6, FinishStep
<1>7. QED BY <1>3, <1>5, <1>6

LEMMA ReadMinStep ==
  ASSUME TtyInv, NEW p \in TtyProcs, NEW r \in Wants, ReadMin(p, r), Keeps(p, r), tty[p].open,
         p \notin crossed => ~tio.icanon, ~ByLine
  PROVE  TtyInv' /\ AheadStep
<1>1. KeepsOf(p) /\ (tpc'[p] # "user" => rd'[p] = r)
  BY KeepsStep
<1>2. kbd.count \in Nat /\ r.cnt \in Nat /\ r.min \in Nat
  BY WhoSleeps DEF Wants
<1>3. CASE kbd.count >= r.min
  <2> DEFINE n == Min({r.cnt, kbd.count})
  <2>1. n \in 0..kbd.count
    BY <1>2, LowerOf
  <2>2. Finish(p, n)
    BY <1>3 DEF ReadMin
  <2> HIDE DEF n
  <2>3. QED BY <1>1, <2>1, <2>2, FinishStep
<1>4. CASE ~(kbd.count >= r.min)
  <2>1. Waits(p, "min") /\ "min" \in TtyPlaces
    BY <1>4 DEF ReadMin, TtyPlaces
  <2>2. tpc'[p] # "user" => kbd.count < rd'[p].min
    BY <1>1, <1>2, <1>4
  <2>3. QED BY <1>1, <2>1, <2>2, WaitStep
<1>5. QED BY <1>3, <1>4

LEMMA ReadPollStep ==
  ASSUME TtyInv, NEW p \in TtyProcs, NEW r \in Wants, ReadPoll(p, r), KeepsOf(p), tty[p].open, ~ByLine
  PROVE  TtyInv' /\ AheadStep
<1>2. kbd.count \in Nat /\ r.cnt \in Nat /\ r.min \in Nat
  BY WhoSleeps DEF Wants
<1>3. CASE kbd.count >= r.min
  <2> DEFINE n == Min({r.cnt, kbd.count})
  <2>1. n \in 0..kbd.count
    BY <1>2, LowerOf
  <2>2. Finish(p, n)
    BY <1>3 DEF ReadPoll
  <2> HIDE DEF n
  <2>3. QED BY <2>1, <2>2, FinishStep
<1>4. CASE ~(kbd.count >= r.min)
  <2>1. tGoto(p, "poll") /\ Stays(p) /\ "poll" \in TtyPlaces
    BY <1>4 DEF ReadPoll, TtyPlaces
  <2>2. TtyInv'
    BY <2>1, StepToWait DEF KeepsOf
  <2>3. QED BY <2>1, <2>2 DEF Stays, AheadStep
<1>5. QED BY <1>3, <1>4

LEMMA ReadStep ==
  ASSUME TtyInv, NEW p \in TtyProcs, NEW n \in Counts, vtty_read(p, n)
  PROVE  TtyInv' /\ AheadStep
<1> DEFINE r  == [cnt |-> n, min |-> tio.min, start |-> kbd.count]
           r1 == IF tio.min = 0 THEN [r EXCEPT !.min = 1] ELSE r
<1>1. kbd.count \in Nat /\ tio.min \in Nat /\ n \in Nat
  BY WhoSleeps, TerminalAssumption DEF TtyInv, TtyTypes, Attributes
<1>2. r \in Wants /\ r1 \in Wants
  BY <1>1 DEF Wants
<1>3. tty[p].open /\ Keeps(p, r)
  BY DEF vtty_read
<1>4. \/ tio.icanon /\ ReadLine(p, r)
      \/ ~tio.icanon /\ tio.time /\ ReadPoll(p, r1)
      \/ ~tio.icanon /\ ~tio.time /\ ReadMin(p, r)
  <2>1. tio.icanon \in BOOLEAN /\ tio.time \in BOOLEAN
    BY DEF TtyInv, TtyTypes, Attributes
  <2>2. CASE tio.icanon
    BY <2>2 DEF vtty_read
  <2>3. CASE ~tio.icanon /\ tio.time
    BY <2>3 DEF vtty_read
  <2>4. CASE ~tio.icanon /\ ~tio.time
    BY <2>4 DEF vtty_read
  <2>5. QED BY <2>1, <2>2, <2>3, <2>4
<1> HIDE DEF r, r1
<1>5. KeepsOf(p)
  BY <1>2, <1>3, KeepsStep
<1>6. CASE tio.icanon /\ ReadLine(p, r)
  BY <1>2, <1>3, <1>6, ReadLineStep
<1>7. CASE ~tio.icanon /\ ReadPoll(p, r1)
  BY <1>2, <1>3, <1>5, <1>7, ReadPollStep DEF ByLine
<1>8. CASE ~tio.icanon /\ ReadMin(p, r)
  BY <1>2, <1>3, <1>8, ReadMinStep DEF ByLine
<1>9. QED BY <1>4, <1>6, <1>7, <1>8

\* Who waits has the terminal open.
LEMMA WaitersOpen ==
  ASSUME TtyInv, NEW p \in TtyProcs, tpc[p] # "user"
  PROVE  tty[p].open /\ rd[p] \in Wants /\ (tpc[p] \in {"min", "min again"} /\ p \notin crossed => ~tio.icanon)
BY DEF TtyInv, TtyTypes, TtyProcOK

LEMMA ReadAgainStep ==
  ASSUME TtyInv, NEW p \in TtyProcs, ReadAgain(p)
  PROVE  TtyInv' /\ AheadStep
<1>1. Keeps(p, rd[p]) /\ ((tpc[p] = "line again" /\ ReadLine(p, rd[p])) \/ (tpc[p] = "min again" /\ ReadMin(p, rd[p])))
  BY DEF ReadAgain
<1>2. PICK r : r = rd[p]
  OBVIOUS
<1>3. tty[p].open /\ r \in Wants /\ Keeps(p, r)
  BY <1>1, <1>2, WaitersOpen
<1>4. CASE ReadLine(p, r)
  BY <1>3, <1>4, ReadLineStep
<1>5. CASE tpc[p] = "min again" /\ ReadMin(p, r)
  <2>1. ~ByLine /\ (p \notin crossed => ~tio.icanon)
    BY <1>5, WaitersOpen DEF ByLine
  <2>2. QED BY <1>3, <1>5, <2>1, ReadMinStep
<1>6. QED BY <1>1, <1>2, <1>4, <1>5

LEMMA PollMoreStep ==
  ASSUME TtyInv, NEW p \in TtyProcs, PollMore(p)
  PROVE  TtyInv' /\ AheadStep
<1>1. PICK r : r = rd[p]
  OBVIOUS
<1>2. tpc[p] = "poll" /\ ReadPoll(p, r) /\ Keeps(p, [r EXCEPT !.start = kbd.count])
  BY <1>1 DEF PollMore
<1>3. tty[p].open /\ r \in Wants /\ kbd.count \in Nat /\ ~ByLine
  BY <1>1, <1>2, WaitersOpen, WhoSleeps DEF ByLine
<1>4. [r EXCEPT !.start = kbd.count] \in Wants
  BY <1>3 DEF Wants
<1>5. KeepsOf(p)
  BY <1>2, <1>4, KeepsStep
<1>6. QED BY <1>2, <1>3, <1>5, ReadPollStep

LEMMA PollOverStep ==
  ASSUME TtyInv, NEW p \in TtyProcs, PollOver(p)
  PROVE  TtyInv' /\ AheadStep
<1>1. PICK r : r = rd[p]
  OBVIOUS
<1>2. tpc[p] = "poll" /\ Finish(p, Min({r.cnt, kbd.count})) /\ Keeps(p, r)
  BY <1>1 DEF PollOver
<1>3. tty[p].open /\ r \in Wants /\ kbd.count \in Nat /\ ~ByLine
  BY <1>1, <1>2, WaitersOpen, WhoSleeps DEF ByLine
<1>4. KeepsOf(p)
  BY <1>2, <1>3, KeepsStep
<1>5. Min({r.cnt, kbd.count}) \in 0..kbd.count
  BY <1>3, LowerOf DEF Wants
<1>6. QED BY <1>2, <1>3, <1>4, <1>5, FinishStep

\* A character is written, or waits.
LEMMA WriteStep ==
  ASSUME TtyInv, NEW p \in TtyProcs, WriteChar(p), UNCHANGED rd, tty[p].open
  PROVE  TtyInv' /\ AheadStep
<1>1. KeepsOf(p)
  BY DEF KeepsOf, TtyInv, TtyTypes
<1>2. CASE scroll
  BY <1>1, <1>2, FailStep DEF WriteChar
<1>3. CASE ~scroll
  <2>1. Waits(p, "out") /\ "out" \in TtyPlaces
    BY <1>3 DEF WriteChar, TtyPlaces
  <2>2. QED BY <1>1, <1>3, <2>1, WaitStep
<1>4. QED BY <1>2, <1>3

(***************************************************************************)
(* The calls that set it up.                                               *)
(***************************************************************************)
LEMMA SetattrStep ==
  ASSUME TtyInv, NEW p \in TtyProcs, NEW t \in tmenu.settings, NEW flush \in BOOLEAN, vtty_setattr(p, t, flush)
  PROVE  TtyInv' /\ AheadStep
<1>1. /\ tpc[p] = "user" /\ tio' = t /\ kbd' \in {kbd, Empty}
      /\ crossed' = (IF t.icanon # tio.icanon THEN crossed \cup Others(p) ELSE crossed)
      /\ UNCHANGED <<tmenu, scroll, rebooting, tpc, rd, tty>>
  BY DEF vtty_setattr
<1>2. t \in Attributes
  BY TerminalAssumption DEF TtyInv, TtyTypes
<1>3. TtyTypes'
  BY <1>1, <1>2 DEF TtyInv, TtyTypes
<1>4. /\ GoodRing(kbd') /\ AheadStep
      /\ Ends(Bytes(kbd)) = {} => Ends(Bytes(kbd')) = {}
      /\ \A q \in TtyProcs : kbd.count < rd[q].min => kbd'.count < rd[q].min
  BY <1>1, StepToEmpty
<1>5. ASSUME NEW q \in TtyProcs PROVE TtyProcOK(q)'
  <2>1. TtyProcOK(q)
    BY DEF TtyInv
  <2>2. tpc[q] # "user" /\ q \notin crossed' => q \notin crossed /\ t.icanon = tio.icanon
    BY <1>1 DEF Others
  <2>3. QED BY <1>1, <1>4, <2>1, <2>2 DEF TtyProcOK
<1>6. QED BY <1>3, <1>4, <1>5 DEF TtyInv

LEMMA DiscardStep ==
  ASSUME TtyInv, NEW p \in TtyProcs, vtty_discard_input(p)
  PROVE  TtyInv' /\ AheadStep
<1>1. kbd' = Empty /\ UNCHANGED <<tmenu, tio, scroll, rebooting, tpc, rd, tty, crossed>>
  BY DEF vtty_discard_input, modes
<1>2. /\ GoodRing(kbd') /\ AheadStep
      /\ Ends(Bytes(kbd)) = {} => Ends(Bytes(kbd')) = {}
      /\ \A q \in TtyProcs : kbd.count < rd[q].min => kbd'.count < rd[q].min
  BY <1>1, StepToEmpty
<1>3. TtyTypes'
  BY <1>1 DEF TtyInv, TtyTypes
<1>4. ASSUME NEW q \in TtyProcs PROVE TtyProcOK(q)'
  <2>1. TtyProcOK(q)
    BY DEF TtyInv
  <2>2. QED BY <1>1, <1>2, <2>1 DEF TtyProcOK
<1>5. QED BY <1>2, <1>3, <1>4 DEF TtyInv

\* What does not touch ring, mode or readers.
LEMMA TtyStepAside ==
  ASSUME TtyInv, UNCHANGED <<tmenu, kbd, tio, scroll, rebooting, tpc, rd, crossed>>,
         tty' \in [TtyProcs -> [open : BOOLEAN, ctty : BOOLEAN]],
         \A q \in TtyProcs : tpc[q] # "user" => tty'[q].open = tty[q].open
  PROVE  TtyInv' /\ AheadStep
<1>1. TtyTypes' /\ GoodRing(kbd')
  BY DEF TtyInv, TtyTypes
<1>2. ASSUME NEW q \in TtyProcs PROVE TtyProcOK(q)'
  BY DEF TtyInv, TtyProcOK
<1>3. QED BY <1>1, <1>2 DEF TtyInv, AheadStep

LEMMA CloseStep ==
  ASSUME TtyInv, NEW p \in TtyProcs, vtty_close(p)
  PROVE  TtyInv' /\ AheadStep
<1>1. /\ tpc[p] = "user" /\ tty' = [tty EXCEPT ![p].open = FALSE]
      /\ UNCHANGED <<tmenu, scroll, rebooting, tpc, rd, crossed>>
      /\ \/ UNCHANGED <<kbd, tio>>
         \/ (\A q \in TtyProcs \ {p} : ~tty[q].open) /\ kbd' = Empty /\ tio' = Cooked
  BY DEF vtty_close
<1>2. tty \in [TtyProcs -> [open : BOOLEAN, ctty : BOOLEAN]]
  BY DEF TtyInv, TtyTypes
<1>3. tty' \in [TtyProcs -> [open : BOOLEAN, ctty : BOOLEAN]]
  BY <1>1, <1>2
<1>4. CASE UNCHANGED <<kbd, tio>>
  BY <1>1, <1>2, <1>3, <1>4, TtyStepAside
<1>5. CASE (\A q \in TtyProcs \ {p} : ~tty[q].open) /\ kbd' = Empty /\ tio' = Cooked
  <2>1. \A q \in TtyProcs : tpc'[q] = "user"
    BY <1>1, <1>5, WaitersOpen
  <2>2. Cooked \in Attributes
    BY DEF Cooked, Attributes
  <2>3. TtyTypes'
    BY <1>1, <1>3, <1>5, <2>2 DEF TtyInv, TtyTypes
  <2>4. GoodRing(kbd') /\ AheadStep
    BY <1>5, StepToEmpty
  <2>5. \A q \in TtyProcs : TtyProcOK(q)'
    BY <2>1 DEF TtyProcOK
  <2>6. QED BY <2>3, <2>4, <2>5 DEF TtyInv
<1>6. QED BY <1>1, <1>4, <1>5

LEMMA OpenAndForkStep ==
  ASSUME TtyInv, NEW p \in TtyProcs, TtyFork(p) \/ \E noctty \in BOOLEAN : vtty_open(p, noctty)
  PROVE  TtyInv' /\ AheadStep
<1>1. /\ UNCHANGED <<tmenu, kbd, tio, scroll, rebooting, tpc, rd, crossed>> /\ tpc[p] = "user"
      /\ \E o \in [open : BOOLEAN, ctty : BOOLEAN] : tty' = [tty EXCEPT ![p] = o]
  <2>1. tty \in [TtyProcs -> [open : BOOLEAN, ctty : BOOLEAN]] /\ Leader \in TtyProcs
    BY TerminalAssumption DEF TtyInv, TtyTypes
  <2>2. CASE TtyFork(p)
    BY <2>1, <2>2 DEF TtyFork, modes
  <2>3. ASSUME NEW noctty \in BOOLEAN, vtty_open(p, noctty)
        PROVE  /\ UNCHANGED <<tmenu, kbd, tio, scroll, rebooting, tpc, rd, crossed>> /\ tpc[p] = "user"
               /\ \E o \in [open : BOOLEAN, ctty : BOOLEAN] : tty' = [tty EXCEPT ![p] = o]
    <3>1. PICK c : c = (tty[p].ctty \/ (p = Leader /\ ~noctty))
      OBVIOUS
    <3>2. c \in BOOLEAN
      BY <3>1
    <3>3. [open |-> TRUE, ctty |-> c] \in [open : BOOLEAN, ctty : BOOLEAN]
      BY <3>2
    <3>4. tty' = [tty EXCEPT ![p] = [open |-> TRUE, ctty |-> c]]
      BY <2>1, <2>3, <3>1 DEF vtty_open
    <3>5. QED BY <2>3, <3>3, <3>4 DEF vtty_open, modes
  <2>4. QED BY <2>2, <2>3
<1>2. tty \in [TtyProcs -> [open : BOOLEAN, ctty : BOOLEAN]]
  BY DEF TtyInv, TtyTypes
<1>3. tty' \in [TtyProcs -> [open : BOOLEAN, ctty : BOOLEAN]] /\ \A q \in TtyProcs : tpc[q] # "user" => tty'[q].open = tty[q].open
  BY <1>1, <1>2
<1>4. QED BY <1>1, <1>3, TtyStepAside

LEMMA SessionStep ==
  ASSUME TtyInv, SessionEnds
  PROVE  TtyInv' /\ AheadStep
<1>1. /\ tty' = [p \in TtyProcs |-> [tty[p] EXCEPT !.ctty = FALSE]]
      /\ tpc' = Awakened(TtyProcs, {"line", "min", "out"})
      /\ UNCHANGED <<kbd, tmenu, tio, scroll, rebooting, rd, crossed>>
  BY DEF SessionEnds, modes, Killed
<1>2. tty \in [TtyProcs -> [open : BOOLEAN, ctty : BOOLEAN]]
  BY DEF TtyInv, TtyTypes
<1>3. tpc' \in [TtyProcs -> TtyPlaces] /\ \A p \in TtyProcs : WokenUp(tpc[p], tpc'[p])
  BY <1>1, WhoSleeps, AwakenedAre
<1>4. \A p \in TtyProcs : tty'[p] \in [open : BOOLEAN, ctty : BOOLEAN] /\ tty'[p].open = tty[p].open
  BY <1>1, <1>2
<1>5. TtyTypes' /\ GoodRing(kbd')
  <2>1. tty' \in [TtyProcs -> [open : BOOLEAN, ctty : BOOLEAN]]
    BY <1>1, <1>4
  <2>2. QED BY <1>1, <1>3, <2>1 DEF TtyInv, TtyTypes
<1>6. ASSUME NEW p \in TtyProcs PROVE TtyProcOK(p)'
  <2>1. TtyProcOK(p)
    BY DEF TtyInv
  <2>2. /\ tpc'[p] # "user" => tpc[p] # "user"
        /\ tpc'[p] \in {"min", "min again"} => tpc[p] \in {"min", "min again"}
        /\ tpc'[p] \in {"line", "min", "out"} => tpc[p] = tpc'[p]
    BY <1>3 DEF WokenUp
  <2>3. QED BY <1>1, <1>4, <2>1, <2>2 DEF TtyProcOK
<1>7. QED BY <1>1, <1>5, <1>6 DEF TtyInv, AheadStep

(***************************************************************************)
(* The theorems about the terminal.                                        *)
(***************************************************************************)
LEMMA TtyInit_Inv ==
  ASSUME TtyInit
  PROVE  TtyInv /\ Bytes(kbd) = <<>>
<1>1. GoodRing(kbd) /\ Bytes(kbd) = <<>>
  BY EmptyRing DEF TtyInit
<1>2. TtyTypes
  <2>1. Cooked \in Attributes /\ NoRead \in Wants
    BY DEF Cooked, Attributes, NoRead, Wants
  <2>2. QED BY <2>1 DEF TtyInit, TtyTypes, TtyPlaces
<1>3. \A p \in TtyProcs : TtyProcOK(p)
  BY DEF TtyInit, TtyProcOK
<1>4. QED BY <1>1, <1>2, <1>3 DEF TtyInv

LEMMA TtyNext_Inv ==
  ASSUME TtyInv, [TtyNext]_ttyVars
  PROVE  TtyInv' /\ AheadStep
<1>1. CASE UNCHANGED ttyVars
  <2>1. UNCHANGED <<tmenu, kbd, tio, scroll, rebooting, tpc, rd, crossed, tty>>
    BY <1>1 DEF ttyVars
  <2>2. tty' \in [TtyProcs -> [open : BOOLEAN, ctty : BOOLEAN]]
    BY <2>1 DEF TtyInv, TtyTypes
  <2>3. QED BY <2>1, <2>2, TtyStepAside
<1>2. ASSUME NEW p \in TtyProcs, vtty_write(p) \/ WriteAgain(p) PROVE TtyInv' /\ AheadStep
  <2>1. WriteChar(p) /\ UNCHANGED rd /\ tty[p].open
    BY <1>2, WaitersOpen DEF vtty_write, WriteAgain
  <2>2. QED BY <2>1, WriteStep
<1>3. ASSUME NEW p \in TtyProcs, vtty_fcntl(p) PROVE TtyInv' /\ AheadStep
  <2>1. UNCHANGED <<tmenu, kbd, tio, scroll, rebooting, tpc, rd, crossed, tty>>
    BY <1>3 DEF vtty_fcntl
  <2>2. tty' \in [TtyProcs -> [open : BOOLEAN, ctty : BOOLEAN]]
    BY <2>1 DEF TtyInv, TtyTypes
  <2>3. QED BY <2>1, <2>2, TtyStepAside
<1>4. CASE vtty_keyboard_interrupt
  BY <1>4, KeyboardStep
<1>5. CASE SessionEnds
  BY <1>5, SessionStep
<1>6. ASSUME NEW p \in TtyProcs,
             \/ \E n \in Counts : vtty_read(p, n)
             \/ ReadAgain(p) \/ PollMore(p) \/ PollOver(p)
             \/ \E t \in tmenu.settings : \E flush \in BOOLEAN : vtty_setattr(p, t, flush)
             \/ vtty_discard_input(p) \/ vtty_close(p)
             \/ (\E noctty \in BOOLEAN : vtty_open(p, noctty)) \/ TtyFork(p)
      PROVE  TtyInv' /\ AheadStep
  BY <1>6, ReadStep, ReadAgainStep, PollMoreStep, PollOverStep, SetattrStep, DiscardStep, CloseStep, OpenAndForkStep
<1>7. CASE TtyNext
  BY <1>2, <1>3, <1>4, <1>5, <1>6, <1>7 DEF TtyNext
<1>8. QED BY <1>1, <1>7

LEMMA TtyInv_Sound ==
  ASSUME TtyInv
  PROVE  TerminalSound
<1>1. GoodRing(kbd)
  BY DEF TtyInv
<1>2. Contents = Bytes(kbd)
  BY DEF Contents, Bytes
<1>3. RingSound
  <2>1. /\ MaxInput \in Nat /\ kbd.head \in 0..MaxInput /\ kbd.count \in 0..MaxInput - 1
        /\ Bytes(kbd) \in Seq(TtyBytes) /\ Len(Bytes(kbd)) = kbd.count
    BY <1>1, OfGoodRing
  <2>2. kbd.count \in 0..MaxInput /\ DOMAIN Bytes(kbd) = 1..kbd.count
    BY <2>1
  <2>3. kbd.tail = (kbd.head + kbd.count) % MaxInput /\ \A i \in 1..kbd.count : Bytes(kbd)[i] # Blank
    BY <1>1 DEF GoodRing, Bytes
  <2>4. \A n \in 0..kbd.count : Copied(kbd, n) = SubSeq(Bytes(kbd), 1, n)
    BY <1>1, CopiedInOrder
  <2>5. QED BY <1>2, <2>1, <2>2, <2>3, <2>4 DEF RingSound
<1>4. NobodyForgotten
  BY <1>2, WhoSleeps DEF NobodyForgotten, Ends
<1>5. QED BY <1>3, <1>4 DEF TerminalSound

LEMMA AheadStep_Next ==
  ASSUME AheadStep
  PROVE  [KeysAhead!Next]_Contents
<1>1. Contents = Bytes(kbd) /\ Contents' = Bytes(kbd')
  BY DEF Contents, Bytes
<1>2. CASE Bytes(kbd') = Bytes(kbd)
  BY <1>1, <1>2
<1>3. ASSUME NEW c \in KeyCodes, Len(Bytes(kbd)) + Len(c) <= MaxInput /\ Bytes(kbd') = Bytes(kbd) \o c
      PROVE  KeysAhead!Next
  <2>1. KeysAhead!Type
    BY <1>1, <1>3 DEF KeysAhead!Type, KeyCodes
  <2>2. QED BY <2>1 DEF KeysAhead!Next
<1>4. CASE Bytes(kbd) # <<>> /\ Bytes(kbd') = Front(Bytes(kbd))
  <2>1. KeysAhead!Erase
    BY <1>1, <1>4 DEF KeysAhead!Erase, KeysAhead!Front, Front
  <2>2. QED BY <2>1 DEF KeysAhead!Next
<1>5. CASE Bytes(kbd') = <<>>
  <2>1. KeysAhead!Discard
    BY <1>1, <1>5 DEF KeysAhead!Discard
  <2>2. QED BY <2>1 DEF KeysAhead!Next
<1>6. ASSUME NEW n \in 0..MaxInput, ReadsAhead(n)
      PROVE  KeysAhead!Next
  <2>1. PICK rest : /\ rest = SubSeq(Bytes(kbd), n + 1, Len(Bytes(kbd)))
                    /\ n <= Len(Bytes(kbd))
                    /\ \/ Bytes(kbd') = rest /\ ~(ByLine /\ rest # <<>> /\ rest[1] = VEOF /\ n # MaxInput - kbd.head)
                       \/ rest # <<>> /\ rest[1] = VEOF /\ Bytes(kbd') = Tail(rest)
                    /\ ByLine => ReadsLine(n)
    BY <1>6, Zenon DEF ReadsAhead
  <2>2. KeysAhead!Ends = Ends(Bytes(kbd))
    BY <1>1, Zenon DEF KeysAhead!Ends, Ends
  <2>3. ReadsLine(n) => KeysAhead!InLine(n)
    BY <1>1, <2>2, Zenon DEF KeysAhead!InLine, ReadsLine
  <2>4. n <= Len(Contents) /\ (ByLine => KeysAhead!InLine(n))
    BY <1>1, <2>1, <2>3, Zenon
  <2>5. rest = SubSeq(Contents, n + 1, Len(Contents))
    BY <1>1, <2>1, Zenon
  <2>6. \/ Contents' = rest /\ ~(ByLine /\ (rest # <<>> /\ rest[1] = VEOF) /\ n # MaxInput - kbd.head)
        \/ (rest # <<>> /\ rest[1] = VEOF) /\ Contents' = Tail(rest)
    BY <1>1, <2>1, Zenon
  <2>7. KeysAhead!Read(n)
    BY <2>4, <2>5, <2>6, Zenon DEF KeysAhead!Read, ByLine
  <2>8. QED BY <2>7 DEF KeysAhead!Next
<1>7. QED BY <1>2, <1>3, <1>4, <1>5, <1>6 DEF AheadStep

\* Of all the drivers only the terminal moves its variables.
LEMMA DriversTty ==
  /\ Init => TtyInit
  /\ [Next]_vars => [TtyNext]_ttyVars
BY DEF Init, Next, vars

\* What is typed is in the ring in order and no byte twice or lost, and nobody waits for what is there: the ring
\* of a terminal is sound however keys, readers, writers, settings and hang-ups come between each other
\* (vtty_insertkey(), vtty_read_data(), vtty_line_count(), vtty_awake()).
THEOREM TerminalAlwaysSound == Spec => []TerminalSound
<1>1. Init => TtyInv
  BY DriversTty, TtyInit_Inv
<1>2. TtyInv /\ [Next]_vars => TtyInv'
  BY DriversTty, TtyNext_Inv
<1>3. TtyInv => TerminalSound
  BY TtyInv_Sound
<1>4. QED BY <1>1, <1>2, <1>3, PTL DEF Spec

\* Each step of a terminal does to the keys that wait what a line discipline promises, or leaves them alone:
\* typed at the end, erased from the end, thrown away together, or read from the start, a line at most when all
\* read lines (vtty_insertkey(), vtty_read_data(), vtty_setattr(); TypeAhead).
THEOREM TerminalKeepsTypeAhead == Spec => ImplementsTypeAhead
<1>1. Init => TtyInv /\ KeysAhead!Init
  <2>1. Init => TtyInit /\ TtyInv
    BY DriversTty, TtyInit_Inv
  <2>2. TtyInit => KeysAhead!Init
    BY EmptyRing DEF TtyInit, KeysAhead!Init, Contents, Bytes
  <2>3. QED BY <2>1, <2>2
<1>2. TtyInv /\ [Next]_vars => TtyInv' /\ [KeysAhead!Next]_Contents
  BY DriversTty, TtyNext_Inv, AheadStep_Next
<1>3. QED BY <1>1, <1>2, PTL DEF Spec, ImplementsTypeAhead, KeysAhead!Spec

(***************************************************************************)
(* Sequences, for the log.                                                 *)
(***************************************************************************)
LEMMA Joined ==
  ASSUME NEW S, NEW q \in Seq(S), NEW r \in Seq(S), NEW s, s = q \o r
  PROVE  /\ s \in Seq(S) /\ Len(q) \in Nat /\ Len(r) \in Nat /\ Len(s) = Len(q) + Len(r)
         /\ \A i \in 1..Len(q) : s[i] = q[i]
         /\ \A i \in Len(q) + 1..Len(q) + Len(r) : s[i] = r[i - Len(q)]
OBVIOUS

IsPart(s, S, q, m, n) == s \in Seq(S) /\ Len(s) = n /\ \A i \in 1..n : s[i] = q[m + i]

LEMMA PartOf ==
  ASSUME NEW S, NEW q \in Seq(S), NEW m \in Nat, NEW n \in Nat, m + n <= Len(q),
         NEW s, s = SubSeq(q, m + 1, m + n)
  PROVE  IsPart(s, S, q, m, n)
<1>1. Len(q) \in Nat
  OBVIOUS
<1>2. \A i \in m + 1..m + n : i \in 1..Len(q) /\ q[i] \in S
  BY <1>1
<1>3. s \in Seq(S) /\ Len(s) = n
  BY <1>1, <1>2
<1>4. ASSUME NEW i \in 1..n PROVE s[i] = q[m + i]
  BY <1>1, <1>3
<1>5. QED BY <1>3, <1>4 DEF IsPart

\* The same of sequences of numbers, the form in which the log and the printer need it.
LEMMA NumbersJoined ==
  ASSUME NEW q \in Seq(Nat), NEW r \in Seq(Nat), NEW s, s = q \o r
  PROVE  /\ s \in Seq(Nat) /\ Len(q) \in Nat /\ Len(r) \in Nat /\ Len(s) = Len(q) + Len(r)
         /\ \A i \in 1..Len(q) : s[i] = q[i]
         /\ \A i \in Len(q) + 1..Len(q) + Len(r) : s[i] = r[i - Len(q)]
OBVIOUS

LEMMA NumbersPart ==
  ASSUME NEW q \in Seq(Nat), NEW m \in Nat, NEW n \in Nat, m + n <= Len(q),
         NEW s, s = SubSeq(q, m + 1, m + n)
  PROVE  s \in Seq(Nat) /\ Len(s) = n /\ \A i \in 1..n : s[i] = q[m + i]
<1>1. PICK S : S = Nat
  OBVIOUS
<1>2. q \in Seq(S)
  BY <1>1
<1>3. m \in Nat /\ n \in Nat /\ m + n <= Len(q) /\ s = SubSeq(q, m + 1, m + n)
  OBVIOUS
<1>4. IsPart(s, S, q, m, n)
  BY ONLY <1>2, <1>3, PartOf
<1>5. QED BY <1>1, <1>4 DEF IsPart

(***************************************************************************)
(* The log of the kernel.                                                  *)
(***************************************************************************)
KlogTypes ==
  /\ klog_buf \in Seq(Nat) /\ klog_rptr \in 0..Len(klog_buf) /\ klog_free \in Int
  /\ kread \in [KlogProcs -> [pc : {"out", "look", "asleep", "count"}, count : Nat]]
  /\ copied \in Seq(Nat) /\ torn \in BOOLEAN

\* What is read was accepted first, and what waits was accepted next, unless a reader has copied it already.
KlogOrder ==
  /\ \A i \in 1..Len(copied) : copied[i] = i
  /\ CutShort = {} => \A i \in klog_rptr + 1..Len(klog_buf) : klog_buf[i] = Len(copied) + (i - klog_rptr)

\* A reader that has copied all there was is the only one, and wants what it copied, at least.
KlogReaders ==
  /\ \A p \in CutShort : Pending \in 1..kread[p].count
  /\ \A p, q \in CutShort : p = q
  /\ \A p \in KlogProcs : kread[p].pc = "asleep" => Pending = 0
  /\ \A p \in KlogProcs : kread[p].pc # "out" => kread[p].count > 0

KlogInv ==
  IF torn THEN klog_kpid \notin CutShort /\ KlogTypes
  ELSE /\ KlogTypes /\ KlogOrder /\ KlogReaders
       /\ Len(klog_buf) <= KlogSize /\ klog_free = KlogSize - Len(klog_buf) - klog_rptr

LEMMA KlogInit_Inv ==
  ASSUME KlogInit
  PROVE  KlogInv
<1>1. KlogTypes /\ CutShort = {} /\ Pending = 0 /\ Len(klog_buf) = 0
  <2>1. klog_buf = <<>> /\ copied = <<>> /\ klog_rptr = 0 /\ klog_free = KlogSize /\ torn = FALSE
        /\ kread = [p \in KlogProcs |-> KlogOut]
    BY DEF KlogInit
  <2>2. KlogOut \in [pc : {"out", "look", "asleep", "count"}, count : Nat] /\ KlogOut.pc = "out"
    BY DEF KlogOut
  <2>3. Len(klog_buf) = 0 /\ klog_buf \in Seq(Nat) /\ copied \in Seq(Nat) /\ klog_rptr \in 0..Len(klog_buf)
    BY <2>1
  <2>4. klog_free \in Int /\ torn \in BOOLEAN
    <3>1. KlogSize \in Nat
      BY KlogAssumption
    <3>2. klog_free \in Int
      BY <2>1, <3>1
    <3>3. torn \in BOOLEAN
      BY <2>1, Zenon
    <3>4. QED BY <3>2, <3>3
  <2> HIDE DEF KlogOut
  <2>5. kread \in [KlogProcs -> [pc : {"out", "look", "asleep", "count"}, count : Nat]] /\ CutShort = {}
    BY <2>1, <2>2 DEF CutShort
  <2>6. QED BY <2>1, <2>3, <2>4, <2>5 DEF KlogTypes, Pending
<1>2. KlogOrder /\ KlogReaders
  BY <1>1 DEF KlogInit, KlogOrder, KlogReaders, KlogOut
<1>3. QED BY <1>1, <1>2, KlogAssumption DEF KlogInit, KlogInv

\* Steps that leave the bytes alone, and let nobody copy or fall asleep.
LEMMA KlogStepAside ==
  ASSUME KlogInv, ~torn, UNCHANGED <<klog_buf, klog_rptr, klog_free, copied, torn>>,
         kread' \in [KlogProcs -> [pc : {"out", "look", "asleep", "count"}, count : Nat]],
         \A p \in KlogProcs : \/ kread'[p] = kread[p]
                              \/ kread'[p].pc = "out" /\ kread[p].pc # "count"
                              \/ kread'[p].pc = "look" /\ kread'[p].count > 0 /\ kread[p].pc # "count"
  PROVE  KlogInv'
<1>1. KlogTypes /\ KlogOrder /\ KlogReaders /\ Len(klog_buf) <= KlogSize /\ klog_free = KlogSize - Len(klog_buf) - klog_rptr
  BY DEF KlogInv
<1>2. CutShort' = CutShort /\ Pending' = Pending
  BY DEF CutShort, Pending
<1>3. KlogTypes'
  BY <1>1 DEF KlogTypes
<1>4. KlogOrder'
  BY <1>1, <1>2 DEF KlogOrder
<1>5. KlogReaders'
  <2>1. \A p \in CutShort : kread'[p] = kread[p]
    BY DEF CutShort
  <2>2. QED BY <1>1, <1>2, <2>1 DEF KlogReaders
<1>6. QED BY <1>1, <1>3, <1>4, <1>5 DEF KlogInv

\* klog_reset() when nothing is left to read.
LEMMA KlogReset ==
  ASSUME KlogInv, ~torn, klog_reset, CutShort' = {}, UNCHANGED <<copied, torn>>,
         Pending = 0 \/ CutShort # {},
         kread' \in [KlogProcs -> [pc : {"out", "look", "asleep", "count"}, count : Nat]],
         \A p \in KlogProcs : kread'[p].pc # "out" => kread'[p].count > 0
  PROVE  KlogInv'
<1>1. KlogTypes /\ KlogOrder
  BY DEF KlogInv
<1>2. klog_buf' = <<>> /\ klog_rptr' = 0 /\ klog_free' = KlogSize /\ Len(klog_buf') = 0 /\ Pending' = 0
  BY DEF klog_reset, Pending
<1>3. KlogTypes'
  BY <1>1, <1>2, KlogAssumption DEF KlogTypes
<1>4. KlogOrder'
  BY <1>1, <1>2 DEF KlogOrder
<1>5. KlogReaders'
  BY <1>2 DEF KlogReaders
<1>6. QED BY <1>2, <1>3, <1>4, <1>5, KlogAssumption DEF KlogInv

LEMMA KlogLook ==
  ASSUME KlogInv, ~torn, NEW p \in KlogProcs, Look(p)
  PROVE  KlogInv'
<1>1. KlogTypes /\ KlogOrder /\ KlogReaders /\ Len(klog_buf) <= KlogSize /\ klog_free = KlogSize - Len(klog_buf) - klog_rptr
  BY DEF KlogInv
<1>2. CutShort = {} /\ kread[p].pc = "look" /\ kread[p].count \in Nat /\ kread[p].count > 0
  BY <1>1 DEF Look, CutShort, KlogTypes, KlogReaders
<1>3. Pending \in Nat /\ Pending = Len(klog_buf) - klog_rptr
  BY <1>1 DEF KlogTypes, Pending
<1>4. CASE Sleeps(p)
  <2>1. kread' \in [KlogProcs -> [pc : {"out", "look", "asleep", "count"}, count : Nat]]
    BY <1>1, <1>4 DEF Sleeps, KlogTypes
  <2>2. CutShort' = {} /\ Pending' = 0
    BY <1>1, <1>2, <1>4 DEF Sleeps, CutShort, Pending, KlogTypes
  <2>3. KlogTypes' /\ UNCHANGED torn
    BY <1>1, <1>4, <2>1 DEF Sleeps, KlogTypes, Look
  <2>4. KlogOrder'
    BY <1>1, <1>2, <1>4 DEF Sleeps, KlogOrder
  <2>5. KlogReaders'
    BY <1>1, <1>2, <1>4, <2>2 DEF Sleeps, KlogReaders, KlogTypes
  <2>6. QED BY <1>1, <1>4, <2>3, <2>4, <2>5 DEF KlogInv, Sleeps
<1>5. CASE TakesPart(p)
  <2> DEFINE n == kread[p].count
  <2>1. n \in Nat /\ n > 0 /\ n < Pending /\ n + klog_rptr <= Len(klog_buf) /\ klog_rptr \in Nat /\ klog_rptr' = klog_rptr + n
    BY <1>1, <1>2, <1>3, <1>5 DEF TakesPart, KlogTypes
  <2> DEFINE t == SubSeq(klog_buf, klog_rptr + 1, klog_rptr + n)
  <2>2. t \in Seq(Nat) /\ Len(t) = n /\ \A i \in 1..n : t[i] = klog_buf[klog_rptr + i]
    <3>1. PICK b : b = klog_buf
      OBVIOUS
    <3>2. PICK m : m = klog_rptr
      OBVIOUS
    <3>3. PICK k : k = n
      OBVIOUS
    <3>4. PICK s : s = t
      OBVIOUS
    <3>5. b \in Seq(Nat) /\ m \in Nat /\ k \in Nat /\ m + k <= Len(b)
      BY <1>1, <2>1, <3>1, <3>2, <3>3 DEF KlogTypes
    <3>6. s = SubSeq(b, m + 1, m + k)
      BY <3>1, <3>2, <3>3, <3>4
    <3>7. s \in Seq(Nat) /\ Len(s) = k /\ \A i \in 1..k : s[i] = b[m + i]
      BY <3>5, <3>6, NumbersPart
    <3> HIDE DEF t, n
    <3>8. t \in Seq(Nat) /\ Len(t) = n /\ \A i \in 1..n : t[i] = klog_buf[klog_rptr + i]
      BY <3>1, <3>2, <3>3, <3>4, <3>7
    <3>9. QED BY <3>8
  <2>3. copied' = copied \o t /\ UNCHANGED <<klog_buf, torn>> /\ klog_free' = klog_free - n
    BY <1>5 DEF TakesPart, Look
  <2> HIDE DEF t, n
  <2>4. /\ copied' \in Seq(Nat) /\ Len(copied') = Len(copied) + n /\ Len(copied) \in Nat
        /\ \A i \in 1..Len(copied) : copied'[i] = copied[i]
        /\ \A i \in Len(copied) + 1..Len(copied) + n : copied'[i] = t[i - Len(copied)]
    <3>1. copied \in Seq(Nat)
      BY <1>1 DEF KlogTypes
    <3>2. t \in Seq(Nat) /\ copied' = copied \o t
      BY <2>2, <2>3
    <3>3. /\ copied' \in Seq(Nat) /\ Len(copied) \in Nat /\ Len(t) \in Nat /\ Len(copied') = Len(copied) + Len(t)
          /\ \A i \in 1..Len(copied) : copied'[i] = copied[i]
          /\ \A i \in Len(copied) + 1..Len(copied) + Len(t) : copied'[i] = t[i - Len(copied)]
      BY <3>1, <3>2, Joined
    <3>4. QED BY <2>2, <3>3
  <2>5. kread' \in [KlogProcs -> [pc : {"out", "look", "asleep", "count"}, count : Nat]] /\ CutShort' = {}
    BY <1>1, <1>2, <1>5 DEF TakesPart, KlogTypes, KlogOut, CutShort
  <2>6. KlogTypes'
    <3>1. klog_buf' \in Seq(Nat) /\ copied' \in Seq(Nat) /\ torn' \in BOOLEAN
      BY <1>1, <2>3, <2>4 DEF KlogTypes
    <3>2. klog_rptr' \in 0..Len(klog_buf')
      BY <1>1, <2>1, <2>3 DEF KlogTypes
    <3>3. klog_free' \in Int
      BY <1>1, <2>1, <2>3 DEF KlogTypes
    <3>4. QED BY <2>5, <3>1, <3>2, <3>3 DEF KlogTypes
  <2>7. ASSUME NEW i \in 1..n PROVE t[i] = Len(copied) + i
    <3>1. klog_rptr + i \in klog_rptr + 1..Len(klog_buf) /\ (klog_rptr + i) - klog_rptr = i
      BY <1>3, <2>1
    <3>2. klog_buf[klog_rptr + i] = Len(copied) + i
      BY <1>1, <1>2, <3>1 DEF KlogOrder
    <3>3. QED BY <2>2, <3>2
  <2>8. KlogOrder'
    <3>1. \A i \in 1..Len(copied) + n : copied'[i] = i
      <4>1. TAKE i \in 1..Len(copied) + n
      <4>2. CASE i <= Len(copied)
        <5>1. i \in 1..Len(copied)
          BY <2>1, <2>4, <4>2
        <5>2. QED BY <1>1, <2>4, <5>1 DEF KlogOrder
      <4>3. CASE i > Len(copied)
        <5>1. i - Len(copied) \in 1..n /\ i \in Len(copied) + 1..Len(copied) + n /\ Len(copied) + (i - Len(copied)) = i
          BY <2>1, <2>4, <4>3
        <5>2. QED BY <2>4, <2>7, <5>1
      <4>4. QED BY <2>1, <2>4, <4>2, <4>3
    <3>2. ASSUME NEW i \in klog_rptr + n + 1..Len(klog_buf)
          PROVE  klog_buf[i] = Len(copied) + n + (i - (klog_rptr + n))
      BY <1>1, <1>2, <2>1, <2>4 DEF KlogOrder, KlogTypes
    <3>3. QED BY <2>1, <2>3, <2>4, <3>1, <3>2 DEF KlogOrder
  <2>9. KlogReaders'
    <3>1. kread' = [kread EXCEPT ![p] = KlogOut] /\ KlogOut.pc = "out"
      BY <1>5 DEF TakesPart, KlogOut
    <3>2. \A q \in KlogProcs : kread[q].pc # "asleep"
      BY <1>1, <1>3, <2>1 DEF KlogReaders
    <3>3. \A q \in KlogProcs : kread'[q] = kread[q] \/ kread'[q].pc = "out"
      BY <1>1, <3>1 DEF KlogTypes
    <3>4. QED BY <1>1, <2>5, <3>2, <3>3 DEF KlogReaders
  <2>10. klog_free' = KlogSize - Len(klog_buf) - klog_rptr'
    BY <1>1, <2>1, <2>3, KlogAssumption DEF KlogTypes
  <2>11. QED BY <1>1, <2>3, <2>6, <2>8, <2>9, <2>10 DEF KlogInv
<1>6. CASE TakesAll(p)
  <2>1. Pending \in 1..kread[p].count /\ copied' = copied \o Unread /\ kread' = [kread EXCEPT ![p].pc = "count"]
        /\ UNCHANGED <<klog_buf, klog_rptr, klog_free, torn>>
    BY <1>6 DEF TakesAll, Look
  <2>2. /\ Unread \in Seq(Nat) /\ Len(Unread) = Pending /\ klog_rptr \in Nat
        /\ \A i \in 1..Pending : Unread[i] = klog_buf[klog_rptr + i]
    <3>1. klog_buf \in Seq(Nat) /\ klog_rptr \in Nat /\ Len(klog_buf) \in Nat
      BY <1>1 DEF KlogTypes
    <3>2. klog_rptr + Pending = Len(klog_buf)
      BY <1>3, <3>1
    <3>3. Unread = SubSeq(klog_buf, klog_rptr + 1, klog_rptr + Pending)
      BY <3>2 DEF Unread
    <3>4. klog_rptr + Pending <= Len(klog_buf)
      BY <3>1, <3>2
    <3>5. PICK b : b = klog_buf
      OBVIOUS
    <3>6. PICK m : m = klog_rptr
      OBVIOUS
    <3>7. PICK n : n = Pending
      OBVIOUS
    <3>8. PICK s : s = Unread
      OBVIOUS
    <3>9. b \in Seq(Nat) /\ m \in Nat /\ n \in Nat /\ m + n <= Len(b) /\ s = SubSeq(b, m + 1, m + n)
      BY <1>3, <3>1, <3>3, <3>4, <3>5, <3>6, <3>7, <3>8
    <3>10. s \in Seq(Nat) /\ Len(s) = n /\ \A i \in 1..n : s[i] = b[m + i]
      BY <3>9, NumbersPart
    <3>11. QED BY <3>1, <3>5, <3>6, <3>7, <3>8, <3>10
  <2>3. /\ copied' \in Seq(Nat) /\ Len(copied') = Len(copied) + Pending /\ Len(copied) \in Nat
        /\ \A i \in 1..Len(copied) : copied'[i] = copied[i]
        /\ \A i \in Len(copied) + 1..Len(copied) + Pending : copied'[i] = Unread[i - Len(copied)]
    <3>1. copied \in Seq(Nat)
      BY <1>1 DEF KlogTypes
    <3>2. QED BY <2>1, <2>2, <3>1, Joined
  <2>4. \A i \in 1..Pending : Unread[i] = Len(copied) + i
    BY <1>1, <1>2, <1>3, <2>2, <2>3 DEF KlogOrder
  <2>5. kread' \in [KlogProcs -> [pc : {"out", "look", "asleep", "count"}, count : Nat]] /\ CutShort' = {p}
    BY <1>1, <1>2, <2>1 DEF KlogTypes, CutShort
  <2>6. KlogTypes'
    BY <1>1, <2>1, <2>3, <2>5 DEF KlogTypes
  <2>7. KlogOrder'
    <3>1. ASSUME NEW i \in 1..Len(copied) + Pending PROVE copied'[i] = i
      <4>1. CASE i <= Len(copied)
        BY <1>1, <1>3, <2>3, <4>1 DEF KlogOrder
      <4>2. CASE i > Len(copied)
        <5>1. i - Len(copied) \in 1..Pending /\ i \in Len(copied) + 1..Len(copied) + Pending
              /\ Len(copied) + (i - Len(copied)) = i
          BY <1>3, <2>3, <4>2
        <5>2. QED BY <2>3, <2>4, <5>1
      <4>3. QED BY <1>3, <2>3, <4>1, <4>2
    <3>2. QED BY <2>3, <2>5, <3>1 DEF KlogOrder
  <2>8. Pending' = Pending
    BY <2>1 DEF Pending
  <2>9. KlogReaders'
    BY <1>1, <1>2, <2>1, <2>5, <2>8 DEF KlogReaders, KlogTypes
  <2>10. QED BY <1>1, <2>1, <2>6, <2>7, <2>9 DEF KlogInv
<1>7. QED BY <1>4, <1>5, <1>6 DEF Look

LEMMA KlogWrite ==
  ASSUME KlogInv, ~torn, NEW who \in KlogProcs \cup {0}, NEW n \in KlogLengths, klog_write(who, n)
  PROVE  KlogInv'
<1>1. KlogTypes /\ KlogOrder /\ KlogReaders /\ Len(klog_buf) <= KlogSize /\ klog_free = KlogSize - Len(klog_buf) - klog_rptr
  BY DEF KlogInv
<1>2. n \in Nat /\ n > 0 /\ KlogSize \in Nat /\ klog_free >= n
  BY <1>1, KlogAssumption DEF klog_write, Refused, KlogTypes
<1>3. /\ Pending \in Nat /\ Pending = Len(klog_buf) - klog_rptr /\ Len(klog_buf) \in Nat /\ klog_rptr \in Nat
      /\ Len(copied) \in Nat /\ Accepts = Len(copied) + Pending
  BY <1>1 DEF KlogTypes, Pending, Accepts
<1>4. PICK w : w = [i \in 1..n |-> Accepts + i]
  OBVIOUS
<1>5. w \in Seq(Nat) /\ Len(w) = n /\ \A i \in 1..n : w[i] = Accepts + i
  BY <1>2, <1>3, <1>4
<1>6. klog_buf' = klog_buf \o w /\ klog_free' = klog_free - n /\ UNCHANGED <<klog_rptr, copied, klog_kpid>>
  BY <1>4 DEF klog_write
<1>7. /\ klog_buf' \in Seq(Nat) /\ Len(klog_buf') = Len(klog_buf) + n
      /\ \A i \in 1..Len(klog_buf) : klog_buf'[i] = klog_buf[i]
      /\ \A i \in Len(klog_buf) + 1..Len(klog_buf) + n : klog_buf'[i] = w[i - Len(klog_buf)]
  <2>1. klog_buf \in Seq(Nat)
    BY <1>1 DEF KlogTypes
  <2>2. PICK b : b = klog_buf
    OBVIOUS
  <2>3. PICK s : s = klog_buf'
    OBVIOUS
  <2>4. b \in Seq(Nat) /\ w \in Seq(Nat) /\ s = b \o w
    BY <1>5, <1>6, <2>1, <2>2, <2>3
  <2>5. /\ s \in Seq(Nat) /\ Len(s) = Len(b) + Len(w)
        /\ \A i \in 1..Len(b) : s[i] = b[i]
        /\ \A i \in Len(b) + 1..Len(b) + Len(w) : s[i] = w[i - Len(b)]
    BY <2>4, NumbersJoined
  <2>6. QED BY <1>5, <2>2, <2>3, <2>5
<1>8. kread' = [p \in KlogProcs |-> IF kread[p].pc = "asleep" THEN [kread[p] EXCEPT !.pc = "look"] ELSE kread[p]]
  BY DEF klog_write
<1>9. kread' \in [KlogProcs -> [pc : {"out", "look", "asleep", "count"}, count : Nat]] /\ CutShort' = CutShort
  BY <1>1, <1>8 DEF KlogTypes, CutShort
<1>10. torn' = (who \in KlogProcs /\ kread[who].pc = "count") /\ torn' \in BOOLEAN
  BY DEF klog_write
<1>11. KlogTypes'
  BY <1>1, <1>2, <1>3, <1>6, <1>7, <1>9, <1>10 DEF KlogTypes
<1>12. CASE torn'
  <2>1. CutShort = {who} /\ who # klog_kpid
    BY <1>10, <1>12 DEF klog_write, MayRun, CutShort, Refused
  <2>2. QED BY <1>6, <1>9, <1>11, <1>12, <2>1 DEF KlogInv
<1>13. CASE ~torn'
  <2>1. CutShort = {}
    BY <1>10, <1>13 DEF klog_write, MayRun, CutShort
  <2>2. KlogOrder'
    <3>1. ASSUME NEW i \in klog_rptr + 1..Len(klog_buf) + n
          PROVE  klog_buf'[i] = Len(copied) + (i - klog_rptr)
      <4>1. CASE i <= Len(klog_buf)
        BY <1>1, <1>2, <1>3, <1>7, <2>1, <4>1 DEF KlogOrder
      <4>2. CASE i > Len(klog_buf)
        <5>1. i - Len(klog_buf) \in 1..n /\ i \in Len(klog_buf) + 1..Len(klog_buf) + n
              /\ Accepts + (i - Len(klog_buf)) = Len(copied) + (i - klog_rptr)
          BY <1>2, <1>3, <4>2
        <5>2. klog_buf'[i] = Accepts + (i - Len(klog_buf))
          BY <1>5, <1>7, <5>1
        <5>3. QED BY <5>1, <5>2
      <4>3. QED BY <1>2, <1>3, <4>1, <4>2
    <3>2. QED BY <1>1, <1>6, <1>7, <3>1 DEF KlogOrder
  <2>3. KlogReaders'
    BY <1>1, <1>8, <1>9, <2>1 DEF KlogReaders, KlogTypes
  <2>4. Len(klog_buf') <= KlogSize /\ klog_free' = KlogSize - Len(klog_buf') - klog_rptr'
    BY <1>1, <1>2, <1>3, <1>6, <1>7 DEF KlogTypes
  <2>5. QED BY <1>11, <1>13, <2>2, <2>3, <2>4 DEF KlogInv
<1>14. QED BY <1>12, <1>13

LEMMA KlogNext_Inv ==
  ASSUME KlogInv, [KlogNext]_kVars
  PROVE  KlogInv'
<1>1. CASE UNCHANGED kVars
  <2>1. UNCHANGED <<Pending, CutShort>>
    BY <1>1 DEF kVars, Pending, CutShort
  <2>2. UNCHANGED <<KlogTypes, KlogOrder, KlogReaders>>
    BY <1>1, <2>1 DEF kVars, KlogTypes, KlogOrder, KlogReaders
  <2>3. QED BY <1>1, <2>1, <2>2 DEF kVars, KlogInv
<1>2. CASE KlogNext
  <2>1. ~torn /\ KlogTypes /\ KlogReaders
    BY <1>2 DEF KlogNext, KlogInv
  <2>2. ASSUME NEW p \in KlogProcs, klog_open(p) PROVE KlogInv'
    BY <2>1, <2>2, KlogStepAside DEF klog_open, KlogTypes
  <2>3. CASE klog_close \/ klog_fcntl
    BY <2>1, <2>3, KlogStepAside DEF klog_close, klog_fcntl, KlogTypes
  <2>4. ASSUME NEW p \in KlogProcs, KlogSignal(p) PROVE KlogInv'
    <3>1. /\ kread' \in [KlogProcs -> [pc : {"out", "look", "asleep", "count"}, count : Nat]]
          /\ \A q \in KlogProcs : kread'[q] = kread[q] \/ (kread'[q].pc = "out" /\ kread[q].pc # "count")
      BY <2>1, <2>4 DEF KlogSignal, KlogTypes, KlogOut
    <3>2. UNCHANGED <<klog_buf, klog_rptr, klog_free, copied, torn>>
      BY <2>4 DEF KlogSignal
    <3>3. QED BY <2>1, <3>1, <3>2, KlogStepAside
  <2>5. ASSUME NEW p \in KlogProcs, Look(p) PROVE KlogInv'
    BY <2>1, <2>5, KlogLook
  <2>6. ASSUME NEW p \in KlogProcs, Count(p) PROVE KlogInv'
    <3>1. kread[p].pc = "count" /\ klog_reset /\ UNCHANGED <<copied, torn>> /\ CutShort = {p}
      BY <2>1, <2>6 DEF Count, KlogReaders, CutShort
    <3>2. kread[p].count \in Nat /\ Pending \in 1..kread[p].count /\ kread[p].count \in Int
      BY <2>1, <3>1 DEF KlogTypes, KlogReaders
    <3>3. PICK w : w = IF kread[p].count = Pending THEN KlogOut ELSE [pc |-> "look", count |-> kread[p].count - Pending]
      OBVIOUS
    <3>4. w \in [pc : {"out", "look", "asleep", "count"}, count : Nat] /\ w.pc # "count" /\ (w.pc # "out" => w.count > 0)
      BY <3>2, <3>3 DEF KlogOut
    <3>5. kread' = [kread EXCEPT ![p] = w]
      BY <2>6, <3>3 DEF Count
    <3>6. kread' \in [KlogProcs -> [pc : {"out", "look", "asleep", "count"}, count : Nat]]
      BY <2>1, <3>4, <3>5 DEF KlogTypes
    <3>7. CutShort' = {} /\ \A q \in KlogProcs : kread'[q].pc # "out" => kread'[q].count > 0
      BY <2>1, <3>1, <3>4, <3>5 DEF CutShort, KlogTypes, KlogReaders
    <3>8. QED BY <2>1, <3>1, <3>6, <3>7, KlogReset
  <2>7. ASSUME NEW p \in KlogProcs, NEW n \in KlogCounts, klog_read(p, n) PROVE KlogInv'
    <3>1. n \in Nat /\ n > 0
      BY KlogAssumption
    <3>2. kread[p].pc = "out" /\ CutShort = {} /\ UNCHANGED <<copied, torn>>
      BY <2>7 DEF klog_read, CutShort
    <3>3. CASE Pending = 0 /\ klog_nonblock
      <4>1. klog_reset /\ kread' = kread
        BY <2>7, <3>3 DEF klog_read
      <4>2. CutShort' = {} /\ Pending = 0
        BY <3>2, <3>3, <4>1 DEF CutShort
      <4>3. /\ kread' \in [KlogProcs -> [pc : {"out", "look", "asleep", "count"}, count : Nat]]
            /\ \A q \in KlogProcs : kread'[q].pc # "out" => kread'[q].count > 0
        BY <2>1, <4>1 DEF KlogTypes, KlogReaders
      <4>4. QED BY <2>1, <3>2, <4>1, <4>2, <4>3, KlogReset
    <3>4. CASE ~(Pending = 0 /\ klog_nonblock)
      <4>1. kread' = [kread EXCEPT ![p] = [pc |-> "look", count |-> n]] /\ UNCHANGED <<klog_buf, klog_rptr, klog_free>>
        BY <2>7, <3>4 DEF klog_read
      <4>2. /\ kread' \in [KlogProcs -> [pc : {"out", "look", "asleep", "count"}, count : Nat]]
            /\ \A q \in KlogProcs : kread'[q] = kread[q] \/ (kread'[q].pc = "look" /\ kread'[q].count > 0 /\ kread[q].pc # "count")
        <5>1. PICK w : w = [pc |-> "look", count |-> n]
          OBVIOUS
        <5>2. w \in [pc : {"out", "look", "asleep", "count"}, count : Nat] /\ w.pc = "look" /\ w.count > 0
          BY <3>1, <5>1
        <5>3. kread' = [kread EXCEPT ![p] = w]
          BY <4>1, <5>1
        <5>4. kread \in [KlogProcs -> [pc : {"out", "look", "asleep", "count"}, count : Nat]]
          BY <2>1 DEF KlogTypes
        <5>5. kread' \in [KlogProcs -> [pc : {"out", "look", "asleep", "count"}, count : Nat]]
          BY <5>2, <5>3, <5>4
        <5>6. kread'[p] = w /\ \A q \in KlogProcs : q # p => kread'[q] = kread[q]
          BY <5>3, <5>4
        <5>7. kread[p].pc # "count"
          BY <3>2
        <5>8. QED BY <5>2, <5>5, <5>6, <5>7
      <4>3. QED BY <2>1, <3>2, <4>1, <4>2, KlogStepAside
    <3>5. QED BY <3>3, <3>4
  <2>8. ASSUME NEW who \in KlogProcs \cup {0}, NEW n \in KlogLengths, klog_write(who, n) PROVE KlogInv'
    BY <2>1, <2>8, KlogWrite
  <2>9. QED BY <1>2, <2>2, <2>3, <2>4, <2>5, <2>6, <2>7, <2>8 DEF KlogNext
<1>3. QED BY <1>1, <1>2

LEMMA KlogInv_Exact ==
  ASSUME KlogInv
  PROVE  LogExact
<1>1. CASE torn
  BY <1>1 DEF KlogInv, LogExact
<1>2. CASE ~torn
  <2>1. KlogTypes /\ KlogOrder /\ KlogReaders /\ Len(klog_buf) <= KlogSize /\ klog_free = KlogSize - Len(klog_buf) - klog_rptr
    BY <1>2 DEF KlogInv
  <2>2. copied \in Seq(Nat) /\ Len(copied) \in Nat /\ klog_rptr \in Nat /\ Len(klog_buf) \in Nat /\ klog_buf \in Seq(Nat)
        /\ Pending \in Nat /\ Pending = Len(klog_buf) - klog_rptr /\ klog_rptr + Pending = Len(klog_buf)
    BY <2>1 DEF KlogTypes, Pending
  <2>3. CASE CutShort # {}
    <3>1. copied \o <<>> = copied
      BY <2>2
    <3>2. copied = [i \in 1..Len(copied) |-> i]
      BY <2>1, <2>2 DEF KlogOrder
    <3>3. QED BY <1>2, <2>1, <2>3, <3>1, <3>2 DEF LogExact, KlogReaders
  <2>4. CASE CutShort = {}
    <3>1. Unread = SubSeq(klog_buf, klog_rptr + 1, klog_rptr + Pending) /\ klog_rptr + Pending <= Len(klog_buf)
      BY <2>2 DEF Unread
    <3>2. Unread \in Seq(Nat) /\ Len(Unread) = Pending /\ \A i \in 1..Pending : Unread[i] = klog_buf[klog_rptr + i]
      <4>1. IsPart(Unread, Nat, klog_buf, klog_rptr, Pending)
        <5>1. klog_buf \in Seq(Nat) /\ klog_rptr \in Nat /\ Pending \in Nat
          BY <2>2
        <5>2. QED BY ONLY <3>1, <5>1, PartOf
      <4>2. QED BY ONLY <4>1 DEF IsPart
    <3>3. PICK s : s = copied \o Unread
      OBVIOUS
    <3>4. /\ s \in Seq(Nat) /\ Len(s) = Len(copied) + Len(Unread)
          /\ \A i \in 1..Len(copied) : s[i] = copied[i]
          /\ \A i \in Len(copied) + 1..Len(copied) + Len(Unread) : s[i] = Unread[i - Len(copied)]
      <4>1. copied \in Seq(Nat) /\ Unread \in Seq(Nat)
        BY <2>2, <3>2
      <4>2. QED BY <3>3, <4>1, Joined
    <3>5. Accepts = Len(s) /\ Len(s) = Len(copied) + Pending
      BY <3>2, <3>4 DEF Accepts
    <3>6. ASSUME NEW i \in 1..Len(s) PROVE s[i] = i
      <4>1. CASE i <= Len(copied)
        <5>1. i \in 1..Len(copied)
          BY <2>2, <3>5, <4>1
        <5>2. QED BY <2>1, <3>4, <5>1 DEF KlogOrder
      <4>2. CASE i > Len(copied)
        <5>1. /\ i - Len(copied) \in 1..Pending /\ i \in Len(copied) + 1..Len(copied) + Pending
              /\ klog_rptr + (i - Len(copied)) \in klog_rptr + 1..Len(klog_buf)
              /\ Len(copied) + ((klog_rptr + (i - Len(copied))) - klog_rptr) = i
          BY <2>2, <3>5, <4>2
        <5>2. s[i] = klog_buf[klog_rptr + (i - Len(copied))]
          BY <3>2, <3>4, <5>1
        <5>3. QED BY <2>1, <2>4, <5>1, <5>2 DEF KlogOrder
      <4>3. QED BY <2>2, <3>5, <4>1, <4>2
    <3>7. s = [i \in 1..Accepts |-> i]
      BY <3>4, <3>5, <3>6
    <3>8. QED BY <1>2, <2>1, <2>4, <3>3, <3>7 DEF LogExact, KlogReaders
  <2>5. QED BY <2>3, <2>4
<1>3. QED BY <1>1, <1>2

(***************************************************************************)
(* The screens.                                                            *)
(***************************************************************************)
ScrState == [cx : Int, cy : Int, esc : BOOLEAN, capability : Starts \cup {"none", "[0"}, cap_index : Int,
             temp_cx : Int, temp_cy : Int, separator : BOOLEAN, opost : BOOLEAN, screen : Int]

ScrInv ==
  /\ script \in Scripts /\ scr \in [Screens -> ScrState] /\ cvtty \in Screens
  /\ offset \in 0..VideoWrap + Columns - 1
  /\ \A v \in Screens : /\ v \notin astray => OnScreen(scr[v])
                        /\ scr[v].screen = IF Focused(v) THEN offset ELSE Buffer
  /\ cvtty \notin astray => shown = offset + Cell(scr[cvtty])

LEMMA ScreenSizes ==
  /\ Lines \in Nat /\ Lines > 0 /\ Columns \in Nat /\ Columns > 0 /\ TabStop \in Nat /\ TabStop > 0
  /\ VideoWrap \in Nat /\ VideoWrap > 0 /\ VideoCells \in Nat /\ VideoCells >= VideoWrap + (Lines + 1) * Columns
  /\ 0 \in Screens /\ \A s \in Scripts : s.writers \subseteq Screens
BY ScreenAssumption

LEMMA RowsBefore ==
  ASSUME NEW a \in Nat, NEW b \in Nat, a <= b, NEW n \in Nat
  PROVE  a * n \in Nat /\ b * n \in Nat /\ (b - a) * n \in Nat /\ a * n + (b - a) * n = b * n
OBVIOUS

LEMMA NextRow ==
  ASSUME NEW a \in Nat, NEW n \in Nat
  PROVE  (a + 1) * n = a * n + n /\ a * n \in Nat
OBVIOUS

\* A cursor on the screen leaves every function of the driver within it.
LEMMA OnScreenWithin ==
  ASSUME NEW s, s.cx \in Int, s.cy \in Int, OnScreen(s)
  PROVE  /\ \A p \in Touched(s) : WithinScreen(p)
         /\ RowNotAfterColumn(s) => WithinScreen(ClearedBelow(s))
<1>1. PICK x : x = s.cx
  OBVIOUS
<1>2. PICK y : y = s.cy
  OBVIOUS
<1>3. x \in Nat /\ x < Columns /\ y \in Nat /\ y < Lines /\ Lines \in Nat /\ Columns \in Nat /\ Lines > 0 /\ Columns > 0
  BY <1>1, <1>2, ScreenSizes DEF OnScreen
<1>4. /\ y * Columns \in Nat /\ (Lines - y) * Columns \in Nat /\ Lines * Columns \in Nat
      /\ y * Columns + (Lines - y) * Columns = Lines * Columns
  BY <1>3, RowsBefore
<1>5. y * Columns + Columns <= Lines * Columns
  <2>1. y + 1 \in Nat /\ y + 1 <= Lines
    BY <1>3
  <2>2. (y + 1) * Columns + (Lines - (y + 1)) * Columns = Lines * Columns /\ (Lines - (y + 1)) * Columns \in Nat
        /\ (y + 1) * Columns \in Nat
    BY <1>3, <2>1, RowsBefore
  <2>3. (y + 1) * Columns = y * Columns + Columns
    BY <1>3, NextRow
  <2>4. QED BY <1>3, <1>4, <2>2, <2>3
<1>6. /\ (Lines - 1) * Columns \in Nat /\ (Lines - 1) * Columns + Columns = Lines * Columns
  <2>1. Lines - 1 \in Nat /\ (Lines - 1) + 1 = Lines
    BY <1>3
  <2>2. QED BY <1>3, <2>1, NextRow
<1>7. PICK a : a = y * Columns
  OBVIOUS
<1>8. PICK m : m = Lines * Columns
  OBVIOUS
<1>9. ASSUME NEW f \in Nat, NEW n \in Nat, f + n <= m PROVE WithinScreen(Span(f, n))
  BY <1>4, <1>8, <1>9 DEF WithinScreen, Span
<1>10. a \in Nat /\ m \in Nat /\ a + Columns <= m /\ Cell(s) = a + x /\ a + (Lines - y) * Columns = m
  BY <1>1, <1>2, <1>4, <1>5, <1>7, <1>8 DEF Cell
<1>11. WithinScreen(Span(Cell(s), 1)) /\ WithinScreen(Span(Cell(s), Columns - s.cx))
  <2>1. /\ a + x \in Nat /\ 1 \in Nat /\ a + x + 1 <= m
        /\ Columns - x \in Nat /\ a + x + (Columns - x) <= m
    BY <1>3, <1>10
  <2>2. QED BY <1>1, <1>9, <1>10, <2>1
<1>12. WithinScreen(Span(s.cy * Columns, Columns)) /\ WithinScreen(Span(s.cy * Columns, (Lines - s.cy) * Columns))
  <2>1. a + (Lines - y) * Columns <= m /\ (Lines - y) * Columns \in Nat
    BY <1>4, <1>10
  <2>2. WithinScreen(Span(a, Columns)) /\ WithinScreen(Span(a, (Lines - y) * Columns))
    BY <1>3, <1>9, <1>10, <2>1
  <2>3. QED BY <1>2, <1>7, <2>2
<1>13. WithinScreen(Span(0, (Lines - 1) * Columns)) /\ WithinScreen(Span((Lines - 1) * Columns, Columns))
  <2>1. 0 \in Nat /\ 0 + (Lines - 1) * Columns <= m /\ (Lines - 1) * Columns + Columns <= m
    BY <1>3, <1>6, <1>8
  <2>2. QED BY <1>3, <1>6, <1>9, <2>1
<1>14. ASSUME RowNotAfterColumn(s) PROVE WithinScreen(ClearedBelow(s))
  <2>1. y <= x /\ x <= Lines
    BY <1>1, <1>2, <1>14 DEF RowNotAfterColumn
  <2>2. PICK d : d = Lines - x
    OBVIOUS
  <2>3. PICK e : e = Lines - y
    OBVIOUS
  <2>4. d \in Nat /\ e \in Nat /\ d <= e
    BY <1>3, <2>1, <2>2, <2>3
  <2>5. d * Columns \in Nat /\ (e - d) * Columns \in Nat /\ d * Columns + (e - d) * Columns = e * Columns /\ e * Columns \in Nat
    BY <1>3, <2>4, RowsBefore
  <2>6. a + e * Columns = m
    BY <1>10, <2>3
  <2>7. a + d * Columns <= m
    BY <1>10, <2>5, <2>6
  <2>8. WithinScreen(Span(a, d * Columns))
    BY <1>9, <1>10, <2>5, <2>7
  <2>9. QED BY <1>1, <1>2, <1>7, <2>2, <2>8 DEF ClearedBelow
<1>15. QED BY <1>11, <1>12, <1>13, <1>14 DEF Touched, Echoed, LineMoved, CharMoved, AllMoved

LEMMA ScrInv_Whole ==
  ASSUME ScrInv
  PROVE  ScreenWhole
<1>1. ASSUME NEW v \in Screens, v \notin astray
      PROVE  /\ OnScreen(scr[v]) /\ \A p \in Touched(scr[v]) : WithinScreen(p)
             /\ RowNotAfterColumn(scr[v]) => WithinScreen(ClearedBelow(scr[v]))
  <2>1. OnScreen(scr[v]) /\ scr[v].cx \in Int /\ scr[v].cy \in Int
    BY <1>1 DEF ScrInv, ScrState
  <2>2. QED BY <2>1, OnScreenWithin
<1>2. offset >= 0 /\ offset + Lines * Columns <= VideoCells
  <2>1. offset \in Int /\ 0 <= offset /\ offset <= VideoWrap + Columns - 1
    BY ScreenSizes DEF ScrInv
  <2>2. (Lines + 1) * Columns = Lines * Columns + Columns /\ Lines * Columns \in Nat
    BY ScreenSizes, NextRow
  <2>3. QED BY <2>1, <2>2, ScreenSizes
<1>3. QED BY <1>1, <1>2 DEF ScrInv, ScreenWhole

LEMMA ScrInit_Inv ==
  ASSUME ScrInit
  PROVE  ScrInv
<1>1. Start0 \in ScrState /\ [Start0 EXCEPT !.screen = 0] \in ScrState
  <2>1. Buffer \in Int /\ 0 \in Int
    BY DEF Buffer
  <2>2. PICK C : C = Starts \cup {"none", "[0"}
    OBVIOUS
  <2>3. "none" \in C
    BY <2>2
  <2>4. Start0 \in ScrState
    BY <2>1, <2>2, <2>3 DEF Start0, ScrState
  <2> HIDE DEF Start0
  <2>5. QED BY <2>1, <2>4 DEF ScrState
<1>2. OnScreen(Start0) /\ OnScreen([Start0 EXCEPT !.screen = 0])
  BY ScreenSizes DEF OnScreen, Start0
<1>3. Start0.screen = Buffer /\ [Start0 EXCEPT !.screen = 0].screen = 0
  BY DEF Start0
<1>4. PICK a : a = [Start0 EXCEPT !.screen = 0]
  OBVIOUS
<1>5. scr = [v \in Screens |-> IF v = 0 THEN a ELSE Start0] /\ cvtty = 0 /\ offset = 0 /\ shown = 0 /\ script \in Scripts
  BY <1>4 DEF ScrInit
<1>6. Cell(a) = 0
  <2>1. a.cx = 0 /\ a.cy = 0
    BY <1>4 DEF Start0
  <2>2. 0 * Columns + 0 = 0
    BY ScreenSizes
  <2>3. QED BY <2>1, <2>2 DEF Cell
<1>7. offset \in 0..VideoWrap + Columns - 1
  BY <1>5, ScreenSizes
<1>8. scr[0] = a
  BY <1>5, ScreenSizes
<1> HIDE DEF Start0
<1>9. \A v \in Screens : OnScreen(scr[v]) /\ scr[v].screen = IF v = cvtty THEN offset ELSE Buffer
  BY <1>1, <1>2, <1>3, <1>4, <1>5
<1>10. scr \in [Screens -> ScrState]
  BY <1>1, <1>4, <1>5
<1>11. shown = offset + Cell(scr[cvtty])
  BY <1>5, <1>6, <1>8
<1>12. QED BY <1>5, <1>7, <1>9, <1>10, <1>11, ScreenSizes DEF ScrInv, Focused

\* Terminal v changes; if it has the focus, what the hardware is told agrees with what it believes.
LEMMA ScrStep ==
  ASSUME ScrInv, NEW v \in Screens, NEW t \in ScrState, NEW o \in 0..VideoWrap + Columns - 1,
         scr' = [scr EXCEPT ![v] = t], offset' = o, UNCHANGED <<script, cvtty>>, astray \subseteq astray',
         v \notin astray' => OnScreen(t),
         t.screen = IF Focused(v) THEN o ELSE Buffer,
         Focused(v) /\ v \notin astray' => shown' = o + Cell(t),
         ~Focused(v) => shown' = shown /\ o = offset
  PROVE  ScrInv'
<1>1. scr \in [Screens -> ScrState] /\ cvtty \in Screens
  BY DEF ScrInv
<1>2. scr' \in [Screens -> ScrState] /\ scr'[v] = t /\ \A w \in Screens : w # v => scr'[w] = scr[w]
  BY <1>1
<1>3. ASSUME NEW w \in Screens
      PROVE  /\ w \notin astray' => OnScreen(scr'[w])
             /\ scr'[w].screen = IF cvtty = w THEN o ELSE Buffer
  <2>1. CASE w = v
    BY <1>2, <2>1 DEF Focused
  <2>2. CASE w # v
    <3>1. w \notin astray' => OnScreen(scr[w])
      BY DEF ScrInv
    <3>2. scr[w].screen = IF cvtty = w THEN offset ELSE Buffer
      BY DEF ScrInv, Focused
    <3>3. cvtty = w => o = offset
      BY <2>2 DEF Focused
    <3>4. QED BY <1>2, <2>2, <3>1, <3>2, <3>3
  <2>3. QED BY <2>1, <2>2
<1>4. cvtty \notin astray' => shown' = o + Cell(scr'[cvtty])
  <2>1. CASE cvtty = v
    BY <1>2, <2>1 DEF Focused
  <2>2. CASE cvtty # v
    <3>1. shown' = shown /\ o = offset /\ scr'[cvtty] = scr[cvtty]
      BY <1>1, <1>2, <2>2 DEF Focused
    <3>2. cvtty \notin astray' => shown = offset + Cell(scr[cvtty])
      BY DEF ScrInv
    <3>3. QED BY <3>1, <3>2
  <2>3. QED BY <2>1, <2>2
<1>5. script' \in Scripts /\ cvtty' \in Screens /\ offset' \in 0..VideoWrap + Columns - 1
  BY <1>1 DEF ScrInv
<1>6. QED BY <1>2, <1>3, <1>4, <1>5 DEF ScrInv, Focused

\* The cursor stays where it is.
LEMMA ScrStepHere ==
  ASSUME ScrInv, NEW v \in Screens, NEW t \in ScrState, scr' = [scr EXCEPT ![v] = t],
         t.cx = scr[v].cx, t.cy = scr[v].cy, t.screen = scr[v].screen,
         UNCHANGED <<script, cvtty, offset, shown, astray>>
  PROVE  ScrInv'
<1>1. OnScreen(t) = OnScreen(scr[v]) /\ Cell(t) = Cell(scr[v])
  BY DEF OnScreen, Cell
<1>2. offset \in 0..VideoWrap + Columns - 1 /\ (v \notin astray => OnScreen(scr[v]))
      /\ scr[v].screen = IF Focused(v) THEN offset ELSE Buffer
  BY DEF ScrInv
<1>6. cvtty \notin astray => shown = offset + Cell(scr[cvtty])
  BY Zenon DEF ScrInv
<1>3. v \notin astray' => OnScreen(t)
  BY <1>1, <1>2
<1>4. Focused(v) /\ v \notin astray' => shown' = offset + Cell(t)
  <2>1. ASSUME Focused(v), v \notin astray' PROVE shown' = offset + Cell(t)
    <3>1. cvtty = v /\ cvtty \notin astray /\ shown' = shown
      BY <2>1 DEF Focused
    <3>2. QED BY <1>1, <1>6, <3>1
  <2>2. QED BY <2>1
<1>5. astray \subseteq astray' /\ UNCHANGED <<script, cvtty>> /\ offset' = offset
      /\ (~Focused(v) => shown' = shown) /\ t.screen = IF Focused(v) THEN offset ELSE Buffer
  BY <1>2
<1>7. QED BY <1>2, <1>3, <1>4, <1>5, ScrStep

\* The cursor is put to a place on the screen.
LEMMA ScrStepTo ==
  ASSUME ScrInv, NEW v \in Screens, NEW t \in ScrState, PutCursor(v, t), t.screen = scr[v].screen,
         UNCHANGED <<script, cvtty, offset>>, astray \subseteq astray',
         v \notin astray' => OnScreen(t), t.cx < Columns, t.cy < Lines
  PROVE  ScrInv'
<1>1. offset \in 0..VideoWrap + Columns - 1
      /\ scr[v].screen = IF Focused(v) THEN offset ELSE Buffer
  BY DEF ScrInv
<1>2. scr' = [scr EXCEPT ![v] = t] /\ shown' = IF Focused(v) THEN offset + Cell(t) ELSE shown
  BY DEF PutCursor, vtty_cursormove
<1>3. QED BY <1>1, <1>2, ScrStep

LEMMA EndedIsState ==
  ASSUME NEW s \in ScrState
  PROVE  /\ Ended(s) \in ScrState /\ Ended(s).cx = s.cx /\ Ended(s).cy = s.cy /\ Ended(s).screen = s.screen
<1>1. PICK C : C = Starts \cup {"none", "[0"}
  OBVIOUS
<1>2. "none" \in C /\ 0 \in Int
  BY <1>1
<1>3. QED BY <1>1, <1>2 DEF Ended, ScrState

\* vtty_cm().
LEMMA CmStep ==
  ASSUME ScrInv, NEW v \in Screens, NEW c, vtty_cm(v, c), UNCHANGED <<script, cvtty, offset>>
  PROVE  ScrInv'
<1>1. PICK s : s = scr[v]
  OBVIOUS
<1>2. s \in ScrState /\ s.temp_cx \in Int /\ s.temp_cy \in Int /\ s.cap_index \in Int
  BY <1>1 DEF ScrInv, ScrState
<1>3. PICK x : x = s.temp_cx - 1
  OBVIOUS
<1>4. PICK y : y = s.temp_cy - 1
  OBVIOUS
<1>5. x \in Int /\ y \in Int /\ CmTarget(s).x = x /\ CmTarget(s).y = y
  BY <1>2, <1>3, <1>4 DEF CmTarget
<1>6. CASE Moves(s, c) /\ x < Columns /\ y < Lines
  <2>1. PICK t : t = [Ended(s) EXCEPT !.cx = x, !.cy = y]
    OBVIOUS
  <2>2. t \in ScrState /\ t.cx = x /\ t.cy = y /\ t.screen = s.screen
    <3>1. PICK e : e = Ended(s)
      OBVIOUS
    <3>2. e \in ScrState /\ e.screen = s.screen
      BY <1>2, <3>1, EndedIsState
    <3>3. t = [e EXCEPT !.cx = x, !.cy = y]
      BY <2>1, <3>1
    <3>4. x \in Int /\ y \in Int
      BY <1>5
    <3>5. QED BY <3>2, <3>3, <3>4 DEF ScrState
  <2>3. PutCursor(v, t) /\ astray' = IF x < 0 \/ y < 0 THEN astray \cup {v} ELSE astray
    BY <1>1, <1>5, <1>6, <2>1 DEF vtty_cm
  <2>4. v \notin astray' => OnScreen(t)
    BY <1>5, <1>6, <2>2, <2>3, ScreenSizes DEF OnScreen
  <2>5. astray \subseteq astray' /\ t.cx < Columns /\ t.cy < Lines
    BY <1>6, <2>2, <2>3
  <2>6. QED BY <1>1, <2>2, <2>3, <2>4, <2>5, ScrStepTo
<1>7. CASE ~(Moves(s, c) /\ x < Columns /\ y < Lines)
  <2>1. PICK t : t = IF Takes(s, c) THEN CmNext(s, c) ELSE Ended(s)
    OBVIOUS
  <2>2. scr' = [scr EXCEPT ![v] = t] /\ UNCHANGED <<shown, astray>>
    BY <1>1, <1>5, <1>7, <2>1 DEF vtty_cm
  <2>3. CASE Takes(s, c)
    <3>1. c = ";" \/ (c # ";" /\ c \in Digits)
      BY <2>3 DEF Takes, Digits
    <3>2. PICK u : u = IF c = ";" THEN [s EXCEPT !.separator = TRUE] ELSE CmDigit(s, c)
      OBVIOUS
    <3>3. u \in ScrState /\ u.cx = s.cx /\ u.cy = s.cy /\ u.screen = s.screen
      <4>1. CASE c = ";"
        BY <1>2, <3>2, <4>1 DEF ScrState
      <4>2. CASE c \in Digits /\ c # ";"
        <5>1. Value(c) \in Int
          <6>1. c = "0" \/ c = "1" \/ c = "2" \/ c = "9"
            BY <4>2 DEF Digits
          <6>2. c = "0" => Value(c) = 0
            BY DEF Value
          <6>3. c = "1" => Value(c) = 1
            BY DEF Value
          <6>4. c = "2" => Value(c) = 2
            BY DEF Value
          <6>5. c = "9" => Value(c) = 9
            BY DEF Value
          <6>6. QED BY <6>1, <6>2, <6>3, <6>4, <6>5
        <5>2. s.temp_cx * 10 + Value(c) \in Int /\ s.temp_cy * 10 + Value(c) \in Int
          BY <1>2, <5>1
        <5>3. PICK a : a = s.temp_cx * 10 + Value(c)
          OBVIOUS
        <5>4. PICK b : b = s.temp_cy * 10 + Value(c)
          OBVIOUS
        <5>5. u = [s EXCEPT !.temp_cx = a] \/ u = [s EXCEPT !.temp_cy = b]
          BY <3>2, <4>2, <5>3, <5>4 DEF CmDigit
        <5>6. a \in Int /\ b \in Int
          BY <5>2, <5>3, <5>4
        <5>7. QED BY <1>2, <5>5, <5>6 DEF ScrState
      <4>3. QED BY <3>1, <4>1, <4>2
    <3>4. t = [u EXCEPT !.cap_index = s.cap_index + 1] \/ t = [u EXCEPT !.cap_index = u.cap_index + 1]
      BY <2>1, <2>3, <3>2 DEF CmNext
    <3>5. u.cap_index + 1 \in Int /\ s.cap_index + 1 \in Int
      BY <1>2, <3>3 DEF ScrState
    <3>6. t \in ScrState /\ t.cx = s.cx /\ t.cy = s.cy /\ t.screen = s.screen
      BY <3>3, <3>4, <3>5 DEF ScrState
    <3>7. QED BY <1>1, <2>2, <3>6, ScrStepHere
  <2>4. CASE ~Takes(s, c)
    <3>1. t \in ScrState /\ t.cx = s.cx /\ t.cy = s.cy /\ t.screen = s.screen
      BY <1>2, <2>1, <2>4, EndedIsState
    <3>2. QED BY <1>1, <2>2, <3>1, ScrStepHere
  <2>5. QED BY <2>3, <2>4
<1>8. QED BY <1>6, <1>7

\* vtty_cc(): the target is on the screen.
LEMMA CcStep ==
  ASSUME ScrInv, NEW v \in Screens, NEW c, vtty_cc(v, c), OnScreen(scr[v]), UNCHANGED <<script, cvtty, offset, astray>>
  PROVE  ScrInv'
<1>1. PICK s : s = scr[v]
  OBVIOUS
<1>2. s \in ScrState /\ OnScreen(s)
  BY <1>1 DEF ScrInv
<1>3. s.cx \in 0..Columns - 1 /\ s.cy \in 0..Lines - 1
  BY <1>2 DEF OnScreen
<1>4. PICK to : to = CcTarget(s, c)
  OBVIOUS
<1>5. to.x \in 0..Columns - 1 /\ to.y \in 0..Lines - 1
  <2>1. \/ to = [x |-> 0, y |-> 0]
        \/ to = [x |-> 0, y |-> Lines - 1]
        \/ to = [x |-> IF s.cx = 0 THEN 0 ELSE s.cx - 1, y |-> s.cy]
        \/ to = [x |-> IF s.cx = Columns - 1 THEN s.cx ELSE s.cx + 1, y |-> s.cy]
        \/ to = [x |-> s.cx, y |-> IF s.cy = 0 THEN 0 ELSE s.cy - 1]
        \/ to = [x |-> s.cx, y |-> IF s.cy = Lines - 1 THEN s.cy ELSE s.cy + 1]
        \/ to = [x |-> s.cx, y |-> s.cy]
    BY <1>4 DEF CcTarget
  <2>2. QED BY <1>3, <2>1, ScreenSizes
<1>6. PICK x : x = to.x
  OBVIOUS
<1>7. PICK y : y = to.y
  OBVIOUS
<1>8. x \in Int /\ y \in Int /\ 0 <= x /\ x < Columns /\ 0 <= y /\ y < Lines /\ x \in 0..Columns - 1 /\ y \in 0..Lines - 1
  BY <1>5, <1>6, <1>7, ScreenSizes
<1>9. PICK m : m = [s EXCEPT !.cx = x, !.cy = y]
  OBVIOUS
<1>10. m \in ScrState /\ m.cx = x /\ m.cy = y /\ m.screen = s.screen
  <2>1. s \in ScrState /\ x \in Int /\ y \in Int
    BY <1>2, <1>8
  <2>2. QED BY <1>9, <2>1 DEF ScrState
<1>11. PICK t : t = Ended(m)
  OBVIOUS
<1>12. t \in ScrState /\ t.cx = x /\ t.cy = y /\ t.screen = scr[v].screen
  BY <1>1, <1>10, <1>11, EndedIsState
<1>13. PutCursor(v, t)
  BY <1>1, <1>4, <1>6, <1>7, <1>9, <1>11 DEF vtty_cc
<1>14. OnScreen(t) /\ t.cx < Columns /\ t.cy < Lines /\ astray \subseteq astray'
  BY <1>8, <1>12 DEF OnScreen
<1>15. QED BY <1>12, <1>13, <1>14, ScrStepTo

LEMMA ClearStep ==
  ASSUME ScrInv, NEW v \in Screens, NEW c, vtty_clear(v, c), OnScreen(scr[v]), UNCHANGED <<script, cvtty, offset, astray>>
  PROVE  ScrInv'
<1>1. scr[v] \in ScrState
  BY DEF ScrInv
<1>2. PICK m : m = IF c = "S" THEN [scr[v] EXCEPT !.cx = 0, !.cy = 0] ELSE scr[v]
  OBVIOUS
<1>3. PICK t : t = Ended(m)
  OBVIOUS
<1>4. PutCursor(v, t)
  BY <1>2, <1>3 DEF vtty_clear
<1>5. m \in ScrState /\ OnScreen(m) /\ m.screen = scr[v].screen
  <2>1. CASE c = "S"
    <3>1. 0 \in Int
      OBVIOUS
    <3>2. m \in ScrState /\ m.cx = 0 /\ m.cy = 0 /\ m.screen = scr[v].screen
      <4>1. m = [scr[v] EXCEPT !.cx = 0, !.cy = 0]
        BY <1>2, <2>1
      <4>2. QED BY <1>1, <3>1, <4>1 DEF ScrState
    <3>3. OnScreen(m)
      BY <3>2, ScreenSizes DEF OnScreen
    <3>4. QED BY <3>2, <3>3
  <2>2. CASE c # "S"
    BY <1>1, <1>2, <2>2
  <2>3. QED BY <2>1, <2>2
<1>6. t \in ScrState /\ t.cx = m.cx /\ t.cy = m.cy /\ t.screen = scr[v].screen
  BY <1>3, <1>5, EndedIsState
<1>7. OnScreen(t) /\ t.cx < Columns /\ t.cy < Lines /\ astray \subseteq astray'
  BY <1>5, <1>6, ScreenSizes DEF OnScreen
<1>8. QED BY <1>4, <1>6, <1>7, ScrStepTo

\* Sequences that leave the cursor alone, complete or not.
LEMMA QuietStep ==
  ASSUME ScrInv, NEW v \in Screens, UNCHANGED <<script, cvtty, offset, shown, astray>>,
         \/ Escape(v) \/ OneMore(v) \/ SetOpost(v)
         \/ \E c : vtty_color(v, c)
         \/ \E c : Announce(v, c)
  PROVE  ScrInv'
<1>1. PICK s : s = scr[v]
  OBVIOUS
<1>2. s \in ScrState /\ scr[v] = s
  BY <1>1 DEF ScrInv
<1>3. PICK e : e = Ended(s)
  OBVIOUS
<1>4. e \in ScrState /\ e.cx = s.cx /\ e.cy = s.cy /\ e.screen = s.screen
  BY <1>2, <1>3, EndedIsState
<1>5. PICK C : C = Starts \cup {"none", "[0"}
  OBVIOUS
<1>6. scr \in [Screens -> ScrState]
  BY DEF ScrInv
<1> DEFINE StaysPut == \E t \in ScrState : scr' = [scr EXCEPT ![v] = t] /\ t.cx = s.cx /\ t.cy = s.cy /\ t.screen = s.screen
<1>7. StaysPut
  <2>1. CASE Escape(v)
    <3>1. PICK t : t = [e EXCEPT !.esc = TRUE]
      OBVIOUS
    <3>2. scr' = [scr EXCEPT ![v] = t]
      BY <1>2, <1>3, <1>6, <2>1, <3>1 DEF Escape
    <3>3. t \in ScrState /\ t.cx = s.cx /\ t.cy = s.cy /\ t.screen = s.screen
      BY <1>4, <3>1 DEF ScrState
    <3>4. QED BY <3>2, <3>3
  <2>2. CASE OneMore(v)
    <3>1. scr' = [scr EXCEPT ![v] = e]
      BY <1>2, <1>3, <1>6, <2>2 DEF OneMore
    <3>2. QED BY <1>4, <3>1
  <2>3. CASE SetOpost(v)
    <3>1. PICK t : t = [s EXCEPT !.opost = ~s.opost]
      OBVIOUS
    <3>2. scr' = [scr EXCEPT ![v] = t]
      BY <1>2, <1>6, <2>3, <3>1 DEF SetOpost
    <3>3. t \in ScrState /\ t.cx = s.cx /\ t.cy = s.cy /\ t.screen = s.screen
      BY <1>2, <3>1 DEF ScrState
    <3>4. QED BY <3>2, <3>3
  <2>4. ASSUME NEW c, vtty_color(v, c) PROVE StaysPut
    <3>1. PICK i : i = s.cap_index + 1
      OBVIOUS
    <3>2. i \in Int /\ s.capability \in C /\ "[0" \in C
      BY <1>2, <1>5, <3>1 DEF ScrState
    <3>3. PICK d : d = IF s.cap_index = 0 /\ c = "0" THEN "[0" ELSE s.capability
      OBVIOUS
    <3>4. d \in C
      BY <3>2, <3>3
    <3>5. PICK n : n = [s EXCEPT !.cap_index = i, !.capability = d]
      OBVIOUS
    <3>6. n \in ScrState /\ n.cx = s.cx /\ n.cy = s.cy /\ n.screen = s.screen
      BY <1>2, <1>5, <3>2, <3>4, <3>5 DEF ScrState
    <3>7. scr' = [scr EXCEPT ![v] = n] \/ scr' = [scr EXCEPT ![v] = e]
      BY <1>2, <1>3, <2>4, <3>1, <3>3, <3>5 DEF vtty_color
    <3>8. QED BY <1>4, <3>6, <3>7
  <2>5. ASSUME NEW c, Announce(v, c) PROVE StaysPut
    <3>1. CASE c \in Starts
      <4>1. PICK t : t = [s EXCEPT !.capability = c]
        OBVIOUS
      <4>2. scr' = [scr EXCEPT ![v] = t]
        BY <1>2, <1>6, <2>5, <3>1, <4>1 DEF Announce
      <4>3. c \in C
        BY <1>5, <3>1
      <4>4. t \in ScrState /\ t.cx = s.cx /\ t.cy = s.cy /\ t.screen = s.screen
        BY <1>2, <1>5, <4>1, <4>3 DEF ScrState
      <4>5. QED BY <4>2, <4>4
    <3>2. CASE c \notin Starts
      <4>1. scr' = [scr EXCEPT ![v] = e]
        BY <1>2, <1>3, <1>6, <2>5, <3>2 DEF Announce
      <4>2. QED BY <1>4, <4>1
    <3>3. QED BY <3>1, <3>2
  <2>6. QED BY <2>1, <2>2, <2>3, <2>4, <2>5
<1>8. QED BY <1>2, <1>7, ScrStepHere

\* Where a character puts the cursor, before the screen is scrolled.
LEMMA AdvancedState ==
  ASSUME NEW q \in ScrState, OnScreen(q), NEW c
  PROVE  /\ Advanced(q, c) \in ScrState /\ Advanced(q, c).screen = q.screen
         /\ Advanced(q, c).cy \in 0..Lines
         /\ Advanced(q, c).cx \in 0..Columns - 1 \/ RunsOut(q, c)
<1>1. /\ q.cx \in Int /\ 0 <= q.cx /\ q.cx <= Columns - 1 /\ q.cy \in Int /\ 0 <= q.cy /\ q.cy <= Lines - 1
      /\ Columns \in Int /\ Columns > 0 /\ Lines \in Int /\ Lines > 0
  BY ScreenSizes DEF OnScreen, ScrState
<1>2. PICK a : a = Advanced(q, c)
  OBVIOUS
<1>3. PICK y : y = q.cy + 1
  OBVIOUS
<1>4. y \in Int /\ y \in 0..Lines /\ q.cy \in 0..Lines /\ 0 \in 0..Columns - 1 /\ q.cx \in 0..Columns - 1 /\ 0 \in Int
  BY <1>1, <1>3
<1>5. CASE c = "BS"
  <2>1. PICK x : x = Max({q.cx - 1, 0})
    OBVIOUS
  <2>2. x \in {q.cx - 1, 0} /\ x >= 0
    <3>1. \E z \in {q.cx - 1, 0} : \A w \in {q.cx - 1, 0} : z >= w
      BY <1>1
    <3>2. x \in {q.cx - 1, 0} /\ \A w \in {q.cx - 1, 0} : x >= w
      BY <2>1, <3>1 DEF Max
    <3>3. QED BY <3>2
  <2>3. x \in Int /\ x \in 0..Columns - 1
    BY <1>1, <2>2
  <2>4. a = [q EXCEPT !.cx = x]
    BY <1>2, <1>5, <2>1 DEF Advanced
  <2>5. a \in ScrState /\ a.screen = q.screen /\ a.cy = q.cy /\ a.cx = x
    BY <2>3, <2>4 DEF ScrState
  <2>6. QED BY <1>2, <1>4, <2>3, <2>5
<1>6. ASSUME NEW u \in ScrState, u.screen = q.screen, u.cy = q.cy, u.opost = q.opost
      PROVE  /\ NewLine(u) \in ScrState /\ NewLine(u).screen = q.screen /\ NewLine(u).cy = y
             /\ NewLine(u).cx = IF u.opost THEN 0 ELSE u.cx
  <2>1. NewLine(u) = IF u.opost THEN [u EXCEPT !.cy = y, !.cx = 0] ELSE [u EXCEPT !.cy = y]
    BY <1>3, <1>6 DEF NewLine
  <2>2. y \in Int /\ 0 \in Int
    BY <1>4
  <2>3. CASE u.opost
    <3>1. NewLine(u) = [u EXCEPT !.cy = y, !.cx = 0]
      BY <2>1, <2>3
    <3>2. QED BY <1>6, <2>2, <2>3, <3>1 DEF ScrState
  <2>4. CASE ~u.opost
    <3>1. NewLine(u) = [u EXCEPT !.cy = y]
      BY <2>1, <2>4
    <3>2. QED BY <1>6, <2>2, <2>4, <3>1 DEF ScrState
  <2>5. QED BY <2>3, <2>4
<1>7. CASE c = "TAB"
  <2>1. PICK x : x = q.cx + TabStop - (q.cx % TabStop)
    OBVIOUS
  <2>2. x \in Int /\ x >= 0
    <3>1. TabStop \in Nat \ {0} /\ q.cx \in Nat
      BY <1>1, ScreenSizes
    <3>2. q.cx % TabStop \in 0..TabStop - 1
      BY <3>1
    <3>3. QED BY <1>1, <2>1, <3>1, <3>2
  <2>3. a = Tabbed(q)
    BY <1>2, <1>7 DEF Advanced
  <2>4. CASE x < Columns
    <3>1. a = [q EXCEPT !.cx = x]
      BY <2>1, <2>3, <2>4 DEF Tabbed
    <3>2. a \in ScrState /\ a.screen = q.screen /\ a.cy = q.cy /\ a.cx = x
      BY <2>2, <3>1 DEF ScrState
    <3>3. x \in 0..Columns - 1
      BY <1>1, <2>2, <2>4
    <3>4. QED BY <1>2, <1>4, <3>2, <3>3
  <2>5. CASE ~(x < Columns)
    <3>1. PICK u : u = [q EXCEPT !.cx = x]
      OBVIOUS
    <3>2. u \in ScrState /\ u.screen = q.screen /\ u.cy = q.cy /\ u.cx = x /\ u.opost = q.opost
      BY <2>2, <3>1 DEF ScrState
    <3>3. a = NewLine(u)
      BY <2>1, <2>3, <2>5, <3>1 DEF Tabbed
    <3>4. a \in ScrState /\ a.screen = q.screen /\ a.cy = y /\ a.cx = IF q.opost THEN 0 ELSE x
      BY <1>6, <3>2, <3>3
    <3>5. ~q.opost => RunsOut(q, c)
      BY <1>1, <1>7, <2>2, <2>3, <2>5, <3>4 DEF RunsOut
    <3>6. QED BY <1>2, <1>4, <3>4, <3>5
  <2>6. QED BY <2>4, <2>5
<1>8. CASE c = "NL"
  <2>1. a = NewLine(q)
    BY <1>2, <1>8 DEF Advanced
  <2>2. a \in ScrState /\ a.screen = q.screen /\ a.cy = y /\ a.cx = IF q.opost THEN 0 ELSE q.cx
    BY <1>6, <2>1
  <2>3. QED BY <1>2, <1>4, <2>2
<1>9. CASE c = "CR"
  <2>1. a = [q EXCEPT !.cx = 0]
    BY <1>2, <1>9 DEF Advanced
  <2>2. a \in ScrState /\ a.screen = q.screen /\ a.cy = q.cy /\ a.cx = 0
    BY <1>4, <2>1 DEF ScrState
  <2>3. QED BY <1>2, <1>4, <2>2
<1>10. CASE c \notin {"BS", "TAB", "NL", "CR"}
  <2>1. a = Printed(q)
    BY <1>2, <1>10 DEF Advanced
  <2>2. CASE q.cx + 1 = Columns
    <3>1. a = [q EXCEPT !.cx = 0, !.cy = y]
      BY <1>3, <2>1, <2>2 DEF Printed
    <3>2. a \in ScrState /\ a.screen = q.screen /\ a.cy = y /\ a.cx = 0
      BY <1>4, <3>1 DEF ScrState
    <3>3. QED BY <1>2, <1>4, <3>2
  <2>3. CASE q.cx + 1 # Columns
    <3>1. PICK x : x = q.cx + 1
      OBVIOUS
    <3>2. x \in Int /\ x \in 0..Columns - 1
      BY <1>1, <2>3, <3>1
    <3>3. a = [q EXCEPT !.cx = x]
      BY <2>1, <2>3, <3>1 DEF Printed
    <3>4. a \in ScrState /\ a.screen = q.screen /\ a.cy = q.cy /\ a.cx = x
      BY <3>2, <3>3 DEF ScrState
    <3>5. QED BY <1>2, <1>4, <3>2, <3>4
  <2>4. QED BY <2>2, <2>3
<1>11. QED BY <1>5, <1>7, <1>8, <1>9, <1>10

LEMMA EchoStep ==
  ASSUME ScrInv, NEW v \in Screens, NEW c, vtty_echo(v, c), OnScreen(scr[v]), UNCHANGED <<script, cvtty>>
  PROVE  ScrInv'
<1>1. PICK q : q = scr[v]
  OBVIOUS
<1>2. q \in ScrState /\ OnScreen(q) /\ q.screen = (IF Focused(v) THEN offset ELSE Buffer) /\ offset \in 0..VideoWrap + Columns - 1
  BY <1>1 DEF ScrInv
<1>3. PICK s : s = Advanced(q, c)
  OBVIOUS
<1>4. s \in ScrState /\ s.screen = q.screen /\ s.cy \in 0..Lines /\ (s.cx \in 0..Columns - 1 \/ RunsOut(q, c))
  BY <1>2, <1>3, AdvancedState
<1>5. PICK o : o = IF Overflows(s) /\ Focused(v) THEN ScrolledTo(offset) ELSE offset
  OBVIOUS
<1>6. o \in 0..VideoWrap + Columns - 1
  <2>1. ScrolledTo(offset) \in 0..VideoWrap + Columns - 1
    <3>1. offset \in Int /\ 0 <= offset
      BY <1>2, ScreenSizes
    <3>2. QED BY <3>1, ScreenSizes DEF ScrolledTo
  <2>2. QED BY <1>2, <1>5, <2>1
<1>7. PICK y : y = IF Overflows(s) THEN Lines - 1 ELSE s.cy
  OBVIOUS
<1>8. y \in Int /\ 0 <= y /\ y < Lines /\ y \in 0..Lines - 1
  BY <1>4, <1>7, ScreenSizes DEF Overflows
<1>9. PICK n : n = IF Overflows(s) /\ Focused(v) THEN o ELSE s.screen
  OBVIOUS
<1>10. n = (IF Focused(v) THEN o ELSE Buffer) /\ n \in Int
  <2>1. n = (IF Focused(v) THEN o ELSE Buffer)
    BY <1>2, <1>4, <1>5, <1>9
  <2>2. o \in Int /\ Buffer \in Int
    BY <1>6, ScreenSizes DEF Buffer
  <2>3. QED BY <2>1, <2>2
<1>11. PICK t : t = [s EXCEPT !.cy = y, !.screen = n]
  OBVIOUS
<1>12. t \in ScrState /\ t.cx = s.cx /\ t.cy = y /\ t.screen = n
  BY <1>4, <1>8, <1>10, <1>11 DEF ScrState
<1>13. /\ scr' = [scr EXCEPT ![v] = t] /\ offset' = o /\ vtty_cursormove(v, t, o)
       /\ astray' = IF RunsOut(q, c) THEN astray \cup {v} ELSE astray
  BY <1>1, <1>3, <1>5, <1>7, <1>9, <1>11 DEF vtty_echo
<1>14. v \notin astray' => OnScreen(t)
  <2>1. v \notin astray' => s.cx \in 0..Columns - 1
    BY <1>4, <1>13
  <2>2. QED BY <1>8, <1>12, <2>1 DEF OnScreen
<1>15. Focused(v) /\ v \notin astray' => shown' = o + Cell(t)
  <2>1. OnScreen(t) => t.cx < Columns /\ t.cy < Lines
    BY ScreenSizes DEF OnScreen
  <2>2. QED BY <1>13, <1>14, <2>1 DEF vtty_cursormove
<1>16. ~Focused(v) => shown' = shown /\ o = offset
  BY <1>5, <1>13 DEF vtty_cursormove
<1>17. astray \subseteq astray' /\ t.screen = IF Focused(v) THEN o ELSE Buffer
  BY <1>10, <1>12, <1>13
<1>18. QED BY <1>6, <1>12, <1>13, <1>14, <1>15, <1>16, <1>17, ScrStep

LEMMA FocusStep ==
  ASSUME ScrInv, NEW v \in Screens, keyboard_interrupt(v)
  PROVE  ScrInv'
<1>1. PICK a : a = [scr[cvtty] EXCEPT !.screen = Buffer]
  OBVIOUS
<1>2. PICK b : b = [scr[v] EXCEPT !.screen = 0]
  OBVIOUS
<1>3. scr \in [Screens -> ScrState] /\ cvtty \in Screens /\ v # cvtty
  BY DEF ScrInv, keyboard_interrupt
<1>4. /\ a \in ScrState /\ a.cx = scr[cvtty].cx /\ a.cy = scr[cvtty].cy /\ a.screen = Buffer
      /\ b \in ScrState /\ b.cx = scr[v].cx /\ b.cy = scr[v].cy /\ b.screen = 0
  <2>1. Buffer \in Int /\ 0 \in Int
    BY DEF Buffer
  <2>2. QED BY <1>1, <1>2, <1>3, <2>1 DEF ScrState
<1>5. scr' = [scr EXCEPT ![cvtty] = a, ![v] = b]
  BY <1>1, <1>2, <1>3 DEF keyboard_interrupt
<1>6. /\ scr' \in [Screens -> ScrState] /\ scr'[v] = b /\ scr'[cvtty] = a
      /\ \A w \in Screens : w \notin {v, cvtty} => scr'[w] = scr[w]
  BY <1>3, <1>4, <1>5
<1>7. cvtty' = v /\ offset' = 0 /\ UNCHANGED <<script, astray>>
      /\ shown' = IF scr[v].cx < Columns THEN Cell(scr[v]) ELSE shown
  BY DEF keyboard_interrupt
<1>8. \A w \in Screens : scr'[w].cx = scr[w].cx /\ scr'[w].cy = scr[w].cy
  BY <1>4, <1>6
<1>9. \A w \in Screens : w \notin astray' => OnScreen(scr'[w])
  BY <1>7, <1>8 DEF OnScreen, ScrInv
<1>10. \A w \in Screens : scr'[w].screen = IF cvtty' = w THEN offset' ELSE Buffer
  BY <1>3, <1>4, <1>6, <1>7 DEF ScrInv, Focused
<1>11. cvtty' \notin astray' => shown' = offset' + Cell(scr'[cvtty'])
  <2>1. ASSUME v \notin astray PROVE shown' = 0 + Cell(b)
    <3>1. OnScreen(scr[v]) /\ Cell(b) = Cell(scr[v])
      BY <1>4, <2>1 DEF ScrInv, Cell
    <3>2. scr[v].cx < Columns /\ scr[v].cx \in Int /\ scr[v].cy \in Int
      BY <1>3, <3>1, ScreenSizes DEF OnScreen, ScrState
    <3>3. Cell(scr[v]) \in Int
      BY <3>2, ScreenSizes DEF Cell
    <3>4. QED BY <1>7, <3>1, <3>2, <3>3
  <2>2. QED BY <1>6, <1>7, <2>1
<1>12. script' \in Scripts /\ cvtty' \in Screens /\ offset' \in 0..VideoWrap + Columns - 1
  BY <1>7, ScreenSizes DEF ScrInv
<1>13. QED BY <1>6, <1>9, <1>10, <1>11, <1>12 DEF ScrInv, Focused

LEMMA ScrNext_Inv ==
  ASSUME ScrInv, [ScrNext]_scrVars
  PROVE  ScrInv'
<1>1. CASE UNCHANGED scrVars
  BY <1>1 DEF scrVars, ScrInv, Focused
<1>2. ASSUME NEW v \in Screens, NEW c, vtty_outchar(v, c) PROVE ScrInv'
  <2>1. OnScreen(scr[v]) /\ UNCHANGED <<script, cvtty>>
    BY <1>2 DEF vtty_outchar
  <2>2. CASE Escape(v) /\ UNCHANGED <<offset, shown, astray>>
    BY <2>1, <2>2, QuietStep
  <2>3. CASE vtty_echo(v, c)
    BY <2>1, <2>3, EchoStep
  <2>4. CASE Announce(v, c) /\ UNCHANGED <<offset, shown, astray>>
    BY <2>1, <2>4, QuietStep
  <2>5. CASE Capable(v, c) /\ UNCHANGED offset
    <3>1. CASE vtty_cm(v, c)
      BY <2>1, <2>5, <3>1, CmStep
    <3>2. CASE vtty_cc(v, c) /\ UNCHANGED astray
      BY <2>1, <2>5, <3>2, CcStep
    <3>3. CASE vtty_clear(v, c) /\ UNCHANGED astray
      BY <2>1, <2>5, <3>3, ClearStep
    <3>4. CASE vtty_color(v, c) /\ UNCHANGED <<shown, astray>>
      BY <2>1, <2>5, <3>4, QuietStep
    <3>5. CASE OneMore(v) /\ UNCHANGED <<shown, astray>>
      BY <2>1, <2>5, <3>5, QuietStep
    <3>6. QED BY <2>5, <3>1, <3>2, <3>3, <3>4, <3>5, Zenon DEF Capable
  <2>6. QED BY <1>2, <2>2, <2>3, <2>4, <2>5, Zenon DEF vtty_outchar
<1>3. ASSUME NEW c, KeyEcho(c) PROVE ScrInv'
  BY <1>3, EchoStep DEF KeyEcho, ScrInv
<1>4. ASSUME NEW v \in Screens, SetOpost(v) PROVE ScrInv'
  <2>1. UNCHANGED <<script, cvtty, offset, shown, astray>>
    BY <1>4 DEF SetOpost
  <2>2. QED BY <1>4, <2>1, QuietStep
<1>5. CASE ScrNext
  <2>1. \A v \in script.writers : v \in Screens
    BY ScreenSizes DEF ScrInv
  <2>2. QED BY <1>2, <1>3, <1>4, <1>5, <2>1, FocusStep DEF ScrNext
<1>6. QED BY <1>1, <1>5

(***************************************************************************)
(* The keyboard.                                                           *)
(***************************************************************************)
Mods == DOMAIN Modifiers
Silent == Mods \cup LockKeys          \* keys that send nothing

\* What holds when all codes have come.
Settled == sent = due /\ lr = held \cap Mods /\ (~switched => mods = Holding(held))

\* What holds while the code that counts, that of k, has not come.
Awaits(k, up) ==
  /\ IF up THEN k \notin held ELSE k \notin {"pause"} => k \in held
  /\ IF k \in Mods THEN lr = (IF up THEN held \cup {k} ELSE held \ {k}) \cap Mods
                   ELSE lr = held \cap Mods /\ (~switched => mods = Holding(held))
  /\ IF up \/ k \in Silent THEN sent = due ELSE due = Sends(k, mods)

Code(k, up) == [key |-> k, up |-> up]

\* The codes that are left, after a prefix or not.
PauseLeft == igncnt = 0 /\ ~E0_received /\ wire = <<E1, Down("l_ctrl"), Down("numlock"), E1, Up("l_ctrl"), Up("numlock")>>
ShiftLeft(k) == /\ igncnt = 0 /\ k = "arrow"
                /\ \/ ~E0_received /\ wire = <<E0, Down("l_shift"), E0, Down("pad")>>
                   \/ E0_received /\ wire = <<Down("l_shift"), E0, Down("pad")>>
TwinLeft(k, up) == /\ igncnt = 0 /\ k \in Extended
                   /\ \/ ~E0_received /\ wire = <<E0, Code(Twin(k), up)>>
                      \/ E0_received /\ wire = <<Code(Twin(k), up)>>
                      \/ ~E0_received /\ wire = <<E0, Up(Twin(k)), E0, Up("l_shift")>> /\ up
                      \/ E0_received /\ wire = <<Up(Twin(k)), E0, Up("l_shift")>> /\ up
PlainLeft(k, up) == igncnt = 0 /\ ~E0_received /\ k \notin Extended \cup {"pause"} /\ wire = <<Code(k, up)>>
NothingLeft == /\ \/ igncnt = 0 /\ ~E0_received /\ wire = <<>>
                  \/ igncnt = 0 /\ ~E0_received /\ wire = <<E0, Up("l_shift")>>
                  \/ igncnt = 0 /\ E0_received /\ wire = <<Up("l_shift")>>
                  \/ ~E0_received /\ igncnt \in 1..5 /\ wire \in Seq({Code(k, up) : k \in {"E1", "l_ctrl", "numlock"}, up \in BOOLEAN})
                     /\ Len(wire) = igncnt

Plain2(k) == k \notin {"E0", "E1", "none"}

KeyInv ==
  /\ keymenu \in KeyMenu /\ "pause" \notin held
  /\ \/ Settled /\ NothingLeft
     \/ Awaits("pause", FALSE) /\ PauseLeft
     \/ \E k \in keymenu, up \in BOOLEAN :
           Awaits(k, up) /\ ((~up /\ ShiftLeft(k)) \/ TwinLeft(k, up) \/ PlainLeft(k, up))

LEMMA KeyInv_Exact ==
  ASSUME KeyInv
  PROVE  KeysExact
<1>1. ASSUME wire = <<>>
      PROVE  Settled /\ igncnt = 0 /\ ~E0_received
  <2>1. \A a, b, c, d, e, f : /\ <<>> # <<a>> /\ <<>> # <<a, b>> /\ <<>> # <<a, b, c>> /\ <<>> # <<a, b, c, d>>
                              /\ <<>> # <<a, b, c, d, e, f>>
    OBVIOUS
  <2>2. ~PauseLeft /\ \A k, up : ~ShiftLeft(k) /\ ~TwinLeft(k, up) /\ ~PlainLeft(k, up)
    BY <1>1, <2>1 DEF PauseLeft, ShiftLeft, TwinLeft, PlainLeft
  <2>3. Settled /\ NothingLeft
    BY <2>2 DEF KeyInv
  <2>4. Len(<<>>) = 0 /\ 0 \notin 1..5
    OBVIOUS
  <2>5. QED BY <1>1, <2>1, <2>3, <2>4 DEF NothingLeft
<1>2. QED BY <1>1 DEF KeysExact, Settled, Mods

LEMMA KeyInit_Inv ==
  ASSUME KeyInit
  PROVE  KeyInv
<1>1. Holding({}) = {}
  BY DEF Holding
<1>2. Settled /\ NothingLeft
  BY <1>1 DEF KeyInit, Settled, NothingLeft
<1>3. QED BY <1>2 DEF KeyInit, KeyInv

LEMMA ModsAre ==
  /\ Mods = {"l_ctrl", "r_ctrl", "l_shift", "r_shift", "l_alt", "r_alt"}
  /\ Mods \cap LockKeys = {}
  /\ {"E0", "E1", "none", "pause", "arrow", "pad"} \cap Silent = {}
BY DEF Mods, Modifiers, LockKeys, Silent

\* What is held with the modifiers alone is what is held.
LEMMA HoldingMods ==
  ASSUME NEW S
  PROVE  Holding(S \cap Mods) = Holding(S)
BY DEF Holding, Mods

\* The code that counts comes.
LEMMA KeyArrives ==
  ASSUME NEW c, c # E1, NEW k, NEW up \in BOOLEAN, c.up = up, Meant(c) = k, Awaits(k, up), Plain2(k),
         Decode(c), UNCHANGED <<held, due>>
  PROVE  Settled' /\ igncnt' = igncnt
<1>1. /\ igncnt' = igncnt
      /\ CASE k \in Mods -> Modify(k, up) /\ UNCHANGED <<lock, savedkeys, keytty, sent>>
           [] k \in LockKeys /\ ~up -> /\ lock' = (lock \ {k}) \cup ({k} \ lock)
                                       /\ UNCHANGED <<lr, mods, savedkeys, keytty, sent, switched>>
           [] k \notin Mods \cup LockKeys \cup {"E0", "none"} /\ ~up -> Key(k)
           [] OTHER -> Stay /\ UNCHANGED <<lr, sent>>
  BY Zenon DEF Decode, Mods
<1>2. CASE k \in Mods
  <2>1. Modify(k, up) /\ sent' = sent /\ sent = due
    BY <1>1, <1>2, ModsAre DEF Awaits, Silent
  <2>2. lr' = held \cap Mods
    BY <1>2, <2>1, ModsAre DEF Modify, Awaits
  <2>3. mods' = Holding(held)
    BY <2>1, <2>2, HoldingMods DEF Modify
  <2>4. QED BY <1>1, <2>1, <2>2, <2>3 DEF Settled
<1>3. ASSUME k \notin Mods
      PROVE  lr = held \cap Mods /\ (~switched => mods = Holding(held))
  BY <1>3 DEF Awaits
<1>4. CASE k \in LockKeys /\ ~up
  <2>1. UNCHANGED <<lr, mods, sent, switched>> /\ k \notin Mods
    BY <1>1, <1>4, ModsAre
  <2>2. sent = due
    BY <1>4 DEF Awaits, Silent
  <2>3. QED BY <1>1, <1>3, <2>1, <2>2 DEF Settled
<1>5. CASE k \notin Silent /\ ~up
  <2>1. Key(k)
    BY <1>1, <1>5 DEF Silent, Plain2
  <2>2. due = Sends(k, mods) /\ k \notin Mods
    BY <1>5 DEF Awaits, Silent
  <2>3. sent' = due' /\ lr' = lr
    BY <2>1, <2>2 DEF Key
  <2>4. switched' \/ UNCHANGED <<mods, switched>>
    BY <2>1 DEF Key, vtty_setfocus, Stay
  <2>5. QED BY <1>1, <1>3, <2>2, <2>3, <2>4 DEF Settled
<1>6. CASE k \notin Mods /\ up
  <2>1. Stay /\ UNCHANGED <<lr, sent>> /\ sent = due
    BY <1>1, <1>6 DEF Awaits
  <2>2. QED BY <1>1, <1>3, <1>6, <2>1 DEF Settled, Stay
<1>7. QED BY <1>2, <1>4, <1>5, <1>6 DEF Silent

\* A code that means nothing by itself comes.
LEMMA NothingArrives ==
  ASSUME NEW c, c # E1, Meant(c) \in {"E0", "none"}, Decode(c), UNCHANGED <<held, due>>
  PROVE  /\ igncnt' = igncnt /\ E0_received' = (c = E0)
         /\ Settled => Settled'
         /\ \A k, up : Awaits(k, up) => Awaits(k, up)'
<1>1. E0_received' = (c = E0) /\ igncnt' = igncnt /\ Stay /\ UNCHANGED <<lr, sent>>
  <2>1. Meant(c) \notin Mods \cup LockKeys
    BY ModsAre DEF Silent
  <2>2. QED BY <2>1, Zenon DEF Decode, Mods
<1>2. UNCHANGED <<mods, lock, switched, lr, sent, held, due>>
  BY <1>1 DEF Stay
<1>3. \A k : Sends(k, mods)' = Sends(k, mods)
  BY <1>2 DEF Sends, Table
<1>4. QED BY <1>1, <1>2, <1>3 DEF Settled, Awaits

LEMMA CodesOf ==
  /\ E0 # E1 /\ \A k, up : k # "E1" => Code(k, up) # E1
  /\ \A k, up : k # "E0" => Code(k, up) # E0
  /\ \A k : Down(k) = Code(k, FALSE) /\ Up(k) = Code(k, TRUE)
  /\ \A k, up : Code(k, up).key = k /\ Code(k, up).up = up
  /\ E0 = Code("E0", FALSE) /\ E1 = Code("E1", FALSE)
BY DEF E0, E1, Code, Down, Up

LEMMA MeantBy ==
  /\ ~E0_received => \A k, up : Meant(Code(k, up)) = k
  /\ E0_received => /\ \A k \in Extended, up \in BOOLEAN : Meant(Code(Twin(k), up)) = k
                    /\ \A up \in BOOLEAN : Meant(Code("l_shift", up)) = "none"
<1>1. ~E0_received => \A k, up : Meant(Code(k, up)) = k
  BY CodesOf DEF Meant
<1>2. Twin("r_ctrl") = "l_ctrl" /\ Twin("r_alt") = "l_alt" /\ Twin("arrow") = "pad"
  BY DEF Twin
<1>3. ASSUME E0_received, NEW up \in BOOLEAN
      PROVE  /\ Meant(Code("l_ctrl", up)) = "r_ctrl" /\ Meant(Code("l_alt", up)) = "r_alt"
             /\ Meant(Code("pad", up)) = "arrow" /\ Meant(Code("l_shift", up)) = "none"
  BY <1>3, CodesOf DEF Meant
<1>4. QED BY <1>1, <1>2, <1>3 DEF Extended

LEMMA CodesComing ==
  ASSUME NEW a, NEW b, NEW c, NEW d
  PROVE  /\ Head(<<a>>) = a /\ Tail(<<a>>) = <<>>
         /\ Head(<<a, b>>) = a /\ Tail(<<a, b>>) = <<b>>
         /\ Head(<<a, b, c>>) = a /\ Tail(<<a, b, c>>) = <<b, c>>
         /\ Head(<<a, b, c, d>>) = a /\ Tail(<<a, b, c, d>>) = <<b, c, d>>
OBVIOUS

LEMMA PauseArrives ==
  ASSUME Awaits("pause", FALSE), PauseLeft, ScanCode
  PROVE  Settled' /\ NothingLeft'
<1> DEFINE K == {Code(k, up) : k \in {"E1", "l_ctrl", "numlock"}, up \in BOOLEAN}
<1>1. Head(wire) = E1 /\ Tail(wire) = <<Down("l_ctrl"), Down("numlock"), E1, Up("l_ctrl"), Up("numlock")>>
  BY DEF PauseLeft
<1>2. igncnt' = 5 /\ Key("pause") /\ E0_received' = E0_received /\ ~E0_received /\ UNCHANGED <<held, due>>
  BY <1>1, Zenon DEF ScanCode, PauseLeft, Decode
<1>3. wire' = <<Down("l_ctrl"), Down("numlock"), E1, Up("l_ctrl"), Up("numlock")>>
  BY <1>1 DEF ScanCode
<1>4. "pause" \notin Silent /\ "pause" \notin Mods
  BY ModsAre DEF Silent
<1>5. due = Sends("pause", mods) /\ lr = held \cap Mods /\ (~switched => mods = Holding(held))
  BY <1>4 DEF Awaits
<1>6. Settled'
  BY <1>2, <1>5 DEF Key, vtty_setfocus, Stay, Settled
<1>7. Down("l_ctrl") \in K /\ Down("numlock") \in K /\ E1 \in K /\ Up("l_ctrl") \in K /\ Up("numlock") \in K
  <2>1. \A k \in {"E1", "l_ctrl", "numlock"}, up \in BOOLEAN : Code(k, up) \in K
    OBVIOUS
  <2> HIDE DEF K
  <2>2. QED BY <2>1, CodesOf
<1>8. \A a, b, c, d, f \in K : <<a, b, c, d, f>> \in Seq(K) /\ Len(<<a, b, c, d, f>>) = 5
  <2> HIDE DEF K
  <2>1. QED OBVIOUS
<1>9. wire' \in Seq(K) /\ Len(wire') = 5
  BY <1>3, <1>7, <1>8
<1>10. NothingLeft'
  BY <1>2, <1>9 DEF NothingLeft
<1>11. QED BY <1>6, <1>10

LEMMA RestArrives ==
  ASSUME Settled, NothingLeft, ScanCode
  PROVE  Settled' /\ NothingLeft'
<1>1. wire # <<>> /\ wire' = Tail(wire) /\ UNCHANGED <<held, due>>
  BY DEF ScanCode
<1>2. CASE igncnt = 0 /\ ~E0_received /\ wire = <<E0, Up("l_shift")>>
  <2>1. Head(wire) = E0 /\ wire' = <<Up("l_shift")>> /\ Decode(E0)
    BY <1>1, <1>2, CodesComing DEF ScanCode
  <2>2. E0 # E1 /\ Meant(E0) = "E0"
    BY <1>2, CodesOf, MeantBy
  <2>3. igncnt' = igncnt /\ E0_received' = TRUE /\ Settled'
    BY <1>1, <2>1, <2>2, NothingArrives
  <2>4. QED BY <1>2, <2>1, <2>3 DEF NothingLeft
<1>3. CASE igncnt = 0 /\ E0_received /\ wire = <<Up("l_shift")>>
  <2>1. Head(wire) = Up("l_shift") /\ wire' = <<>> /\ Decode(Up("l_shift"))
    BY <1>1, <1>3, CodesComing DEF ScanCode
  <2>2. Up("l_shift") # E1 /\ Up("l_shift") # E0 /\ Meant(Up("l_shift")) = "none"
    BY <1>3, CodesOf, MeantBy
  <2>3. igncnt' = igncnt /\ E0_received' = FALSE /\ Settled'
    BY <1>1, <2>1, <2>2, NothingArrives
  <2>4. QED BY <1>3, <2>1, <2>3 DEF NothingLeft
<1>4. CASE ~E0_received /\ igncnt \in 1..5 /\ Len(wire) = igncnt
           /\ wire \in Seq({Code(k, up) : k \in {"E1", "l_ctrl", "numlock"}, up \in BOOLEAN})
  <2> DEFINE K == {Code(k, up) : k \in {"E1", "l_ctrl", "numlock"}, up \in BOOLEAN}
  <2>1. igncnt' = igncnt - 1 /\ Stay /\ UNCHANGED <<E0_received, lr, sent>>
    BY <1>4 DEF ScanCode
  <2>2. Settled'
    BY <1>1, <2>1 DEF Settled, Stay
  <2>3. wire \in Seq(K)
    BY <1>4
  <2> HIDE DEF K
  <2>4. wire' \in Seq(K) /\ Len(wire') = igncnt - 1
    BY <1>1, <1>4, <2>3
  <2>5. CASE igncnt = 1
    <3>1. wire' = <<>> /\ igncnt' = 0
      BY <2>1, <2>4, <2>5
    <3>2. QED BY <1>4, <2>1, <2>2, <3>1 DEF NothingLeft
  <2>6. CASE igncnt # 1
    <3>1. igncnt' \in 1..5 /\ Len(wire') = igncnt'
      BY <1>4, <2>1, <2>4, <2>6
    <3>2. QED BY <1>4, <2>1, <2>2, <2>4, <3>1 DEF NothingLeft, K
  <2>7. QED BY <2>5, <2>6
<1>5. QED BY <1>1, <1>2, <1>3, <1>4 DEF NothingLeft

\* The shift that is not pressed comes before an arrow.
LEMMA ShiftArrives ==
  ASSUME NEW k, Awaits(k, FALSE), ShiftLeft(k), ScanCode
  PROVE  Awaits(k, FALSE)' /\ (ShiftLeft(k)' \/ TwinLeft(k, FALSE)')
<1>1. wire' = Tail(wire) /\ UNCHANGED <<held, due>> /\ igncnt = 0 /\ k = "arrow"
  BY DEF ScanCode, ShiftLeft
<1>2. CASE ~E0_received /\ wire = <<E0, Down("l_shift"), E0, Down("pad")>>
  <2>1. Head(wire) = E0 /\ wire' = <<Down("l_shift"), E0, Down("pad")>>
    BY <1>1, <1>2, CodesComing
  <2>2. Decode(E0)
    BY <1>1, <2>1 DEF ScanCode
  <2>3. E0 # E1 /\ Meant(E0) = "E0"
    BY <1>2, CodesOf, MeantBy
  <2>4. igncnt' = igncnt /\ E0_received' = TRUE /\ Awaits(k, FALSE)'
    BY <1>1, <2>2, <2>3, NothingArrives
  <2>5. QED BY <1>1, <2>1, <2>4 DEF ShiftLeft
<1>3. CASE E0_received /\ wire = <<Down("l_shift"), E0, Down("pad")>>
  <2>1. Head(wire) = Down("l_shift") /\ wire' = <<E0, Down("pad")>>
    BY <1>1, <1>3, CodesComing
  <2>2. Decode(Down("l_shift"))
    BY <1>1, <2>1 DEF ScanCode
  <2>3. Down("l_shift") # E1 /\ Down("l_shift") # E0 /\ Meant(Down("l_shift")) = "none"
    BY <1>3, CodesOf, MeantBy
  <2>4. igncnt' = igncnt /\ E0_received' = FALSE /\ Awaits(k, FALSE)'
    BY <1>1, <2>2, <2>3, NothingArrives
  <2>5. Down("pad") = Code(Twin(k), FALSE) /\ k \in Extended
    BY <1>1, CodesOf DEF Twin, Extended
  <2>6. QED BY <1>1, <2>1, <2>4, <2>5 DEF TwinLeft
<1>4. QED BY <1>2, <1>3 DEF ShiftLeft

LEMMA TwinArrives ==
  ASSUME NEW k, NEW up \in BOOLEAN, Awaits(k, up), TwinLeft(k, up), ScanCode
  PROVE  (Awaits(k, up)' /\ TwinLeft(k, up)') \/ (Settled' /\ NothingLeft')
<1>1. wire' = Tail(wire) /\ UNCHANGED <<held, due>> /\ igncnt = 0 /\ k \in Extended
  BY DEF ScanCode, TwinLeft
<1>2. ASSUME NEW c, c = Head(wire) PROVE Decode(c)
  BY <1>1, <1>2 DEF ScanCode
<1>3. CASE ~E0_received
  <2>1. Head(wire) = E0 /\ (wire' = <<Code(Twin(k), up)>> \/ (wire' = <<Up(Twin(k)), E0, Up("l_shift")>> /\ up))
    <3>1. CASE wire = <<E0, Code(Twin(k), up)>>
      BY <1>1, <3>1, CodesComing
    <3>2. CASE wire = <<E0, Up(Twin(k)), E0, Up("l_shift")>> /\ up
      <4>1. PICK u : u = Up(Twin(k))
        OBVIOUS
      <4>2. PICK w : w = Up("l_shift")
        OBVIOUS
      <4>3. PICK x : x = E0
        OBVIOUS
      <4>4. wire = <<x, u, x, w>>
        BY <3>2, <4>1, <4>2, <4>3
      <4>5. Head(wire) = x /\ Tail(wire) = <<u, x, w>>
        BY <4>4, CodesComing
      <4>6. QED BY <1>1, <3>2, <4>1, <4>2, <4>3, <4>5
    <3>3. QED BY <1>3, <3>1, <3>2, Zenon DEF TwinLeft
  <2>2. E0 # E1 /\ Meant(E0) = "E0" /\ Decode(E0)
    BY <1>2, <1>3, <2>1, CodesOf, MeantBy
  <2>3. igncnt' = igncnt /\ E0_received' = TRUE /\ Awaits(k, up)'
    BY <1>1, <2>2, NothingArrives
  <2>4. QED BY <1>1, <2>1, <2>3 DEF TwinLeft
<1>4. CASE E0_received
  <2>1. PICK c : c = Code(Twin(k), up)
    OBVIOUS
  <2>2. up => Up(Twin(k)) = c
    BY <2>1, CodesOf
  <2>3. Head(wire) = c /\ (wire' = <<>> \/ wire' = <<E0, Up("l_shift")>>)
    <3>1. CASE wire = <<Code(Twin(k), up)>>
      BY <1>1, <2>1, <3>1, CodesComing
    <3>2. CASE wire = <<Up(Twin(k)), E0, Up("l_shift")>> /\ up
      BY <1>1, <2>2, <3>2, CodesComing
    <3>3. QED BY <1>4, <3>1, <3>2, Zenon DEF TwinLeft
  <2>4. Twin(k) \notin {"E0", "E1"} /\ Plain2(k)
    <3>1. \/ k = "r_ctrl" /\ Twin(k) = "l_ctrl"
          \/ k = "r_alt" /\ Twin(k) = "l_alt"
          \/ k = "arrow" /\ Twin(k) = "pad"
      BY <1>1 DEF Extended, Twin
    <3>2. QED BY <3>1 DEF Plain2
  <2>5. c # E1 /\ c # E0 /\ c.up = up /\ Meant(c) = k
    BY <1>1, <1>4, <2>1, <2>4, CodesOf, MeantBy
  <2>6. Decode(c)
    BY <1>2, <2>3
  <2>7. Settled' /\ igncnt' = igncnt
    BY <1>1, <2>4, <2>5, <2>6, KeyArrives
  <2>8. E0_received' = FALSE
    BY <2>5, <2>6, Zenon DEF Decode
  <2>9. QED BY <1>1, <2>3, <2>7, <2>8 DEF NothingLeft
<1>5. QED BY <1>3, <1>4

LEMMA PlainArrives ==
  ASSUME NEW k, NEW up \in BOOLEAN, Plain2(k), Awaits(k, up), PlainLeft(k, up), ScanCode
  PROVE  Settled' /\ NothingLeft'
<1>1. PICK c : c = Code(k, up)
  OBVIOUS
<1>2. Head(wire) = c /\ wire' = <<>> /\ igncnt = 0 /\ ~E0_received /\ UNCHANGED <<held, due>>
  BY <1>1, CodesComing DEF PlainLeft, ScanCode
<1>3. c # E1 /\ c # E0 /\ c.up = up /\ Meant(c) = k
  BY <1>1, <1>2, CodesOf, MeantBy DEF Plain2
<1>4. Decode(c)
  BY <1>2 DEF ScanCode
<1>5. Settled' /\ igncnt' = igncnt
  BY <1>2, <1>3, <1>4, KeyArrives
<1>6. E0_received' = FALSE
  BY <1>3, <1>4, Zenon DEF Decode
<1>7. QED BY <1>2, <1>5, <1>6 DEF NothingLeft

\* The codes that a key sends when it goes down, and up.
LEMMA WireOf ==
  ASSUME NEW k
  PROVE  /\ k = "pause" => Pressed(k) = <<E1, Down("l_ctrl"), Down("numlock"), E1, Up("l_ctrl"), Up("numlock")>>
         /\ k \in Extended => Pressed(k) = <<E0, Code(Twin(k), FALSE)>>
                             \/ (Pressed(k) = <<E0, Down("l_shift"), E0, Down("pad")>> /\ k = "arrow")
         /\ k \in Extended => Released(k) = <<E0, Code(Twin(k), TRUE)>>
                             \/ Released(k) = <<E0, Up(Twin(k)), E0, Up("l_shift")>>
         /\ k \notin Extended \cup {"pause"} => Pressed(k) = <<Code(k, FALSE)>> /\ Released(k) = <<Code(k, TRUE)>>
<1>1. ASSUME NEW a, NEW b, NEW c, NEW d
      PROVE  <<>> \o <<a, b>> = <<a, b>> /\ <<a, b>> \o <<>> = <<a, b>> /\ <<a, b>> \o <<c, d>> = <<a, b, c, d>>
  <2>1. <<>> \o <<a, b>> = <<a, b>>
    OBVIOUS
  <2>2. <<a, b>> \o <<>> = <<a, b>>
    OBVIOUS
  <2>3. <<a, b>> \o <<c, d>> = <<a, b, c, d>>
    <3>1. PICK S : S = {a, b, c, d}
      OBVIOUS
    <3>2. a \in S /\ b \in S /\ c \in S /\ d \in S
      BY <3>1
    <3>3. PICK q : q = <<a, b>>
      OBVIOUS
    <3>4. PICK r : r = <<c, d>>
      OBVIOUS
    <3>5. PICK s : s = <<a, b, c, d>>
      OBVIOUS
    <3>6. q \in Seq(S) /\ Len(q) = 2 /\ q[1] = a /\ q[2] = b
      BY <3>2, <3>3
    <3>7. r \in Seq(S) /\ Len(r) = 2 /\ r[1] = c /\ r[2] = d
      BY <3>2, <3>4
    <3>8. s \in Seq(S) /\ Len(s) = 4 /\ s[1] = a /\ s[2] = b /\ s[3] = c /\ s[4] = d
      BY <3>2, <3>5
    <3>9. \A i \in 1..2 : i = 1 \/ i = 2
      OBVIOUS
    <3>10. 2 + 1 = 3 /\ 2 + 2 = 4
      OBVIOUS
    <3>11. Len(s) = Len(q) + Len(r) /\ (\A i \in 1..Len(q) : s[i] = q[i]) /\ \A i \in 1..Len(r) : s[Len(q) + i] = r[i]
      BY <3>6, <3>7, <3>8, <3>9, <3>10
    <3>12. s = q \o r
      BY <3>6, <3>7, <3>8, <3>11, TwoParts
    <3>13. QED BY <3>3, <3>4, <3>5, <3>12
  <2>4. QED BY <2>1, <2>2, <2>3
<1>2. k = "pause" => Pressed(k) = <<E1, Down("l_ctrl"), Down("numlock"), E1, Up("l_ctrl"), Up("numlock")>>
  <2>1. k = "pause" => k \notin Extended
    BY DEF Extended
  <2>2. QED BY <2>1, Zenon DEF Pressed
<1>3. ASSUME k \in Extended
      PROVE  \/ Pressed(k) = <<E0, Code(Twin(k), FALSE)>>
             \/ Pressed(k) = <<E0, Down("l_shift"), E0, Down("pad")>> /\ k = "arrow"
  <2>1. k # "pause"
    BY <1>3 DEF Extended
  <2>2. Pressed(k) = (IF k = "arrow" /\ "numlock" \in lock THEN <<E0, Down("l_shift")>> ELSE <<>>) \o <<E0, Down(Twin(k))>>
    BY <1>3, <2>1 DEF Pressed
  <2>3. Down(Twin(k)) = Code(Twin(k), FALSE) /\ (k = "arrow" => Down(Twin(k)) = Down("pad"))
    BY CodesOf DEF Twin
  <2>4. CASE k = "arrow" /\ "numlock" \in lock
    <3>1. Pressed(k) = <<E0, Down("l_shift")>> \o <<E0, Down("pad")>>
      BY <2>2, <2>3, <2>4
    <3>2. PICK u : u = Down("l_shift")
      OBVIOUS
    <3>3. PICK w : w = Down("pad")
      OBVIOUS
    <3>4. PICK x : x = E0
      OBVIOUS
    <3>5. <<x, u>> \o <<x, w>> = <<x, u, x, w>>
      BY <1>1
    <3>6. QED BY <2>4, <3>1, <3>2, <3>3, <3>4, <3>5
  <2>5. CASE ~(k = "arrow" /\ "numlock" \in lock)
    <3>1. Pressed(k) = <<>> \o <<E0, Code(Twin(k), FALSE)>>
      BY <2>2, <2>3, <2>5
    <3>2. QED BY <1>1, <3>1
  <2>6. QED BY <2>4, <2>5
<1>4. ASSUME k \in Extended
      PROVE  \/ Released(k) = <<E0, Code(Twin(k), TRUE)>>
             \/ Released(k) = <<E0, Up(Twin(k)), E0, Up("l_shift")>>
  <2>1. k # "pause"
    BY <1>4 DEF Extended
  <2>2. Released(k) = <<E0, Up(Twin(k))>> \o (IF k = "arrow" /\ "numlock" \in lock THEN <<E0, Up("l_shift")>> ELSE <<>>)
    BY <1>4, <2>1 DEF Released
  <2>3. Up(Twin(k)) = Code(Twin(k), TRUE)
    BY CodesOf
  <2>4. CASE k = "arrow" /\ "numlock" \in lock
    <3>1. Released(k) = <<E0, Up(Twin(k))>> \o <<E0, Up("l_shift")>>
      BY <2>2, <2>4
    <3>2. PICK u : u = Up(Twin(k))
      OBVIOUS
    <3>3. PICK w : w = Up("l_shift")
      OBVIOUS
    <3>4. PICK x : x = E0
      OBVIOUS
    <3>5. <<x, u>> \o <<x, w>> = <<x, u, x, w>>
      BY <1>1
    <3>6. QED BY <3>1, <3>2, <3>3, <3>4, <3>5
  <2>5. CASE ~(k = "arrow" /\ "numlock" \in lock)
    <3>1. Released(k) = <<E0, Code(Twin(k), TRUE)>> \o <<>>
      BY <2>2, <2>3, <2>5
    <3>2. QED BY <1>1, <3>1
  <2>6. QED BY <2>4, <2>5
<1>5. k \notin Extended \cup {"pause"} => Pressed(k) = <<Code(k, FALSE)>> /\ Released(k) = <<Code(k, TRUE)>>
  <2>1. k \notin Extended \cup {"pause"} => Pressed(k) = <<Down(k)>>
    BY Zenon DEF Pressed
  <2>2. k \notin Extended \cup {"pause"} => Released(k) = <<Up(k)>>
    BY Zenon DEF Released
  <2>3. QED BY <2>1, <2>2, CodesOf
<1>6. QED BY <1>2, <1>3, <1>4, <1>5

LEMMA KeyPress ==
  ASSUME KeyInv, NEW k \in keymenu, Press(k)
  PROVE  KeyInv'
<1>1. wire = <<>> /\ k \notin held /\ wire' = Pressed(k)
      /\ UNCHANGED <<keymenu, igncnt, E0_received, lr, mods, lock, savedkeys, keytty, sent, switched>>
      /\ held' = (IF k = "pause" THEN held ELSE held \cup {k})
  BY DEF Press
<1>2. sent = due /\ igncnt = 0 /\ ~E0_received /\ lr = held \cap Mods /\ (~switched => mods = Holding(held))
  BY <1>1, KeyInv_Exact DEF KeysExact, Mods
<1>3. \A m : Sends(k, m)' = Sends(k, m)
  BY <1>1 DEF Sends, Table
<1>4. due' = IF k \in Silent THEN due ELSE Sends(k, mods)
  BY <1>2 DEF Press, Silent, Mods
<1>5. k \notin Mods => held' \cap Mods = held \cap Mods /\ Holding(held') = Holding(held)
  <2>1. k \notin Mods => held' \cap Mods = held \cap Mods
    BY <1>1
  <2>2. QED BY <2>1, HoldingMods
<1>6. k \in Mods => k # "pause" /\ held' \ {k} = held
  BY <1>1, ModsAre
<1>7. Awaits(k, FALSE)'
  BY <1>1, <1>2, <1>3, <1>4, <1>5, <1>6 DEF Awaits
<1>8. keymenu' \in KeyMenu /\ k \in keymenu' /\ "pause" \notin held'
  BY <1>1 DEF KeyInv
<1>9. CASE k = "pause"
  <2>1. PauseLeft'
    BY <1>1, <1>2, <1>9, WireOf DEF PauseLeft
  <2>2. Awaits("pause", FALSE)'
    BY <1>7, <1>9
  <2>3. QED BY <1>8, <2>1, <2>2 DEF KeyInv
<1>10. CASE k \in Extended
  <2>1. wire' = <<E0, Code(Twin(k), FALSE)>> \/ (wire' = <<E0, Down("l_shift"), E0, Down("pad")>> /\ k = "arrow")
    BY <1>1, <1>10, WireOf
  <2>2. ShiftLeft(k)' \/ TwinLeft(k, FALSE)'
    BY <1>1, <1>2, <1>10, <2>1 DEF ShiftLeft, TwinLeft
  <2>3. QED BY <1>7, <1>8, <2>2 DEF KeyInv
<1>11. CASE k \notin Extended \cup {"pause"}
  <2>1. PlainLeft(k, FALSE)'
    BY <1>1, <1>2, <1>11, WireOf DEF PlainLeft
  <2>2. QED BY <1>7, <1>8, <2>1 DEF KeyInv
<1>12. QED BY <1>9, <1>10, <1>11

LEMMA KeyRelease ==
  ASSUME KeyInv, NEW k \in keymenu, k # "pause", Release(k)
  PROVE  KeyInv'
<1>1. wire = <<>> /\ k \in held /\ wire' = Released(k) /\ held' = held \ {k}
      /\ UNCHANGED <<keymenu, igncnt, E0_received, lr, mods, lock, savedkeys, keytty, sent, due, switched>>
  BY DEF Release
<1>2. sent = due /\ igncnt = 0 /\ ~E0_received /\ lr = held \cap Mods /\ (~switched => mods = Holding(held))
  BY <1>1, KeyInv_Exact DEF KeysExact, Mods
<1>3. k \notin Mods => held' \cap Mods = held \cap Mods /\ Holding(held') = Holding(held)
  <2>1. k \notin Mods => held' \cap Mods = held \cap Mods
    BY <1>1
  <2>2. QED BY <2>1, HoldingMods
<1>4. held' \cup {k} = held /\ k \notin held'
  BY <1>1
<1>5. Awaits(k, TRUE)'
  BY <1>1, <1>2, <1>3, <1>4 DEF Awaits
<1>6. keymenu' \in KeyMenu /\ k \in keymenu' /\ "pause" \notin held'
  BY <1>1 DEF KeyInv
<1>7. CASE k \in Extended
  <2>1. wire' = <<E0, Code(Twin(k), TRUE)>> \/ wire' = <<E0, Up(Twin(k)), E0, Up("l_shift")>>
    BY <1>1, <1>7, WireOf
  <2>2. TwinLeft(k, TRUE)'
    BY <1>1, <1>2, <1>7, <2>1 DEF TwinLeft
  <2>3. QED BY <1>5, <1>6, <2>2 DEF KeyInv
<1>8. CASE k \notin Extended
  <2>1. PlainLeft(k, TRUE)'
    BY <1>1, <1>2, <1>8, WireOf DEF PlainLeft
  <2>2. QED BY <1>5, <1>6, <2>1 DEF KeyInv
<1>9. QED BY <1>7, <1>8

LEMMA KeyNext_Inv ==
  ASSUME KeyInv, [KeyNext]_yVars
  PROVE  KeyInv'
<1>1. CASE UNCHANGED yVars
  <2>1. UNCHANGED <<keymenu, held, wire, igncnt, E0_received, lr, mods, lock, sent, due, switched>>
    BY <1>1 DEF yVars
  <2>2. \A k : Sends(k, mods)' = Sends(k, mods)
    BY <2>1 DEF Sends, Table
  <2>3. Settled' = Settled /\ NothingLeft' = NothingLeft /\ PauseLeft' = PauseLeft
    BY <2>1 DEF Settled, NothingLeft, PauseLeft
  <2>4. \A k, up : /\ Awaits(k, up)' = Awaits(k, up) /\ ShiftLeft(k)' = ShiftLeft(k)
                   /\ TwinLeft(k, up)' = TwinLeft(k, up) /\ PlainLeft(k, up)' = PlainLeft(k, up)
    BY <2>1, <2>2 DEF Awaits, ShiftLeft, TwinLeft, PlainLeft
  <2>5. QED BY <2>1, <2>3, <2>4 DEF KeyInv
<1>2. CASE ScanCode
  <2>1. keymenu' \in KeyMenu /\ keymenu' = keymenu /\ "pause" \notin held'
    BY <1>2 DEF ScanCode, KeyInv
  <2>2. CASE Settled /\ NothingLeft
    BY <1>2, <2>1, <2>2, RestArrives DEF KeyInv
  <2>3. CASE Awaits("pause", FALSE) /\ PauseLeft
    BY <1>2, <2>1, <2>3, PauseArrives DEF KeyInv
  <2>4. ASSUME NEW k \in keymenu, Awaits(k, FALSE), ShiftLeft(k) PROVE KeyInv'
    BY <1>2, <2>1, <2>4, ShiftArrives DEF KeyInv
  <2>5. ASSUME NEW k \in keymenu, NEW up \in BOOLEAN, Awaits(k, up), TwinLeft(k, up) PROVE KeyInv'
    BY <1>2, <2>1, <2>5, TwinArrives DEF KeyInv
  <2>6. ASSUME NEW k \in keymenu, NEW up \in BOOLEAN, Awaits(k, up), PlainLeft(k, up) PROVE KeyInv'
    <3>1. Plain2(k)
      BY KeyAssumption DEF KeyInv, Plain2
    <3>2. QED BY <1>2, <2>1, <2>6, <3>1, PlainArrives DEF KeyInv
  <2>7. \/ Settled /\ NothingLeft
        \/ Awaits("pause", FALSE) /\ PauseLeft
        \/ \E k \in keymenu, up \in BOOLEAN :
              Awaits(k, up) /\ ((~up /\ ShiftLeft(k)) \/ TwinLeft(k, up) \/ PlainLeft(k, up))
    BY DEF KeyInv
  <2>8. ASSUME NEW k \in keymenu, NEW up \in BOOLEAN,
               Awaits(k, up) /\ ((~up /\ ShiftLeft(k)) \/ TwinLeft(k, up) \/ PlainLeft(k, up))
        PROVE  KeyInv'
    <3>1. CASE ~up /\ ShiftLeft(k)
      <4>1. up = FALSE
        BY <3>1
      <4>2. QED BY <2>4, <2>8, <3>1, <4>1
    <3>2. QED BY <2>5, <2>6, <2>8, <3>1
  <2>9. QED BY <2>2, <2>3, <2>7, <2>8
<1>3. ASSUME NEW k \in keymenu, Press(k) PROVE KeyInv'
  BY <1>3, KeyPress
<1>4. ASSUME NEW k \in keymenu, Release(k) PROVE KeyInv'
  <2>1. k \in held /\ k # "pause"
    BY <1>4 DEF Release, KeyInv
  <2>2. QED BY <1>4, <2>1, KeyRelease
<1>5. QED BY <1>1, <1>2, <1>3, <1>4 DEF KeyNext

(***************************************************************************)
(* The line printer.                                                       *)
(***************************************************************************)
LpBytes == Nat \X Nat
LpWriter == [pc : {"idle", "printing", "waiting"}, call : Nat, index : Nat, count : LpLengths \cup {0}]

LpTypes ==
  /\ lpw \in [LpUsers -> LpWriter] /\ lp_calls \in Nat
  /\ paper \in Seq(LpBytes) /\ unheard \in Seq(LpBytes)

\* The bytes of a call, each as often as it was strobed.
LpCounts ==
  /\ \A b \in LpBytes : /\ Times(paper, b) \in Nat /\ Times(unheard, b) \in Nat
                        /\ Times(paper, b) <= Times(unheard, b) + 1
                        /\ b[1] > lp_calls => Times(paper, b) = 0 /\ Times(unheard, b) = 0
LpOwn(p) ==
  /\ lpw[p].call \in 1..lp_calls
  /\ BytesOf(paper, lpw[p].call) \ {lpw[p].index + 1} = 1..lpw[p].index
  /\ \A n \in Nat : n > lpw[p].index => Times(paper, <<lpw[p].call, n>>) = Times(unheard, <<lpw[p].call, n>>)
  /\ \A i \in DOMAIN paper : (paper[i][1] = lpw[p].call /\ \A k \in i + 1..Len(paper) : paper[k][1] # lpw[p].call)
                                => paper[i][2] \in {lpw[p].index, lpw[p].index + 1}

LpInv ==
  /\ LpTypes /\ LpCounts
  /\ \A i \in DOMAIN paper : paper[i][1] \in 1..lp_calls
  /\ \A i, j \in DOMAIN paper : IsBefore(i, j) => paper[j][2] \in {paper[i][2], paper[i][2] + 1}
  /\ \A p \in LpUsers : lpw[p].pc # "idle" => LpOwn(p)
  /\ \A p, q \in LpUsers : lpw[p].pc # "idle" /\ lpw[q].pc # "idle" /\ p # q => lpw[p].call # lpw[q].call

LEMMA LpByteIs ==
  ASSUME NEW b \in LpBytes
  PROVE  b[1] \in Nat /\ b[2] \in Nat /\ b = <<b[1], b[2]>>
BY DEF LpBytes

LEMMA LpByteMade ==
  ASSUME NEW m \in Nat, NEW n \in Nat
  PROVE  <<m, n>> \in LpBytes /\ <<m, n>>[1] = m /\ <<m, n>>[2] = n
BY DEF LpBytes

LEMMA TimesIsNat ==
  ASSUME NEW S, NEW s \in Seq(S), NEW x
  PROVE  Times(s, x) \in Nat /\ IsFiniteSet({i \in DOMAIN s : s[i] = x})
<1>1. DOMAIN s = 1..Len(s) /\ Len(s) \in Nat
  OBVIOUS
<1>2. IsFiniteSet(1..Len(s))
  BY <1>1, FS_Interval
<1>3. {i \in DOMAIN s : s[i] = x} \in SUBSET (1..Len(s))
  BY <1>1
<1>4. IsFiniteSet({i \in DOMAIN s : s[i] = x})
  BY <1>2, <1>3, FS_Subset
<1>5. QED BY <1>4, FS_CardinalityType DEF Times

Strobed(t, s, b) ==
  \A x : Times(s, x) \in Nat /\ (x = b => Times(t, x) = Times(s, x) + 1) /\ (x # b => Times(t, x) = Times(s, x))

LEMMA TimesOneMore ==
  ASSUME NEW s \in Seq(LpBytes), NEW b \in LpBytes
  PROVE  Strobed(Append(s, b), s, b)
<1> SUFFICES ASSUME NEW x
             PROVE  Times(s, x) \in Nat /\ (x = b => Times(Append(s, b), x) = Times(s, x) + 1)
                                       /\ (x # b => Times(Append(s, b), x) = Times(s, x))
  BY DEF Strobed
<1>0. PICK t : t = Append(s, b)
  OBVIOUS
<1>1. /\ DOMAIN s = 1..Len(s) /\ Len(s) \in Nat /\ DOMAIN t = 1..Len(s) + 1 /\ t[Len(s) + 1] = b
      /\ \A i \in 1..Len(s) : t[i] = s[i]
  BY <1>0
<1>2. PICK A : A = {i \in DOMAIN s : s[i] = x}
  OBVIOUS
<1>3. PICK B : B = {i \in DOMAIN t : t[i] = x}
  OBVIOUS
<1>4. IsFiniteSet(A) /\ Cardinality(A) = Times(s, x) /\ Times(s, x) \in Nat /\ Cardinality(B) = Times(t, x)
  BY <1>2, <1>3, TimesIsNat DEF Times
<1>5. CASE x = b
  <2>1. B = A \cup {Len(s) + 1} /\ Len(s) + 1 \notin A
    BY <1>1, <1>2, <1>3, <1>5
  <2>2. Cardinality(B) = Cardinality(A) + 1
    BY <1>4, <2>1, FS_AddElement
  <2>3. QED BY <1>0, <1>4, <1>5, <2>2
<1>6. CASE x # b
  <2>1. B = A
    BY <1>1, <1>2, <1>3, <1>6
  <2>2. QED BY <1>0, <1>4, <1>6, <2>1
<1>7. QED BY <1>5, <1>6

LEMMA TimesEmpty ==
  ASSUME NEW x
  PROVE  Times(<<>>, x) = 0
<1>1. {i \in DOMAIN <<>> : <<>>[i] = x} = {}
  OBVIOUS
<1>2. QED BY <1>1, FS_EmptySet DEF Times

LEMMA LpInit_Inv ==
  ASSUME LpInit
  PROVE  LpInv
<1>1. paper = <<>> /\ unheard = <<>> /\ lp_calls = 0 /\ lpw = [p \in LpUsers |-> Idle]
  BY DEF LpInit
<1>2. Idle \in LpWriter /\ Idle.pc = "idle"
  BY DEF Idle, LpWriter
<1> HIDE DEF Idle
<1>3. \A p \in LpUsers : lpw[p].pc = "idle"
  BY <1>1, <1>2
<1>4. LpTypes
  <2>1. lpw \in [LpUsers -> LpWriter]
    BY <1>1, <1>2
  <2>2. <<>> \in Seq(LpBytes) /\ 0 \in Nat
    OBVIOUS
  <2>3. QED BY <1>1, <2>1, <2>2 DEF LpTypes
<1>5. LpCounts
  BY <1>1, TimesEmpty DEF LpCounts
<1>6. DOMAIN paper = {}
  BY <1>1
<1>7. QED BY <1>3, <1>4, <1>5, <1>6 DEF LpInv

LEMMA LpInv_Sound ==
  ASSUME LpInv
  PROVE  PrintedInOrder
<1>1. ASSUME NEW i \in DOMAIN paper PROVE Times(paper, paper[i]) <= Times(unheard, paper[i]) + 1
  <2>1. paper[i] \in LpBytes
    BY DEF LpInv, LpTypes
  <2>2. QED BY <2>1 DEF LpInv, LpCounts
<1>2. QED BY <1>1 DEF LpInv, LpOwn, PrintedInOrder

LEMMA LpOwnStays ==
  ASSUME UNCHANGED <<paper, unheard>>, NEW q \in LpUsers, LpOwn(q),
         lpw'[q].call = lpw[q].call, lpw'[q].index = lpw[q].index, lpw[q].call \in 1..lp_calls'
  PROVE  LpOwn(q)'
BY DEF LpOwn

\* Writers come and go, and none goes on with other bytes than before.
LEMMA LpStepAside ==
  ASSUME LpInv, UNCHANGED <<paper, unheard, lp_calls>>, NEW p \in LpUsers, NEW w \in LpWriter,
         lpw' = [lpw EXCEPT ![p] = w],
         w.pc # "idle" => lpw[p].pc # "idle" /\ w.call = lpw[p].call /\ w.index = lpw[p].index
  PROVE  LpInv'
<1>1. lpw \in [LpUsers -> LpWriter]
  BY DEF LpInv, LpTypes
<1>2. lpw' \in [LpUsers -> LpWriter]
      /\ \A q \in LpUsers : lpw'[q].pc # "idle" => lpw[q].pc # "idle" /\ lpw'[q].call = lpw[q].call /\ lpw'[q].index = lpw[q].index
  BY <1>1
<1>3. LpTypes' /\ LpCounts'
  <2>1. LpTypes'
    BY <1>2 DEF LpInv, LpTypes
  <2>2. \A b : UNCHANGED <<Times(paper, b), Times(unheard, b)>>
    BY DEF Times
  <2>3. LpCounts
    BY DEF LpInv
  <2>4. QED BY <2>1, <2>2, <2>3 DEF LpCounts
<1>4. ASSUME NEW q \in LpUsers, lpw'[q].pc # "idle" PROVE LpOwn(q)'
  <2>1. LpOwn(q) /\ lpw'[q].call = lpw[q].call /\ lpw'[q].index = lpw[q].index
    BY <1>2, <1>4 DEF LpInv
  <2>2. lpw[q].call \in 1..lp_calls'
    BY <2>1 DEF LpOwn
  <2>3. QED BY <2>1, <2>2, LpOwnStays
<1>5. \A i, j : IsBefore(i, j)' = IsBefore(i, j)
  BY DEF IsBefore
<1>6. QED BY <1>2, <1>3, <1>4, <1>5 DEF LpInv

\* A call begins: none of its bytes is on the paper.
LEMMA LpBegins ==
  ASSUME LpInv, NEW p \in LpUsers, NEW n \in LpLengths, lp_write(p, n)
  PROVE  LpInv'
<1>1. PICK w : w = [pc |-> "printing", call |-> lp_calls + 1, index |-> 0, count |-> n]
  OBVIOUS
<1>2. lp_calls \in Nat /\ lpw \in [LpUsers -> LpWriter] /\ paper \in Seq(LpBytes) /\ unheard \in Seq(LpBytes)
  BY DEF LpInv, LpTypes
<1>3. w \in LpWriter /\ w.pc = "printing" /\ w.call = lp_calls + 1 /\ w.index = 0
  BY <1>1, <1>2 DEF LpWriter
<1>4. lpw' = [lpw EXCEPT ![p] = w] /\ lp_calls' = lp_calls + 1 /\ UNCHANGED <<paper, unheard>>
  BY <1>1 DEF lp_write
<1>5. lpw' \in [LpUsers -> LpWriter] /\ lpw'[p] = w /\ \A q \in LpUsers : q # p => lpw'[q] = lpw[q]
  BY <1>2, <1>3, <1>4
<1>6. LpTypes'
  BY <1>2, <1>4, <1>5 DEF LpTypes
<1>7. LpCounts'
  <2>1. ASSUME NEW b \in LpBytes
        PROVE  /\ Times(paper, b) \in Nat /\ Times(unheard, b) \in Nat
               /\ Times(paper, b) <= Times(unheard, b) + 1
               /\ b[1] > lp_calls + 1 => Times(paper, b) = 0 /\ Times(unheard, b) = 0
    <3>1. b[1] \in Nat
      BY LpByteIs
    <3>2. b[1] > lp_calls + 1 => b[1] > lp_calls
      BY <1>2, <3>1
    <3>3. QED BY <3>2 DEF LpInv, LpCounts
  <2>2. QED BY <1>4, <2>1 DEF LpCounts, Times
<1>8. ASSUME NEW i \in DOMAIN paper PROVE paper[i][1] \in 1..lp_calls + 1 /\ paper[i][1] # lp_calls + 1
  <2>1. paper[i][1] \in 1..lp_calls
    BY DEF LpInv
  <2>2. QED BY <1>2, <2>1
<1>9. LpOwn(p)'
  <2>1. BytesOf(paper, lp_calls + 1) = {}
    BY <1>2, <1>8 DEF BytesOf, ToSet
  <2>2. ASSUME NEW m \in Nat PROVE Times(paper, <<lp_calls + 1, m>>) = Times(unheard, <<lp_calls + 1, m>>)
    <3>1. lp_calls + 1 \in Nat /\ lp_calls + 1 > lp_calls
      BY <1>2
    <3>2. PICK b : b = <<lp_calls + 1, m>>
      OBVIOUS
    <3>3. b \in LpBytes /\ b[1] = lp_calls + 1
      BY <3>1, <3>2, LpByteMade
    <3>4. Times(paper, b) = 0 /\ Times(unheard, b) = 0
      BY <3>1, <3>3 DEF LpInv, LpCounts
    <3>5. QED BY <3>2, <3>4
  <2>3. lpw'[p].call = lp_calls + 1 /\ lpw'[p].index = 0 /\ lp_calls + 1 \in 1..lp_calls'
    BY <1>2, <1>3, <1>4, <1>5
  <2>4. {} \ {0 + 1} = 1..0
    OBVIOUS
  <2>5. \A i \in DOMAIN paper' : paper'[i][1] # lpw'[p].call
    BY <1>4, <1>8, <2>3
  <2>6. BytesOf(paper, lpw[p].call)' \ {lpw'[p].index + 1} = 1..lpw'[p].index
    BY <1>4, <2>1, <2>3, <2>4
  <2>7. \A m \in Nat : Times(paper, <<lpw[p].call, m>>)' = Times(unheard, <<lpw[p].call, m>>)'
    BY <1>4, <2>2, <2>3
  <2>8. QED BY <2>3, <2>5, <2>6, <2>7 DEF LpOwn
<1>10. ASSUME NEW q \in LpUsers, q # p, lpw'[q].pc # "idle" PROVE LpOwn(q)' /\ lpw'[q].call # lp_calls + 1
  <2>1. LpOwn(q) /\ lpw'[q] = lpw[q]
    BY <1>5, <1>10 DEF LpInv
  <2>2. lpw[q].call \in 1..lp_calls + 1 /\ lpw[q].call # lp_calls + 1
    BY <1>2, <2>1 DEF LpOwn
  <2>3. LpOwn(q)'
    BY <1>4, <2>1, <2>2, LpOwnStays
  <2>4. QED BY <2>1, <2>2, <2>3
<1>11. \A i, j : IsBefore(i, j)' = IsBefore(i, j)
  BY <1>4 DEF IsBefore
<1>12. \A q, r \in LpUsers : lpw'[q].pc # "idle" /\ lpw'[r].pc # "idle" /\ q # r => lpw'[q].call # lpw'[r].call
  <2>1. TAKE q \in LpUsers, r \in LpUsers
  <2>2. CASE q # p /\ r # p
    BY <1>5, <2>2 DEF LpInv
  <2>3. CASE q = p \/ r = p
    BY <1>3, <1>5, <1>10, <2>3
  <2>4. QED BY <2>2, <2>3
<1>13. QED BY <1>4, <1>6, <1>7, <1>8, <1>9, <1>10, <1>11, <1>12 DEF LpInv

\* A byte is strobed: what is on the paper grows by it.
Grown(t, q, b) ==
  /\ t \in Seq(LpBytes) /\ Len(q) \in Nat /\ DOMAIN q = 1..Len(q) /\ DOMAIN t = 1..Len(q) + 1 /\ Len(t) = Len(q) + 1
  /\ t[Len(q) + 1] = b /\ \A i \in 1..Len(q) : t[i] = q[i]
  /\ \A c : BytesOf(t, c) = BytesOf(q, c) \cup (IF b[1] = c THEN {b[2]} ELSE {})

LEMMA PaperGrows ==
  ASSUME NEW q \in Seq(LpBytes), NEW b \in LpBytes
  PROVE  Grown(Append(q, b), q, b)
<1>0. PICK t : t = Append(q, b)
  OBVIOUS
<1>1. /\ t \in Seq(LpBytes) /\ Len(q) \in Nat /\ DOMAIN q = 1..Len(q) /\ DOMAIN t = 1..Len(q) + 1 /\ Len(t) = Len(q) + 1
      /\ t[Len(q) + 1] = b /\ \A i \in 1..Len(q) : t[i] = q[i]
  BY <1>0
<1>2. ToSet(t) = ToSet(q) \cup {b}
  BY <1>1 DEF ToSet
<1>3. \A c : BytesOf(t, c) = BytesOf(q, c) \cup (IF b[1] = c THEN {b[2]} ELSE {})
  <2>1. TAKE c
  <2>2. {y \in ToSet(t) : y[1] = c} = {y \in ToSet(q) : y[1] = c} \cup (IF b[1] = c THEN {b} ELSE {})
    BY <1>2
  <2>3. QED BY <2>2 DEF BytesOf
<1>4. Grown(t, q, b)
  BY <1>1, <1>3 DEF Grown
<1>5. QED BY <1>0, <1>4

\* The byte of p is strobed; "heard" says whether it is acknowledged.
LEMMA LpStrobes ==
  ASSUME LpInv, NEW p \in LpUsers, lpw[p].pc = "printing", lp_calls' = lp_calls,
         paper' = Append(paper, Byte(p)), NEW heard \in BOOLEAN,
         unheard' = (IF heard THEN unheard ELSE Append(unheard, Byte(p))),
         NEW w \in LpWriter, lpw' = [lpw EXCEPT ![p] = w],
         w.pc # "idle" => w.call = lpw[p].call /\ w.index = (IF heard THEN lpw[p].index + 1 ELSE lpw[p].index)
  PROVE  LpInv'
<1>1. PICK b : b = Byte(p)
  OBVIOUS
<1>2. PICK call : call = lpw[p].call
  OBVIOUS
<1>3. PICK n : n = lpw[p].index
  OBVIOUS
<1>4. lp_calls \in Nat /\ lpw \in [LpUsers -> LpWriter] /\ paper \in Seq(LpBytes) /\ unheard \in Seq(LpBytes)
  BY DEF LpInv, LpTypes
<1>5. LpOwn(p) /\ lpw[p] \in LpWriter
  BY <1>4 DEF LpInv
<1>6. call \in Nat /\ n \in Nat /\ call \in 1..lp_calls /\ n + 1 \in Nat
  BY <1>2, <1>3, <1>5 DEF LpWriter, LpOwn
<1>7. b = <<call, n + 1>> /\ b \in LpBytes /\ b[1] = call /\ b[2] = n + 1
  BY <1>1, <1>2, <1>3, <1>6, LpByteMade DEF Byte
<1>8. /\ paper' \in Seq(LpBytes) /\ Len(paper) \in Nat /\ DOMAIN paper = 1..Len(paper)
      /\ DOMAIN paper' = 1..Len(paper) + 1 /\ Len(paper') = Len(paper) + 1
      /\ paper'[Len(paper) + 1] = b /\ \A i \in 1..Len(paper) : paper'[i] = paper[i]
      /\ \A c : BytesOf(paper', c) = BytesOf(paper, c) \cup (IF b[1] = c THEN {b[2]} ELSE {})
  <2>1. paper \in Seq(LpBytes) /\ b \in LpBytes
    BY <1>4, <1>7
  <2>2. Grown(Append(paper, b), paper, b)
    BY <2>1, PaperGrows
  <2>3. paper' = Append(paper, b)
    BY <1>1
  <2>4. Grown(paper', paper, b)
    BY <2>2, <2>3
  <2>5. QED BY <2>4 DEF Grown
<1>9. unheard' \in Seq(LpBytes)
  BY <1>1, <1>4, <1>7
<1>10. lpw' \in [LpUsers -> LpWriter] /\ lpw'[p] = w /\ \A q \in LpUsers : q # p => lpw'[q] = lpw[q]
  BY <1>4
<1>11. LpTypes'
  BY <1>4, <1>8, <1>9, <1>10 DEF LpTypes
<1>12. Strobed(paper', paper, b)
  <2>1. paper \in Seq(LpBytes) /\ b \in LpBytes
    BY <1>4, <1>7
  <2>2. Strobed(Append(paper, b), paper, b)
    BY <2>1, TimesOneMore
  <2>3. paper' = Append(paper, b)
    BY <1>1
  <2>4. QED BY <2>2, <2>3
<1>13. heard \/ Strobed(unheard', unheard, b)
  <2>1. unheard \in Seq(LpBytes) /\ b \in LpBytes
    BY <1>4, <1>7
  <2>2. Strobed(Append(unheard, b), unheard, b)
    BY <2>1, TimesOneMore
  <2>3. ~heard => unheard' = Append(unheard, b)
    BY <1>1
  <2>4. QED BY <2>2, <2>3
<1>14. heard => unheard' = unheard
  OBVIOUS
<1>15. \A x : Times(paper, x) \in Nat /\ Times(unheard, x) \in Nat
  BY <1>4, TimesIsNat
<1>16. \A x : x # b => Times(paper', x) = Times(paper, x) /\ Times(unheard', x) = Times(unheard, x)
  BY <1>12, <1>13, <1>14 DEF Strobed
<1>17. Times(paper', b) = Times(paper, b) + 1 /\ Times(unheard', b) = IF heard THEN Times(unheard, b) ELSE Times(unheard, b) + 1
  BY <1>12, <1>13, <1>14 DEF Strobed
<1>18. Times(paper, b) = Times(unheard, b)
  <2>1. n + 1 > n
    BY <1>6
  <2>2. QED BY <1>2, <1>3, <1>5, <1>6, <1>7, <2>1 DEF LpOwn
<1>19. LpCounts'
  <2>1. ASSUME NEW x \in LpBytes
        PROVE  /\ Times(paper', x) \in Nat /\ Times(unheard', x) \in Nat
               /\ Times(paper', x) <= Times(unheard', x) + 1
               /\ x[1] > lp_calls => Times(paper', x) = 0 /\ Times(unheard', x) = 0
    <3>1. /\ Times(paper, x) \in Nat /\ Times(unheard, x) \in Nat
          /\ Times(paper, x) <= Times(unheard, x) + 1
          /\ x[1] > lp_calls => Times(paper, x) = 0 /\ Times(unheard, x) = 0
      BY DEF LpInv, LpCounts
    <3>2. CASE x = b
      <4>1. ~(x[1] > lp_calls)
        BY <1>4, <1>6, <1>7, <3>2
      <4>2. QED BY <1>18, <1>17, <3>1, <3>2, <4>1
    <3>3. CASE x # b
      BY <1>16, <3>1, <3>3
    <3>4. QED BY <3>2, <3>3
  <2>2. QED BY <2>1 DEF LpCounts
<1>20. \A i \in DOMAIN paper' : paper'[i][1] \in 1..lp_calls'
  <2>1. \A i \in 1..Len(paper) : paper[i][1] \in 1..lp_calls
    BY <1>8 DEF LpInv
  <2>2. TAKE i \in DOMAIN paper'
  <2>3. CASE i \in 1..Len(paper)
    BY <1>8, <2>1, <2>3
  <2>4. CASE i = Len(paper) + 1
    BY <1>6, <1>7, <1>8, <2>4
  <2>5. QED BY <1>8, <2>3, <2>4
<1>21. ASSUME NEW i \in DOMAIN paper', NEW j \in DOMAIN paper', IsBefore(i, j)'
       PROVE  paper'[j][2] \in {paper'[i][2], paper'[i][2] + 1}
  <2>1. i \in 1..Len(paper) + 1 /\ j \in 1..Len(paper) + 1 /\ i < j /\ i \in 1..Len(paper)
    BY <1>8, <1>21 DEF IsBefore
  <2>2. \A k \in i..j - 1 : k \in 1..Len(paper) /\ (paper[k][1] = paper'[j][1] <=> k = i)
    <3>1. TAKE k \in i..j - 1
    <3>2. k \in 1..Len(paper)
      BY <1>8, <2>1
    <3>3. k \in DOMAIN paper' /\ paper'[k] = paper[k]
      BY <1>8, <3>2
    <3>4. paper'[k][1] = paper'[j][1] <=> k = i
      BY <1>21 DEF IsBefore
    <3>5. QED BY <3>2, <3>3, <3>4
  <2>3. CASE j \in 1..Len(paper)
    <3>1. IsBefore(i, j)
      BY <1>8, <2>1, <2>2, <2>3 DEF IsBefore
    <3>2. QED BY <1>8, <2>1, <2>3, <3>1 DEF LpInv
  <2>4. CASE j = Len(paper) + 1
    <3>1. paper'[j] = b /\ paper[i][1] = call /\ \A k \in i + 1..Len(paper) : paper[k][1] # call
      <4>1. i \in i..j - 1 /\ \A k \in i + 1..Len(paper) : k \in i..j - 1 /\ k # i
        BY <1>8, <2>1, <2>4
      <4>2. QED BY <1>7, <1>8, <2>2, <2>4, <4>1
    <3>2. paper[i][2] \in {n, n + 1}
      BY <1>2, <1>3, <1>5, <1>8, <2>1, <3>1 DEF LpOwn
    <3>3. paper'[i] = paper[i] /\ paper'[j][2] = n + 1
      BY <1>7, <1>8, <2>1, <3>1
    <3>4. QED BY <3>2, <3>3
  <2>5. QED BY <1>8, <2>1, <2>3, <2>4
<1>22. ASSUME w.pc # "idle" PROVE LpOwn(p)'
  <2>1. PICK m : m = IF heard THEN n + 1 ELSE n
    OBVIOUS
  <2>2. lpw'[p].call = call /\ lpw'[p].index = m /\ m \in Nat /\ n <= m /\ (m = n \/ (heard /\ m = n + 1)) /\ (m = n => ~heard)
    BY <1>2, <1>3, <1>6, <1>10, <1>22, <2>1
  <2>3. BytesOf(paper', call) \ {m + 1} = 1..m
    <3>1. BytesOf(paper, call) \ {n + 1} = 1..n
      BY <1>2, <1>3, <1>5 DEF LpOwn
    <3>2. BytesOf(paper', call) = BytesOf(paper, call) \cup {n + 1}
      BY <1>7, <1>8
    <3>3. BytesOf(paper', call) = 1..n + 1
      BY <1>6, <3>1, <3>2
    <3>4. QED BY <1>6, <2>2, <3>3
  <2>4. ASSUME NEW k \in Nat, k > m
        PROVE  Times(paper', <<call, k>>) = Times(unheard', <<call, k>>)
    <3>1. PICK x : x = <<call, k>>
      OBVIOUS
    <3>2. k > n
      BY <1>6, <2>2, <2>4
    <3>3. Times(paper, x) = Times(unheard, x)
      BY <1>2, <1>3, <1>5, <3>1, <3>2 DEF LpOwn
    <3>4. x = b => ~heard
      <4>1. x[2] = k
        BY <1>6, <3>1, LpByteMade
      <4>2. x = b => k = n + 1
        BY <1>7, <4>1
      <4>3. m \in Int /\ n \in Int /\ k \in Int /\ (heard => m = n + 1)
        BY <1>6, <2>1
      <4>4. QED BY ONLY <2>4, <4>2, <4>3
    <3>5. Times(paper', x) = Times(unheard', x)
      <4>1. CASE x = b
        BY ONLY <1>18, <1>16, <1>17, <3>3, <3>4, <4>1
      <4>2. CASE x # b
        BY ONLY <1>18, <1>16, <1>17, <3>3, <4>2
      <4>3. QED BY ONLY <4>1, <4>2
    <3>6. QED BY <3>1, <3>5
  <2>5. ASSUME NEW i \in DOMAIN paper', paper'[i][1] = call, \A k \in i + 1..Len(paper') : paper'[k][1] # call
        PROVE  paper'[i][2] \in {m, m + 1}
    <3>1. i = Len(paper) + 1
      <4>1. Len(paper) + 1 \notin i + 1..Len(paper')
        BY <1>7, <1>8, <2>5
      <4>2. QED BY <1>8, <4>1
    <3>2. paper'[i][2] = n + 1
      BY <1>7, <1>8, <3>1
    <3>3. QED BY <1>6, <2>2, <3>2
  <2>6. call \in 1..lp_calls'
    BY <1>6
  <2>7. QED BY <2>2, <2>3, <2>4, <2>5, <2>6 DEF LpOwn
<1>23. ASSUME NEW q \in LpUsers, q # p, lpw'[q].pc # "idle" PROVE LpOwn(q)'
  <2>1. lpw'[q] = lpw[q] /\ LpOwn(q) /\ lpw[q].call # call
    BY <1>2, <1>10, <1>23 DEF LpInv
  <2>2. BytesOf(paper', lpw[q].call) = BytesOf(paper, lpw[q].call)
    <3>1. PICK c : c = lpw[q].call
      OBVIOUS
    <3>2. BytesOf(paper', c) = BytesOf(paper, c) \cup (IF b[1] = c THEN {b[2]} ELSE {})
      BY <1>8
    <3>3. b[1] # c
      BY <1>7, <2>1, <3>1
    <3>4. BytesOf(paper', c) = BytesOf(paper, c)
      BY <3>2, <3>3
    <3>5. QED BY <3>1, <3>4
  <2>3. lpw[q].call \in Nat
    BY <1>4 DEF LpWriter
  <2>4. ASSUME NEW k \in Nat, k > lpw[q].index
        PROVE  Times(paper', <<lpw[q].call, k>>) = Times(unheard', <<lpw[q].call, k>>)
    <3>1. PICK x : x = <<lpw[q].call, k>>
      OBVIOUS
    <3>2. x # b
      <4>1. x[1] = lpw[q].call
        BY <2>3, <3>1, LpByteMade
      <4>2. QED BY <1>7, <2>1, <4>1
    <3>3. Times(paper, x) = Times(unheard, x)
      BY <2>1, <2>4, <3>1 DEF LpOwn
    <3>4. Times(paper', x) = Times(unheard', x)
      BY <1>16, <3>2, <3>3
    <3>5. QED BY <3>1, <3>4
  <2>5. ASSUME NEW i \in DOMAIN paper', paper'[i][1] = lpw[q].call,
               \A k \in i + 1..Len(paper') : paper'[k][1] # lpw[q].call
        PROVE  paper'[i][2] \in {lpw[q].index, lpw[q].index + 1}
    <3>1. i \in 1..Len(paper) /\ paper'[i] = paper[i]
      BY <1>7, <1>8, <2>1, <2>5
    <3>2. \A k \in i + 1..Len(paper) : paper[k][1] # lpw[q].call
      <4>1. TAKE k \in i + 1..Len(paper)
      <4>2. k \in i + 1..Len(paper') /\ k \in 1..Len(paper)
        BY <1>8, <3>1
      <4>3. QED BY <1>8, <2>5, <4>2
    <3>3. QED BY <1>8, <2>1, <2>5, <3>1, <3>2 DEF LpOwn
  <2>6. QED BY <2>1, <2>2, <2>4, <2>5 DEF LpOwn
<1>24. \A q \in LpUsers : lpw'[q].pc # "idle" => lpw[q].pc # "idle" /\ lpw'[q].call = lpw[q].call
  BY <1>10
<1>25. \A q, r \in LpUsers : lpw'[q].pc # "idle" /\ lpw'[r].pc # "idle" /\ q # r => lpw'[q].call # lpw'[r].call
  BY <1>24 DEF LpInv
<1>26. \A q \in LpUsers : lpw'[q].pc # "idle" => LpOwn(q)'
  BY <1>10, <1>22, <1>23
<1>27. QED BY <1>11, <1>19, <1>20, <1>21, <1>25, <1>26 DEF LpInv

LEMMA LpWriteData ==
  ASSUME LpInv, NEW p \in LpUsers, lp_write_data(p)
  PROVE  LpInv'
<1>1. lpw \in [LpUsers -> LpWriter] /\ lpw[p] \in LpWriter /\ lpw[p].pc = "printing" /\ lp_calls' = lp_calls
  BY DEF LpInv, LpTypes, lp_write_data
<1>2. PICK g : g = GivesUp(p)
  OBVIOUS
<1>3. g \in LpWriter /\ (g.pc # "idle" => g.call = lpw[p].call /\ g.index = lpw[p].index)
  <2>1. CASE lp_blocking
    <3>1. g = [lpw[p] EXCEPT !.pc = "waiting"]
      BY <1>2, <2>1 DEF GivesUp
    <3>2. QED BY <1>1, <3>1 DEF LpWriter
  <2>2. CASE ~lp_blocking
    <3>1. g = Idle
      BY <1>2, <2>2 DEF GivesUp
    <3>2. QED BY <3>1 DEF Idle, LpWriter
  <2>3. QED BY <2>1, <2>2
<1>4. CASE lpw' = [lpw EXCEPT ![p] = g] /\ UNCHANGED <<paper, unheard>>
  BY <1>1, <1>3, <1>4, LpStepAside
<1>5. CASE lpw' = [lpw EXCEPT ![p] = g] /\ paper' = Append(paper, Byte(p)) /\ unheard' = Append(unheard, Byte(p))
  <2>1. PICK heard \in BOOLEAN : heard = FALSE
    OBVIOUS
  <2>2. unheard' = (IF heard THEN unheard ELSE Append(unheard, Byte(p)))
    BY <1>5, <2>1
  <2>3. g.pc # "idle" => g.call = lpw[p].call /\ g.index = (IF heard THEN lpw[p].index + 1 ELSE lpw[p].index)
    BY <1>3, <2>1
  <2>4. QED BY <1>1, <1>3, <1>5, <2>2, <2>3, LpStrobes
<1>6. CASE paper' = Append(paper, Byte(p)) /\ lpw' = [lpw EXCEPT ![p].index = @ + 1] /\ UNCHANGED unheard
  <2>1. PICK heard \in BOOLEAN : heard = TRUE
    OBVIOUS
  <2>2. PICK n : n = lpw[p].index + 1
    OBVIOUS
  <2>3. n \in Nat
    BY <1>1, <2>2 DEF LpWriter
  <2>4. PICK w : w = [lpw[p] EXCEPT !.index = n]
    OBVIOUS
  <2>5. w \in LpWriter /\ w.call = lpw[p].call /\ w.index = n
    BY <1>1, <2>3, <2>4 DEF LpWriter
  <2>6. lpw' = [lpw EXCEPT ![p] = w]
    BY <1>1, <1>6, <2>2, <2>4
  <2>7. unheard' = (IF heard THEN unheard ELSE Append(unheard, Byte(p)))
    BY <1>6, <2>1
  <2>8. w.pc # "idle" => w.call = lpw[p].call /\ w.index = (IF heard THEN lpw[p].index + 1 ELSE lpw[p].index)
    BY <2>1, <2>2, <2>5
  <2>9. QED BY <1>1, <1>6, <2>5, <2>6, <2>7, <2>8, LpStrobes
<1>7. QED BY <1>2, <1>4, <1>5, <1>6 DEF lp_write_data

LEMMA LpNext_Inv ==
  ASSUME LpInv, [LpNext]_lVars
  PROVE  LpInv'
<1>1. ASSUME UNCHANGED <<lpw, lp_calls, paper, unheard>> PROVE LpInv'
  <2>1. LpTypes' /\ LpCounts'
    BY <1>1 DEF LpInv, LpTypes, LpCounts
  <2>2. \A q \in LpUsers : LpOwn(q)' = LpOwn(q)
    BY <1>1 DEF LpOwn
  <2>3. \A i, j : IsBefore(i, j)' = IsBefore(i, j)
    BY <1>1 DEF IsBefore
  <2>4. QED BY <1>1, <2>1, <2>2, <2>3 DEF LpInv
<1>2. ASSUME NEW p \in LpUsers, NEW S \in SUBSET LpUsers, NEW b \in BOOLEAN, lp_open(p, S, b) PROVE LpInv'
  BY <1>1, <1>2 DEF lp_open
<1>3. CASE lp_close
  BY <1>1, <1>3 DEF lp_close
<1>4. ASSUME NEW p \in LpUsers, LpReturns(p) \/ LpGoesOn(p) \/ LpSignal(p) PROVE LpInv'
  <2>1. lpw[p] \in LpWriter
    BY DEF LpInv, LpTypes
  <2>2. PICK w : w = IF LpGoesOn(p) THEN [lpw[p] EXCEPT !.pc = "printing"] ELSE Idle
    OBVIOUS
  <2>3. w \in LpWriter /\ (w.pc # "idle" => lpw[p].pc # "idle" /\ w.call = lpw[p].call /\ w.index = lpw[p].index)
    <3>1. CASE LpGoesOn(p)
      <4>1. w = [lpw[p] EXCEPT !.pc = "printing"] /\ lpw[p].pc = "waiting"
        BY <2>2, <3>1 DEF LpGoesOn, Elsewhere
      <4>2. QED BY <2>1, <4>1 DEF LpWriter
    <3>2. CASE ~LpGoesOn(p)
      <4>1. w = Idle
        BY <2>2, <3>2
      <4>2. QED BY <4>1 DEF Idle, LpWriter
    <3>3. QED BY <3>1, <3>2
  <2>4. lpw' = [lpw EXCEPT ![p] = w] /\ UNCHANGED <<paper, unheard, lp_calls>>
    BY <1>4, <2>2 DEF LpReturns, LpGoesOn, LpSignal, LpStays
  <2>5. QED BY <2>3, <2>4, LpStepAside
<1>5. CASE UNCHANGED lVars
  BY <1>1, <1>5 DEF lVars
<1>6. CASE LpNext
  BY <1>2, <1>3, <1>4, <1>6, LpBegins, LpWriteData DEF LpNext
<1>7. QED BY <1>5, <1>6

(***************************************************************************)
(* Log, screens, keyboard and printer together: each moves only its own.   *)
(***************************************************************************)
StreamsInv == KlogInv /\ ScrInv /\ KeyInv /\ LpInv

LEMMA StreamsInit_Inv == Init => StreamsInv
BY KlogInit_Inv, ScrInit_Inv, KeyInit_Inv, LpInit_Inv DEF Init, StreamsInv

LEMMA StreamsNext_Inv ==
  ASSUME StreamsInv, [Next]_vars
  PROVE  StreamsInv'
<1>1. [KlogNext]_kVars /\ [ScrNext]_scrVars /\ [KeyNext]_yVars /\ [LpNext]_lVars
  BY DEF Next, vars
<1>2. KlogInv'
  BY <1>1, KlogNext_Inv DEF StreamsInv
<1>3. ScrInv'
  BY <1>1, ScrNext_Inv DEF StreamsInv
<1>4. KeyInv'
  BY <1>1, KeyNext_Inv DEF StreamsInv
<1>5. LpInv'
  BY <1>1, LpNext_Inv DEF StreamsInv
<1>6. QED BY <1>2, <1>3, <1>4, <1>5 DEF StreamsInv

LEMMA StreamsInv_Exact ==
  ASSUME StreamsInv
  PROVE  StreamsExact
<1>1. LogExact
  BY KlogInv_Exact DEF StreamsInv
<1>2. ScreenWhole
  BY ScrInv_Whole DEF StreamsInv
<1>3. KeysExact
  BY KeyInv_Exact DEF StreamsInv
<1>4. PrintedInOrder
  BY LpInv_Sound DEF StreamsInv
<1>5. QED BY <1>1, <1>2, <1>3, <1>4 DEF StreamsExact

\* What is logged is read once and in order, what a screen shows stays within it and the cursor is where the
\* hardware shows it, the state of the keys is that of the codes counted so far, and what is printed is printed
\* in order, a byte at most twice when its acknowledgement is lost (klog_write(), klog_read(), write_to_vtty(),
\* vtty_keyboard_interrupt(), lp_write_data()).
THEOREM StreamsAlwaysExact == Spec => []StreamsExact
<1>1. Init => StreamsInv
  BY StreamsInit_Inv
<1>2. StreamsInv /\ [Next]_vars => StreamsInv'
  BY StreamsNext_Inv
<1>3. StreamsInv => StreamsExact
  BY StreamsInv_Exact
<1>4. QED BY <1>1, <1>2, <1>3, PTL DEF Spec
=============================================================================
