----------------------------- MODULE Remainders -----------------------------
(***************************************************************************)
(* Numbers that go round a ring of n places: what their remainders say.    *)
(* The sender's ring and the mpsc queue both index an array this way.      *)
(*                                                                         *)
(* And induction.  The library states it about an operator, of which the   *)
(* provers cannot be given an instance; here it is about a set.            *)
(***************************************************************************)
EXTENDS Integers, WellFoundedInduction, TLAPS

\* A number as a multiple of n and a rest.
LEMMA Division ==
    ASSUME NEW n \in Nat \ {0}, NEW i \in Nat
    PROVE  /\ i \div n \in Int /\ i % n \in 0 .. n - 1
           /\ i = n * (i \div n) + (i % n)
  OBVIOUS

\* Two numbers less than n apart with the same rest are equal.
LEMMA CloseMultiples ==
    ASSUME NEW n \in Nat \ {0}, NEW a \in Int, NEW b \in Int,
           NEW r \in 0 .. n - 1,
           n * a + r - n < n * b + r, n * b + r < n * a + r + n
    PROVE  n * a = n * b
<1>1. CASE a < b
  <2>1. n * (a + 1) <= n * b
    BY <1>1
  <2>2. n * (a + 1) = n * a + n
    OBVIOUS
  <2>3. QED  BY <2>1, <2>2
<1>2. CASE b < a
  <2>1. n * (b + 1) <= n * a
    BY <1>2
  <2>2. n * (b + 1) = n * b + n
    OBVIOUS
  <2>3. QED  BY <2>1, <2>2
<1>3. QED  BY <1>1, <1>2

\* Two numbers n apart have the same rest.
LEMMA SameRest ==
    ASSUME NEW n \in Nat \ {0}, NEW a \in Int, NEW b \in Int,
           NEW r \in 0 .. n - 1, NEW s \in 0 .. n - 1,
           n * a + r + n = n * b + s
    PROVE  r = s
<1>1. n * (a + 1) = n * a + n /\ n * (a + 2) = n * a + n + n
  OBVIOUS
<1>2. CASE a + 2 <= b
  <2>1. n * (a + 2) <= n * b
    BY <1>2
  <2>2. QED  BY <1>1, <2>1
<1>3. CASE b <= a
  <2>1. n * b <= n * a
    BY <1>3
  <2>2. QED  BY <2>1
<1>4. CASE b = a + 1
  BY <1>1, <1>4
<1>5. QED  BY <1>2, <1>3, <1>4

\* The places of one round differ.
LEMMA RoundDiffers ==
    ASSUME NEW n \in Nat \ {0}, NEW i \in Nat, NEW j \in Nat, i < j, j < i + n
    PROVE  i % n # j % n
<1> DEFINE a == i \div n
           b == j \div n
           r == i % n
           s == j % n
<1>1. /\ a \in Int /\ b \in Int
      /\ r \in 0 .. n - 1 /\ s \in 0 .. n - 1
      /\ i = n * a + r /\ j = n * b + s
  BY Division
<1> HIDE DEF a, b, r, s
<1>2. r = s => n * a = n * b
  BY <1>1, CloseMultiples
<1>3. r # s
  BY <1>1, <1>2
<1>4. QED  BY <1>3 DEF r, s

\* The next round uses the same places.
LEMMA RoundRepeats ==
    ASSUME NEW n \in Nat \ {0}, NEW i \in Nat
    PROVE  (i + n) % n = i % n
<1> DEFINE j == i + n
           a == i \div n
           b == j \div n
           r == i % n
           s == j % n
<1>1. j \in Nat /\ i + n = j
  OBVIOUS
<1> HIDE DEF j
<1>2. /\ a \in Int /\ b \in Int
      /\ r \in 0 .. n - 1 /\ s \in 0 .. n - 1
      /\ i = n * a + r /\ j = n * b + s
  BY <1>1, Division
<1> HIDE DEF a, b, r, s
<1>3. r = s
  BY <1>1, <1>2, SameRest
<1>4. QED  BY <1>1, <1>3 DEF r, s

\* A number below n is its own place, and n is the first one again.
LEMMA FirstRound ==
    ASSUME NEW n \in Nat \ {0}
    PROVE  n % n = 0 /\ \A i \in 0 .. n - 1 : i % n = i
<1>1. \A i \in 0 .. n - 1 : i % n = i
  OBVIOUS
<1>2. 0 \in Nat /\ 0 + n = n /\ 0 % n = 0
  BY <1>1
<1>3. QED  BY <1>1, <1>2, RoundRepeats

\* The place behind a place.
LEMMA NextPlace ==
    ASSUME NEW n \in Nat \ {0}, NEW i \in Nat
    PROVE  (i + 1) % n = IF i % n = n - 1 THEN 0 ELSE (i % n) + 1
<1> DEFINE j == i + 1
           a == i \div n
           b == j \div n
           r == i % n
           s == j % n
<1>1. j \in Nat /\ i + 1 = j
  OBVIOUS
<1> HIDE DEF j
<1>2. /\ a \in Int /\ b \in Int
      /\ r \in 0 .. n - 1 /\ s \in 0 .. n - 1
      /\ i = n * a + r /\ j = n * b + s
  BY <1>1, Division
<1> HIDE DEF a, b, r, s
<1>3. CASE r = n - 1
  <2>1. n * (a + 1) = n * a + n
    BY <1>2
  <2>2. j = n * (a + 1) + 0
    BY <1>1, <1>2, <1>3, <2>1
  <2>3. s = 0
    <3>1. CASE b >= a + 2
      <4>1. n * b >= n * (a + 2) /\ n * (a + 2) = n * (a + 1) + n
        BY <1>2, <3>1
      <4>2. QED  BY <1>2, <2>2, <4>1
    <3>2. CASE b <= a
      <4>1. n * b <= n * a
        BY <1>2, <3>2
      <4>2. QED  BY <1>2, <2>1, <2>2, <4>1
    <3>3. CASE b = a + 1
      BY <1>2, <2>2, <3>3
    <3>4. QED  BY <1>2, <3>1, <3>2, <3>3
  <2>4. QED  BY <1>1, <1>3, <2>3 DEF r, s
<1>4. CASE r # n - 1
  <2>1. r + 1 \in 0 .. n - 1 /\ j = n * a + (r + 1)
    BY <1>1, <1>2, <1>4
  <2>2. s = r + 1
    <3>1. CASE b > a
      <4>1. n * b >= n * (a + 1) /\ n * (a + 1) = n * a + n
        BY <1>2, <3>1
      <4>2. QED  BY <1>2, <2>1, <4>1
    <3>2. CASE b < a
      <4>1. n * a >= n * (b + 1) /\ n * (b + 1) = n * b + n
        BY <1>2, <3>2
      <4>2. QED  BY <1>2, <2>1, <4>1
    <3>3. CASE b = a
      BY <1>2, <2>1, <3>3
    <3>4. QED  BY <1>2, <3>1, <3>2, <3>3
  <2>3. QED  BY <1>1, <1>4, <2>2 DEF r, s
<1>5. QED  BY <1>3, <1>4

\* Numbers in the same place have the same place behind them.
LEMMA SamePlaceNext ==
    ASSUME NEW n \in Nat \ {0}, NEW i \in Nat, NEW j \in Nat, i % n = j % n
    PROVE  (i + 1) % n = (j + 1) % n
  BY NextPlace

-----------------------------------------------------------------------------
(* Induction.                                                              *)

Smaller == {ab \in Nat \X Nat : ab[1] < ab[2]}

LEMMA SmallerWellFounded == IsWellFoundedOn(Smaller, Nat)
  BY NatLessThanWellFounded, Zenon DEF OpToRel, Smaller

\* Numbers have a least one.
LEMMA LeastNumber ==
    ASSUME NEW T, T \subseteq Nat, T # {}
    PROVE  \E a \in T : \A b \in T : a <= b
<1>1. PICK a \in T : \A b \in T : ~(<<b, a>> \in Smaller)
  BY WFMin, SmallerWellFounded
<1>2. \A b \in T : ~(b < a)
  BY <1>1 DEF Smaller
<1>3. QED  BY <1>2

\* A set with 0 that has the successor of each of its numbers has them all.
LEMMA Induction ==
    ASSUME NEW S, 0 \in S, \A n \in Nat : n \in S => n + 1 \in S
    PROVE  Nat \subseteq S
<1> SUFFICES ASSUME Nat \ S # {} PROVE FALSE
  OBVIOUS
<1>1. PICK n \in Nat \ S : \A k \in Nat \ S : n <= k
  BY LeastNumber
<1>2. n # 0
  OBVIOUS
<1>3. n - 1 \in Nat
  BY <1>2
<1>4. n - 1 \in S
  BY <1>1, <1>3
<1>5. QED  BY <1>3, <1>4

IsRecursive(g, first, step) ==
    g[0] = first /\ \A n \in Nat : g[n + 1] = step[n][g[n]]

\* What is defined by recursion over the numbers exists.
LEMMA Recursion ==
    ASSUME NEW V, NEW first \in V, NEW step \in [Nat -> [V -> V]]
    PROVE  \E g \in [Nat -> V] : IsRecursive(g, first, step)
<1> DEFINE Starts(g, n) ==
             /\ g \in [0 .. n -> V] /\ g[0] = first
             /\ \A k \in 0 .. n - 1 : g[k + 1] = step[k][g[k]]
           Some == {n \in Nat : \E g : Starts(g, n)}
<1>1. Nat \subseteq Some
  <2>1. 0 \in Some
    <3>1. Starts([k \in 0 .. 0 |-> first], 0)
      OBVIOUS
    <3>2. QED  BY <3>1
  <2>2. ASSUME NEW n \in Nat, n \in Some PROVE n + 1 \in Some
    <3>1. PICK g : Starts(g, n)
      BY <2>2
    <3> DEFINE h == [k \in 0 .. n + 1 |-> IF k <= n THEN g[k] ELSE step[n][g[n]]]
    <3>2. step[n][g[n]] \in V
      BY <3>1
    <3>3. h \in [0 .. n + 1 -> V]
      BY <3>1, <3>2
    <3>4. h[0] = first
      BY <3>1
    <3>5. ASSUME NEW k \in 0 .. (n + 1) - 1 PROVE h[k + 1] = step[k][h[k]]
      <4>1. CASE k < n
        <5>1. k + 1 \in 0 .. n /\ k \in 0 .. n /\ k \in 0 .. n - 1
          BY <4>1
        <5>2. QED  BY <3>1, <5>1
      <4>2. CASE k = n
        BY <4>2
      <4>3. QED  BY <4>1, <4>2
    <3> HIDE DEF h
    <3>6. Starts(h, n + 1)
      BY <3>3, <3>4, <3>5
    <3> HIDE DEF Starts
    <3>7. QED  BY <3>6
  <2> HIDE DEF Some
  <2>3. QED  BY <2>1, <2>2, Induction
<1>2. ASSUME NEW m \in Nat, NEW n \in Nat, m <= n, NEW g, NEW h, Starts(g, m), Starts(h, n)
      PROVE  g[m] = h[m]
  <2> DEFINE Same == {k \in Nat : k <= m => g[k] = h[k]}
  <2>1. 0 \in Same
    BY <1>2
  <2>2. ASSUME NEW k \in Nat, k \in Same, k + 1 <= m PROVE g[k + 1] = h[k + 1]
    <3>1. k \in 0 .. m - 1 /\ k \in 0 .. n - 1 /\ g[k] = h[k]
      BY <1>2, <2>2
    <3>2. QED  BY <1>2, <3>1
  <2>3. ASSUME NEW k \in Nat, k \in Same PROVE k + 1 \in Same
    BY <2>2, <2>3
  <2> HIDE DEF Same
  <2>4. Nat \subseteq Same
    BY <2>1, <2>3, Induction
  <2>5. QED  BY <2>4 DEF Same
<1> DEFINE Part(n) == CHOOSE g : Starts(g, n)
           total == [n \in Nat |-> Part(n)[n]]
<1>3. \A n \in Nat : Starts(Part(n), n)
  <2>1. SUFFICES ASSUME NEW n \in Nat PROVE Starts(Part(n), n)
    OBVIOUS
  <2>2. n \in Some
    BY <1>1
  <2>3. \E g : Starts(g, n)
    BY <2>2
  <2> HIDE DEF Starts
  <2>4. QED  BY <2>3
<1> HIDE DEF Part, Some
<1>4. total \in [Nat -> V]
  BY <1>3
<1>5. total[0] = first
  BY <1>3
<1>6. ASSUME NEW n \in Nat PROVE total[n + 1] = step[n][total[n]]
  <2>1. Starts(Part(n), n) /\ Starts(Part(n + 1), n + 1)
    BY <1>3
  <2>2. Part(n)[n] = Part(n + 1)[n]
    <3>1. n + 1 \in Nat /\ n <= n + 1
      OBVIOUS
    <3> HIDE DEF Starts
    <3>2. QED  BY <1>2, <2>1, <3>1
  <2>3. Part(n + 1)[n + 1] = step[n][Part(n + 1)[n]]
    BY <2>1
  <2>4. QED  BY <2>2, <2>3
<1>7. IsRecursive(total, first, step)
  BY <1>5, <1>6 DEF IsRecursive
<1> HIDE DEF total
<1>8. QED  BY <1>4, <1>7

=============================================================================
