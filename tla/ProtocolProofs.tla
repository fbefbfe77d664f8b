--------------------------- MODULE ProtocolProofs ---------------------------
(***************************************************************************)
(* Proofs about Varint and Protocol: what varint_write puts down is what   *)
(* the client reads, every packet is understood as it was meant, answers   *)
(* fill their memory, and DECODE_VARINT takes what the client confirms.    *)
(*                                                                         *)
(* The recursive functions of the two modules are followed by Induction    *)
(* of Remainders.  The invariant is StreamRight: every packet that was     *)
(* sent says what it means, and the wire has the frames of just those that *)
(* the client has not read.                                                *)
(***************************************************************************)
EXTENDS Protocol, Remainders, SequenceTheorems, FiniteSetTheorems, TLAPS

-----------------------------------------------------------------------------
(* Powers, and numbers that are added up.                                  *)

\* Power is the function that its recursion says.
LEMMA PowerIs ==
    ASSUME NEW base \in Nat
    PROVE  \E g \in [Nat -> Nat] :
              /\ g[0] = 1 /\ \A n \in Nat : g[n + 1] = base * g[n]
              /\ \A n \in Nat : Power(base, n) = g[n]
<1> DEFINE step == [n \in Nat |-> [v \in Nat |-> base * v]]
<1>0. 1 \in Nat
  OBVIOUS
<1>1. step \in [Nat -> [Nat -> Nat]]
  OBVIOUS
<1> HIDE DEF step
<1>2. PICK g \in [Nat -> Nat] : IsRecursive(g, 1, step)
  BY <1>0, <1>1, Recursion
<1>3. g[0] = 1 /\ \A n \in Nat : g[n + 1] = base * g[n]
  BY <1>2 DEF IsRecursive, step
<1> DEFINE IsPower(f) == f = [k \in Nat |-> IF k = 0 THEN 1 ELSE base * f[k - 1]]
           power == CHOOSE f : IsPower(f)
<1>4. IsPower(g)
  <2>1. \A k \in Nat : g[k] = IF k = 0 THEN 1 ELSE base * g[k - 1]
    <3>1. \A k \in Nat \ {0} : k - 1 \in Nat /\ (k - 1) + 1 = k
      OBVIOUS
    <3>2. QED  BY <1>3, <3>1
  <2>2. QED  BY <2>1
<1> HIDE DEF IsPower
<1>5. IsPower(power)
  BY <1>4
<1> HIDE DEF power
<1>6. power[0] = 1 /\ \A n \in Nat : power[n + 1] = base * power[n]
  <2>1. \A k \in Nat : power[k] = IF k = 0 THEN 1 ELSE base * power[k - 1]
    BY <1>5 DEF IsPower
  <2>2. \A n \in Nat : n + 1 \in Nat /\ n + 1 # 0 /\ (n + 1) - 1 = n
    OBVIOUS
  <2>3. QED  BY <2>1, <2>2
<1>7. \A n \in Nat : power[n] = g[n]
  <2> DEFINE S == {n \in Nat : power[n] = g[n]}
  <2>1. 0 \in S
    BY <1>3, <1>6
  <2>2. \A n \in Nat : n \in S => n + 1 \in S
    BY <1>3, <1>6
  <2> HIDE DEF S
  <2>3. Nat \subseteq S
    BY <2>1, <2>2, Induction
  <2>4. QED  BY <2>3 DEF S
<1>8. \A n \in Nat : Power(base, n) = power[n]
  BY DEF Power, power, IsPower
<1>9. QED  BY <1>3, <1>7, <1>8

LEMMA PowerType ==
    ASSUME NEW base \in Nat, NEW n \in Nat
    PROVE  Power(base, n) \in Nat
<1>1. PICK g \in [Nat -> Nat] : \A k \in Nat : Power(base, k) = g[k]
  BY PowerIs
<1>2. QED  BY <1>1

LEMMA PowerZero ==
    ASSUME NEW base \in Nat
    PROVE  Power(base, 0) = 1
<1>1. PICK g \in [Nat -> Nat] : g[0] = 1 /\ \A k \in Nat : Power(base, k) = g[k]
  BY PowerIs
<1>2. QED  BY <1>1

LEMMA PowerNext ==
    ASSUME NEW base \in Nat, NEW n \in Nat
    PROVE  Power(base, n + 1) = base * Power(base, n)
<1>1. PICK g \in [Nat -> Nat] :
          /\ \A k \in Nat : g[k + 1] = base * g[k]
          /\ \A k \in Nat : Power(base, k) = g[k]
  BY PowerIs
<1>2. QED  BY <1>1

LEMMA PowerPositive ==
    ASSUME NEW base \in Nat \ {0}, NEW n \in Nat
    PROVE  Power(base, n) \in Nat \ {0}
<1> DEFINE S == {k \in Nat : Power(base, k) >= 1}
<1>1. 0 \in S
  BY PowerZero
<1>2. ASSUME NEW k \in Nat, k \in S PROVE k + 1 \in S
  <2>1. Power(base, k + 1) = base * Power(base, k) /\ Power(base, k) \in Nat /\ Power(base, k) >= 1
    BY <1>2, PowerNext, PowerType
  <2>2. Power(base, k + 1) >= 1
    BY <2>1
  <2>3. QED  BY <2>2
<1> HIDE DEF S
<1>3. Nat \subseteq S
  BY <1>1, <1>2, Induction
<1>4. QED  BY <1>3, PowerType DEF S

LEMMA PowerSum ==
    ASSUME NEW base \in Nat, NEW m \in Nat, NEW n \in Nat
    PROVE  Power(base, m + n) = Power(base, m) * Power(base, n)
<1> DEFINE S == {k \in Nat : Power(base, m + k) = Power(base, m) * Power(base, k)}
<1>1. 0 \in S
  <2>1. m + 0 = m /\ Power(base, m) * 1 = Power(base, m)
    BY PowerType
  <2>2. QED  BY <2>1, PowerZero
<1>2. ASSUME NEW k \in Nat, k \in S PROVE k + 1 \in S
  <2>1. /\ Power(base, k + 1) = base * Power(base, k)
        /\ Power(base, (m + k) + 1) = base * Power(base, m + k)
        /\ Power(base, m + k) = Power(base, m) * Power(base, k)
    BY <1>2, PowerNext
  <2>2. \A p, q \in Nat : base * (p * q) = p * (base * q)
    OBVIOUS
  <2>3. Power(base, (m + k) + 1) = Power(base, m) * Power(base, k + 1)
    BY <2>1, <2>2, PowerType
  <2>4. (m + k) + 1 = m + (k + 1)
    OBVIOUS
  <2>5. QED  BY <2>3, <2>4
<1> HIDE DEF S
<1>3. Nat \subseteq S
  BY <1>1, <1>2, Induction
<1>4. QED  BY <1>3 DEF S

LEMMA PowerMonotone ==
    ASSUME NEW base \in Nat \ {0}, NEW m \in Nat, NEW n \in Nat, m <= n
    PROVE  Power(base, m) <= Power(base, n)
<1>1. n - m \in Nat /\ m + (n - m) = n
  OBVIOUS
<1>2. Power(base, n) = Power(base, m) * Power(base, n - m)
  BY <1>1, PowerSum
<1>3. \A p, q \in Nat \ {0} : p <= p * q
  OBVIOUS
<1>4. QED  BY <1>1, <1>2, <1>3, PowerPositive

LEMMA PowerPower ==
    ASSUME NEW base \in Nat, NEW m \in Nat, NEW n \in Nat
    PROVE  Power(Power(base, m), n) = Power(base, m * n)
<1> DEFINE big == Power(base, m)
           S == {k \in Nat : Power(big, k) = Power(base, m * k)}
<1>0. big \in Nat
  BY PowerType
<1> HIDE DEF big
<1>1. 0 \in S
  BY <1>0, PowerZero, m * 0 = 0
<1>2. ASSUME NEW k \in Nat, k \in S PROVE k + 1 \in S
  <2>1. m * (k + 1) = m + m * k /\ m * k \in Nat
    OBVIOUS
  <2>2. Power(base, m + m * k) = big * Power(base, m * k)
    BY <2>1, PowerSum DEF big
  <2>3. Power(big, k + 1) = big * Power(big, k)
    BY <1>0, PowerNext
  <2>4. QED  BY <1>2, <2>1, <2>2, <2>3
<1> HIDE DEF S
<1>3. Nat \subseteq S
  BY <1>1, <1>2, Induction
<1>4. QED  BY <1>3 DEF S, big

-----------------------------------------------------------------------------
(* Division.                                                               *)

\* A number as a multiple of n and a rest, below 0 as well.
LEMMA DivisionInt ==
    ASSUME NEW n \in Nat \ {0}, NEW i \in Int
    PROVE  /\ i \div n \in Int /\ i % n \in 0 .. n - 1
           /\ i = n * (i \div n) + (i % n)
  OBVIOUS

\* There is only one such multiple and rest.
LEMMA Quotient ==
    ASSUME NEW n \in Nat \ {0}, NEW q \in Int, NEW r \in 0 .. n - 1, NEW i \in Int, i = n * q + r
    PROVE  i \div n = q /\ i % n = r
<1> DEFINE p == i \div n
           s == i % n
<1>1. p \in Int /\ s \in 0 .. n - 1 /\ i = n * p + s
  BY DivisionInt
<1> HIDE DEF p, s
<1>2. n * p = n * q
  BY <1>1, CloseMultiples
<1>3. p = q
  <2>1. CASE p < q
    <3>1. n * (p + 1) <= n * q /\ n * (p + 1) = n * p + n
      BY <1>1, <2>1
    <3>2. QED  BY <1>1, <1>2, <3>1
  <2>2. CASE q < p
    <3>1. n * (q + 1) <= n * p /\ n * (q + 1) = n * q + n
      BY <1>1, <2>2
    <3>2. QED  BY <1>1, <1>2, <3>1
  <2>3. QED  BY <1>1, <2>1, <2>2
<1>4. s = r
  BY <1>1, <1>2
<1>5. QED  BY <1>3, <1>4 DEF p, s

\* Dividing twice is dividing by the product.
LEMMA DivDiv ==
    ASSUME NEW u \in Nat, NEW a \in Nat \ {0}, NEW b \in Nat \ {0}
    PROVE  (u \div a) \div b = u \div (a * b)
<1> DEFINE q == u \div a
           r == u % a
           p == q \div b
           s == q % b
<1>1. q \in Int /\ r \in 0 .. a - 1 /\ u = a * q + r
  BY DivisionInt
<1> HIDE DEF q, r
<1>2. p \in Int /\ s \in 0 .. b - 1 /\ q = b * p + s
  BY <1>1, DivisionInt
<1> HIDE DEF p, s
<1>3. a * b \in Nat \ {0}
  OBVIOUS
<1>4. a * s + r \in 0 .. a * b - 1
  <2>1. a * s <= a * (b - 1)
    BY <1>2
  <2>2. a * (b - 1) = a * b - a /\ a * s >= 0
    BY <1>2
  <2>3. a * s \in Int
    BY <1>2
  <2>4. QED  BY <1>1, <1>3, <2>1, <2>2, <2>3
<1>5. u = (a * b) * p + (a * s + r)
  <2>1. a * (b * p + s) = (a * b) * p + a * s
    BY <1>2
  <2>2. QED  BY <1>1, <1>2, <2>1
<1>6. u \div (a * b) = p
  BY <1>2, <1>3, <1>4, <1>5, Quotient
<1>7. QED  BY <1>6 DEF p, q

-----------------------------------------------------------------------------
(* Sums.                                                                   *)

\* g has the sums of the first elements of f, up to n of them.
AddsUp(g, f, n) == g = [k \in 0 .. n |-> IF k = 0 THEN 0 ELSE g[k - 1] + f[k]]

LEMMA AddsUpIs ==
    ASSUME NEW f, NEW n \in Nat, NEW g, AddsUp(g, f, n)
    PROVE  g[0] = 0 /\ \A k \in 1 .. n : g[k] = g[k - 1] + f[k]
<1>1. \A k \in 0 .. n : g[k] = IF k = 0 THEN 0 ELSE g[k - 1] + f[k]
  BY Zenon DEF AddsUp
<1>2. QED  BY <1>1

LEMMA IsAddsUp ==
    ASSUME NEW f, NEW n \in Nat, NEW g, g[0] = 0, \A k \in 1 .. n : g[k] = g[k - 1] + f[k]
    PROVE  AddsUp([k \in 0 .. n |-> g[k]], f, n)
<1> DEFINE h == [k \in 0 .. n |-> g[k]]
<1>1. \A k \in 0 .. n : h[k] = IF k = 0 THEN 0 ELSE h[k - 1] + f[k]
  <2>1. \A k \in 0 .. n : k # 0 => k \in 1 .. n /\ k - 1 \in 0 .. n
    OBVIOUS
  <2>2. QED  BY <2>1
<1>2. QED  BY <1>1 DEF AddsUp

LEMMA AddsUpExists ==
    ASSUME NEW f, NEW n \in Nat
    PROVE  \E g : AddsUp(g, f, n)
<1> DEFINE S == {k \in Nat : \E g : AddsUp(g, f, k)}
<1>1. 0 \in S
  <2> DEFINE g == [k \in 0 .. 0 |-> 0]
  <2>1. AddsUp(g, f, 0)
    BY DEF AddsUp
  <2> HIDE DEF g
  <2>2. QED  BY <2>1
<1>2. ASSUME NEW m \in Nat, m \in S PROVE m + 1 \in S
  <2>1. PICK g : AddsUp(g, f, m)
    BY <1>2
  <2> DEFINE h == [k \in Nat |-> IF k <= m THEN g[k] ELSE g[m] + f[m + 1]]
             part == [k \in 0 .. m + 1 |-> h[k]]
  <2>2. g[0] = 0 /\ \A k \in 1 .. m : g[k] = g[k - 1] + f[k]
    BY <2>1, AddsUpIs
  <2>3. h[0] = 0
    BY <2>2
  <2>4. ASSUME NEW k \in 1 .. m + 1 PROVE h[k] = h[k - 1] + f[k]
    <3>1. CASE k <= m
      <4>1. k \in 1 .. m /\ k \in Nat /\ k - 1 \in Nat /\ k - 1 <= m
        BY <3>1
      <4>2. QED  BY <2>2, <4>1
    <3>2. CASE k = m + 1
      BY <3>2
    <3>3. QED  BY <3>1, <3>2
  <2> HIDE DEF h
  <2>5. AddsUp(part, f, m + 1)
    BY <2>3, <2>4, IsAddsUp
  <2> HIDE DEF part
  <2>6. QED  BY <2>5
<1> HIDE DEF S
<1>3. Nat \subseteq S
  BY <1>1, <1>2, Induction
<1>4. QED  BY <1>3 DEF S

LEMMA AddsUpSame ==
    ASSUME NEW f, NEW m \in Nat, NEW n \in Nat, NEW g, NEW h,
           AddsUp(g, f, m), AddsUp(h, f, n), m <= n
    PROVE  g[m] = h[m]
<1>1. g[0] = 0 /\ \A k \in 1 .. m : g[k] = g[k - 1] + f[k]
  BY AddsUpIs
<1>2. h[0] = 0 /\ \A k \in 1 .. n : h[k] = h[k - 1] + f[k]
  BY AddsUpIs
<1> DEFINE S == {k \in Nat : k <= m => g[k] = h[k]}
<1>3. 0 \in S
  BY <1>1, <1>2
<1>4. ASSUME NEW k \in Nat, k \in S PROVE k + 1 \in S
  <2>1. SUFFICES ASSUME k + 1 <= m PROVE g[k + 1] = h[k + 1]
    OBVIOUS
  <2>2. k + 1 \in 1 .. m /\ k + 1 \in 1 .. n /\ (k + 1) - 1 = k /\ g[k] = h[k]
    BY <1>4, <2>1
  <2>3. QED  BY <1>1, <1>2, <2>2
<1> HIDE DEF S
<1>5. Nat \subseteq S
  BY <1>3, <1>4, Induction
<1>6. QED  BY <1>5 DEF S

\* Total is the last of the sums.
LEMMA TotalAddsUp ==
    ASSUME NEW f, NEW n \in Nat
    PROVE  \E g : AddsUp(g, f, n) /\ Total(f, n) = g[n]
<1> DEFINE g == CHOOSE h : AddsUp(h, f, n)
<1>1. AddsUp(g, f, n)
  BY AddsUpExists
<1>2. Total(f, n) = g[n]
  BY DEF Total, AddsUp
<1> HIDE DEF g
<1>3. QED  BY <1>1, <1>2

LEMMA TotalZero ==
    ASSUME NEW f
    PROVE  Total(f, 0) = 0
<1>1. PICK g : AddsUp(g, f, 0) /\ Total(f, 0) = g[0]
  BY TotalAddsUp
<1>2. QED  BY <1>1, AddsUpIs

LEMMA TotalNext ==
    ASSUME NEW f, NEW n \in Nat
    PROVE  Total(f, n + 1) = Total(f, n) + f[n + 1]
<1>1. PICK g : AddsUp(g, f, n) /\ Total(f, n) = g[n]
  BY TotalAddsUp
<1>2. PICK h : AddsUp(h, f, n + 1) /\ Total(f, n + 1) = h[n + 1]
  BY TotalAddsUp
<1>3. g[n] = h[n]
  BY <1>1, <1>2, AddsUpSame, n + 1 \in Nat, n <= n + 1
<1>4. h[n + 1] = h[(n + 1) - 1] + f[n + 1]
  BY <1>2, AddsUpIs, n + 1 \in Nat, n + 1 \in 1 .. n + 1
<1>5. QED  BY <1>1, <1>2, <1>3, <1>4

\* A sum of which the partial sums are known.
LEMMA TotalIs ==
    ASSUME NEW f, NEW n \in Nat, NEW g, g[0] = 0, \A k \in 1 .. n : g[k] = g[k - 1] + f[k]
    PROVE  Total(f, n) = g[n]
<1> DEFINE part == [k \in 0 .. n |-> g[k]]
<1>1. AddsUp(part, f, n)
  BY IsAddsUp
<1>2. part[n] = g[n]
  OBVIOUS
<1> HIDE DEF part
<1>3. PICK h : AddsUp(h, f, n) /\ Total(f, n) = h[n]
  BY TotalAddsUp
<1>4. QED  BY <1>1, <1>2, <1>3, AddsUpSame, n <= n

LEMMA TotalType ==
    ASSUME NEW n \in Nat, NEW f, \A k \in 1 .. n : f[k] \in Int
    PROVE  Total(f, n) \in Int
<1> DEFINE S == {k \in Nat : k <= n => Total(f, k) \in Int}
<1>1. 0 \in S
  BY TotalZero
<1>2. ASSUME NEW k \in Nat, k \in S PROVE k + 1 \in S
  <2>1. SUFFICES ASSUME k + 1 <= n PROVE Total(f, k + 1) \in Int
    OBVIOUS
  <2>2. k + 1 \in 1 .. n /\ Total(f, k) \in Int
    BY <1>2, <2>1
  <2>3. Total(f, k + 1) = Total(f, k) + f[k + 1]
    BY TotalNext
  <2>4. QED  BY <2>2, <2>3
<1> HIDE DEF S
<1>3. Nat \subseteq S
  BY <1>1, <1>2, Induction
<1>4. QED  BY <1>3 DEF S

\* Only the terms count.
LEMMA TotalSame ==
    ASSUME NEW n \in Nat, NEW f, NEW g, \A k \in 1 .. n : f[k] = g[k]
    PROVE  Total(f, n) = Total(g, n)
<1>1. PICK h : AddsUp(h, g, n) /\ Total(g, n) = h[n]
  BY TotalAddsUp
<1>2. h[0] = 0 /\ \A k \in 1 .. n : h[k] = h[k - 1] + g[k]
  BY <1>1, AddsUpIs
<1>3. \A k \in 1 .. n : h[k] = h[k - 1] + f[k]
  BY <1>2
<1>4. QED  BY <1>1, <1>2, <1>3, TotalIs

-----------------------------------------------------------------------------
(* The constants.                                                          *)

\* A byte has a segment of more than one value.
LEMMA SegmentIs == Segment \in Nat /\ Segment >= 2
<1>1. SegmentBits - 1 \in Nat /\ (SegmentBits - 1) + 1 = SegmentBits
  BY VarintAssumption
<1>2. Power(2, SegmentBits) = 2 * Power(2, SegmentBits - 1)
  BY <1>1, PowerNext
<1>3. Power(2, SegmentBits - 1) \in Nat \ {0}
  BY <1>1, PowerPositive
<1>4. QED  BY <1>2, <1>3 DEF Segment

LEMMA WordIs == Half \in Nat \ {0} /\ Word = 2 * Half
<1>1. IntBits - 1 \in Nat /\ (IntBits - 1) + 1 = IntBits
  BY VarintAssumption
<1>2. QED  BY <1>1, PowerNext, PowerPositive DEF Half, Word

\* The longest varint has room for every word.
LEMMA MaxBytesIs == MaxBytes \in Nat \ {0} /\ Word <= Power(Segment, MaxBytes)
<1> DEFINE a == IntBits + SegmentBits - 1
<1>1. SegmentBits \in Nat \ {0} /\ IntBits \in Nat /\ a \in Int /\ MaxBytes = a \div SegmentBits
  BY VarintAssumption DEF MaxBytes
<1>2. MaxBytes \in Int /\ a % SegmentBits \in 0 .. SegmentBits - 1
      /\ a = SegmentBits * MaxBytes + (a % SegmentBits)
  BY <1>1, DivisionInt
<1>3. SegmentBits * MaxBytes >= IntBits
  BY <1>1, <1>2
<1>4. MaxBytes > 0
  <2>1. SUFFICES ASSUME MaxBytes <= 0 PROVE SegmentBits * MaxBytes <= 0
    BY <1>1, <1>2, <1>3, VarintAssumption
  <2>2. QED  BY <1>1, <1>2, <2>1
<1>5. MaxBytes \in Nat /\ SegmentBits * MaxBytes \in Nat
  BY <1>1, <1>2, <1>4
<1>6. Power(Segment, MaxBytes) = Power(2, SegmentBits * MaxBytes)
  <2>1. Power(Power(2, SegmentBits), MaxBytes) = Power(2, SegmentBits * MaxBytes)
    BY <1>1, <1>5, 2 \in Nat, PowerPower
  <2>2. QED  BY <2>1 DEF Segment
<1>7. Power(2, IntBits) <= Power(2, SegmentBits * MaxBytes)
  BY <1>1, <1>3, <1>5, PowerMonotone
<1>8. QED  BY <1>4, <1>5, <1>6, <1>7 DEF Word

LEMMA Shift ==
    ASSUME NEW k \in Nat
    PROVE  /\ Power(Segment, k) \in Nat \ {0} /\ Power(Segment, 0) = 1
           /\ Power(Segment, k + 1) = Segment * Power(Segment, k)
<1>1. Segment \in Nat /\ Segment \in Nat \ {0}
  BY SegmentIs
<1>2. Power(Segment, k) \in Nat \ {0}
  BY <1>1, PowerPositive
<1>3. QED  BY <1>1, <1>2, PowerZero, PowerNext

-----------------------------------------------------------------------------
(* Digits.                                                                 *)

\* The i-th segment of u, the lowest first.
Digit(u, i) == (u \div Power(Segment, i - 1)) % Segment

LEMMA DigitType ==
    ASSUME NEW u \in Nat, NEW i \in Nat \ {0}
    PROVE  Digit(u, i) \in 0 .. Segment - 1
<1>1. i - 1 \in Nat /\ Power(Segment, i - 1) \in Nat \ {0}
  BY Shift
<1>2. u \div Power(Segment, i - 1) \in Int
  BY <1>1, DivisionInt
<1>3. Segment \in Nat \ {0}
  BY SegmentIs
<1>4. QED  BY <1>2, <1>3, DivisionInt DEF Digit

LEMMA DivOne ==
    ASSUME NEW u \in Nat
    PROVE  u \div 1 = u
  BY u = 1 * u + 0, Quotient

LEMMA Small ==
    ASSUME NEW n \in Nat \ {0}, NEW u \in 0 .. n - 1
    PROVE  u \div n = 0 /\ u % n = u
  BY u = n * 0 + u, Quotient

LEMMA DivNat ==
    ASSUME NEW u \in Nat, NEW n \in Nat \ {0}
    PROVE  u \div n \in Nat /\ u \div n <= u
<1> DEFINE q == u \div n
           r == u % n
<1>1. q \in Int /\ r \in 0 .. n - 1 /\ u = n * q + r
  BY DivisionInt
<1> HIDE DEF q, r
<1>2. q >= 0
  <2>1. SUFFICES ASSUME q <= -1 PROVE FALSE
    BY <1>1
  <2>2. n * q <= n * (-1) /\ n * (-1) = -n
    BY <1>1, <2>1
  <2>3. QED  BY <1>1, <2>2
<1>3. n * q >= q
  BY <1>1, <1>2
<1>4. QED  BY <1>1, <1>2, <1>3 DEF q

\* The rest of u after k digits.
LEMMA NextRest ==
    ASSUME NEW u \in Nat, NEW k \in Nat
    PROVE  u \div Power(Segment, k) = Segment * (u \div Power(Segment, k + 1)) + Digit(u, k + 1)
<1> DEFINE a == u \div Power(Segment, k)
<1>1. Power(Segment, k) \in Nat \ {0} /\ Segment \in Nat \ {0}
  BY Shift, SegmentIs
<1>2. a \in Nat
  BY <1>1, DivNat
<1>3. a \div Segment = u \div (Power(Segment, k) * Segment)
  BY <1>1, DivDiv
<1>4. Power(Segment, k) * Segment = Power(Segment, k + 1)
  BY <1>1, Shift
<1>5. Digit(u, k + 1) = a % Segment
  BY (k + 1) - 1 = k DEF Digit
<1> HIDE DEF a
<1>6. a = Segment * (a \div Segment) + (a % Segment)
  BY <1>1, <1>2, DivisionInt
<1>7. QED  BY <1>3, <1>4, <1>5, <1>6 DEF a

\* A digit of the quotient is a digit of the number.
LEMMA DigitOfQuotient ==
    ASSUME NEW u \in Nat, NEW i \in Nat \ {0}
    PROVE  Digit(u \div Segment, i) = Digit(u, i + 1)
<1>1. i - 1 \in Nat /\ (i + 1) - 1 = (i - 1) + 1
  OBVIOUS
<1>2. Power(Segment, i - 1) \in Nat \ {0} /\ Segment \in Nat \ {0}
  BY <1>1, Shift, SegmentIs
<1>3. (u \div Segment) \div Power(Segment, i - 1) = u \div (Segment * Power(Segment, i - 1))
  BY <1>2, DivDiv
<1>4. Segment * Power(Segment, i - 1) = Power(Segment, (i + 1) - 1)
  BY <1>1, Shift
<1>5. QED  BY <1>3, <1>4 DEF Digit

\* A number is the sum of its digits, each at its place.
LEMMA DigitsAddUp ==
    ASSUME NEW u \in Nat, NEW n \in Nat, u < Power(Segment, n),
           NEW f, \A k \in 1 .. n : f[k] = Digit(u, k) * Power(Segment, k - 1)
    PROVE  Total(f, n) = u
<1> DEFINE g == [k \in Nat |-> u - Power(Segment, k) * (u \div Power(Segment, k))]
<1>1. g[0] = 0
  BY Shift, DivOne
<1>2. ASSUME NEW k \in 1 .. n PROVE g[k] = g[k - 1] + f[k]
  <2> DEFINE p == Power(Segment, k - 1)
             q == u \div Power(Segment, k)
             d == Digit(u, k)
  <2>1. k - 1 \in Nat /\ (k - 1) + 1 = k /\ k \in Nat \ {0}
    OBVIOUS
  <2>2. p \in Nat \ {0} /\ Power(Segment, k) = Segment * p /\ Power(Segment, k) \in Nat \ {0}
    BY <2>1, Shift
  <2>3. q \in Nat /\ d \in Int
    <3>1. q \in Nat
      BY <2>2, DivNat
    <3>2. d \in 0 .. Segment - 1
      BY <2>1, DigitType
    <3>3. QED  BY <3>1, <3>2, SegmentIs
  <2>4. u \div p = Segment * q + d
    BY <2>1, NextRest
  <2>5. f[k] = d * p
    OBVIOUS
  <2>6. g[k] = u - (Segment * p) * q /\ g[k - 1] = u - p * (u \div p)
    BY <2>1, <2>2
  <2> HIDE DEF p, q, d, g
  <2>7. p * (Segment * q + d) = (Segment * p) * q + d * p
    BY <2>2, <2>3, SegmentIs
  <2>8. (Segment * p) * q \in Int /\ d * p \in Int
    BY <2>2, <2>3, SegmentIs
  <2>9. g[k] = u - (Segment * p) * q /\ g[k - 1] = u - ((Segment * p) * q + d * p)
    BY <2>4, <2>6, <2>7
  <2>10. QED  BY <2>5, <2>8, <2>9
<1>3. g[n] = u
  <2>1. Power(Segment, n) \in Nat \ {0}
    BY Shift
  <2>2. u \div Power(Segment, n) = 0
    BY <2>1, Small
  <2>3. QED  BY <2>1, <2>2
<1> HIDE DEF g
<1>4. QED  BY <1>1, <1>2, <1>3, TotalIs

-----------------------------------------------------------------------------
(* What is written.                                                        *)

\* u takes n bytes.
Takes(u, n) ==
    /\ n \in 1 .. MaxBytes /\ u < Power(Segment, n)
    /\ \A m \in 1 .. n - 1 : Power(Segment, m) <= u

\* u as n bytes.
Written(u, n) == [i \in 1 .. n |-> IF i = n THEN Digit(u, i) ELSE Digit(u, i) + Segment]

\* Every word takes some number of bytes, and only one.
LEMMA TakesSome ==
    ASSUME NEW u \in UInts
    PROVE  \E n : Takes(u, n)
<1> DEFINE T == {n \in 1 .. MaxBytes : u < Power(Segment, n)}
<1>1. MaxBytes \in T
  <2>1. u \in Nat /\ u < Word /\ Word \in Nat
    BY WordIs DEF UInts
  <2>2. Power(Segment, MaxBytes) \in Nat
    BY MaxBytesIs, Shift
  <2>3. QED  BY <2>1, <2>2, MaxBytesIs
<1>2. PICK n \in T : \A m \in T : n <= m
  <2>1. T \subseteq Nat /\ T # {}
    BY <1>1, MaxBytesIs
  <2> HIDE DEF T
  <2>2. QED  BY <2>1, LeastNumber
<1>3. ASSUME NEW m \in 1 .. n - 1 PROVE Power(Segment, m) <= u
  <2>1. m \in 1 .. MaxBytes /\ m < n
    BY <1>2, MaxBytesIs
  <2>2. m \notin T
    BY <1>2, <2>1
  <2>3. Power(Segment, m) \in Nat /\ u \in Nat
    BY <2>1, Shift, WordIs DEF UInts
  <2>4. QED  BY <2>1, <2>2, <2>3
<1>4. QED  BY <1>2, <1>3 DEF Takes

LEMMA TakesOne ==
    ASSUME NEW u \in Nat, NEW m, NEW n, Takes(u, m), Takes(u, n)
    PROVE  m = n
<1>1. m \in Nat \ {0} /\ n \in Nat \ {0}
  BY MaxBytesIs DEF Takes
<1>2. Power(Segment, m) \in Nat /\ Power(Segment, n) \in Nat
  BY <1>1, Shift
<1>3. ~(m < n)
  BY <1>1, <1>2 DEF Takes
<1>4. ~(n < m)
  BY <1>1, <1>2 DEF Takes
<1>5. QED  BY <1>1, <1>3, <1>4

\* A number less than a segment takes one byte.
LEMMA TakesSmall ==
    ASSUME NEW u \in Nat, u < Segment
    PROVE  Takes(u, 1) /\ Written(u, 1) = <<u>>
<1>1. Power(Segment, 0) = 1 /\ Power(Segment, 0 + 1) = Segment * Power(Segment, 0)
  BY Shift
<1>2. Power(Segment, 1) = Segment
  BY <1>1, SegmentIs
<1>3. Takes(u, 1)
  BY <1>2, MaxBytesIs DEF Takes
<1>4. Digit(u, 1) = u
  <2>1. u \div Power(Segment, 1 - 1) = u
    BY <1>1, DivOne
  <2>2. u % Segment = u
    BY SegmentIs, Small
  <2>3. QED  BY <2>1, <2>2 DEF Digit
<1>5. Written(u, 1) = <<u>>
  BY <1>4 DEF Written
<1>6. QED  BY <1>3, <1>5

\* One element in front of a sequence.
LEMMA InFront ==
    ASSUME NEW S, NEW x \in S, NEW b \in Seq(S)
    PROVE  <<x>> \o b = [i \in 1 .. Len(b) + 1 |-> IF i = 1 THEN x ELSE b[i - 1]]
  OBVIOUS

\* A greater number takes a byte more than its quotient.
LEMMA TakesLarge ==
    ASSUME NEW u \in UInts, Segment <= u
    PROVE  /\ u \div Segment \in UInts /\ u \div Segment < u
           /\ \A n : Takes(u \div Segment, n) =>
                /\ Takes(u, n + 1)
                /\ Written(u, n + 1) = <<(u % Segment) + Segment>> \o Written(u \div Segment, n)
<1> DEFINE q == u \div Segment
<1>1. Segment \in Nat \ {0} /\ Segment >= 2 /\ u \in Nat /\ u >= 2 /\ u < Word /\ Word \in Nat
  BY SegmentIs, WordIs DEF UInts
<1>2. q \in Nat /\ u % Segment \in 0 .. Segment - 1 /\ u = Segment * q + (u % Segment)
  <2>1. q \in Nat
    BY <1>1, DivNat
  <2>2. u % Segment \in 0 .. Segment - 1 /\ u = Segment * (u \div Segment) + (u % Segment)
    BY <1>1, DivisionInt
  <2>3. QED  BY <2>1, <2>2
<1> HIDE DEF q
<1>3. q < u
  <2>1. q >= 1
    <3>1. SUFFICES ASSUME q = 0 PROVE FALSE
      BY <1>2
    <3>2. u < Segment
      BY <1>1, <1>2, <3>1
    <3>3. QED  BY <1>1, <3>2
  <2>2. Segment * q >= 2 * q
    BY <1>1, <1>2
  <2>3. Segment * q \in Int
    BY <1>1, <1>2
  <2>4. QED  BY <1>1, <1>2, <2>1, <2>2, <2>3
<1>4. q \in UInts
  BY <1>1, <1>2, <1>3 DEF UInts
\* u is below a power exactly when q is below the one before.
<1>5. ASSUME NEW k \in Nat
      PROVE  u < Power(Segment, k + 1) <=> q < Power(Segment, k)
  <2> DEFINE p == Power(Segment, k)
  <2>1. p \in Nat \ {0} /\ Power(Segment, k + 1) = Segment * p
    BY Shift
  <2> HIDE DEF p
  <2>2. CASE q < p
    <3>1. Segment * (q + 1) <= Segment * p
      BY <1>1, <1>2, <2>1, <2>2
    <3>2. Segment * (q + 1) = Segment * q + Segment
      BY <1>1, <1>2
    <3>3. Segment * q \in Int /\ Segment * p \in Int
      BY <1>1, <1>2, <2>1
    <3>4. u < Segment * p
      BY <1>1, <1>2, <3>1, <3>2, <3>3
    <3>5. QED  BY <2>1, <2>2, <3>4 DEF p
  <2>3. CASE p <= q
    <3>1. Segment * p <= Segment * q
      BY <1>1, <1>2, <2>1, <2>3
    <3>2. Segment * q \in Int /\ Segment * p \in Int
      BY <1>1, <1>2, <2>1
    <3>3. Segment * p <= u
      BY <1>1, <1>2, <3>1, <3>2
    <3>4. QED  BY <1>1, <1>2, <2>1, <2>3, <3>2, <3>3 DEF p
  <2>4. QED  BY <1>2, <2>1, <2>2, <2>3
<1>6. ASSUME NEW n, Takes(q, n)
      PROVE  Takes(u, n + 1)
  <2>1. n \in 1 .. MaxBytes /\ n \in Nat /\ MaxBytes \in Nat /\ q < Power(Segment, n)
    BY <1>6, MaxBytesIs DEF Takes
  <2>2. u < Power(Segment, n + 1)
    BY <1>5, <2>1
  <2>3. ASSUME NEW m \in 1 .. n PROVE Power(Segment, m) <= u
    <3>0. m \in Nat /\ m - 1 \in Nat /\ (m - 1) + 1 = m /\ Power(Segment, m) \in Nat
      BY <2>1, Shift
    <3>1. CASE m = 1
      <4>1. Power(Segment, 0 + 1) = Segment * Power(Segment, 0) /\ Power(Segment, 0) = 1
        BY Shift
      <4>2. QED  BY <1>1, <3>1, <4>1
    <3>2. CASE m # 1
      <4>1. m - 1 \in 1 .. n - 1
        BY <2>1, <3>2
      <4>2. Power(Segment, m - 1) <= q /\ Power(Segment, m - 1) \in Nat
        BY <1>6, <3>0, <4>1, Shift DEF Takes
      <4>3. ~(u < Power(Segment, (m - 1) + 1))
        BY <1>2, <1>5, <3>0, <4>2
      <4>4. QED  BY <1>1, <3>0, <4>3
    <3>3. QED  BY <3>1, <3>2
  <2>4. n + 1 <= MaxBytes
    <3>1. SUFFICES ASSUME n = MaxBytes PROVE FALSE
      BY <2>1
    <3>2. Power(Segment, MaxBytes) <= u
      BY <2>1, <2>3, <3>1
    <3>3. Word <= Power(Segment, MaxBytes) /\ Power(Segment, MaxBytes) \in Nat
      BY <2>1, MaxBytesIs, Shift
    <3>4. QED  BY <1>1, <3>2, <3>3
  <2>5. QED  BY <2>1, <2>2, <2>3, <2>4 DEF Takes
<1>7. ASSUME NEW n, Takes(q, n)
      PROVE  Written(u, n + 1) = <<(u % Segment) + Segment>> \o Written(q, n)
  <2>1. n \in Nat \ {0}
    BY <1>7, MaxBytesIs DEF Takes
  <2>2. Digit(u, 1) = u % Segment
    BY <1>1, Shift, DivOne DEF Digit
  <2>3. \A i \in 1 .. n : Digit(u, i + 1) = Digit(q, i)
    <3>1. \A i \in 1 .. n : i \in Nat \ {0}
      OBVIOUS
    <3>2. QED  BY <1>1, <3>1, DigitOfQuotient DEF q
  <2> DEFINE a == Written(u, n + 1)
             b == Written(q, n)
             x == (u % Segment) + Segment
             c == <<x>> \o b
  <2>4. /\ a = [i \in 1 .. n + 1 |-> a[i]]
        /\ a[1] = x
        /\ \A i \in 1 .. n : a[i + 1] = b[i]
    BY <2>1, <2>2, <2>3 DEF Written
  <2>5. b \in Seq(Int) /\ Len(b) = n
    <3>1. \A i \in 1 .. n : Digit(q, i) \in Int
      <4>1. \A i \in 1 .. n : i \in Nat \ {0}
        OBVIOUS
      <4>2. \A i \in 1 .. n : Digit(q, i) \in 0 .. Segment - 1
        BY <1>2, <4>1, DigitType
      <4>3. QED  BY <1>1, <4>2
    <3>2. b \in [1 .. n -> Int]
      BY <1>1, <3>1 DEF Written
    <3> HIDE DEF b
    <3>3. QED  BY <2>1, <3>2
  <2> HIDE DEF a, b, x
  <2>6. /\ c = [i \in 1 .. n + 1 |-> c[i]]
        /\ c[1] = x
        /\ \A i \in 1 .. n : c[i + 1] = b[i]
    <3>1. x \in Int
      BY <1>1, <1>2 DEF x
    <3>2. c = [i \in 1 .. Len(b) + 1 |-> IF i = 1 THEN x ELSE b[i - 1]]
      BY <2>5, <3>1, InFront
    <3> HIDE DEF c
    <3>3. QED  BY <2>1, <2>5, <3>2
  <2> HIDE DEF c
  <2>7. ASSUME NEW i \in 1 .. n + 1 PROVE a[i] = c[i]
    <3>1. CASE i = 1
      BY <2>4, <2>6, <3>1
    <3>2. CASE i # 1
      <4>1. i - 1 \in 1 .. n /\ (i - 1) + 1 = i
        BY <2>1, <3>2
      <4>2. QED  BY <2>4, <2>6, <4>1
    <3>3. QED  BY <3>1, <3>2
  <2>8. a = c
    BY <2>4, <2>6, <2>7
  <2>9. QED  BY <2>8 DEF a, b, c, x
<1>8. QED  BY <1>3, <1>4, <1>6, <1>7 DEF q

LEMMA UnsignedType ==
    ASSUME NEW value \in Int
    PROVE  Unsigned(value) \in UInts
<1>1. Word \in Nat \ {0}
  BY WordIs
<1>2. QED  BY <1>1, DivisionInt DEF Unsigned, UInts

\* varint_write writes a number in as many bytes as it takes.
LEMMA VarintWriteIs ==
    ASSUME NEW value \in Int, NEW n, Takes(Unsigned(value), n)
    PROVE  VarintWrite(value) = Written(Unsigned(value), n)
<1> DEFINE IsWrite(f) == f = [u \in UInts |->
                               IF u < Segment THEN <<u>>
                               ELSE <<(u % Segment) + Segment>> \o f[u \div Segment]]
           size(u) == CHOOSE k : Takes(u, k)
           g == [u \in UInts |-> Written(u, size(u))]
           write == CHOOSE f : IsWrite(f)
<1>0. UInts \subseteq Nat /\ Segment \in Nat
  BY WordIs, SegmentIs DEF UInts
<1>1. \A u \in UInts : Takes(u, size(u))
  BY TakesSome
<1> HIDE DEF size
<1>2. ASSUME NEW u \in UInts
      PROVE  g[u] = IF u < Segment THEN <<u>> ELSE <<(u % Segment) + Segment>> \o g[u \div Segment]
  <2>1. CASE u < Segment
    <3>1. size(u) = 1
      BY <1>0, <1>1, <2>1, TakesSmall, TakesOne
    <3>2. g[u] = <<u>>
      BY <1>0, <2>1, <3>1, TakesSmall
    <3>3. QED  BY <2>1, <3>2
  <2>2. CASE ~(u < Segment)
    <3>1. Segment <= u
      BY <1>0, <2>2
    <3>2. u \div Segment \in UInts
      BY <3>1, TakesLarge
    <3>3. Takes(u \div Segment, size(u \div Segment))
      BY <1>1, <3>2
    <3>4. Takes(u, size(u \div Segment) + 1)
      BY <3>1, <3>3, TakesLarge
    <3>5. size(u) = size(u \div Segment) + 1
      BY <1>0, <1>1, <3>4, TakesOne
    <3>6. Written(u, size(u)) = <<(u % Segment) + Segment>> \o Written(u \div Segment, size(u \div Segment))
      BY <3>1, <3>3, <3>5, TakesLarge
    <3>7. g[u] = Written(u, size(u)) /\ g[u \div Segment] = Written(u \div Segment, size(u \div Segment))
      BY <3>2
    <3> HIDE DEF g
    <3>8. QED  BY <2>2, <3>6, <3>7
  <2>3. QED  BY <2>1, <2>2
<1>3. g = [u \in UInts |-> g[u]]
  OBVIOUS
<1> HIDE DEF g
<1>4. IsWrite(g)
  BY <1>2, <1>3
<1>5. IsWrite(write)
  <2> HIDE DEF IsWrite
  <2>1. QED  BY <1>4
<1> HIDE DEF write
<1>6. ASSUME NEW u \in UInts
      PROVE  write[u] = IF u < Segment THEN <<u>> ELSE <<(u % Segment) + Segment>> \o write[u \div Segment]
  BY <1>5
<1>7. \A u \in UInts : write[u] = g[u]
  <2> DEFINE T == {u \in UInts : write[u] # g[u]}
  <2>1. SUFFICES ASSUME T # {} PROVE FALSE
    OBVIOUS
  <2>2. T \subseteq Nat
    BY <1>0
  <2>3. PICK u \in T : \A v \in T : u <= v
    <3> HIDE DEF T
    <3>1. QED  BY <2>1, <2>2, LeastNumber
  <2>4. u \in UInts /\ write[u] # g[u]
    OBVIOUS
  <2>5. CASE u < Segment
    BY <1>2, <1>6, <2>4, <2>5
  <2>6. CASE ~(u < Segment)
    <3>1. u \div Segment \in UInts /\ u \div Segment < u
      <4>1. Segment <= u
        BY <1>0, <2>4, <2>6
      <4> HIDE DEF T
      <4>2. QED  BY <2>4, <4>1, TakesLarge
    <3>2. u \div Segment \notin T
      <4> DEFINE v == u \div Segment
      <4>1. u \in Nat /\ v \in Nat /\ v < u
        BY <1>0, <2>4, <3>1
      <4> HIDE DEF T, v
      <4>2. v \notin T
        BY <2>3, <4>1
      <4>3. QED  BY <4>2 DEF v
    <3>3. write[u \div Segment] = g[u \div Segment]
      BY <3>1, <3>2
    <3>4. QED  BY <1>2, <1>6, <2>4, <2>6, <3>3
  <2>7. QED  BY <2>5, <2>6
<1>8. VarintWrite(value) = write[Unsigned(value)]
  BY DEF VarintWrite, write, IsWrite
<1>9. Unsigned(value) \in UInts
  BY UnsignedType
<1>10. size(Unsigned(value)) = n
  BY <1>0, <1>1, <1>9, TakesOne
<1>11. QED  BY <1>7, <1>8, <1>9, <1>10 DEF g

\* varint_size of a number that is not negative
LEMMA VarintSizeIs ==
    ASSUME NEW value \in UInts, NEW n, Takes(value, n)
    PROVE  VarintSize(value) = n
<1> DEFINE Is(k) == /\ k = MaxBytes \/ value < Power(Segment, k)
                    /\ \A m \in 1 .. k - 1 : value >= Power(Segment, m)
           size == CHOOSE k \in 1 .. MaxBytes : Is(k)
<1>1. n \in 1 .. MaxBytes /\ Is(n)
  BY MaxBytesIs, Shift, WordIs DEF Takes, UInts
<1>2. size \in 1 .. MaxBytes /\ Is(size)
  <2> HIDE DEF Is
  <2>1. QED  BY <1>1
<1> HIDE DEF size
<1>3. Takes(value, size)
  <2>1. value < Power(Segment, MaxBytes)
    <3>1. Power(Segment, MaxBytes) \in Nat
      BY MaxBytesIs, Shift
    <3>2. QED  BY <3>1, MaxBytesIs, WordIs DEF UInts
  <2>2. ASSUME NEW m \in 1 .. size - 1 PROVE Power(Segment, m) <= value
    <3>1. m \in Nat
      BY <1>2, MaxBytesIs
    <3>2. QED  BY <1>2, <3>1, Shift, WordIs DEF UInts
  <2>3. QED  BY <1>2, <2>1, <2>2 DEF Takes
<1>4. size = n
  BY <1>3, TakesOne, WordIs DEF UInts
<1>5. QED  BY <1>4 DEF VarintSize, size, Is

\* fake_varint writes the same digits, when they suffice.
LEMMA FakeVarintIs ==
    ASSUME NEW value \in UInts, NEW count \in Nat \ {0}, value < Power(Segment, count)
    PROVE  FakeVarint(value, count) = Written(value, count)
<1>1. value \in Nat /\ value \in 0 .. Word - 1 /\ Word \in Nat \ {0} /\ Segment \in Nat \ {0}
      /\ 2 * Segment \in Nat \ {0}
  BY WordIs, SegmentIs DEF UInts
<1>2. Unsigned(value) = value
  BY <1>1, Small DEF Unsigned
<1>3. count - 1 \in Nat /\ (count - 1) + 1 = count
  OBVIOUS
<1>4. value \div Power(Segment, count - 1) = Digit(value, count)
  <2>1. value \div Power(Segment, count - 1)
          = Segment * (value \div Power(Segment, count)) + Digit(value, count)
    BY <1>1, <1>3, NextRest
  <2>2. value \div Power(Segment, count) = 0
    <3>1. Power(Segment, count) \in Nat \ {0}
      BY Shift
    <3>2. value \in 0 .. Power(Segment, count) - 1
      BY <1>1, <3>1
    <3>3. QED  BY <3>1, <3>2, Small
  <2>3. Digit(value, count) \in Int
    BY <1>1, DigitType
  <2>4. QED  BY <1>1, <2>1, <2>2, <2>3
<1>5. Digit(value, count) % (2 * Segment) = Digit(value, count)
  <2>1. Digit(value, count) \in 0 .. Segment - 1
    BY <1>1, DigitType
  <2>2. Digit(value, count) \in 0 .. 2 * Segment - 1
    BY <1>1, <2>1
  <2>3. QED  BY <1>1, <2>2, Small
<1>6. \A i \in 1 .. count :
         (LET rest == Unsigned(value) \div Power(Segment, i - 1)
          IN  IF i = count THEN rest % (2 * Segment) ELSE (rest % Segment) + Segment)
         = (IF i = count THEN Digit(value, i) ELSE Digit(value, i) + Segment)
  BY <1>2, <1>4, <1>5 DEF Digit
<1>7. QED  BY <1>6 DEF FakeVarint, Written

-----------------------------------------------------------------------------
(* What is read.                                                           *)

\* Where the number may end.
Stops(bytes, most) == {j \in 1 .. Len(bytes) : j <= most /\ bytes[j] < Segment}

\* What each byte adds to a varint.
Parts(bytes) == [i \in 1 .. Len(bytes) |-> (bytes[i] % Segment) * Power(Segment, i - 1)]

Least(e, T) == e \in T /\ \A j \in T : e <= j

LEMMA PartType ==
    ASSUME NEW byte \in Int, NEW k \in Nat
    PROVE  (byte % Segment) * Power(Segment, k) \in Int
<1>1. Segment \in Nat \ {0}
  BY SegmentIs
<1>2. byte % Segment \in Int
  BY <1>1, DivisionInt
<1>3. Power(Segment, k) \in Int
  BY Shift
<1>4. QED  BY <1>2, <1>3

LEMMA PartsType ==
    ASSUME NEW bytes \in Seq(Int), NEW k \in 0 .. Len(bytes)
    PROVE  Total(Parts(bytes), k) \in Int
<1>1. k \in Nat
  OBVIOUS
<1>2. ASSUME NEW i \in 1 .. k PROVE Parts(bytes)[i] \in Int
  <2>1. i \in 1 .. Len(bytes) /\ i - 1 \in Nat /\ bytes[i] \in Int
    OBVIOUS
  <2>2. (bytes[i] % Segment) * Power(Segment, i - 1) \in Int
    BY <2>1, PartType
  <2>3. Parts(bytes)[i] = (bytes[i] % Segment) * Power(Segment, i - 1)
    BY <2>1 DEF Parts
  <2>4. QED  BY <2>2, <2>3
<1>3. QED  BY <1>1, <1>2, TotalType

\* DECODE_VARINT reads up to the first byte without the bit, if there is one
\* among those that it tolerates.
LEMMA DecodeIs ==
    ASSUME NEW bytes \in Seq(Int), NEW most \in Nat \ {0}
    PROVE  /\ Stops(bytes, most) = {} => Decode(bytes, most).ok = FALSE
           /\ \A e : Least(e, Stops(bytes, most)) =>
                Decode(bytes, most) =
                  [ok |-> TRUE, value |-> Signed(Unsigned(Total(Parts(bytes), e))), size |-> e]
<1> DEFINE part(i) == (bytes[i] % Segment) * Power(Segment, i - 1)
           Body(f, i) == IF Len(bytes) < i THEN Violation
                         ELSE IF bytes[i] < Segment THEN [ok |-> TRUE, value |-> part(i), size |-> i]
                         ELSE IF i = most \/ ~f[i + 1].ok THEN Violation
                         ELSE [ok |-> TRUE, value |-> part(i) + f[i + 1].value, size |-> f[i + 1].size]
           IsDecode(f) == f = [i \in 1 .. most |-> Body(f, i)]
           From(i) == {j \in Stops(bytes, most) : i <= j}
           next(i) == CHOOSE e : Least(e, From(i))
           Found(i, e) == [ok |-> TRUE, value |-> Total(Parts(bytes), e) - Total(Parts(bytes), i - 1), size |-> e]
           g == [i \in 1 .. most + 1 |-> IF From(i) = {} THEN Violation ELSE Found(i, next(i))]
           h == [i \in 1 .. most |-> g[i]]
           decode == CHOOSE f : IsDecode(f)
<1>0. Segment \in Nat \ {0} /\ Len(bytes) \in Nat
  BY SegmentIs
<1>1. ASSUME NEW i \in 1 .. most, From(i) # {}
      PROVE  Least(next(i), From(i))
  <2>1. From(i) \subseteq Nat
    BY <1>0 DEF Stops
  <2> HIDE DEF From
  <2>2. \E e : Least(e, From(i))
    BY <1>1, <2>1, LeastNumber DEF Least
  <2>3. QED  BY <2>2
<1>2. ASSUME NEW i, NEW e, NEW d, Least(e, From(i)), Least(d, From(i))
      PROVE  e = d
  <2>1. e \in Nat /\ d \in Nat
    BY <1>0, <1>2 DEF Least, Stops
  <2>2. e <= d /\ d <= e
    BY <1>2 DEF Least
  <2>3. QED  BY <2>1, <2>2
<1> HIDE DEF next
\* The function that answers this way obeys the equation of the definition.
<1>3. ASSUME NEW i \in 1 .. most PROVE g[i] = Body(g, i)
  <2>0. i \in Nat /\ i \in 1 .. most + 1 /\ i + 1 \in 1 .. most + 1 /\ i - 1 \in Nat
    OBVIOUS
  <2>1. CASE Len(bytes) < i
    <3>1. From(i) = {}
      BY <1>0, <2>0, <2>1 DEF Stops
    <3>2. QED  BY <2>0, <2>1, <3>1
  <2>2. CASE ~(Len(bytes) < i) /\ bytes[i] < Segment
    <3>1. i \in 1 .. Len(bytes)
      BY <1>0, <2>0, <2>2
    <3>2. Least(i, From(i))
      BY <2>2, <3>1 DEF Least, Stops
    <3>3. next(i) = i
      BY <1>1, <1>2, <3>2 DEF Least
    <3>4. Total(Parts(bytes), i) - Total(Parts(bytes), i - 1) = part(i)
      <4>1. (i - 1) + 1 = i
        BY <2>0
      <4>2. Total(Parts(bytes), i) = Total(Parts(bytes), i - 1) + Parts(bytes)[i]
        BY <2>0, <4>1, TotalNext
      <4>3. Parts(bytes)[i] = part(i)
        BY <3>1 DEF Parts
      <4>4. Total(Parts(bytes), i) \in Int /\ Total(Parts(bytes), i - 1) \in Int
        BY <1>0, <3>1, PartsType
      <4>5. part(i) \in Int
        <5>1. bytes[i] \in Int
          BY <3>1
        <5>2. QED  BY <2>0, <5>1, PartType
      <4> HIDE DEF part
      <4>6. QED  BY <4>2, <4>3, <4>4, <4>5
    <3>5. g[i] = [ok |-> TRUE, value |-> part(i), size |-> i]
      <4>1. g[i] = Found(i, i)
        BY <2>0, <3>2, <3>3 DEF Least
      <4>2. QED  BY <3>4, <4>1
    <3>6. QED  BY <2>2, <3>5
  <2>3. CASE ~(Len(bytes) < i) /\ ~(bytes[i] < Segment)
    <3>1. i \notin Stops(bytes, most) /\ i \in 1 .. Len(bytes)
      BY <1>0, <2>0, <2>3 DEF Stops
    <3>2. From(i) = From(i + 1)
      BY <1>0, <2>0, <3>1 DEF Stops
    <3>3. CASE From(i) = {}
      <4>1. g[i] = Violation /\ g[i + 1] = Violation
        BY <2>0, <3>2, <3>3
      <4>2. ~g[i + 1].ok
        BY <4>1 DEF Violation
      <4> HIDE DEF g
      <4>3. QED  BY <2>3, <4>1, <4>2
    <3>4. CASE From(i) # {}
      <4>1. i # most
        BY <1>0, <3>1, <3>4 DEF Stops
      <4>2. next(i) = next(i + 1)
        BY <3>2 DEF next
      <4> DEFINE e == next(i)
      <4>3. e \in From(i)
        BY <1>1, <3>4 DEF Least
      <4>4. g[i] = Found(i, e) /\ g[i + 1] = Found(i + 1, e)
        BY <2>0, <3>2, <3>4, <4>2
      <4>5. e \in 0 .. Len(bytes)
        BY <4>3 DEF Stops
      <4> HIDE DEF e
      <4>6. (Total(Parts(bytes), e) - Total(Parts(bytes), i - 1)) = part(i) + (Total(Parts(bytes), e) - Total(Parts(bytes), i))
        <5>1. (i - 1) + 1 = i
          BY <2>0
        <5>2. Total(Parts(bytes), i) = Total(Parts(bytes), i - 1) + Parts(bytes)[i]
          BY <2>0, <5>1, TotalNext
        <5>3. Parts(bytes)[i] = part(i)
          BY <3>1 DEF Parts
        <5>4. Total(Parts(bytes), i) \in Int /\ Total(Parts(bytes), i - 1) \in Int /\ Total(Parts(bytes), e) \in Int
          BY <1>0, <3>1, <4>5, PartsType
        <5>5. part(i) \in Int
          <6>1. bytes[i] \in Int
            BY <3>1
          <6>2. QED  BY <2>0, <6>1, PartType
        <5> HIDE DEF part
        <5>6. QED  BY <5>2, <5>3, <5>4, <5>5
      <4>7. (i + 1) - 1 = i
        BY <2>0
      <4>8. g[i + 1] = [ok |-> TRUE, value |-> Total(Parts(bytes), e) - Total(Parts(bytes), i), size |-> e]
        BY <4>4, <4>7
      <4>9. Body(g, i) = [ok |-> TRUE, value |-> part(i) + g[i + 1].value, size |-> g[i + 1].size]
        <5>1. g[i + 1].ok = TRUE
          BY <4>8
        <5> HIDE DEF g, part
        <5>2. QED  BY <2>3, <4>1, <5>1
      <4> HIDE DEF g, part
      <4>10. [ok |-> TRUE, value |-> part(i) + g[i + 1].value, size |-> g[i + 1].size]
               = [ok |-> TRUE, value |-> part(i) + (Total(Parts(bytes), e) - Total(Parts(bytes), i)), size |-> e]
        BY <4>8
      <4>11. QED  BY <4>4, <4>6, <4>9, <4>10
    <3>5. QED  BY <3>3, <3>4
  <2>4. QED  BY <2>1, <2>2, <2>3
<1>4. IsDecode(h)
  <2>1. ASSUME NEW i \in 1 .. most PROVE h[i] = Body(h, i)
    <3>1. h[i] = Body(g, i)
      <4> HIDE DEF g, Body
      <4>1. QED  BY <1>3
    <3>2. CASE i = most
      <4>1. Body(g, i) = Body(h, i)
        <5> HIDE DEF g, h, part
        <5>1. QED  BY <3>2
      <4>2. QED  BY <3>1, <4>1
    <3>3. CASE i # most
      <4>1. h[i + 1] = g[i + 1]
        <5>1. i + 1 \in 1 .. most
          BY <3>3
        <5> HIDE DEF g
        <5>2. QED  BY <5>1
      <4>2. Body(g, i) = Body(h, i)
        <5> HIDE DEF g, h, part
        <5>1. QED  BY <4>1
      <4>3. QED  BY <3>1, <4>2
    <3>4. QED  BY <3>2, <3>3
  <2>2. h = [i \in 1 .. most |-> h[i]]
    <3> HIDE DEF g
    <3>1. QED  OBVIOUS
  <2> HIDE DEF h, Body
  <2>3. QED  BY <2>1, <2>2
<1>5. IsDecode(decode)
  <2> HIDE DEF IsDecode, h
  <2>1. QED  BY <1>4
<1> HIDE DEF decode
<1>6. \A i \in 1 .. most : decode[i] = Body(decode, i)
  <2> HIDE DEF Body
  <2>1. QED  BY <1>5
\* From the last byte back, there is only one such function.
<1>7. \A i \in 1 .. most : decode[i] = g[i]
  <2> DEFINE Same == {k \in Nat : k < most => decode[most - k] = g[most - k]}
  <2>1. 0 \in Same
    <3>1. most \in 1 .. most /\ most - 0 = most
      OBVIOUS
    <3>2. decode[most] = Body(decode, most) /\ g[most] = Body(g, most)
      <4> HIDE DEF Body, g
      <4>1. QED  BY <1>3, <1>6, <3>1
    <3>3. Body(decode, most) = Body(g, most)
      <4> HIDE DEF g, part
      <4>1. QED  OBVIOUS
    <3> HIDE DEF Body, g
    <3>4. QED  BY <3>1, <3>2, <3>3
  <2>2. ASSUME NEW k \in Nat, k \in Same PROVE k + 1 \in Same
    <3>1. SUFFICES ASSUME k + 1 < most PROVE decode[most - (k + 1)] = g[most - (k + 1)]
      OBVIOUS
    <3> DEFINE i == most - (k + 1)
    <3>2. i \in 1 .. most /\ i + 1 = most - k /\ k < most
      BY <3>1
    <3>3. decode[i + 1] = g[i + 1]
      <4> HIDE DEF g
      <4>1. QED  BY <2>2, <3>2
    <3> HIDE DEF i
    <3>4. decode[i] = Body(decode, i) /\ g[i] = Body(g, i)
      <4> HIDE DEF Body, g
      <4>1. QED  BY <1>3, <1>6, <3>2
    <3>5. Body(decode, i) = Body(g, i)
      <4> HIDE DEF g, part
      <4>1. QED  BY <3>3
    <3> HIDE DEF Body, g
    <3>6. QED  BY <3>4, <3>5 DEF i
  <2> HIDE DEF Same
  <2>3. Nat \subseteq Same
    BY <2>1, <2>2, Induction
  <2>4. ASSUME NEW i \in 1 .. most PROVE decode[i] = g[i]
    <3>1. most - i \in Nat /\ most - i < most /\ most - (most - i) = i
      OBVIOUS
    <3> HIDE DEF g
    <3>2. QED  BY <2>3, <3>1 DEF Same
  <2>5. QED  BY <2>4
<1>8. Decode(bytes, most) =
         [ok |-> decode[1].ok, value |-> Signed(Unsigned(decode[1].value)), size |-> decode[1].size]
  BY DEF Decode, decode, IsDecode, Body, part
<1>9. decode[1] = g[1] /\ 1 \in 1 .. most + 1 /\ 1 \in 1 .. most
  <2> HIDE DEF g
  <2>1. QED  BY <1>7
<1>10. From(1) = Stops(bytes, most)
  BY DEF Stops
<1>11. ASSUME Stops(bytes, most) = {} PROVE Decode(bytes, most).ok = FALSE
  <2>1. g[1] = Violation
    BY <1>9, <1>10, <1>11
  <2> HIDE DEF g
  <2>2. QED  BY <1>8, <1>9, <2>1 DEF Violation
<1>12. ASSUME NEW e, Least(e, Stops(bytes, most))
       PROVE  Decode(bytes, most) =
                [ok |-> TRUE, value |-> Signed(Unsigned(Total(Parts(bytes), e))), size |-> e]
  <2>1. next(1) = e /\ From(1) # {}
    BY <1>1, <1>2, <1>9, <1>10, <1>12 DEF Least
  <2>2. g[1] = Found(1, e)
    BY <1>9, <2>1
  <2>3. e \in 0 .. Len(bytes)
    BY <1>12 DEF Least, Stops
  <2>4. Total(Parts(bytes), e) - Total(Parts(bytes), 1 - 1) = Total(Parts(bytes), e)
    BY <2>3, PartsType, TotalZero
  <2>5. g[1] = [ok |-> TRUE, value |-> Total(Parts(bytes), e), size |-> e]
    BY <2>2, <2>4
  <2> HIDE DEF g
  <2>6. QED  BY <1>8, <1>9, <2>5
<1>13. QED  BY <1>11, <1>12

-----------------------------------------------------------------------------
(* Reading back what was written.                                          *)

\* The bytes of a number, of which only the last does not go on.
LEMMA WrittenType ==
    ASSUME NEW u \in Nat, NEW n \in Nat
    PROVE  /\ Written(u, n) \in Seq(Nat) /\ Written(u, n) \in Seq(Int) /\ Len(Written(u, n)) = n
           /\ \A i \in 1 .. n :
                /\ Written(u, n)[i] % Segment = Digit(u, i)
                /\ Written(u, n)[i] < Segment <=> i = n
<1>1. Segment \in Nat \ {0}
  BY SegmentIs
<1>2. ASSUME NEW i \in 1 .. n
      PROVE  /\ Written(u, n)[i] \in Nat
             /\ Written(u, n)[i] % Segment = Digit(u, i)
             /\ Written(u, n)[i] < Segment <=> i = n
  <2>1. Digit(u, i) \in 0 .. Segment - 1
    BY DigitType
  <2>2. Written(u, n)[i] = IF i = n THEN Digit(u, i) ELSE Digit(u, i) + Segment
    BY DEF Written
  <2>3. Digit(u, i) % Segment = Digit(u, i)
    BY <1>1, <2>1, Small
  <2>4. (Digit(u, i) + Segment) % Segment = Digit(u, i)
    <3>1. Digit(u, i) + Segment \in Int /\ Digit(u, i) + Segment = Segment * 1 + Digit(u, i) /\ 1 \in Int
      BY <1>1, <2>1
    <3>2. QED  BY <1>1, <2>1, <3>1, Quotient
  <2> HIDE DEF Digit
  <2>5. QED  BY <1>1, <2>1, <2>2, <2>3, <2>4
<1>3. /\ Written(u, n) = [i \in 1 .. n |-> Written(u, n)[i]]
  BY DEF Written
<1>4. Written(u, n) \in [1 .. n -> Nat]
  BY <1>2, <1>3
<1>5. QED  BY <1>2, <1>4

\* What stands in front of r, and r.
LEMMA Behind ==
    ASSUME NEW w \in Seq(Int), NEW r \in Seq(Int)
    PROVE  SubSeq(w \o r, Len(w) + 1, Len(w \o r)) = r /\ SubSeq(w \o r, 1, Len(w)) = w
<1>1. Len(w) \in Nat /\ Len(r) \in Nat /\ Len(w \o r) = Len(w) + Len(r) /\ w \o r \in Seq(Int)
  OBVIOUS
<1>2. SubSeq(w \o r, Len(w) + 1, Len(w \o r)) = r
  <2>1. SubSeq(w \o r, Len(w) + 1, Len(w \o r))
          = [i \in 1 .. Len(w \o r) - (Len(w) + 1) + 1 |-> (w \o r)[i + (Len(w) + 1) - 1]]
    OBVIOUS
  <2>2. Len(w \o r) - (Len(w) + 1) + 1 = Len(r)
    BY <1>1
  <2>3. \A i \in 1 .. Len(r) : (w \o r)[i + (Len(w) + 1) - 1] = r[i]
    OBVIOUS
  <2>4. r = [i \in 1 .. Len(r) |-> r[i]]
    OBVIOUS
  <2>5. QED  BY <2>1, <2>2, <2>3, <2>4
<1>3. SubSeq(w \o r, 1, Len(w)) = w
  OBVIOUS
<1>4. QED  BY <1>2, <1>3

\* A client reads from the front of b what was written there.
LEMMA ReadWritten ==
    ASSUME NEW u \in UInts, NEW n \in 1 .. MaxBytes, u < Power(Segment, n), NEW r \in Seq(Int)
    PROVE  ReadVarint(Written(u, n) \o r) = Got(Signed(u), r)
<1> DEFINE w == Written(u, n)
           b == w \o r
           digits == [i \in 1 .. n |-> (b[i] % Segment) * Power(Segment, i - 1)]
<1>1. u \in Nat /\ n \in Nat /\ n >= 1 /\ n <= MaxBytes /\ MaxBytes \in Nat /\ Segment \in Nat
  BY MaxBytesIs, WordIs, SegmentIs DEF UInts
<1>2. /\ w \in Seq(Int) /\ Len(w) = n
      /\ \A i \in 1 .. n : w[i] % Segment = Digit(u, i) /\ (w[i] < Segment <=> i = n)
  BY <1>1, WrittenType
<1> HIDE DEF w
<1>3. b \in Seq(Int) /\ Len(b) = n + Len(r) /\ Len(r) \in Nat /\ \A i \in 1 .. n : b[i] = w[i]
  BY <1>1, <1>2
<1>4. SubSeq(b, n + 1, Len(b)) = r
  BY <1>2, Behind
<1> HIDE DEF b
<1>5. n \in Ends(b) /\ \A j \in Ends(b) : n <= j
  BY <1>1, <1>2, <1>3 DEF Ends
<1>6. Min(Ends(b)) = n
  <2>1. Ends(b) \subseteq Nat
    BY <1>3 DEF Ends
  <2> DEFINE m == Min(Ends(b))
  <2>2. m \in Ends(b) /\ \A j \in Ends(b) : m <= j
    BY <1>5 DEF Min
  <2> HIDE DEF m
  <2>3. m = n
    BY <1>5, <2>1, <2>2
  <2>4. QED  BY <2>3 DEF m
<1>7. Total(digits, n) = u
  <2>1. \A i \in 1 .. n : digits[i] = Digit(u, i) * Power(Segment, i - 1)
    BY <1>2, <1>3
  <2> HIDE DEF digits
  <2>2. QED  BY <1>1, <2>1, DigitsAddUp
<1>8. Unsigned(u) = u
  BY <1>1, WordIs, Small DEF Unsigned, UInts
<1>9. ReadVarint(b) = Got(Signed(u), SubSeq(b, n + 1, Len(b)))
  <2>1. Ends(b) # {}
    BY <1>5
  <2> HIDE DEF Got
  <2>2. ReadVarint(b) = Got(Signed(Unsigned(Total(digits, n))), SubSeq(b, n + 1, Len(b)))
    BY <1>6, <2>1 DEF ReadVarint
  <2>3. QED  BY <1>7, <1>8, <2>2
<1>10. QED  BY <1>4, <1>9 DEF b, w

\* A packet's number of 32 bits is read as it was before it was written.
LEMMA SignedUnsigned ==
    ASSUME NEW value \in Ints
    PROVE  Signed(Unsigned(value)) = value
<1>1. Half \in Nat \ {0} /\ Word = 2 * Half /\ Word \in Nat \ {0} /\ value \in Int
      /\ -Half <= value /\ value < Half
  BY WordIs DEF Ints
<1>2. CASE value >= 0
  <2>1. Unsigned(value) = value
    BY <1>1, <1>2, Small DEF Unsigned
  <2>2. QED  BY <2>1 DEF Signed
<1>3. CASE value < 0
  <2>1. value = Word * (-1) + (value + Word) /\ value + Word \in 0 .. Word - 1 /\ -1 \in Int
    BY <1>1, <1>3
  <2>2. Unsigned(value) = value + Word
    BY <1>1, <2>1, Quotient DEF Unsigned
  <2>3. value + Word \notin Ints
    BY <1>1, <1>3 DEF Ints
  <2>4. QED  BY <1>1, <2>2, <2>3 DEF Signed
<1>4. QED  BY <1>1, <1>2, <1>3

\* What varint_write wrote is read back, and what is behind it is left.
LEMMA ReadBack ==
    ASSUME NEW value \in Ints, NEW r \in Seq(Int)
    PROVE  /\ VarintWrite(value) \in Seq(Int) /\ Len(VarintWrite(value)) \in 1 .. MaxBytes
           /\ ReadVarint(VarintWrite(value) \o r) = Got(value, r)
<1>1. value \in Int
  BY WordIs DEF Ints
<1>2. Unsigned(value) \in UInts /\ Unsigned(value) \in Nat
  BY <1>1, UnsignedType DEF UInts
<1>3. PICK n : Takes(Unsigned(value), n)
  BY <1>2, TakesSome
<1>4. n \in 1 .. MaxBytes /\ n \in Nat /\ Unsigned(value) < Power(Segment, n)
  BY <1>3, MaxBytesIs DEF Takes
<1>5. VarintWrite(value) = Written(Unsigned(value), n)
  BY <1>1, <1>3, VarintWriteIs
<1>6. Signed(Unsigned(value)) = value
  BY SignedUnsigned
<1> HIDE DEF Got, Unsigned, Signed, Written, UInts
<1>7. QED  BY <1>2, <1>4, <1>5, <1>6, ReadWritten, WrittenType

\* Lengths can be written, and take the bytes that varint_size says.
LEMMA LengthWritten ==
    ASSUME NEW n \in 0 .. Half - 1
    PROVE  /\ n \in Ints /\ n \in UInts /\ Unsigned(n) = n
           /\ VarintWrite(n) \in Seq(Int) /\ Len(VarintWrite(n)) = VarintSize(n)
<1>1. n \in Ints /\ n \in UInts /\ n \in Int /\ n \in 0 .. Word - 1 /\ Word \in Nat \ {0} /\ n \in Nat
  BY WordIs DEF Ints, UInts
<1>2. Unsigned(n) = n
  BY <1>1, Small DEF Unsigned
<1>3. PICK k : Takes(n, k)
  BY <1>1, TakesSome
<1>4. VarintWrite(n) = Written(n, k) /\ k \in Nat
  BY <1>1, <1>2, <1>3, VarintWriteIs, MaxBytesIs DEF Takes
<1>5. VarintSize(n) = k
  BY <1>1, <1>3, VarintSizeIs
<1> HIDE DEF Ints, UInts, Unsigned, Written, Takes
<1>6. QED  BY <1>1, <1>2, <1>4, <1>5, WrittenType

\* A number of one byte.
LEMMA OneByte ==
    ASSUME NEW n \in 0 .. Segment - 1, n < Half
    PROVE  VarintWrite(n) = <<n>> /\ VarintSize(n) = 1
<1>1. n \in Nat /\ n \in Int /\ n < Segment /\ n \in 0 .. Half - 1 /\ Segment \in Nat /\ Half \in Nat
  BY SegmentIs, WordIs
<1>2. Unsigned(n) = n /\ n \in UInts
  BY <1>1, LengthWritten
<1>3. Takes(n, 1) /\ Written(n, 1) = <<n>>
  BY <1>1, TakesSmall
<1> HIDE DEF Takes, Written, UInts
<1>4. QED  BY <1>1, <1>2, <1>3, VarintWriteIs, VarintSizeIs

\* A word has bits to spare beside those of a byte, so that there are two bytes.
LEMMA HalfIs == Half \in Nat /\ Half >= Segment /\ Half >= 4 /\ MaxBytes >= 2 /\ Segment >= 4
<1>1. SegmentBits \in Nat \ {0} /\ IntBits \in Nat /\ IntBits > SegmentBits /\ SegmentBits >= 2
  BY VarintAssumption, ProtocolAssumption
<1>2. Half >= Segment
  BY <1>1, PowerMonotone DEF Half, Segment
<1>3. Segment >= 4
  <2>1. Power(2, 2) = 4
    <3>1. Power(2, 0) = 1 /\ Power(2, 0 + 1) = 2 * Power(2, 0) /\ Power(2, 1 + 1) = 2 * Power(2, 1)
      BY PowerZero, PowerNext
    <3>2. QED  BY <3>1
  <2>2. Power(2, 2) <= Power(2, SegmentBits)
    BY <1>1, PowerMonotone
  <2>3. QED  BY <2>1, <2>2, SegmentIs DEF Segment
<1>4. MaxBytes >= 2
  <2>1. ~(MaxBytes = 1)
    <3>1. SUFFICES ASSUME MaxBytes = 1 PROVE FALSE
      OBVIOUS
    <3>2. IntBits + SegmentBits - 1 = SegmentBits * 1 + ((IntBits + SegmentBits - 1) % SegmentBits)
          /\ (IntBits + SegmentBits - 1) % SegmentBits \in 0 .. SegmentBits - 1
      BY <1>1, <3>1, DivisionInt DEF MaxBytes
    <3>3. QED  BY <1>1, <3>2
  <2>2. QED  BY <2>1, MaxBytesIs
<1>5. QED  BY <1>2, <1>3, <1>4, WordIs, SegmentIs

LEMMA LengthIs ==
    ASSUME NEW n \in Lengths
    PROVE  /\ n \in Nat /\ n + MaxBytes + 1 < Half /\ n \in 0 .. Half - 1
           /\ Text(n) \in Seq(Int) /\ Len(Text(n)) = n
<1>1. n \in Nat /\ n + MaxBytes + 1 \in Ints
  BY ProtocolAssumption, SizesAssumption
<1>2. n + MaxBytes + 1 < Half /\ MaxBytes \in Nat /\ Half \in Nat
  BY <1>1, WordIs, MaxBytesIs DEF Ints
<1>3. QED  BY <1>1, <1>2 DEF Text

LEMMA LengthOfThree ==
    ASSUME NEW a \in Int, NEW w \in Seq(Int), NEW t \in Seq(Int)
    PROVE  <<a>> \o w \o t \in Seq(Int) /\ Len(<<a>> \o w \o t) = Len(t) + Len(w) + 1
  OBVIOUS

\* Every step allocates what it writes.
LEMMA AnswersStep ==
    ASSUME AnswersFillTheirMemory, [Next]_vars
    PROVE  AnswersFillTheirMemory'
<1> USE DEF AnswersFillTheirMemory
<1>1. ASSUME NEW m, NEW packet, SendArray(m, packet) PROVE AnswersFillTheirMemory'
  BY <1>1 DEF SendArray, Send
<1>2. ASSUME NEW m, NEW packet, NEW allocated, Send(m, packet, allocated), allocated = Len(packet)
      PROVE  AnswersFillTheirMemory'
  BY <1>2 DEF Send
<1>3. CASE SendJoinGame \/ SendChunkData \/ SendFullUpdateLight \/ SendUnloadChunk
           \/ SendUpdateViewPosition \/ SendPlayerPositionAndLook
  BY <1>1, <1>3, Zenon DEF SendJoinGame, SendChunkData, SendFullUpdateLight, SendUnloadChunk,
     SendUpdateViewPosition, SendPlayerPositionAndLook
<1>4. CASE SendKeepAlive
  <2>1. PICK id \in Numbers : Send(<<31, id>>, KeepAlive(id), 2)
    BY <1>4 DEF SendKeepAlive
  <2>2. Len(KeepAlive(id)) = 2
    BY DEF KeepAlive
  <2>3. QED  BY <1>2, <2>1, <2>2
<1>5. CASE SendJson
  <2>1. PICK n \in Lengths : Send(<<0, Text(n)>>, JsonResponse(Text(n)), n + VarintSize(n) + 1)
    BY <1>5 DEF SendJson
  <2>2. /\ n \in Nat /\ n \in 0 .. Half - 1 /\ Text(n) \in Seq(Int) /\ Len(Text(n)) = n
    BY LengthIs
  <2>3. VarintWrite(n) \in Seq(Int) /\ Len(VarintWrite(n)) = VarintSize(n)
    BY <2>2, LengthWritten
  <2>4. Len(JsonResponse(Text(n))) = n + VarintSize(n) + 1
    <3>1. JsonResponse(Text(n)) = <<0>> \o VarintWrite(n) \o Text(n)
      BY <2>2 DEF JsonResponse
    <3>2. 0 \in Int /\ VarintSize(n) \in Nat
      BY <2>3
    <3>3. QED  BY <2>2, <2>3, <3>1, <3>2, LengthOfThree
  <2>5. QED  BY <1>2, <2>1, <2>4
<1>6. CASE SendPong
  <2>1. PICK payload \in Numbers : Send(<<1, payload>>, Pong(payload), VarintSize(1) + 1)
    BY <1>6 DEF SendPong
  <2>2. 1 \in 0 .. Segment - 1 /\ 1 < Half
    BY SegmentIs, HalfIs
  <2>3. VarintSize(1) + 1 = Len(Pong(payload))
    BY <2>2, OneByte DEF Pong
  <2>4. QED  BY <1>2, <2>1, <2>3
<1>7. CASE SendLoginSuccess
  <2>1. PICK n \in Lengths : Send(<<2, Uuid, Text(n)>>, LoginSuccess(Text(n)), 3 + n)
    BY <1>7 DEF SendLoginSuccess
  <2>2. n \in Nat /\ Text(n) \in Seq(Int) /\ Len(Text(n)) = n
    BY LengthIs
  <2>3. Len(LoginSuccess(Text(n))) = 3 + n
    BY <2>2 DEF LoginSuccess, Uuid
  <2>4. QED  BY <1>2, <2>1, <2>3
<1>8. CASE Receive \/ Confirm
  BY <1>8 DEF Receive, Confirm, TeleportConfirm
<1>9. CASE UNCHANGED vars
  BY <1>9 DEF vars
<1>10. QED  BY <1>3, <1>4, <1>5, <1>6, <1>7, <1>8, <1>9 DEF Next

\* The memory of every answer is filled to its last byte and not beyond, since
\* varint_size counts the bytes that varint_write writes.
THEOREM AnswersFillTheirMemoryHolds == Spec => []AnswersFillTheirMemory
<1>1. Init => AnswersFillTheirMemory
  BY DEF Init, AnswersFillTheirMemory
<1>2. QED  BY <1>1, AnswersStep, PTL DEF Spec

-----------------------------------------------------------------------------
(* What the client confirms.                                               *)

\* DECODE_VARINT and the client take the same bytes for a number, and the same
\* number.
LEMMA DecodeIsRead ==
    ASSUME NEW bytes \in Seq(Int)
    PROVE  /\ DecodeVarint(bytes).ok <=> ReadVarint(bytes).ok
           /\ DecodeVarint(bytes).ok =>
                /\ DecodeVarint(bytes).value = ReadVarint(bytes).value
                /\ DecodeVarint(bytes).size = Len(bytes) <=> ReadVarint(bytes).rest = <<>>
<1>1. MaxBytes \in Nat \ {0} /\ DecodeVarint(bytes) = Decode(bytes, MaxBytes)
  BY MaxBytesIs DEF DecodeVarint
<1>2. Ends(bytes) = Stops(bytes, MaxBytes)
  BY DEF Ends, Stops
<1>3. CASE Ends(bytes) = {}
  <2>1. DecodeVarint(bytes).ok = FALSE
    BY <1>1, <1>2, <1>3, DecodeIs
  <2>2. ReadVarint(bytes).ok = FALSE
    BY <1>3 DEF ReadVarint, Failed
  <2>3. QED  BY <2>1, <2>2
<1>4. CASE Ends(bytes) # {}
  <2> DEFINE e == Min(Ends(bytes))
             digits == [i \in 1 .. e |-> (bytes[i] % Segment) * Power(Segment, i - 1)]
             value == Signed(Unsigned(Total(Parts(bytes), e)))
  <2>1. e \in Ends(bytes) /\ \A j \in Ends(bytes) : e <= j
    <3>1. Ends(bytes) \subseteq Nat
      BY DEF Ends
    <3>2. PICK m \in Ends(bytes) : \A j \in Ends(bytes) : m <= j
      BY <1>4, <3>1, LeastNumber
    <3>3. QED  BY <3>2 DEF Min
  <2>2. Least(e, Stops(bytes, MaxBytes)) /\ e \in 1 .. Len(bytes) /\ e \in Nat
    BY <1>2, <2>1 DEF Least, Ends
  <2>3. Total(digits, e) = Total(Parts(bytes), e)
    <3>1. \A i \in 1 .. e : digits[i] = Parts(bytes)[i]
      BY <2>2 DEF Parts
    <3> HIDE DEF digits, e
    <3>2. QED  BY <2>2, <3>1, TotalSame
  <2>4. ReadVarint(bytes) = Got(Signed(Unsigned(Total(digits, e))), SubSeq(bytes, e + 1, Len(bytes)))
    BY <1>4 DEF ReadVarint
  <2> HIDE DEF e, digits
  <2>5. ReadVarint(bytes) = [ok |-> TRUE, value |-> value, rest |-> SubSeq(bytes, e + 1, Len(bytes))]
    BY <2>3, <2>4 DEF Got
  <2>6. DecodeVarint(bytes) = [ok |-> TRUE, value |-> value, size |-> e]
    BY <1>1, <2>2, DecodeIs
  <2> HIDE DEF value
  <2>7. SubSeq(bytes, e + 1, Len(bytes)) = <<>> <=> e = Len(bytes)
    <3>1. Len(SubSeq(bytes, e + 1, Len(bytes))) = Len(bytes) - e
      BY <2>2
    <3>2. CASE e = Len(bytes)
      BY <2>2, <3>2, SubSeqEmpty
    <3> DEFINE s == SubSeq(bytes, e + 1, Len(bytes))
    <3> HIDE DEF s
    <3>3. s = <<>> => Len(s) = 0
      OBVIOUS
    <3>4. Len(s) = Len(bytes) - e
      BY <3>1 DEF s
    <3>5. s = <<>> => e = Len(bytes)
      BY <2>2, <3>3, <3>4
    <3>6. e = Len(bytes) => s = <<>>
      BY <3>2 DEF s
    <3>7. QED  BY <3>5, <3>6 DEF s
  <2>8. QED  BY <2>5, <2>6, <2>7
<1>5. QED  BY <1>3, <1>4

\* The backend and the client take the bytes for the same number, or for none.
LEMMA ConfirmStep ==
    ASSUME ConfirmIsExact, [Next]_vars
    PROVE  ConfirmIsExact'
<1>1. CASE UNCHANGED answer
  BY <1>1 DEF ConfirmIsExact
<1>2. ASSUME NEW m, NEW packet, NEW allocated, Send(m, packet, allocated) PROVE UNCHANGED answer
  BY <1>2 DEF Send
<1>3. ASSUME NEW m, NEW packet, SendArray(m, packet) PROVE UNCHANGED answer
  BY <1>3 DEF SendArray, Send
<1>4. CASE SendJoinGame \/ SendChunkData \/ SendFullUpdateLight \/ SendUnloadChunk
           \/ SendUpdateViewPosition \/ SendPlayerPositionAndLook
  BY <1>1, <1>3, <1>4, Zenon DEF SendJoinGame, SendChunkData, SendFullUpdateLight, SendUnloadChunk,
     SendUpdateViewPosition, SendPlayerPositionAndLook
<1>5. CASE SendKeepAlive \/ SendJson \/ SendPong \/ SendLoginSuccess
  BY <1>1, <1>2, <1>5, Zenon DEF SendKeepAlive, SendJson, SendPong, SendLoginSuccess
<1>6. CASE Receive \/ UNCHANGED vars
  BY <1>1, <1>6 DEF Receive, vars
<1>7. CASE Confirm
  <2>1. PICK bytes \in IF asked = None THEN {<<>>} ELSE SeqOf(Bytes, MaxBytes + 1) : TeleportConfirm(bytes)
    BY <1>7 DEF Confirm
  <2>2. answer'.asked = asked /\ answer'.bytes = bytes
    BY <2>1 DEF TeleportConfirm
  <2>3. CASE asked = None
    BY <2>2, <2>3 DEF ConfirmIsExact
  <2>4. CASE asked # None
    <3>1. bytes \in Seq(Int)
      <4>1. PICK n \in 0 .. MaxBytes + 1 : bytes \in [1 .. n -> Bytes]
        BY <2>1, <2>4 DEF SeqOf
      <4>2. n \in Nat /\ Bytes \subseteq Int
        BY <4>1, MaxBytesIs, SegmentIs DEF Bytes
      <4>3. bytes \in [1 .. n -> Int]
        BY <4>1, <4>2
      <4>4. QED  BY <4>2, <4>3
    <3> DEFINE id     == DecodeVarint(bytes)
               client == ReadVarint(bytes)
    <3>2. /\ id.ok <=> client.ok
          /\ id.ok => id.value = client.value /\ (id.size = Len(bytes) <=> client.rest = <<>>)
      BY <3>1, DecodeIsRead
    <3>3. answer'.outcome = IF ~id.ok                    THEN "backend ends"
                            ELSE IF id.size # Len(bytes) THEN "refused"
                            ELSE IF id.value = asked     THEN "confirmed"
                            ELSE "ignored"
      BY <2>1, <2>4 DEF TeleportConfirm
    <3> HIDE DEF id
    <3>4. /\ answer'.outcome = "backend ends" <=> ~client.ok
          /\ answer'.outcome = "confirmed" <=> client.ok /\ client.rest = <<>> /\ client.value = asked
      <4> HIDE DEF client
      <4>1. QED  BY <3>2, <3>3
    <3>5. ReadVarint(answer.bytes)' = client
      BY <2>2 DEF ReadVarint
    <3>6. QED  BY <2>2, <3>4, <3>5 DEF ConfirmIsExact
  <2>5. QED  BY <2>3, <2>4
<1>8. QED  BY <1>4, <1>5, <1>6, <1>7 DEF Next

\* Whatever bytes a client confirms a teleport with, the backend ends exactly
\* when they do not begin with a number, and takes the teleport as confirmed
\* exactly when they are the number it asked for and nothing else.
THEOREM ConfirmIsExactHolds == Spec => []ConfirmIsExact
<1>1. Init => ConfirmIsExact
  BY DEF Init, ConfirmIsExact
<1>2. QED  BY <1>1, ConfirmStep, PTL DEF Spec

-----------------------------------------------------------------------------
(* How a client reads.                                                     *)

\* f has what has been read after each of n things, of which next is one.
OneByOne(f, next, n, b) ==
    /\ f[0] = Got(<<>>, b)
    /\ \A i \in 1 .. n :
           f[i] = IF f[i - 1].ok /\ next[i].ok
                    THEN Got(Append(f[i - 1].value, next[i].value), next[i].rest) ELSE Failed

\* next finds the values as long as nothing but them has been read.
Finds(f, next, n, vals, rests) ==
    \A i \in 1 .. n : f[i - 1].rest = rests[i] => next[i] = Got(vals[i], rests[i + 1])

\* What has been read in the end is those values.
LEMMA TraceIs ==
    ASSUME NEW n \in Nat, NEW vals, NEW rests, NEW f, NEW next,
           OneByOne(f, next, n, rests[1]), Finds(f, next, n, vals, rests)
    PROVE  f[n] = Got([i \in 1 .. n |-> vals[i]], rests[n + 1])
<1> DEFINE first(k) == [i \in 1 .. k |-> vals[i]]
           S == {k \in Nat : k <= n => f[k] = Got(first(k), rests[k + 1])}
<1>1. 0 \in S
  <2>1. first(0) = <<>>
    OBVIOUS
  <2> HIDE DEF first
  <2>2. 0 + 1 = 1
    OBVIOUS
  <2>3. f[0] = Got(<<>>, rests[1])
    BY DEF OneByOne
  <2>4. QED  BY <2>1, <2>2, <2>3
<1>2. ASSUME NEW k \in Nat, k \in S PROVE k + 1 \in S
  <2>1. SUFFICES ASSUME k + 1 <= n PROVE f[k + 1] = Got(first(k + 1), rests[(k + 1) + 1])
    OBVIOUS
  <2>2. k + 1 \in 1 .. n /\ (k + 1) - 1 = k /\ f[k] = Got(first(k), rests[k + 1])
    BY <1>2, <2>1
  <2>3. Append(first(k), vals[k + 1]) = first(k + 1)
    <3> DEFINE T == {vals[i] : i \in 1 .. k + 1}
    <3>1. first(k) \in Seq(T) /\ Len(first(k)) = k
      OBVIOUS
    <3>2. QED  BY <3>1
  <2> HIDE DEF first
  <2>4. f[k].ok = TRUE /\ f[k].value = first(k) /\ f[k].rest = rests[k + 1]
    BY <2>2 DEF Got
  <2>5. next[k + 1] = Got(vals[k + 1], rests[(k + 1) + 1])
    BY <2>2, <2>4 DEF Finds
  <2>6. next[k + 1].ok = TRUE /\ next[k + 1].value = vals[k + 1] /\ next[k + 1].rest = rests[(k + 1) + 1]
    BY <2>5 DEF Got
  <2>7. f[k + 1] = IF f[k].ok /\ next[k + 1].ok
                     THEN Got(Append(f[k].value, next[k + 1].value), next[k + 1].rest) ELSE Failed
    BY <2>2 DEF OneByOne
  <2> HIDE DEF Got, Failed
  <2>8. QED  BY <2>3, <2>4, <2>6, <2>7
<1> HIDE DEF S
<1>3. n \in S
  BY <1>1, <1>2, Induction
<1>4. QED  BY <1>3 DEF S

\* The first n of vals.
FirstOf(vals, n) == [i \in 1 .. n |-> vals[i]]

\* Each of n things is read, and leaves the next rest.
Reads(n, kinds, vals, rests) ==
    n \in Nat /\ Len(kinds) = n /\ \A i \in 1 .. n : Read(kinds[i], rests[i]) = Got(vals[i], rests[i + 1])

\* Things are read one after the other when each of them is.
LEMMA ReadFieldsIs ==
    ASSUME NEW n, NEW kinds, NEW vals, NEW rests, Reads(n, kinds, vals, rests)
    PROVE  ReadFields(kinds, rests[1]) = Got(FirstOf(vals, n), rests[n + 1])
<1> DEFINE Body(f, i) == IF i = 0 THEN Got(<<>>, rests[1])
                         ELSE IF f[i - 1].ok /\ Read(kinds[i], f[i - 1].rest).ok
                                THEN Got(Append(f[i - 1].value, Read(kinds[i], f[i - 1].rest).value),
                                         Read(kinds[i], f[i - 1].rest).rest)
                                ELSE Failed
           IsRead(f) == f = [i \in 0 .. n |-> Body(f, i)]
           g == [i \in 0 .. n |-> Got([j \in 1 .. i |-> vals[j]], rests[i + 1])]
           read == CHOOSE f : IsRead(f)
<1>0. n \in Nat /\ Len(kinds) = n
  BY DEF Reads
<1>1. IsRead(g)
  <2>1. ASSUME NEW i \in 0 .. n PROVE g[i] = Body(g, i)
    <3>1. CASE i = 0
      BY <3>1
    <3>2. CASE i # 0
      <4>1. i \in 1 .. n /\ i - 1 \in 0 .. n /\ (i - 1) + 1 = i
        BY <1>0, <3>2
      <4> DEFINE first(k) == [j \in 1 .. k |-> vals[j]]
      <4>2. g[i - 1] = Got(first(i - 1), rests[i]) /\ g[i] = Got(first(i), rests[i + 1])
        BY <4>1
      <4>3. Append(first(i - 1), vals[i]) = first(i)
        <5> DEFINE T == {vals[j] : j \in 1 .. i}
        <5>1. first(i - 1) \in Seq(T) /\ Len(first(i - 1)) = i - 1
          BY <4>1
        <5>2. QED  BY <4>1, <5>1
      <4> HIDE DEF g, first
      <4>4. g[i - 1].ok = TRUE /\ g[i - 1].value = first(i - 1) /\ g[i - 1].rest = rests[i]
        BY <4>2 DEF Got
      <4> DEFINE next == Read(kinds[i], rests[i])
      <4>5. next = Got(vals[i], rests[i + 1])
        BY <4>1 DEF Reads
      <4> HIDE DEF next
      <4>6. next.ok = TRUE /\ next.value = vals[i] /\ next.rest = rests[i + 1]
        BY <4>5 DEF Got
      <4> HIDE DEF Got
      <4>7. Body(g, i) = Got(Append(first(i - 1), vals[i]), rests[i + 1])
        BY <3>2, <4>4, <4>6 DEF next
      <4>8. QED  BY <4>2, <4>3, <4>7
    <3>3. QED  BY <3>1, <3>2
  <2>2. g = [i \in 0 .. n |-> g[i]]
    OBVIOUS
  <2> HIDE DEF g, Body
  <2>3. QED  BY <2>1, <2>2
<1>2. IsRead(read)
  <2> HIDE DEF IsRead
  <2>1. QED  BY <1>1
<1>3. ReadFields(kinds, rests[1]) = read[n]
  BY <1>0 DEF ReadFields, ReadAll
<1> HIDE DEF read, g
<1>4. \A i \in 0 .. n : read[i] = Body(read, i)
  <2> HIDE DEF Body
  <2>1. QED  BY <1>2
<1> DEFINE next == [i \in 1 .. n |-> Read(kinds[i], read[i - 1].rest)]
<1>5. read[0] = Got(<<>>, rests[1])
  <2>1. 0 \in 0 .. n
    BY <1>0
  <2> HIDE DEF Got
  <2>2. QED  BY <1>4, <2>1
<1>6. ASSUME NEW i \in 1 .. n
      PROVE  read[i] = IF read[i - 1].ok /\ next[i].ok
                         THEN Got(Append(read[i - 1].value, next[i].value), next[i].rest) ELSE Failed
  <2>1. i \in 0 .. n /\ i # 0
    OBVIOUS
  <2>2. next[i] = Read(kinds[i], read[i - 1].rest)
    OBVIOUS
  <2> HIDE DEF next, Got, Failed
  <2>3. QED  BY <1>4, <2>1, <2>2
<1>7. Finds(read, next, n, vals, rests)
  BY DEF Finds, Reads
<1> HIDE DEF next, Got, Failed
<1>8. OneByOne(read, next, n, rests[1])
  BY <1>5, <1>6 DEF OneByOne
<1>9. read[n] = Got([i \in 1 .. n |-> vals[i]], rests[n + 1])
  BY <1>0, <1>7, <1>8, TraceIs
<1>10. QED  BY <1>3, <1>9 DEF FirstOf

-----------------------------------------------------------------------------
(* What a client reads from the front of a packet.                         *)

\* What each kind of thing is read as.
LEMMA ReadUnitIs ==
    ASSUME NEW b \in Seq(Int), b # <<>>
    PROVE  Read("unit", b) = Got(Head(b), Tail(b))
  BY DEF Read, ReadPart, ReadUnit

LEMMA ReadVarintIs ==
    ASSUME NEW value \in Ints, NEW r \in Seq(Int)
    PROVE  Read("varint", VarintWrite(value) \o r) = Got(value, r)
<1>1. Read("varint", VarintWrite(value) \o r) = ReadVarint(VarintWrite(value) \o r)
  BY DEF Read, ReadPart
<1>2. QED  BY <1>1, ReadBack

LEMMA TakeIs ==
    ASSUME NEW w \in Seq(Int), NEW r \in Seq(Int)
    PROVE  Take(Len(w), w \o r) = Got(w, r)
<1>1. Len(w) \in 0 .. Len(w \o r)
  OBVIOUS
<1>2. Take(Len(w), w \o r) = Got(SubSeq(w \o r, 1, Len(w)), SubSeq(w \o r, Len(w) + 1, Len(w \o r)))
  BY <1>1 DEF Take
<1> HIDE DEF Got
<1>3. QED  BY <1>2, Behind

LEMMA ReadStringIs ==
    ASSUME NEW w \in Seq(Int), Len(w) < Half, NEW r \in Seq(Int)
    PROVE  /\ ReadString(VarintWrite(Len(w)) \o (w \o r)) = Got(w, r)
           /\ Read("string", VarintWrite(Len(w)) \o (w \o r)) = Got(w, r)
<1> DEFINE b == VarintWrite(Len(w)) \o (w \o r)
           n == ReadVarint(b)
<1>1. Len(w) \in Ints /\ w \o r \in Seq(Int)
  <2>1. Len(w) \in 0 .. Half - 1
    BY WordIs
  <2>2. Len(w) \in Ints
    BY <2>1, LengthWritten
  <2>3. QED  BY <2>2
<1>2. n = Got(Len(w), w \o r)
  BY <1>1, ReadBack
<1>3. ReadString(b) = IF n.ok THEN Take(n.value, n.rest) ELSE Failed
  BY DEF ReadString
<1>4. Read("string", b) = ReadString(b)
  BY DEF Read, ReadPart
<1> HIDE DEF n, b
<1>5. n.ok = TRUE /\ n.value = Len(w) /\ n.rest = w \o r
  BY <1>2 DEF Got
<1>6. ReadString(b) = Take(Len(w), w \o r)
  BY <1>3, <1>5
<1>7. QED  BY <1>4, <1>6, TakeIs DEF b

\* The same for as many things as the packets have.
LEMMA OneThing ==
    ASSUME NEW k1,
           NEW v1,
           NEW r0, NEW r1,
           Read(k1, r0) = Got(v1, r1)
    PROVE  ReadFields(<<k1>>, r0) =
             Got(<<v1>>, r1)
<1> DEFINE kinds == <<k1>>
           vals == <<v1>>
           rests == <<r0, r1>>
<1>1. Len(kinds) = 1 /\ rests[1] = r0 /\ rests[1 + 1] = r1 /\ 1 \in Nat
  OBVIOUS
<1>2. Reads(1, kinds, vals, rests)
  BY <1>1 DEF Reads
<1>3. FirstOf(vals, 1) = <<v1>>
  BY DEF FirstOf
<1> HIDE DEF vals, rests, kinds
<1>4. ReadFields(kinds, rests[1]) = Got(FirstOf(vals, 1), rests[1 + 1])
  BY <1>2, ReadFieldsIs
<1>5. QED  BY <1>1, <1>3, <1>4 DEF kinds

LEMMA TwoThings ==
    ASSUME NEW k1, NEW k2,
           NEW v1, NEW v2,
           NEW r0, NEW r1, NEW r2,
           Read(k1, r0) = Got(v1, r1), Read(k2, r1) = Got(v2, r2)
    PROVE  ReadFields(<<k1, k2>>, r0) =
             Got(<<v1, v2>>, r2)
<1> DEFINE kinds == <<k1, k2>>
           vals == <<v1, v2>>
           rests == <<r0, r1, r2>>
<1>1. Len(kinds) = 2 /\ rests[1] = r0 /\ rests[2 + 1] = r2 /\ 2 \in Nat
  OBVIOUS
<1>2. Reads(2, kinds, vals, rests)
  BY <1>1 DEF Reads
<1>3. FirstOf(vals, 2) = <<v1, v2>>
  BY DEF FirstOf
<1> HIDE DEF vals, rests, kinds
<1>4. ReadFields(kinds, rests[1]) = Got(FirstOf(vals, 2), rests[2 + 1])
  BY <1>2, ReadFieldsIs
<1>5. QED  BY <1>1, <1>3, <1>4 DEF kinds

LEMMA ThreeThings ==
    ASSUME NEW k1, NEW k2, NEW k3,
           NEW v1, NEW v2, NEW v3,
           NEW r0, NEW r1, NEW r2, NEW r3,
           Read(k1, r0) = Got(v1, r1), Read(k2, r1) = Got(v2, r2),
           Read(k3, r2) = Got(v3, r3)
    PROVE  ReadFields(<<k1, k2, k3>>, r0) =
             Got(<<v1, v2, v3>>, r3)
<1> DEFINE kinds == <<k1, k2, k3>>
           vals == <<v1, v2, v3>>
           rests == <<r0, r1, r2, r3>>
<1>1. Len(kinds) = 3 /\ rests[1] = r0 /\ rests[3 + 1] = r3 /\ 3 \in Nat
  OBVIOUS
<1>2. Reads(3, kinds, vals, rests)
  BY <1>1 DEF Reads
<1>3. FirstOf(vals, 3) = <<v1, v2, v3>>
  BY DEF FirstOf
<1> HIDE DEF vals, rests, kinds
<1>4. ReadFields(kinds, rests[1]) = Got(FirstOf(vals, 3), rests[3 + 1])
  BY <1>2, ReadFieldsIs
<1>5. QED  BY <1>1, <1>3, <1>4 DEF kinds

LEMMA SevenThings ==
    ASSUME NEW k1, NEW k2, NEW k3, NEW k4, NEW k5, NEW k6, NEW k7,
           NEW v1, NEW v2, NEW v3, NEW v4, NEW v5, NEW v6, NEW v7,
           NEW r0, NEW r1, NEW r2, NEW r3, NEW r4, NEW r5, NEW r6, NEW r7,
           Read(k1, r0) = Got(v1, r1), Read(k2, r1) = Got(v2, r2),
           Read(k3, r2) = Got(v3, r3), Read(k4, r3) = Got(v4, r4),
           Read(k5, r4) = Got(v5, r5), Read(k6, r5) = Got(v6, r6),
           Read(k7, r6) = Got(v7, r7)
    PROVE  ReadFields(<<k1, k2, k3, k4, k5, k6, k7>>, r0) =
             Got(<<v1, v2, v3, v4, v5, v6, v7>>, r7)
<1> DEFINE kinds == <<k1, k2, k3, k4, k5, k6, k7>>
           vals == <<v1, v2, v3, v4, v5, v6, v7>>
           rests == <<r0, r1, r2, r3, r4, r5, r6, r7>>
<1>1. Len(kinds) = 7 /\ rests[1] = r0 /\ rests[7 + 1] = r7 /\ 7 \in Nat
  OBVIOUS
<1>2. Reads(7, kinds, vals, rests)
  BY <1>1 DEF Reads
<1>3. FirstOf(vals, 7) = <<v1, v2, v3, v4, v5, v6, v7>>
  BY DEF FirstOf
<1> HIDE DEF vals, rests, kinds
<1>4. ReadFields(kinds, rests[1]) = Got(FirstOf(vals, 7), rests[7 + 1])
  BY <1>2, ReadFieldsIs
<1>5. QED  BY <1>1, <1>3, <1>4 DEF kinds

LEMMA EightThings ==
    ASSUME NEW k1, NEW k2, NEW k3, NEW k4, NEW k5, NEW k6, NEW k7, NEW k8,
           NEW v1, NEW v2, NEW v3, NEW v4, NEW v5, NEW v6, NEW v7, NEW v8,
           NEW r0, NEW r1, NEW r2, NEW r3, NEW r4, NEW r5, NEW r6, NEW r7, NEW r8,
           Read(k1, r0) = Got(v1, r1), Read(k2, r1) = Got(v2, r2),
           Read(k3, r2) = Got(v3, r3), Read(k4, r3) = Got(v4, r4),
           Read(k5, r4) = Got(v5, r5), Read(k6, r5) = Got(v6, r6),
           Read(k7, r6) = Got(v7, r7), Read(k8, r7) = Got(v8, r8)
    PROVE  ReadFields(<<k1, k2, k3, k4, k5, k6, k7, k8>>, r0) =
             Got(<<v1, v2, v3, v4, v5, v6, v7, v8>>, r8)
<1> DEFINE kinds == <<k1, k2, k3, k4, k5, k6, k7, k8>>
           vals == <<v1, v2, v3, v4, v5, v6, v7, v8>>
           rests == <<r0, r1, r2, r3, r4, r5, r6, r7, r8>>
<1>1. Len(kinds) = 8 /\ rests[1] = r0 /\ rests[8 + 1] = r8 /\ 8 \in Nat
  OBVIOUS
<1>2. Reads(8, kinds, vals, rests)
  BY <1>1 DEF Reads
<1>3. FirstOf(vals, 8) = <<v1, v2, v3, v4, v5, v6, v7, v8>>
  BY DEF FirstOf
<1> HIDE DEF vals, rests, kinds
<1>4. ReadFields(kinds, rests[1]) = Got(FirstOf(vals, 8), rests[8 + 1])
  BY <1>2, ReadFieldsIs
<1>5. QED  BY <1>1, <1>3, <1>4 DEF kinds

\* A packet of which the client takes every number as it is.
LEMMA UnderstandPlain ==
    ASSUME NEW packet, NEW id, NEW v, id \notin {32, 35, 36}, Head(packet) = id,
           ReadFields(Kinds(id), Tail(packet)) = Got(v, <<>>)
    PROVE  Understand(packet) = <<id>> \o v
<1> DEFINE read == ReadFields(Kinds(id), Tail(packet))
<1>1. Understand(packet) = IF ~read.ok THEN Garbled ELSE IF read.rest = <<>> THEN <<id>> \o read.value ELSE Garbled
  BY DEF Understand
<1> HIDE DEF read
<1>2. read.ok = TRUE /\ read.value = v /\ read.rest = <<>>
  BY DEF Got, read
<1>3. QED  BY <1>1, <1>2

\* What the assumptions say of the sizes.
LEMMA Sizes ==
    /\ 28 < Half /\ 6 * MaxBytes + 2 < Half /\ 3 * MaxBytes + Longs + Placeholder + 12 < Half
    /\ Half \in Nat /\ MaxBytes \in Nat
    /\ Coordinates \subseteq Int /\ Numbers \subseteq Int
<1>1. 28 \in Ints /\ 6 * MaxBytes + 2 \in Ints /\ 3 * MaxBytes + Longs + Placeholder + 12 \in Ints
  BY SizesAssumption
<1>2. Coordinates \subseteq Ints /\ Numbers \subseteq Ints
  BY ProtocolAssumption
<1>3. Ints \subseteq Int
  BY WordIs DEF Ints
<1>4. QED  BY <1>1, <1>2, <1>3, WordIs, MaxBytesIs DEF Ints

\* What is sent and understood.
Understood == {Understand(packet) : packet \in Seq(Int)}

\* A packet that the client understands as message, and that its size can say.
Sound(message, packet) ==
    /\ packet \in Seq(Int) /\ Len(packet) \in 1 .. Half - 1
    /\ Understand(packet) = message

LEMMA SameSequence ==
    ASSUME NEW S, NEW s \in Seq(S), NEW t \in Seq(S), Len(s) = Len(t), \A i \in 1 .. Len(s) : s[i] = t[i]
    PROVE  s = t
  OBVIOUS

\* b behind x
LEMMA Joined ==
    ASSUME NEW S, NEW x \in S, NEW b \in Seq(S), NEW t \in Seq(S), Len(t) = Len(b) + 1, t[1] = x,
           \A i \in 1 .. Len(b) : t[i + 1] = b[i]
    PROVE  <<x>> \o b = t
<1> DEFINE s == <<x>> \o b
<1>1. s \in Seq(S) /\ Len(s) = Len(t)
  OBVIOUS
<1>2. ASSUME NEW i \in 1 .. Len(s) PROVE s[i] = t[i]
  <2>1. CASE i = 1
    BY <2>1
  <2>2. CASE i # 1
    <3>1. i - 1 \in 1 .. Len(b) /\ (i - 1) + 1 = i
      BY <2>2
    <3>2. s[i] = b[i - 1]
      BY <2>2
    <3>3. QED  BY <3>1, <3>2
  <2>3. QED  BY <2>1, <2>2
<1> HIDE DEF s
<1>3. s = t
  BY <1>1, <1>2, SameSequence
<1>4. QED  BY <1>3 DEF s

\* A number in front of a literal.
LEMMA Joined1 ==
    ASSUME NEW a, NEW b
    PROVE  <<a>> \o <<b>> = <<a, b>>
<1> DEFINE S == {a, b}
           w == <<b>>
           t == <<a, b>>
<1>1. /\ a \in S /\ w \in Seq(S) /\ Len(w) = 1 /\ t \in Seq(S) /\ Len(t) = 1 + 1 /\ t[1] = a
      /\ \A i \in 1 .. 1 : t[i + 1] = w[i]
  OBVIOUS
<1> HIDE DEF S, w, t
<1>2. <<a>> \o w = t
  BY <1>1, Joined
<1>3. QED  BY <1>2 DEF w, t

LEMMA Joined2 ==
    ASSUME NEW a, NEW b, NEW c
    PROVE  <<a>> \o <<b, c>> = <<a, b, c>>
<1> DEFINE S == {a, b, c}
           w == <<b, c>>
           t == <<a, b, c>>
<1>1. /\ a \in S /\ w \in Seq(S) /\ Len(w) = 2 /\ t \in Seq(S) /\ Len(t) = 2 + 1 /\ t[1] = a
      /\ \A i \in 1 .. 2 : t[i + 1] = w[i]
  OBVIOUS
<1> HIDE DEF S, w, t
<1>2. <<a>> \o w = t
  BY <1>1, Joined
<1>3. QED  BY <1>2 DEF w, t

LEMMA Joined7 ==
    ASSUME NEW a, NEW b, NEW c, NEW d, NEW e, NEW f, NEW g, NEW h
    PROVE  <<a>> \o <<b, c, d, e, f, g, h>> = <<a, b, c, d, e, f, g, h>>
<1> DEFINE S == {a, b, c, d, e, f, g, h}
           w == <<b, c, d, e, f, g, h>>
           t == <<a, b, c, d, e, f, g, h>>
<1>1. /\ a \in S /\ w \in Seq(S) /\ Len(w) = 7 /\ t \in Seq(S) /\ Len(t) = 7 + 1 /\ t[1] = a
      /\ \A i \in 1 .. 7 : t[i + 1] = w[i]
  OBVIOUS
<1> HIDE DEF S, w, t
<1>2. <<a>> \o w = t
  BY <1>1, Joined
<1>3. QED  BY <1>2 DEF w, t

LEMMA VarintType ==
    ASSUME NEW value \in Ints
    PROVE  VarintWrite(value) \in Seq(Int) /\ Len(VarintWrite(value)) \in 1 .. MaxBytes
<1>1. <<>> \in Seq(Int)
  OBVIOUS
<1>2. QED  BY <1>1, ReadBack

LEMMA ReadLastVarint ==
    ASSUME NEW value \in Ints
    PROVE  Read("varint", VarintWrite(value)) = Got(value, <<>>)
<1>1. <<>> \in Seq(Int)
  OBVIOUS
<1>2. Read("varint", VarintWrite(value) \o <<>>) = Got(value, <<>>)
  BY <1>1, ReadVarintIs
<1>3. VarintWrite(value) \o <<>> = VarintWrite(value)
  BY VarintType, ConcatEmptySeq
<1>4. QED  BY <1>2, <1>3

LEMMA ReadLastString ==
    ASSUME NEW w \in Seq(Int), Len(w) < Half
    PROVE  Read("string", VarintWrite(Len(w)) \o w) = Got(w, <<>>)
<1>1. <<>> \in Seq(Int)
  OBVIOUS
<1>2. Read("string", VarintWrite(Len(w)) \o (w \o <<>>)) = Got(w, <<>>)
  BY <1>1, ReadStringIs
<1>3. w \o <<>> = w
  BY ConcatEmptySeq
<1>4. QED  BY <1>2, <1>3

\* x stands in front of r in b.
Leads(b, x, r) == b \in Seq(Int) /\ b # <<>> /\ Head(b) = x /\ Tail(b) = r

LEMMA FrontIs ==
    ASSUME NEW x \in Int, NEW r \in Seq(Int)
    PROVE  Leads(<<x>> \o r, x, r)
  BY DEF Leads

LEMMA ReadFront ==
    ASSUME NEW b, NEW x, NEW r, Leads(b, x, r)
    PROVE  Read("unit", b) = Got(x, r)
  BY DEF Leads, Read, ReadPart, ReadUnit

\* Such a packet, whose fields are known to be read, is sound.
LEMMA PlainPacket ==
    ASSUME NEW p, NEW id, NEW kinds, NEW b, NEW v, NEW message, 
           id \notin {32, 35, 36}, Kinds(id) = kinds,
           Leads(p, id, b), ReadFields(kinds, b) = Got(v, <<>>), <<id>> \o v = message, Len(p) < Half
    PROVE  Sound(message, p)
<1>1. Head(p) = id /\ Tail(p) = b /\ p \in Seq(Int) /\ p # <<>>
  BY DEF Leads
<1>2. Understand(p) = <<id>> \o v
  BY <1>1, UnderstandPlain
<1>3. Len(p) \in 1 .. Half - 1
  BY <1>1, Sizes
<1>4. QED  BY <1>1, <1>2, <1>3 DEF Sound

\* The packets, one by one.
LEMMA SoundUnloadChunk ==
    ASSUME NEW x \in Coordinates, NEW z \in Coordinates
    PROVE  Sound(<<28, x, z>>, UnloadChunk(x, z))
<1> DEFINE p == UnloadChunk(x, z)
           b == <<x, z>>
           c == <<z>>
           kinds == <<"unit", "unit">>
           message == <<28, x, z>>
<1>1. x \in Int /\ z \in Int
  BY Sizes
<1>2. Leads(p, 28, b) /\ Leads(b, x, c) /\ Leads(c, z, <<>>)
  BY <1>1 DEF UnloadChunk, Leads
<1>3. Len(p) = 3
  BY DEF UnloadChunk
<1>4. Kinds(28) = kinds
  BY DEF Kinds
<1>5. <<28>> \o <<x, z>> = message
  BY Joined2
<1> HIDE DEF p, b, c, message
<1>6. ReadFields(<<"unit", "unit">>, b) = Got(<<x, z>>, <<>>)
  BY <1>2, ReadFront, TwoThings
<1> DEFINE v == <<x, z>>
<1> HIDE DEF kinds, v
<1>7. ReadFields(kinds, b) = Got(v, <<>>) /\ <<28>> \o v = message
  BY <1>5, <1>6 DEF kinds, v
<1>8. 28 \notin {32, 35, 36} /\ Len(p) < Half
  BY <1>3, Sizes
<1>9. Sound(message, p)
  BY <1>2, <1>4, <1>7, <1>8, PlainPacket
<1>10. QED  BY <1>9 DEF message, p

LEMMA SoundKeepAlive ==
    ASSUME NEW id \in Numbers
    PROVE  Sound(<<31, id>>, KeepAlive(id))
<1> DEFINE p == KeepAlive(id)
           b == <<id>>
           kinds == <<"unit">>
           message == <<31, id>>
<1>1. id \in Int
  BY Sizes
<1>2. Leads(p, 31, b) /\ Leads(b, id, <<>>)
  BY <1>1 DEF KeepAlive, Leads
<1>3. Len(p) = 2
  BY DEF KeepAlive
<1>4. Kinds(31) = kinds
  BY DEF Kinds
<1>5. <<31>> \o <<id>> = message
  BY Joined1
<1> HIDE DEF p, b, message
<1>6. ReadFields(<<"unit">>, b) = Got(<<id>>, <<>>)
  BY <1>2, ReadFront, OneThing
<1> DEFINE v == <<id>>
<1> HIDE DEF kinds, v
<1>7. ReadFields(kinds, b) = Got(v, <<>>) /\ <<31>> \o v = message
  BY <1>5, <1>6 DEF kinds, v
<1>8. 31 \notin {32, 35, 36} /\ Len(p) < Half
  BY <1>3, Sizes
<1>9. Sound(message, p)
  BY <1>2, <1>4, <1>7, <1>8, PlainPacket
<1>10. QED  BY <1>9 DEF message, p

LEMMA SoundPong ==
    ASSUME NEW payload \in Numbers
    PROVE  Sound(<<1, payload>>, Pong(payload))
<1> DEFINE p == Pong(payload)
           b == <<payload>>
           kinds == <<"unit">>
           message == <<1, payload>>
<1>1. payload \in Int
  BY Sizes
<1>2. Leads(p, 1, b) /\ Leads(b, payload, <<>>)
  BY <1>1 DEF Pong, Leads
<1>3. Len(p) = 2
  BY DEF Pong
<1>4. Kinds(1) = kinds
  BY DEF Kinds
<1>5. <<1>> \o <<payload>> = message
  BY Joined1
<1> HIDE DEF p, b, message
<1>6. ReadFields(<<"unit">>, b) = Got(<<payload>>, <<>>)
  BY <1>2, ReadFront, OneThing
<1> DEFINE v == <<payload>>
<1> HIDE DEF kinds, v
<1>7. ReadFields(kinds, b) = Got(v, <<>>) /\ <<1>> \o v = message
  BY <1>5, <1>6 DEF kinds, v
<1>8. 1 \notin {32, 35, 36} /\ Len(p) < Half
  BY <1>3, Sizes
<1>9. Sound(message, p)
  BY <1>2, <1>4, <1>7, <1>8, PlainPacket
<1>10. QED  BY <1>9 DEF message, p

\* A number in front of two sequences.
LEMMA AfterFront ==
    ASSUME NEW x \in Int, NEW v \in Seq(Int), NEW w \in Seq(Int)
    PROVE  Leads(<<x>> \o v \o w, x, v \o w) /\ Len(<<x>> \o v \o w) = Len(v) + Len(w) + 1
<1>1. <<x>> \in Seq(Int) /\ v \o w \in Seq(Int)
  OBVIOUS
<1>2. (<<x>> \o v) \o w = <<x>> \o (v \o w)
  BY <1>1, ConcatAssociative
<1>3. Leads(<<x>> \o (v \o w), x, v \o w)
  <2> DEFINE r == v \o w
  <2>1. r \in Seq(Int)
    BY <1>1
  <2> HIDE DEF r
  <2>2. Leads(<<x>> \o r, x, r)
    BY <2>1, FrontIs
  <2>3. QED  BY <2>2 DEF r
<1> DEFINE b == (<<x>> \o v) \o w
           c == <<x>> \o (v \o w)
           r == v \o w
<1>4. Len(b) = Len(w) + Len(v) + 1
  BY LengthOfThree
<1> HIDE DEF b, c, r
<1>5. Leads(b, x, r)
  BY <1>2, <1>3 DEF b, c, r
<1>6. Leads(b, x, r) /\ Len(b) = Len(v) + Len(w) + 1
  BY <1>4, <1>5
<1>7. QED  BY <1>6 DEF b, r

LEMMA SoundJson ==
    ASSUME NEW n \in Lengths
    PROVE  Sound(<<0, Text(n)>>, JsonResponse(Text(n)))
<1> DEFINE t == Text(n)
           w == VarintWrite(Len(t))
           p == <<0>> \o w \o t
           b == w \o t
           kinds == <<"string">>
           v == <<t>>
           message == <<0, t>>
<1>1. /\ t \in Seq(Int) /\ Len(t) = n /\ n \in Nat /\ n < Half
      /\ n + MaxBytes + 1 < Half /\ n \in Ints
  BY LengthIs, LengthWritten, Sizes
<1>2. JsonResponse(t) = p
  BY DEF JsonResponse
<1>3. w \in Seq(Int) /\ Len(w) \in 1 .. MaxBytes
  BY <1>1, VarintType
<1>4. <<0>> \o v = message
  BY Joined1
<1>5. Kinds(0) = kinds
  BY DEF Kinds
<1>6. Read("string", b) = Got(t, <<>>)
  <2> HIDE DEF t
  <2>1. QED  BY <1>1, ReadLastString
<1> HIDE DEF t, w, message
<1>7. Leads(p, 0, b) /\ Len(p) = Len(w) + Len(t) + 1
  <2>1. 0 \in Int /\ w \in Seq(Int) /\ t \in Seq(Int)
    BY <1>1, <1>3
  <2>2. QED  BY <2>1, AfterFront
<1>8. 0 \notin {32, 35, 36} /\ Len(p) < Half
  BY <1>1, <1>3, <1>7, Sizes
<1> HIDE DEF p, b
<1>9. ReadFields(kinds, b) = Got(v, <<>>)
  BY <1>6, OneThing
<1> HIDE DEF kinds, v
<1>10. Sound(message, p)
  BY <1>4, <1>5, <1>7, <1>8, <1>9, PlainPacket
<1>11. QED  BY <1>2, <1>10 DEF message, t

LEMMA SoundLoginSuccess ==
    ASSUME NEW n \in Lengths, n < Segment
    PROVE  Sound(<<2, Uuid, Text(n)>>, LoginSuccess(Text(n)))
<1> DEFINE t == Text(n)
           p == <<2, Uuid, n>> \o t
           b == <<Uuid, n>> \o t
           c == <<n>> \o t
           kinds == <<"unit", "string">>
           v == <<Uuid, t>>
           message == <<2, Uuid, t>>
<1>1. /\ t \in Seq(Int) /\ Len(t) = n /\ n \in Nat /\ n < Half /\ n + MaxBytes + 1 < Half
      /\ n \in 0 .. Segment - 1 /\ Uuid \in Int
  BY LengthIs, SegmentIs, Sizes DEF Uuid
<1>2. LoginSuccess(t) = p
  BY <1>1 DEF LoginSuccess
<1>3. <<2>> \o v = message
  BY Joined2
<1>4. Kinds(2) = kinds
  BY DEF Kinds
<1>5. Read("string", c) = Got(t, <<>>)
  <2> HIDE DEF t
  <2>1. Read("string", VarintWrite(Len(t)) \o t) = Got(t, <<>>)
    BY <1>1, ReadLastString
  <2>2. VarintWrite(n) = <<n>>
    BY <1>1, OneByte
  <2>3. QED  BY <1>1, <2>1, <2>2
<1> HIDE DEF t, message
<1>6. Leads(p, 2, b) /\ Leads(b, Uuid, c) /\ Len(p) = n + 3
  BY <1>1 DEF Leads
<1>7. 2 \notin {32, 35, 36} /\ Len(p) < Half
  BY <1>1, <1>6, Sizes, HalfIs
<1> HIDE DEF p, b, c
<1>8. ReadFields(kinds, b) = Got(v, <<>>)
  BY <1>5, <1>6, ReadFront, TwoThings
<1> HIDE DEF kinds, v
<1>9. Sound(message, p)
  BY <1>3, <1>4, <1>6, <1>7, <1>8, PlainPacket
<1>10. QED  BY <1>2, <1>9 DEF message, t

LEMMA SoundUpdateViewPosition ==
    ASSUME NEW x \in Coordinates, NEW z \in Coordinates
    PROVE  Sound(<<64, x, z>>, UpdateViewPosition(x, z))
<1> DEFINE w == VarintWrite(x)
           u == VarintWrite(z)
           p == <<64>> \o w \o u
           b == w \o u
           kinds == <<"varint", "varint">>
           v == <<x, z>>
           message == <<64, x, z>>
<1>1. x \in Ints /\ z \in Ints /\ x \in Int /\ z \in Int
  BY Sizes, ProtocolAssumption
<1>2. UpdateViewPosition(x, z) = p
  BY DEF UpdateViewPosition
<1>3. /\ w \in Seq(Int) /\ Len(w) \in 1 .. MaxBytes
      /\ u \in Seq(Int) /\ Len(u) \in 1 .. MaxBytes
  BY <1>1, VarintType
<1>4. <<64>> \o v = message
  BY Joined2
<1>5. Kinds(64) = kinds
  BY DEF Kinds
<1>6. Read("varint", b) = Got(x, u)
  BY <1>1, <1>3, ReadVarintIs
<1>7. Read("varint", u) = Got(z, <<>>)
  BY <1>1, ReadLastVarint
<1> HIDE DEF w, u, message
<1>8. Leads(p, 64, b) /\ Len(p) = Len(w) + Len(u) + 1
  BY <1>3, AfterFront
<1>9. 64 \notin {32, 35, 36} /\ Len(p) < Half
  BY <1>3, <1>8, Sizes
<1> HIDE DEF p, b
<1>10. ReadFields(kinds, b) = Got(v, <<>>)
  BY <1>6, <1>7, TwoThings
<1> HIDE DEF kinds, v
<1>11. Sound(message, p)
  BY <1>4, <1>5, <1>8, <1>9, <1>10, PlainPacket
<1>12. QED  BY <1>2, <1>11 DEF message

LEMMA SoundPlayerPositionAndLook ==
    ASSUME NEW id \in Numbers
    PROVE  Sound(<<52, 8, 5, 8, -180, 0, 0, id>>, PlayerPositionAndLook(id))
<1> DEFINE w == VarintWrite(id)
           p == <<52, 8, 5, 8, -180, 0, 0>> \o w
           b1 == <<8, 5, 8, -180, 0, 0>> \o w
           b2 == <<5, 8, -180, 0, 0>> \o w
           b3 == <<8, -180, 0, 0>> \o w
           b4 == <<-180, 0, 0>> \o w
           b5 == <<0, 0>> \o w
           b6 == <<0>> \o w
           kinds == <<"unit", "unit", "unit", "unit", "unit", "unit", "varint">>
           v == <<8, 5, 8, -180, 0, 0, id>>
           message == <<52, 8, 5, 8, -180, 0, 0, id>>
<1>1. id \in Ints /\ id \in Int
  BY Sizes, ProtocolAssumption
<1>2. PlayerPositionAndLook(id) = p
  BY DEF PlayerPositionAndLook
<1>3. w \in Seq(Int) /\ Len(w) \in 1 .. MaxBytes
  BY <1>1, VarintType
<1>4. <<52>> \o v = message
  BY Joined7
<1>5. Kinds(52) = kinds
  BY DEF Kinds
<1>6. Read("varint", w) = Got(id, <<>>)
  BY <1>1, ReadLastVarint
<1> HIDE DEF w, message
<1>7. /\ Leads(p, 52, b1) /\ Leads(b1, 8, b2) /\ Leads(b2, 5, b3) /\ Leads(b3, 8, b4)
      /\ Leads(b4, -180, b5) /\ Leads(b5, 0, b6) /\ Leads(b6, 0, w) /\ Len(p) = Len(w) + 7
  <2>1. Leads(p, 52, b1) /\ Len(p) = Len(w) + 7
    BY <1>3 DEF Leads
  <2>2. Leads(b1, 8, b2)
    BY <1>3 DEF Leads
  <2>3. Leads(b2, 5, b3)
    BY <1>3 DEF Leads
  <2>4. Leads(b3, 8, b4)
    BY <1>3 DEF Leads
  <2>5. Leads(b4, -180, b5)
    BY <1>3 DEF Leads
  <2>6. Leads(b5, 0, b6) /\ Leads(b6, 0, w)
    BY <1>3 DEF Leads
  <2>7. QED  BY <2>1, <2>2, <2>3, <2>4, <2>5, <2>6
<1>8. 52 \notin {32, 35, 36} /\ Len(p) < Half
  BY <1>3, <1>7, Sizes, HalfIs
<1> HIDE DEF p, b1, b2, b3, b4, b5, b6
<1>9. ReadFields(kinds, b1) = Got(v, <<>>)
  BY <1>6, <1>7, ReadFront, SevenThings
<1> HIDE DEF kinds, v
<1>10. Sound(message, p)
  BY <1>4, <1>5, <1>7, <1>8, <1>9, PlainPacket
<1>11. QED  BY <1>2, <1>10 DEF message

-----------------------------------------------------------------------------
(* The light of a chunk.                                                   *)

\* Sequences one behind the other.
LEMMA Concat ==
    ASSUME NEW a \in Seq(Int), NEW b \in Seq(Int)
    PROVE  a \o b \in Seq(Int) /\ Len(a \o b) = Len(a) + Len(b) /\ Len(a) \in Nat /\ Len(b) \in Nat
  OBVIOUS

LEMMA Associative ==
    ASSUME NEW a \in Seq(Int), NEW b \in Seq(Int), NEW c \in Seq(Int)
    PROVE  (a \o b) \o c = a \o (b \o c)
  BY ConcatAssociative

\* A piece moves from the end of what is before to the front of what is behind.
LEMMA Move ==
    ASSUME NEW q \in Seq(Int), NEW w \in Seq(Int), NEW b \in Seq(Int),
           NEW before, NEW behind, before = q \o w, behind = w \o b
    PROVE  before \o b = q \o behind
  BY Associative

\* A number of more bits than a word has is read as the bits that are left.
LEMMA ReadAnyVarint ==
    ASSUME NEW value \in Int, NEW r \in Seq(Int)
    PROVE  /\ VarintWrite(value) \in Seq(Int) /\ Len(VarintWrite(value)) \in 1 .. MaxBytes
           /\ Read("varint", VarintWrite(value) \o r) = Got(Signed(Unsigned(value)), r)
<1>1. Unsigned(value) \in UInts /\ Unsigned(value) \in Nat
  BY UnsignedType DEF UInts
<1>2. PICK n : Takes(Unsigned(value), n)
  BY <1>1, TakesSome
<1>3. n \in 1 .. MaxBytes /\ n \in Nat /\ Unsigned(value) < Power(Segment, n)
  BY <1>2, MaxBytesIs DEF Takes
<1>4. VarintWrite(value) = Written(Unsigned(value), n)
  BY <1>2, VarintWriteIs
<1>5. Read("varint", VarintWrite(value) \o r) = ReadVarint(VarintWrite(value) \o r)
  BY DEF Read, ReadPart
<1> HIDE DEF Got, Unsigned, Signed, Written, UInts
<1>6. QED  BY <1>1, <1>3, <1>4, <1>5, ReadWritten, WrittenType

LEMMA MaskType ==
    ASSUME NEW T
    PROVE  Mask(T) \in Int
<1> DEFINE f == [i \in 1 .. Sections + 2 |-> IF i - 1 \in T THEN Power(2, i - 1) ELSE 0]
<1>1. Sections + 2 \in Nat
  BY ProtocolAssumption
<1>2. ASSUME NEW i \in 1 .. Sections + 2 PROVE f[i] \in Int
  <2>1. i - 1 \in Nat
    OBVIOUS
  <2>2. Power(2, i - 1) \in Int
    BY <2>1, PowerType
  <2>3. QED  BY <2>2
<1> HIDE DEF f
<1>3. Total(f, Sections + 2) \in Int
  BY <1>1, <1>2, TotalType
<1>4. QED  BY <1>3 DEF Mask, f

\* A mask of nothing, and the bits that it has.
LEMMA MaskOfNone == Mask({}) = 0
<1> DEFINE f == [i \in 1 .. Sections + 2 |-> IF i - 1 \in {} THEN Power(2, i - 1) ELSE 0]
           g == [k \in Nat |-> 0]
<1>1. Sections + 2 \in Nat
  BY ProtocolAssumption
<1>2. g[0] = 0 /\ g[Sections + 2] = 0 /\ \A k \in 1 .. Sections + 2 : g[k] = g[k - 1] + f[k]
  BY <1>1
<1> HIDE DEF f, g
<1>3. Total(f, Sections + 2) = 0
  BY <1>1, <1>2, TotalIs
<1>4. QED  BY <1>3 DEF Mask, f

LEMMA BitsOfNone == Bits(0) = {}
<1>1. ASSUME NEW i \in Lights PROVE (0 \div Power(2, i)) % 2 = 0
  <2>1. i \in Nat
    BY ProtocolAssumption DEF Lights
  <2>2. Power(2, i) \in Nat \ {0}
    BY <2>1, PowerPositive
  <2>3. 0 \div Power(2, i) = 0
    BY <2>2, Small
  <2>4. QED  BY <2>3
<1>2. QED  BY <1>1 DEF Bits

\* Of no things nothing is read.
LEMMA Nothing ==
    ASSUME NEW kind, NEW b
    PROVE  ReadFields(Times(0, kind), b) = Got(<<>>, b)
<1> DEFINE kinds == Times(0, kind)
           vals == <<>>
           rests == <<b>>
<1>1. Len(kinds) = 0 /\ rests[1] = b /\ rests[0 + 1] = b
  BY DEF Times
<1>2. Reads(0, kinds, vals, rests)
  BY <1>1 DEF Reads
<1>3. FirstOf(vals, 0) = <<>>
  BY DEF FirstOf
<1> HIDE DEF vals, rests, kinds
<1>4. ReadFields(kinds, rests[1]) = Got(FirstOf(vals, 0), rests[0 + 1])
  BY <1>2, ReadFieldsIs
<1>5. QED  BY <1>1, <1>3, <1>4 DEF kinds

LEMMA LastString ==
    ASSUME NEW w
    PROVE  FlattenSeq([i \in 1 .. Cardinality({}) |-> w]) = <<>>
<1>1. Cardinality({}) = 0
  BY FS_EmptySet
<1>2. QED  BY <1>1 DEF FlattenSeq

\* The three packets of which the client makes more than their fields.
LEMMA UnderstandOther ==
    ASSUME NEW packet, NEW v, NEW r, ReadFields(Kinds(Head(packet)), Tail(packet)) = Got(v, r)
    PROVE  /\ Head(packet) = 32 => Understand(packet) = ChunkOf(v, r)
           /\ Head(packet) = 35 => Understand(packet) = LightOf(v, r)
           /\ Head(packet) = 36 => Understand(packet) = GameOf(v, r)
<1> DEFINE read == ReadFields(Kinds(Head(packet)), Tail(packet))
<1>1. read.ok = TRUE /\ read.value = v /\ read.rest = r
  BY DEF Got
<1>2. Understand(packet) =
        CASE ~read.ok                     -> Garbled
          [] Head(packet) = 32 /\ read.ok -> ChunkOf(read.value, read.rest)
          [] Head(packet) = 35 /\ read.ok -> LightOf(read.value, read.rest)
          [] Head(packet) = 36 /\ read.ok -> GameOf(read.value, read.rest)
          [] OTHER                        -> IF read.rest = <<>> THEN <<Head(packet)>> \o read.value ELSE Garbled
  BY DEF Understand
<1> HIDE DEF read
<1>3. QED  BY <1>1, <1>2

\* There is no light, and the client reads that there is none.
LEMMA SoundFullUpdateLight ==
    ASSUME NEW x \in Coordinates, NEW z \in Coordinates
    PROVE  Sound(<<35, x, z, Chunk(x, z).sky_light, Chunk(x, z).block_light>>, FullUpdateLight(Chunk(x, z)))
<1> DEFINE m == Mask(Lights) - 0
           k == Signed(Unsigned(m))
           w1 == VarintWrite(x)
           w2 == VarintWrite(z)
           w4 == VarintWrite(0)
           w6 == VarintWrite(m)
           p == <<35>> \o w1 \o w2 \o <<1>> \o w4 \o w4 \o w6 \o w6 \o <<>> \o <<>>
           b7 == w6
           b6 == w6 \o b7
           b5 == w4 \o b6
           b4 == w4 \o b5
           b3 == <<1>> \o b4
           b2 == w2 \o b3
           b1 == w1 \o b2
           kinds == <<"varint", "varint", "unit", "varint", "varint", "varint", "varint">>
           v == <<x, z, 1, 0, 0, k, k>>
           message == <<35, x, z, {}, {}>>
<1>1. x \in Ints /\ z \in Ints /\ x \in Int /\ z \in Int /\ 0 \in Ints /\ m \in Int
  BY Sizes, ProtocolAssumption, MaskType, WordIs DEF Ints
<1>2. FullUpdateLight(Chunk(x, z)) = p
  <2>1. Chunk(x, z).sky_light = {} /\ Chunk(x, z).block_light = {} /\ Chunk(x, z).x = x /\ Chunk(x, z).z = z
        /\ {} \cup {} = {}
    BY DEF Chunk
  <2>2. FlattenSeq([i \in 1 .. Cardinality({}) |-> VarintWrite(1) \o <<TheLight>>]) = <<>>
    BY LastString
  <2>3. QED  BY <2>1, <2>2, MaskOfNone DEF FullUpdateLight
<1>3. /\ w1 \in Seq(Int) /\ Len(w1) \in 1 .. MaxBytes /\ w2 \in Seq(Int) /\ Len(w2) \in 1 .. MaxBytes
      /\ w4 \in Seq(Int) /\ Len(w4) \in 1 .. MaxBytes
  BY <1>1, VarintType
<1>4. w6 \in Seq(Int) /\ Len(w6) \in 1 .. MaxBytes
  <2>1. <<>> \in Seq(Int)
    OBVIOUS
  <2> HIDE DEF m
  <2>2. QED  BY <1>1, <2>1, ReadAnyVarint
<1>5. /\ b7 \in Seq(Int) /\ b6 \in Seq(Int) /\ b5 \in Seq(Int) /\ b4 \in Seq(Int)
      /\ b3 \in Seq(Int) /\ b2 \in Seq(Int) /\ b1 \in Seq(Int)
  <2> HIDE DEF w1, w2, w4, w6
  <2>1. QED  BY <1>3, <1>4
<1>6. Len(b1) = Len(w1) + Len(w2) + 1 + Len(w4) + Len(w4) + Len(w6) + Len(w6)
  <2>1. <<1>> \in Seq(Int) /\ Len(<<1>>) = 1
    OBVIOUS
  <2> HIDE DEF w1, w2, w4, w6
  <2>2. Len(b6) = Len(w6) + Len(b7)
    <3> HIDE DEF b7
    <3>1. QED  BY <1>4, <1>5, Concat
  <2>3. Len(b5) = Len(w4) + Len(b6)
    <3> HIDE DEF b6
    <3>1. QED  BY <1>3, <1>5, Concat
  <2>4. Len(b4) = Len(w4) + Len(b5)
    <3> HIDE DEF b5
    <3>1. QED  BY <1>3, <1>5, Concat
  <2>5. Len(b3) = 1 + Len(b4)
    <3> HIDE DEF b4
    <3>1. QED  BY <1>5, <2>1, Concat
  <2>6. Len(b2) = Len(w2) + Len(b3)
    <3> HIDE DEF b3
    <3>1. QED  BY <1>3, <1>5, Concat
  <2>7. Len(b1) = Len(w1) + Len(b2)
    <3> HIDE DEF b2
    <3>1. QED  BY <1>3, <1>5, Concat
  <2>8. Len(w1) \in Nat /\ Len(w2) \in Nat /\ Len(w4) \in Nat /\ Len(w6) \in Nat /\ Len(b7) = Len(w6)
    BY <1>3, <1>4
  <2> HIDE DEF b1, b2, b3, b4, b5, b6, b7
  <2>9. QED  BY <2>2, <2>3, <2>4, <2>5, <2>6, <2>7, <2>8
<1>7. /\ Read("varint", b1) = Got(x, b2) /\ Read("varint", b2) = Got(z, b3)
      /\ Read("varint", b4) = Got(0, b5) /\ Read("varint", b5) = Got(0, b6)
  <2>1. Read("varint", b1) = Got(x, b2)
    <3> HIDE DEF b2
    <3>1. QED  BY <1>1, <1>5, ReadVarintIs
  <2>2. Read("varint", b2) = Got(z, b3)
    <3> HIDE DEF b3
    <3>1. QED  BY <1>1, <1>5, ReadVarintIs
  <2>3. Read("varint", b4) = Got(0, b5)
    <3> HIDE DEF b5
    <3>1. QED  BY <1>1, <1>5, ReadVarintIs
  <2>4. Read("varint", b5) = Got(0, b6)
    <3> HIDE DEF b6
    <3>1. QED  BY <1>1, <1>5, ReadVarintIs
  <2>5. QED  BY <2>1, <2>2, <2>3, <2>4
<1>8. Read("unit", b3) = Got(1, b4)
  <2> HIDE DEF b4
  <2>1. Leads(b3, 1, b4)
    BY <1>5, FrontIs
  <2>2. QED  BY <2>1, ReadFront
<1>9. Read("varint", b6) = Got(k, b7) /\ Read("varint", b7) = Got(k, <<>>)
  <2> HIDE DEF m
  <2>1. <<>> \in Seq(Int) /\ w6 \o <<>> = w6
    BY <1>4, ConcatEmptySeq
  <2>2. Read("varint", VarintWrite(m) \o <<>>) = Got(k, <<>>)
    BY <1>1, <2>1, ReadAnyVarint
  <2>3. Read("varint", VarintWrite(m) \o b7) = Got(k, b7)
    <3> HIDE DEF b7
    <3>1. QED  BY <1>1, <1>5, ReadAnyVarint
  <2>4. QED  BY <2>1, <2>2, <2>3
<1>10. p = <<35>> \o b1
  <2> DEFINE q1 == <<35>> \o w1
             q2 == q1 \o w2
             q3 == q2 \o <<1>>
             q4 == q3 \o w4
             q5 == q4 \o w4
             q6 == q5 \o w6
             q7 == q6 \o w6
  <2>1. p = (q7 \o <<>>) \o <<>>
    OBVIOUS
  <2> HIDE DEF w1, w2, w4, w6, p
  <2>2. /\ w1 \in Seq(Int) /\ w2 \in Seq(Int) /\ w4 \in Seq(Int) /\ w6 \in Seq(Int)
        /\ <<35>> \in Seq(Int) /\ <<1>> \in Seq(Int)
    BY <1>3, <1>4
  <2>3. /\ q1 \in Seq(Int) /\ q2 \in Seq(Int) /\ q3 \in Seq(Int) /\ q4 \in Seq(Int)
        /\ q5 \in Seq(Int) /\ q6 \in Seq(Int) /\ q7 \in Seq(Int)
    BY <2>2, Concat
  <2>4. (q7 \o <<>>) \o <<>> = q7
    <3> HIDE DEF q7
    <3>1. QED  BY <2>3, ConcatEmptySeq
  <2>5. q1 \o b2 = <<35>> \o b1
    <3> HIDE DEF b2
    <3>1. QED  BY <1>5, <2>2, <2>3, Associative
  <2>6. q2 \o b3 = q1 \o b2
    <3>1. q2 = q1 \o w2 /\ b2 = w2 \o b3
      OBVIOUS
    <3>2. q1 \in Seq(Int) /\ w2 \in Seq(Int) /\ b3 \in Seq(Int)
      BY <1>5, <2>2, <2>3
    <3> HIDE DEF q1, q2, q3, q4, q5, q6, q7, b1, b2, b3, b4, b5, b6, b7
    <3>3. QED  BY <3>1, <3>2, Move
  <2>7. q3 \o b4 = q2 \o b3
    <3>1. q3 = q2 \o <<1>> /\ b3 = <<1>> \o b4
      OBVIOUS
    <3>2. q2 \in Seq(Int) /\ <<1>> \in Seq(Int) /\ b4 \in Seq(Int)
      BY <1>5, <2>2, <2>3
    <3> HIDE DEF q1, q2, q3, q4, q5, q6, q7, b1, b2, b3, b4, b5, b6, b7
    <3>3. QED  BY <3>1, <3>2, Move
  <2>8. q4 \o b5 = q3 \o b4
    <3>1. q4 = q3 \o w4 /\ b4 = w4 \o b5
      OBVIOUS
    <3>2. q3 \in Seq(Int) /\ w4 \in Seq(Int) /\ b5 \in Seq(Int)
      BY <1>5, <2>2, <2>3
    <3> HIDE DEF q1, q2, q3, q4, q5, q6, q7, b1, b2, b3, b4, b5, b6, b7
    <3>3. QED  BY <3>1, <3>2, Move
  <2>9. q5 \o b6 = q4 \o b5
    <3>1. q5 = q4 \o w4 /\ b5 = w4 \o b6
      OBVIOUS
    <3>2. q4 \in Seq(Int) /\ w4 \in Seq(Int) /\ b6 \in Seq(Int)
      BY <1>5, <2>2, <2>3
    <3> HIDE DEF q1, q2, q3, q4, q5, q6, q7, b1, b2, b3, b4, b5, b6, b7
    <3>3. QED  BY <3>1, <3>2, Move
  <2>10. q6 \o b7 = q5 \o b6
    <3>1. q6 = q5 \o w6 /\ b6 = w6 \o b7
      OBVIOUS
    <3>2. q5 \in Seq(Int) /\ w6 \in Seq(Int) /\ b7 \in Seq(Int)
      BY <1>5, <2>2, <2>3
    <3> HIDE DEF q1, q2, q3, q4, q5, q6, q7, b1, b2, b3, b4, b5, b6, b7
    <3>3. QED  BY <3>1, <3>2, Move
  <2>11. q7 = q6 \o b7
    OBVIOUS
  <2> HIDE DEF q1, q2, q3, q4, q5, q6, q7, b1, b2, b3, b4, b5, b6, b7
  <2>12. QED  BY <2>1, <2>4, <2>5, <2>6, <2>7, <2>8, <2>9, <2>10, <2>11
<1>11. Leads(p, 35, b1) /\ Len(p) = Len(b1) + 1
  <2> HIDE DEF b1, p
  <2>1. 35 \in Int /\ Len(<<35>> \o b1) = Len(b1) + 1
    BY <1>5
  <2>2. QED  BY <1>5, <1>10, <2>1, FrontIs
<1>12. Len(p) \in 1 .. Half - 1
  <2> DEFINE c1 == Len(w1)
             c2 == Len(w2)
             c4 == Len(w4)
             c6 == Len(w6)
  <2>1. /\ c1 \in Nat /\ c1 <= MaxBytes /\ c2 \in Nat /\ c2 <= MaxBytes
        /\ c4 \in Nat /\ c4 <= MaxBytes /\ c6 \in Nat /\ c6 <= MaxBytes
    <3> HIDE DEF w1, w2, w4, w6
    <3>1. QED  BY <1>3, <1>4, Sizes
  <2>2. Len(p) = (c1 + c2 + 1 + c4 + c4 + c6 + c6) + 1
    BY <1>6, <1>11
  <2> HIDE DEF c1, c2, c4, c6, p
  <2>3. QED  BY <2>1, <2>2, Sizes
<1> HIDE DEF p, b1, b2, b3, b4, b5, b6, b7
<1>13. ReadFields(kinds, b1) = Got(v, <<>>)
  <2> HIDE DEF k, m
  <2>1. QED  BY <1>7, <1>8, <1>9, SevenThings
<1>14. Kinds(35) = kinds
  BY DEF Kinds
<1>15. v[1] = x /\ v[2] = z /\ v[4] = 0 /\ v[5] = 0
  OBVIOUS
<1> HIDE DEF v, kinds
<1>16. Understand(p) = message
  <2> DEFINE lights == ReadFields(Times(Cardinality(Bits(v[4])) + Cardinality(Bits(v[5])), "string"), <<>>)
  <2>1. Head(p) = 35 /\ ReadFields(Kinds(35), Tail(p)) = Got(v, <<>>)
    BY <1>11, <1>13, <1>14 DEF Leads
  <2>2. Understand(p) = LightOf(v, <<>>)
    BY <2>1, UnderstandOther
  <2>3. Bits(v[4]) = {} /\ Bits(v[5]) = {} /\ Cardinality({}) = 0
    BY <1>15, BitsOfNone, FS_EmptySet
  <2>4. lights = Got(<<>>, <<>>)
    <3>1. Cardinality(Bits(v[4])) + Cardinality(Bits(v[5])) = 0
      BY <2>3
    <3>2. QED  BY <3>1, Nothing
  <2> HIDE DEF lights
  <2>5. lights.ok = TRUE /\ lights.rest = <<>>
    BY <2>4 DEF Got
  <2>6. LightOf(v, <<>>) = <<35, v[1], v[2], Bits(v[4]), Bits(v[5])>>
    BY <2>5 DEF LightOf, lights
  <2>7. QED  BY <1>15, <2>2, <2>3, <2>6
<1>17. Sound(message, p)
  BY <1>11, <1>12, <1>16 DEF Sound, Leads
<1>18. Chunk(x, z).sky_light = {} /\ Chunk(x, z).block_light = {}
  BY DEF Chunk
<1>19. QED  BY <1>2, <1>17, <1>18

-----------------------------------------------------------------------------
(* Join Game.                                                              *)

\* The same of things that have no parts of their own.
ReadsParts(n, kinds, vals, rests) ==
    n \in Nat /\ Len(kinds) = n /\ \A i \in 1 .. n : ReadPart(kinds[i], rests[i]) = Got(vals[i], rests[i + 1])

LEMMA ReadPartsIs ==
    ASSUME NEW n, NEW kinds, NEW vals, NEW rests, ReadsParts(n, kinds, vals, rests)
    PROVE  ReadParts(kinds, rests[1]) = Got(FirstOf(vals, n), rests[n + 1])
<1> DEFINE Body(f, i) == IF i = 0 THEN Got(<<>>, rests[1])
                         ELSE IF f[i - 1].ok /\ ReadPart(kinds[i], f[i - 1].rest).ok
                                THEN Got(Append(f[i - 1].value, ReadPart(kinds[i], f[i - 1].rest).value),
                                         ReadPart(kinds[i], f[i - 1].rest).rest)
                                ELSE Failed
           IsRead(f) == f = [i \in 0 .. n |-> Body(f, i)]
           g == [i \in 0 .. n |-> Got([j \in 1 .. i |-> vals[j]], rests[i + 1])]
           read == CHOOSE f : IsRead(f)
<1>0. n \in Nat /\ Len(kinds) = n
  BY DEF ReadsParts
<1>1. IsRead(g)
  <2>1. ASSUME NEW i \in 0 .. n PROVE g[i] = Body(g, i)
    <3>1. CASE i = 0
      BY <3>1
    <3>2. CASE i # 0
      <4>1. i \in 1 .. n /\ i - 1 \in 0 .. n /\ (i - 1) + 1 = i
        BY <1>0, <3>2
      <4> DEFINE first(k) == [j \in 1 .. k |-> vals[j]]
      <4>2. g[i - 1] = Got(first(i - 1), rests[i]) /\ g[i] = Got(first(i), rests[i + 1])
        BY <4>1
      <4>3. Append(first(i - 1), vals[i]) = first(i)
        <5> DEFINE T == {vals[j] : j \in 1 .. i}
        <5>1. first(i - 1) \in Seq(T) /\ Len(first(i - 1)) = i - 1
          BY <4>1
        <5>2. QED  BY <4>1, <5>1
      <4> HIDE DEF g, first
      <4>4. g[i - 1].ok = TRUE /\ g[i - 1].value = first(i - 1) /\ g[i - 1].rest = rests[i]
        BY <4>2 DEF Got
      <4> DEFINE next == ReadPart(kinds[i], rests[i])
      <4>5. next = Got(vals[i], rests[i + 1])
        BY <4>1 DEF ReadsParts
      <4> HIDE DEF next
      <4>6. next.ok = TRUE /\ next.value = vals[i] /\ next.rest = rests[i + 1]
        BY <4>5 DEF Got
      <4> HIDE DEF Got
      <4>7. Body(g, i) = Got(Append(first(i - 1), vals[i]), rests[i + 1])
        BY <3>2, <4>4, <4>6 DEF next
      <4>8. QED  BY <4>2, <4>3, <4>7
    <3>3. QED  BY <3>1, <3>2
  <2>2. g = [i \in 0 .. n |-> g[i]]
    OBVIOUS
  <2> HIDE DEF g, Body
  <2>3. QED  BY <2>1, <2>2
<1>2. IsRead(read)
  <2> HIDE DEF IsRead
  <2>1. QED  BY <1>1
<1>3. ReadParts(kinds, rests[1]) = read[n]
  BY <1>0 DEF ReadParts, ReadAll
<1> HIDE DEF read, g
<1>4. \A i \in 0 .. n : read[i] = Body(read, i)
  <2> HIDE DEF Body
  <2>1. QED  BY <1>2
<1> DEFINE next == [i \in 1 .. n |-> ReadPart(kinds[i], read[i - 1].rest)]
<1>5. read[0] = Got(<<>>, rests[1])
  <2>1. 0 \in 0 .. n
    BY <1>0
  <2> HIDE DEF Got
  <2>2. QED  BY <1>4, <2>1
<1>6. ASSUME NEW i \in 1 .. n
      PROVE  read[i] = IF read[i - 1].ok /\ next[i].ok
                         THEN Got(Append(read[i - 1].value, next[i].value), next[i].rest) ELSE Failed
  <2>1. i \in 0 .. n /\ i # 0
    OBVIOUS
  <2>2. next[i] = ReadPart(kinds[i], read[i - 1].rest)
    OBVIOUS
  <2> HIDE DEF next, Got, Failed
  <2>3. QED  BY <1>4, <2>1, <2>2
<1>7. Finds(read, next, n, vals, rests)
  BY DEF Finds, ReadsParts
<1> HIDE DEF next, Got, Failed
<1>8. OneByOne(read, next, n, rests[1])
  BY <1>5, <1>6 DEF OneByOne
<1>9. read[n] = Got([i \in 1 .. n |-> vals[i]], rests[n + 1])
  BY <1>0, <1>7, <1>8, TraceIs
<1>10. QED  BY <1>3, <1>9 DEF FirstOf

LEMMA ThreeParts ==
    ASSUME NEW k1, NEW k2, NEW k3,
           NEW v1, NEW v2, NEW v3,
           NEW r0, NEW r1, NEW r2, NEW r3,
           ReadPart(k1, r0) = Got(v1, r1), ReadPart(k2, r1) = Got(v2, r2),
           ReadPart(k3, r2) = Got(v3, r3)
    PROVE  ReadParts(<<k1, k2, k3>>, r0) =
             Got(<<v1, v2, v3>>, r3)
<1> DEFINE kinds == <<k1, k2, k3>>
           vals == <<v1, v2, v3>>
           rests == <<r0, r1, r2, r3>>
<1>1. Len(kinds) = 3 /\ rests[1] = r0 /\ rests[3 + 1] = r3 /\ 3 \in Nat
  OBVIOUS
<1>2. ReadsParts(3, kinds, vals, rests)
  BY <1>1 DEF ReadsParts
<1>3. FirstOf(vals, 3) = <<v1, v2, v3>>
  BY DEF FirstOf
<1> HIDE DEF vals, rests, kinds
<1>4. ReadParts(kinds, rests[1]) = Got(FirstOf(vals, 3), rests[3 + 1])
  BY <1>2, ReadPartsIs
<1>5. QED  BY <1>1, <1>3, <1>4 DEF kinds

LEMMA SmallNumbers == {1, 2, 3} \subseteq Ints /\ {0, 1, 2, 3} \subseteq 0 .. Segment - 1 /\ 3 < Half /\ Segment \in Nat
<1>1. Segment >= 4
  BY HalfIs
<1>2. QED  BY <1>1, HalfIs, SegmentIs, WordIs DEF Ints

\* A text of fewer bytes than one byte of a varint can say.
LEMMA ReadShort ==
    ASSUME NEW t \in Seq(Int), NEW r \in Seq(Int), Len(t) < Segment
    PROVE  /\ Read("string", <<Len(t)>> \o (t \o r)) = Got(t, r)
           /\ ReadPart("string", <<Len(t)>> \o (t \o r)) = Got(t, r)
<1>1. Len(t) \in 0 .. Segment - 1 /\ Len(t) < Half
  BY HalfIs, SegmentIs
<1>2. VarintWrite(Len(t)) = <<Len(t)>>
  BY <1>1, OneByte
<1>3. ReadString(VarintWrite(Len(t)) \o (t \o r)) = Got(t, r)
  BY <1>1, ReadStringIs
<1>4. ReadString(<<Len(t)>> \o (t \o r)) = Got(t, r)
  BY <1>2, <1>3
<1>5. Read("string", <<Len(t)>> \o (t \o r)) = ReadPart("string", <<Len(t)>> \o (t \o r))
      /\ ReadPart("string", <<Len(t)>> \o (t \o r)) = ReadString(<<Len(t)>> \o (t \o r))
  BY DEF Read, ReadPart
<1>6. QED  BY <1>4, <1>5

LEMMA ReadShortVarint ==
    ASSUME NEW n \in 0 .. Segment - 1, NEW r \in Seq(Int)
    PROVE  Read("varint", <<n>> \o r) = Got(n, r)
<1>1. n < Half /\ n \in Ints
  BY HalfIs, SegmentIs, WordIs DEF Ints
<1>2. VarintWrite(n) = <<n>>
  BY <1>1, OneByte
<1>3. Read("varint", VarintWrite(n) \o r) = Got(n, r)
  BY <1>1, ReadVarintIs
<1>4. QED  BY <1>2, <1>3

\* The names of the three worlds.
LEMMA ThreeStrings ==
    ASSUME NEW o, NEW n, NEW e, NEW r0 \in Seq(Int), NEW r1, NEW r2, NEW r3,
           ReadPart("string", r0) = Got(o, r1), ReadPart("string", r1) = Got(n, r2),
           ReadPart("string", r2) = Got(e, r3), Len(r0) >= 2
    PROVE  Read("strings", <<3>> \o r0) = Got(<<o, n, e>>, r3)
<1> DEFINE b == <<3>> \o r0
           m == ReadVarint(b)
           parts == ReadParts(Times(m.value, "string"), m.rest)
<1>1. m = Got(3, r0)
  <2>1. Read("varint", b) = Got(3, r0)
    BY SmallNumbers, ReadShortVarint
  <2>2. QED  BY <2>1 DEF Read, ReadPart
<1>2. Len(b) = Len(r0) + 1 /\ Len(r0) \in Nat
  OBVIOUS
<1>3. Read("strings", b) = IF m.ok /\ m.value \in 0 .. Len(b) THEN parts ELSE Failed
  BY DEF Read, ReadStrings
<1>4. Times(3, "string") = <<"string", "string", "string">>
  BY DEF Times
<1>5. ReadParts(<<"string", "string", "string">>, r0) = Got(<<o, n, e>>, r3)
  BY ThreeParts
<1> HIDE DEF m
<1>6. m.ok = TRUE /\ m.value = 3 /\ m.rest = r0
  BY <1>1 DEF Got
<1>7. parts = Got(<<o, n, e>>, r3)
  BY <1>4, <1>5, <1>6
<1> HIDE DEF parts
<1>8. QED  BY <1>2, <1>3, <1>6, <1>7

\* Where the byte is that nobody sets.
LEMMA IgnoredIs ==
    ASSUME NEW a \in Seq(Int), NEW b \in Seq(Int), Len(b) = 7
    PROVE  Ignored(a \o b) = b[2]
<1> DEFINE n == Len(a)
           c == a \o b
<1>1. n \in Nat
  OBVIOUS
<1>2. Len(c) = n + 7 /\ \A i \in 1 .. n + 7 : c[i] = IF i <= n THEN a[i] ELSE b[i - n]
  <2>1. /\ Len(a \o b) = Len(a) + Len(b)
        /\ \A i \in 1 .. Len(a) + Len(b) : (a \o b)[i] = IF i <= Len(a) THEN a[i] ELSE b[i - Len(a)]
    BY ConcatProperties, Zenon
  <2>2. Len(a) + Len(b) = n + 7
    OBVIOUS
  <2>3. QED  BY <2>1, <2>2, Zenon
<1> HIDE DEF n, c
<1>3. c[n + 2] = b[2]
  <2>1. n + 2 \in 1 .. n + 7 /\ ~(n + 2 <= n) /\ (n + 2) - n = 2
    BY <1>1
  <2>2. QED  BY <1>2, <2>1
<1>4. Ignored(c) = c[n + 2]
  <2>1. (n + 7) - 5 = n + 2
    BY <1>1
  <2>2. QED  BY <1>2, <2>1 DEF Ignored
<1>5. QED  BY <1>3, <1>4 DEF c

LEMMA Joined4 ==
    ASSUME NEW a, NEW b, NEW c, NEW d, NEW e
    PROVE  <<a>> \o <<b, c, d, e>> = <<a, b, c, d, e>>
<1> DEFINE S == {a, b, c, d, e}
           w == <<b, c, d, e>>
           t == <<a, b, c, d, e>>
<1>1. /\ a \in S /\ w \in Seq(S) /\ Len(w) = 4 /\ t \in Seq(S) /\ Len(t) = 4 + 1 /\ t[1] = a
      /\ \A i \in 1 .. 4 : t[i + 1] = w[i]
  OBVIOUS
<1> HIDE DEF S, w, t
<1>2. <<a>> \o w = t
  BY <1>1, Joined
<1>3. QED  BY <1>2 DEF w, t

LEMMA Joined5 ==
    ASSUME NEW a, NEW b, NEW c, NEW d, NEW e, NEW f
    PROVE  <<a>> \o <<b, c, d, e, f>> = <<a, b, c, d, e, f>>
<1> DEFINE S == {a, b, c, d, e, f}
           w == <<b, c, d, e, f>>
           t == <<a, b, c, d, e, f>>
<1>1. /\ a \in S /\ w \in Seq(S) /\ Len(w) = 5 /\ t \in Seq(S) /\ Len(t) = 5 + 1 /\ t[1] = a
      /\ \A i \in 1 .. 5 : t[i + 1] = w[i]
  OBVIOUS
<1> HIDE DEF S, w, t
<1>2. <<a>> \o w = t
  BY <1>1, Joined
<1>3. QED  BY <1>2 DEF w, t

LEMMA Texts ==
    /\ Overworld \in Seq(Int) /\ Len(Overworld) = 3 /\ TheNether \in Seq(Int) /\ Len(TheNether) = 2
    /\ TheEnd \in Seq(Int) /\ Len(TheEnd) = 1
    /\ DimensionCodec \in Int /\ OverworldNbt \in Int
  BY DEF Overworld, TheNether, TheEnd, Text, DimensionCodec, OverworldNbt

\* Join Game is read unless its unset byte goes on with the next one.
LEMMA JoinGameIs ==
    ASSUME NEW entity \in Numbers, NEW ig \in Bytes
    PROVE  LET p == JoinGame(entity, ig)
           IN  /\ p \in Seq(Int) /\ Len(p) = 28 /\ Head(p) = 36 /\ Ignored(p) = ig
               /\ ig < Segment =>
                    Understand(p) = <<36, entity, Creative, <<Overworld, TheNether, TheEnd>>, Overworld, ViewDistance, 1>>
<1> DEFINE O == Overworld
           N == TheNether
           E == TheEnd
           w0 == <<36, entity, 0, Creative, -1, 3>>
           w1 == <<3>>
           w2 == O
           w3 == <<2>>
           w4 == N
           w5 == <<1>>
           w6 == E
           w7 == <<DimensionCodec, OverworldNbt>>
           w8 == <<3>>
           w9 == O
           w10 == <<0, ig, ViewDistance, 0, 1, 0, 1>>
           b10 == w10
           b9 == w9 \o b10
           b8 == w8 \o b9
           b7 == w7 \o b8
           b6 == w6 \o b7
           b5 == w5 \o b6
           b4 == w4 \o b5
           b3 == w3 \o b4
           b2 == w2 \o b3
           b1 == w1 \o b2
           q0 == w0
           q1 == q0 \o w1
           q2 == q1 \o w2
           q3 == q2 \o w3
           q4 == q3 \o w4
           q5 == q4 \o w5
           q6 == q5 \o w6
           q7 == q6 \o w7
           q8 == q7 \o w8
           q9 == q8 \o w9
           q10 == q9 \o w10
           p == q10
           c1 == <<entity, 0, Creative, -1, 3>> \o b1
           c2 == <<0, Creative, -1, 3>> \o b1
           c3 == <<Creative, -1, 3>> \o b1
           c4 == <<-1, 3>> \o b1
           c5 == <<3>> \o b1
           c7 == <<OverworldNbt>> \o b8
           d1 == <<ig, ViewDistance, 0, 1, 0, 1>>
           d2 == <<ViewDistance, 0, 1, 0, 1>>
           d3 == <<0, 1, 0, 1>>
           d4 == <<1, 0, 1>>
           d5 == <<0, 1>>
           d6 == <<1>>
           names == <<O, N, E>>
           v == <<entity, 0, Creative, -1, names, DimensionCodec, OverworldNbt, O, 0, ig, ViewDistance, 0, 1, 0, 1>>
           kinds == <<"unit", "unit", "unit", "unit", "strings", "unit", "unit", "string",
                      "unit", "varint", "varint", "unit", "unit", "unit", "unit">>
           message == <<36, entity, Creative, names, O, ViewDistance, 1>>
<1>1. entity \in Int /\ ig \in Int /\ Creative \in Int /\ ViewDistance \in Int
  BY Sizes, SegmentIs DEF Creative, ViewDistance, Bytes
<1>2. /\ O \in Seq(Int) /\ Len(O) = 3 /\ N \in Seq(Int) /\ Len(N) = 2 /\ E \in Seq(Int) /\ Len(E) = 1
      /\ DimensionCodec \in Int /\ OverworldNbt \in Int
  BY Texts
<1>3. JoinGame(entity, ig) = p
  BY <1>2, Zenon DEF JoinGame
<1> HIDE DEF O, N, E
<1>4. /\ w0 \in Seq(Int) /\ Len(w0) = 6
      /\ w1 \in Seq(Int) /\ Len(w1) = 1
      /\ w2 \in Seq(Int) /\ Len(w2) = 3
      /\ w3 \in Seq(Int) /\ Len(w3) = 1
      /\ w4 \in Seq(Int) /\ Len(w4) = 2
      /\ w5 \in Seq(Int) /\ Len(w5) = 1
      /\ w6 \in Seq(Int) /\ Len(w6) = 1
      /\ w7 \in Seq(Int) /\ Len(w7) = 2
      /\ w8 \in Seq(Int) /\ Len(w8) = 1
      /\ w9 \in Seq(Int) /\ Len(w9) = 3
      /\ w10 \in Seq(Int) /\ Len(w10) = 7
  <2>1. w0 \in Seq(Int) /\ Len(w0) = 6
    BY <1>1, <1>2
  <2>2. w1 \in Seq(Int) /\ Len(w1) = 1
    BY <1>1, <1>2
  <2>3. w2 \in Seq(Int) /\ Len(w2) = 3
    BY <1>1, <1>2
  <2>4. w3 \in Seq(Int) /\ Len(w3) = 1
    BY <1>1, <1>2
  <2>5. w4 \in Seq(Int) /\ Len(w4) = 2
    BY <1>1, <1>2
  <2>6. w5 \in Seq(Int) /\ Len(w5) = 1
    BY <1>1, <1>2
  <2>7. w6 \in Seq(Int) /\ Len(w6) = 1
    BY <1>1, <1>2
  <2>8. w7 \in Seq(Int) /\ Len(w7) = 2
    BY <1>1, <1>2
  <2>9. w8 \in Seq(Int) /\ Len(w8) = 1
    BY <1>1, <1>2
  <2>10. w9 \in Seq(Int) /\ Len(w9) = 3
    BY <1>1, <1>2
  <2>11. w10 \in Seq(Int) /\ Len(w10) = 7
    BY <1>1, <1>2
  <2>12. QED  BY <2>1, <2>2, <2>3, <2>4, <2>5, <2>6, <2>7, <2>8, <2>9, <2>10, <2>11
<1>5. w10[2] = ig
  OBVIOUS
<1>6. /\ b10 \in Seq(Int) /\ Len(b10) = 7
      /\ b9 \in Seq(Int) /\ Len(b9) = 10
      /\ b8 \in Seq(Int) /\ Len(b8) = 11
      /\ b7 \in Seq(Int) /\ Len(b7) = 13
      /\ b6 \in Seq(Int) /\ Len(b6) = 14
      /\ b5 \in Seq(Int) /\ Len(b5) = 15
      /\ b4 \in Seq(Int) /\ Len(b4) = 17
      /\ b3 \in Seq(Int) /\ Len(b3) = 18
      /\ b2 \in Seq(Int) /\ Len(b2) = 21
      /\ b1 \in Seq(Int) /\ Len(b1) = 22
  <2> HIDE DEF w0, w1, w2, w3, w4, w5, w6, w7, w8, w9, w10
  <2>1. b10 \in Seq(Int) /\ Len(b10) = 7
    BY <1>4
  <2>2. b9 \in Seq(Int) /\ Len(b9) = 10
    <3>1. b9 = w9 \o b10
      OBVIOUS
    <3>2. w9 \in Seq(Int) /\ Len(w9) = 3
      BY <1>4
    <3> HIDE DEF b9, b10
    <3>3. b9 \in Seq(Int) /\ Len(b9) = Len(w9) + Len(b10)
      BY <2>1, <3>1, <3>2, Concat
    <3>4. QED  BY <2>1, <3>2, <3>3
  <2>3. b8 \in Seq(Int) /\ Len(b8) = 11
    <3>1. b8 = w8 \o b9
      OBVIOUS
    <3>2. w8 \in Seq(Int) /\ Len(w8) = 1
      BY <1>4
    <3> HIDE DEF b8, b9
    <3>3. b8 \in Seq(Int) /\ Len(b8) = Len(w8) + Len(b9)
      BY <2>2, <3>1, <3>2, Concat
    <3>4. QED  BY <2>2, <3>2, <3>3
  <2>4. b7 \in Seq(Int) /\ Len(b7) = 13
    <3>1. b7 = w7 \o b8
      OBVIOUS
    <3>2. w7 \in Seq(Int) /\ Len(w7) = 2
      BY <1>4
    <3> HIDE DEF b7, b8
    <3>3. b7 \in Seq(Int) /\ Len(b7) = Len(w7) + Len(b8)
      BY <2>3, <3>1, <3>2, Concat
    <3>4. QED  BY <2>3, <3>2, <3>3
  <2>5. b6 \in Seq(Int) /\ Len(b6) = 14
    <3>1. b6 = w6 \o b7
      OBVIOUS
    <3>2. w6 \in Seq(Int) /\ Len(w6) = 1
      BY <1>4
    <3> HIDE DEF b6, b7
    <3>3. b6 \in Seq(Int) /\ Len(b6) = Len(w6) + Len(b7)
      BY <2>4, <3>1, <3>2, Concat
    <3>4. QED  BY <2>4, <3>2, <3>3
  <2>6. b5 \in Seq(Int) /\ Len(b5) = 15
    <3>1. b5 = w5 \o b6
      OBVIOUS
    <3>2. w5 \in Seq(Int) /\ Len(w5) = 1
      BY <1>4
    <3> HIDE DEF b5, b6
    <3>3. b5 \in Seq(Int) /\ Len(b5) = Len(w5) + Len(b6)
      BY <2>5, <3>1, <3>2, Concat
    <3>4. QED  BY <2>5, <3>2, <3>3
  <2>7. b4 \in Seq(Int) /\ Len(b4) = 17
    <3>1. b4 = w4 \o b5
      OBVIOUS
    <3>2. w4 \in Seq(Int) /\ Len(w4) = 2
      BY <1>4
    <3> HIDE DEF b4, b5
    <3>3. b4 \in Seq(Int) /\ Len(b4) = Len(w4) + Len(b5)
      BY <2>6, <3>1, <3>2, Concat
    <3>4. QED  BY <2>6, <3>2, <3>3
  <2>8. b3 \in Seq(Int) /\ Len(b3) = 18
    <3>1. b3 = w3 \o b4
      OBVIOUS
    <3>2. w3 \in Seq(Int) /\ Len(w3) = 1
      BY <1>4
    <3> HIDE DEF b3, b4
    <3>3. b3 \in Seq(Int) /\ Len(b3) = Len(w3) + Len(b4)
      BY <2>7, <3>1, <3>2, Concat
    <3>4. QED  BY <2>7, <3>2, <3>3
  <2>9. b2 \in Seq(Int) /\ Len(b2) = 21
    <3>1. b2 = w2 \o b3
      OBVIOUS
    <3>2. w2 \in Seq(Int) /\ Len(w2) = 3
      BY <1>4
    <3> HIDE DEF b2, b3
    <3>3. b2 \in Seq(Int) /\ Len(b2) = Len(w2) + Len(b3)
      BY <2>8, <3>1, <3>2, Concat
    <3>4. QED  BY <2>8, <3>2, <3>3
  <2>10. b1 \in Seq(Int) /\ Len(b1) = 22
    <3>1. b1 = w1 \o b2
      OBVIOUS
    <3>2. w1 \in Seq(Int) /\ Len(w1) = 1
      BY <1>4
    <3> HIDE DEF b1, b2
    <3>3. b1 \in Seq(Int) /\ Len(b1) = Len(w1) + Len(b2)
      BY <2>9, <3>1, <3>2, Concat
    <3>4. QED  BY <2>9, <3>2, <3>3
  <2>11. QED  BY <2>1, <2>2, <2>3, <2>4, <2>5, <2>6, <2>7, <2>8, <2>9, <2>10
<1>7. /\ q0 \in Seq(Int) /\ Len(q0) = 6
      /\ q1 \in Seq(Int) /\ Len(q1) = 7
      /\ q2 \in Seq(Int) /\ Len(q2) = 10
      /\ q3 \in Seq(Int) /\ Len(q3) = 11
      /\ q4 \in Seq(Int) /\ Len(q4) = 13
      /\ q5 \in Seq(Int) /\ Len(q5) = 14
      /\ q6 \in Seq(Int) /\ Len(q6) = 15
      /\ q7 \in Seq(Int) /\ Len(q7) = 17
      /\ q8 \in Seq(Int) /\ Len(q8) = 18
      /\ q9 \in Seq(Int) /\ Len(q9) = 21
      /\ q10 \in Seq(Int) /\ Len(q10) = 28
  <2> HIDE DEF w0, w1, w2, w3, w4, w5, w6, w7, w8, w9, w10
  <2>1. q0 \in Seq(Int) /\ Len(q0) = 6
    BY <1>4
  <2>2. q1 \in Seq(Int) /\ Len(q1) = 7
    <3>1. q1 = q0 \o w1
      OBVIOUS
    <3>2. w1 \in Seq(Int) /\ Len(w1) = 1
      BY <1>4
    <3> HIDE DEF q1, q0
    <3>3. q1 \in Seq(Int) /\ Len(q1) = Len(q0) + Len(w1)
      BY <2>1, <3>1, <3>2, Concat
    <3>4. QED  BY <2>1, <3>2, <3>3
  <2>3. q2 \in Seq(Int) /\ Len(q2) = 10
    <3>1. q2 = q1 \o w2
      OBVIOUS
    <3>2. w2 \in Seq(Int) /\ Len(w2) = 3
      BY <1>4
    <3> HIDE DEF q2, q1
    <3>3. q2 \in Seq(Int) /\ Len(q2) = Len(q1) + Len(w2)
      BY <2>2, <3>1, <3>2, Concat
    <3>4. QED  BY <2>2, <3>2, <3>3
  <2>4. q3 \in Seq(Int) /\ Len(q3) = 11
    <3>1. q3 = q2 \o w3
      OBVIOUS
    <3>2. w3 \in Seq(Int) /\ Len(w3) = 1
      BY <1>4
    <3> HIDE DEF q3, q2
    <3>3. q3 \in Seq(Int) /\ Len(q3) = Len(q2) + Len(w3)
      BY <2>3, <3>1, <3>2, Concat
    <3>4. QED  BY <2>3, <3>2, <3>3
  <2>5. q4 \in Seq(Int) /\ Len(q4) = 13
    <3>1. q4 = q3 \o w4
      OBVIOUS
    <3>2. w4 \in Seq(Int) /\ Len(w4) = 2
      BY <1>4
    <3> HIDE DEF q4, q3
    <3>3. q4 \in Seq(Int) /\ Len(q4) = Len(q3) + Len(w4)
      BY <2>4, <3>1, <3>2, Concat
    <3>4. QED  BY <2>4, <3>2, <3>3
  <2>6. q5 \in Seq(Int) /\ Len(q5) = 14
    <3>1. q5 = q4 \o w5
      OBVIOUS
    <3>2. w5 \in Seq(Int) /\ Len(w5) = 1
      BY <1>4
    <3> HIDE DEF q5, q4
    <3>3. q5 \in Seq(Int) /\ Len(q5) = Len(q4) + Len(w5)
      BY <2>5, <3>1, <3>2, Concat
    <3>4. QED  BY <2>5, <3>2, <3>3
  <2>7. q6 \in Seq(Int) /\ Len(q6) = 15
    <3>1. q6 = q5 \o w6
      OBVIOUS
    <3>2. w6 \in Seq(Int) /\ Len(w6) = 1
      BY <1>4
    <3> HIDE DEF q6, q5
    <3>3. q6 \in Seq(Int) /\ Len(q6) = Len(q5) + Len(w6)
      BY <2>6, <3>1, <3>2, Concat
    <3>4. QED  BY <2>6, <3>2, <3>3
  <2>8. q7 \in Seq(Int) /\ Len(q7) = 17
    <3>1. q7 = q6 \o w7
      OBVIOUS
    <3>2. w7 \in Seq(Int) /\ Len(w7) = 2
      BY <1>4
    <3> HIDE DEF q7, q6
    <3>3. q7 \in Seq(Int) /\ Len(q7) = Len(q6) + Len(w7)
      BY <2>7, <3>1, <3>2, Concat
    <3>4. QED  BY <2>7, <3>2, <3>3
  <2>9. q8 \in Seq(Int) /\ Len(q8) = 18
    <3>1. q8 = q7 \o w8
      OBVIOUS
    <3>2. w8 \in Seq(Int) /\ Len(w8) = 1
      BY <1>4
    <3> HIDE DEF q8, q7
    <3>3. q8 \in Seq(Int) /\ Len(q8) = Len(q7) + Len(w8)
      BY <2>8, <3>1, <3>2, Concat
    <3>4. QED  BY <2>8, <3>2, <3>3
  <2>10. q9 \in Seq(Int) /\ Len(q9) = 21
    <3>1. q9 = q8 \o w9
      OBVIOUS
    <3>2. w9 \in Seq(Int) /\ Len(w9) = 3
      BY <1>4
    <3> HIDE DEF q9, q8
    <3>3. q9 \in Seq(Int) /\ Len(q9) = Len(q8) + Len(w9)
      BY <2>9, <3>1, <3>2, Concat
    <3>4. QED  BY <2>9, <3>2, <3>3
  <2>11. q10 \in Seq(Int) /\ Len(q10) = 28
    <3>1. q10 = q9 \o w10
      OBVIOUS
    <3>2. w10 \in Seq(Int) /\ Len(w10) = 7
      BY <1>4
    <3> HIDE DEF q10, q9
    <3>3. q10 \in Seq(Int) /\ Len(q10) = Len(q9) + Len(w10)
      BY <2>10, <3>1, <3>2, Concat
    <3>4. QED  BY <2>10, <3>2, <3>3
  <2>12. QED  BY <2>1, <2>2, <2>3, <2>4, <2>5, <2>6, <2>7, <2>8, <2>9, <2>10, <2>11
<1>8. p = w0 \o b1
  <2>1. q9 \o b10 = q8 \o b9
    <3>1. q9 = q8 \o w9 /\ b9 = w9 \o b10
      OBVIOUS
    <3>2. q8 \in Seq(Int) /\ w9 \in Seq(Int) /\ b10 \in Seq(Int)
      BY <1>4, <1>6, <1>7
    <3> HIDE DEF q9, q8, w9, b9, b10
    <3>3. QED  BY <3>1, <3>2, Move
  <2>2. q8 \o b9 = q7 \o b8
    <3>1. q8 = q7 \o w8 /\ b8 = w8 \o b9
      OBVIOUS
    <3>2. q7 \in Seq(Int) /\ w8 \in Seq(Int) /\ b9 \in Seq(Int)
      BY <1>4, <1>6, <1>7
    <3> HIDE DEF q8, q7, w8, b8, b9
    <3>3. QED  BY <3>1, <3>2, Move
  <2>3. q7 \o b8 = q6 \o b7
    <3>1. q7 = q6 \o w7 /\ b7 = w7 \o b8
      OBVIOUS
    <3>2. q6 \in Seq(Int) /\ w7 \in Seq(Int) /\ b8 \in Seq(Int)
      BY <1>4, <1>6, <1>7
    <3> HIDE DEF q7, q6, w7, b7, b8
    <3>3. QED  BY <3>1, <3>2, Move
  <2>4. q6 \o b7 = q5 \o b6
    <3>1. q6 = q5 \o w6 /\ b6 = w6 \o b7
      OBVIOUS
    <3>2. q5 \in Seq(Int) /\ w6 \in Seq(Int) /\ b7 \in Seq(Int)
      BY <1>4, <1>6, <1>7
    <3> HIDE DEF q6, q5, w6, b6, b7
    <3>3. QED  BY <3>1, <3>2, Move
  <2>5. q5 \o b6 = q4 \o b5
    <3>1. q5 = q4 \o w5 /\ b5 = w5 \o b6
      OBVIOUS
    <3>2. q4 \in Seq(Int) /\ w5 \in Seq(Int) /\ b6 \in Seq(Int)
      BY <1>4, <1>6, <1>7
    <3> HIDE DEF q5, q4, w5, b5, b6
    <3>3. QED  BY <3>1, <3>2, Move
  <2>6. q4 \o b5 = q3 \o b4
    <3>1. q4 = q3 \o w4 /\ b4 = w4 \o b5
      OBVIOUS
    <3>2. q3 \in Seq(Int) /\ w4 \in Seq(Int) /\ b5 \in Seq(Int)
      BY <1>4, <1>6, <1>7
    <3> HIDE DEF q4, q3, w4, b4, b5
    <3>3. QED  BY <3>1, <3>2, Move
  <2>7. q3 \o b4 = q2 \o b3
    <3>1. q3 = q2 \o w3 /\ b3 = w3 \o b4
      OBVIOUS
    <3>2. q2 \in Seq(Int) /\ w3 \in Seq(Int) /\ b4 \in Seq(Int)
      BY <1>4, <1>6, <1>7
    <3> HIDE DEF q3, q2, w3, b3, b4
    <3>3. QED  BY <3>1, <3>2, Move
  <2>8. q2 \o b3 = q1 \o b2
    <3>1. q2 = q1 \o w2 /\ b2 = w2 \o b3
      OBVIOUS
    <3>2. q1 \in Seq(Int) /\ w2 \in Seq(Int) /\ b3 \in Seq(Int)
      BY <1>4, <1>6, <1>7
    <3> HIDE DEF q2, q1, w2, b2, b3
    <3>3. QED  BY <3>1, <3>2, Move
  <2>9. q1 \o b2 = q0 \o b1
    <3>1. q1 = q0 \o w1 /\ b1 = w1 \o b2
      OBVIOUS
    <3>2. q0 \in Seq(Int) /\ w1 \in Seq(Int) /\ b2 \in Seq(Int)
      BY <1>4, <1>6, <1>7
    <3> HIDE DEF q1, q0, w1, b1, b2
    <3>3. QED  BY <3>1, <3>2, Move
  <2>10. p = q9 \o b10 /\ q0 = w0
    OBVIOUS
  <2> HIDE DEF p, q0, q1, q2, q3, q4, q5, q6, q7, q8, q9, q10, b1, b2, b3, b4, b5, b6, b7, b8, b9, b10
  <2>11. QED  BY <2>1, <2>2, <2>3, <2>4, <2>5, <2>6, <2>7, <2>8, <2>9, <2>10
<1>9. Ignored(p) = ig
  <2>1. p = q9 \o w10
    OBVIOUS
  <2> HIDE DEF q9, w10, p
  <2>2. q9 \in Seq(Int) /\ w10 \in Seq(Int) /\ Len(w10) = 7
    BY <1>4, <1>7
  <2>3. Ignored(q9 \o w10) = w10[2]
    BY <2>2, IgnoredIs
  <2>4. QED  BY <1>5, <2>1, <2>3
<1> HIDE DEF b1
<1>10. /\ Leads(p, 36, c1) /\ Leads(c1, entity, c2) /\ Leads(c2, 0, c3)
       /\ Leads(c3, Creative, c4) /\ Leads(c4, -1, c5)
  <2>1. b1 \in Seq(Int)
    BY <1>6
  <2>2. Leads(p, 36, c1)
    <3> HIDE DEF p
    <3>1. QED  BY <1>1, <1>8, <2>1 DEF Leads
  <2>3. Leads(c1, entity, c2)
    BY <1>1, <2>1 DEF Leads
  <2>4. Leads(c2, 0, c3)
    BY <1>1, <2>1 DEF Leads
  <2>5. Leads(c3, Creative, c4)
    BY <1>1, <2>1 DEF Leads
  <2>6. Leads(c4, -1, c5)
    BY <1>1, <2>1 DEF Leads
  <2>7. QED  BY <2>2, <2>3, <2>4, <2>5, <2>6
<1>11. p \in Seq(Int) /\ Len(p) = 28 /\ Head(p) = 36
  <2> HIDE DEF c1
  <2>1. p = q10
    OBVIOUS
  <2> HIDE DEF p, q10
  <2>2. QED  BY <1>7, <1>10, <2>1 DEF Leads
<1>12. Read("strings", c5) = Got(names, b7)
  <2>1. b1 = <<Len(O)>> \o (O \o b3)
    BY <1>2 DEF b1
  <2>2. b3 = <<Len(N)>> \o (N \o b5)
    BY <1>2
  <2>3. b5 = <<Len(E)>> \o (E \o b7)
    BY <1>2
  <2> HIDE DEF b3, b5, b7
  <2>4. Len(O) < Segment /\ Len(N) < Segment /\ Len(E) < Segment
    BY <1>2, HalfIs, SmallNumbers
  <2>5. ReadPart("string", b1) = Got(O, b3)
    BY <1>2, <1>6, <2>1, <2>4, ReadShort
  <2>6. ReadPart("string", b3) = Got(N, b5)
    BY <1>2, <1>6, <2>2, <2>4, ReadShort
  <2>7. ReadPart("string", b5) = Got(E, b7)
    BY <1>2, <1>6, <2>3, <2>4, ReadShort
  <2>8. Len(b1) >= 2 /\ b1 \in Seq(Int)
    BY <1>6
  <2>9. QED  BY <2>5, <2>6, <2>7, <2>8, ThreeStrings
<1>13. Leads(b7, DimensionCodec, c7) /\ Leads(c7, OverworldNbt, b8)
  <2>1. b8 \in Seq(Int)
    BY <1>6
  <2> HIDE DEF b8
  <2>2. QED  BY <1>2, <2>1 DEF Leads
<1>14. Read("string", b8) = Got(O, b10)
  <2>1. b8 = <<Len(O)>> \o (O \o b10)
    BY <1>2
  <2> HIDE DEF b8, b10
  <2>2. Len(O) < Segment
    BY <1>2, SmallNumbers
  <2>3. QED  BY <1>2, <1>6, <2>1, <2>2, ReadShort
<1>15. /\ Leads(b10, 0, d1) /\ Leads(d3, 0, d4) /\ Leads(d4, 1, d5)
       /\ Leads(d5, 0, d6) /\ Leads(d6, 1, <<>>)
  BY <1>1 DEF Leads
<1>16. Read("varint", d2) = Got(ViewDistance, d3)
  <2>1. d2 = <<ViewDistance>> \o d3
    BY Joined4
  <2>2. d3 \in Seq(Int) /\ ViewDistance \in 0 .. Segment - 1
    BY SmallNumbers DEF ViewDistance
  <2> HIDE DEF d2, d3
  <2>3. QED  BY <2>1, <2>2, ReadShortVarint
<1>17. ASSUME ig < Segment PROVE Read("varint", d1) = Got(ig, d2)
  <2>1. d1 = <<ig>> \o d2
    BY Joined5
  <2>2. d2 \in Seq(Int) /\ ig \in 0 .. Segment - 1
    BY <1>1, <1>17, SegmentIs DEF Bytes
  <2> HIDE DEF d1, d2
  <2>3. QED  BY <2>1, <2>2, ReadShortVarint
<1>18. Kinds(36) = kinds
  BY DEF Kinds
<1>19. v[1] = entity /\ v[3] = Creative /\ v[5] = names /\ v[8] = O /\ v[11] = ViewDistance /\ v[15] = 1
  OBVIOUS
<1> HIDE DEF p, b7, b8, b10, c1, c2, c3, c4, c5, c7, d1, d2, d3, d4, d5, d6, names
<1>20. ASSUME ig < Segment PROVE Understand(p) = message
  <2>1. ReadFields(kinds, c1) = Got(v, <<>>)
    <3>1. /\ Read("unit", c1) = Got(entity, c2) /\ Read("unit", c2) = Got(0, c3)
          /\ Read("unit", c3) = Got(Creative, c4) /\ Read("unit", c4) = Got(-1, c5)
      BY <1>10, ReadFront
    <3>2. /\ Read("unit", b7) = Got(DimensionCodec, c7) /\ Read("unit", c7) = Got(OverworldNbt, b8)
      BY <1>13, ReadFront
    <3>3. /\ Read("unit", b10) = Got(0, d1) /\ Read("unit", d3) = Got(0, d4) /\ Read("unit", d4) = Got(1, d5)
          /\ Read("unit", d5) = Got(0, d6) /\ Read("unit", d6) = Got(1, <<>>)
      BY <1>15, ReadFront
    <3> DEFINE rests == <<c1, c2, c3, c4, c5, b7, c7, b8, b10, d1, d2, d3, d4, d5, d6, <<>>>>
    <3>4. rests[1] = c1 /\ rests[15 + 1] = <<>> /\ Len(kinds) = 15 /\ 15 \in Nat
      OBVIOUS
    <3>5. Read(kinds[1], rests[1]) = Got(v[1], rests[1 + 1])
      BY <1>12, <1>14, <1>16, <1>17, <1>20, <3>1, <3>2, <3>3
    <3>6. Read(kinds[2], rests[2]) = Got(v[2], rests[2 + 1])
      BY <1>12, <1>14, <1>16, <1>17, <1>20, <3>1, <3>2, <3>3
    <3>7. Read(kinds[3], rests[3]) = Got(v[3], rests[3 + 1])
      BY <1>12, <1>14, <1>16, <1>17, <1>20, <3>1, <3>2, <3>3
    <3>8. Read(kinds[4], rests[4]) = Got(v[4], rests[4 + 1])
      BY <1>12, <1>14, <1>16, <1>17, <1>20, <3>1, <3>2, <3>3
    <3>9. Read(kinds[5], rests[5]) = Got(v[5], rests[5 + 1])
      BY <1>12, <1>14, <1>16, <1>17, <1>20, <3>1, <3>2, <3>3
    <3>10. Read(kinds[6], rests[6]) = Got(v[6], rests[6 + 1])
      BY <1>12, <1>14, <1>16, <1>17, <1>20, <3>1, <3>2, <3>3
    <3>11. Read(kinds[7], rests[7]) = Got(v[7], rests[7 + 1])
      BY <1>12, <1>14, <1>16, <1>17, <1>20, <3>1, <3>2, <3>3
    <3>12. Read(kinds[8], rests[8]) = Got(v[8], rests[8 + 1])
      BY <1>12, <1>14, <1>16, <1>17, <1>20, <3>1, <3>2, <3>3
    <3>13. Read(kinds[9], rests[9]) = Got(v[9], rests[9 + 1])
      BY <1>12, <1>14, <1>16, <1>17, <1>20, <3>1, <3>2, <3>3
    <3>14. Read(kinds[10], rests[10]) = Got(v[10], rests[10 + 1])
      BY <1>12, <1>14, <1>16, <1>17, <1>20, <3>1, <3>2, <3>3
    <3>15. Read(kinds[11], rests[11]) = Got(v[11], rests[11 + 1])
      BY <1>12, <1>14, <1>16, <1>17, <1>20, <3>1, <3>2, <3>3
    <3>16. Read(kinds[12], rests[12]) = Got(v[12], rests[12 + 1])
      BY <1>12, <1>14, <1>16, <1>17, <1>20, <3>1, <3>2, <3>3
    <3>17. Read(kinds[13], rests[13]) = Got(v[13], rests[13 + 1])
      BY <1>12, <1>14, <1>16, <1>17, <1>20, <3>1, <3>2, <3>3
    <3>18. Read(kinds[14], rests[14]) = Got(v[14], rests[14 + 1])
      BY <1>12, <1>14, <1>16, <1>17, <1>20, <3>1, <3>2, <3>3
    <3>19. Read(kinds[15], rests[15]) = Got(v[15], rests[15 + 1])
      BY <1>12, <1>14, <1>16, <1>17, <1>20, <3>1, <3>2, <3>3
    <3>20. FirstOf(v, 15) = v
      BY DEF FirstOf
    <3>21. \A i \in 1 .. 15 : i = 1 \/ i = 2 \/ i = 3 \/ i = 4 \/ i = 5 \/ i = 6 \/ i = 7 \/ i = 8 \/ i = 9 \/ i = 10 \/ i = 11 \/ i = 12 \/ i = 13 \/ i = 14 \/ i = 15
      OBVIOUS
    <3> HIDE DEF kinds, v, rests
    <3>22. Reads(15, kinds, v, rests)
      <4>1. \A i \in 1 .. 15 : Read(kinds[i], rests[i]) = Got(v[i], rests[i + 1])
        BY <3>21, <3>5, <3>6, <3>7, <3>8, <3>9, <3>10, <3>11, <3>12, <3>13, <3>14, <3>15, <3>16, <3>17, <3>18, <3>19
      <4>2. QED  BY <3>4, <4>1 DEF Reads
    <3>23. ReadFields(kinds, rests[1]) = Got(FirstOf(v, 15), rests[15 + 1])
      BY <3>22, ReadFieldsIs
    <3>24. QED  BY <3>4, <3>20, <3>23
  <2> HIDE DEF v, kinds
  <2>2. Head(p) = 36 /\ ReadFields(Kinds(36), Tail(p)) = Got(v, <<>>)
    BY <1>10, <1>18, <2>1 DEF Leads
  <2>3. Understand(p) = GameOf(v, <<>>)
    BY <2>2, UnderstandOther
  <2>4. QED  BY <1>19, <2>3 DEF GameOf
<1>21. QED  BY <1>3, <1>9, <1>11, <1>20 DEF names, O, N, E

-----------------------------------------------------------------------------
(* The sections of a chunk.                                                *)

\* What is a multiple more has the same digit.
LEMMA MultipleMore ==
    ASSUME NEW B \in Nat \ {0}, NEW p \in Nat \ {0}, NEW t \in Nat, NEW m \in Nat
    PROVE  ((t + (p * B) * m) \div p) % B = (t \div p) % B
<1> DEFINE q == t \div p
           r == t % p
           e == q \div B
           s == q % B
<1>1. q \in Int /\ r \in 0 .. p - 1 /\ t = p * q + r
  BY DivisionInt
<1> HIDE DEF q, r
<1>2. e \in Int /\ s \in 0 .. B - 1 /\ q = B * e + s
  BY <1>1, DivisionInt
<1>3. (p * B) * m = p * (B * m) /\ B * m \in Nat
  OBVIOUS
<1>4. t + (p * B) * m = p * (q + B * m) + r
  <2> DEFINE k == B * m
  <2>1. k \in Int
    BY <1>3
  <2> HIDE DEF k
  <2>2. p * (q + k) = p * q + p * k
    BY <1>1, <2>1
  <2>3. t + p * k = p * (q + k) + r
    BY <1>1, <2>1, <2>2
  <2>4. QED  BY <1>3, <2>3 DEF k
<1>5. (t + (p * B) * m) \div p = q + B * m
  <2> DEFINE u == t + (p * B) * m
             v == q + B * m
  <2>1. u \in Int /\ v \in Int /\ u = p * v + r
    BY <1>1, <1>3, <1>4
  <2> HIDE DEF u, v
  <2>2. u \div p = v
    BY <1>1, <2>1, Quotient
  <2>3. QED  BY <2>2 DEF u, v
<1> HIDE DEF e, s
<1>6. (q + B * m) % B = s
  <2> DEFINE v == q + B * m
             f == e + m
  <2>1. v \in Int /\ f \in Int
    BY <1>1, <1>2, <1>3
  <2>2. v = B * f + s
    <3>1. B * (e + m) = B * e + B * m
      BY <1>2
    <3> DEFINE k == B * m
               l == B * e
    <3>2. k \in Int /\ l \in Int
      BY <1>2, <1>3
    <3> HIDE DEF k, l
    <3>3. B * f = l + k /\ v = q + k /\ q = l + s
      BY <1>2, <3>1 DEF k, l
    <3> HIDE DEF v, f
    <3>4. QED  BY <1>1, <1>2, <3>2, <3>3
  <2> HIDE DEF v, f
  <2>3. v % B = s
    BY <1>2, <2>1, <2>2, Quotient
  <2>4. QED  BY <2>3 DEF v
<1>7. QED  BY <1>5, <1>6 DEF q, s

\* Numbers below B that are added up, each in its place, are found in their places.
LEMMA Places ==
    ASSUME NEW B \in Nat \ {0}, NEW n \in Nat, NEW d, \A b \in 1 .. n : d[b] \in 0 .. B - 1,
           NEW f, \A b \in 1 .. n : f[b] = d[b] * Power(B, b - 1)
    PROVE  \A j \in 1 .. n : (Total(f, n) \div Power(B, j - 1)) % B = d[j]
<1> DEFINE S == {k \in Nat : k <= n =>
                   /\ Total(f, k) \in 0 .. Power(B, k) - 1
                   /\ \A j \in 1 .. k : (Total(f, k) \div Power(B, j - 1)) % B = d[j]}
<1>1. 0 \in S
  BY TotalZero, PowerZero
<1>2. ASSUME NEW k \in Nat, k \in S PROVE k + 1 \in S
  <2> SUFFICES ASSUME k + 1 <= n
               PROVE  /\ Total(f, k + 1) \in 0 .. Power(B, k + 1) - 1
                      /\ \A j \in 1 .. k + 1 : (Total(f, k + 1) \div Power(B, j - 1)) % B = d[j]
    OBVIOUS
  <2> DEFINE t == Total(f, k)
             u == Total(f, k + 1)
             p == Power(B, k)
             m == d[k + 1]
  <2>1. t \in 0 .. p - 1 /\ \A j \in 1 .. k : (t \div Power(B, j - 1)) % B = d[j]
    BY <1>2
  <2>2. k + 1 \in 1 .. n /\ (k + 1) - 1 = k
    OBVIOUS
  <2>3. m \in 0 .. B - 1 /\ p \in Nat \ {0} /\ Power(B, k + 1) = B * p
    BY <2>2, PowerPositive, PowerNext
  <2>4. u = t + m * p
    BY <2>2, TotalNext
  <2> HIDE DEF t, u, p, m
  <2>5. u = p * m + t /\ t \in Nat /\ m \in Nat /\ u \in Int
    BY <2>1, <2>3, <2>4
  <2>6. u \in 0 .. Power(B, k + 1) - 1
    <3>1. p * m >= 0 /\ p * (m + 1) = p * m + p /\ p * m \in Int
      BY <2>3, <2>5
    <3>2. p * (m + 1) <= p * B /\ p * B = B * p /\ p * B \in Int /\ p * (m + 1) \in Int
      <4>1. m + 1 <= B /\ m + 1 \in Nat
        BY <2>3, <2>5
      <4>2. QED  BY <2>3, <4>1
    <3> DEFINE c == p * m
               e == p * B
    <3>3. c >= 0 /\ c + p <= e /\ c \in Int /\ e \in Int /\ u = c + t /\ Power(B, k + 1) = e
      BY <2>3, <2>5, <3>1, <3>2
    <3> HIDE DEF c, e
    <3>4. QED  BY <2>1, <2>3, <2>5, <3>3
  <2>7. ASSUME NEW j \in 1 .. k + 1 PROVE (u \div Power(B, j - 1)) % B = d[j]
    <3>1. CASE j = k + 1
      <4>1. u \div p = m
        <5>1. m \in Int /\ u = p * m + t /\ t \in 0 .. p - 1
          BY <2>1, <2>5
        <5>2. QED  BY <2>3, <2>5, <5>1, Quotient
      <4>2. m % B = m
        BY <2>3, Small
      <4>3. QED  BY <3>1, <4>1, <4>2 DEF p, m
    <3>2. CASE j # k + 1
      <4> DEFINE a == Power(B, j - 1)
                 c == Power(B, k - j)
      <4>1. j \in 1 .. k /\ j - 1 \in Nat /\ k - j \in Nat /\ ((j - 1) + 1) + (k - j) = k
            /\ (j - 1) + 1 \in Nat
        BY <3>2
      <4>2. a \in Nat \ {0} /\ c \in Nat
        BY <4>1, PowerPositive
      <4>3. p = (a * B) * c
        <5>1. p = Power(B, (j - 1) + 1) * c
          BY <4>1, PowerSum DEF p
        <5>2. Power(B, (j - 1) + 1) = a * B
          BY <4>1, <4>2, PowerNext
        <5>3. QED  BY <5>1, <5>2
      <4> HIDE DEF a, c
      <4>4. p * m = (a * B) * (c * m) /\ c * m \in Nat
        BY <2>5, <4>2, <4>3
      <4>5. u = t + (a * B) * (c * m)
        <5> DEFINE e == p * m
        <5>1. e \in Int
          BY <2>3, <2>5
        <5> HIDE DEF e
        <5>2. e + t = t + e
          BY <2>5, <5>1
        <5>3. QED  BY <2>5, <4>4, <5>2 DEF e
      <4> DEFINE h == c * m
      <4> HIDE DEF h
      <4>6. ((t + (a * B) * h) \div a) % B = (t \div a) % B
        BY <2>5, <4>2, <4>4, MultipleMore DEF h
      <4>7. (t \div a) % B = d[j]
        BY <2>1, <4>1 DEF a
      <4>8. QED  BY <4>5, <4>6, <4>7 DEF a, h
    <3>3. QED  BY <3>1, <3>2
  <2>8. QED  BY <2>6, <2>7 DEF u
<1> HIDE DEF S
<1>3. n \in S
  BY <1>1, <1>2, Induction
<1>4. QED  BY <1>3 DEF S

Blocks == FlatSection.blocks

\* What a block can be.
BlockValues == Power(2, BlockBits)

\* What the assumptions say of blocks and longs.
LEMMA BuildIs ==
    /\ Edge \in Nat /\ Edge >= 4 /\ Area \in Nat \ {0} /\ Volume \in Nat \ {0} /\ Volume = Edge * Area
    /\ 4 * Area <= Volume
    /\ BlockBits \in Nat \ {0} /\ BlockValues \in Nat /\ BlockValues >= 4
    /\ BlocksPerLong \in Nat \ {0}
<1>1. /\ Edge \in Nat /\ Edge >= 4 /\ BlockBits \in Nat \ {0} /\ BlockBits >= 2 /\ LongBits \in Nat
      /\ BlockBits <= LongBits
  BY ProtocolAssumption
<1>2. Area \in Nat \ {0}
  BY <1>1 DEF Area
<1>3. Volume = Edge * Area
  BY <1>1 DEF Volume, Area
<1>4. 4 * Area <= Edge * Area /\ Edge * Area \in Nat
  <2> HIDE DEF Area
  <2>1. QED  BY <1>1, <1>2
<1>5. BlockValues \in Nat /\ BlockValues >= 4
  <2>1. Power(2, 2) = 4
    <3>1. Power(2, 0) = 1 /\ Power(2, 0 + 1) = 2 * Power(2, 0) /\ Power(2, 1 + 1) = 2 * Power(2, 1)
      BY PowerZero, PowerNext
    <3>2. QED  BY <3>1
  <2>2. Power(2, 2) <= Power(2, BlockBits) /\ Power(2, BlockBits) \in Nat
    BY <1>1, PowerMonotone, PowerType
  <2>3. QED  BY <2>1, <2>2 DEF BlockValues
<1>6. BlocksPerLong \in Nat \ {0}
  <2> DEFINE per == LongBits \div BlockBits
             r == LongBits % BlockBits
  <2>1. per \in Int /\ r \in 0 .. BlockBits - 1 /\ LongBits = BlockBits * per + r
    BY <1>1, DivisionInt
  <2> HIDE DEF per, r
  <2>2. per >= 1
    <3>1. SUFFICES ASSUME per <= 0 PROVE FALSE
      BY <2>1
    <3>2. BlockBits * per <= 0
      BY <1>1, <2>1, <3>1
    <3>3. QED  BY <1>1, <2>1, <3>2
  <2>3. QED  BY <2>1, <2>2 DEF per, BlocksPerLong
<1>7. QED  BY <1>1, <1>2, <1>3, <1>4, <1>5, <1>6

\* As many longs as hold all blocks, the last of them with one at least.
LEMMA LongsIs ==
    /\ Longs \in Nat /\ Longs * BlocksPerLong \in Volume .. Volume + BlocksPerLong - 1
    /\ \A i \in 0 .. Volume - 1 : i \div BlocksPerLong \in 0 .. Longs - 1
<1> DEFINE per == BlocksPerLong
           n == Volume + per - 1
           r == n % per
<1>1. per \in Nat \ {0} /\ Volume \in Nat \ {0} /\ n \in Int
  BY BuildIs
<1>2. Longs = n \div per
  BY DEF Longs, DivRoundUp
<1> HIDE DEF per, n
<1>3. Longs \in Int /\ r \in 0 .. per - 1 /\ n = per * Longs + r
  BY <1>1, <1>2, DivisionInt
<1> HIDE DEF r
<1> DEFINE m == per * Longs
<1>4. m \in Int /\ Longs * per = m
  BY <1>1, <1>3
<1>5. m \in Volume .. Volume + per - 1
  <2>1. n = m + r
    BY <1>3
  <2> HIDE DEF m
  <2>2. QED  BY <1>1, <1>3, <1>4, <2>1 DEF n
<1>6. Longs \in Nat
  <2>1. SUFFICES ASSUME Longs <= 0 PROVE FALSE
    BY <1>3
  <2>2. m <= 0
    BY <1>1, <1>3, <2>1
  <2> HIDE DEF m
  <2>3. QED  BY <1>1, <1>4, <1>5, <2>2
<1>7. ASSUME NEW i \in 0 .. Volume - 1 PROVE i \div per \in 0 .. Longs - 1
  <2> DEFINE q == i \div per
  <2>1. i \in Nat
    BY <1>1
  <2>2. q \in Nat /\ i % per \in 0 .. per - 1 /\ i = per * q + (i % per)
    <3>1. q \in Nat
      BY <1>1, <2>1, DivNat
    <3>2. i % per \in 0 .. per - 1 /\ i = per * q + (i % per)
      BY <1>1, <2>1, Division
    <3>3. QED  BY <3>1, <3>2
  <2> HIDE DEF q
  <2>3. ~(Longs <= q)
    <3>1. SUFFICES ASSUME Longs <= q PROVE FALSE
      OBVIOUS
    <3>2. m <= per * q
      BY <1>1, <1>3, <2>2, <3>1
    <3> DEFINE k == per * q
    <3>3. k \in Int /\ i = k + (i % per) /\ m <= k
      BY <1>1, <2>2, <3>2
    <3> HIDE DEF k, m
    <3>4. QED  BY <1>1, <1>4, <1>5, <2>1, <2>2, <3>3
  <2>4. QED  BY <1>6, <2>2, <2>3 DEF q
<1>8. QED  BY <1>4, <1>5, <1>6, <1>7 DEF per

\* The blocks of a flat world.
LEMMA BlocksType ==
    /\ DOMAIN Blocks = 0 .. Volume - 1 /\ Blocks = [i \in 0 .. Volume - 1 |-> Blocks[i]]
    /\ \A i \in 0 .. Volume - 1 : Blocks[i] \in 0 .. 3 /\ (Blocks[i] # Air <=> i \div Area \in 0 .. 3)
<1>1. ASSUME NEW i \in 0 .. Volume - 1
      PROVE  Blocks[i] \in 0 .. 3 /\ (Blocks[i] # Air <=> i \div Area \in 0 .. 3)
  <2> DEFINE q == i \div Area
  <2>1. q \in Int
    BY BuildIs, DivisionInt
  <2>2. Blocks[i] = CASE q = 0 -> Bedrock [] q \in 1 .. 2 -> Dirt [] q = 3 -> Grass [] OTHER -> Air
    BY DEF Blocks, FlatSection
  <2> HIDE DEF q
  <2>3. Blocks[i] \in 0 .. 3 /\ (Blocks[i] # Air <=> q \in 0 .. 3)
    BY <2>1, <2>2 DEF Bedrock, Dirt, Grass, Air
  <2>4. QED  BY <2>3 DEF q
<1>2. QED  BY <1>1 DEF Blocks, FlatSection

\* The count that flat_world_gen keeps is that of the blocks that are not air.
LEMMA CountIs ==
    Cardinality({i \in DOMAIN Blocks : Blocks[i] # Air}) = FlatSection.block_count
<1>1. Area \in Nat \ {0} /\ Volume \in Nat /\ 4 * Area <= Volume
  BY BuildIs
<1>2. {i \in DOMAIN Blocks : Blocks[i] # Air} = 0 .. 4 * Area - 1
  <2>1. ASSUME NEW i \in 0 .. Volume - 1 PROVE i \div Area \in 0 .. 3 <=> i <= 4 * Area - 1
    <3> DEFINE q == i \div Area
               r == i % Area
    <3>1. q \in Nat /\ r \in 0 .. Area - 1 /\ i = Area * q + r /\ i \in Nat
      <4>1. i \in Nat
        BY <1>1
      <4>2. q \in Nat
        BY <1>1, <4>1, DivNat
      <4>3. r \in 0 .. Area - 1 /\ i = Area * q + r
        BY <1>1, <4>1, Division
      <4>4. QED  BY <4>1, <4>2, <4>3
    <3> HIDE DEF q, r
    <3>2. ASSUME q <= 3 PROVE i <= 4 * Area - 1
      <4>1. Area * q <= Area * 3
        BY <1>1, <3>1, <3>2
      <4>2. QED  BY <1>1, <3>1, <4>1
    <3>3. ASSUME q >= 4 PROVE i >= 4 * Area
      <4>1. Area * q >= Area * 4
        BY <1>1, <3>1, <3>3
      <4>2. QED  BY <1>1, <3>1, <4>1
    <3>4. q \in 0 .. 3 <=> i <= 4 * Area - 1
      BY <1>1, <3>1, <3>2, <3>3
    <3>5. QED  BY <3>4 DEF q
  <2>2. 0 .. 4 * Area - 1 \subseteq 0 .. Volume - 1
    BY <1>1
  <2>3. QED  BY <1>1, <2>1, <2>2, BlocksType
<1>3. Cardinality(0 .. 4 * Area - 1) = 4 * Area
  <2> DEFINE b == 4 * Area - 1
  <2>1. b \in Int /\ ~(0 > b) /\ b - 0 + 1 = 4 * Area
    BY <1>1
  <2> HIDE DEF b
  <2>2. Cardinality(0 .. b) = b - 0 + 1
    BY <2>1, FS_Interval
  <2>3. QED  BY <2>1, <2>2 DEF b
<1>4. FlatSection.block_count = 4 * Area
  BY <1>1 DEF FlatSection
<1>5. QED  BY <1>2, <1>3, <1>4

\* The blocks of a long, each at its place.
LEMMA LongIs ==
    ASSUME NEW k \in Nat
    PROVE  /\ PackedLong(FlatSection, k) \in Int
           /\ \A j \in 1 .. BlocksPerLong : k * BlocksPerLong + j - 1 < Volume =>
                (PackedLong(FlatSection, k) \div Power(2, BlockBits * (j - 1))) % BlockValues
                  = Blocks[k * BlocksPerLong + j - 1]
<1> DEFINE per == BlocksPerLong
           i(b) == k * per + b - 1
           f == [b \in 1 .. per |-> IF i(b) < Volume THEN Blocks[i(b)] * Power(2, BlockBits * (b - 1)) ELSE 0]
           d == [b \in 1 .. per |-> IF i(b) < Volume THEN Blocks[i(b)] ELSE 0]
<1>1. per \in Nat \ {0} /\ BlockValues \in Nat \ {0} /\ BlockValues >= 4 /\ BlockBits \in Nat /\ Volume \in Nat
  BY BuildIs
<1>2. PackedLong(FlatSection, k) = Total(f, per)
  BY DEF PackedLong, Blocks
<1>3. ASSUME NEW b \in 1 .. per PROVE d[b] \in 0 .. BlockValues - 1
  <2>1. k * per \in Nat
    BY <1>1
  <2>2. CASE i(b) < Volume
    <3>1. i(b) \in 0 .. Volume - 1
      <4> DEFINE c == k * per
      <4>1. c \in Nat
        BY <2>1
      <4>2. b \in Int /\ b >= 1
        BY <1>1
      <4> HIDE DEF c
      <4>3. c + b - 1 < Volume => c + b - 1 \in 0 .. Volume - 1
        BY <1>1, <4>1, <4>2
      <4>4. QED  BY <2>2, <4>3 DEF c
    <3>2. Blocks[i(b)] \in 0 .. 3
      BY <3>1, BlocksType
    <3>3. d[b] = Blocks[i(b)]
      BY <2>2
    <3> HIDE DEF d, i
    <3>4. QED  BY <1>1, <3>2, <3>3
  <2>3. CASE ~(i(b) < Volume)
    BY <1>1, <2>3
  <2>4. QED  BY <2>2, <2>3
<1>4. ASSUME NEW b \in 1 .. per PROVE Power(2, BlockBits * (b - 1)) = Power(BlockValues, b - 1)
  <2>1. b - 1 \in Nat /\ 2 \in Nat
    BY <1>1
  <2>2. QED  BY <1>1, <2>1, PowerPower DEF BlockValues
<1>5. ASSUME NEW b \in 1 .. per PROVE f[b] = d[b] * Power(BlockValues, b - 1)
  <2> DEFINE p == Power(BlockValues, b - 1)
  <2>1. p \in Nat /\ Power(2, BlockBits * (b - 1)) = p
    <3>1. b - 1 \in Nat
      BY <1>1
    <3>2. QED  BY <1>1, <1>4, <3>1, PowerType
  <2> HIDE DEF p, i
  <2>2. f[b] = d[b] * p
    BY <2>1
  <2>3. QED  BY <2>2 DEF p
<1>6. ASSUME NEW j \in 1 .. per, i(j) < Volume PROVE d[j] = Blocks[i(j)]
  BY <1>6
<1> HIDE DEF f, d, i, per
<1>7. \A j \in 1 .. per : (Total(f, per) \div Power(BlockValues, j - 1)) % BlockValues = d[j]
  BY <1>1, <1>3, <1>5, Places
<1>8. Total(f, per) \in Int
  <2>1. ASSUME NEW b \in 1 .. per PROVE f[b] \in Int
    <3>1. b - 1 \in Nat
      BY <1>1
    <3> DEFINE p == Power(BlockValues, b - 1)
               e == d[b]
    <3>2. p \in Nat
      BY <1>1, <3>1, PowerType
    <3>3. e \in 0 .. BlockValues - 1
      BY <1>3
    <3>4. f[b] = e * p
      BY <1>5
    <3> HIDE DEF p, e
    <3>5. QED  BY <1>1, <3>2, <3>3, <3>4
  <2>2. QED  BY <1>1, <2>1, TotalType
<1>9. QED  BY <1>2, <1>4, <1>6, <1>7, <1>8 DEF i, per

\* Of sequences that are all empty but the first, the first is left.
LEMMA FlattenOne ==
    ASSUME NEW n \in Nat \ {0}, NEW s, Len(s) = n, s[1] \in Seq(Int), \A i \in 1 .. n : i # 1 => s[i] = <<>>
    PROVE  FlattenSeq(s) = s[1]
<1> DEFINE Body(f, i) == IF i = 1 THEN s[i] ELSE f[i - 1] \o s[i]
           IsFlat(f) == f = [i \in 1 .. n |-> Body(f, i)]
           g == [i \in 1 .. n |-> s[1]]
           flat == CHOOSE f : IsFlat(f)
           t == s[1]
<1>0. t \in Seq(Int) /\ t \o <<>> = t
  BY ConcatEmptySeq
<1>1. IsFlat(g)
  <2>1. ASSUME NEW i \in 1 .. n PROVE g[i] = Body(g, i)
    <3>1. CASE i = 1
      BY <3>1
    <3>2. CASE i # 1
      <4>1. i - 1 \in 1 .. n /\ s[i] = <<>>
        BY <3>2
      <4>2. Body(g, i) = t \o <<>>
        BY <3>2, <4>1
      <4>3. g[i] = t
        OBVIOUS
      <4> HIDE DEF g, t, Body
      <4>4. QED  BY <1>0, <4>2, <4>3
    <3>3. QED  BY <3>1, <3>2
  <2>2. g = [i \in 1 .. n |-> g[i]]
    OBVIOUS
  <2> HIDE DEF g, Body
  <2>3. QED  BY <2>1, <2>2
<1>2. IsFlat(flat)
  <2> HIDE DEF IsFlat
  <2>1. QED  BY <1>1
<1>3. FlattenSeq(s) = flat[n]
  BY DEF FlattenSeq
<1> HIDE DEF flat, g
<1>4. \A i \in 1 .. n : flat[i] = Body(flat, i)
  <2> HIDE DEF Body
  <2>1. QED  BY <1>2
<1> HIDE DEF IsFlat, t
<1> DEFINE S == {k \in Nat : k + 1 <= n => flat[k + 1] = t}
<1>5. 0 \in S
  <2>1. flat[1] = t
    BY <1>4 DEF t
  <2>2. 0 + 1 = 1
    OBVIOUS
  <2>3. QED  BY <2>1, <2>2
<1>6. ASSUME NEW k \in Nat, k \in S PROVE k + 1 \in S
  <2>1. SUFFICES ASSUME (k + 1) + 1 <= n PROVE flat[(k + 1) + 1] = t
    OBVIOUS
  <2> DEFINE i == (k + 1) + 1
  <2>2. i \in 1 .. n /\ i # 1 /\ i - 1 = k + 1 /\ k + 1 <= n
    BY <2>1
  <2>3. flat[k + 1] = t
    BY <1>6, <2>2
  <2> HIDE DEF i
  <2>4. flat[i] = flat[i - 1] \o s[i] /\ s[i] = <<>>
    BY <1>4, <2>2
  <2>5. QED  BY <1>0, <2>2, <2>3, <2>4 DEF i
<1> HIDE DEF S
<1>7. n - 1 \in S /\ (n - 1) + 1 = n
  <2>1. n - 1 \in Nat
    OBVIOUS
  <2>2. QED  BY <1>5, <1>6, <2>1, Induction
<1>8. QED  BY <1>3, <1>7 DEF S, t

\* The mask of the lowest section, and the bits that it has.
LEMMA MaskOfLowest == Mask({0}) = 1
<1> DEFINE n == Sections + 2
           f == [i \in 1 .. n |-> IF i - 1 \in {0} THEN Power(2, i - 1) ELSE 0]
           g == [k \in Nat |-> IF k = 0 THEN 0 ELSE 1]
<1>1. n \in Nat /\ n >= 1
  BY ProtocolAssumption
<1>2. Power(2, 0) = 1
  BY PowerZero
<1>3. Mask({0}) = Total(f, n)
  BY DEF Mask
<1> HIDE DEF n
<1>4. ASSUME NEW k \in 1 .. n PROVE f[k] = IF k = 1 THEN 1 ELSE 0
  <2>1. CASE k = 1
    BY <1>2, <2>1
  <2>2. CASE k # 1
    BY <2>2
  <2>3. QED  BY <2>1, <2>2
<1> HIDE DEF f
<1>5. ASSUME NEW k \in 1 .. n PROVE g[k] = g[k - 1] + f[k]
  <2>1. k \in Nat /\ k - 1 \in Nat /\ k # 0 /\ (k - 1 = 0 <=> k = 1)
    BY <1>1
  <2>2. QED  BY <1>4, <2>1
<1>6. g[0] = 0 /\ g[n] = 1
  BY <1>1
<1> HIDE DEF g
<1>7. Total(f, n) = 1
  BY <1>1, <1>5, <1>6, TotalIs
<1>8. QED  BY <1>3, <1>7

LEMMA BitsOfLowest == Bits(1) = {0} /\ Cardinality({0}) = 1
<1>1. 0 \in Lights /\ Lights \subseteq Nat
  BY ProtocolAssumption DEF Lights
<1>2. (1 \div Power(2, 0)) % 2 = 1
  BY PowerZero, DivOne
<1>3. ASSUME NEW i \in Lights, i # 0 PROVE (1 \div Power(2, i)) % 2 = 0
  <2> DEFINE p == Power(2, i)
  <2>1. i \in Nat /\ 1 <= i /\ 1 \in Nat /\ 0 \in Nat
    BY <1>1, <1>3
  <2>2. Power(2, 1) <= p
    BY <2>1, PowerMonotone
  <2>3. Power(2, 0 + 1) = 2 * Power(2, 0) /\ Power(2, 0) = 1
    BY PowerNext, PowerZero
  <2>4. p \in Nat
    BY <2>1, PowerType
  <2> HIDE DEF p
  <2>5. p >= 2
    BY <2>2, <2>3
  <2>6. 1 \div p = 0
    BY <2>4, <2>5, Small
  <2>7. QED  BY <2>6 DEF p
<1>4. Cardinality({0}) = 1
  BY FS_Singleton
<1>5. Bits(1) = {0}
  <2>1. 0 \in Bits(1)
    BY <1>1, <1>2 DEF Bits
  <2>2. ASSUME NEW i \in Bits(1) PROVE i = 0
    <3>1. i \in Lights /\ (1 \div Power(2, i)) % 2 = 1
      BY DEF Bits
    <3>2. QED  BY <1>3, <3>1
  <2>3. QED  BY <2>1, <2>2
<1>6. QED  BY <1>4, <1>5

\* The section of a chunk as it is written.
FlatSectionWritten == <<FlatSection.block_count, BlockBits>> \o SectionWriteCompact(FlatSection)

\* Its longs, and what a client makes of it.
PackedLongs == [k \in 1 .. Longs |-> PackedLong(FlatSection, k - 1)]

FlatSectionRead == [blocks |-> Blocks, block_count |-> FlatSection.block_count]

LEMMA PackedLongsType == PackedLongs \in Seq(Int) /\ Len(PackedLongs) = Longs /\ Longs \in Nat /\ Longs < Half
<1>1. Longs \in Nat
  BY LongsIs
<1>2. ASSUME NEW k \in 1 .. Longs PROVE PackedLong(FlatSection, k - 1) \in Int
  <2>1. k - 1 \in Nat
    BY <1>1
  <2>2. QED  BY <2>1, LongIs
<1>3. PackedLongs \in Seq(Int) /\ Len(PackedLongs) = Longs
  BY <1>1, <1>2 DEF PackedLongs
<1>4. Longs < Half
  <2>1. Placeholder \in Nat
    BY ProtocolAssumption
  <2>2. QED  BY <1>1, <2>1, Sizes
<1>5. QED  BY <1>1, <1>3, <1>4

\* Every block is read as it was written.
LEMMA BlocksRead ==
    ASSUME NEW i \in 0 .. Volume - 1
    PROVE  (PackedLongs[(i \div BlocksPerLong) + 1] \div Power(2, BlockBits * (i % BlocksPerLong))) % BlockValues = Blocks[i]
<1> DEFINE per == BlocksPerLong
           k == i \div per
           j == (i % per) + 1
<1>1. per \in Nat \ {0} /\ i \in Nat /\ Volume \in Nat
  BY BuildIs
<1>2. k \in 0 .. Longs - 1 /\ Longs \in Nat
  BY LongsIs
<1>3. i % per \in 0 .. per - 1 /\ i = per * k + (i % per)
  BY <1>1, Division
<1> HIDE DEF k, per
<1>4. j \in 1 .. per /\ j - 1 = i % per /\ k \in Nat
  BY <1>1, <1>2, <1>3
<1>5. k * per + j - 1 = i
  <2> DEFINE m == per * k
  <2>1. m \in Int /\ k * per = m
    BY <1>1, <1>4
  <2> HIDE DEF m
  <2>2. i = m + (j - 1) /\ j \in Int
    BY <1>1, <1>3, <1>4 DEF m
  <2> HIDE DEF j
  <2>3. m + j - 1 = i
    BY <2>1, <2>2
  <2>4. QED  BY <2>1, <2>3
<1>6. PackedLongs[k + 1] = PackedLong(FlatSection, k)
  <2>1. k + 1 \in 1 .. Longs /\ (k + 1) - 1 = k
    BY <1>2
  <2>2. QED  BY <2>1 DEF PackedLongs
<1> HIDE DEF j
<1>7. (PackedLong(FlatSection, k) \div Power(2, BlockBits * (j - 1))) % BlockValues = Blocks[k * per + j - 1]
  <2>1. k * per + j - 1 < Volume
    BY <1>1, <1>5
  <2>2. QED  BY <1>4, <2>1, LongIs DEF per
<1>8. QED  BY <1>4, <1>5, <1>6, <1>7 DEF k, per

\* A client reads the section that flat_world_gen made.
LEMMA SectionIsRead == ReadSection(FlatSectionWritten) = Got(FlatSectionRead, <<>>)
<1> DEFINE c == FlatSection.block_count
           w == VarintWrite(Longs)
           t == w \o PackedLongs
           u == <<BlockBits>> \o t
           b == <<c, BlockBits>> \o t
           kinds == <<"unit", "unit", "string">>
           read == ReadParts(kinds, b)
           bits == read.value[2]
           longs == read.value[3]
           per == LongBits \div bits
           blocks == [i \in 0 .. Volume - 1 |-> (longs[(i \div per) + 1] \div Power(2, bits * (i % per))) % Power(2, bits)]
           value == <<c, BlockBits, PackedLongs>>
<1>1. c \in Int /\ BlockBits \in Int
  BY BuildIs DEF FlatSection
<1>2. PackedLongs \in Seq(Int) /\ Len(PackedLongs) = Longs /\ Longs \in Nat /\ Longs < Half
  BY PackedLongsType
<1>3. w \in Seq(Int) /\ t \in Seq(Int)
  <2>1. Longs \in 0 .. Half - 1
    BY <1>2, WordIs
  <2>2. w \in Seq(Int)
    BY <2>1, LengthWritten
  <2> HIDE DEF w
  <2>3. QED  BY <1>2, <2>2, Concat
<1>4. FlatSectionWritten = b
  BY DEF FlatSectionWritten, SectionWriteCompact, PackedLongs
<1>5. ReadPart("string", t) = Got(PackedLongs, <<>>)
  <2>1. Read("string", VarintWrite(Len(PackedLongs)) \o PackedLongs) = Got(PackedLongs, <<>>)
    BY <1>2, ReadLastString
  <2>2. Read("string", t) = Got(PackedLongs, <<>>)
    BY <1>2, <2>1
  <2> HIDE DEF t
  <2>3. QED  BY <2>2 DEF Read
<1> HIDE DEF t
<1>6. Leads(b, c, u) /\ Leads(u, BlockBits, t)
  <2> HIDE DEF c
  <2>1. QED  BY <1>1, <1>3 DEF Leads
<1>7. ReadPart("unit", b) = Got(c, u) /\ ReadPart("unit", u) = Got(BlockBits, t)
  <2>1. Read("unit", b) = Got(c, u) /\ Read("unit", u) = Got(BlockBits, t)
    <3> HIDE DEF b, u, c
    <3>1. QED  BY <1>6, ReadFront
  <2> HIDE DEF b, u, c
  <2>2. QED  BY <2>1 DEF Read
<1> HIDE DEF b, u, c
<1>8. read = Got(value, <<>>)
  BY <1>5, <1>7, ThreeParts
<1>9. ReadSection(b) = IF read.ok /\ Len(longs) * per \in Volume .. Volume + per - 1
                         THEN Got([blocks |-> blocks, block_count |-> read.value[1]], read.rest) ELSE Failed
  BY DEF ReadSection
<1>10. value[1] = c /\ value[2] = BlockBits /\ value[3] = PackedLongs
  OBVIOUS
<1> HIDE DEF read, value
<1>11. read.ok = TRUE /\ read.value = value /\ read.rest = <<>>
  BY <1>8 DEF Got
<1>12. bits = BlockBits /\ longs = PackedLongs
  BY <1>10, <1>11
<1>13. per = BlocksPerLong
  BY <1>12 DEF BlocksPerLong
<1>14. blocks = Blocks
  <2> DEFINE block(i) == (longs[(i \div per) + 1] \div Power(2, bits * (i % per))) % Power(2, bits)
  <2>1. ASSUME NEW i \in 0 .. Volume - 1 PROVE block(i) = Blocks[i]
    BY <1>12, <1>13, BlocksRead DEF BlockValues
  <2>2. blocks = [i \in 0 .. Volume - 1 |-> block(i)]
    OBVIOUS
  <2> HIDE DEF block, blocks
  <2>3. QED  BY <2>1, <2>2, BlocksType
<1>15. Len(longs) * per \in Volume .. Volume + per - 1
  BY <1>2, <1>12, <1>13, LongsIs
<1> HIDE DEF blocks, longs, per, bits
<1>16. ReadSection(b) = Got([blocks |-> Blocks, block_count |-> c], <<>>)
  BY <1>9, <1>10, <1>11, <1>14, <1>15
<1>17. QED  BY <1>4, <1>16 DEF FlatSectionRead, c

-----------------------------------------------------------------------------
(* A chunk.                                                                *)

\* A string behind whatever says its size.
LEMMA ReadSized ==
    ASSUME NEW f, NEW w \in Seq(Int), NEW r \in Seq(Int), ReadVarint(f \o (w \o r)) = Got(Len(w), w \o r)
    PROVE  Read("string", f \o (w \o r)) = Got(w, r)
<1> DEFINE b == f \o (w \o r)
           n == ReadVarint(b)
<1>1. Read("string", b) = IF n.ok THEN Take(n.value, n.rest) ELSE Failed
  BY DEF Read, ReadPart, ReadString
<1> HIDE DEF n
<1>2. n.ok = TRUE /\ n.value = Len(w) /\ n.rest = w \o r
  BY DEF n, Got
<1>3. Read("string", b) = Take(Len(w), w \o r)
  BY <1>1, <1>2
<1>4. QED  BY <1>3, TakeIs

\* The bytes of its size suffice.
LEMMA FlatSectionType ==
    /\ FlatSectionWritten \in Seq(Int) /\ Len(FlatSectionWritten) \in 0 .. Half - 1
    /\ Len(FlatSectionWritten) <= 2 + MaxBytes + Longs /\ Len(FlatSectionWritten) < Power(Segment, Placeholder)
    /\ Placeholder \in 1 .. MaxBytes /\ Longs \in Nat /\ MaxBytes \in Nat
<1> DEFINE w == VarintWrite(Longs)
           t == w \o PackedLongs
           h == <<FlatSection.block_count, BlockBits>>
<1>1. FlatSection.block_count \in Int /\ BlockBits \in Int
  BY BuildIs DEF FlatSection
<1>2. PackedLongs \in Seq(Int) /\ Len(PackedLongs) = Longs /\ Longs \in Nat /\ Longs < Half
  BY PackedLongsType
<1>3. w \in Seq(Int) /\ Len(w) \in 1 .. MaxBytes
  <2>1. Longs \in 0 .. Half - 1
    BY <1>2, WordIs
  <2>2. Longs \in Ints
    BY <2>1, LengthWritten
  <2>3. QED  BY <2>2, VarintType
<1>4. h \in Seq(Int) /\ Len(h) = 2
  BY <1>1
<1>5. FlatSectionWritten = h \o t
  BY DEF FlatSectionWritten, SectionWriteCompact, PackedLongs
<1> HIDE DEF w, h
<1>6. t \in Seq(Int) /\ Len(t) = Len(w) + Len(PackedLongs)
  BY <1>2, <1>3, Concat
<1> HIDE DEF t
<1>7. FlatSectionWritten \in Seq(Int) /\ Len(FlatSectionWritten) = Len(h) + Len(t)
  BY <1>4, <1>5, <1>6, Concat
<1>8. Len(FlatSectionWritten) = 2 + Len(w) + Longs
  BY <1>2, <1>3, <1>4, <1>6, <1>7
<1>9. Placeholder \in 1 .. MaxBytes /\ Longs + MaxBytes + 2 < Power(Segment, Placeholder) /\ MaxBytes \in Nat
      /\ Placeholder \in Nat
  <2>1. Placeholder \in Nat \ {0} /\ Placeholder <= MaxBytes /\ MaxBytes \in Nat
    BY ProtocolAssumption, SizesAssumption, MaxBytesIs
  <2>2. QED  BY <2>1, SizesAssumption
<1>10. Power(Segment, Placeholder) \in Nat
  BY <1>9, Shift
<1> DEFINE p == Power(Segment, Placeholder)
           k == Len(w)
           l == Len(FlatSectionWritten)
<1>11. k \in Nat /\ k >= 1 /\ k <= MaxBytes /\ l = 2 + k + Longs /\ Longs + MaxBytes + 2 < p /\ p \in Nat
  BY <1>3, <1>8, <1>9, <1>10
<1> HIDE DEF p, k, l
<1>12. l \in Nat /\ l <= 2 + MaxBytes + Longs /\ l < p
  BY <1>2, <1>9, <1>11
<1>13. l < Half
  BY <1>2, <1>9, <1>12, Sizes
<1>14. QED  BY <1>2, <1>7, <1>9, <1>12, <1>13, Sizes DEF p, l

\* The size of the sections is filled in as it was counted.
LEMMA ReadFilledIn ==
    ASSUME NEW r \in Seq(Int)
    PROVE  /\ FakeVarint(Len(FlatSectionWritten), Placeholder) \in Seq(Int)
           /\ Len(FakeVarint(Len(FlatSectionWritten), Placeholder)) = Placeholder
           /\ Read("string", FakeVarint(Len(FlatSectionWritten), Placeholder) \o (FlatSectionWritten \o r)) = Got(FlatSectionWritten, r)
<1> DEFINE n == Len(FlatSectionWritten)
           f == FakeVarint(n, Placeholder)
           t == FlatSectionWritten \o r
<1>1. /\ FlatSectionWritten \in Seq(Int) /\ n \in 0 .. Half - 1 /\ n < Power(Segment, Placeholder)
      /\ Placeholder \in 1 .. MaxBytes /\ MaxBytes \in Nat
  BY FlatSectionType
<1>2. n \in UInts /\ n \in Ints /\ n \in Nat
  BY <1>1, LengthWritten
<1>3. Placeholder \in Nat \ {0} /\ Placeholder \in Nat
  BY <1>1
<1> HIDE DEF n
<1>4. f = Written(n, Placeholder)
  BY <1>1, <1>2, <1>3, FakeVarintIs
<1>5. f \in Seq(Int) /\ Len(f) = Placeholder
  BY <1>2, <1>3, <1>4, WrittenType
<1>6. t \in Seq(Int)
  BY <1>1, Concat
<1> HIDE DEF t
<1>7. ReadVarint(Written(n, Placeholder) \o t) = Got(Signed(n), t)
  BY <1>1, <1>2, <1>6, ReadWritten
<1>8. Signed(n) = n
  BY <1>2 DEF Signed
<1>9. ReadVarint(f \o t) = Got(Len(FlatSectionWritten), t)
  BY <1>4, <1>7, <1>8 DEF n
<1> HIDE DEF f
<1>10. Read("string", f \o (FlatSectionWritten \o r)) = Got(FlatSectionWritten, r)
  BY <1>1, <1>9, ReadSized DEF t
<1>11. QED  BY <1>5, <1>10 DEF f, n

\* What send_chunk_data writes for such a chunk.
FlatChunkData(x, z) ==
    <<32, x, z, 1>>
    \o VarintWrite(1)
    \o <<EmptyNbt>>
    \o VarintWrite(Biomes) \o [i \in 1 .. Biomes |-> Biome]
    \o FakeVarint(Len(FlatSectionWritten), Placeholder) \o FlatSectionWritten
    \o VarintWrite(0)

\* Only the lowest section of a chunk is written.
LEMMA ChunkDataIs ==
    ASSUME NEW x, NEW z
    PROVE  ChunkData(Chunk(x, z)) = FlatChunkData(x, z)
<1> DEFINE chunk == Chunk(x, z)
           S(i) == IF i \notin DOMAIN chunk.sections THEN <<>>
                   ELSE <<chunk.sections[i].block_count, BlockBits>> \o SectionWriteCompact(chunk.sections[i])
           s == [i \in 1 .. Sections |-> S(i - 1)]
           sections == FlattenSeq(s)
<1>1. chunk.x = x /\ chunk.z = z /\ DOMAIN chunk.sections = {0} /\ chunk.sections[0] = FlatSection
  BY DEF Chunk
<1>2. ChunkData(chunk) =
        <<32, chunk.x, chunk.z, 1>> \o VarintWrite(Mask(DOMAIN chunk.sections)) \o <<EmptyNbt>>
        \o VarintWrite(Biomes) \o [i \in 1 .. Biomes |-> Biome]
        \o FakeVarint(Len(sections), Placeholder) \o sections \o VarintWrite(0)
  BY DEF ChunkData
<1> HIDE DEF chunk
<1>3. Sections \in Nat \ {0}
  BY ProtocolAssumption
<1>4. s[1] = FlatSectionWritten
  <2>1. S(0) = <<FlatSection.block_count, BlockBits>> \o SectionWriteCompact(FlatSection)
    BY <1>1
  <2>2. 1 \in 1 .. Sections /\ 1 - 1 = 0
    BY <1>3
  <2> HIDE DEF S
  <2>3. s[1] = S(0)
    BY <2>2
  <2>4. QED  BY <2>1, <2>3 DEF FlatSectionWritten
<1>5. ASSUME NEW i \in 1 .. Sections, i # 1 PROVE s[i] = <<>>
  <2>1. i - 1 \notin DOMAIN chunk.sections
    BY <1>1, <1>3, <1>5
  <2>2. S(i - 1) = <<>>
    BY <2>1
  <2> HIDE DEF S
  <2>3. QED  BY <2>2
<1>6. Len(s) = Sections
  BY <1>3
<1> HIDE DEF s
<1>7. sections = FlatSectionWritten
  <2>1. s[1] \in Seq(Int)
    BY <1>4, FlatSectionType
  <2>2. QED  BY <1>3, <1>4, <1>5, <1>6, <2>1, FlattenOne
<1> HIDE DEF sections
<1>8. QED  BY <1>1, <1>2, <1>7, MaskOfLowest DEF FlatChunkData, chunk

\* The client gets every block of the chunk, and how many are not air.
LEMMA SoundChunkData ==
    ASSUME NEW x \in Coordinates, NEW z \in Coordinates
    PROVE  Sound(<<32, x, z, DOMAIN Chunk(x, z).sections, Contents(Chunk(x, z))>>, ChunkData(Chunk(x, z)))
<1> DEFINE w0 == <<32, x, z, 1>>
           w1 == VarintWrite(1)
           w2 == <<EmptyNbt>>
           w3 == VarintWrite(Biomes)
           w4 == [i \in 1 .. Biomes |-> Biome]
           w5 == FakeVarint(Len(FlatSectionWritten), Placeholder)
           w6 == FlatSectionWritten
           w7 == VarintWrite(0)
           b7 == w7
           b6 == w6 \o b7
           b5 == w5 \o b6
           b4 == w4 \o b5
           b3 == w3 \o b4
           b2 == w2 \o b3
           b1 == w1 \o b2
           q0 == w0
           q1 == q0 \o w1
           q2 == q1 \o w2
           q3 == q2 \o w3
           q4 == q3 \o w4
           q5 == q4 \o w5
           q6 == q5 \o w6
           q7 == q6 \o w7
           p == q7
           c1 == <<x, z, 1>> \o b1
           c2 == <<z, 1>> \o b1
           c3 == <<1>> \o b1
           kinds == <<"unit", "unit", "unit", "varint", "unit", "string", "string", "varint">>
           v == <<x, z, 1, 1, EmptyNbt, w4, w6, 0>>
           message == <<32, x, z, {0}, <<FlatSectionRead>>>>
<1>1. x \in Int /\ z \in Int /\ EmptyNbt \in Int /\ Biomes = 4 /\ Biome \in Int /\ 0 \in Ints /\ 1 \in Ints /\ 4 \in Ints
  <2>1. 28 \in Ints
    BY SizesAssumption
  <2>2. QED  BY <2>1, Sizes, WordIs, SegmentIs DEF EmptyNbt, Biomes, Biome, Ints
<1>2. ChunkData(Chunk(x, z)) = p
  BY ChunkDataIs DEF FlatChunkData
<1>3. w0 \in Seq(Int) /\ Len(w0) = 4
  BY <1>1
<1>4. w1 \in Seq(Int) /\ Len(w1) = 1 /\ w7 \in Seq(Int) /\ Len(w7) = 1
  <2>1. 1 \in 0 .. Segment - 1 /\ 0 \in 0 .. Segment - 1 /\ 0 < Half /\ 1 < Half
    BY HalfIs, SegmentIs
  <2>2. w1 = <<1>> /\ w7 = <<0>>
    BY <2>1, OneByte
  <2>3. <<1>> \in Seq(Int) /\ Len(<<1>>) = 1 /\ <<0>> \in Seq(Int) /\ Len(<<0>>) = 1
    OBVIOUS
  <2> HIDE DEF w1, w7
  <2>4. QED  BY <2>2, <2>3
<1>5. w2 \in Seq(Int) /\ Len(w2) = 1
  BY <1>1
<1>6. w3 \in Seq(Int) /\ Len(w3) \in 1 .. MaxBytes
  BY <1>1, VarintType
<1>7. w4 \in Seq(Int) /\ Len(w4) = 4
  BY <1>1
<1>8. w5 \in Seq(Int) /\ Len(w5) = Placeholder
  <2>1. <<>> \in Seq(Int)
    OBVIOUS
  <2>2. QED  BY <2>1, ReadFilledIn
<1>9. w6 \in Seq(Int) /\ Len(w6) \in Nat /\ Len(w6) <= 2 + MaxBytes + Longs /\ Longs \in Nat /\ MaxBytes \in Nat
      /\ Placeholder \in Nat
  <2>1. Placeholder \in Nat
    BY ProtocolAssumption
  <2>2. QED  BY <2>1, FlatSectionType
<1>10. /\ b7 \in Seq(Int) /\ Len(b7) = 1
       /\ b6 \in Seq(Int) /\ Len(b6) = Len(w6) + Len(b7)
       /\ b5 \in Seq(Int) /\ Len(b5) = Len(w5) + Len(b6)
       /\ b4 \in Seq(Int) /\ Len(b4) = Len(w4) + Len(b5)
       /\ b3 \in Seq(Int) /\ Len(b3) = Len(w3) + Len(b4)
       /\ b2 \in Seq(Int) /\ Len(b2) = Len(w2) + Len(b3)
       /\ b1 \in Seq(Int) /\ Len(b1) = Len(w1) + Len(b2)
  <2> HIDE DEF w0, w1, w2, w3, w4, w5, w6, w7
  <2>1. b7 \in Seq(Int) /\ Len(b7) = 1
    BY <1>4
  <2>2. b6 \in Seq(Int) /\ Len(b6) = Len(w6) + Len(b7)
    <3>1. b6 = w6 \o b7
      OBVIOUS
    <3>2. w6 \in Seq(Int)
      BY <1>9
    <3> HIDE DEF b6, b7
    <3>3. QED  BY <2>1, <3>1, <3>2, Concat
  <2>3. b5 \in Seq(Int) /\ Len(b5) = Len(w5) + Len(b6)
    <3>1. b5 = w5 \o b6
      OBVIOUS
    <3>2. w5 \in Seq(Int)
      BY <1>8
    <3> HIDE DEF b5, b6
    <3>3. QED  BY <2>2, <3>1, <3>2, Concat
  <2>4. b4 \in Seq(Int) /\ Len(b4) = Len(w4) + Len(b5)
    <3>1. b4 = w4 \o b5
      OBVIOUS
    <3>2. w4 \in Seq(Int)
      BY <1>7
    <3> HIDE DEF b4, b5
    <3>3. QED  BY <2>3, <3>1, <3>2, Concat
  <2>5. b3 \in Seq(Int) /\ Len(b3) = Len(w3) + Len(b4)
    <3>1. b3 = w3 \o b4
      OBVIOUS
    <3>2. w3 \in Seq(Int)
      BY <1>6
    <3> HIDE DEF b3, b4
    <3>3. QED  BY <2>4, <3>1, <3>2, Concat
  <2>6. b2 \in Seq(Int) /\ Len(b2) = Len(w2) + Len(b3)
    <3>1. b2 = w2 \o b3
      OBVIOUS
    <3>2. w2 \in Seq(Int)
      BY <1>5
    <3> HIDE DEF b2, b3
    <3>3. QED  BY <2>5, <3>1, <3>2, Concat
  <2>7. b1 \in Seq(Int) /\ Len(b1) = Len(w1) + Len(b2)
    <3>1. b1 = w1 \o b2
      OBVIOUS
    <3>2. w1 \in Seq(Int)
      BY <1>4
    <3> HIDE DEF b1, b2
    <3>3. QED  BY <2>6, <3>1, <3>2, Concat
  <2>8. QED  BY <2>1, <2>2, <2>3, <2>4, <2>5, <2>6, <2>7
<1>11. /\ q0 \in Seq(Int)
       /\ q1 \in Seq(Int)
       /\ q2 \in Seq(Int)
       /\ q3 \in Seq(Int)
       /\ q4 \in Seq(Int)
       /\ q5 \in Seq(Int)
       /\ q6 \in Seq(Int)
       /\ q7 \in Seq(Int)
  <2> HIDE DEF w0, w1, w2, w3, w4, w5, w6, w7
  <2>1. q0 \in Seq(Int)
    BY <1>3
  <2>2. q1 \in Seq(Int)
    <3>1. q1 = q0 \o w1
      OBVIOUS
    <3>2. w1 \in Seq(Int)
      BY <1>4
    <3> HIDE DEF q1, q0
    <3>3. QED  BY <2>1, <3>1, <3>2, Concat
  <2>3. q2 \in Seq(Int)
    <3>1. q2 = q1 \o w2
      OBVIOUS
    <3>2. w2 \in Seq(Int)
      BY <1>5
    <3> HIDE DEF q2, q1
    <3>3. QED  BY <2>2, <3>1, <3>2, Concat
  <2>4. q3 \in Seq(Int)
    <3>1. q3 = q2 \o w3
      OBVIOUS
    <3>2. w3 \in Seq(Int)
      BY <1>6
    <3> HIDE DEF q3, q2
    <3>3. QED  BY <2>3, <3>1, <3>2, Concat
  <2>5. q4 \in Seq(Int)
    <3>1. q4 = q3 \o w4
      OBVIOUS
    <3>2. w4 \in Seq(Int)
      BY <1>7
    <3> HIDE DEF q4, q3
    <3>3. QED  BY <2>4, <3>1, <3>2, Concat
  <2>6. q5 \in Seq(Int)
    <3>1. q5 = q4 \o w5
      OBVIOUS
    <3>2. w5 \in Seq(Int)
      BY <1>8
    <3> HIDE DEF q5, q4
    <3>3. QED  BY <2>5, <3>1, <3>2, Concat
  <2>7. q6 \in Seq(Int)
    <3>1. q6 = q5 \o w6
      OBVIOUS
    <3>2. w6 \in Seq(Int)
      BY <1>9
    <3> HIDE DEF q6, q5
    <3>3. QED  BY <2>6, <3>1, <3>2, Concat
  <2>8. q7 \in Seq(Int)
    <3>1. q7 = q6 \o w7
      OBVIOUS
    <3>2. w7 \in Seq(Int)
      BY <1>4
    <3> HIDE DEF q7, q6
    <3>3. QED  BY <2>7, <3>1, <3>2, Concat
  <2>9. QED  BY <2>1, <2>2, <2>3, <2>4, <2>5, <2>6, <2>7, <2>8
<1>12. p = w0 \o b1
  <2>1. q6 \o b7 = q5 \o b6
    <3>1. q6 = q5 \o w6 /\ b6 = w6 \o b7
      OBVIOUS
    <3>2. q5 \in Seq(Int) /\ w6 \in Seq(Int) /\ b7 \in Seq(Int)
      BY <1>9, <1>10, <1>11
    <3> HIDE DEF q6, q5, w6, b6, b7
    <3>3. QED  BY <3>1, <3>2, Move
  <2>2. q5 \o b6 = q4 \o b5
    <3>1. q5 = q4 \o w5 /\ b5 = w5 \o b6
      OBVIOUS
    <3>2. q4 \in Seq(Int) /\ w5 \in Seq(Int) /\ b6 \in Seq(Int)
      BY <1>8, <1>10, <1>11
    <3> HIDE DEF q5, q4, w5, b5, b6
    <3>3. QED  BY <3>1, <3>2, Move
  <2>3. q4 \o b5 = q3 \o b4
    <3>1. q4 = q3 \o w4 /\ b4 = w4 \o b5
      OBVIOUS
    <3>2. q3 \in Seq(Int) /\ w4 \in Seq(Int) /\ b5 \in Seq(Int)
      BY <1>7, <1>10, <1>11
    <3> HIDE DEF q4, q3, w4, b4, b5
    <3>3. QED  BY <3>1, <3>2, Move
  <2>4. q3 \o b4 = q2 \o b3
    <3>1. q3 = q2 \o w3 /\ b3 = w3 \o b4
      OBVIOUS
    <3>2. q2 \in Seq(Int) /\ w3 \in Seq(Int) /\ b4 \in Seq(Int)
      BY <1>6, <1>10, <1>11
    <3> HIDE DEF q3, q2, w3, b3, b4
    <3>3. QED  BY <3>1, <3>2, Move
  <2>5. q2 \o b3 = q1 \o b2
    <3>1. q2 = q1 \o w2 /\ b2 = w2 \o b3
      OBVIOUS
    <3>2. q1 \in Seq(Int) /\ w2 \in Seq(Int) /\ b3 \in Seq(Int)
      BY <1>5, <1>10, <1>11
    <3> HIDE DEF q2, q1, w2, b2, b3
    <3>3. QED  BY <3>1, <3>2, Move
  <2>6. q1 \o b2 = q0 \o b1
    <3>1. q1 = q0 \o w1 /\ b1 = w1 \o b2
      OBVIOUS
    <3>2. q0 \in Seq(Int) /\ w1 \in Seq(Int) /\ b2 \in Seq(Int)
      BY <1>4, <1>10, <1>11
    <3> HIDE DEF q1, q0, w1, b1, b2
    <3>3. QED  BY <3>1, <3>2, Move
  <2>7. p = q6 \o b7 /\ q0 = w0
    OBVIOUS
  <2> HIDE DEF p, q0, q1, q2, q3, q4, q5, q6, q7, b1, b2, b3, b4, b5, b6, b7
  <2>8. QED  BY <2>1, <2>2, <2>3, <2>4, <2>5, <2>6, <2>7
<1>13. p \in Seq(Int) /\ Len(p) \in 1 .. Half - 1
  <2>1. Len(p) = Len(w0) + Len(b1) /\ p \in Seq(Int)
    <3> HIDE DEF p, w0, b1
    <3>1. QED  BY <1>3, <1>10, <1>12, Concat
  <2> DEFINE l3 == Len(w3)
             l6 == Len(w6)
             n == Len(p)
  <2>2. l3 \in Nat /\ l3 <= MaxBytes /\ l6 \in Nat /\ l6 <= 2 + MaxBytes + Longs
    <3> HIDE DEF w3, w6
    <3>1. QED  BY <1>6, <1>9
  <2>3. n = 4 + (1 + (1 + (l3 + (4 + (Placeholder + (l6 + 1))))))
    <3> HIDE DEF p, w0, w1, w2, w3, w4, w5, w6, w7, b1, b2, b3, b4, b5, b6, b7
    <3>1. QED  BY <1>3, <1>4, <1>5, <1>7, <1>8, <1>10, <2>1
  <2> HIDE DEF n, l3, l6
  <2>4. n \in 1 .. Half - 1
    BY <1>9, <2>2, <2>3, Sizes, HalfIs
  <2>5. QED  BY <2>1, <2>4 DEF n
<1>14. Leads(p, 32, c1) /\ Leads(c1, x, c2) /\ Leads(c2, z, c3) /\ Leads(c3, 1, b1)
  <2>1. b1 \in Seq(Int)
    BY <1>10
  <2> HIDE DEF b1, p
  <2>2. Leads(p, 32, c1)
    BY <1>1, <1>12, <2>1 DEF Leads
  <2>3. Leads(c1, x, c2)
    BY <1>1, <2>1 DEF Leads
  <2>4. Leads(c2, z, c3) /\ Leads(c3, 1, b1)
    BY <1>1, <2>1 DEF Leads
  <2>5. QED  BY <2>2, <2>3, <2>4
<1>15. Read("varint", b1) = Got(1, b2)
  <2>1. b2 \in Seq(Int)
    BY <1>10
  <2> HIDE DEF b2
  <2>2. QED  BY <1>1, <2>1, ReadVarintIs
<1>16. Leads(b2, EmptyNbt, b3)
  <2>1. b3 \in Seq(Int)
    BY <1>10
  <2> HIDE DEF b3
  <2>2. QED  BY <1>1, <2>1, FrontIs
<1>17. Read("string", b3) = Got(w4, b5)
  <2>1. b5 \in Seq(Int)
    BY <1>10
  <2>2. b3 = VarintWrite(Len(w4)) \o (w4 \o b5)
    BY <1>1, <1>7
  <2> HIDE DEF b3, b5, w4
  <2>3. Len(w4) < Half
    BY <1>7, Sizes
  <2>4. QED  BY <1>7, <2>1, <2>2, <2>3, ReadStringIs
<1>18. Read("string", b5) = Got(w6, b7)
  <2>1. b7 \in Seq(Int)
    BY <1>10
  <2>2. b5 = FakeVarint(Len(FlatSectionWritten), Placeholder) \o (FlatSectionWritten \o b7)
    OBVIOUS
  <2> HIDE DEF b5, b7
  <2>3. QED  BY <2>1, <2>2, ReadFilledIn
<1>19. Read("varint", b7) = Got(0, <<>>)
  BY <1>1, ReadLastVarint
<1>20. Kinds(32) = kinds
  BY DEF Kinds
<1>21. v[1] = x /\ v[2] = z /\ v[4] = 1 /\ v[7] = FlatSectionWritten
  OBVIOUS
<1> HIDE DEF p, b1, b2, b3, b4, b5, b6, b7, c1, c2, c3, w4, w6
<1>22. ReadFields(kinds, c1) = Got(v, <<>>)
  <2>1. /\ Read("unit", c1) = Got(x, c2) /\ Read("unit", c2) = Got(z, c3) /\ Read("unit", c3) = Got(1, b1)
        /\ Read("unit", b2) = Got(EmptyNbt, b3)
    BY <1>14, <1>16, ReadFront
  <2>2. QED  BY <1>15, <1>17, <1>18, <1>19, <2>1, EightThings
<1> HIDE DEF v, kinds
<1>23. Understand(p) = message
  <2> DEFINE sections == ReadSections(v[4], v[7])
  <2>1. Head(p) = 32 /\ ReadFields(Kinds(32), Tail(p)) = Got(v, <<>>)
    BY <1>14, <1>20, <1>22 DEF Leads
  <2>2. Understand(p) = ChunkOf(v, <<>>)
    BY <2>1, UnderstandOther
  <2>3. Bits(v[4]) = {0} /\ Cardinality(Bits(v[4])) = 1
    BY <1>21, BitsOfLowest
  <2>4. Times(1, "section") = <<"section">>
    BY DEF Times
  <2>5. Read("section", FlatSectionWritten) = Got(FlatSectionRead, <<>>)
    BY SectionIsRead DEF Read
  <2>6. ReadFields(<<"section">>, FlatSectionWritten) = Got(<<FlatSectionRead>>, <<>>)
    BY <2>5, OneThing
  <2>7. sections = Got(<<FlatSectionRead>>, <<>>)
    BY <1>21, <2>3, <2>4, <2>6 DEF ReadSections
  <2> HIDE DEF sections
  <2>8. sections.ok = TRUE /\ sections.value = <<FlatSectionRead>> /\ sections.rest = <<>>
    BY <2>7 DEF Got
  <2>9. ChunkOf(v, <<>>) = <<32, v[1], v[2], Bits(v[4]), sections.value>>
    BY <2>8 DEF ChunkOf, sections
  <2>10. QED  BY <1>21, <2>2, <2>3, <2>8, <2>9
<1>24. DOMAIN Chunk(x, z).sections = {0} /\ Contents(Chunk(x, z)) = <<FlatSectionRead>>
  <2> DEFINE chunk == Chunk(x, z)
             s == chunk.sections[0]
             right(k) == [chunk.sections[k - 1] EXCEPT !.block_count =
                            Cardinality({i \in DOMAIN chunk.sections[k - 1].blocks : chunk.sections[k - 1].blocks[i] # Air})]
  <2>1. DOMAIN chunk.sections = {0} /\ s = FlatSection
    BY DEF Chunk
  <2>2. Cardinality(DOMAIN chunk.sections) = 1
    BY <2>1, FS_Singleton
  <2>3. Contents(chunk) = [k \in 1 .. Cardinality(DOMAIN chunk.sections) |-> right(k)]
    BY DEF Contents
  <2> HIDE DEF chunk
  <2>4. right(1) = FlatSectionRead
    <3>1. right(1) = [FlatSection EXCEPT !.block_count = Cardinality({i \in DOMAIN Blocks : Blocks[i] # Air})]
      BY <2>1 DEF Blocks
    <3>2. right(1) = [FlatSection EXCEPT !.block_count = FlatSection.block_count]
      BY <3>1, CountIs
    <3> HIDE DEF right
    <3>3. QED  BY <3>2 DEF FlatSection, FlatSectionRead, Blocks
  <2> HIDE DEF right
  <2>5. Contents(chunk) = [k \in 1 .. 1 |-> right(k)]
    BY <2>2, <2>3
  <2>6. [k \in 1 .. 1 |-> right(k)] = <<right(1)>>
    OBVIOUS
  <2>7. QED  BY <2>1, <2>4, <2>5, <2>6 DEF chunk
<1>25. Sound(message, p)
  BY <1>13, <1>23 DEF Sound
<1>26. QED  BY <1>2, <1>24, <1>25

-----------------------------------------------------------------------------
(* The stream.                                                             *)

\* A message and a packet of which it says what it means.
Good(message, packet) ==
    /\ packet \in Seq(Int) /\ Len(packet) \in 1 .. Half - 1
    /\ \/ Understand(packet) = message
       \/ Head(packet) = 36 /\ Ignored(packet) >= Segment

\* What the server has sent.
Messages == [means : Understood, packet : Seq(Int)]

\* A packet behind its size.
Frame(packet) == VarintWrite(Len(packet)) \o packet

\* w has the packets of s from k + 1 to n, and t what is left of it behind each.
Tails(t, k, n, s, w) ==
    /\ t \in [Nat -> Seq(Int)] /\ t[k] = w /\ t[n] = <<>>
    /\ \A i \in Nat : k <= i /\ i < n => t[i] = Frame(s[i + 1].packet) \o t[i + 1]

\* The parts of the invariant.
SentRight == sent \in Seq(Messages) /\ \A i \in DOMAIN sent : Good(sent[i].means, sent[i].packet)

ReceivedRight ==
    /\ received \in Seq(Understood) /\ Len(received) <= Len(sent)
    /\ \A i \in DOMAIN received : received[i] = Understand(sent[i].packet)

WireRight == \E t : Tails(t, Len(received), Len(sent), sent, wire)

StreamRight == SentRight /\ ReceivedRight /\ WireRight

LEMMA StreamInit == Init => StreamRight
<1> SUFFICES ASSUME Init PROVE StreamRight
  OBVIOUS
<1>1. SentRight /\ ReceivedRight
  BY DEF Init, SentRight, ReceivedRight
<1>2. WireRight
  <2> DEFINE t == [i \in Nat |-> <<>>]
  <2>1. Len(sent) = 0 /\ Len(received) = 0 /\ wire = <<>>
    BY DEF Init
  <2>2. t \in [Nat -> Seq(Int)] /\ t[0] = <<>>
    OBVIOUS
  <2> HIDE DEF t
  <2>3. Tails(t, 0, 0, sent, wire)
    <3>1. \A i \in Nat : ~(0 <= i /\ i < 0)
      OBVIOUS
    <3>2. t[0] = wire
      BY <2>1, <2>2
    <3>3. QED  BY <2>2, <3>1, <3>2 DEF Tails
  <2>4. QED  BY <2>1, <2>3 DEF WireRight
<1>3. QED  BY <1>1, <1>2 DEF StreamRight

LEMMA FrameType ==
    ASSUME NEW packet \in Seq(Int), Len(packet) \in 1 .. Half - 1
    PROVE  /\ Len(packet) \in Ints /\ VarintWrite(Len(packet)) \in Seq(Int) /\ Frame(packet) \in Seq(Int)
<1>1. Len(packet) \in 0 .. Half - 1
  BY WordIs
<1>2. Len(packet) \in Ints /\ VarintWrite(Len(packet)) \in Seq(Int)
  BY <1>1, LengthWritten
<1>3. QED  BY <1>2, Concat DEF Frame

LEMMA AppendMessage ==
    ASSUME NEW S, NEW s \in Seq(S), NEW e \in S
    PROVE  /\ Append(s, e) \in Seq(S) /\ Len(Append(s, e)) = Len(s) + 1 /\ Append(s, e)[Len(s) + 1] = e
           /\ DOMAIN Append(s, e) = 1 .. Len(s) + 1 /\ Len(s) \in Nat
           /\ \A i \in 1 .. Len(s) : Append(s, e)[i] = s[i]
  OBVIOUS

\* A packet that says what it means may be sent.
LEMMA SendStep ==
    ASSUME StreamRight, NEW message \in Understood, NEW packet, Good(message, packet),
           NEW allocated, Send(message, packet, allocated)
    PROVE  StreamRight'
<1> DEFINE e == [means |-> message, packet |-> packet]
           n == Len(sent)
           k == Len(received)
<1>1. packet \in Seq(Int) /\ Len(packet) \in 1 .. Half - 1 /\ e \in Messages
  BY DEF Good, Messages
<1>2. sent \in Seq(Messages) /\ received' = received /\ sent' = Append(sent, e)
      /\ wire' = (wire \o VarintWrite(Len(packet))) \o packet
  BY DEF StreamRight, SentRight, Send
<1> HIDE DEF e
<1>3. /\ sent' \in Seq(Messages) /\ Len(sent') = n + 1 /\ sent'[n + 1] = e
      /\ DOMAIN sent' = 1 .. n + 1 /\ n \in Nat /\ \A i \in 1 .. n : sent'[i] = sent[i]
  BY <1>1, <1>2, AppendMessage
<1>4. e.means = message /\ e.packet = packet
  BY DEF e
<1>5. DOMAIN sent = 1 .. n
  BY <1>2
<1>6. SentRight'
  <2>1. ASSUME NEW i \in DOMAIN sent' PROVE Good(sent'[i].means, sent'[i].packet)
    <3>1. CASE i = n + 1
      BY <1>3, <1>4, <3>1
    <3>2. CASE i # n + 1
      <4>1. i \in 1 .. n
        BY <1>3, <3>2
      <4>2. Good(sent[i].means, sent[i].packet)
        BY <1>5, <4>1 DEF StreamRight, SentRight
      <4>3. QED  BY <1>3, <4>1, <4>2
    <3>3. QED  BY <3>1, <3>2
  <2>2. QED  BY <1>3, <2>1 DEF SentRight
<1>7. /\ received \in Seq(Understood) /\ k <= n /\ k \in Nat /\ DOMAIN received = 1 .. k
      /\ \A i \in DOMAIN received : received[i] = Understand(sent[i].packet)
  BY DEF StreamRight, ReceivedRight
<1>8. ReceivedRight'
  <2>1. Len(received') <= Len(sent')
    BY <1>2, <1>3, <1>7
  <2>2. ASSUME NEW i \in DOMAIN received' PROVE received'[i] = Understand(sent'[i].packet)
    <3>1. i \in DOMAIN received /\ i \in 1 .. n
      BY <1>2, <1>3, <1>7
    <3>2. sent'[i] = sent[i]
      BY <1>3, <3>1
    <3>3. received[i] = Understand(sent[i].packet)
      BY <1>7, <3>1
    <3>4. QED  BY <1>2, <3>2, <3>3
  <2>3. QED  BY <1>2, <1>7, <2>1, <2>2 DEF ReceivedRight
<1>9. WireRight'
  <2>1. PICK t : Tails(t, k, n, sent, wire)
    BY DEF StreamRight, WireRight
  <2> DEFINE f == Frame(packet)
             u == [i \in Nat |-> IF i <= n THEN t[i] \o f ELSE <<>>]
  <2>2. f \in Seq(Int) /\ VarintWrite(Len(packet)) \in Seq(Int)
    BY <1>1, FrameType
  <2>3. t \in [Nat -> Seq(Int)] /\ t[k] = wire /\ t[n] = <<>> /\ \A i \in Nat : t[i] \in Seq(Int)
    BY <2>1 DEF Tails
  <2>4. wire' = t[k] \o f
    <3>1. wire \in Seq(Int)
      BY <1>7, <2>3
    <3>2. QED  BY <1>1, <1>2, <2>2, <2>3, <3>1, Associative DEF Frame
  <2> HIDE DEF f
  <2>5. u \in [Nat -> Seq(Int)]
    <3>1. \A i \in Nat : t[i] \o f \in Seq(Int)
      BY <2>2, <2>3, Concat
    <3>2. <<>> \in Seq(Int)
      OBVIOUS
    <3>3. QED  BY <3>1, <3>2
  <2>6. u[k] = wire' /\ u[n + 1] = <<>>
    BY <1>3, <1>7, <2>4
  <2>7. ASSUME NEW i \in Nat, k <= i, i < n + 1 PROVE u[i] = Frame(sent'[i + 1].packet) \o u[i + 1]
    <3>1. CASE i = n
      <4>1. u[i] = t[i] \o f /\ u[i + 1] = <<>> /\ t[i] = <<>>
        <5>1. i <= n /\ i + 1 \in Nat /\ ~(i + 1 <= n)
          BY <1>3, <3>1
        <5>2. t[i] = <<>>
          BY <2>3, <3>1
        <5>3. QED  BY <5>1, <5>2
      <4>2. Frame(sent'[i + 1].packet) = f
        BY <1>3, <1>4, <3>1 DEF f
      <4>3. <<>> \o f = f /\ f \o <<>> = f
        BY <2>2, ConcatEmptySeq
      <4> HIDE DEF u
      <4>4. QED  BY <4>1, <4>2, <4>3
    <3>2. CASE i < n
      <4>1. i + 1 \in 1 .. n /\ i + 1 \in Nat /\ i + 1 <= n
        BY <1>3, <3>2
      <4>2. sent'[i + 1] = sent[i + 1] /\ u[i] = t[i] \o f /\ u[i + 1] = t[i + 1] \o f
        BY <1>3, <3>2, <4>1
      <4> DEFINE g == Frame(sent[i + 1].packet)
      <4>3. t[i] = g \o t[i + 1]
        BY <2>1, <2>7, <3>2 DEF Tails
      <4>4. g \in Seq(Int)
        <5>1. Good(sent[i + 1].means, sent[i + 1].packet)
          BY <1>5, <4>1 DEF StreamRight, SentRight
        <5>2. QED  BY <5>1, FrameType DEF Good
      <4>5. t[i + 1] \in Seq(Int)
        BY <2>3, <4>1
      <4>6. Frame(sent'[i + 1].packet) = g
        BY <4>2
      <4> HIDE DEF g, u
      <4>7. (g \o t[i + 1]) \o f = g \o (t[i + 1] \o f)
        BY <2>2, <4>4, <4>5, Associative
      <4>8. QED  BY <4>2, <4>3, <4>6, <4>7
    <3>3. i = n \/ i < n
      BY <1>3, <2>7
    <3>4. QED  BY <3>1, <3>2, <3>3
  <2> HIDE DEF u
  <2> DEFINE s == sent'
             w == wire'
  <2>8. \A i \in Nat : k <= i /\ i < n + 1 => u[i] = Frame(s[i + 1].packet) \o u[i + 1]
    BY <2>7
  <2>9. u[k] = w /\ u[n + 1] = <<>>
    BY <2>6
  <2> HIDE DEF s, w
  <2>10. Tails(u, k, n + 1, s, w)
    BY <2>5, <2>8, <2>9 DEF Tails
  <2>11. Len(received') = k /\ Len(sent') = n + 1
    BY <1>2, <1>3
  <2>12. QED  BY <2>10, <2>11 DEF WireRight, s, w
<1>10. QED  BY <1>6, <1>8, <1>9 DEF StreamRight

\* The client reads the next packet that was sent, up to its last byte.
LEMMA ReceiveStep ==
    ASSUME StreamRight, Receive
    PROVE  StreamRight'
<1> DEFINE n == Len(sent)
           k == Len(received)
           size == ReadVarint(wire)
           packet == Take(size.value, size.rest)
           p == sent[k + 1].packet
<1>1. /\ size.ok /\ packet.ok /\ wire' = packet.rest /\ sent' = sent
      /\ received' = Append(received, Understand(packet.value))
  BY DEF Receive
<1>2. /\ received \in Seq(Understood) /\ k <= n /\ k \in Nat /\ n \in Nat
      /\ DOMAIN received = 1 .. k /\ DOMAIN sent = 1 .. n
      /\ \A i \in DOMAIN received : received[i] = Understand(sent[i].packet)
  BY DEF StreamRight, SentRight, ReceivedRight
<1>3. PICK t : Tails(t, k, n, sent, wire)
  BY DEF StreamRight, WireRight
<1>4. t \in [Nat -> Seq(Int)] /\ t[k] = wire /\ t[n] = <<>>
      /\ \A i \in Nat : k <= i /\ i < n => t[i] = Frame(sent[i + 1].packet) \o t[i + 1]
  BY <1>3 DEF Tails
<1>5. k < n
  <2>1. SUFFICES ASSUME k = n PROVE FALSE
    <3>1. k = n \/ k < n
      <4>1. k <= n /\ k \in Nat /\ n \in Nat
        BY <1>2
      <4> HIDE DEF k, n
      <4>2. QED  BY <4>1
    <3>2. QED  BY <3>1
  <2>2. wire = <<>>
    BY <1>4, <2>1
  <2>3. Ends(<<>>) = {}
    BY DEF Ends
  <2>4. ReadVarint(<<>>) = Failed
    BY <2>3 DEF ReadVarint
  <2>5. Failed.ok = FALSE
    BY DEF Failed
  <2>6. QED  BY <1>1, <2>2, <2>4, <2>5
<1>6. p \in Seq(Int) /\ Len(p) \in 1 .. Half - 1
  <2>1. k + 1 \in DOMAIN sent
    BY <1>2, <1>5
  <2>2. QED  BY <2>1 DEF StreamRight, SentRight, Good
<1> DEFINE r == t[k + 1]
<1>7. r \in Seq(Int)
  BY <1>2, <1>4
<1>8. wire = Frame(p) \o r
  <2> DEFINE j == k
  <2>1. j \in Nat /\ k <= j /\ j < n /\ t[j] = wire /\ p = sent[j + 1].packet /\ r = t[j + 1]
    BY <1>2, <1>4, <1>5
  <2> HIDE DEF j, p, r
  <2>2. t[j] = Frame(sent[j + 1].packet) \o t[j + 1]
    BY <1>4, <2>1
  <2>3. QED  BY <2>1, <2>2
<1> HIDE DEF p, r
<1>9. Len(p) \in Ints /\ VarintWrite(Len(p)) \in Seq(Int)
  BY <1>6, FrameType
<1>10. wire = VarintWrite(Len(p)) \o (p \o r)
  <2>1. Frame(p) = VarintWrite(Len(p)) \o p
    BY DEF Frame
  <2> DEFINE v == VarintWrite(Len(p))
  <2>2. v \in Seq(Int) /\ p \in Seq(Int)
    BY <1>6, <1>9
  <2>3. wire = (v \o p) \o r
    BY <1>8, <2>1
  <2> HIDE DEF v
  <2>4. (v \o p) \o r = v \o (p \o r)
    BY <1>7, <2>2, Associative
  <2>5. QED  BY <2>3, <2>4 DEF v
<1>11. size = Got(Len(p), p \o r)
  <2>1. p \o r \in Seq(Int)
    BY <1>6, <1>7, Concat
  <2>2. QED  BY <1>9, <1>10, <2>1, ReadBack
<1> HIDE DEF size
<1>12. size.value = Len(p) /\ size.rest = p \o r
  BY <1>11 DEF Got
<1>13. packet = Got(p, r)
  BY <1>6, <1>7, <1>12, TakeIs
<1> HIDE DEF packet
<1>14. packet.value = p /\ packet.rest = r
  BY <1>13 DEF Got
<1> DEFINE u == Understand(p)
<1>15. received' = Append(received, u) /\ wire' = r
  BY <1>1, <1>14
<1>16. u \in Understood
  BY <1>6 DEF Understood
<1> HIDE DEF u
<1>17. /\ received' \in Seq(Understood) /\ Len(received') = k + 1 /\ received'[k + 1] = u
       /\ DOMAIN received' = 1 .. k + 1 /\ \A i \in 1 .. k : received'[i] = received[i]
  BY <1>2, <1>15, <1>16, AppendMessage
<1>18. ReceivedRight'
  <2>1. ASSUME NEW i \in DOMAIN received' PROVE received'[i] = Understand(sent[i].packet)
    <3>1. CASE i = k + 1
      BY <1>17, <3>1 DEF u, p
    <3>2. CASE i # k + 1
      <4>1. i \in 1 .. k
        BY <1>2, <1>17, <3>2
      <4>2. received'[i] = received[i] /\ received[i] = Understand(sent[i].packet)
        BY <1>2, <1>17, <4>1
      <4>3. QED  BY <4>2
    <3>3. QED  BY <3>1, <3>2
  <2>2. Len(received') <= Len(sent)
    BY <1>2, <1>5, <1>17
  <2>3. QED  BY <1>1, <1>17, <2>1, <2>2 DEF ReceivedRight
<1>19. SentRight'
  BY <1>1 DEF StreamRight, SentRight
<1>20. WireRight'
  <2> DEFINE w == wire'
             j == k + 1
  <2>1. t[j] = w
    BY <1>15 DEF r
  <2>2. \A i \in Nat : j <= i /\ i < n => t[i] = Frame(sent[i + 1].packet) \o t[i + 1]
    <3>1. \A i \in Nat : j <= i => k <= i
      BY <1>2
    <3> HIDE DEF j
    <3>2. QED  BY <1>4, <3>1
  <2> HIDE DEF w, j
  <2>3. Tails(t, j, n, sent, w)
    BY <1>4, <2>1, <2>2 DEF Tails
  <2>4. Len(received') = j /\ Len(sent') = n /\ sent' = sent
    BY <1>1, <1>17 DEF j
  <2>5. QED  BY <2>3, <2>4 DEF WireRight, w
<1>21. QED  BY <1>18, <1>19, <1>20 DEF StreamRight

LEMMA StreamUnchanged ==
    ASSUME StreamRight, UNCHANGED <<sent, wire, received>>
    PROVE  StreamRight'
<1>1. sent' = sent /\ wire' = wire /\ received' = received
  OBVIOUS
<1>2. SentRight'
  BY <1>1 DEF StreamRight, SentRight
<1>3. ReceivedRight'
  BY <1>1 DEF StreamRight, ReceivedRight
<1>4. WireRight'
  BY <1>1 DEF StreamRight, WireRight
<1>5. QED  BY <1>2, <1>3, <1>4 DEF StreamRight

LEMMA SoundIsGood ==
    ASSUME NEW message, NEW packet, Sound(message, packet)
    PROVE  message \in Understood /\ Good(message, packet)
  BY DEF Sound, Understood, Good

LEMMA RightIsUnderstood ==
    ASSUME StreamRight
    PROVE  ClientUnderstands
<1>1. ASSUME NEW i \in DOMAIN received
      PROVE  \/ received[i] = sent[i].means
             \/ Head(sent[i].packet) = 36 /\ Ignored(sent[i].packet) >= Segment
  <2>1. /\ received \in Seq(Understood) /\ Len(received) <= Len(sent) /\ sent \in Seq(Messages)
        /\ received[i] = Understand(sent[i].packet)
    BY DEF StreamRight, SentRight, ReceivedRight
  <2>2. i \in DOMAIN sent
    BY <2>1
  <2>3. Good(sent[i].means, sent[i].packet)
    BY <2>2 DEF StreamRight, SentRight
  <2>4. QED  BY <2>1, <2>3 DEF Good
<1>2. QED  BY <1>1 DEF ClientUnderstands

LEMMA SoundStep ==
    ASSUME StreamRight, NEW message, NEW packet, Sound(message, packet),
           NEW allocated, Send(message, packet, allocated)
    PROVE  StreamRight'
  BY SoundIsGood, SendStep

LEMMA JoinGameStep ==
    ASSUME StreamRight, SendJoinGame
    PROVE  StreamRight'
<1>1. PICK entity \in Numbers, ig \in Bytes :
        SendArray(<<36, entity, Creative, <<Overworld, TheNether, TheEnd>>, Overworld, ViewDistance, 1>>,
                  JoinGame(entity, ig))
  BY DEF SendJoinGame
<1> DEFINE message == <<36, entity, Creative, <<Overworld, TheNether, TheEnd>>, Overworld, ViewDistance, 1>>
           p == JoinGame(entity, ig)
<1>2. Send(message, p, Len(p))
  BY <1>1 DEF SendArray
<1>3. 0 \in Bytes /\ 0 < Segment /\ ig \in Int
  BY SegmentIs DEF Bytes
<1>4. message \in Understood
  <2> DEFINE r == JoinGame(entity, 0)
  <2>1. r \in Seq(Int) /\ Understand(r) = message
    BY <1>3, JoinGameIs
  <2> HIDE DEF r, message
  <2>2. QED  BY <2>1 DEF Understood
<1>5. /\ p \in Seq(Int) /\ Len(p) = 28 /\ Head(p) = 36 /\ Ignored(p) = ig
      /\ ig < Segment => Understand(p) = message
  BY JoinGameIs
<1> HIDE DEF p, message
<1>6. Good(message, p)
  <2>1. Len(p) \in 1 .. Half - 1
    BY <1>5, Sizes
  <2>2. ig < Segment \/ ig >= Segment
    BY <1>3, SegmentIs
  <2>3. QED  BY <1>5, <2>1, <2>2 DEF Good
<1>7. QED  BY <1>2, <1>4, <1>6, SendStep

\* No step of the server or of the client gets the stream wrong.
LEMMA StreamStep ==
    ASSUME StreamRight, [Next]_vars
    PROVE  StreamRight'
<1>1. ASSUME NEW message, NEW packet, Sound(message, packet), SendArray(message, packet) PROVE StreamRight'
  <2>1. Send(message, packet, Len(packet))
    BY <1>1 DEF SendArray
  <2>2. QED  BY <1>1, <2>1, SoundStep
<1>2. CASE SendJoinGame
  BY <1>2, JoinGameStep
<1>3. CASE SendChunkData
  <2>1. PICK x \in Coordinates, z \in Coordinates :
          SendArray(<<32, x, z, DOMAIN Chunk(x, z).sections, Contents(Chunk(x, z))>>, ChunkData(Chunk(x, z)))
    BY <1>3 DEF SendChunkData
  <2>2. QED  BY <1>1, <2>1, SoundChunkData
<1>4. CASE SendFullUpdateLight
  <2>1. PICK x \in Coordinates, z \in Coordinates :
          SendArray(<<35, x, z, Chunk(x, z).sky_light, Chunk(x, z).block_light>>, FullUpdateLight(Chunk(x, z)))
    BY <1>4 DEF SendFullUpdateLight
  <2>2. QED  BY <1>1, <2>1, SoundFullUpdateLight
<1>5. CASE SendUnloadChunk
  BY <1>1, <1>5, SoundUnloadChunk DEF SendUnloadChunk
<1>6. CASE SendUpdateViewPosition
  BY <1>1, <1>6, SoundUpdateViewPosition DEF SendUpdateViewPosition
<1>7. CASE SendPlayerPositionAndLook
  BY <1>1, <1>7, SoundPlayerPositionAndLook DEF SendPlayerPositionAndLook
<1>8. CASE SendKeepAlive
  <2>1. PICK id \in Numbers : Send(<<31, id>>, KeepAlive(id), 2)
    BY <1>8 DEF SendKeepAlive
  <2>2. QED  BY <2>1, SoundKeepAlive, SoundStep
<1>9. CASE SendJson
  <2>1. PICK n \in Lengths : Send(<<0, Text(n)>>, JsonResponse(Text(n)), n + VarintSize(n) + 1)
    BY <1>9 DEF SendJson
  <2>2. QED  BY <2>1, SoundJson, SoundStep
<1>10. CASE SendPong
  <2>1. PICK payload \in Numbers : Send(<<1, payload>>, Pong(payload), VarintSize(1) + 1)
    BY <1>10 DEF SendPong
  <2>2. QED  BY <2>1, SoundPong, SoundStep
<1>11. CASE SendLoginSuccess
  <2>1. PICK n \in Lengths : n < Segment /\ Send(<<2, Uuid, Text(n)>>, LoginSuccess(Text(n)), 3 + n)
    BY <1>11 DEF SendLoginSuccess
  <2>2. Sound(<<2, Uuid, Text(n)>>, LoginSuccess(Text(n)))
    BY <2>1, SoundLoginSuccess
  <2>3. QED  BY <2>1, <2>2, SoundStep
<1>12. CASE Receive
  BY <1>12, ReceiveStep
<1>13. CASE Confirm
  BY <1>13, StreamUnchanged DEF Confirm, TeleportConfirm
<1>14. CASE UNCHANGED vars
  BY <1>14, StreamUnchanged DEF vars
<1>15. QED  BY <1>2, <1>3, <1>4, <1>5, <1>6, <1>7, <1>8, <1>9, <1>10, <1>11, <1>12, <1>13, <1>14 DEF Next

\* What a client has received is what the packets that were sent mean, in order.
THEOREM ClientUnderstandsHolds == Spec => []ClientUnderstands
<1>1. Init => StreamRight
  BY StreamInit
<1>2. StreamRight /\ [Next]_vars => StreamRight'
  BY StreamStep
<1>3. StreamRight => ClientUnderstands
  BY RightIsUnderstood
<1>4. QED  BY <1>1, <1>2, <1>3, PTL DEF Spec

=============================================================================
