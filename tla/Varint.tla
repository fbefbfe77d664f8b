------------------------------ MODULE Varint ------------------------------
(***************************************************************************)
(* The variable-length integers of the protocol as the server writes and   *)
(* reads them.  The code has 7 bits of the value in a byte and values of   *)
(* 32 bits; both are parameters, so that small ones can be checked for     *)
(* every value and every sequence of bytes.  A byte is a number below      *)
(* 2 * Segment, and VARINT_CONTINUE_BIT is Segment.                        *)
(***************************************************************************)
EXTENDS Integers, Sequences

CONSTANTS SegmentBits, IntBits

ASSUME VarintAssumption ==
    /\ SegmentBits \in Nat \ {0}
    /\ IntBits \in Nat /\ IntBits > SegmentBits

\* base to the power n, which is what a shift multiplies or divides by; as a
\* recursive function, since there are no facts about ^ to prove with.
Power(base, n) ==
    LET power[k \in Nat] == IF k = 0 THEN 1 ELSE base * power[k - 1]
    IN  power[n]

\* f[1] + ... + f[n], which is what a loop adds up
Total(f, n) ==
    LET sum[k \in 0 .. n] == IF k = 0 THEN 0 ELSE sum[k - 1] + f[k]
    IN  sum[n]

Segment == Power(2, SegmentBits)
Half    == Power(2, IntBits - 1)
Word    == Power(2, IntBits)
Bytes   == 0 .. 2 * Segment - 1
Ints    == -Half .. Half - 1
UInts   == 0 .. Word - 1

\* The casts between int32_t and uint32_t.
Unsigned(value) == value % Word
Signed(uvalue)  == IF uvalue \in Ints THEN uvalue ELSE uvalue - Word

\* The number of bytes of the longest integer, 5 in the code.
MaxBytes == (IntBits + SegmentBits - 1) \div SegmentBits

\* Mutant: a value of all ones needs a byte more.
VarintSizeLess(value) ==
    CHOOSE n \in 1 .. MaxBytes :
        /\ n = MaxBytes \/ value < Power(Segment, n) - 1
        /\ \A m \in 1 .. n - 1 : value >= Power(Segment, m) - 1

\* varint_size: the comparisons are signed
VarintSize(value) ==
    CHOOSE n \in 1 .. MaxBytes :
        /\ n = MaxBytes \/ value < Power(Segment, n)
        /\ \A m \in 1 .. n - 1 : value >= Power(Segment, m)

\* Mutant: the shift keeps the sign.
VarintWriteSigned(value) ==
    LET write[v \in Ints, n \in 0 .. MaxBytes] ==
            IF v \in 0 .. Segment - 1 \/ n = 0 THEN <<v % Segment>>
            ELSE <<(v % Segment) + Segment>> \o write[v \div Segment, n - 1]
    IN  write[value, MaxBytes]

\* varint_write, and write_varint of backend/protocol.c and world/world.c
VarintWrite(value) ==
    LET write[u \in UInts] ==
            IF u < Segment THEN <<u>>
            ELSE <<(u % Segment) + Segment>> \o write[u \div Segment]
    IN  write[Unsigned(value)]

\* Mutant: the last byte is masked like the others.
FakeVarintMasked(value, count) ==
    [i \in 1 .. count |-> ((Unsigned(value) \div Power(Segment, i - 1)) % Segment) + Segment]

\* fake_varint: count bytes, whatever the value; the last one is a plain cast
FakeVarint(value, count) ==
    [i \in 1 .. count |->
        LET rest == Unsigned(value) \div Power(Segment, i - 1)
        IN  IF i = count THEN rest % (2 * Segment) ELSE (rest % Segment) + Segment]

\* What DECODE_VARINT gives when it leaves for the caller's cleanup.
Violation == [ok |-> FALSE, value |-> 0, size |-> 0]

\* DECODE_VARINT with the number of bytes that it tolerates
Decode(bytes, most) ==
    LET decode[i \in 1 .. most] ==
            LET part == (bytes[i] % Segment) * Power(Segment, i - 1)
                rest == decode[i + 1]
            IN  IF Len(bytes) < i THEN Violation
                ELSE IF bytes[i] < Segment THEN [ok |-> TRUE, value |-> part, size |-> i]
                ELSE IF i = most \/ ~rest.ok THEN Violation
                ELSE [ok |-> TRUE, value |-> part + rest.value, size |-> rest.size]
        result == decode[1]
    IN  [ok |-> result.ok, value |-> Signed(Unsigned(result.value)), size |-> result.size]

\* Mutant: __position <= 32
DecodeVarintLong(bytes) == Decode(bytes, MaxBytes + 1)

\* DECODE_VARINT: the shift of the next byte must be below the width
DecodeVarint(bytes) == Decode(bytes, MaxBytes)

=============================================================================
