--------------------------- MODULE FramingProofs ---------------------------
(***************************************************************************)
(* The receive buffer is transparent, for segments and a buffer of any     *)
(* size and for streams of any length: it always holds the tail of what    *)
(* the client sent, there is room whenever a recv is posted, and what is   *)
(* passed on is what PacketStream reads from the stream itself, and what   *)
(* Parse finds in it, however it was cut on the way.                       *)
(***************************************************************************)
EXTENDS Framing, Remainders, SequenceTheorems, TLAPS

-----------------------------------------------------------------------------
(* Numbers and bytes.                                                      *)

LEMMA Bounds == Base \in Nat \ {0} /\ BufferSize \in Nat \ {0} /\ Base <= BufferSize
  BY FramingAssumption

LEMMA DigitsAreNat ==
    ASSUME NEW s \in 0 .. Base - 1
    PROVE  s \in Nat /\ Base * s \in Nat /\ Base * Base * s \in Nat
<1>1. Base \in Nat /\ s \in Nat
  BY Bounds
<1>2. \A i, j \in Nat : i * j \in Nat
  OBVIOUS
<1>3. Base * s \in Nat /\ Base * Base \in Nat
  BY <1>1, <1>2
<1>4. (Base * Base) * s \in Nat
  BY <1>1, <1>2, <1>3
<1>5. QED  BY <1>1, <1>3, <1>4

\* k elements of a sequence behind the first r.
LEMMA PartOfSeq ==
    ASSUME NEW S, NEW s \in Seq(S), NEW r \in Nat, NEW k \in Nat, r + k <= Len(s)
    PROVE  /\ SubSeq(s, r + 1, r + k) \in Seq(S)
           /\ Len(SubSeq(s, r + 1, r + k)) = k
           /\ SubSeq(s, r + 1, r + k) = [i \in 1 .. k |-> s[r + i]]
<1> DEFINE m == r + 1
           n == r + k
           part == SubSeq(s, m, n)
<1>1. /\ m \in Int /\ n \in Int /\ n - m + 1 = k /\ (m > n => k = 0)
      /\ \A i \in 1 .. k : m + i - 1 = r + i
  OBVIOUS
<1>2. \A i \in m .. n : s[i] \in S
  <2>1. Len(s) \in Nat
    BY LenProperties
  <2>2. \A i \in m .. n : i \in 1 .. Len(s)
    BY <2>1
  <2>3. QED  BY <2>2, ElementOfSeq
<1> HIDE DEF m, n
<1>3. /\ part \in Seq(S)
      /\ Len(part) = IF m <= n THEN n - m + 1 ELSE 0
      /\ \A i \in 1 .. n - m + 1 : part[i] = s[m + i - 1]
  BY <1>1, <1>2, SubSeqProperties
<1> HIDE DEF part
<1>4. Len(part) = k /\ \A i \in 1 .. k : part[i] = s[r + i]
  <2>1. Len(part) = k
    BY <1>1, <1>3
  <2>2. ASSUME NEW i \in 1 .. k
        PROVE  part[i] = s[r + i]
    <3>1. i \in 1 .. n - m + 1 /\ m + i - 1 = r + i
      BY <1>1
    <3>2. part[i] = s[m + i - 1]
      BY <1>3, <3>1
    <3>3. QED  BY <3>1, <3>2
  <2>3. QED  BY <2>1, <2>2
<1>5. part = [i \in 1 .. k |-> s[r + i]]
  BY <1>3, <1>4, LenProperties
<1>6. QED  BY <1>3, <1>4, <1>5 DEF part, m, n

\* The byte that the loop looks at is the first of the stream not read yet.
LEMMA NextByte ==
    ASSUME IInv, length > 0
    PROVE  /\ offset \in Index
           /\ buffer[offset] = sent[Len(sent) - length + 1]
           /\ buffer[offset] \in Byte
           /\ buffer[offset].seg \in 0 .. Base - 1
           /\ buffer[offset].more \in BOOLEAN
<1>1. offset \in Nat /\ length \in Nat /\ offset + length <= BufferSize
  BY DEF IInv, TypeOK, BufferHoldsTail
<1>2. offset \in Index
  BY <1>1, Bounds DEF Index
<1>3. buffer[offset] \in Byte
  BY <1>2 DEF IInv, TypeOK
<1>4. Len(sent) \in Nat
  BY LenProperties DEF IInv, TypeOK
<1>5. buffer[offset + 0] = sent[Len(sent) - length + 0 + 1]
  BY <1>1 DEF IInv, BufferHoldsTail
<1>6. offset + 0 = offset /\ Len(sent) - length + 0 + 1 = Len(sent) - length + 1
  BY <1>1, <1>4
<1>7. QED  BY <1>2, <1>3, <1>5, <1>6 DEF Byte

\* A complete packet is the part of the stream that comes next.
LEMMA PacketIsNext ==
    ASSUME IInv, packet_size >= 1, packet_size <= length
    PROVE  /\ Packet = SubSeq(sent, Len(sent) - length + 1, Len(sent) - length + packet_size)
           /\ Packet \in Seq(Byte)
           /\ Packet[1] = buffer[offset]
<1> DEFINE r == Len(sent) - length
<1>1. /\ offset \in Nat /\ length \in Nat /\ packet_size \in Nat
      /\ offset + length <= BufferSize /\ length <= Len(sent) /\ Len(sent) \in Nat
      /\ sent \in Seq(Byte) /\ buffer \in [Index -> Byte]
  BY LenProperties DEF IInv, TypeOK, BufferHoldsTail
<1>2. r \in Nat /\ r + packet_size <= Len(sent)
  BY <1>1
<1>3. /\ SubSeq(sent, r + 1, r + packet_size) \in Seq(Byte)
      /\ SubSeq(sent, r + 1, r + packet_size) = [i \in 1 .. packet_size |-> sent[r + i]]
  BY <1>1, <1>2, PartOfSeq
<1>4. \A i \in 1 .. packet_size : buffer[offset + i - 1] = sent[r + i]
  <2>1. SUFFICES ASSUME NEW i \in 1 .. packet_size
                 PROVE  buffer[offset + i - 1] = sent[r + i]
    OBVIOUS
  <2>2. i - 1 \in 0 .. length - 1
    BY <1>1
  <2>3. buffer[offset + (i - 1)] = sent[r + (i - 1) + 1]
    BY <2>2 DEF IInv, BufferHoldsTail
  <2>4. offset + (i - 1) = offset + i - 1 /\ r + (i - 1) + 1 = r + i
    BY <1>1, <1>2
  <2>5. QED  BY <2>3, <2>4
<1> HIDE DEF r
<1>5. Packet = SubSeq(sent, r + 1, r + packet_size)
  BY <1>3, <1>4 DEF Packet
<1>6. Packet[1] = buffer[offset]
  <2>1. 1 \in 1 .. packet_size /\ offset + 1 - 1 = offset
    BY <1>1
  <2>2. QED  BY <2>1 DEF Packet
<1>7. QED  BY <1>3, <1>5, <1>6 DEF r

-----------------------------------------------------------------------------
(* The invariant.                                                          *)

LEMMA InitIInv == Init => IInv
<1> SUFFICES ASSUME Init PROVE IInv
  OBVIOUS
<1>1. TypeOK
  <2>1. [more |-> FALSE, seg |-> 0] \in Byte
    BY Bounds DEF Byte
  <2>2. QED  BY <2>1, EmptySeq DEF Init, TypeOK
<1>2. SizeFits /\ RoomToRecv
  BY Bounds DEF Init, SizeFits, RoomToRecv
<1>3. BufferHoldsTail
  BY Bounds, EmptySeq DEF Init, BufferHoldsTail
<1>4. QED  BY <1>1, <1>2, <1>3 DEF IInv

\* The kernel's bytes are put behind those that are still there.
LEMMA RecvStep ==
    ASSUME IInv, Recv
    PROVE  IInv' /\ sent' \in Seq(Byte) /\ Len(sent') - length' = Len(sent) - length
             /\ Len(sent') >= Len(sent) /\ SubSeq(sent', 1, Len(sent)) = sent
<1>1. PICK n \in 1 .. BufferSize - length :
        /\ \E chunk \in [1 .. n -> Byte] :
             /\ buffer' = [i \in Index |-> IF i \in length .. length + n - 1
                                           THEN chunk[i - length + 1] ELSE buffer[i]]
             /\ sent' = sent \o chunk
        /\ length' = length + n
  BY DEF Recv
<1>2. PICK chunk \in [1 .. n -> Byte] :
        /\ buffer' = [i \in Index |-> IF i \in length .. length + n - 1
                                      THEN chunk[i - length + 1] ELSE buffer[i]]
        /\ sent' = sent \o chunk
  BY <1>1
<1>3. /\ length \in Nat /\ length < BufferSize /\ n \in Nat /\ n >= 1 /\ length + n <= BufferSize
      /\ offset = 0 /\ offset' = 0 /\ sent \in Seq(Byte) /\ Len(sent) \in Nat /\ length <= Len(sent)
      /\ buffer \in [Index -> Byte] /\ BufferSize \in Nat
  BY <1>1, Bounds, LenProperties DEF Recv, IInv, TypeOK, RoomToRecv, BufferHoldsTail
<1>4. chunk \in Seq(Byte) /\ Len(chunk) = n
  <2>1. chunk \in Seq(Byte)
    BY <1>3, SeqDef
  <2>2. DOMAIN chunk = 1 .. n
    OBVIOUS
  <2>3. DOMAIN chunk = 1 .. Len(chunk) /\ Len(chunk) \in Nat
    BY <2>1, LenProperties
  <2>4. QED  BY <1>3, <2>1, <2>2, <2>3
<1>5. /\ sent' \in Seq(Byte) /\ Len(sent') = Len(sent) + n
      /\ \A i \in 1 .. Len(sent) + n :
           sent'[i] = IF i <= Len(sent) THEN sent[i] ELSE chunk[i - Len(sent)]
  BY <1>2, <1>3, <1>4, ConcatProperties
<1>6. TypeOK'
  <2>1. buffer' \in [Index -> Byte]
    <3>1. \A i \in Index : i \in length .. length + n - 1 => i - length + 1 \in 1 .. n
      BY <1>3 DEF Index
    <3>2. QED  BY <1>2, <1>3, <3>1
  <2>2. QED  BY <1>1, <1>3, <1>5, <2>1 DEF Recv, IInv, TypeOK
<1>7. SizeFits' /\ RoomToRecv'
  BY DEF Recv, IInv, SizeFits, RoomToRecv
<1>8. BufferHoldsTail'
  <2>1. offset' + length' <= BufferSize /\ length' <= Len(sent')
    BY <1>1, <1>3, <1>5
  <2>2. ASSUME NEW i \in 0 .. length' - 1
        PROVE  buffer'[offset' + i] = sent'[Len(sent') - length' + i + 1]
    <3>1. /\ i \in Index /\ offset' + i = i /\ i < length + n
          /\ Len(sent') - length' + i + 1 = Len(sent) - length + i + 1
          /\ Len(sent) - length + i + 1 \in 1 .. Len(sent) + n
      BY <1>1, <1>3, <1>5 DEF Index
    <3>2. CASE i < length
      <4>1. buffer'[i] = buffer[i]
        BY <1>2, <1>3, <3>1, <3>2 DEF Index
      <4>2. buffer[i] = sent[Len(sent) - length + i + 1]
        <5>1. i \in 0 .. length - 1 /\ offset + i = i
          BY <1>3, <3>1, <3>2 DEF Index
        <5>2. QED  BY <5>1 DEF IInv, BufferHoldsTail
      <4>3. Len(sent) - length + i + 1 <= Len(sent)
        BY <1>3, <3>1, <3>2 DEF Index
      <4>4. QED  BY <1>5, <3>1, <4>1, <4>2, <4>3
    <3>3. CASE i >= length
      <4>1. buffer'[i] = chunk[i - length + 1]
        BY <1>2, <1>3, <3>1, <3>3 DEF Index
      <4>2. /\ ~(Len(sent) - length + i + 1 <= Len(sent))
            /\ Len(sent) - length + i + 1 - Len(sent) = i - length + 1
        BY <1>3, <3>1, <3>3 DEF Index
      <4>3. sent'[Len(sent) - length + i + 1] = chunk[Len(sent) - length + i + 1 - Len(sent)]
        <5> DEFINE j == Len(sent) - length + i + 1
        <5>1. j \in 1 .. Len(sent) + n /\ ~(j <= Len(sent))
          BY <3>1, <4>2
        <5> HIDE DEF j
        <5>2. sent'[j] = chunk[j - Len(sent)]
          BY <1>5, <5>1
        <5>3. QED  BY <1>3, <3>1, <5>2 DEF j
      <4>4. QED  BY <3>1, <4>1, <4>2, <4>3
    <3>4. QED  BY <1>3, <3>1, <3>2, <3>3 DEF Index
  <2>3. QED  BY <2>1, <2>2 DEF BufferHoldsTail
<1>9. SubSeq(sent', 1, Len(sent)) = sent
  <2>1. \A i \in 1 .. Len(sent) : sent'[i] = sent[i] /\ sent'[i] \in Byte
    BY <1>3, <1>5, ElementOfSeq
  <2>2. /\ SubSeq(sent', 0 + 1, 0 + Len(sent)) \in Seq(Byte)
        /\ Len(SubSeq(sent', 0 + 1, 0 + Len(sent))) = Len(sent)
        /\ SubSeq(sent', 0 + 1, 0 + Len(sent)) = [i \in 1 .. Len(sent) |-> sent'[0 + i]]
    <3>1. 0 + Len(sent) <= Len(sent')
      BY <1>3, <1>5
    <3>2. QED  BY <1>3, <1>5, <3>1, PartOfSeq
  <2>3. 0 + 1 = 1 /\ 0 + Len(sent) = Len(sent) /\ \A i \in 1 .. Len(sent) : 0 + i = i
    BY <1>3
  <2>4. QED  BY <1>3, <2>1, <2>2, <2>3, SeqEqual
<1>10. QED  BY <1>1, <1>3, <1>5, <1>6, <1>7, <1>8, <1>9 DEF IInv

\* One byte is taken from the front of the buffer.
LEMMA TakeByteStep ==
    ASSUME IInv, length > 0, TakeByte, UNCHANGED <<pc, sent, out>>, pc = "loop",
           packet_size' \in Nat, recv_state' \in {"SIZE_1", "SIZE_2", "SIZE_3", "PACKET"},
           recv_state' = "PACKET" => packet_size' <= BufferSize
    PROVE  IInv' /\ Len(sent') - length' = Len(sent) - length + 1
<1>1. /\ offset \in Nat /\ length \in Nat /\ Len(sent) \in Nat
      /\ offset' = offset + 1 /\ length' = length - 1 /\ length' \in Nat
      /\ offset + length <= BufferSize /\ length <= Len(sent) /\ BufferSize \in Nat
  BY Bounds, LenProperties DEF IInv, TypeOK, BufferHoldsTail, TakeByte
<1>2. TypeOK'
  BY <1>1 DEF IInv, TypeOK, TakeByte
<1>3. SizeFits' /\ RoomToRecv'
  BY DEF SizeFits, RoomToRecv
<1>4. BufferHoldsTail'
  <2>1. ASSUME NEW i \in 0 .. length' - 1
        PROVE  buffer'[offset' + i] = sent'[Len(sent') - length' + i + 1]
    <3>1. /\ i + 1 \in 0 .. length - 1 /\ offset' + i = offset + (i + 1)
          /\ Len(sent') - length' + i + 1 = Len(sent) - length + (i + 1) + 1
      BY <1>1
    <3>2. buffer[offset + (i + 1)] = sent[Len(sent) - length + (i + 1) + 1]
      BY <3>1 DEF IInv, BufferHoldsTail
    <3>3. QED  BY <3>1, <3>2 DEF TakeByte
  <2>2. QED  BY <1>1, <2>1 DEF BufferHoldsTail
<1>5. QED  BY <1>1, <1>2, <1>3, <1>4 DEF IInv

LEMMA RefuseStep ==
    ASSUME IInv, Refuse
    PROVE  IInv'
  BY DEF IInv, TypeOK, SizeFits, RoomToRecv, BufferHoldsTail, Refuse, data

LEMMA SizeStep ==
    ASSUME IInv, Size1 \/ Size2 \/ Size3
    PROVE  IInv'
<1>1. length > 0 /\ pc = "loop"
  BY DEF Size1, Size2, Size3, Loops
<1>2. b.seg \in 0 .. Base - 1 /\ packet_size \in Nat
  BY <1>1, NextByte DEF b, IInv, TypeOK
<1>3. b.seg \in Nat /\ b.seg <= BufferSize /\ Base * b.seg \in Nat /\ Base * Base * b.seg \in Nat
  BY <1>2, DigitsAreNat, Bounds
<1>4. CASE Size1
  <2>1. /\ TakeByte /\ UNCHANGED <<pc, sent, out>> /\ packet_size' = b.seg
        /\ recv_state' \in {"SIZE_2", "PACKET"}
    BY <1>4 DEF Size1, Decoded
  <2>2. QED  BY <1>1, <1>3, <2>1, TakeByteStep
<1>5. CASE Size2
  <2> DEFINE size == packet_size + Base * b.seg
  <2>1. size \in Nat
    BY <1>2, <1>3
  <2>2. CASE size <= BufferSize
    <3>1. /\ TakeByte /\ UNCHANGED <<pc, sent, out>> /\ packet_size' = size
          /\ recv_state' \in {"SIZE_3", "PACKET"}
      BY <1>5, <2>2 DEF Size2, Decoded
    <3>2. QED  BY <1>1, <2>1, <2>2, <3>1, TakeByteStep
  <2>3. CASE ~(size <= BufferSize)
    BY <1>5, <2>3, RefuseStep DEF Size2
  <2>4. QED  BY <2>2, <2>3
<1>6. CASE Size3
  <2> DEFINE size == packet_size + Base * Base * b.seg
  <2>1. size \in Nat
    BY <1>2, <1>3
  <2>2. CASE size <= BufferSize /\ ~b.more
    <3>1. /\ TakeByte /\ UNCHANGED <<pc, sent, out>> /\ packet_size' = size
          /\ recv_state' = "PACKET"
      BY <1>6, <2>2 DEF Size3, Decoded
    <3>2. QED  BY <1>1, <2>1, <2>2, <3>1, TakeByteStep
  <2>3. CASE ~(size <= BufferSize /\ ~b.more)
    BY <1>6, <2>3, RefuseStep DEF Size3
  <2>4. QED  BY <2>2, <2>3
<1>7. QED  BY <1>4, <1>5, <1>6

\* What is there is moved to the start; the packet it waits for is not
\* complete and fits, so there is room.
LEMMA WaitForMoreStep ==
    ASSUME IInv, WaitForMore
    PROVE  IInv'
<1>1. /\ offset \in Nat /\ length \in Nat /\ Len(sent) \in Nat /\ packet_size \in Nat
      /\ offset + length <= BufferSize /\ length <= Len(sent) /\ BufferSize \in Nat
      /\ packet_size <= BufferSize /\ length < packet_size /\ offset' = 0
      /\ buffer' = [i \in Index |-> IF i < length THEN buffer[offset + i] ELSE buffer[i]]
      /\ UNCHANGED <<length, recv_state, packet_size, sent, out>>
      /\ buffer \in [Index -> Byte] /\ recv_state = "PACKET" /\ pc' = "recv"
  BY Bounds, LenProperties DEF IInv, TypeOK, SizeFits, BufferHoldsTail, WaitForMore, Loops
<1>2. \A i \in Index : i < length => offset + i \in Index
  BY <1>1 DEF Index
<1>3. buffer' \in [Index -> Byte]
  BY <1>1, <1>2
<1>4. TypeOK'
  BY <1>1, <1>3 DEF IInv, TypeOK
<1>5. SizeFits' /\ RoomToRecv'
  BY <1>1 DEF SizeFits, RoomToRecv
<1>6. BufferHoldsTail'
  <2>1. ASSUME NEW i \in 0 .. length - 1
        PROVE  buffer'[0 + i] = sent[Len(sent) - length + i + 1]
    <3>1. i \in Index /\ i < length /\ 0 + i = i
      BY <1>1 DEF Index
    <3>2. buffer'[i] = buffer[offset + i]
      BY <1>1, <3>1
    <3>3. QED  BY <3>1, <3>2 DEF IInv, BufferHoldsTail
  <2>2. 0 + length <= BufferSize
    BY <1>1
  <2>3. \A i \in 0 .. length' - 1 : buffer'[offset' + i] = sent'[Len(sent') - length' + i + 1]
    BY <1>1, <2>1
  <2>4. QED  BY <1>1, <2>2, <2>3 DEF BufferHoldsTail
<1>7. QED  BY <1>4, <1>5, <1>6 DEF IInv

LEMMA DeliverStep ==
    ASSUME IInv, Deliver, Dispatches(Packet)
    PROVE  IInv' /\ Len(sent') - length' = Len(sent) - length + packet_size
<1>1. /\ offset \in Nat /\ length \in Nat /\ Len(sent) \in Nat /\ packet_size \in Nat
      /\ offset + length <= BufferSize /\ length <= Len(sent) /\ BufferSize \in Nat
      /\ packet_size >= 1 /\ packet_size <= length
      /\ offset' = offset + packet_size /\ length' = length - packet_size /\ length' \in Nat
      /\ out' = Append(out, Packet) /\ recv_state' = "SIZE_1" /\ pc = "loop"
      /\ UNCHANGED <<buffer, packet_size, pc, sent>>
  BY Bounds, LenProperties DEF IInv, TypeOK, BufferHoldsTail, Deliver, Loops
<1>2. out' \in Seq(Seq(Byte))
  BY <1>1, PacketIsNext, AppendProperties DEF IInv, TypeOK
<1>3. TypeOK'
  BY <1>1, <1>2 DEF IInv, TypeOK
<1>4. SizeFits' /\ RoomToRecv'
  BY <1>1 DEF SizeFits, RoomToRecv
<1>5. BufferHoldsTail'
  <2>1. ASSUME NEW i \in 0 .. length' - 1
        PROVE  buffer'[offset' + i] = sent'[Len(sent') - length' + i + 1]
    <3>1. /\ i + packet_size \in 0 .. length - 1 /\ offset' + i = offset + (i + packet_size)
          /\ Len(sent') - length' + i + 1 = Len(sent) - length + (i + packet_size) + 1
      BY <1>1
    <3>2. buffer[offset + (i + packet_size)] = sent[Len(sent) - length + (i + packet_size) + 1]
      BY <3>1 DEF IInv, BufferHoldsTail
    <3>3. QED  BY <1>1, <3>1, <3>2
  <2>2. QED  BY <1>1, <2>1 DEF BufferHoldsTail
<1>6. QED  BY <1>1, <1>3, <1>4, <1>5 DEF IInv

LEMMA OutOfDataStep ==
    ASSUME IInv, OutOfData
    PROVE  IInv'
<1>1. /\ length = 0 /\ offset' = 0 /\ pc' = "recv"
      /\ UNCHANGED <<buffer, length, recv_state, packet_size, sent, out>>
  BY DEF OutOfData
<1>2. TypeOK' /\ SizeFits' /\ RoomToRecv'
  BY <1>1, Bounds DEF IInv, TypeOK, SizeFits, RoomToRecv
<1>3. BufferHoldsTail'
  BY <1>1, Bounds DEF IInv, BufferHoldsTail
<1>4. QED  BY <1>2, <1>3 DEF IInv

LEMMA NextIInv == IInv /\ [Next]_vars => IInv'
<1> SUFFICES ASSUME IInv, [Next]_vars PROVE IInv'
  OBVIOUS
<1>1. CASE Recv
  BY <1>1, RecvStep
<1>2. CASE Size1 \/ Size2 \/ Size3
  BY <1>2, SizeStep
<1>3. CASE EmptyPacket
  BY <1>3, RefuseStep DEF EmptyPacket
<1>4. CASE WaitForMore
  BY <1>4, WaitForMoreStep
<1>5. CASE Deliver
  <2>1. CASE Dispatches(Packet)
    BY <1>5, <2>1, DeliverStep
  <2>2. CASE ~Dispatches(Packet)
    BY <1>5, <2>2, RefuseStep DEF Deliver
  <2>3. QED  BY <2>1, <2>2
<1>6. CASE OutOfData
  BY <1>6, OutOfDataStep
<1>7. CASE UNCHANGED vars
  BY <1>7 DEF IInv, TypeOK, SizeFits, RoomToRecv, BufferHoldsTail, vars, data
<1>8. QED  BY <1>1, <1>2, <1>3, <1>4, <1>5, <1>6, <1>7 DEF Next, OnRecv

\* The inductive invariant of connection_on_recv and its buffer.
THEOREM BufferCorrect == Spec => []IInv
  BY InitIInv, NextIInv, PTL DEF Spec

\* Whenever a recv is posted there is room for at least a byte, so a result of
\* 0 does mean that the client closed its socket.
THEOREM RecvHasRoom == Spec => []RoomToRecv
<1>1. IInv => RoomToRecv
  BY DEF IInv
<1>2. QED  BY <1>1, BufferCorrect, PTL

\* connection_t.buffer holds, inside its bounds, the unread tail of the stream.
THEOREM TailIsKept == Spec => []BufferHoldsTail
<1>1. IInv => BufferHoldsTail
  BY DEF IInv
<1>2. QED  BY <1>1, BufferCorrect, PTL

-----------------------------------------------------------------------------
(* The buffer implements PacketStream.                                     *)

StreamStep == [Stream!Next]_(Stream!vars)

LEMMA StreamInit == Init => Stream!Init
  BY EmptySeq DEF Init, Stream!Init

LEMMA RecvArrives ==
    ASSUME IInv, Recv
    PROVE  StreamStep
<1>1. /\ sent' \in Seq(Byte) /\ Len(sent') - length' = Len(sent) - length
      /\ Len(sent') >= Len(sent) /\ SubSeq(sent', 1, Len(sent)) = sent
  BY RecvStep
<1>2. pc = "recv" /\ pc' = "loop" /\ UNCHANGED <<recv_state, packet_size, out>>
  BY DEF Recv
<1>3. Stream!Arrive
  BY <1>1, <1>2 DEF Stream!Arrive, Stream!Byte, Byte
<1>4. QED  BY <1>3 DEF StreamStep, Stream!Next

\* What the stream and the buffer say about the next byte.
LEMMA StreamByte ==
    ASSUME IInv, length > 0
    PROVE  /\ sent[Len(sent) - length + 1] = b
           /\ Len(sent) - length < Len(sent)
<1>1. length \in Nat /\ Len(sent) \in Nat
  BY LenProperties DEF IInv, TypeOK
<1>2. QED  BY <1>1, NextByte DEF b

LEMMA RefuseRefuses ==
    ASSUME Refuse
    PROVE  Stream!Refuse
  BY DEF Refuse, Stream!Refuse, data

\* A byte of a size is taken when the stream says so, and refused otherwise.
LEMMA SizeReads ==
    ASSUME IInv, pc = "loop", length > 0, NEW total, NEW further,
           IF total > BufferSize \/ (b.more /\ further = "none")
           THEN Refuse
           ELSE Decoded(total, IF b.more THEN further ELSE "PACKET")
    PROVE  Stream!ReadSize(total, further)
<1>1. sent[Len(sent) - length + 1] = b
  BY StreamByte
<1>2. CASE total > BufferSize \/ (b.more /\ further = "none")
  BY <1>1, <1>2, RefuseRefuses DEF Stream!ReadSize
<1>3. CASE ~(total > BufferSize \/ (b.more /\ further = "none"))
  <2>1. /\ TakeByte /\ packet_size' = total
        /\ recv_state' = (IF b.more THEN further ELSE "PACKET")
        /\ UNCHANGED <<pc, sent, out>>
    BY <1>3 DEF Decoded
  <2>2. Len(sent') - length' = Len(sent) - length + 1
    <3>1. length \in Nat /\ Len(sent) \in Nat
      BY LenProperties DEF IInv, TypeOK
    <3>2. QED  BY <2>1, <3>1 DEF TakeByte
  <2>3. QED  BY <1>1, <1>3, <2>1, <2>2 DEF Stream!ReadSize
<1>4. QED  BY <1>2, <1>3

LEMMA SizeIsRead ==
    ASSUME IInv, Size1 \/ Size2 \/ Size3
    PROVE  StreamStep
<1>1. length > 0 /\ pc = "loop"
  BY DEF Size1, Size2, Size3, Loops
<1>2. /\ sent[Len(sent) - length + 1] = b /\ Len(sent) - length < Len(sent)
      /\ b.seg \in 0 .. Base - 1 /\ packet_size \in Nat
  BY <1>1, StreamByte, NextByte DEF b, IInv, TypeOK
<1>3. b.seg \in Nat /\ b.seg <= BufferSize /\ Base * b.seg \in Nat /\ Base * Base * b.seg \in Nat
  BY <1>2, DigitsAreNat, Bounds
<1>4. CASE Size1
  <2>1. ~(b.seg > BufferSize)
    BY <1>3, Bounds
  <2>2. Stream!ReadSize(b.seg, "SIZE_2")
    BY <1>1, <1>4, <2>1, SizeReads DEF Size1
  <2>3. recv_state = "SIZE_1"
    BY <1>4 DEF Size1, Loops
  <2>4. QED  BY <1>1, <1>2, <2>2, <2>3 DEF StreamStep, Stream!Next, Stream!ReadByte
<1>5. CASE Size2
  <2> DEFINE size == packet_size + Base * b.seg
  <2>1. size \in Nat /\ (size <= BufferSize <=> ~(size > BufferSize))
    BY <1>2, <1>3, Bounds
  <2>2. Stream!ReadSize(size, "SIZE_3")
    BY <1>1, <1>5, <2>1, SizeReads DEF Size2
  <2>3. recv_state = "SIZE_2"
    BY <1>5 DEF Size2, Loops
  <2>4. QED  BY <1>1, <1>2, <2>2, <2>3 DEF StreamStep, Stream!Next, Stream!ReadByte
<1>6. CASE Size3
  <2> DEFINE size == packet_size + Base * Base * b.seg
  <2>1. size \in Nat /\ (size <= BufferSize <=> ~(size > BufferSize))
    BY <1>2, <1>3, Bounds
  <2>2. Stream!ReadSize(size, "none")
    BY <1>1, <1>6, <2>1, SizeReads DEF Size3
  <2>3. recv_state = "SIZE_3"
    BY <1>6 DEF Size3, Loops
  <2>4. QED  BY <1>1, <1>2, <2>2, <2>3 DEF StreamStep, Stream!Next, Stream!ReadByte
<1>7. QED  BY <1>4, <1>5, <1>6

LEMMA PacketIsRead ==
    ASSUME IInv, Deliver \/ EmptyPacket
    PROVE  StreamStep
<1>1. /\ length > 0 /\ pc = "loop" /\ recv_state = "PACKET"
      /\ packet_size \in Nat /\ length \in Nat /\ Len(sent) \in Nat /\ packet_size <= length
  BY LenProperties DEF Deliver, EmptyPacket, Loops, IInv, TypeOK
<1>2. /\ sent[Len(sent) - length + 1] = b /\ Len(sent) - length < Len(sent)
      /\ packet_size <= Len(sent) - (Len(sent) - length)
  BY <1>1, StreamByte
<1>3. CASE EmptyPacket
  BY <1>1, <1>2, <1>3, RefuseRefuses DEF EmptyPacket, StreamStep, Stream!Next, Stream!ReadPacket
<1>4. CASE Deliver
  <2>1. /\ packet_size # 0 /\ packet_size >= 1
        /\ Packet = SubSeq(sent, Len(sent) - length + 1, Len(sent) - length + packet_size)
        /\ Packet[1] = b
    BY <1>1, <1>4, PacketIsNext DEF Deliver, b
  <2>2. Dispatches(Packet) <=> ~(~InPlay /\ sent[Len(sent) - length + 1].more)
    BY <1>2, <2>1 DEF Dispatches
  <2>3. CASE Dispatches(Packet)
    <3>1. /\ Len(sent') - length' = Len(sent) - length + packet_size
          /\ out' = Append(out, Packet) /\ recv_state' = "SIZE_1"
          /\ UNCHANGED <<packet_size, pc, sent>>
      BY <1>4, <2>3, DeliverStep DEF Deliver
    <3>2. Stream!ReadPacket
      BY <1>1, <1>2, <2>1, <2>2, <2>3, <3>1 DEF Stream!ReadPacket
    <3>3. QED  BY <3>2 DEF StreamStep, Stream!Next
  <2>4. CASE ~Dispatches(Packet)
    <3>1. Stream!Refuse
      BY <1>4, <2>4, RefuseRefuses DEF Deliver
    <3>2. Stream!ReadPacket
      BY <1>1, <1>2, <2>1, <2>2, <2>4, <3>1 DEF Stream!ReadPacket
    <3>3. QED  BY <3>2 DEF StreamStep, Stream!Next
  <2>5. QED  BY <2>3, <2>4
<1>5. QED  BY <1>3, <1>4

\* Moving what is left, and going back to the kernel, cannot be seen.
LEMMA WaitingIsUnseen ==
    ASSUME WaitForMore \/ OutOfData \/ UNCHANGED vars
    PROVE  StreamStep
<1>1. UNCHANGED <<sent, length, recv_state, packet_size, out>>
  BY DEF WaitForMore, OutOfData, vars, data
<1>2. (pc' = "refused") = (pc = "refused")
  BY DEF WaitForMore, OutOfData, Loops, vars
<1>3. QED  BY <1>1, <1>2 DEF StreamStep, Stream!vars

LEMMA StreamNext == IInv /\ [Next]_vars => StreamStep
  BY RecvArrives, SizeIsRead, PacketIsRead, WaitingIsUnseen DEF Next, OnRecv

\* connection_on_recv reads the stream of its client: every byte once and in
\* order, however it was cut on the way, and it passes on just the packets that
\* the stream contains.
THEOREM BufferIsTransparent == Spec => ReadsTheStream
  BY StreamInit, StreamNext, BufferCorrect, PTL DEF Spec, ReadsTheStream, Stream!Spec, StreamStep

-----------------------------------------------------------------------------
(* Sizes and packets in a stream.                                          *)

LEMMA InSizeDown ==
    ASSUME NEW s \in Seq(Byte), NEW r \in Nat, NEW n, InSize(s, r, n), NEW k \in 1 .. n
    PROVE  InSize(s, r, k)
<1>1. Len(s) \in Nat /\ n \in 1 .. 3
  BY LenProperties DEF InSize
<1>2. k \in 1 .. 3 /\ r + k <= Len(s) /\ \A i \in 1 .. k - 1 : i \in 1 .. n - 1
  BY <1>1 DEF InSize
<1>3. QED  BY <1>2 DEF InSize

\* One byte further.
LEMMA InSizeNext ==
    ASSUME NEW s \in Seq(Byte), NEW r \in Nat, NEW n \in 1 .. 2,
           InSize(s, r, n), s[r + n].more, r + n < Len(s)
    PROVE  InSize(s, r, n + 1)
<1>1. Len(s) \in Nat
  BY LenProperties
<1>2. /\ n + 1 \in 1 .. 3 /\ r + (n + 1) <= Len(s)
      /\ \A i \in 1 .. (n + 1) - 1 : i \in 1 .. n - 1 \/ i = n
  BY <1>1
<1>3. QED  BY <1>2 DEF InSize

LEMMA InSizeFirst ==
    ASSUME NEW s \in Seq(Byte), NEW r \in Nat, r < Len(s)
    PROVE  InSize(s, r, 1)
<1>1. Len(s) \in Nat
  BY LenProperties
<1>2. 1 \in 1 .. 3 /\ r + 1 <= Len(s) /\ 1 .. 1 - 1 = {}
  BY <1>1
<1>3. QED  BY <1>2 DEF InSize

LEMMA SizeBytesIs ==
    ASSUME NEW s \in Seq(Byte), NEW r \in Nat, NEW n, InSize(s, r, n), ~InSize(s, r, n + 1)
    PROVE  SizeBytes(s, r) = n
<1> DEFINE Last(m) == InSize(s, r, m) /\ ~InSize(s, r, m + 1)
<1>1. n \in 1 .. 3 /\ Last(n)
  BY DEF InSize
<1>2. ASSUME NEW m \in 1 .. 3, Last(m) PROVE m = n
  <2>1. CASE m < n
    <3>1. m + 1 \in 1 .. n
      BY <1>1, <2>1
    <3>2. QED  BY <1>2, <3>1, InSizeDown
  <2>2. CASE n < m
    <3>1. n + 1 \in 1 .. m
      BY <1>1, <2>2
    <3>2. QED  BY <1>1, <1>2, <3>1, InSizeDown
  <2>3. QED  BY <1>1, <2>1, <2>2
<1>3. SizeBytes(s, r) = CHOOSE m \in 1 .. 3 : Last(m)
  BY DEF SizeBytes
<1> HIDE DEF Last
<1>4. QED  BY <1>1, <1>2, <1>3

\* Where there is a byte there is a size.
LEMMA SizeBytesType ==
    ASSUME NEW s \in Seq(Byte), NEW r \in Nat, r < Len(s)
    PROVE  /\ SizeBytes(s, r) \in 1 .. 3
           /\ InSize(s, r, SizeBytes(s, r))
           /\ ~InSize(s, r, SizeBytes(s, r) + 1)
<1>1. InSize(s, r, 1)
  BY InSizeFirst
<1>2. ~InSize(s, r, 4)
  BY DEF InSize
<1>3. PICK n \in 1 .. 3 : InSize(s, r, n) /\ ~InSize(s, r, n + 1)
  <2>1. CASE ~InSize(s, r, 2)
    <3>1. 1 \in 1 .. 3 /\ 1 + 1 = 2
      OBVIOUS
    <3>2. QED  BY <1>1, <2>1, <3>1
  <2>2. CASE InSize(s, r, 2) /\ ~InSize(s, r, 3)
    <3>1. 2 \in 1 .. 3 /\ 2 + 1 = 3
      OBVIOUS
    <3>2. QED  BY <2>2, <3>1
  <2>3. CASE InSize(s, r, 3)
    <3>1. 3 \in 1 .. 3 /\ 3 + 1 = 4
      OBVIOUS
    <3>2. QED  BY <1>2, <2>3, <3>1
  <2>4. QED  BY <2>1, <2>2, <2>3
<1>4. SizeBytes(s, r) = n
  BY <1>3, SizeBytesIs
<1>5. QED  BY <1>3, <1>4

\* No byte of a size but the last stops.
LEMMA SizeStops ==
    ASSUME NEW s \in Seq(Byte), NEW r \in Nat, NEW n, InSize(s, r, n), ~s[r + n].more
    PROVE  SizeBytes(s, r) = n
<1>1. ~InSize(s, r, n + 1)
  <2>1. SUFFICES ASSUME InSize(s, r, n + 1) PROVE FALSE
    OBVIOUS
  <2>2. n \in 1 .. (n + 1) - 1
    BY DEF InSize
  <2>3. s[r + n].more
    BY <2>1, <2>2 DEF InSize
  <2>4. QED  BY <2>3
<1>2. QED  BY <1>1, SizeBytesIs

\* A size that the stream breaks off.
LEMMA SizeBreaksOff ==
    ASSUME NEW s \in Seq(Byte), NEW r \in Nat, NEW n, InSize(s, r, n), r + n = Len(s)
    PROVE  SizeBytes(s, r) = n
<1>1. ~InSize(s, r, n + 1)
  <2>1. n \in 1 .. 3 /\ Len(s) \in Nat
    BY LenProperties DEF InSize
  <2>2. ~(r + (n + 1) <= Len(s))
    BY <2>1
  <2>3. QED  BY <2>2 DEF InSize
<1>2. QED  BY <1>1, SizeBytesIs

LEMMA SegmentType ==
    ASSUME NEW s \in Seq(Byte), NEW r \in Nat, NEW n, InSize(s, r, n), NEW i \in 1 .. n
    PROVE  /\ s[r + i] \in Byte /\ s[r + i].seg \in Nat
           /\ Base * s[r + i].seg \in Nat /\ Base * Base * s[r + i].seg \in Nat
<1>1. r + i \in 1 .. Len(s)
  <2>1. n \in 1 .. 3 /\ Len(s) \in Nat /\ r + n <= Len(s)
    BY LenProperties DEF InSize
  <2>2. QED  BY <2>1
<1>2. s[r + i] \in Byte
  BY <1>1, ElementOfSeq
<1>3. s[r + i].seg \in 0 .. Base - 1
  BY <1>2 DEF Byte
<1>4. QED  BY <1>2, <1>3, DigitsAreNat

\* What one to three bytes say.
LEMMA SizeOfIs ==
    ASSUME NEW s \in Seq(Byte), NEW r \in Nat, NEW n, InSize(s, r, n)
    PROVE  /\ SizeOf(s, r, n) \in Nat
           /\ n = 1 => SizeOf(s, r, n) = s[r + 1].seg
           /\ n = 2 => SizeOf(s, r, n) = SizeOf(s, r, 1) + Base * s[r + 2].seg
           /\ n = 3 => SizeOf(s, r, n) = SizeOf(s, r, 2) + Base * Base * s[r + 3].seg
<1>1. n \in 1 .. 3
  BY DEF InSize
<1>2. Base \in Nat /\ Base * 0 = 0 /\ Base * Base * 0 = 0
  <2>1. Base \in Nat
    BY Bounds
  <2>2. Base * Base \in Nat
    BY <2>1
  <2>3. QED  BY <2>1, <2>2
<1>3. /\ s[r + 1].seg \in Nat
      /\ SizeOf(s, r, 1) = s[r + 1].seg
  <2>1. 1 \in 1 .. n
    BY <1>1
  <2>2. s[r + 1].seg \in Nat
    BY <2>1, SegmentType
  <2>3. SizeOf(s, r, 1) = s[r + 1].seg + Base * 0 + Base * Base * 0
    BY DEF SizeOf
  <2>4. QED  BY <1>2, <2>2, <2>3
<1>4. CASE n = 1
  BY <1>3, <1>4
<1>5. ASSUME n >= 2
      PROVE  /\ SizeOf(s, r, 2) = SizeOf(s, r, 1) + Base * s[r + 2].seg
             /\ SizeOf(s, r, 2) \in Nat /\ Base * s[r + 2].seg \in Nat
  <2>1. 2 \in 1 .. n
    BY <1>1, <1>5
  <2>2. Base * s[r + 2].seg \in Nat
    BY <2>1, SegmentType
  <2>3. SizeOf(s, r, 2) = s[r + 1].seg + Base * s[r + 2].seg + Base * Base * 0
    BY DEF SizeOf
  <2> DEFINE x == s[r + 1].seg
             y == Base * s[r + 2].seg
             z == Base * Base * 0
  <2>4. x \in Nat /\ y \in Nat /\ z = 0 /\ SizeOf(s, r, 2) = x + y + z /\ SizeOf(s, r, 1) = x
    BY <1>2, <1>3, <2>2, <2>3
  <2> HIDE DEF x, y, z
  <2>5. SizeOf(s, r, 2) = x + y /\ x + y \in Nat
    BY <2>4
  <2>6. SizeOf(s, r, 2) = SizeOf(s, r, 1) + y
    BY <2>4, <2>5
  <2>7. QED  BY <2>4, <2>5, <2>6 DEF y
<1>6. CASE n = 2
  BY <1>5, <1>6
<1>7. CASE n = 3
  <2> DEFINE x == s[r + 1].seg
             y == Base * s[r + 2].seg
             z == Base * Base * s[r + 3].seg
  <2>1. 3 \in 1 .. n
    BY <1>7
  <2>2. z \in Nat
    BY <2>1, SegmentType
  <2>3. SizeOf(s, r, 3) = x + y + z
    BY DEF SizeOf
  <2>4. SizeOf(s, r, 2) = x + y /\ SizeOf(s, r, 2) \in Nat
    BY <1>3, <1>5, <1>7
  <2> HIDE DEF x, y, z
  <2>5. SizeOf(s, r, 3) = SizeOf(s, r, 2) + z /\ SizeOf(s, r, 3) \in Nat
    BY <2>2, <2>3, <2>4
  <2>6. SizeOf(s, r, n) = SizeOf(s, r, 2) + Base * Base * s[r + 3].seg /\ SizeOf(s, r, n) \in Nat
    BY <1>7, <2>5 DEF z
  <2>7. QED  BY <1>7, <2>6
<1>8. QED  BY <1>1, <1>4, <1>6, <1>7

\* Further bytes never make a size smaller.
LEMMA SizeGrows ==
    ASSUME NEW s \in Seq(Byte), NEW r \in Nat, NEW n, InSize(s, r, n)
    PROVE  SizeOf(s, r, n) <= SizeAt(s, r) /\ SizeAt(s, r) \in Nat
<1> DEFINE m == SizeBytes(s, r)
<1>1. n \in 1 .. 3 /\ r < Len(s)
  <2>1. Len(s) \in Nat /\ n \in 1 .. 3 /\ r + n <= Len(s)
    BY LenProperties DEF InSize
  <2>2. QED  BY <2>1
<1>2. m \in 1 .. 3 /\ InSize(s, r, m) /\ ~InSize(s, r, m + 1)
  BY <1>1, SizeBytesType
<1> HIDE DEF m
<1>3. n <= m
  <2>1. SUFFICES ASSUME m < n PROVE FALSE
    BY <1>1, <1>2
  <2>2. m + 1 \in 1 .. n
    BY <1>1, <1>2, <2>1
  <2>3. QED  BY <1>2, <2>2, InSizeDown
<1>4. ASSUME m >= 2 PROVE SizeOf(s, r, 1) \in Nat /\ SizeOf(s, r, 2) \in Nat /\ SizeOf(s, r, 1) <= SizeOf(s, r, 2)
  <2>1. 1 \in 1 .. m /\ 2 \in 1 .. m
    BY <1>2, <1>4
  <2>2. InSize(s, r, 1) /\ InSize(s, r, 2)
    BY <1>2, <2>1, InSizeDown
  <2>3. /\ SizeOf(s, r, 1) \in Nat /\ SizeOf(s, r, 2) \in Nat
        /\ SizeOf(s, r, 2) = SizeOf(s, r, 1) + Base * s[r + 2].seg
    BY <2>2, SizeOfIs
  <2>4. Base * s[r + 2].seg \in Nat
    BY <1>2, <2>1, SegmentType
  <2>5. QED  BY <2>3, <2>4
<1>5. ASSUME m = 3 PROVE SizeOf(s, r, 2) <= SizeOf(s, r, 3)
  <2>1. 3 \in 1 .. m
    BY <1>5
  <2>2. SizeOf(s, r, 3) \in Nat /\ SizeOf(s, r, 3) = SizeOf(s, r, 2) + Base * Base * s[r + 3].seg
    BY <1>2, <1>5, SizeOfIs
  <2>3. Base * Base * s[r + 3].seg \in Nat
    BY <1>2, <2>1, SegmentType
  <2>4. SizeOf(s, r, 2) \in Nat
    BY <1>4, <1>5
  <2>5. QED  BY <2>2, <2>3, <2>4
<1>6. SizeOf(s, r, m) \in Nat
  BY <1>2, SizeOfIs
<1>7. SizeOf(s, r, n) <= SizeOf(s, r, m)
  <2>1. CASE n = m
    BY <1>6, <2>1
  <2>2. CASE m = 2 /\ n = 1
    BY <1>4, <2>2
  <2>3. CASE m = 3 /\ n = 2
    BY <1>5, <2>3
  <2>4. CASE m = 3 /\ n = 1
    BY <1>4, <1>5, <1>6, <2>4
  <2>5. QED  BY <1>1, <1>2, <1>3, <2>1, <2>2, <2>3, <2>4
<1>8. QED  BY <1>6, <1>7 DEF m, SizeAt

-----------------------------------------------------------------------------
(* What has been read does not change when more arrives.                   *)

Extends(t, s) ==
    /\ s \in Seq(Byte) /\ t \in Seq(Byte)
    /\ Len(s) <= Len(t) /\ \A i \in 1 .. Len(s) : t[i] = s[i]

LEMMA InSizeStays ==
    ASSUME NEW s, NEW t, Extends(t, s), NEW r \in Nat, NEW n, InSize(s, r, n)
    PROVE  /\ InSize(t, r, n) /\ SizeOf(t, r, n) = SizeOf(s, r, n)
           /\ \A i \in 1 .. n : t[r + i] = s[r + i]
<1>1. /\ n \in 1 .. 3 /\ Len(s) \in Nat /\ Len(t) \in Nat /\ Len(s) <= Len(t) /\ r + n <= Len(s)
      /\ \A i \in 1 .. n - 1 : s[r + i].more
  BY LenProperties DEF Extends, InSize
<1>2. \A i \in 1 .. n : r + i \in 1 .. Len(s)
  BY <1>1
<1>3. \A i \in 1 .. n : t[r + i] = s[r + i]
  BY <1>2 DEF Extends
<1>4. InSize(t, r, n)
  <2>1. r + n <= Len(t) /\ \A i \in 1 .. n - 1 : i \in 1 .. n
    BY <1>1
  <2>2. \A i \in 1 .. n - 1 : t[r + i].more
    BY <1>1, <1>3, <2>1
  <2>3. QED  BY <1>1, <2>1, <2>2 DEF InSize
<1>5. SizeOf(t, r, n) = SizeOf(s, r, n)
  <2>1. \A i \in {1, 2, 3} : i <= n => i \in 1 .. n
    BY <1>1
  <2>2. \A i \in {1, 2, 3} : i <= n => t[r + i].seg = s[r + i].seg
    BY <1>3, <2>1
  <2>3. QED  BY <2>2 DEF SizeOf
<1>6. QED  BY <1>3, <1>4, <1>5

\* A frame of the stream s: the packet that follows the first r bytes, and
\* where it ends.
IsFrame(s, r, end, packet) ==
    /\ HasFrame(s, r) /\ ~Breaks(s, r)
    /\ end = SizeEnd(s, r) + SizeAt(s, r)
    /\ packet = PacketAt(s, r)

\* A whole frame breaks the protocol only by its packet.
LEMMA FrameBreaks ==
    ASSUME NEW s \in Seq(Byte), NEW r \in Nat, HasFrame(s, r)
    PROVE  Breaks(s, r) <=> ~Dispatches(PacketAt(s, r))
<1>1. /\ r < Len(s) /\ ~s[SizeEnd(s, r)].more /\ SizeAt(s, r) \in 1 .. BufferSize
  BY DEF HasFrame
<1>2. ~(SizeAt(s, r) > BufferSize) /\ SizeAt(s, r) # 0
  BY <1>1, Bounds
<1>3. QED  BY <1>1, <1>2 DEF Breaks

LEMMA FrameType ==
    ASSUME NEW s \in Seq(Byte), NEW r \in Nat, HasFrame(s, r)
    PROVE  /\ SizeBytes(s, r) \in 1 .. 3 /\ SizeEnd(s, r) \in Nat /\ SizeAt(s, r) \in Nat
           /\ r < SizeEnd(s, r) /\ SizeAt(s, r) >= 1
           /\ SizeEnd(s, r) + SizeAt(s, r) \in r + 2 .. Len(s)
           /\ PacketAt(s, r) \in Seq(Byte)
           /\ PacketAt(s, r) = [i \in 1 .. SizeAt(s, r) |-> s[SizeEnd(s, r) + i]]
<1> DEFINE end == SizeEnd(s, r)
           n == SizeAt(s, r)
<1>1. /\ SizeBytes(s, r) \in 1 .. 3 /\ n \in 1 .. BufferSize /\ end + n <= Len(s)
      /\ end = r + SizeBytes(s, r) /\ Len(s) \in Nat
  BY SizeBytesType, LenProperties DEF HasFrame, SizeEnd
<1>2. /\ n \in Nat /\ n >= 1 /\ end \in Nat /\ r < end /\ end + n \in r + 2 .. Len(s)
  BY <1>1, Bounds
<1> HIDE DEF end, n
<1>3. SubSeq(s, end + 1, end + n) \in Seq(Byte) /\ SubSeq(s, end + 1, end + n) = [i \in 1 .. n |-> s[end + i]]
  <2>1. end \in Nat /\ n \in Nat /\ end + n <= Len(s)
    BY <1>1, <1>2
  <2>2. QED  BY <2>1, PartOfSeq
<1>4. QED  BY <1>1, <1>2, <1>3 DEF end, n, PacketAt

LEMMA FrameStays ==
    ASSUME NEW s, NEW t, Extends(t, s), NEW r \in Nat, NEW end, NEW packet,
           IsFrame(s, r, end, packet)
    PROVE  IsFrame(t, r, end, packet)
<1> DEFINE n == SizeBytes(s, r)
           m == SizeAt(s, r)
<1>1. /\ s \in Seq(Byte) /\ t \in Seq(Byte) /\ Len(s) \in Nat /\ Len(t) \in Nat /\ Len(s) <= Len(t)
  BY LenProperties DEF Extends
<1>2. HasFrame(s, r) /\ r < Len(s) /\ ~s[r + n].more /\ m \in 1 .. BufferSize /\ r + n + m <= Len(s)
  BY DEF IsFrame, HasFrame, SizeEnd
<1>3. n \in 1 .. 3 /\ InSize(s, r, n)
  BY <1>1, <1>2, SizeBytesType
<1>4. m = SizeOf(s, r, n)
  BY DEF SizeAt
<1>5. PacketAt(s, r) = [i \in 1 .. m |-> s[r + n + i]]
  BY <1>1, <1>2, FrameType DEF SizeEnd
<1>6. end = r + n + m /\ packet = PacketAt(s, r) /\ Dispatches(packet)
  BY <1>1, <1>2, FrameBreaks DEF IsFrame, SizeEnd
<1> HIDE DEF n, m
<1>7. InSize(t, r, n) /\ SizeOf(t, r, n) = m /\ t[r + n] = s[r + n]
  <2>1. n \in 1 .. n
    BY <1>3
  <2>2. QED  BY <1>3, <1>4, <2>1, InSizeStays
<1>8. SizeBytes(t, r) = n
  BY <1>1, <1>2, <1>7, SizeStops
<1>9. SizeEnd(t, r) = r + n /\ SizeAt(t, r) = m
  BY <1>7, <1>8 DEF SizeEnd, SizeAt
<1>10. HasFrame(t, r)
  <2>1. r < Len(t) /\ r + n + m <= Len(t)
    BY <1>1, <1>2, <1>3, Bounds
  <2>2. QED  BY <1>2, <1>7, <1>9, <2>1 DEF HasFrame
<1>11. PacketAt(t, r) = PacketAt(s, r)
  <2>1. PacketAt(t, r) = [i \in 1 .. m |-> t[r + n + i]]
    BY <1>1, <1>9, <1>10, FrameType
  <2>2. \A i \in 1 .. m : r + n + i \in 1 .. Len(s)
    BY <1>1, <1>2, <1>3, Bounds
  <2>3. \A i \in 1 .. m : t[r + n + i] = s[r + n + i]
    BY <2>2 DEF Extends
  <2>4. QED  BY <1>5, <2>1, <2>3
<1>12. ~Breaks(t, r)
  BY <1>1, <1>6, <1>10, <1>11, FrameBreaks
<1>13. QED  BY <1>6, <1>9, <1>10, <1>11, <1>12 DEF IsFrame

-----------------------------------------------------------------------------
(* What Parse gives, when the stream is known to be cut into packets.      *)

\* The stream s starts with these packets, which end where cut says.
Cuts(s, packets, cut) ==
    /\ cut \in [0 .. Len(packets) -> 0 .. Len(s)] /\ cut[0] = 0
    /\ \A i \in 1 .. Len(packets) : IsFrame(s, cut[i - 1], cut[i], packets[i])

LEMMA CutsStay ==
    ASSUME NEW s, NEW t, Extends(t, s), NEW packets \in Seq(Seq(Byte)), NEW cut, Cuts(s, packets, cut)
    PROVE  Cuts(t, packets, cut)
<1>1. Len(s) \in Nat /\ Len(t) \in Nat /\ Len(s) <= Len(t) /\ Len(packets) \in Nat
  BY LenProperties DEF Extends
<1>2. cut \in [0 .. Len(packets) -> 0 .. Len(t)]
  <2>1. 0 .. Len(s) \subseteq 0 .. Len(t)
    BY <1>1
  <2>2. QED  BY <2>1 DEF Cuts
<1>3. ASSUME NEW i \in 1 .. Len(packets) PROVE IsFrame(t, cut[i - 1], cut[i], packets[i])
  <2>1. i - 1 \in 0 .. Len(packets)
    BY <1>1
  <2>2. cut[i - 1] \in Nat
    <3>1. cut[i - 1] \in 0 .. Len(s)
      BY <2>1 DEF Cuts
    <3>2. QED  BY <1>1, <3>1
  <2>3. IsFrame(s, cut[i - 1], cut[i], packets[i])
    BY DEF Cuts
  <2>4. QED  BY <2>2, <2>3, FrameStays
<1>4. QED  BY <1>2, <1>3 DEF Cuts

\* No more packets than bytes.
LEMMA FewCuts ==
    ASSUME NEW s \in Seq(Byte), NEW packets \in Seq(Seq(Byte)), NEW cut, Cuts(s, packets, cut)
    PROVE  Len(packets) <= Len(s)
<1>1. Len(s) \in Nat /\ Len(packets) \in Nat
  BY LenProperties
<1> DEFINE S == {k \in Nat : k <= Len(packets) => cut[k] >= k}
<1>2. 0 \in S
  BY DEF Cuts
<1>3. ASSUME NEW k \in Nat, k \in S PROVE k + 1 \in S
  <2>1. SUFFICES ASSUME k + 1 <= Len(packets) PROVE cut[k + 1] >= k + 1
    OBVIOUS
  <2>2. k + 1 \in 1 .. Len(packets) /\ (k + 1) - 1 = k /\ k \in 0 .. Len(packets) /\ k <= Len(packets)
    BY <1>1, <2>1
  <2>3. IsFrame(s, cut[k], cut[k + 1], packets[k + 1])
    BY <2>2 DEF Cuts
  <2>4. cut[k] \in Nat /\ cut[k] >= k
    <3>1. cut[k] \in 0 .. Len(s)
      BY <2>2 DEF Cuts
    <3>2. QED  BY <1>1, <1>3, <2>2, <3>1
  <2>5. cut[k + 1] \in cut[k] + 2 .. Len(s)
    BY <2>3, <2>4, FrameType DEF IsFrame
  <2>6. QED  BY <1>1, <2>4, <2>5
<1> HIDE DEF S
<1>4. Nat \subseteq S
  BY <1>2, <1>3, Induction
<1>5. cut[Len(packets)] >= Len(packets)
  BY <1>1, <1>4 DEF S
<1>6. cut[Len(packets)] \in 0 .. Len(s)
  <2>1. Len(packets) \in 0 .. Len(packets)
    BY <1>1
  <2>2. QED  BY <2>1 DEF Cuts
<1>7. QED  BY <1>1, <1>5, <1>6

\* One frame more.
LEMMA FirstCuts ==
    ASSUME NEW packets \in Seq(Seq(Byte)), NEW k \in Nat, k + 1 <= Len(packets)
    PROVE  Append(SubSeq(packets, 1, k), packets[k + 1]) = SubSeq(packets, 1, k + 1)
<1> DEFINE before == SubSeq(packets, 0 + 1, 0 + k)
           all    == SubSeq(packets, 0 + 1, 0 + (k + 1))
<1>1. Len(packets) \in Nat /\ 0 + k <= Len(packets) /\ 0 + (k + 1) <= Len(packets) /\ k + 1 \in Nat
  BY LenProperties
<1>2. /\ before \in Seq(Seq(Byte)) /\ Len(before) = k
      /\ before = [i \in 1 .. k |-> packets[0 + i]]
  BY <1>1, PartOfSeq
<1>3. /\ all \in Seq(Seq(Byte)) /\ Len(all) = k + 1
      /\ all = [i \in 1 .. k + 1 |-> packets[0 + i]]
  BY <1>1, PartOfSeq
<1> HIDE DEF before, all
<1>4. packets[k + 1] \in Seq(Byte)
  <2>1. k + 1 \in 1 .. Len(packets)
    BY <1>1
  <2>2. QED  BY <2>1, ElementOfSeq
<1> DEFINE more == Append(before, packets[k + 1])
<1>5. /\ more \in Seq(Seq(Byte)) /\ Len(more) = k + 1
      /\ \A i \in 1 .. k : more[i] = before[i]
      /\ more[k + 1] = packets[k + 1]
  BY <1>2, <1>4, AppendProperties
<1> HIDE DEF more
<1>6. \A i \in 1 .. k + 1 : more[i] = all[i]
  <2>1. ASSUME NEW i \in 1 .. k + 1 PROVE more[i] = all[i]
    <3>1. i \in Nat /\ 0 + i = i
      OBVIOUS
    <3>2. all[i] = packets[i]
      BY <1>3, <3>1
    <3>3. CASE i = k + 1
      BY <1>5, <3>2, <3>3
    <3>4. CASE i # k + 1
      <4>1. i \in 1 .. k
        BY <3>4
      <4>2. QED  BY <1>2, <1>5, <3>1, <3>2, <4>1
    <3>5. QED  BY <3>3, <3>4
  <2>2. QED  BY <2>1
<1>7. more = all
  BY <1>3, <1>5, <1>6, SeqEqual
<1>8. 0 + 1 = 1 /\ 0 + k = k /\ 0 + (k + 1) = k + 1
  OBVIOUS
<1>9. QED  BY <1>7, <1>8 DEF more, before, all

LEMMA ParseIs ==
    ASSUME NEW s \in Seq(Byte), NEW packets \in Seq(Seq(Byte)), NEW cut, Cuts(s, packets, cut),
           ~(HasFrame(s, cut[Len(packets)]) /\ ~Breaks(s, cut[Len(packets)]))
    PROVE  Parse(s) = [packets |-> packets, refused |-> Breaks(s, cut[Len(packets)])]
<1> DEFINE n == Len(packets)
           Goes(r) == HasFrame(s, r) /\ ~Breaks(s, r)
           Step(before) ==
              IF Goes(before.at)
                THEN [at      |-> SizeEnd(s, before.at) + SizeAt(s, before.at),
                      packets |-> Append(before.packets, PacketAt(s, before.at))]
                ELSE before
           First == [at |-> 0, packets |-> <<>>]
           g == [k \in Nat |-> IF k <= n THEN [at |-> cut[k], packets |-> SubSeq(packets, 1, k)]
                               ELSE [at |-> cut[n], packets |-> packets]]
           IsRead(f) == f = [k \in Nat |-> IF k = 0 THEN First ELSE Step(f[k - 1])]
           read == CHOOSE f : IsRead(f)
<1>1. n \in Nat /\ Len(s) \in Nat /\ n <= Len(s) /\ SubSeq(packets, 1, n) = packets /\ SubSeq(packets, 1, 0) = <<>>
  BY LenProperties, FewCuts, SubSeqFull, SubSeqEmpty
<1>2. cut[0] = 0 /\ \A k \in 1 .. n : IsFrame(s, cut[k - 1], cut[k], packets[k])
  BY DEF Cuts
<1>3. ~Goes(cut[n])
  OBVIOUS
<1>0. /\ n = Len(packets)
      /\ Parse(s) = [packets |-> packets, refused |-> Breaks(s, cut[n])]
           => Parse(s) = [packets |-> packets, refused |-> Breaks(s, cut[Len(packets)])]
  OBVIOUS
<1> HIDE DEF n
<1>4. \A k \in Nat : k + 1 <= n =>
          /\ Goes(cut[k]) /\ cut[k + 1] = SizeEnd(s, cut[k]) + SizeAt(s, cut[k])
          /\ packets[k + 1] = PacketAt(s, cut[k])
  <2>1. SUFFICES ASSUME NEW k \in Nat, k + 1 <= n
                 PROVE  /\ Goes(cut[k]) /\ cut[k + 1] = SizeEnd(s, cut[k]) + SizeAt(s, cut[k])
                        /\ packets[k + 1] = PacketAt(s, cut[k])
    OBVIOUS
  <2>2. k + 1 \in 1 .. n /\ (k + 1) - 1 = k
    BY <1>1, <2>1
  <2>3. IsFrame(s, cut[k], cut[k + 1], packets[k + 1])
    BY <1>2, <2>2
  <2>4. QED  BY <2>3 DEF IsFrame
<1>5. g[0] = First
  BY <1>1, <1>2
<1>6. ASSUME NEW k \in Nat PROVE g[k + 1] = Step(g[k])
  <2>1. CASE k + 1 <= n
    <3>1. k <= n
      BY <1>1, <2>1
    <3>2. g[k] = [at |-> cut[k], packets |-> SubSeq(packets, 1, k)]
      BY <3>1
    <3>3. g[k + 1] = [at |-> cut[k + 1], packets |-> SubSeq(packets, 1, k + 1)]
      BY <2>1
    <3>4. Append(SubSeq(packets, 1, k), packets[k + 1]) = SubSeq(packets, 1, k + 1)
      BY <2>1, FirstCuts
    <3> HIDE DEF g, Goes
    <3>5. g[k].at = cut[k] /\ g[k].packets = SubSeq(packets, 1, k)
      BY <3>2
    <3>6. Goes(g[k].at) /\ cut[k + 1] = SizeEnd(s, g[k].at) + SizeAt(s, g[k].at)
      BY <1>4, <2>1, <3>5
    <3>7. Append(g[k].packets, PacketAt(s, g[k].at)) = SubSeq(packets, 1, k + 1)
      BY <1>4, <2>1, <3>4, <3>5
    <3>8. QED  BY <3>3, <3>6, <3>7
  <2>2. CASE ~(k + 1 <= n)
    <3>1. g[k] = [at |-> cut[n], packets |-> packets]
      <4>1. CASE k = n
        <5>1. k <= n
          BY <1>1, <4>1
        <5>2. QED  BY <1>1, <4>1, <5>1
      <4>2. CASE k # n
        <5>1. ~(k <= n)
          BY <1>1, <2>2, <4>2
        <5>2. QED  BY <5>1
      <4>3. QED  BY <4>1, <4>2
    <3>2. g[k + 1] = [at |-> cut[n], packets |-> packets]
      BY <2>2
    <3> HIDE DEF g, Goes
    <3>3. QED  BY <1>3, <3>1, <3>2
  <2>3. QED  BY <2>1, <2>2
<1>7. DOMAIN g = Nat /\ g = [k \in Nat |-> g[k]]
  OBVIOUS
<1>8. g[n] = [at |-> cut[n], packets |-> packets] /\ g[Len(s)] = g[n]
  <2>1. g[n] = [at |-> cut[n], packets |-> packets]
    <3>1. n <= n
      BY <1>1
    <3>2. QED  BY <1>1, <3>1
  <2>2. CASE Len(s) = n
    <3> HIDE DEF g
    <3>1. QED  BY <2>1, <2>2
  <2>3. CASE Len(s) # n
    <3>1. ~(Len(s) <= n)
      BY <1>1, <2>3
    <3>2. QED  BY <1>1, <2>1, <3>1
  <2>4. QED  BY <2>1, <2>2, <2>3
<1> HIDE DEF g, Step, First
<1>9. IsRead(g)
  <2>1. \A k \in Nat : g[k] = IF k = 0 THEN First ELSE Step(g[k - 1])
    <3>1. ASSUME NEW k \in Nat, k # 0 PROVE g[k] = Step(g[k - 1])
      <4>1. k - 1 \in Nat /\ (k - 1) + 1 = k
        BY <3>1
      <4>2. g[(k - 1) + 1] = Step(g[k - 1])
        BY <1>6, <4>1
      <4>3. QED  BY <4>1, <4>2
    <3>2. QED  BY <1>5, <3>1
  <2>2. QED  BY <1>7, <2>1
<1> HIDE DEF IsRead
<1>10. IsRead(read)
  BY <1>9
<1>11. read[0] = First /\ \A k \in Nat : read[k + 1] = Step(read[k])
  <2>1. \A k \in Nat : read[k] = IF k = 0 THEN First ELSE Step(read[k - 1])
    <3> HIDE DEF read
    <3>1. QED  BY <1>10 DEF IsRead
  <2>2. \A k \in Nat : k + 1 \in Nat /\ k + 1 # 0 /\ (k + 1) - 1 = k
    OBVIOUS
  <2> HIDE DEF read
  <2>3. QED  BY <2>1, <2>2
<1>12. \A k \in Nat : read[k] = g[k]
  <2> HIDE DEF read
  <2> DEFINE S == {k \in Nat : read[k] = g[k]}
  <2>1. 0 \in S
    BY <1>5, <1>11
  <2>2. ASSUME NEW k \in Nat, k \in S PROVE k + 1 \in S
    BY <1>6, <1>11, <2>2
  <2> HIDE DEF S
  <2>3. Nat \subseteq S
    BY <2>1, <2>2, Induction
  <2>4. QED  BY <2>3 DEF S
<1>13. Parse(s) = [packets |-> read[Len(s)].packets, refused |-> Breaks(s, read[Len(s)].at)]
  BY DEF Parse, read, IsRead, Step, First
<1>14. read[Len(s)] = [at |-> cut[n], packets |-> packets]
  BY <1>1, <1>8, <1>12
<1> HIDE DEF read
<1>15. QED  BY <1>0, <1>13, <1>14

-----------------------------------------------------------------------------
(* What the bytes behind a frame mean.                                     *)

LEMMA TooLargeBreaks ==
    ASSUME NEW s \in Seq(Byte), NEW r \in Nat, NEW n, InSize(s, r, n), SizeOf(s, r, n) > BufferSize
    PROVE  Breaks(s, r)
<1>1. n \in 1 .. 3 /\ r + n <= Len(s) /\ Len(s) \in Nat /\ BufferSize \in Nat
  BY LenProperties, Bounds DEF InSize
<1>2. SizeOf(s, r, n) <= SizeAt(s, r) /\ SizeAt(s, r) \in Nat /\ SizeOf(s, r, n) \in Nat
  BY SizeGrows, SizeOfIs
<1>3. r < Len(s) /\ SizeAt(s, r) > BufferSize
  BY <1>1, <1>2
<1>4. QED  BY <1>3 DEF Breaks

LEMMA ThirdGoesOnBreaks ==
    ASSUME NEW s \in Seq(Byte), NEW r \in Nat, InSize(s, r, 3), s[r + 3].more
    PROVE  Breaks(s, r)
<1>1. r < Len(s)
  <2>1. r + 3 <= Len(s) /\ Len(s) \in Nat
    BY LenProperties DEF InSize
  <2>2. QED  BY <2>1
<1>2. ~InSize(s, r, 3 + 1)
  BY DEF InSize
<1>3. SizeEnd(s, r) = r + 3
  BY <1>2, SizeBytesIs DEF SizeEnd
<1>4. QED  BY <1>1, <1>3 DEF Breaks

\* The size behind the first r bytes has n bytes, and they are all there.
WholeSize(s, r, n) == InSize(s, r, n) /\ ~s[r + n].more

LEMMA WholeSizeIs ==
    ASSUME NEW s \in Seq(Byte), NEW r \in Nat, NEW n, WholeSize(s, r, n)
    PROVE  /\ n \in 1 .. 3 /\ r < Len(s) /\ r + n <= Len(s)
           /\ SizeEnd(s, r) = r + n /\ SizeAt(s, r) = SizeOf(s, r, n)
           /\ ~s[SizeEnd(s, r)].more
           /\ SizeOf(s, r, n) \in Nat
           /\ PacketAt(s, r) = SubSeq(s, r + n + 1, r + n + SizeOf(s, r, n))
<1>1. InSize(s, r, n) /\ ~s[r + n].more
  BY DEF WholeSize
<1>2. n \in 1 .. 3 /\ r < Len(s) /\ r + n <= Len(s)
  <2>1. n \in 1 .. 3 /\ r + n <= Len(s) /\ Len(s) \in Nat
    BY <1>1, LenProperties DEF InSize
  <2>2. QED  BY <2>1
<1>3. SizeBytes(s, r) = n
  BY <1>1, SizeStops
<1>4. SizeOf(s, r, n) \in Nat
  BY <1>1, SizeOfIs
<1>5. QED  BY <1>1, <1>2, <1>3, <1>4 DEF SizeEnd, SizeAt, PacketAt

LEMMA EmptyBreaks ==
    ASSUME NEW s \in Seq(Byte), NEW r \in Nat, NEW n, WholeSize(s, r, n),
           SizeOf(s, r, n) = 0, r + n < Len(s)
    PROVE  Breaks(s, r)
  BY WholeSizeIs DEF Breaks

LEMMA WholeFrame ==
    ASSUME NEW s \in Seq(Byte), NEW r \in Nat, NEW n, WholeSize(s, r, n),
           SizeOf(s, r, n) \in 1 .. BufferSize, r + n + SizeOf(s, r, n) <= Len(s),
           NEW p, p = SubSeq(s, r + n + 1, r + n + SizeOf(s, r, n))
    PROVE  /\ Dispatches(p) => IsFrame(s, r, r + n + SizeOf(s, r, n), p)
           /\ ~Dispatches(p) => Breaks(s, r)
<1>1. HasFrame(s, r)
  BY WholeSizeIs DEF HasFrame
<1>2. p = PacketAt(s, r) /\ SizeEnd(s, r) = r + n /\ SizeAt(s, r) = SizeOf(s, r, n)
  BY WholeSizeIs
<1>3. Breaks(s, r) <=> ~Dispatches(p)
  BY <1>1, <1>2, FrameBreaks
<1>4. QED  BY <1>1, <1>2, <1>3 DEF IsFrame

\* Nothing more, a size that goes on, or a packet that does.
LEMMA WaitsAtEnd ==
    ASSUME NEW s \in Seq(Byte)
    PROVE  ~HasFrame(s, Len(s)) /\ ~Breaks(s, Len(s))
  BY LenProperties DEF HasFrame, Breaks

LEMMA WaitsForSize ==
    ASSUME NEW s \in Seq(Byte), NEW r \in Nat, NEW n, InSize(s, r, n),
           n # 3, r + n = Len(s), s[r + n].more, SizeOf(s, r, n) <= BufferSize
    PROVE  ~HasFrame(s, r) /\ ~Breaks(s, r)
<1>1. SizeBytes(s, r) = n
  BY SizeBreaksOff
<1>2. SizeEnd(s, r) = r + n /\ SizeAt(s, r) = SizeOf(s, r, n)
  BY <1>1 DEF SizeEnd, SizeAt
<1>3. SizeOf(s, r, n) \in Nat /\ n \in 1 .. 3 /\ BufferSize \in Nat
  BY SizeOfIs, Bounds DEF InSize
<1>4. ~(SizeAt(s, r) > BufferSize) /\ SizeEnd(s, r) # r + 3 /\ s[SizeEnd(s, r)].more
  BY <1>2, <1>3
<1>5. ~HasFrame(s, r)
  BY <1>4 DEF HasFrame
<1>6. QED  BY <1>4, <1>5 DEF Breaks

LEMMA WaitsForPacket ==
    ASSUME NEW s \in Seq(Byte), NEW r \in Nat, NEW n, WholeSize(s, r, n),
           SizeOf(s, r, n) <= BufferSize,
           \/ r + n = Len(s)
           \/ SizeOf(s, r, n) >= 1 /\ Len(s) < r + n + SizeOf(s, r, n)
    PROVE  ~HasFrame(s, r) /\ ~Breaks(s, r)
<1> DEFINE size == SizeOf(s, r, n)
<1>1. /\ n \in 1 .. 3 /\ r + n <= Len(s) /\ SizeEnd(s, r) = r + n /\ SizeAt(s, r) = size
      /\ ~s[SizeEnd(s, r)].more /\ size \in Nat /\ Len(s) \in Nat /\ BufferSize \in Nat
  BY WholeSizeIs, LenProperties, Bounds
<1>2. size <= BufferSize /\ (r + n = Len(s) \/ (size >= 1 /\ Len(s) < r + n + size))
  OBVIOUS
<1> HIDE DEF size
<1>3. /\ ~(size > BufferSize)
      /\ ~(size = 0 /\ r + n < Len(s))
      /\ ~(size \in 1 .. BufferSize /\ r + n + size <= Len(s))
  BY <1>1, <1>2
<1>4. ~HasFrame(s, r)
  BY <1>1, <1>3 DEF HasFrame
<1>5. ~(SizeEnd(s, r) = r + 3 /\ s[r + 3].more)
  BY <1>1
<1>6. QED  BY <1>1, <1>3, <1>4, <1>5 DEF Breaks

-----------------------------------------------------------------------------
(* connection_on_recv is always somewhere in the frame behind the packets  *)
(* that it has passed on.                                                  *)

\* It has read n bytes of the size that starts behind the first r bytes.
SizeRead(r, n) ==
    /\ n \in 0 .. 3 /\ r + n = Len(sent) - length
    /\ n > 0 => /\ InSize(sent, r, n)
                /\ packet_size = SizeOf(sent, r, n) /\ packet_size <= BufferSize
                /\ sent[r + n].more <=> recv_state # "PACKET"
    /\ recv_state = "SIZE_1" <=> n = 0
    /\ recv_state = "SIZE_2" => n = 1
    /\ recv_state = "SIZE_3" => n = 2

\* It waits only for what is not there, and refuses only what breaks the
\* protocol.
FrameRead(r) ==
    /\ \E n \in 0 .. 3 : SizeRead(r, n)
    /\ pc = "refused" => Breaks(sent, r)
    /\ pc = "recv" => ~HasFrame(sent, r) /\ ~Breaks(sent, r)

FramesRead(cut) == Cuts(sent, out, cut) /\ FrameRead(cut[Len(out)])

FramesRight == \E cut : FramesRead(cut)

LEMMA CutType ==
    ASSUME IInv, NEW cut, Cuts(sent, out, cut)
    PROVE  /\ cut[Len(out)] \in Nat /\ cut[Len(out)] <= Len(sent)
           /\ Len(out) \in Nat /\ Len(sent) \in Nat /\ length \in Nat /\ length <= Len(sent)
           /\ sent \in Seq(Byte) /\ out \in Seq(Seq(Byte)) /\ packet_size \in Nat
<1>1. /\ Len(out) \in Nat /\ Len(sent) \in Nat /\ length \in Nat /\ length <= Len(sent)
      /\ sent \in Seq(Byte) /\ out \in Seq(Seq(Byte)) /\ packet_size \in Nat
  BY LenProperties DEF IInv, TypeOK, BufferHoldsTail
<1>2. cut[Len(out)] \in 0 .. Len(sent)
  <2>1. Len(out) \in 0 .. Len(out)
    BY <1>1
  <2>2. QED  BY <2>1 DEF Cuts
<1>3. QED  BY <1>1, <1>2

LEMMA InitFrames == Init => FramesRight
<1> SUFFICES ASSUME Init PROVE FramesRight
  OBVIOUS
<1> DEFINE cut == [i \in 0 .. 0 |-> 0]
<1>1. sent = <<>> /\ out = <<>> /\ Len(sent) = 0 /\ Len(out) = 0 /\ sent \in Seq(Byte) /\ length = 0
  BY EmptySeq DEF Init
<1>2. Cuts(sent, out, cut)
  <2>1. cut \in [0 .. 0 -> 0 .. 0] /\ cut[0] = 0 /\ 1 .. 0 = {}
    OBVIOUS
  <2> HIDE DEF cut
  <2>2. QED  BY <1>1, <2>1 DEF Cuts
<1>3. cut[Len(out)] = Len(sent) /\ cut[Len(out)] = 0
  BY <1>1
<1> HIDE DEF cut
<1>4. SizeRead(0, 0)
  BY <1>1 DEF SizeRead, Init
<1>5. ~HasFrame(sent, 0) /\ ~Breaks(sent, 0)
  BY <1>1, WaitsAtEnd
<1>6. FrameRead(0)
  BY <1>4, <1>5 DEF FrameRead, Init
<1>7. QED  BY <1>2, <1>3, <1>6 DEF FramesRead, FramesRight

LEMMA RecvFrames ==
    ASSUME IInv, FramesRight, Recv
    PROVE  FramesRight'
<1>1. PICK cut : FramesRead(cut)
  BY DEF FramesRight
<1>0. PICK r : r = cut[Len(out)]
  OBVIOUS
<1>2. /\ r \in Nat /\ Len(sent) \in Nat /\ length \in Nat /\ sent \in Seq(Byte)
      /\ out \in Seq(Seq(Byte)) /\ Cuts(sent, out, cut)
  BY <1>0, <1>1, CutType DEF FramesRead
<1>3. /\ sent' \in Seq(Byte) /\ Len(sent') - length' = Len(sent) - length
      /\ Len(sent') >= Len(sent) /\ SubSeq(sent', 1, Len(sent)) = sent
  BY RecvStep
<1>4. /\ UNCHANGED <<recv_state, packet_size, out>> /\ pc' = "loop"
  BY DEF Recv
<1>5. Extends(sent', sent)
  <2>1. \A i \in 1 .. Len(sent) : sent'[i] = sent[i]
    <3> DEFINE part == SubSeq(sent', 0 + 1, 0 + Len(sent))
    <3>1. 0 + 1 = 1 /\ 0 + Len(sent) = Len(sent) /\ Len(sent') \in Nat
      BY <1>2, <1>3, LenProperties
    <3>2. part = [i \in 1 .. Len(sent) |-> sent'[0 + i]]
      <4>1. 0 + Len(sent) <= Len(sent')
        BY <1>2, <1>3, <3>1
      <4>2. QED  BY <1>2, <1>3, <4>1, PartOfSeq
    <3>3. part = sent
      BY <1>3, <3>1
    <3> HIDE DEF part
    <3>4. \A i \in 1 .. Len(sent) : sent[i] = sent'[0 + i] /\ 0 + i = i
      BY <3>2, <3>3
    <3>5. QED  BY <3>4
  <2>2. QED  BY <1>2, <1>3, <2>1 DEF Extends
<1>6. Cuts(sent', out', cut)
  BY <1>2, <1>4, <1>5, CutsStay
<1>7. PICK n \in 0 .. 3 : SizeRead(r, n)
  BY <1>0, <1>1 DEF FramesRead, FrameRead
<1>8. cut[Len(out')] = r
  BY <1>0, <1>4
<1>9. SizeRead(r, n)'
  <2>1. n > 0 => InSize(sent', r, n) /\ SizeOf(sent', r, n) = SizeOf(sent, r, n) /\ sent'[r + n] = sent[r + n]
    <3>1. SUFFICES ASSUME n > 0
                   PROVE  InSize(sent', r, n) /\ SizeOf(sent', r, n) = SizeOf(sent, r, n) /\ sent'[r + n] = sent[r + n]
      OBVIOUS
    <3>2. InSize(sent, r, n) /\ n \in 1 .. n
      BY <1>7, <3>1 DEF SizeRead
    <3>3. QED  BY <1>2, <1>5, <3>2, InSizeStays
  <2>2. QED  BY <1>3, <1>4, <1>7, <2>1 DEF SizeRead
<1>10. FrameRead(r)'
  BY <1>4, <1>9 DEF FrameRead
<1>11. FramesRead(cut)'
  BY <1>6, <1>8, <1>10 DEF FramesRead
<1>12. QED  BY <1>11 DEF FramesRight

\* Nothing is refused but what breaks the protocol.
LEMMA RefuseFrames ==
    ASSUME NEW cut, FramesRead(cut), Breaks(sent, cut[Len(out)]), Refuse
    PROVE  FramesRight'
<1>0. PICK r : r = cut[Len(out)]
  OBVIOUS
<1>1. UNCHANGED <<length, recv_state, packet_size, sent, out>> /\ pc' = "refused"
  BY DEF Refuse, data
<1>2. Cuts(sent, out, cut) /\ Breaks(sent, r)
  BY <1>0 DEF FramesRead
<1>3. PICK n \in 0 .. 3 : SizeRead(r, n)
  BY <1>0 DEF FramesRead, FrameRead
<1>4. cut[Len(out')] = r
  BY <1>0, <1>1
<1>5. SizeRead(r, n)'
  BY <1>1, <1>3 DEF SizeRead
<1>6. FrameRead(r)'
  BY <1>1, <1>2, <1>5 DEF FrameRead
<1>7. FramesRead(cut)'
  BY <1>1, <1>2, <1>4, <1>6 DEF FramesRead
<1>8. QED  BY <1>7 DEF FramesRight

\* It goes back to the kernel only for what is not there yet.
LEMMA WaitFrames ==
    ASSUME NEW cut, FramesRead(cut), UNCHANGED <<length, recv_state, packet_size, sent, out>>, pc' = "recv",
           ~HasFrame(sent, cut[Len(out)]), ~Breaks(sent, cut[Len(out)])
    PROVE  FramesRight'
<1>1. PICK r : r = cut[Len(out)]
  OBVIOUS
<1>2. Cuts(sent, out, cut) /\ ~HasFrame(sent, r) /\ ~Breaks(sent, r)
  BY <1>1 DEF FramesRead
<1>3. PICK n \in 0 .. 3 : SizeRead(r, n)
  BY <1>1 DEF FramesRead, FrameRead
<1>4. cut[Len(out')] = r
  BY <1>1
<1>5. SizeRead(r, n)'
  BY <1>3 DEF SizeRead
<1>6. FrameRead(r)'
  BY <1>2, <1>5 DEF FrameRead
<1>7. FramesRead(cut)'
  BY <1>2, <1>4, <1>6 DEF FramesRead
<1>8. QED  BY <1>7 DEF FramesRight

\* The n-th byte of a size.
LEMMA ByteFrames ==
    ASSUME IInv, NEW cut, FramesRead(cut), NEW n \in 1 .. 3, NEW further,
           SizeRead(cut[Len(out)], n - 1), InSize(sent, cut[Len(out)], n),
           n = 1 => further = "SIZE_2", n = 2 => further = "SIZE_3", n = 3 => further = "none",
           pc = "loop", length > 0,
           IF SizeOf(sent, cut[Len(out)], n) > BufferSize \/ (b.more /\ further = "none")
           THEN Refuse
           ELSE Decoded(SizeOf(sent, cut[Len(out)], n), IF b.more THEN further ELSE "PACKET")
    PROVE  FramesRight'
<1>0. PICK r : r = cut[Len(out)]
  OBVIOUS
<1> DEFINE total == SizeOf(sent, r, n)
<1>1. /\ r \in Nat /\ Len(sent) \in Nat /\ length \in Nat /\ sent \in Seq(Byte)
      /\ Cuts(sent, out, cut) /\ SizeRead(r, n - 1) /\ InSize(sent, r, n)
      /\ IF total > BufferSize \/ (b.more /\ further = "none")
         THEN Refuse ELSE Decoded(total, IF b.more THEN further ELSE "PACKET")
  BY <1>0, CutType DEF FramesRead
<1>2. r + n = Len(sent) - length + 1
  <2>1. r + (n - 1) = Len(sent) - length
    BY <1>1 DEF SizeRead
  <2>2. QED  BY <1>1, <2>1
<1>3. sent[r + n] = b /\ b.more \in BOOLEAN
  BY <1>2, StreamByte, NextByte DEF b
<1>4. total \in Nat
  BY <1>1, SizeOfIs
<1>5. CASE total > BufferSize \/ (b.more /\ further = "none")
  <2>1. Refuse
    BY <1>1, <1>5
  <2>2. Breaks(sent, r)
    <3>1. CASE total > BufferSize
      BY <1>1, <3>1, TooLargeBreaks
    <3>2. CASE b.more /\ further = "none"
      <4>1. n = 3
        BY <3>2
      <4>2. InSize(sent, r, 3) /\ sent[r + 3].more
        BY <1>1, <1>3, <3>2, <4>1
      <4>3. QED  BY <1>1, <4>2, ThirdGoesOnBreaks
    <3>3. QED  BY <1>5, <3>1, <3>2
  <2>3. QED  BY <1>0, <2>1, <2>2, RefuseFrames
<1>6. CASE ~(total > BufferSize \/ (b.more /\ further = "none"))
  <2>1. /\ packet_size' = total /\ recv_state' = (IF b.more THEN further ELSE "PACKET")
        /\ length' = length - 1 /\ UNCHANGED <<pc, sent, out>>
    BY <1>1, <1>6 DEF Decoded, TakeByte
  <2>2. total <= BufferSize
    BY <1>4, <1>6, Bounds
  <2>3. cut[Len(out')] = r /\ packet_size' = SizeOf(sent, r, n)
    BY <1>0, <2>1
  <2>4. r + n = Len(sent) - (length - 1)
    BY <1>1, <1>2
  <2>5. /\ ~(n > 3) /\ n # 0 /\ n \in 0 .. 3
        /\ n = 1 => further = "SIZE_2"
        /\ n = 2 => further = "SIZE_3"
        /\ b.more => n \in {1, 2}
    BY <1>6
  <2> HIDE DEF total
  <2>6. SizeRead(r, n)'
    <3>1. sent[r + n].more <=> recv_state' # "PACKET"
      BY <1>3, <2>1, <2>5
    <3>2. recv_state' # "SIZE_1" /\ (recv_state' = "SIZE_2" => n = 1) /\ (recv_state' = "SIZE_3" => n = 2)
      BY <2>1, <2>5
    <3>3. packet_size' <= BufferSize
      BY <2>1, <2>2
    <3>4. QED  BY <1>1, <2>1, <2>3, <2>4, <2>5, <3>1, <3>2, <3>3 DEF SizeRead
  <2>7. FrameRead(r)'
    BY <2>1, <2>5, <2>6 DEF FrameRead
  <2>8. FramesRead(cut)'
    BY <1>1, <2>1, <2>3, <2>7 DEF FramesRead
  <2>9. QED  BY <2>8 DEF FramesRight
<1>7. QED  BY <1>5, <1>6

LEMMA SizeFrames ==
    ASSUME IInv, FramesRight, Size1 \/ Size2 \/ Size3
    PROVE  FramesRight'
<1>1. PICK cut : FramesRead(cut)
  BY DEF FramesRight
<1>2. PICK r : r = cut[Len(out)]
  OBVIOUS
<1>3. /\ r \in Nat /\ Len(sent) \in Nat /\ length \in Nat /\ sent \in Seq(Byte)
      /\ length > 0 /\ pc = "loop" /\ packet_size \in Nat
  BY <1>1, <1>2, CutType DEF FramesRead, Size1, Size2, Size3, Loops
<1>4. PICK n \in 0 .. 3 : SizeRead(r, n)
  BY <1>1, <1>2 DEF FramesRead, FrameRead
<1>5. n \in {0, 1, 2} /\ (n > 0 => InSize(sent, r, n) /\ packet_size = SizeOf(sent, r, n) /\ sent[r + n].more)
  BY <1>4 DEF SizeRead, Size1, Size2, Size3, Loops
<1>6. r + n < Len(sent) /\ sent[r + (n + 1)] = b
  <2>1. r + n = Len(sent) - length
    BY <1>4 DEF SizeRead
  <2>2. r + n < Len(sent) /\ r + (n + 1) = Len(sent) - length + 1
    BY <1>3, <1>5, <2>1
  <2>3. QED  BY <1>3, <2>2, StreamByte
<1>7. InSize(sent, r, n + 1)
  <2>1. CASE n = 0
    <3>1. r < Len(sent) /\ n + 1 = 1
      BY <1>3, <1>6, <2>1
    <3>2. QED  BY <1>3, <3>1, InSizeFirst
  <2>2. CASE n # 0
    <3>1. n \in 1 .. 2 /\ n > 0
      BY <1>5, <2>2
    <3>2. QED  BY <1>3, <1>5, <1>6, <3>1, InSizeNext
  <2>3. QED  BY <2>1, <2>2
<1>8. b.seg \in Nat /\ b.seg <= BufferSize /\ Base * b.seg \in Nat /\ Base * Base * b.seg \in Nat
  BY <1>3, NextByte, DigitsAreNat, Bounds DEF b
<1>9. CASE Size1
  <2>1. n = 0 /\ Decoded(b.seg, IF b.more THEN "SIZE_2" ELSE "PACKET")
    BY <1>4, <1>9 DEF SizeRead, Size1, Loops
  <2>2. InSize(sent, r, 1) /\ sent[r + 1] = b /\ SizeRead(r, 1 - 1)
    BY <1>4, <1>6, <1>7, <2>1
  <2>3. SizeOf(sent, r, 1) = b.seg
    BY <1>3, <2>2, SizeOfIs
  <2>4. ~(SizeOf(sent, r, 1) > BufferSize)
    BY <1>8, <2>3, Bounds
  <2>5. IF SizeOf(sent, r, 1) > BufferSize \/ (b.more /\ "SIZE_2" = "none")
        THEN Refuse ELSE Decoded(SizeOf(sent, r, 1), IF b.more THEN "SIZE_2" ELSE "PACKET")
    BY <2>1, <2>3, <2>4
  <2>6. QED  BY <1>1, <1>2, <1>3, <2>2, <2>5, ByteFrames
<1>10. CASE Size2
  <2> DEFINE size == packet_size + Base * b.seg
  <2>1. n = 1 /\ IF size <= BufferSize THEN Decoded(size, IF b.more THEN "SIZE_3" ELSE "PACKET") ELSE Refuse
    BY <1>4, <1>10 DEF SizeRead, Size2, Loops
  <2>2. /\ InSize(sent, r, 2) /\ sent[r + 2] = b /\ SizeRead(r, 2 - 1)
        /\ packet_size = SizeOf(sent, r, 1)
    BY <1>4, <1>5, <1>6, <1>7, <2>1
  <2>3. SizeOf(sent, r, 2) = size
    BY <1>3, <2>2, SizeOfIs
  <2>4. size <= BufferSize <=> ~(size > BufferSize)
    BY <1>3, <1>8, Bounds
  <2>5. IF SizeOf(sent, r, 2) > BufferSize \/ (b.more /\ "SIZE_3" = "none")
        THEN Refuse ELSE Decoded(SizeOf(sent, r, 2), IF b.more THEN "SIZE_3" ELSE "PACKET")
    <3> HIDE DEF size
    <3>1. QED  BY <2>1, <2>3, <2>4
  <2>6. QED  BY <1>1, <1>2, <1>3, <2>2, <2>5, ByteFrames
<1>11. CASE Size3
  <2> DEFINE size == packet_size + Base * Base * b.seg
  <2>1. n = 2 /\ IF size <= BufferSize /\ ~b.more THEN Decoded(size, "PACKET") ELSE Refuse
    BY <1>4, <1>11 DEF SizeRead, Size3, Loops
  <2>2. /\ InSize(sent, r, 3) /\ sent[r + 3] = b /\ SizeRead(r, 3 - 1)
        /\ packet_size = SizeOf(sent, r, 2)
    BY <1>4, <1>5, <1>6, <1>7, <2>1
  <2>3. SizeOf(sent, r, 3) = size
    BY <1>3, <2>2, SizeOfIs
  <2>4. size <= BufferSize <=> ~(size > BufferSize)
    BY <1>3, <1>8, Bounds
  <2>5. IF SizeOf(sent, r, 3) > BufferSize \/ (b.more /\ "none" = "none")
        THEN Refuse ELSE Decoded(SizeOf(sent, r, 3), IF b.more THEN "none" ELSE "PACKET")
    <3> HIDE DEF size
    <3>1. QED  BY <2>1, <2>3, <2>4
  <2>6. QED  BY <1>1, <1>2, <1>3, <2>2, <2>5, ByteFrames
<1>12. QED  BY <1>9, <1>10, <1>11

\* What is known once the size is complete.
LEMMA SizeIsWhole ==
    ASSUME IInv, NEW cut, FramesRead(cut), NEW r, r = cut[Len(out)], recv_state = "PACKET"
    PROVE  \E n \in 1 .. 3 :
             /\ WholeSize(sent, r, n) /\ packet_size = SizeOf(sent, r, n)
             /\ packet_size <= BufferSize /\ r + n = Len(sent) - length
<1>1. PICK n \in 0 .. 3 : SizeRead(r, n)
  BY DEF FramesRead, FrameRead
<1>2. n \in 1 .. 3 /\ n > 0
  BY <1>1 DEF SizeRead
<1>3. QED  BY <1>1, <1>2 DEF SizeRead, WholeSize

LEMMA EmptyFrames ==
    ASSUME IInv, FramesRight, EmptyPacket
    PROVE  FramesRight'
<1>1. PICK cut : FramesRead(cut)
  BY DEF FramesRight
<1>2. PICK r : r = cut[Len(out)]
  OBVIOUS
<1>3. /\ r \in Nat /\ Len(sent) \in Nat /\ length \in Nat /\ sent \in Seq(Byte)
      /\ length > 0 /\ recv_state = "PACKET" /\ packet_size = 0 /\ Refuse
  BY <1>1, <1>2, CutType DEF FramesRead, EmptyPacket, Loops
<1>4. PICK n \in 1 .. 3 : WholeSize(sent, r, n) /\ packet_size = SizeOf(sent, r, n) /\ r + n = Len(sent) - length
  BY <1>1, <1>2, <1>3, SizeIsWhole
<1>5. r + n < Len(sent)
  BY <1>3, <1>4
<1>6. Breaks(sent, r)
  BY <1>3, <1>4, <1>5, EmptyBreaks
<1>7. QED  BY <1>1, <1>2, <1>3, <1>6, RefuseFrames

LEMMA MoreFrames ==
    ASSUME IInv, FramesRight, WaitForMore
    PROVE  FramesRight'
<1>1. PICK cut : FramesRead(cut)
  BY DEF FramesRight
<1>2. PICK r : r = cut[Len(out)]
  OBVIOUS
<1>3. /\ r \in Nat /\ Len(sent) \in Nat /\ length \in Nat /\ sent \in Seq(Byte) /\ packet_size \in Nat
      /\ recv_state = "PACKET" /\ packet_size >= 1 /\ length < packet_size
      /\ UNCHANGED <<length, recv_state, packet_size, sent, out>> /\ pc' = "recv"
  BY <1>1, <1>2, CutType DEF FramesRead, WaitForMore, Loops
<1>4. PICK n \in 1 .. 3 : /\ WholeSize(sent, r, n) /\ packet_size = SizeOf(sent, r, n)
                          /\ packet_size <= BufferSize /\ r + n = Len(sent) - length
  BY <1>1, <1>2, <1>3, SizeIsWhole
<1>5. Len(sent) < r + n + packet_size
  BY <1>3, <1>4
<1>6. ~HasFrame(sent, r) /\ ~Breaks(sent, r)
  BY <1>3, <1>4, <1>5, WaitsForPacket
<1>7. QED  BY <1>1, <1>2, <1>3, <1>6, WaitFrames

LEMMA OutOfDataFrames ==
    ASSUME IInv, FramesRight, OutOfData
    PROVE  FramesRight'
<1>1. PICK cut : FramesRead(cut)
  BY DEF FramesRight
<1>2. PICK r : r = cut[Len(out)]
  OBVIOUS
<1>3. /\ r \in Nat /\ Len(sent) \in Nat /\ length = 0 /\ sent \in Seq(Byte) /\ packet_size \in Nat
      /\ UNCHANGED <<length, recv_state, packet_size, sent, out>> /\ pc' = "recv"
  BY <1>1, <1>2, CutType DEF FramesRead, OutOfData
<1>4. PICK n \in 0 .. 3 : SizeRead(r, n)
  BY <1>1, <1>2 DEF FramesRead, FrameRead
<1>5. r + n = Len(sent)
  <2>1. r + n = Len(sent) - length
    BY <1>4 DEF SizeRead
  <2>2. QED  BY <1>3, <2>1
<1>6. ~HasFrame(sent, r) /\ ~Breaks(sent, r)
  <2>1. CASE n = 0
    <3>1. r = Len(sent)
      BY <1>3, <1>5, <2>1
    <3>2. QED  BY <1>3, <3>1, WaitsAtEnd
  <2>2. CASE n # 0 /\ recv_state = "PACKET"
    <3>1. PICK m \in 1 .. 3 : /\ WholeSize(sent, r, m) /\ packet_size = SizeOf(sent, r, m)
                              /\ packet_size <= BufferSize /\ r + m = Len(sent) - length
      BY <1>1, <1>2, <2>2, SizeIsWhole
    <3>2. r + m = Len(sent)
      BY <1>3, <3>1
    <3>3. QED  BY <1>3, <3>1, <3>2, WaitsForPacket
  <2>3. CASE n # 0 /\ recv_state # "PACKET"
    <3>1. n > 0 /\ recv_state \in {"SIZE_2", "SIZE_3"}
      <4>1. recv_state \in {"SIZE_1", "SIZE_2", "SIZE_3", "PACKET"}
        BY DEF IInv, TypeOK
      <4>2. QED  BY <1>4, <2>3, <4>1 DEF SizeRead
    <3>2. InSize(sent, r, n) /\ SizeOf(sent, r, n) <= BufferSize /\ sent[r + n].more /\ n # 3
      BY <1>4, <2>3, <3>1 DEF SizeRead
    <3>3. QED  BY <1>3, <1>5, <3>2, WaitsForSize
  <2>4. QED  BY <2>1, <2>2, <2>3
<1>7. QED  BY <1>1, <1>2, <1>3, <1>6, WaitFrames

LEMMA DeliverFrames ==
    ASSUME IInv, FramesRight, Deliver
    PROVE  FramesRight'
<1>1. PICK cut : FramesRead(cut)
  BY DEF FramesRight
<1>2. PICK r : r = cut[Len(out)]
  OBVIOUS
<1>3. /\ r \in Nat /\ Len(sent) \in Nat /\ length \in Nat /\ sent \in Seq(Byte)
      /\ packet_size \in Nat /\ packet_size >= 1 /\ packet_size <= length /\ length <= Len(sent)
      /\ recv_state = "PACKET" /\ pc = "loop" /\ out \in Seq(Seq(Byte)) /\ Len(out) \in Nat
      /\ Cuts(sent, out, cut)
  BY <1>1, <1>2, CutType DEF FramesRead, Deliver, Loops
<1>4. PICK n \in 1 .. 3 : /\ WholeSize(sent, r, n) /\ packet_size = SizeOf(sent, r, n)
                          /\ packet_size <= BufferSize /\ r + n = Len(sent) - length
  BY <1>1, <1>2, <1>3, SizeIsWhole
<1>5. PICK packet : packet = Packet
  OBVIOUS
<1>6. /\ packet = SubSeq(sent, r + n + 1, r + n + packet_size) /\ packet \in Seq(Byte)
  BY <1>3, <1>4, <1>5, PacketIsNext
<1>7. packet_size \in 1 .. BufferSize /\ r + n + packet_size <= Len(sent)
  BY <1>3, <1>4, Bounds
<1>8. PICK end : end = r + n + packet_size
  OBVIOUS
<1>9. /\ Dispatches(packet) => IsFrame(sent, r, end, packet)
      /\ ~Dispatches(packet) => Breaks(sent, r)
  BY <1>3, <1>4, <1>6, <1>7, <1>8, WholeFrame
<1>10. CASE ~Dispatches(packet)
  <2>1. Refuse
    BY <1>5, <1>10 DEF Deliver
  <2>2. QED  BY <1>1, <1>2, <1>9, <1>10, <2>1, RefuseFrames
<1>11. CASE Dispatches(packet)
  <2>1. /\ out' = Append(out, packet) /\ length' = length - packet_size
        /\ recv_state' = "SIZE_1" /\ UNCHANGED <<packet_size, pc, sent>>
    BY <1>5, <1>11 DEF Deliver
  <2>2. /\ Len(out') = Len(out) + 1 /\ (\A i \in 1 .. Len(out) : out'[i] = out[i])
        /\ out'[Len(out) + 1] = packet
    BY <1>3, <1>6, <2>1, AppendProperties
  <2>3. PICK k : k = Len(out)
    OBVIOUS
  <2> DEFINE more == [i \in 0 .. k + 1 |-> IF i <= k THEN cut[i] ELSE end]
  <2>4. /\ cut \in [0 .. k -> 0 .. Len(sent)] /\ cut[0] = 0 /\ k \in Nat
        /\ \A i \in 1 .. k : IsFrame(sent, cut[i - 1], cut[i], out[i])
    BY <1>3, <2>3 DEF Cuts
  <2>5. end \in 0 .. Len(sent)
    BY <1>3, <1>7, <1>8
  <2>6. more \in [0 .. k + 1 -> 0 .. Len(sent)] /\ more[0] = 0 /\ more[k + 1] = end /\ more[k] = r
    <3>1. \A i \in 0 .. k + 1 : (i <= k => i \in 0 .. k) /\ (i = k + 1 => ~(i <= k))
      BY <2>4
    <3>2. 0 \in 0 .. k + 1 /\ 0 <= k /\ k + 1 \in 0 .. k + 1 /\ k \in 0 .. k + 1 /\ k <= k
      BY <2>4
    <3>3. more \in [0 .. k + 1 -> 0 .. Len(sent)]
      BY <2>4, <2>5, <3>1
    <3>4. more[0] = 0 /\ more[k] = r
      BY <1>2, <2>3, <2>4, <3>2
    <3>5. more[k + 1] = end
      BY <3>1, <3>2
    <3>6. QED  BY <3>3, <3>4, <3>5
  <2>7. ASSUME NEW i \in 1 .. k + 1 PROVE IsFrame(sent, more[i - 1], more[i], out'[i])
    <3>1. CASE i = k + 1
      <4>1. i - 1 = k
        BY <2>4, <3>1
      <4> HIDE DEF more
      <4>2. QED  BY <1>9, <1>11, <2>2, <2>3, <2>6, <3>1, <4>1
    <3>2. CASE i # k + 1
      <4>1. i \in 1 .. k /\ i \in 0 .. k + 1 /\ i <= k /\ i - 1 \in 0 .. k + 1 /\ i - 1 <= k
        BY <2>4, <3>2
      <4>2. more[i] = cut[i] /\ more[i - 1] = cut[i - 1]
        BY <4>1
      <4>3. out'[i] = out[i]
        BY <2>2, <2>3, <4>1
      <4> HIDE DEF more
      <4>4. QED  BY <2>4, <4>1, <4>2, <4>3
    <3>3. QED  BY <3>1, <3>2
  <2> HIDE DEF more
  <2>8. Len(out') = k + 1
    BY <2>2, <2>3
  <2>9. Cuts(sent', out', more)
    BY <2>1, <2>6, <2>7, <2>8 DEF Cuts
  <2>10. PICK later : later = more
    OBVIOUS
  <2>11. SizeRead(end, 0)'
    <3>1. end + 0 = Len(sent) - (length - packet_size)
      <4>1. n \in Nat /\ r + n = Len(sent) - length /\ end = r + n + packet_size
        BY <1>4, <1>8
      <4>2. r \in Nat /\ Len(sent) \in Nat /\ length \in Nat /\ packet_size \in Nat
        BY <1>3
      <4>3. QED  BY <4>1, <4>2
    <3>2. QED  BY <2>1, <3>1 DEF SizeRead
  <2>12. FrameRead(end)'
    BY <1>3, <2>1, <2>11 DEF FrameRead
  <2>13. later[Len(out')] = end /\ Cuts(sent', out', later)
    BY <2>6, <2>8, <2>9, <2>10
  <2>14. FramesRead(later)'
    BY <2>12, <2>13 DEF FramesRead
  <2>15. QED  BY <2>14 DEF FramesRight
<1>12. QED  BY <1>10, <1>11

LEMMA NextFrames == IInv /\ FramesRight /\ [Next]_vars => FramesRight'
<1> SUFFICES ASSUME IInv, FramesRight, [Next]_vars PROVE FramesRight'
  OBVIOUS
<1>1. CASE UNCHANGED vars
  <2>1. PICK cut : FramesRead(cut)
    BY DEF FramesRight
  <2>2. FramesRead(cut)'
    BY <1>1, <2>1 DEF FramesRead, FrameRead, SizeRead, vars, data
  <2>3. QED  BY <2>2 DEF FramesRight
<1>2. QED
  BY <1>1, RecvFrames, SizeFrames, EmptyFrames, MoreFrames, DeliverFrames, OutOfDataFrames DEF Next, OnRecv

\* What it has passed on is what Parse finds in the stream.
LEMMA FramesParse == IInv /\ FramesRight => CutsDoNotMatter
<1> SUFFICES ASSUME IInv, FramesRight, pc # "loop"
             PROVE  out = Parse(sent).packets /\ (pc = "refused" <=> Parse(sent).refused)
  BY DEF CutsDoNotMatter
<1>1. PICK cut : FramesRead(cut)
  BY DEF FramesRight
<1>2. PICK r : r = cut[Len(out)]
  OBVIOUS
<1>3. sent \in Seq(Byte) /\ out \in Seq(Seq(Byte)) /\ Cuts(sent, out, cut)
  BY <1>1, CutType DEF FramesRead
<1>4. /\ pc = "refused" => Breaks(sent, r)
      /\ pc = "recv" => ~HasFrame(sent, r) /\ ~Breaks(sent, r)
      /\ pc \in {"recv", "refused"}
  BY <1>1, <1>2 DEF FramesRead, FrameRead, IInv, TypeOK
<1>5. Parse(sent) = [packets |-> out, refused |-> Breaks(sent, r)]
  <2>1. ~(HasFrame(sent, r) /\ ~Breaks(sent, r))
    BY <1>4
  <2>2. QED  BY <1>2, <1>3, <2>1, ParseIs
<1>6. pc = "refused" <=> Breaks(sent, r)
  BY <1>4
<1>7. QED  BY <1>5, <1>6

\* However recv cuts a stream, between two recvs connection_on_recv has passed
\* on just the packets that the stream contains, and has refused its client
\* just when the stream breaks the protocol.
THEOREM CutsNeverMatter == Spec => []CutsDoNotMatter
<1>1. Init => FramesRight
  BY InitFrames
<1>2. IInv /\ FramesRight /\ [Next]_vars => FramesRight'
  BY NextFrames
<1>3. Spec => []FramesRight
  BY <1>1, <1>2, BufferCorrect, PTL DEF Spec
<1>4. QED  BY <1>3, BufferCorrect, FramesParse, PTL

=============================================================================
