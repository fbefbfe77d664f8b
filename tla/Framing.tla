------------------------------ MODULE Framing ------------------------------
(***************************************************************************)
(* How connection_on_recv (frontend/connection.c) cuts the bytes a client  *)
(* sends into packets: a size of one to three bytes, each a continuation   *)
(* bit and a segment, then that many bytes.  The kernel delivers the bytes *)
(* in pieces of any length, behind what the buffer still holds.            *)
(*                                                                         *)
(* compressed is never set, so the states that decode a data size are not  *)
(* reached and are left out.                                               *)
(***************************************************************************)
EXTENDS Integers, Sequences

CONSTANTS
    Base,       \* values of a segment: 128 (VARINT_SEGMENT_BITS + 1)
    BufferSize, \* PREAUTH_BUFFER_SIZE
    InPlay,     \* connection_t.state is PROTOCOL_STATE_PLAY
    MaxBytes    \* bound: bytes a client sends

ASSUME FramingAssumption ==
    /\ Base \in Nat \ {0}
    /\ BufferSize \in Nat /\ Base <= BufferSize
    /\ InPlay \in BOOLEAN
    /\ MaxBytes \in Nat

VARIABLES
    buffer, offset, length,
    recv_state,
    packet_size,
    pc,    \* "recv": posted, "loop": in connection_on_recv, "refused"
    sent,  \* history: what the client sent so far
    out    \* history: the packets passed on

data == <<buffer, offset, length>>
vars == <<data, recv_state, packet_size, pc, sent, out>>

Byte  == [more : BOOLEAN, seg : 0 .. Base - 1]
Index == 0 .. BufferSize - 1

TypeOK ==
    /\ buffer \in [Index -> Byte]
    /\ offset \in Nat
    /\ length \in Nat
    /\ recv_state \in {"SIZE_1", "SIZE_2", "SIZE_3", "PACKET"}
    /\ packet_size \in Nat
    /\ pc \in {"recv", "loop", "refused"}
    /\ sent \in Seq(Byte)
    /\ out \in Seq(Seq(Byte))

\* create_connection and the first add_recv; malloc leaves the buffer as is.
Init ==
    /\ buffer = [i \in Index |-> [more |-> FALSE, seg |-> 0]]
    /\ offset = 0 /\ length = 0
    /\ recv_state = "SIZE_1"
    /\ packet_size = 0
    /\ pc = "recv"
    /\ sent = <<>>
    /\ out = <<>>

\* add_recv: the kernel writes at buffer + length, at most up to the end.
Recv ==
    /\ pc = "recv"
    /\ \E n \in 1 .. BufferSize - length :
         /\ Len(sent) + n <= MaxBytes
         /\ \E chunk \in [1 .. n -> Byte] :
              /\ buffer' = [i \in Index |->
                              IF i \in length .. length + n - 1
                              THEN chunk[i - length + 1] ELSE buffer[i]]
              /\ sent' = sent \o chunk
         /\ length' = length + n
    /\ pc' = "loop"
    /\ UNCHANGED <<offset, recv_state, packet_size, out>>

Loops(state) == pc = "loop" /\ length > 0 /\ recv_state = state

\* recv_buffer_take_byte
TakeByte ==
    /\ length' = length - 1
    /\ offset' = offset + 1
    /\ UNCHANGED buffer

b == buffer[offset]

\* The size so far and the state after it; anything PCHECK refuses ends the
\* connection.
Decoded(size, state) ==
    /\ TakeByte
    /\ packet_size' = size
    /\ recv_state' = state
    /\ UNCHANGED <<pc, sent, out>>

Refuse ==
    /\ pc' = "refused"
    /\ UNCHANGED <<data, recv_state, packet_size, sent, out>>

\* The first byte is not checked: one segment is never too large.
Size1 ==
    /\ Loops("SIZE_1")
    /\ Decoded(b.seg, IF b.more THEN "SIZE_2" ELSE "PACKET")

\* Mutant: the second byte is not checked.
Size2Unchecked ==
    /\ Loops("SIZE_2")
    /\ Decoded(packet_size + Base * b.seg, IF b.more THEN "SIZE_3" ELSE "PACKET")

Size2 ==
    /\ Loops("SIZE_2")
    /\ LET size == packet_size + Base * b.seg
       IN IF size <= BufferSize
          THEN Decoded(size, IF b.more THEN "SIZE_3" ELSE "PACKET")
          ELSE Refuse

\* Mutant: the continuation bit of the third byte is ignored.
Size3AllowsMore ==
    /\ Loops("SIZE_3")
    /\ LET size == packet_size + Base * Base * b.seg
       IN IF size <= BufferSize THEN Decoded(size, "PACKET") ELSE Refuse

\* The third byte must be the last.
Size3 ==
    /\ Loops("SIZE_3")
    /\ LET size == packet_size + Base * Base * b.seg
       IN IF size <= BufferSize /\ ~b.more
          THEN Decoded(size, "PACKET")
          ELSE Refuse

Packet == [i \in 1 .. packet_size |-> buffer[offset + i - 1]]

\* Before play dispatch_packet wants a packet id of one byte.
Dispatches(p) == InPlay \/ ~p[1].more

\* Mutant: an empty packet waits for more.
EmptyPacketIgnored ==
    /\ Loops("PACKET") /\ packet_size = 0
    /\ recv_state' = "SIZE_1"
    /\ UNCHANGED <<data, packet_size, pc, sent, out>>

EmptyPacket == Loops("PACKET") /\ packet_size = 0 /\ Refuse

\* Mutant: the data is not moved to the start.
WaitForMoreInPlace ==
    /\ Loops("PACKET") /\ packet_size >= 1 /\ length < packet_size
    /\ offset' = 0
    /\ pc' = "recv"
    /\ UNCHANGED <<buffer, length, recv_state, packet_size, sent, out>>

\* Mutant: the data is left where it is, and so is the offset.
WaitForMoreBehind ==
    /\ Loops("PACKET") /\ packet_size >= 1 /\ length < packet_size
    /\ pc' = "recv"
    /\ UNCHANGED <<data, recv_state, packet_size, sent, out>>

\* Mutant: the loop goes on with what is there.
WaitForMoreSpins ==
    /\ Loops("PACKET") /\ packet_size >= 1 /\ length < packet_size
    /\ buffer' = [i \in Index |-> IF i < length THEN buffer[offset + i] ELSE buffer[i]]
    /\ offset' = 0
    /\ UNCHANGED <<length, recv_state, packet_size, pc, sent, out>>

\* The packet is not complete: memmove what is there to the start and wait.
WaitForMore ==
    /\ Loops("PACKET") /\ packet_size >= 1 /\ length < packet_size
    /\ buffer' = [i \in Index |-> IF i < length THEN buffer[offset + i] ELSE buffer[i]]
    /\ offset' = 0
    /\ pc' = "recv"
    /\ UNCHANGED <<length, recv_state, packet_size, sent, out>>

\* The packet goes to the backend or to dispatch_packet.
Deliver ==
    /\ Loops("PACKET") /\ packet_size >= 1 /\ packet_size <= length
    /\ IF Dispatches(Packet)
       THEN /\ out' = Append(out, Packet)
            /\ offset' = offset + packet_size
            /\ length' = length - packet_size
            /\ recv_state' = "SIZE_1"
            /\ UNCHANGED <<buffer, packet_size, pc, sent>>
       ELSE Refuse

\* Out of data: start over at the beginning of the buffer.
OutOfData ==
    /\ pc = "loop" /\ length = 0
    /\ offset' = 0
    /\ pc' = "recv"
    /\ UNCHANGED <<buffer, length, recv_state, packet_size, sent, out>>

OnRecv ==
    Size1 \/ Size2 \/ Size3 \/ EmptyPacket \/ WaitForMore \/ Deliver \/ OutOfData

Next == Recv \/ OnRecv

Spec == Init /\ [][Next]_vars

FairSpec == Spec /\ WF_vars(OnRecv)

-----------------------------------------------------------------------------
(* Properties.                                                             *)

\* Whenever a recv is posted there is room for it: a recv of no bytes would
\* return 0, which frontend_start takes for a closed socket.
RoomToRecv == pc = "recv" => offset = 0 /\ length < BufferSize

\* What is left in the buffer lies inside it and is exactly the tail of what
\* the client sent.
BufferHoldsTail ==
    /\ offset + length <= BufferSize
    /\ length <= Len(sent)
    /\ \A i \in 0 .. length - 1 : buffer[offset + i] = sent[Len(sent) - length + i + 1]

\* connection_on_recv always returns.
OnRecvReturns == pc = "loop" ~> pc # "loop"

\* What makes them inductive: a size that leads on is one the buffer can hold,
\* and a packet being waited for is not complete.
SizeFits == recv_state = "PACKET" => packet_size <= BufferSize

IInv == TypeOK /\ SizeFits /\ RoomToRecv /\ BufferHoldsTail

\* The buffer, its offset and the pieces in which bytes arrive cannot be seen:
\* what is passed on is read from the client's stream, each byte once, in order.
Stream == INSTANCE PacketStream WITH
    Limit <- BufferSize,
    stream <- sent,
    read <- Len(sent) - length,
    stage <- recv_state,
    size <- packet_size,
    packets <- out,
    refused <- (pc = "refused")

ReadsTheStream == Stream!Spec

-----------------------------------------------------------------------------
(* What a stream of bytes means, whichever way it arrives.                 *)

\* The n-th byte behind the first r belongs to the size that starts there.
InSize(s, r, n) == n \in 1 .. 3 /\ r + n <= Len(s) /\ \A i \in 1 .. n - 1 : s[r + i].more

\* The bytes of that size, as far as they are there.
SizeBytes(s, r) == CHOOSE n \in 1 .. 3 : InSize(s, r, n) /\ ~InSize(s, r, n + 1)

\* What the first n of them say.
SizeOf(s, r, n) ==
    LET segment(i) == IF i <= n THEN s[r + i].seg ELSE 0
    IN  segment(1) + Base * segment(2) + Base * Base * segment(3)

SizeEnd(s, r)  == r + SizeBytes(s, r)
SizeAt(s, r)   == SizeOf(s, r, SizeBytes(s, r))
PacketAt(s, r) == SubSeq(s, SizeEnd(s, r) + 1, SizeEnd(s, r) + SizeAt(s, r))

\* A size and a packet of that size, both of them complete.
HasFrame(s, r) ==
    /\ r < Len(s) /\ ~s[SizeEnd(s, r)].more
    /\ SizeAt(s, r) \in 1 .. BufferSize
    /\ SizeEnd(s, r) + SizeAt(s, r) <= Len(s)

\* What breaks the protocol.  An empty packet is noticed when a byte follows.
Breaks(s, r) ==
    /\ r < Len(s)
    /\ \/ SizeAt(s, r) > BufferSize
       \/ SizeEnd(s, r) = r + 3 /\ s[r + 3].more
       \/ SizeAt(s, r) = 0 /\ ~s[SizeEnd(s, r)].more /\ SizeEnd(s, r) < Len(s)
       \/ HasFrame(s, r) /\ ~Dispatches(PacketAt(s, r))

\* The packets of a stream, one after the other up to the first that is not
\* complete or not allowed, and whether it breaks the protocol there.
Parse(s) ==
    LET read[k \in Nat] ==
            IF k = 0 THEN [at |-> 0, packets |-> <<>>]
            ELSE LET before == read[k - 1]
                     at     == before.at
                 IN  IF HasFrame(s, at) /\ ~Breaks(s, at)
                       THEN [at      |-> SizeEnd(s, at) + SizeAt(s, at),
                             packets |-> Append(before.packets, PacketAt(s, at))]
                       ELSE before
        all == read[Len(s)]
    IN  [packets |-> all.packets, refused |-> Breaks(s, all.at)]

\* The packets passed on, and whether the client is refused, depend on the
\* bytes only and never on how recv cut them: between two recvs everything
\* that is complete has been handled.
CutsDoNotMatter ==
    pc # "loop" =>
      /\ out = Parse(sent).packets
      /\ pc = "refused" <=> Parse(sent).refused

=============================================================================
