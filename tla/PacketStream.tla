---------------------------- MODULE PacketStream ----------------------------
(***************************************************************************)
(* What connection_on_recv computes, without a buffer: a client sends one  *)
(* stream of bytes, which is read once from its start.  A size of one to   *)
(* three bytes, each a continuation bit and a segment, is followed by that *)
(* many bytes, and these are passed on.  How the stream is cut when it     *)
(* arrives has no part in it.                                              *)
(***************************************************************************)
EXTENDS Integers, Sequences

CONSTANTS
    Base,  \* values of a segment
    Limit, \* the largest size that is accepted
    InPlay \* any packet id is accepted

VARIABLES
    stream,  \* what has arrived
    read,    \* how much of it has been read
    stage,   \* the byte of the size that comes next, or "PACKET"
    size,    \* what has been read of the size
    packets, \* passed on
    refused

vars == <<stream, read, stage, size, packets, refused>>

Byte == [more : BOOLEAN, seg : 0 .. Base - 1]

Init ==
    /\ stream = <<>> /\ read = 0
    /\ stage = "SIZE_1" /\ size = 0
    /\ packets = <<>>
    /\ ~refused

\* More of the stream arrives; nothing that has arrived changes.
Arrive ==
    /\ ~refused
    /\ stream' \in Seq(Byte)
    /\ Len(stream') >= Len(stream)
    /\ SubSeq(stream', 1, Len(stream)) = stream
    /\ UNCHANGED <<read, stage, size, packets, refused>>

Refuse == refused' = TRUE /\ UNCHANGED <<stream, read, stage, size, packets>>

\* One byte of a size: total with it, and the stage that a further byte is.
ReadSize(total, further) ==
    LET byte == stream[read + 1]
    IN IF total > Limit \/ (byte.more /\ further = "none")
       THEN Refuse
       ELSE /\ read' = read + 1
            /\ size' = total
            /\ stage' = IF byte.more THEN further ELSE "PACKET"
            /\ UNCHANGED <<stream, packets, refused>>

ReadByte ==
    /\ ~refused /\ read < Len(stream)
    /\ LET seg == stream[read + 1].seg
       IN \/ stage = "SIZE_1" /\ ReadSize(seg, "SIZE_2")
          \/ stage = "SIZE_2" /\ ReadSize(size + Base * seg, "SIZE_3")
          \/ stage = "SIZE_3" /\ ReadSize(size + Base * Base * seg, "none")

\* A packet of no bytes is refused when something follows it, and before play
\* one whose id does not end with its first byte.
ReadPacket ==
    /\ ~refused /\ read < Len(stream) /\ stage = "PACKET"
    /\ size <= Len(stream) - read
    /\ IF size = 0 \/ (~InPlay /\ stream[read + 1].more)
       THEN Refuse
       ELSE /\ packets' = Append(packets, SubSeq(stream, read + 1, read + size))
            /\ read' = read + size
            /\ stage' = "SIZE_1"
            /\ UNCHANGED <<stream, size, refused>>

Next == Arrive \/ ReadByte \/ ReadPacket

Spec == Init /\ [][Next]_vars

=============================================================================
