----------------------------- MODULE Protocol -----------------------------
(***************************************************************************)
(* The packets of one connection: backend/protocol.c and the answers of    *)
(* frontend/connection.c, the chunks of flat_world_gen that they carry,    *)
(* and the client's side of both.                                          *)
(*                                                                         *)
(* A packet is a sequence of numbers.  A number is a byte where the code   *)
(* writes a varint, and otherwise a whole field of the packed struct that  *)
(* it belongs to, a word of a section, the light of a section, or one of   *)
(* the pieces of NBT, which are constants of the build.  So the length of  *)
(* a packet counts those.  No section has a palette, since nothing in the  *)
(* program makes one.                                                      *)
(***************************************************************************)
EXTENDS Varint, FiniteSets, FiniteSetsExt, SequencesExt

CONSTANTS
    None,
    Sections,     \* of a chunk, 16 in the code
    Edge,         \* of a section, 16 in the code
    LongBits,     \* 64 in the code
    BlockBits,    \* bits of a block without a palette, 15 in the code
    Placeholder,  \* bytes of the size that is filled in later, 4 in the code
    Coordinates,  \* of the chunks and positions that are sent
    Numbers,      \* entities, teleports, keep-alives, pings
    Lengths,      \* of names and of JSON
    MaxSent       \* bound: packets of a run

\* A block has bits for the four kinds of flat_world_gen, and a byte of a varint
\* for the count of three worlds.
ASSUME ProtocolAssumption ==
    /\ {Sections, Edge, LongBits, BlockBits, Placeholder} \subseteq Nat \ {0}
    /\ Edge >= 4 /\ BlockBits \in 2 .. LongBits
    /\ SegmentBits >= 2
    /\ Coordinates \cup Numbers \subseteq Ints
    /\ Lengths \subseteq Nat

VARIABLES
    sent,      \* the server's packets, and what each of them means
    room,      \* how much it allocated for its last packet, and how much it wrote
    wire,      \* what the client has not read yet
    received,  \* what the client understood
    asked,     \* the teleport that the player has to confirm
    answer     \* what the client confirmed, and what became of it

vars == <<sent, room, wire, received, asked, answer>>

-----------------------------------------------------------------------------
(* The world.                                                              *)

Area   == Edge * Edge
Volume == Edge * Edge * Edge

Air == 0   Bedrock == 1   Dirt == 2   Grass == 3

\* Mutant: there is one layer of dirt more than is counted.
FlatSectionUncounted ==
    [blocks |-> [i \in 0 .. Volume - 1 |->
                    CASE i \div Area = 0      -> Bedrock
                      [] i \div Area \in 1 .. 2 -> Dirt
                      [] i \div Area = 3      -> Grass
                      [] OTHER                -> Air],
     block_count |-> 3 * Area]

\* flat_world_gen: the blocks are set and counted layer by layer
FlatSection ==
    [blocks |-> [i \in 0 .. Volume - 1 |->
                    CASE i \div Area = 0      -> Bedrock
                      [] i \div Area \in 1 .. 2 -> Dirt
                      [] i \div Area = 3      -> Grass
                      [] OTHER                -> Air],
     block_count |-> Area + 2 * Area + Area]

\* A chunk as do_chunk_gen leaves it.  Only the lowest section exists, and no
\* light.
Chunk(x, z) ==
    [x |-> x, z |-> z, sections |-> [i \in {0} |-> FlatSection],
     sky_light |-> {}, block_light |-> {}]

-----------------------------------------------------------------------------
(* What the packets look like.                                             *)

String(text) == VarintWrite(Len(text)) \o text

Text(n) == [i \in 1 .. n |-> 1]

\* The literals of send_join_game, of lengths 19, 20 and 17 there.
Overworld == Text(3)   TheNether == Text(2)   TheEnd == Text(1)

DimensionCodec == 101   OverworldNbt == 102   EmptyNbt == 103   \* generated or fixed NBT

Biomes == 4              \* 1024 in the code
Biome  == Segment - 1    \* 127

ViewDistance == 1   Creative == 1   TheLight == 104   Uuid == 105

\* send_join_game.  _ignored is never set, so that it is whatever the allocator
\* left there.
JoinGame(entity, _ignored) ==
    <<36, entity, 0, Creative, -1, 3>>
    \o <<Len(Overworld)>> \o Overworld \o <<Len(TheNether)>> \o TheNether
    \o <<Len(TheEnd)>> \o TheEnd
    \o <<DimensionCodec, OverworldNbt>>
    \o <<Len(Overworld)>> \o Overworld
    \o <<0, _ignored, ViewDistance, 0, 1, 0, 1>>

Mask(S) == Total([i \in 1 .. Sections + 2 |-> IF i - 1 \in S THEN Power(2, i - 1) ELSE 0], Sections + 2)

DivRoundUp(n, d) == (n + d - 1) \div d

BlocksPerLong == LongBits \div BlockBits

Longs == DivRoundUp(Volume, BlocksPerLong)

\* The loop over the blocks of a long, which stops at the end of the section
PackedLong(section, long_num) ==
    LET block_idx(b) == long_num * BlocksPerLong + b - 1
    IN  Total([b \in 1 .. BlocksPerLong |->
                IF block_idx(b) < Volume
                  THEN section.blocks[block_idx(b)] * Power(2, BlockBits * (b - 1)) ELSE 0],
            BlocksPerLong)

\* Mutant: a long may hold a part of a block.
SectionWriteCompactDense(section) ==
    LET longs == DivRoundUp(Volume * BlockBits, LongBits)
    IN  VarintWrite(longs) \o [k \in 1 .. longs |-> PackedLong(section, k - 1)]

\* section_write_compact: as many whole blocks as fit into a long
SectionWriteCompact(section) ==
    VarintWrite(Longs) \o [k \in 1 .. Longs |-> PackedLong(section, k - 1)]

\* send_chunk_data
ChunkData(chunk) ==
    LET Section(i) == IF i \notin DOMAIN chunk.sections THEN <<>>
                      ELSE <<chunk.sections[i].block_count, BlockBits>>
                           \o SectionWriteCompact(chunk.sections[i])
        sections   == FlattenSeq([i \in 1 .. Sections |-> Section(i - 1)])
    IN  <<32, chunk.x, chunk.z, 1>>
        \o VarintWrite(Mask(DOMAIN chunk.sections))
        \o <<EmptyNbt>>
        \o VarintWrite(Biomes) \o [i \in 1 .. Biomes |-> Biome]
        \o FakeVarint(Len(sections), Placeholder) \o sections
        \o VarintWrite(0)

Lights == 0 .. Sections + 1

\* send_full_update_light, which marks both kinds in the mask of the sky
FullUpdateLight(chunk) ==
    LET sky_light_mask   == Mask(chunk.sky_light \cup chunk.block_light)
        block_light_mask == 0
        Light(S)         == FlattenSeq([i \in 1 .. Cardinality(S) |-> VarintWrite(1) \o <<TheLight>>])
    IN  <<35>> \o VarintWrite(chunk.x) \o VarintWrite(chunk.z) \o <<1>>
        \o VarintWrite(sky_light_mask) \o VarintWrite(block_light_mask)
        \o VarintWrite(Mask(Lights) - sky_light_mask) \o VarintWrite(Mask(Lights) - block_light_mask)
        \o Light(chunk.sky_light) \o Light(chunk.block_light)

\* send_unload_chunk
UnloadChunk(x, z) == <<28, x, z>>

\* send_player_position_and_look; the place is one that the server knows
PlayerPositionAndLook(teleport_id) ==
    <<52, 8, 5, 8, -180, 0, 0>> \o VarintWrite(teleport_id)

\* send_keep_alive
KeepAlive(keep_alive_id) == <<31, keep_alive_id>>

\* send_update_view_position
UpdateViewPosition(x, z) == <<64>> \o VarintWrite(x) \o VarintWrite(z)

\* The answer to a status request, and to a client of another version
JsonResponse(json) == <<0>> \o VarintWrite(Len(json)) \o json

\* The answer to a ping
Pong(payload) == <<1, payload>>

\* Login Success
LoginSuccess(name) == <<2, Uuid, Len(name)>> \o name

\* No packet is longer than its size can say, Join Game of 28 bytes and numbers
\* among them, and no section than the bytes that are left for its size.
ASSUME SizesAssumption ==
    /\ Placeholder <= MaxBytes
    /\ Longs + MaxBytes + 2 < Power(Segment, Placeholder)
    /\ {28, 6 * MaxBytes + 2, 3 * MaxBytes + Longs + Placeholder + 12}
          \cup {n + MaxBytes + 1 : n \in Lengths} \subseteq Ints

-----------------------------------------------------------------------------
(* The client: how a game of this version reads a packet.  A reader takes  *)
(* what it needs from the front of b.                                      *)

Failed == [ok |-> FALSE, value |-> <<>>, rest |-> <<>>]

Got(value, rest) == [ok |-> TRUE, value |-> value, rest |-> rest]

Take(n, b) ==
    IF n \in 0 .. Len(b) THEN Got(SubSeq(b, 1, n), SubSeq(b, n + 1, Len(b))) ELSE Failed

ReadUnit(b) == IF b = <<>> THEN Failed ELSE Got(Head(b), Tail(b))

Ends(b) == {i \in 1 .. Len(b) : i <= MaxBytes /\ b[i] < Segment}

\* What the bytes of a varint stand for: its digits, the lowest first.
ReadVarint(b) ==
    IF Ends(b) = {} THEN Failed
    ELSE LET end    == Min(Ends(b))
             digits == [i \in 1 .. end |-> (b[i] % Segment) * Power(Segment, i - 1)]
         IN  Got(Signed(Unsigned(Total(digits, end))), SubSeq(b, end + 1, Len(b)))

\* A number, and as many units.
ReadString(b) == LET n == ReadVarint(b) IN IF n.ok THEN Take(n.value, n.rest) ELSE Failed

\* One thing after the other.
ReadAll(Read(_, _), kinds, b) ==
    LET read[i \in 0 .. Len(kinds)] ==
            IF i = 0 THEN Got(<<>>, b)
            ELSE LET before == read[i - 1]
                     next   == Read(kinds[i], before.rest)
                 IN  IF before.ok /\ next.ok
                       THEN Got(Append(before.value, next.value), next.rest)
                       ELSE Failed
    IN  read[Len(kinds)]

Times(n, kind) == [i \in 1 .. n |-> kind]

\* What a thing is that has no parts of its own.
ReadPart(kind, b) ==
    CASE kind = "unit"   -> ReadUnit(b)
      [] kind = "varint" -> ReadVarint(b)
      [] kind = "string" -> ReadString(b)

ReadParts(kinds, b) == ReadAll(ReadPart, kinds, b)

ReadStrings(b) ==
    LET n == ReadVarint(b)
    IN  IF n.ok /\ n.value \in 0 .. Len(b) THEN ReadParts(Times(n.value, "string"), n.rest) ELSE Failed

\* A section: how many blocks are not air, bits of a block, longs.
ReadSection(b) ==
    LET read   == ReadParts(<<"unit", "unit", "string">>, b)
        bits   == read.value[2]
        longs  == read.value[3]
        per    == LongBits \div bits
        blocks == [i \in 0 .. Volume - 1 |-> (longs[(i \div per) + 1] \div Power(2, bits * (i % per))) % Power(2, bits)]
    IN  IF read.ok /\ Len(longs) * per \in Volume .. Volume + per - 1
          THEN Got([blocks |-> blocks, block_count |-> read.value[1]], read.rest)
          ELSE Failed

Read(kind, b) ==
    CASE kind = "strings" -> ReadStrings(b)
      [] kind = "section" -> ReadSection(b)
      [] OTHER            -> ReadPart(kind, b)

ReadFields(kinds, b) == ReadAll(Read, kinds, b)

\* The sections that a mask names.
Bits(mask) == {i \in Lights : (mask \div Power(2, i)) % 2 = 1}

ReadSections(mask, b) == ReadFields(Times(Cardinality(Bits(mask)), "section"), b)

\* What a client reads after the number of the packet.
Kinds(id) ==
    CASE id = 0  -> <<"string">>
      [] id = 1  -> <<"unit">>
      [] id = 2  -> <<"unit", "string">>
      [] id = 28 -> <<"unit", "unit">>
      [] id = 31 -> <<"unit">>
      [] id = 32 -> <<"unit", "unit", "unit", "varint", "unit", "string", "string", "varint">>
      [] id = 35 -> <<"varint", "varint", "unit", "varint", "varint", "varint", "varint">>
      [] id = 36 -> <<"unit", "unit", "unit", "unit", "strings", "unit", "unit", "string",
                      "unit", "varint", "varint", "unit", "unit", "unit", "unit">>
      [] id = 52 -> <<"unit", "unit", "unit", "unit", "unit", "unit", "varint">>
      [] id = 64 -> <<"varint", "varint">>

Garbled == <<"garbled">>

\* What the client makes of the fields of a chunk, of its light, and of Join Game.
ChunkOf(v, rest) ==
    LET sections == ReadSections(v[4], v[7])
    IN  IF sections.ok /\ sections.rest = <<>> /\ rest = <<>>
          THEN <<32, v[1], v[2], Bits(v[4]), sections.value>> ELSE Garbled

LightOf(v, rest) ==
    LET lights == ReadFields(Times(Cardinality(Bits(v[4])) + Cardinality(Bits(v[5])), "string"), rest)
    IN  IF lights.ok /\ lights.rest = <<>>
          THEN <<35, v[1], v[2], Bits(v[4]), Bits(v[5])>> ELSE Garbled

GameOf(v, rest) ==
    IF rest = <<>> THEN <<36, v[1], v[3], v[5], v[8], v[11], v[15]>> ELSE Garbled

\* What the client makes of a packet: what it needs of it, and nothing may be
\* missing or left over.
Understand(packet) ==
    LET id   == Head(packet)
        read == ReadFields(Kinds(id), Tail(packet))
    IN  CASE ~read.ok            -> Garbled
          [] id = 32 /\ read.ok -> ChunkOf(read.value, read.rest)
          [] id = 35 /\ read.ok -> LightOf(read.value, read.rest)
          [] id = 36 /\ read.ok -> GameOf(read.value, read.rest)
          [] OTHER               -> IF read.rest = <<>> THEN <<id>> \o read.value ELSE Garbled

-----------------------------------------------------------------------------
(* The server sends.                                                       *)

Init ==
    /\ sent = <<>> /\ room = [allocated |-> 0, written |-> 0]
    /\ wire = <<>> /\ received = <<>>
    /\ asked = None /\ answer = None

\* frontend_send and backend_sender_send: the size, then the packet
Send(message, packet, allocated) ==
    /\ Len(sent) < MaxSent /\ answer = None
    /\ sent' = Append(sent, [means |-> message, packet |-> packet])
    /\ room' = [allocated |-> allocated, written |-> Len(packet)]
    /\ wire' = wire \o VarintWrite(Len(packet)) \o packet
    /\ UNCHANGED <<received, answer>>

\* A packet in an array that grows.
SendArray(message, packet) == Send(message, packet, Len(packet))

SendJoinGame == \E entity \in Numbers, _ignored \in Bytes :
    /\ SendArray(<<36, entity, Creative, <<Overworld, TheNether, TheEnd>>, Overworld, ViewDistance, 1>>,
                 JoinGame(entity, _ignored))
    /\ UNCHANGED asked

\* The sections of a chunk, with the number of blocks that is right.
Contents(chunk) ==
    [k \in 1 .. Cardinality(DOMAIN chunk.sections) |->
        LET section == chunk.sections[k - 1]
        IN  [section EXCEPT !.block_count =
                Cardinality({i \in DOMAIN section.blocks : section.blocks[i] # Air})]]

SendChunkData == \E x, z \in Coordinates :
    LET chunk == Chunk(x, z)
    IN  /\ SendArray(<<32, x, z, DOMAIN chunk.sections, Contents(chunk)>>, ChunkData(chunk))
        /\ UNCHANGED asked

SendFullUpdateLight == \E x, z \in Coordinates :
    LET chunk == Chunk(x, z)
    IN  /\ SendArray(<<35, x, z, chunk.sky_light, chunk.block_light>>, FullUpdateLight(chunk))
        /\ UNCHANGED asked

SendUnloadChunk == \E x, z \in Coordinates :
    /\ SendArray(<<28, x, z>>, UnloadChunk(x, z))
    /\ UNCHANGED asked

SendUpdateViewPosition == \E x, z \in Coordinates :
    /\ SendArray(<<64, x, z>>, UpdateViewPosition(x, z))
    /\ UNCHANGED asked

\* The player is teleported; PlayerTeleportRequest is set with it.
SendPlayerPositionAndLook == \E id \in Numbers :
    /\ SendArray(<<52, 8, 5, 8, -180, 0, 0, id>>, PlayerPositionAndLook(id))
    /\ asked' = id

\* The one packet of the backend that is allocated for its size.
SendKeepAlive == \E id \in Numbers :
    /\ Send(<<31, id>>, KeepAlive(id), 2)
    /\ UNCHANGED asked

\* rlen of dispatch_packet
SendJson == \E n \in Lengths :
    /\ Send(<<0, Text(n)>>, JsonResponse(Text(n)), n + VarintSize(n) + 1)
    /\ UNCHANGED asked

SendPong == \E payload \in Numbers :
    /\ Send(<<1, payload>>, Pong(payload), VarintSize(1) + 1)
    /\ UNCHANGED asked

\* A name of more bytes than one byte of a varint can say has been refused.
SendLoginSuccess == \E n \in {k \in Lengths : k < Segment} :
    /\ Send(<<2, Uuid, Text(n)>>, LoginSuccess(Text(n)), 3 + n)
    /\ UNCHANGED asked

-----------------------------------------------------------------------------
(* The client reads, until there is something that it cannot read.         *)

Receive ==
    /\ \A i \in DOMAIN received : received[i] # Garbled
    /\ LET size   == ReadVarint(wire)
           packet == Take(size.value, size.rest)
       IN  /\ size.ok /\ packet.ok
           /\ received' = Append(received, Understand(packet.value))
           /\ wire' = packet.rest
    /\ UNCHANGED <<sent, room, asked, answer>>

\* handle_packets, Teleport Confirm, with whatever bytes the client likes to
\* send.  A varint that breaks off or does not end is not caught by PCHECK: the
\* whole backend ends.
TeleportConfirm(bytes) ==
    /\ LET id == DecodeVarint(bytes)
           outcome == IF asked = None           THEN "refused"
                      ELSE IF ~id.ok            THEN "backend ends"
                      ELSE IF id.size # Len(bytes) THEN "refused"
                      ELSE IF id.value = asked  THEN "confirmed"
                      ELSE "ignored"
       IN  /\ answer' = [bytes |-> bytes, asked |-> asked, outcome |-> outcome]
           /\ asked' = IF outcome = "confirmed" THEN None ELSE asked
    /\ UNCHANGED <<sent, room, wire, received>>

\* Bound: the client answers once, after a single packet; when nothing has been
\* asked its bytes do not matter.
Confirm ==
    /\ answer = None /\ Len(sent) = 1 /\ wire = <<>>
    /\ \E bytes \in IF asked = None THEN {<<>>} ELSE SeqOf(Bytes, MaxBytes + 1) : TeleportConfirm(bytes)

Next ==
    \/ SendJoinGame \/ SendChunkData \/ SendFullUpdateLight \/ SendUnloadChunk
    \/ SendUpdateViewPosition \/ SendPlayerPositionAndLook \/ SendKeepAlive
    \/ SendJson \/ SendPong \/ SendLoginSuccess
    \/ Receive \/ Confirm

Spec == Init /\ [][Next]_vars

-----------------------------------------------------------------------------
(* Properties.                                                             *)

\* The byte of Join Game that nobody sets.
Ignored(packet) == packet[Len(packet) - 5]

\* The client understands every packet as it was meant, in order and up to its
\* last byte: sizes that are filled in later, negative numbers, masks, counts
\* and packed blocks included.  What it may fail to read is a Join Game whose
\* unset byte goes on with the next one.
ClientUnderstands ==
    \A i \in DOMAIN received :
        \/ received[i] = sent[i].means
        \/ Head(sent[i].packet) = 36 /\ Ignored(sent[i].packet) >= Segment

\* varint_size agrees with varint_write: the memory of an answer is filled to
\* its last byte and not beyond, for every length at the edge of a byte.
AnswersFillTheirMemory == room.allocated = room.written

\* DECODE_VARINT reads what the client means, whether or not it takes the
\* shortest form, and the backend ends exactly when the number does not.
ConfirmIsExact ==
    answer # None /\ answer.asked # None =>
        LET client == ReadVarint(answer.bytes)
        IN  /\ answer.outcome = "backend ends" <=> ~client.ok
            /\ answer.outcome = "confirmed" <=>
                 client.ok /\ client.rest = <<>> /\ client.value = answer.asked

=============================================================================
