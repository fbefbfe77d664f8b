----------------------------- MODULE ChunkView -----------------------------
(***************************************************************************)
(* Which chunks a player has: what a tick of the backend does with the     *)
(* position, the view distance and the chunks of each player (handlers in  *)
(* backend/backend.c, systems in backend/systems/movement.c and sync.c).   *)
(*                                                                         *)
(* Components of an entity are functions of the player.  A system changes  *)
(* component values at once; entities and relations it adds and removes    *)
(* are merged when it ends, so each system is one action.  The systems see *)
(* the players of one archetype together, as arrays.                       *)
(*                                                                         *)
(* Heights, rotations and coordinates that are not finite are left out,    *)
(* and so are the view position sent to the client and EntityChunk, which  *)
(* nothing here reads.                                                     *)
(* Coordinates are whole numbers.  How chunks are generated is in          *)
(* ChunkGen; here a chunk that was asked for is ready some time.           *)
(***************************************************************************)
EXTENDS Integers, FiniteSets

CONSTANTS
    Players,
    Positions,  \* where clients say they are, [x, z]
    Spawn,      \* [x |-> 8.5, z |-> 8.5]
    Distances,  \* view distances that clients ask for
    MAX_VIEW_DISTANCE,
    Width,      \* of a chunk, 16
    TooFast,    \* 100: the distance that nobody moves within a tick
    Area,       \* bound: the chunks that are looked at
    None

ASSUME ChunkViewAssumption ==
    /\ Spawn \in Positions
    /\ Positions \subseteq [x : Int, z : Int]
    /\ Distances \subseteq Nat /\ MAX_VIEW_DISTANCE \in Nat
    /\ Area \subseteq [x : Int, z : Int]
    /\ Width \in Nat \ {0} /\ TooFast \in Nat
    /\ None \notin Nat

VARIABLES
    state,                 \* of a player: "new", "world", "left"
    closed,                \* EVENT_CONNECTION_CLOSED is queued, or will be
    EntityPosition,
    PlayerPosition, moved, \* the component, and whether it is enabled
    PlayerViewDistance,    \* None when the client sent no settings
    PlayerTeleportRequest, \* the client has not confirmed its position
    confirmed,             \* its confirmation will be merged after the packets
    DisconnectPlayer,
    PlayerNeedsChunk, PlayerHasChunk,
    asked, ChunkData,      \* chunks that have an entity; that have their data
    shown,                 \* the chunks that the client has
    tick,                  \* the part of the tick that comes next
    shared                 \* history: players that moved with another in one array

position == <<EntityPosition, PlayerPosition, moved>>
flags    == <<PlayerTeleportRequest, confirmed, DisconnectPlayer>>
needed   == <<PlayerNeedsChunk, PlayerHasChunk>>
chunks   == <<asked, ChunkData>>
vars     == <<state, closed, position, PlayerViewDistance, flags, needed, chunks, shown,
             tick, shared>>

World == {p \in Players : state[p] = "world"}

-----------------------------------------------------------------------------
(* Chunks and view distances (backend/util/view_distance.c, util/defs.h).  *)

\* TLA+'s \div rounds down, which is what DIV_ROUND_DOWN does.
ChunkOf(pos) == [x |-> pos.x \div Width, z |-> pos.z \div Width]

\* chunk_view_distance_from_position and chunk_in_view_distance
View(pos, size) ==
    LET c == ChunkOf(pos)
    IN {a \in Area :
          (a.x - c.x) * (a.x - c.x) + (a.z - c.z) * (a.z - c.z) <= size * size}

MovesTooFast(from, to) ==
    (to.x - from.x) * (to.x - from.x) + (to.z - from.z) * (to.z - from.z)
      >= TooFast * TooFast

Chunk == [x : Int, z : Int]

TypeOK ==
    /\ state \in [Players -> {"new", "world", "left"}]
    /\ closed \in [Players -> BOOLEAN]
    /\ EntityPosition \in [Players -> Positions]
    /\ PlayerPosition \in [Players -> Positions]
    /\ moved \in [Players -> BOOLEAN]
    /\ PlayerViewDistance \in [Players -> 0 .. MAX_VIEW_DISTANCE \cup {None}]
    /\ PlayerTeleportRequest \in [Players -> BOOLEAN]
    /\ confirmed \in [Players -> BOOLEAN]
    /\ DisconnectPlayer \in [Players -> BOOLEAN]
    /\ PlayerNeedsChunk \in [Players -> SUBSET asked]
    /\ PlayerHasChunk \in [Players -> SUBSET asked]
    /\ asked \subseteq Chunk
    /\ ChunkData \subseteq asked
    /\ shown \in [Players -> SUBSET ChunkData]
    /\ tick \in {"chunks", "events", "packets", "commit", "sync", "post"}
    /\ shared \subseteq Players

Origin == [x |-> 0, z |-> 0]

Init ==
    /\ state = [p \in Players |-> "new"]
    /\ closed = [p \in Players |-> FALSE]
    /\ EntityPosition = [p \in Players |-> Spawn]
    /\ PlayerPosition = [p \in Players |-> Spawn]
    /\ moved = [p \in Players |-> FALSE]
    /\ PlayerViewDistance = [p \in Players |-> None]
    /\ PlayerTeleportRequest = [p \in Players |-> FALSE]
    /\ confirmed = [p \in Players |-> FALSE]
    /\ DisconnectPlayer = [p \in Players |-> FALSE]
    /\ PlayerNeedsChunk = [p \in Players |-> {}]
    /\ PlayerHasChunk = [p \in Players |-> {}]
    /\ asked = {} /\ ChunkData = {}
    /\ shown = [p \in Players |-> {}]
    /\ tick = "chunks"
    /\ shared = {}

-----------------------------------------------------------------------------
(* The client.                                                             *)

\* The client leaves; disconnect_connection queues the event.
Leave(p) ==
    /\ p \in World /\ ~closed[p]
    /\ closed' = [closed EXCEPT ![p] = TRUE]
    /\ UNCHANGED <<state, position, PlayerViewDistance, flags, needed, chunks, shown,
                   tick, shared>>

-----------------------------------------------------------------------------
(* The start of a tick.                                                    *)

\* Some of the chunks that were asked for have been generated by now.
HandleGeneratedChunks ==
    /\ tick = "chunks"
    /\ \E ready \in SUBSET (asked \ ChunkData) : ChunkData' = ChunkData \cup ready
    /\ tick' = "events"
    /\ UNCHANGED <<state, closed, position, PlayerViewDistance, flags, needed, asked,
                   shown, shared>>

HandleNewPlayer(p) ==
    /\ tick = "events" /\ state[p] = "new"
    /\ state' = [state EXCEPT ![p] = "world"]
    /\ asked' = asked \cup {Origin}
    /\ PlayerTeleportRequest' = [PlayerTeleportRequest EXCEPT ![p] = TRUE]
    /\ UNCHANGED <<closed, position, PlayerViewDistance, confirmed, DisconnectPlayer,
                   needed, ChunkData, shown, tick, shared>>

\* The entity is deleted with its components.
HandleClosed(p) ==
    /\ tick = "events" /\ p \in World /\ closed[p]
    /\ state' = [state EXCEPT ![p] = "left"]
    /\ EntityPosition' = [EntityPosition EXCEPT ![p] = Spawn]
    /\ PlayerPosition' = [PlayerPosition EXCEPT ![p] = Spawn]
    /\ moved' = [moved EXCEPT ![p] = FALSE]
    /\ PlayerViewDistance' = [PlayerViewDistance EXCEPT ![p] = None]
    /\ PlayerTeleportRequest' = [PlayerTeleportRequest EXCEPT ![p] = FALSE]
    /\ DisconnectPlayer' = [DisconnectPlayer EXCEPT ![p] = FALSE]
    /\ PlayerNeedsChunk' = [PlayerNeedsChunk EXCEPT ![p] = {}]
    /\ PlayerHasChunk' = [PlayerHasChunk EXCEPT ![p] = {}]
    /\ shown' = [shown EXCEPT ![p] = {}]
    /\ UNCHANGED <<closed, confirmed, chunks, tick, shared>>

EventsDone ==
    /\ tick = "events"
    /\ tick' = "packets"
    /\ UNCHANGED <<state, closed, position, PlayerViewDistance, flags, needed, chunks,
                   shown, shared>>

-----------------------------------------------------------------------------
(* handle_packets.  Commands are deferred: packets read the teleport       *)
(* request as it was before the first of them.                             *)

\* Teleport confirm, with the right id.  Without a request it is a protocol
\* violation and the player is disconnected.
TeleportConfirm(p) ==
    /\ tick = "packets" /\ p \in World
    /\ IF PlayerTeleportRequest[p]
       THEN confirmed' = [confirmed EXCEPT ![p] = TRUE] /\ UNCHANGED closed
       ELSE closed' = [closed EXCEPT ![p] = TRUE] /\ UNCHANGED confirmed
    /\ UNCHANGED <<state, position, PlayerViewDistance, PlayerTeleportRequest,
                   DisconnectPlayer, needed, chunks, shown, tick, shared>>

\* Client settings: player_view_distance_set observes the new distance and asks
\* for every chunk of the view, those that the player has as well.
ClientSettings(p) ==
    /\ tick = "packets" /\ p \in World
    /\ \E d \in Distances :
         LET distance == IF d > MAX_VIEW_DISTANCE THEN MAX_VIEW_DISTANCE ELSE d
             view     == View(EntityPosition[p], distance)
         IN /\ PlayerViewDistance' = [PlayerViewDistance EXCEPT ![p] = distance]
            /\ PlayerNeedsChunk' = [PlayerNeedsChunk EXCEPT ![p] = @ \cup view]
            /\ asked' = asked \cup view
    /\ UNCHANGED <<state, closed, position, flags, PlayerHasChunk, ChunkData, shown,
                   tick, shared>>

\* Player position
Move(p) ==
    /\ tick = "packets" /\ p \in World /\ ~PlayerTeleportRequest[p]
    /\ \E pos \in Positions : PlayerPosition' = [PlayerPosition EXCEPT ![p] = pos]
    /\ moved' = [moved EXCEPT ![p] = TRUE]
    /\ UNCHANGED <<state, closed, EntityPosition, PlayerViewDistance, flags, needed,
                   chunks, shown, tick, shared>>

PacketsDone ==
    /\ tick = "packets"
    /\ PlayerTeleportRequest' = [p \in Players |-> PlayerTeleportRequest[p] /\ ~confirmed[p]]
    /\ confirmed' = [p \in Players |-> FALSE]
    /\ tick' = "commit"
    /\ UNCHANGED <<state, closed, position, PlayerViewDistance, DisconnectPlayer,
                   needed, chunks, shown, shared>>

-----------------------------------------------------------------------------
(* player_commit_position                                                  *)

Movers == {p \in World : moved[p] /\ PlayerViewDistance[p] # None}

\* The components that decide which table an entity is in.
Archetype(p) ==
    <<PlayerTeleportRequest[p], DisconnectPlayer[p], PlayerNeedsChunk[p], PlayerHasChunk[p]>>

\* How the movers are laid out in arrays: each is mapped to the first of its own.
Layout(first) ==
    \A p \in Movers :
      first[first[p]] = first[p] /\ Archetype(first[p]) = Archetype(p)

Committed(p) ==
    IF p \in Movers /\ ~MovesTooFast(EntityPosition[p], PlayerPosition[p])
    THEN PlayerPosition[p] ELSE EntityPosition[p]

\* The movers that look like another one.
Sharing == {p \in Movers : \E q \in Movers \ {p} : Archetype(q) = Archetype(p)}

\* The views before and after come from the first element of the arrays, which
\* has already been committed when the others look at it.
Old(first, p) ==
    View(IF first[p] = p THEN EntityPosition[p] ELSE Committed(first[p]),
         PlayerViewDistance[first[p]])
New(first, p) == View(PlayerPosition[first[p]], PlayerViewDistance[first[p]])

\* Mutant: chunks that stay in view are unloaded too.
OutOfViewAll(first, p) ==
    IF p \in Movers /\ Old(first, p) # New(first, p) THEN Old(first, p) ELSE {}

\* Mutant: the two views are swapped.
IntoViewSwapped(first, p) == IF p \in Movers THEN Old(first, p) \ New(first, p) ELSE {}

OutOfView(first, p) == IF p \in Movers THEN Old(first, p) \ New(first, p) ELSE {}
IntoView(first, p)  == IF p \in Movers THEN New(first, p) \ Old(first, p) ELSE {}

\* The unload packets go to the first connection.
SentTo(first, p) == {q \in Movers : first[q] = p /\ Old(first, q) # New(first, q)}

PlayerCommitPosition ==
    /\ tick = "commit"
    /\ \E first \in [Movers -> Movers] :
         /\ Layout(first)
         /\ PlayerNeedsChunk' =
              [p \in Players |-> PlayerNeedsChunk[p] \cup IntoView(first, p)]
         /\ PlayerHasChunk' =
              [p \in Players |-> PlayerHasChunk[p] \ OutOfView(first, p)]
         /\ shown' = [p \in Players |->
              shown[p] \ UNION {OutOfView(first, q) : q \in SentTo(first, p)}]
         /\ asked' = asked \cup
              UNION {Old(first, p) \cup New(first, p) :
                       p \in {q \in Movers : Old(first, q) # New(first, q)}}
    /\ EntityPosition' = [p \in Players |-> Committed(p)]
    /\ moved' = [p \in Players |-> moved[p] /\ Committed(p) = EntityPosition[p]]
    /\ DisconnectPlayer' =
         [p \in Players |-> DisconnectPlayer[p] \/
            (p \in Movers /\ MovesTooFast(EntityPosition[p], PlayerPosition[p]))]
    /\ tick' = "sync"
    /\ shared' = shared \cup Sharing
    /\ UNCHANGED <<state, closed, PlayerPosition, PlayerViewDistance,
                   PlayerTeleportRequest, confirmed, ChunkData>>

-----------------------------------------------------------------------------
(* The rest of the tick.                                                   *)

Ready(p) == PlayerNeedsChunk[p] \cap ChunkData

\* Mutant: chunks without data are no longer needed either.
SyncChunksForgets ==
    /\ tick = "sync"
    /\ PlayerHasChunk' = [p \in Players |-> PlayerHasChunk[p] \cup Ready(p)]
    /\ PlayerNeedsChunk' = [p \in Players |-> {}]
    /\ shown' = [p \in Players |-> shown[p] \cup Ready(p)]
    /\ tick' = "post"
    /\ UNCHANGED <<state, closed, position, PlayerViewDistance, flags, chunks, shared>>

\* Mutant: that the player has the chunk is not noted.
SyncChunksUnnoted ==
    /\ tick = "sync"
    /\ PlayerNeedsChunk' = [p \in Players |-> PlayerNeedsChunk[p] \ Ready(p)]
    /\ shown' = [p \in Players |-> shown[p] \cup Ready(p)]
    /\ tick' = "post"
    /\ UNCHANGED <<state, closed, position, PlayerViewDistance, flags, PlayerHasChunk,
                   chunks, shared>>

\* sync_chunks
SyncChunks ==
    /\ tick = "sync"
    /\ PlayerHasChunk' = [p \in Players |-> PlayerHasChunk[p] \cup Ready(p)]
    /\ PlayerNeedsChunk' = [p \in Players |-> PlayerNeedsChunk[p] \ Ready(p)]
    /\ shown' = [p \in Players |-> shown[p] \cup Ready(p)]
    /\ tick' = "post"
    /\ UNCHANGED <<state, closed, position, PlayerViewDistance, flags, chunks, shared>>

DisconnectPlayers ==
    /\ tick = "post"
    /\ closed' = [p \in Players |-> closed[p] \/ (p \in World /\ DisconnectPlayer[p])]
    /\ tick' = "chunks"
    /\ UNCHANGED <<state, position, PlayerViewDistance, flags, needed, chunks, shown,
                   shared>>

-----------------------------------------------------------------------------

Tick ==
    HandleGeneratedChunks \/ EventsDone \/ PacketsDone
      \/ PlayerCommitPosition \/ SyncChunks \/ DisconnectPlayers

PlayerStep(p) ==
    \/ HandleNewPlayer(p) \/ HandleClosed(p) \/ Leave(p)
    \/ TeleportConfirm(p) \/ ClientSettings(p) \/ Move(p)

Next == Tick \/ \E p \in Players : PlayerStep(p)

Spec == Init /\ [][Next]_vars

\* Ticks come round, and a chunk that was asked for is ready some time
\* (ChunksArrive of ChunkGen).
FairSpec ==
    /\ Spec
    /\ WF_vars(Tick)
    /\ \A c \in Area : SF_vars(HandleGeneratedChunks /\ c \in ChunkData')

-----------------------------------------------------------------------------
(* Properties.                                                             *)

Settled(p) ==
    /\ p \in World /\ ~closed[p] /\ ~DisconnectPlayer[p]
    /\ PlayerViewDistance[p] # None

\* Every chunk within the view distance of a player is at the player or on its
\* way to it, wherever the player walked and whatever it asked for before.  This
\* and the next property except the players that themselves moved in one array
\* with another: player_commit_position takes the views and the connection of
\* the first element for all of them.  Whatever these do, they harm nobody else.
ViewIsCovered ==
    \A p \in Players \ shared : Settled(p) =>
      View(EntityPosition[p], PlayerViewDistance[p])
        \subseteq PlayerNeedsChunk[p] \cup PlayerHasChunk[p]

\* PlayerHasChunk is what the client has: it was sent these chunks and none of
\* them was unloaded since.
HasWhatIsShown == \A p \in World \ shared : shown[p] = PlayerHasChunk[p]

\* What makes them inductive: a player that is not in the world has no view
\* distance, and nothing was sent to it.
IInv ==
    /\ TypeOK
    /\ \A p \in Players \ shared :
         /\ state[p] # "world" => PlayerViewDistance[p] = None
         /\ shown[p] = PlayerHasChunk[p]
    /\ ViewIsCovered

\* A chunk that a player needs is sent, unless the player leaves.
NeedsAreServed ==
    \A p \in Players : \A c \in Area :
      c \in PlayerNeedsChunk[p] ~> (c \in shown[p] \/ state[p] = "left")

=============================================================================
