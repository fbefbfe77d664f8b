--------------------------- MODULE ChunkViewProofs ---------------------------
(***************************************************************************)
(* The chunks of the players, for any number of players, positions and     *)
(* view distances.  The types need no more than the steps of a tick.  That *)
(* a player has its view, and that the program knows what it has, is true  *)
(* in every behaviour of each player that never moved in one array with    *)
(* another (the history variable shared): player_commit_position reads the *)
(* first element of an array only, and whom that harms is in the array.    *)
(***************************************************************************)
EXTENDS ChunkView, TLAPS

-----------------------------------------------------------------------------
(* Types.                                                                  *)

LEMMA Params ==
    /\ Spawn \in Positions /\ Area \subseteq Chunk /\ Origin \in Chunk
    /\ Distances \subseteq Nat /\ MAX_VIEW_DISTANCE \in Nat
    /\ None \notin 0 .. MAX_VIEW_DISTANCE
  BY ChunkViewAssumption DEF Chunk, Origin

LEMMA ViewIsInArea ==
    ASSUME NEW pos, NEW size
    PROVE  View(pos, size) \subseteq Area /\ View(pos, size) \subseteq Chunk
<1>1. View(pos, size) \subseteq Area
  BY DEF View
<1>2. QED  BY <1>1, Params

LEMMA WorldIsPlayers == World \subseteq Players /\ Movers \subseteq World
  BY DEF World, Movers

\* A distance that was asked for is cut to the greatest one.
LEMMA DistanceIsCut ==
    ASSUME NEW d \in Distances
    PROVE  (IF d > MAX_VIEW_DISTANCE THEN MAX_VIEW_DISTANCE ELSE d) \in 0 .. MAX_VIEW_DISTANCE
<1>1. d \in Nat /\ MAX_VIEW_DISTANCE \in Nat
  BY Params
<1>2. QED  BY <1>1

LEMMA InitTypes == Init => TypeOK
  BY Params DEF Init, TypeOK

\* What the client and the events of a player change.
LEMMA EventTypes ==
    ASSUME TypeOK, NEW p \in Players, Leave(p) \/ HandleNewPlayer(p) \/ HandleClosed(p)
    PROVE  TypeOK'
<1>1. CASE Leave(p)
  BY <1>1 DEF Leave, TypeOK, position, flags, needed, chunks
<1>2. CASE HandleNewPlayer(p)
  <2>1. asked \subseteq asked' /\ asked' \subseteq Chunk /\ ChunkData' \subseteq asked'
    BY <1>2, Params DEF HandleNewPlayer, TypeOK
  <2>2. /\ PlayerNeedsChunk' \in [Players -> SUBSET asked']
        /\ PlayerHasChunk' \in [Players -> SUBSET asked']
    BY <1>2, <2>1 DEF HandleNewPlayer, TypeOK, needed
  <2>3. QED  BY <1>2, <2>1, <2>2 DEF HandleNewPlayer, TypeOK, position, needed
<1>3. CASE HandleClosed(p)
  <2>1. UNCHANGED <<asked, ChunkData, closed, confirmed, tick, shared>>
    BY <1>3 DEF HandleClosed, chunks
  <2>2. /\ PlayerNeedsChunk' \in [Players -> SUBSET asked']
        /\ PlayerHasChunk' \in [Players -> SUBSET asked']
        /\ shown' \in [Players -> SUBSET ChunkData']
    BY <1>3, <2>1 DEF HandleClosed, TypeOK
  <2>3. /\ EntityPosition' \in [Players -> Positions]
        /\ PlayerPosition' \in [Players -> Positions]
        /\ moved' \in [Players -> BOOLEAN]
        /\ state' \in [Players -> {"new", "world", "left"}]
    BY <1>3, Params DEF HandleClosed, TypeOK
  <2>4. /\ PlayerViewDistance' \in [Players -> 0 .. MAX_VIEW_DISTANCE \cup {None}]
        /\ PlayerTeleportRequest' \in [Players -> BOOLEAN]
        /\ DisconnectPlayer' \in [Players -> BOOLEAN]
    BY <1>3 DEF HandleClosed, TypeOK
  <2>5. QED  BY <2>1, <2>2, <2>3, <2>4 DEF TypeOK
<1>4. QED  BY <1>1, <1>2, <1>3

\* What the packets of a player change.
LEMMA PacketTypes ==
    ASSUME TypeOK, NEW p \in Players, TeleportConfirm(p) \/ ClientSettings(p) \/ Move(p)
    PROVE  TypeOK'
<1>1. CASE TeleportConfirm(p)
  BY <1>1 DEF TeleportConfirm, TypeOK, position, needed, chunks
<1>2. CASE ClientSettings(p)
  <2>1. PICK d \in Distances :
          LET distance == IF d > MAX_VIEW_DISTANCE THEN MAX_VIEW_DISTANCE ELSE d
              view     == View(EntityPosition[p], distance)
          IN /\ PlayerViewDistance' = [PlayerViewDistance EXCEPT ![p] = distance]
             /\ PlayerNeedsChunk' = [PlayerNeedsChunk EXCEPT ![p] = @ \cup view]
             /\ asked' = asked \cup view
    BY <1>2 DEF ClientSettings
  <2> DEFINE distance == IF d > MAX_VIEW_DISTANCE THEN MAX_VIEW_DISTANCE ELSE d
             view     == View(EntityPosition[p], distance)
  <2>2. distance \in 0 .. MAX_VIEW_DISTANCE /\ view \subseteq Chunk
    BY DistanceIsCut, ViewIsInArea
  <2>3. /\ PlayerViewDistance' = [PlayerViewDistance EXCEPT ![p] = distance]
        /\ PlayerNeedsChunk' = [PlayerNeedsChunk EXCEPT ![p] = @ \cup view]
        /\ asked' = asked \cup view
    BY <2>1
  <2> HIDE DEF distance, view
  <2>4. UNCHANGED <<state, closed, EntityPosition, PlayerPosition, moved, PlayerTeleportRequest,
                    confirmed, DisconnectPlayer, PlayerHasChunk, ChunkData, shown, tick, shared>>
    BY <1>2 DEF ClientSettings, position, flags
  <2>5. asked \subseteq asked' /\ asked' \subseteq Chunk /\ ChunkData' \subseteq asked'
    BY <2>2, <2>3, <2>4 DEF TypeOK
  <2>6. /\ PlayerNeedsChunk' \in [Players -> SUBSET asked']
        /\ PlayerHasChunk' \in [Players -> SUBSET asked']
    BY <2>3, <2>4, <2>5 DEF TypeOK
  <2>7. PlayerViewDistance' \in [Players -> 0 .. MAX_VIEW_DISTANCE \cup {None}]
    BY <2>2, <2>3 DEF TypeOK
  <2>8. QED  BY <2>4, <2>5, <2>6, <2>7 DEF TypeOK
<1>3. CASE Move(p)
  BY <1>3 DEF Move, TypeOK, flags, needed, chunks
<1>4. QED  BY <1>1, <1>2, <1>3

\* What becomes of a player that moved.
LEMMA CommitTypes ==
    ASSUME TypeOK, PlayerCommitPosition
    PROVE  TypeOK'
<1>1. PICK first \in [Movers -> Movers] :
        /\ Layout(first)
        /\ PlayerNeedsChunk' = [p \in Players |-> PlayerNeedsChunk[p] \cup IntoView(first, p)]
        /\ PlayerHasChunk' = [p \in Players |-> PlayerHasChunk[p] \ OutOfView(first, p)]
        /\ shown' = [p \in Players |->
             shown[p] \ UNION {OutOfView(first, q) : q \in SentTo(first, p)}]
        /\ asked' = asked \cup
             UNION {Old(first, p) \cup New(first, p) :
                      p \in {q \in Movers : Old(first, q) # New(first, q)}}
  BY DEF PlayerCommitPosition
<1>2. \A p \in Movers : Old(first, p) \subseteq Chunk /\ New(first, p) \subseteq Chunk
  BY ViewIsInArea DEF Old, New
<1>3. asked \subseteq asked' /\ asked' \subseteq Chunk /\ ChunkData' = ChunkData
  BY <1>1, <1>2 DEF TypeOK, PlayerCommitPosition
<1>4. ASSUME NEW p \in Players
      PROVE  IntoView(first, p) \subseteq asked'
  <2>1. CASE p \in Movers /\ Old(first, p) # New(first, p)
    <3>1. New(first, p) \subseteq asked'
      BY <1>1, <2>1
    <3>2. QED  BY <3>1 DEF IntoView
  <2>2. CASE ~(p \in Movers /\ Old(first, p) # New(first, p))
    BY <2>2 DEF IntoView
  <2>3. QED  BY <2>1, <2>2
<1>5. /\ PlayerNeedsChunk' \in [Players -> SUBSET asked']
      /\ PlayerHasChunk' \in [Players -> SUBSET asked']
      /\ shown' \in [Players -> SUBSET ChunkData']
  <2>1. \A p \in Players : /\ PlayerNeedsChunk[p] \subseteq asked
                           /\ PlayerHasChunk[p] \subseteq asked
                           /\ shown[p] \subseteq ChunkData
    BY DEF TypeOK
  <2>2. QED  BY <1>1, <1>3, <1>4, <2>1
<1>6. EntityPosition' \in [Players -> Positions]
  <2>1. \A p \in Players : Committed(p) \in Positions
    BY DEF TypeOK, Committed
  <2>2. QED  BY <2>1 DEF PlayerCommitPosition
<1>7. moved' \in [Players -> BOOLEAN] /\ DisconnectPlayer' \in [Players -> BOOLEAN]
  BY DEF TypeOK, PlayerCommitPosition
<1>8. shared' \subseteq Players
  BY WorldIsPlayers DEF TypeOK, PlayerCommitPosition, Sharing
<1>9. QED  BY <1>3, <1>5, <1>6, <1>7, <1>8 DEF TypeOK, PlayerCommitPosition

LEMMA TickTypes ==
    ASSUME TypeOK, Tick \/ UNCHANGED vars
    PROVE  TypeOK'
<1>1. CASE HandleGeneratedChunks
  <2>1. ChunkData \subseteq ChunkData' /\ ChunkData' \subseteq asked' /\ asked' = asked
    BY <1>1 DEF HandleGeneratedChunks, TypeOK
  <2>2. shown' \in [Players -> SUBSET ChunkData']
    BY <1>1, <2>1 DEF HandleGeneratedChunks, TypeOK
  <2>3. QED  BY <1>1, <2>1, <2>2 DEF HandleGeneratedChunks, TypeOK, position, flags, needed
<1>2. CASE EventsDone
  BY <1>2 DEF EventsDone, TypeOK, position, flags, needed, chunks
<1>3. CASE PacketsDone
  BY <1>3 DEF PacketsDone, TypeOK, position, needed, chunks
<1>4. CASE PlayerCommitPosition
  BY <1>4, CommitTypes
<1>5. CASE SyncChunks
  <2>1. \A p \in Players : Ready(p) \subseteq ChunkData
    BY DEF Ready
  <2>2. UNCHANGED <<asked, ChunkData>> /\ ChunkData \subseteq asked
    BY <1>5 DEF SyncChunks, chunks, TypeOK
  <2>3. /\ PlayerNeedsChunk' \in [Players -> SUBSET asked']
        /\ PlayerHasChunk' \in [Players -> SUBSET asked']
        /\ shown' \in [Players -> SUBSET ChunkData']
    BY <1>5, <2>1, <2>2 DEF SyncChunks, TypeOK
  <2>4. QED  BY <1>5, <2>3 DEF SyncChunks, TypeOK, position, flags, chunks
<1>6. CASE DisconnectPlayers
  BY <1>6 DEF DisconnectPlayers, TypeOK, position, flags, needed, chunks
<1>7. CASE UNCHANGED vars
  BY <1>7 DEF vars, TypeOK, position, flags, needed, chunks
<1>8. QED  BY <1>1, <1>2, <1>3, <1>4, <1>5, <1>6, <1>7 DEF Tick

LEMMA NextTypes == TypeOK /\ [Next]_vars => TypeOK'
  BY EventTypes, PacketTypes, TickTypes DEF Next, PlayerStep

\* The components of players, and with them: what a player needs or has was asked
\* for and so has an entity, and only chunks with data are ever sent.
THEOREM ViewTypes == Spec => []TypeOK
  BY InitTypes, NextTypes, PTL DEF Spec

-----------------------------------------------------------------------------
(* Views.                                                                  *)

\* What IInv says of a player.
Covered(p) ==
    Settled(p) => View(EntityPosition[p], PlayerViewDistance[p])
                    \subseteq PlayerNeedsChunk[p] \cup PlayerHasChunk[p]

ViewOk(p) ==
    /\ state[p] # "world" => PlayerViewDistance[p] = None
    /\ shown[p] = PlayerHasChunk[p]
    /\ Covered(p)

LEMMA EachView == IInv <=> TypeOK /\ \A p \in Players \ shared : ViewOk(p)
  BY DEF IInv, ViewOk, Covered, ViewIsCovered

LEMMA EachViewNext == IInv' <=> TypeOK' /\ \A p \in Players \ shared' : ViewOk(p)'
  BY DEF IInv, ViewOk, Covered, ViewIsCovered

\* A player of which nothing changes, or who only leaves the view to its fate.
LEMMA ViewStays ==
    ASSUME TypeOK, NEW p \in Players, ViewOk(p),
           state'[p] = state[p], EntityPosition'[p] = EntityPosition[p],
           PlayerViewDistance'[p] = PlayerViewDistance[p],
           PlayerNeedsChunk'[p] = PlayerNeedsChunk[p],
           PlayerHasChunk'[p] = PlayerHasChunk[p], shown'[p] = shown[p],
           closed[p] => closed'[p], DisconnectPlayer[p] => DisconnectPlayer'[p]
    PROVE  ViewOk(p)'
<1>1. Settled(p)' => Settled(p)
  BY DEF Settled, World
<1>2. View(EntityPosition[p], PlayerViewDistance[p])' = View(EntityPosition[p], PlayerViewDistance[p])
  BY DEF View
<1>3. QED  BY <1>1, <1>2 DEF ViewOk, Covered

LEMMA InitViews == Init => IInv
<1> SUFFICES ASSUME Init PROVE IInv
  OBVIOUS
<1>1. \A p \in Players : ViewOk(p)
  BY DEF Init, ViewOk, Covered, Settled, World
<1>2. QED  BY <1>1, InitTypes, EachView

LEMMA EventViews ==
    ASSUME TypeOK, NEW p \in Players, Leave(p) \/ HandleNewPlayer(p) \/ HandleClosed(p),
           NEW q \in Players, ViewOk(q)
    PROVE  ViewOk(q)'
<1>1. CASE Leave(p)
  <2>1. /\ UNCHANGED <<state, EntityPosition, PlayerViewDistance, PlayerNeedsChunk, PlayerHasChunk,
                       shown, DisconnectPlayer>>
        /\ closed[q] => closed'[q]
    BY <1>1 DEF Leave, TypeOK, position, flags, needed
  <2>2. QED  BY <2>1, ViewStays
<1>2. CASE HandleNewPlayer(p)
  <2>1. /\ state[p] = "new" /\ state' = [state EXCEPT ![p] = "world"]
        /\ UNCHANGED <<closed, EntityPosition, PlayerViewDistance, PlayerNeedsChunk, PlayerHasChunk,
                       shown, DisconnectPlayer>>
    BY <1>2 DEF HandleNewPlayer, TypeOK, position, needed
  <2>2. CASE q = p
    BY <2>1, <2>2 DEF ViewOk, Covered, Settled, TypeOK
  <2>3. CASE q # p
    <3>1. state'[q] = state[q]
      BY <2>1, <2>3 DEF TypeOK
    <3>2. QED  BY <2>1, <3>1, ViewStays
  <2>4. QED  BY <2>2, <2>3
<1>3. CASE HandleClosed(p)
  <2>1. CASE q = p
    <3>1. /\ state'[q] = "left" /\ PlayerViewDistance'[q] = None
          /\ shown'[q] = {} /\ PlayerHasChunk'[q] = {}
      BY <1>3, <2>1 DEF HandleClosed, TypeOK
    <3>2. QED  BY <3>1 DEF ViewOk, Covered, Settled
  <2>2. CASE q # p
    <3>1. /\ state'[q] = state[q] /\ EntityPosition'[q] = EntityPosition[q]
          /\ PlayerViewDistance'[q] = PlayerViewDistance[q]
          /\ closed' = closed /\ DisconnectPlayer'[q] = DisconnectPlayer[q]
      BY <1>3, <2>2 DEF HandleClosed, TypeOK
    <3>2. /\ PlayerNeedsChunk'[q] = PlayerNeedsChunk[q]
          /\ PlayerHasChunk'[q] = PlayerHasChunk[q] /\ shown'[q] = shown[q]
      BY <1>3, <2>2 DEF HandleClosed, TypeOK
    <3>3. QED  BY <3>1, <3>2, ViewStays
  <2>3. QED  BY <2>1, <2>2
<1>4. QED  BY <1>1, <1>2, <1>3

LEMMA PacketViews ==
    ASSUME TypeOK, NEW p \in Players, TeleportConfirm(p) \/ ClientSettings(p) \/ Move(p),
           NEW q \in Players, ViewOk(q)
    PROVE  ViewOk(q)'
<1>1. CASE TeleportConfirm(p) \/ Move(p)
  <2>1. /\ UNCHANGED <<state, EntityPosition, PlayerViewDistance, PlayerNeedsChunk, PlayerHasChunk,
                       shown, DisconnectPlayer>>
        /\ closed[q] => closed'[q]
    BY <1>1 DEF TeleportConfirm, Move, TypeOK, position, flags, needed
  <2>2. QED  BY <2>1, ViewStays
<1>2. CASE ClientSettings(p)
  <2>1. PICK d \in Distances :
          LET distance == IF d > MAX_VIEW_DISTANCE THEN MAX_VIEW_DISTANCE ELSE d
              view     == View(EntityPosition[p], distance)
          IN /\ PlayerViewDistance' = [PlayerViewDistance EXCEPT ![p] = distance]
             /\ PlayerNeedsChunk' = [PlayerNeedsChunk EXCEPT ![p] = @ \cup view]
             /\ asked' = asked \cup view
    BY <1>2 DEF ClientSettings
  <2> DEFINE distance == IF d > MAX_VIEW_DISTANCE THEN MAX_VIEW_DISTANCE ELSE d
             view     == View(EntityPosition[p], distance)
  <2>2. /\ PlayerViewDistance' = [PlayerViewDistance EXCEPT ![p] = distance]
        /\ PlayerNeedsChunk' = [PlayerNeedsChunk EXCEPT ![p] = @ \cup view]
    BY <2>1
  <2> HIDE DEF distance
  <2>3. /\ UNCHANGED <<state, closed, EntityPosition, DisconnectPlayer, PlayerHasChunk, shown>>
        /\ state[p] = "world"
    BY <1>2 DEF ClientSettings, position, flags, World
  <2>4. CASE q = p
    <3>1. /\ PlayerViewDistance'[q] = distance
          /\ PlayerNeedsChunk'[q] = PlayerNeedsChunk[q] \cup view
      BY <2>2, <2>4 DEF TypeOK
    <3>2. View(EntityPosition[q], PlayerViewDistance[q])' = view
      BY <2>3, <2>4, <3>1 DEF View
    <3>3. Covered(q)'
      BY <3>1, <3>2 DEF Covered
    <3>4. QED  BY <2>3, <2>4, <3>3 DEF ViewOk
  <2>5. CASE q # p
    <3>1. /\ PlayerViewDistance'[q] = PlayerViewDistance[q]
          /\ PlayerNeedsChunk'[q] = PlayerNeedsChunk[q]
      BY <2>2, <2>5 DEF TypeOK
    <3>2. QED  BY <2>3, <3>1, ViewStays
  <2>6. QED  BY <2>4, <2>5
<1>3. QED  BY <1>1, <1>2

\* A mover that looks like no other is the first of its array, and no unload
\* packet of another goes to a player that looks like no other mover.
LEMMA OwnViews ==
    ASSUME NEW first \in [Movers -> Movers], Layout(first), NEW p \in Players \ Sharing
    PROVE  /\ p \in Movers =>
                /\ Old(first, p) = View(EntityPosition[p], PlayerViewDistance[p])
                /\ New(first, p) = View(PlayerPosition[p], PlayerViewDistance[p])
           /\ UNION {OutOfView(first, q) : q \in SentTo(first, p)} = OutOfView(first, p)
<1>1. ASSUME p \in Movers
      PROVE  first[p] = p
  BY <1>1 DEF Layout, Sharing
<1>2. ASSUME NEW q \in Movers, first[q] = p
      PROVE  q = p
  <2>1. p \in Movers /\ Archetype(p) = Archetype(q)
    BY <1>2 DEF Layout
  <2>2. QED  BY <1>2, <2>1 DEF Sharing
<1>3. ASSUME p \in Movers
      PROVE  /\ Old(first, p) = View(EntityPosition[p], PlayerViewDistance[p])
             /\ New(first, p) = View(PlayerPosition[p], PlayerViewDistance[p])
  BY <1>1, <1>3 DEF Old, New
<1>4. CASE p \in Movers /\ Old(first, p) # New(first, p)
  <2>1. SentTo(first, p) = {p}
    BY <1>1, <1>2, <1>4 DEF SentTo
  <2>2. QED  BY <1>3, <2>1
<1>5. CASE ~(p \in Movers /\ Old(first, p) # New(first, p))
  <2>1. SentTo(first, p) = {}
    BY <1>2, <1>5 DEF SentTo
  <2>2. OutOfView(first, p) = {}
    BY <1>5 DEF OutOfView
  <2>3. QED  BY <1>3, <2>1, <2>2
<1>6. QED  BY <1>4, <1>5

\* A player that moved gets what comes into its view and loses what goes out.
LEMMA CommitViews ==
    ASSUME TypeOK, PlayerCommitPosition, NEW q \in Players \ Sharing, ViewOk(q)
    PROVE  ViewOk(q)'
<1>1. PICK first \in [Movers -> Movers] :
        /\ Layout(first)
        /\ PlayerNeedsChunk' = [p \in Players |-> PlayerNeedsChunk[p] \cup IntoView(first, p)]
        /\ PlayerHasChunk' = [p \in Players |-> PlayerHasChunk[p] \ OutOfView(first, p)]
        /\ shown' = [p \in Players |->
             shown[p] \ UNION {OutOfView(first, r) : r \in SentTo(first, p)}]
  BY DEF PlayerCommitPosition
<1>2. /\ tick = "commit" /\ UNCHANGED <<state, closed, PlayerViewDistance>>
      /\ EntityPosition'[q] = Committed(q)
      /\ DisconnectPlayer'[q] = (DisconnectPlayer[q] \/
           (q \in Movers /\ MovesTooFast(EntityPosition[q], PlayerPosition[q])))
  BY DEF PlayerCommitPosition
<1>3. /\ PlayerNeedsChunk'[q] = PlayerNeedsChunk[q] \cup IntoView(first, q)
      /\ PlayerHasChunk'[q] = PlayerHasChunk[q] \ OutOfView(first, q)
      /\ shown'[q] = shown[q] \ OutOfView(first, q)
  BY <1>1, <1>2, OwnViews
<1>4. CASE q \notin Movers
  <2>1. IntoView(first, q) = {} /\ OutOfView(first, q) = {} /\ Committed(q) = EntityPosition[q]
    BY <1>4 DEF IntoView, OutOfView, Committed
  <2>2. QED  BY <1>2, <1>3, <1>4, <2>1, ViewStays
<1>5. CASE q \in Movers
  <2>1. shown'[q] = PlayerHasChunk'[q]
    BY <1>3 DEF ViewOk
  <2>2. Covered(q)'
    <3>1. SUFFICES ASSUME Settled(q)'
                   PROVE  View(EntityPosition[q], PlayerViewDistance[q])'
                            \subseteq PlayerNeedsChunk'[q] \cup PlayerHasChunk'[q]
      BY DEF Covered
    <3>2. Settled(q) /\ ~MovesTooFast(EntityPosition[q], PlayerPosition[q])
      BY <1>2, <1>5, <3>1 DEF Settled, World
    <3>3. Committed(q) = PlayerPosition[q]
      BY <1>5, <3>2 DEF Committed
    <3>4. View(EntityPosition[q], PlayerViewDistance[q])' = New(first, q)
      <4>1. New(first, q) = View(PlayerPosition[q], PlayerViewDistance[q])
        BY <1>1, <1>2, <1>5, OwnViews
      <4>2. QED  BY <1>2, <3>3, <4>1 DEF View
    <3>5. Old(first, q) \subseteq PlayerNeedsChunk[q] \cup PlayerHasChunk[q]
      BY <1>1, <1>2, <1>5, <3>2, OwnViews DEF ViewOk, Covered
    <3>6. /\ IntoView(first, q) = New(first, q) \ Old(first, q)
          /\ OutOfView(first, q) = Old(first, q) \ New(first, q)
      BY <1>5 DEF IntoView, OutOfView
    <3>7. QED  BY <1>3, <3>4, <3>5, <3>6
  <2>3. QED  BY <1>2, <2>1, <2>2 DEF ViewOk
<1>6. QED  BY <1>4, <1>5

LEMMA TickViews ==
    ASSUME TypeOK, Tick \/ UNCHANGED vars, NEW q \in Players, ViewOk(q),
           PlayerCommitPosition => q \notin Sharing
    PROVE  ViewOk(q)'
<1>1. CASE HandleGeneratedChunks \/ EventsDone \/ PacketsDone \/ DisconnectPlayers \/ UNCHANGED vars
  <2>1. /\ UNCHANGED <<state, EntityPosition, PlayerViewDistance, PlayerNeedsChunk, PlayerHasChunk,
                       shown, DisconnectPlayer>>
        /\ closed[q] => closed'[q]
    BY <1>1 DEF HandleGeneratedChunks, EventsDone, PacketsDone, DisconnectPlayers, vars, TypeOK,
                position, flags, needed
  <2>2. QED  BY <2>1, ViewStays
<1>2. CASE PlayerCommitPosition
  BY <1>2, CommitViews
<1>3. CASE SyncChunks
  <2>1. /\ PlayerHasChunk'[q] = PlayerHasChunk[q] \cup Ready(q)
        /\ PlayerNeedsChunk'[q] = PlayerNeedsChunk[q] \ Ready(q)
        /\ shown'[q] = shown[q] \cup Ready(q)
        /\ UNCHANGED <<state, closed, EntityPosition, PlayerViewDistance, DisconnectPlayer>>
    BY <1>3 DEF SyncChunks, position, flags
  <2>2. Covered(q)'
    <3>1. Settled(q)' => Settled(q)
      BY <2>1 DEF Settled, World
    <3>2. View(EntityPosition[q], PlayerViewDistance[q])'
            = View(EntityPosition[q], PlayerViewDistance[q])
      BY <2>1 DEF View
    <3>3. QED  BY <2>1, <3>1, <3>2 DEF ViewOk, Covered
  <2>3. QED  BY <2>1, <2>2 DEF ViewOk
<1>4. QED  BY <1>1, <1>2, <1>3 DEF Tick

\* Once shared, always shared; a commit adds those that look alike.
LEMMA SharedNext ==
    ASSUME [Next]_vars
    PROVE  /\ shared \subseteq shared'
           /\ PlayerCommitPosition => shared' = shared \cup Sharing
           /\ shared' = shared \/ shared' = shared \cup Sharing
<1>1. CASE Tick
  BY <1>1 DEF Tick, HandleGeneratedChunks, EventsDone, PacketsDone, PlayerCommitPosition,
              SyncChunks, DisconnectPlayers
<1>2. CASE \E p \in Players : PlayerStep(p)
  <2>1. PICK p \in Players : PlayerStep(p)
    BY <1>2
  <2>2. shared' = shared
    BY <2>1 DEF PlayerStep, HandleNewPlayer, HandleClosed, Leave, TeleportConfirm,
                ClientSettings, Move
  <2>3. tick # "commit"  \/ tick' = "commit"
    BY <2>1 DEF PlayerStep, HandleNewPlayer, HandleClosed, Leave, TeleportConfirm,
                ClientSettings, Move
  <2>4. ~PlayerCommitPosition
    BY <2>3 DEF PlayerCommitPosition
  <2>5. QED  BY <2>2, <2>4
<1>3. CASE UNCHANGED vars
  BY <1>3 DEF vars, PlayerCommitPosition
<1>4. QED  BY <1>1, <1>2, <1>3 DEF Next

LEMMA NextViews == IInv /\ [Next]_vars => IInv'
<1> SUFFICES ASSUME IInv, [Next]_vars PROVE IInv'
  OBVIOUS
<1>1. TypeOK /\ TypeOK'
  BY NextTypes DEF IInv
<1>2. ASSUME NEW q \in Players \ shared'
      PROVE  ViewOk(q)'
  <2>1. ViewOk(q)
    BY EachView, SharedNext
  <2>2. PlayerCommitPosition => q \notin Sharing
    BY SharedNext
  <2>3. QED  BY <1>1, <2>1, <2>2, EventViews, PacketViews, TickViews DEF Next, PlayerStep
<1>3. QED  BY <1>1, <1>2, EachViewNext

\* The inductive invariant of the chunks of players.
THEOREM ViewsAreCorrect == Spec => []IInv
  BY InitViews, NextViews, PTL DEF Spec

\* However many players there are and whatever the others do: PlayerHasChunk, from
\* which the server decides what to send and to unload, is what the client has,
\* unless the player itself once moved in one array with another.
THEOREM ServerKnowsTheClient == Spec => []HasWhatIsShown
<1>1. IInv => HasWhatIsShown
  BY WorldIsPlayers DEF IInv, HasWhatIsShown
<1>2. QED  BY <1>1, ViewsAreCorrect, PTL

\* However a player walks and whatever view distances it asks for, no chunk of its
\* view is forgotten, unless it once moved in one array with another.
THEOREM ViewIsNeverForgotten == Spec => []ViewIsCovered
<1>1. IInv => ViewIsCovered
  BY DEF IInv
<1>2. QED  BY <1>1, ViewsAreCorrect, PTL

\* A player alone in the world is not excepted: it never moves in one array with
\* another, it has its view, and the server knows what it has.
THEOREM AloneAllIsSeen ==
    ASSUME \A p, q \in Players : p = q
    PROVE  Spec => [](shared = {} /\ ViewIsCovered /\ HasWhatIsShown)
<1>1. Sharing = {}
  BY WorldIsPlayers DEF Sharing
<1>2. Init => shared = {}
  BY DEF Init
<1>3. shared = {} /\ [Next]_vars => (shared = {})'
  BY <1>1, SharedNext
<1>4. Spec => [](shared = {})
  BY <1>2, <1>3, PTL DEF Spec
<1>5. QED  BY <1>4, ServerKnowsTheClient, ViewIsNeverForgotten, PTL

=============================================================================
