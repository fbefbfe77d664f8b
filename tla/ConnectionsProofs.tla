-------------------------- MODULE ConnectionsProofs --------------------------
(***************************************************************************)
(* Theorems about Connections, for every set of connections, backlog and   *)
(* bound, and for every choice of packets and faults: type correctness,    *)
(* that until the ring is torn no connection is freed while somebody still *)
(* holds it (NoDangling, through the inductive invariant IInv), and that   *)
(* the ring is not torn before a player's connection was freed.            *)
(*                                                                         *)
(* Most steps move a reference from one holder to another and leave        *)
(* ref_count alone; QuietStep deals with all of them at once.  What is     *)
(* left are the steps that take a reference or give one up.                *)
(***************************************************************************)
EXTENDS Connections, SequenceTheorems, FiniteSetTheorems, TLAPS

-----------------------------------------------------------------------------
(* Type correctness.                                                       *)

\* Popping the entry added last leaves a sequence over the same set, and the
\* entry popped is of that set.
LEMMA PopTypes ==
    ASSUME NEW S, NEW q \in Seq(S), q # <<>>
    PROVE  Last(q) \in S /\ Front(q) \in Seq(S)
<1>1. Len(q) \in Nat /\ Len(q) >= 1
  BY EmptySeq, LenProperties
<1>2. Last(q) \in S
  BY <1>1, ElementOfSeq DEF Last
<1>3. Front(q) \in Seq(S)
  BY <1>1, SubSeqProperties DEF Front
<1>4. QED  BY <1>2, <1>3

\* The places a handler can be at, with the connection it needs there.
LEMMA AtTypes ==
    /\ Idle \in ThreadState
    /\ \A c \in Conns, n \in Int :
         /\ At("recv", c, n) \in ThreadState
         /\ At("create", c, n) \in ThreadState
         /\ At("load", c, n) \in ThreadState
         /\ At("store", c, n) \in ThreadState
         /\ At("tell", c, n) \in ThreadState
    /\ \A n \in Int :
         /\ At("rearm", None, n) \in ThreadState
         /\ At("count", None, n) \in ThreadState
         /\ At("accept", None, n) \in ThreadState
         /\ At("tail", None, n) \in ThreadState
         /\ At("fill", None, n) \in ThreadState
         /\ At("flag", None, n) \in ThreadState
BY DEF Idle, At, ThreadState

\* A thread that works on a connection has one, and its register is a number.
LEMMA ThreadTypes ==
    ASSUME LoopType, NEW t \in Threads
    PROVE  /\ thr[t].reg \in Int
           /\ thr[t].at \in {"recv", "create", "load", "store", "tell"}
                => thr[t].conn \in Conns
BY DEF LoopType, ThreadState

\* A step of a handler keeps the threads' type.
LEMMA GoesType ==
    ASSUME LoopType, NEW t \in Threads, NEW s \in ThreadState, Goes(t, s)
    PROVE  thr' \in [Threads -> ThreadState]
BY DEF LoopType, Goes

\* Every step of release_connection and frontend_accept keeps the types.
LEMMA ReleasesType ==
    ASSUME TypeOK, NEW t \in Threads, Releases(t)
    PROVE  TypeOK'
<1> USE DEF TypeOK
<1>1. CASE ReleaseLoad(t)
  <2>1. thr[t].conn \in Conns /\ ref_count[thr[t].conn] \in Int
    BY <1>1, ThreadTypes DEF ReleaseLoad, ConnType
  <2>2. thr' \in [Threads -> ThreadState]
    BY <1>1, <2>1, AtTypes, GoesType DEF ReleaseLoad
  <2>3. QED
    BY <1>1, <2>2 DEF ReleaseLoad, conn, ops, ring, accepts, inbox, outbox, world,
                      ConnType, OpsType, AcceptType, LoopType, QueueType, WorldType
<1>2. CASE ReleaseStore(t)
  <2>1. thr[t].conn \in Conns /\ thr[t].reg - 1 \in Int /\ total \in Int
    BY <1>2, ThreadTypes DEF ReleaseStore, LoopType
  <2>2. thr' \in [Threads -> ThreadState]
    BY <1>2, <2>1, AtTypes, GoesType DEF ReleaseStore
  <2>3. ConnType'
    BY <1>2, <2>1 DEF ReleaseStore, ConnType
  <2>4. QED
    BY <1>2, <2>2, <2>3 DEF ReleaseStore, ops, ring, accepts, inbox, outbox, world,
                      OpsType, AcceptType, LoopType, QueueType, WorldType
<1>3. CASE ReleaseCount(t)
  <2>1. total' \in Int
    BY <1>3, ThreadTypes DEF ReleaseCount
  <2>2. thr' \in [Threads -> ThreadState]
    BY <1>3, AtTypes, GoesType DEF ReleaseCount, AcceptUnlessAccepting
  <2>3. QED
    BY <1>3, <2>1, <2>2 DEF ReleaseCount, conn, ops, ring, accepts, inbox, outbox, world,
                      ConnType, OpsType, AcceptType, LoopType, QueueType, WorldType
<1>4. CASE FrontendAccept(t)
  <2>1. thr' \in [Threads -> ThreadState]
    BY <1>4, AtTypes, GoesType
       DEF FrontendAccept, ReadTail, MoveTail, FillEntry, SetAccepting
  <2>2. AcceptType'
    <3>1. ReadTail(t) \/ FillEntry(t) => AcceptType'
      BY DEF ReadTail, FillEntry, AcceptType, ring, accepts
    <3>2. MoveTail(t) => AcceptType'
      BY DEF MoveTail, TakesEntry, AcceptType, accepts
    <3>3. SetAccepting(t) => AcceptType'
      <4>1. SetAccepting(t) => m_accepting' \in BOOLEAN
        BY DEF SetAccepting
      <4>2. QED  BY <4>1 DEF SetAccepting, AcceptType
    <3>4. QED  BY <1>4, <3>1, <3>2, <3>3 DEF FrontendAccept
  <2>3. QED
    BY <1>4, <2>1, <2>2
       DEF FrontendAccept, ReadTail, MoveTail, FillEntry, SetAccepting, conn, ops, inbox,
           outbox, world, ConnType, OpsType, LoopType, QueueType, WorldType
<1>5. QED  BY <1>1, <1>2, <1>3, <1>4 DEF Releases

\* disconnect_connection sets a flag, may queue an event, and goes on to
\* release the connection.
LEMMA DisconnectType ==
    ASSUME TypeOK, NEW t \in Threads, NEW c \in Conns, Disconnect(t, c)
    PROVE  /\ disconnect' \in [Conns -> BOOLEAN]
           /\ eventsIn' \in Seq(Event)
           /\ thr' \in [Threads -> ThreadState]
<1>1. Closed(entity[c]) \in Event
  BY DEF TypeOK, ConnType, Closed, Event
<1>2. eventsIn' \in Seq(Event)
  BY <1>1, AppendProperties DEF TypeOK, QueueType, Disconnect
<1>3. thr' \in [Threads -> ThreadState]
  BY AtTypes, GoesType DEF TypeOK, Disconnect
<1>4. QED  BY <1>2, <1>3 DEF TypeOK, ConnType, Disconnect

\* A packet handled by connection_on_recv keeps the types.
LEMMA OnRecvType ==
    ASSUME TypeOK, NEW c \in Conns, OnRecv(c)
    PROVE  TypeOK'
<1> USE DEF TypeOK
<1>0. "frontend" \in Threads
  BY DEF Threads
<1>1. CASE ProtocolViolation(c)
  BY <1>0, <1>1, DisconnectType DEF ProtocolViolation, ops, ring, accepts, outbox, world,
     ConnType, OpsType, AcceptType, LoopType, QueueType, WorldType
<1>2. CASE Handshake(c)
  <2>1. state' \in [Conns -> ConnState]
    BY <1>2, ConnectionsAssumption DEF Handshake, ConnType, ConnState
  <2>2. QED
    BY <1>2, <2>1 DEF Handshake, ops, ring, accepts, inbox, outbox, world,
       ConnType, OpsType, AcceptType, LoopType, QueueType, WorldType
<1>3. CASE BadVersion(c)
  <2>1. Disconnect("frontend", c)
    BY <1>3 DEF BadVersion
  <2>2. ConnType' /\ OpsType' /\ AcceptType'
    BY <1>0, <1>3, <2>1, DisconnectType
       DEF BadVersion, FrontendSend, TakesEntry, accepts, ConnType, OpsType, AcceptType,
           ConnState
  <2>3. QED
    BY <1>0, <1>3, <2>1, <2>2, DisconnectType DEF BadVersion, outbox, world,
       LoopType, QueueType, WorldType
<1>4. CASE StatusRequest(c)
  <2>1. ConnType' /\ OpsType' /\ AcceptType'
    BY <1>4 DEF StatusRequest, FrontendSend, TakesEntry, accepts, ConnType, OpsType,
                AcceptType
  <2>2. QED
    BY <1>4, <2>1 DEF StatusRequest, inbox, outbox, world, LoopType, QueueType, WorldType
<1>5. CASE LoginStart(c)
  <2>1. ConnType' /\ OpsType' /\ AcceptType'
    BY <1>5 DEF LoginStart, FrontendSend, TakesEntry, accepts, ConnType, OpsType,
                AcceptType, ConnState
  <2>2. eventsIn' \in Seq(Event)
    BY <1>5, AppendProperties DEF LoginStart, QueueType, NewPlayer, Event
  <2>3. QED
    BY <1>5, <2>1, <2>2 DEF LoginStart, outbox, world, LoopType, QueueType, WorldType
<1>6. CASE PlayPacket(c)
  <2>1. packetsIn' \in Seq(Packet)
    <3>1. PICK k \in PlayPackets :
            packetsIn' = Append(packetsIn,
                                [from |-> c, entity |-> entity[c], kind |-> k])
      BY <1>6 DEF PlayPacket
    <3>2. [from |-> c, entity |-> entity[c], kind |-> k] \in Packet
      BY DEF Packet, ConnType
    <3>3. QED  BY <3>1, <3>2, AppendProperties DEF QueueType
  <2>2. QED
    BY <1>6, <2>1 DEF PlayPacket, conn, ops, ring, accepts, outbox, world,
       ConnType, OpsType, AcceptType, LoopType, QueueType, WorldType
<1>7. CASE FinishRecv(c)
  <2>1. thr' \in [Threads -> ThreadState]
    BY <1>0, <1>7, AtTypes, GoesType DEF FinishRecv
  <2>2. OpsType'
    BY <1>7 DEF FinishRecv, OpsType
  <2>3. QED
    BY <1>7, <2>1, <2>2 DEF FinishRecv, TakesEntry, conn, accepts, inbox, outbox, world,
       ConnType, AcceptType, LoopType, QueueType, WorldType
<1>8. CASE NoMemoryForAnswer(c)
  <2>1. thr' \in [Threads -> ThreadState]
    BY <1>0, <1>8, AtTypes, GoesType DEF NoMemoryForAnswer
  <2>2. state' \in [Conns -> ConnState]
    BY <1>8 DEF NoMemoryForAnswer, ConnType, ConnState
  <2>3. QED
    BY <1>8, <2>1, <2>2 DEF NoMemoryForAnswer, ops, ring, accepts, inbox, outbox, world,
       ConnType, OpsType, AcceptType, LoopType, QueueType, WorldType
<1>9. QED
  BY <1>1, <1>2, <1>3, <1>4, <1>5, <1>6, <1>7, <1>8 DEF OnRecv

\* A step of the frontend keeps the types.
LEMMA FrontendType ==
    ASSUME TypeOK, FrontendNext
    PROVE  TypeOK'
<1> USE DEF TypeOK
<1>0. "frontend" \in Threads
  BY DEF Threads
<1>1. CASE Submit
  BY <1>1 DEF Submit, conn, inbox, outbox, world,
     ConnType, OpsType, AcceptType, LoopType, QueueType, WorldType
<1>2. CASE AcceptDone
  <2>1. thr' \in [Threads -> ThreadState]
    BY <1>0, <1>2, AtTypes, GoesType DEF AcceptDone, LoopType
  <2>2. /\ acceptArmed > 0 /\ acceptArmed' = acceptArmed - 1
        /\ m_accepting' = FALSE /\ acceptStaged' = acceptStaged /\ fate' = fate
    BY <1>2 DEF AcceptDone
  <2>3. acceptArmed' \in Nat
    BY <2>2 DEF AcceptType
  <2>4. m_accepting' \in BOOLEAN
    BY <2>2
  <2>5. AcceptType'
    BY <2>2, <2>3, <2>4 DEF AcceptType
  <2>6. QED
    BY <1>2, <2>1, <2>5 DEF AcceptDone, Completion, conn, ops, inbox, outbox, world,
       ConnType, OpsType, LoopType, QueueType, WorldType
<1>3. CASE AcceptFails
  BY <1>3 DEF AcceptFails, conn, ops, inbox, outbox, world,
     ConnType, OpsType, AcceptType, LoopType, QueueType, WorldType
<1>4. CASE CreateConnection
  <2>1. Frontend.conn \in Conns /\ Frontend.reg \in Int
    BY <1>0, <1>4, ThreadTypes DEF CreateConnection, Frontend
  <2>2. thr' \in [Threads -> ThreadState]
    BY <1>0, <1>4, AtTypes, GoesType DEF CreateConnection
  <2>3. ConnType' /\ OpsType' /\ AcceptType'
    BY <1>4, <2>1 DEF CreateConnection, TakesEntry, accepts, ConnType, OpsType, AcceptType
  <2>4. QED
    BY <1>4, <2>1, <2>2, <2>3 DEF CreateConnection, inbox, outbox, world,
       LoopType, QueueType, WorldType
<1>5. CASE Rearm
  <2>1. thr' \in [Threads -> ThreadState]
    BY <1>0, <1>5, AtTypes, GoesType DEF Rearm, AcceptUnlessAccepting
  <2>2. QED
    BY <1>5, <2>1 DEF Rearm, conn, ops, ring, accepts, inbox, outbox, world,
       ConnType, OpsType, AcceptType, LoopType, QueueType, WorldType
<1>6. ASSUME NEW c \in Conns, SendOk(c)
      PROVE  TypeOK'
  <2>1. thr' \in [Threads -> ThreadState]
    BY <1>0, <1>6, AtTypes, GoesType DEF SendOk
  <2>2. OpsType'
    BY <1>6 DEF SendOk, OpsType
  <2>3. QED
    BY <1>6, <2>1, <2>2 DEF SendOk, Completion, conn, ring, accepts, inbox, outbox, world,
       ConnType, AcceptType, LoopType, QueueType, WorldType
<1>7. ASSUME NEW c \in Conns, SendFails(c)
      PROVE  TypeOK'
  <2>1. OpsType'
    BY <1>7 DEF SendFails, OpsType
  <2>2. QED
    BY <1>0, <1>7, <2>1, DisconnectType DEF SendFails, Completion, ring, accepts, outbox, world,
       ConnType, AcceptType, LoopType, QueueType, WorldType
<1>8. ASSUME NEW c \in Conns, RecvEof(c)
      PROVE  TypeOK'
  <2>1. OpsType'
    BY <1>8 DEF RecvEof, OpsType
  <2>2. QED
    BY <1>0, <1>8, <2>1, DisconnectType DEF RecvEof, Completion, ring, accepts, outbox, world,
       ConnType, AcceptType, LoopType, QueueType, WorldType
<1>9. ASSUME NEW c \in Conns, RecvData(c)
      PROVE  TypeOK'
  <2>1. thr' \in [Threads -> ThreadState]
    BY <1>0, <1>9, AtTypes, GoesType DEF RecvData
  <2>2. OpsType'
    BY <1>9 DEF RecvData, OpsType
  <2>3. QED
    BY <1>9, <2>1, <2>2 DEF RecvData, Completion, conn, ring, accepts, inbox, outbox, world,
       ConnType, AcceptType, LoopType, QueueType, WorldType
<1>10. QED
  BY <1>0, <1>1, <1>2, <1>3, <1>4, <1>5, <1>6, <1>7, <1>8, <1>9,
     ReleasesType, OnRecvType DEF FrontendNext

\* A step of the backend keeps the types.
LEMMA BackendType ==
    ASSUME TypeOK, BackendNext
    PROVE  TypeOK'
<1> USE DEF TypeOK
<1>0. "backend" \in Threads
  BY DEF Threads
<1>1. CASE Switch
  BY <1>1 DEF Switch, conn, ops, ring, accepts, world,
     ConnType, OpsType, AcceptType, LoopType, QueueType, WorldType
<1>2. CASE EventsDone \/ PacketsDone \/ FinalizeTick
  BY <1>2 DEF EventsDone, PacketsDone, FinalizeTick, conn, ops, ring, accepts, inbox, outbox,
     world, ConnType, OpsType, AcceptType, LoopType, QueueType, WorldType
<1>3. ASSUME NEW e, PopEvent(e)
      PROVE  eventsOut' \in Seq(Event) /\ e \in Event
  BY <1>3, PopTypes DEF PopEvent, QueueType
<1>4. ASSUME NEW p, PopPacket(p)
      PROVE  packetsOut' \in Seq(Packet) /\ p \in Packet
  BY <1>4, PopTypes DEF PopPacket, QueueType
<1>5. CASE SkipPacket
  <2>1. packetsOut' \in Seq(Packet)
    BY <1>4, <1>5 DEF SkipPacket
  <2>2. QED
    BY <1>5, <2>1 DEF SkipPacket, conn, ops, ring, accepts, inbox, world,
       ConnType, OpsType, AcceptType, LoopType, QueueType, WorldType
<1>6. CASE HandlePacket
  <2>1. packetsOut' \in Seq(Packet)
    BY <1>4, <1>6 DEF HandlePacket
  <2>2. kick' \subseteq Conns
    BY <1>6 DEF HandlePacket, WorldType
  <2>3. tick' \in {tick, "stopped"}
    BY <1>6 DEF HandlePacket
  <2>4. QED
    BY <1>6, <2>1, <2>2, <2>3 DEF HandlePacket, conn, ops, ring, accepts, inbox,
       ConnType, OpsType, AcceptType, LoopType, QueueType, WorldType
<1>7. CASE HandleBadPacket
  <2>1. PICK p \in Packet :
          /\ PopPacket(p)
          /\ p.entity \in alive
          /\ Disconnect("backend", p.entity)
          /\ kicked' = kicked \cup {p.entity}
    BY <1>7 DEF HandleBadPacket
  <2>2. p.entity \in Conns /\ packetsOut' \in Seq(Packet)
    BY <1>4, <2>1 DEF WorldType
  <2>3. QED
    BY <1>0, <1>7, <2>1, <2>2, DisconnectType DEF HandleBadPacket, ops, ring, accepts, world,
       ConnType, OpsType, AcceptType, LoopType, QueueType, WorldType
<1>8. ASSUME NEW c \in Conns, HandleNewPlayer(c)
      PROVE  TypeOK'
  <2>1. eventsOut' \in Seq(Event)
    BY <1>3, <1>8 DEF HandleNewPlayer
  <2>2. thr' \in [Threads -> ThreadState]
    BY <1>0, <1>8, AtTypes, GoesType DEF HandleNewPlayer
  <2>3. QED
    BY <1>8, <2>1, <2>2 DEF HandleNewPlayer, conn, ops, ring, accepts, inbox,
       ConnType, OpsType, AcceptType, LoopType, QueueType, WorldType
<1>9. ASSUME NEW c \in Conns, KickPlayer(c)
      PROVE  TypeOK'
  BY <1>0, <1>9, DisconnectType DEF KickPlayer, ops, ring, accepts, outbox,
     ConnType, OpsType, AcceptType, LoopType, QueueType, WorldType
<1>10. ASSUME NEW e \in Conns \cup {None}, HandleClosed(e)
      PROVE  TypeOK'
  <2>1. eventsOut' \in Seq(Event)
    BY <1>3, <1>10 DEF HandleClosed
  <2>2. thr' \in [Threads -> ThreadState]
    BY <1>0, <1>10, AtTypes, GoesType DEF HandleClosed, WorldType, LoopType
  <2>3. QED
    BY <1>10, <2>1, <2>2 DEF HandleClosed, conn, ops, ring, accepts, inbox,
       ConnType, OpsType, AcceptType, LoopType, QueueType, WorldType
<1>11. ASSUME NEW c \in Conns, TellEntity(c)
       PROVE  TypeOK'
  <2>1. thr' \in [Threads -> ThreadState]
    BY <1>0, <1>11, AtTypes, GoesType DEF TellEntity
  <2>2. QED
    BY <1>11, <2>1 DEF TellEntity, ops, ring, accepts, inbox, outbox, world,
       ConnType, OpsType, AcceptType, LoopType, QueueType, WorldType
<1>12. QED
  BY <1>0, <1>1, <1>2, <1>5, <1>6, <1>7, <1>8, <1>9, <1>10, <1>11, ReleasesType
     DEF BackendNext

\* The variables always have their types, in particular the operations in
\* flight never become negative and a handler works on a real connection.
THEOREM TypeCorrect == Spec => []TypeOK
<1>1. Init => TypeOK
  BY ConnectionsAssumption, AtTypes, EmptySeq
     DEF Init, TypeOK, ConnType, OpsType, AcceptType, LoopType, QueueType, WorldType,
         ConnState
<1>2. TypeOK /\ [Next]_vars => TypeOK'
  <2>1. CASE UNCHANGED vars
    BY <2>1 DEF vars, conn, ops, ring, accepts, inbox, outbox, world, TypeOK, ConnType, OpsType,
                AcceptType, LoopType, QueueType, WorldType
  <2>2. QED  BY <2>1, FrontendType, BackendType DEF Next
<1>3. QED  BY <1>1, <1>2, PTL DEF Spec

-----------------------------------------------------------------------------
(* Counting holders.                                                       *)

LEMMA OneValues ==
    \A p \in BOOLEAN : /\ One(p) \in {0, 1}
                       /\ p <=> One(p) = 1
                       /\ ~p <=> One(p) = 0
BY DEF One

\* The three groups of holders are numbers, and each single holder counts.
LEMMA HolderCounts ==
    ASSUME TypeOK, NEW c \in Conns
    PROVE  /\ OpRefs(c) \in Nat /\ BackendRefs(c) \in Nat /\ ThreadRefs(c) \in Nat
           /\ Holders(c) \in Nat
           /\ (recv[c] # "none" \/ sendStaged[c] > 0 \/ sendFlight[c] > 0) => OpRefs(c) > 0
           /\ Queued(NewPlayer(c)) \/ c \in alive => BackendRefs(c) > 0
           /\ \A t \in Threads : Holds(t, c) => ThreadRefs(c) > 0
<1>1. sendStaged[c] \in Nat /\ sendFlight[c] \in Nat
  BY DEF TypeOK, OpsType
<1>2. /\ One(recv[c] # "none") \in {0, 1}
      /\ recv[c] # "none" => One(recv[c] # "none") = 1
  BY DEF One
<1>3. /\ OpRefs(c) \in Nat
      /\ (recv[c] # "none" \/ sendStaged[c] > 0 \/ sendFlight[c] > 0) => OpRefs(c) > 0
  BY <1>1, <1>2 DEF OpRefs
<1>4. /\ BackendRefs(c) \in Nat
      /\ Queued(NewPlayer(c)) \/ c \in alive => BackendRefs(c) > 0
  BY DEF BackendRefs, One
<1>5. /\ ThreadRefs(c) \in Nat
      /\ \A t \in Threads : Holds(t, c) => ThreadRefs(c) > 0
  BY DEF ThreadRefs, One, Threads
<1>6. QED  BY <1>3, <1>4, <1>5 DEF Holders

CountsAreNat ==
    \A c \in Conns : /\ OpRefs(c) \in Nat /\ BackendRefs(c) \in Nat
                     /\ ThreadRefs(c) \in Nat /\ Holders(c) \in Nat

LEMMA HoldersNat == TypeOK => CountsAreNat
BY HolderCounts DEF CountsAreNat

LEMMA AtFields ==
    /\ \A p, c, n : At(p, c, n).at = p /\ At(p, c, n).conn = c /\ At(p, c, n).reg = n
    /\ Idle.at = "run"
BY DEF At, Idle

\* A thread state that stands for a reference to c.
HoldsIn(s, c) == s.conn = c /\ s.at \in {"recv", "load", "store"}

\* A step of one thread's handler changes that thread's references only.
LEMMA GoesRefs ==
    ASSUME TypeOK, NEW t \in Threads, NEW s \in ThreadState, Goes(t, s), NEW c \in Conns
    PROVE  ThreadRefs(c)' = ThreadRefs(c) - One(Holds(t, c)) + One(HoldsIn(s, c))
<1>1. /\ thr'[t] = s
      /\ \A u \in Threads \ {t} : thr'[u] = thr[u]
  BY DEF TypeOK, LoopType, Goes
<1>2. CASE t = "frontend"
  <2>1. Holds("backend", c)' <=> Holds("backend", c)
    BY <1>1, <1>2 DEF Holds, Threads
  <2>2. Holds("frontend", c)' <=> HoldsIn(s, c)
    BY <1>1, <1>2 DEF Holds, HoldsIn
  <2>3. QED  BY <1>2, <2>1, <2>2 DEF ThreadRefs, One
<1>3. CASE t = "backend"
  <2>1. Holds("frontend", c)' <=> Holds("frontend", c)
    BY <1>1, <1>3 DEF Holds, Threads
  <2>2. Holds("backend", c)' <=> HoldsIn(s, c)
    BY <1>1, <1>3 DEF Holds, HoldsIn
  <2>3. QED  BY <1>3, <2>1, <2>2 DEF ThreadRefs, One
<1>4. QED  BY <1>2, <1>3 DEF Threads

\* A thread that does not move keeps its references.
LEMMA SameThreadRefs ==
    ASSUME UNCHANGED thr, NEW c
    PROVE  ThreadRefs(c)' = ThreadRefs(c)
BY DEF ThreadRefs, Holds

LEMMA SameOpRefs ==
    ASSUME UNCHANGED ops, NEW c
    PROVE  OpRefs(c)' = OpRefs(c)
BY DEF OpRefs, ops

-----------------------------------------------------------------------------
(* The queues of events.                                                   *)

\* Popping removes the last entry's value unless it occurs again.
LEMMA PopSet ==
    ASSUME NEW q \in Seq(Event), q # <<>>
    PROVE  /\ ToSet(q) = ToSet(Front(q)) \cup {Last(q)}
           /\ NewOnce(q) => NewOnce(Front(q))
           /\ NewOnce(q) /\ Last(q).type = "NEW_PLAYER" => Last(q) \notin ToSet(Front(q))
<1>1. Len(q) \in Nat /\ Len(q) >= 1 /\ DOMAIN q = 1 .. Len(q)
  BY EmptySeq, LenProperties
<1>2. Front(q) \in Seq(Event) /\ Len(Front(q)) = Len(q) - 1
  BY <1>1, SubSeqProperties DEF Front
<1>3. DOMAIN Front(q) = 1 .. Len(q) - 1
  BY <1>2, LenProperties
<1>4. \A i \in 1 .. Len(q) - 1 : Front(q)[i] = q[i]
  BY <1>1, SubSeqProperties DEF Front
<1>5. ToSet(q) = ToSet(Front(q)) \cup {Last(q)}
  BY <1>1, <1>3, <1>4 DEF ToSet, Last
<1>6. NewOnce(q) => NewOnce(Front(q))
  BY <1>1, <1>3, <1>4 DEF NewOnce
<1>7. NewOnce(q) /\ Last(q).type = "NEW_PLAYER" => Last(q) \notin ToSet(Front(q))
  <2>1. SUFFICES ASSUME NewOnce(q), Last(q).type = "NEW_PLAYER",
                        NEW i \in 1 .. Len(q) - 1, q[i] = q[Len(q)]
                 PROVE  FALSE
    BY <1>3, <1>4 DEF ToSet, Last
  <2>2. i \in DOMAIN q /\ Len(q) \in DOMAIN q /\ q[i].type = "NEW_PLAYER"
    BY <1>1, <2>1 DEF Last
  <2>3. i = Len(q)
    BY <2>1, <2>2 DEF NewOnce
  <2>4. QED  BY <1>1, <2>3
<1>8. QED  BY <1>5, <1>6, <1>7

\* Appending adds one value, and keeps logins unique unless it repeats one.
LEMMA AppendSet ==
    ASSUME NEW q \in Seq(Event), NEW e \in Event
    PROVE  /\ ToSet(Append(q, e)) = ToSet(q) \cup {e}
           /\ NewOnce(q) /\ (e.type = "NEW_PLAYER" => e \notin ToSet(q))
                => NewOnce(Append(q, e))
<1> DEFINE r == Append(q, e)
<1>1. Len(q) \in Nat /\ DOMAIN q = 1 .. Len(q)
  BY LenProperties
<1>2. /\ r \in Seq(Event) /\ Len(r) = Len(q) + 1
      /\ \A i \in 1 .. Len(q) : r[i] = q[i]
      /\ r[Len(q) + 1] = e
  BY AppendProperties
<1>3. DOMAIN r = 1 .. Len(q) + 1
  BY <1>2, LenProperties
<1> HIDE DEF r
<1>4. ToSet(r) = ToSet(q) \cup {e}
  BY <1>1, <1>2, <1>3 DEF ToSet
<1>5. ASSUME NewOnce(q), e.type = "NEW_PLAYER" => e \notin ToSet(q)
      PROVE  NewOnce(r)
  <2>1. SUFFICES ASSUME NEW i \in 1 .. Len(q) + 1, NEW j \in 1 .. Len(q) + 1,
                        r[i].type = "NEW_PLAYER", r[i] = r[j]
                 PROVE  i = j
    BY <1>3 DEF NewOnce
  <2>2. CASE i \in 1 .. Len(q) /\ j \in 1 .. Len(q)
    BY <1>1, <1>2, <1>5, <2>1, <2>2 DEF NewOnce
  <2>3. CASE i \in 1 .. Len(q) /\ j = Len(q) + 1
    BY <1>1, <1>2, <1>5, <2>1, <2>3 DEF ToSet
  <2>4. CASE i = Len(q) + 1 /\ j \in 1 .. Len(q)
    BY <1>1, <1>2, <1>5, <2>1, <2>4 DEF ToSet
  <2>5. QED  BY <1>1, <2>1, <2>2, <2>3, <2>4
<1>6. QED  BY <1>4, <1>5 DEF r

\* disconnect_connection queues no login.
LEMMA DisconnectQueues ==
    ASSUME TypeOK, LoginOnce, NEW t \in Threads, NEW c \in Conns, Disconnect(t, c),
           UNCHANGED eventsOut
    PROVE  /\ LoginOnce'
           /\ \A d : Queued(NewPlayer(d))' <=> Queued(NewPlayer(d))
<1>1. Closed(entity[c]) \in Event /\ \A d : Closed(entity[c]) # NewPlayer(d)
  BY DEF TypeOK, ConnType, Closed, NewPlayer, Event
<1>2. CASE eventsIn' = eventsIn
  BY <1>2 DEF LoginOnce, Queued
<1>3. CASE eventsIn' = Append(eventsIn, Closed(entity[c]))
  <2>1. /\ ToSet(eventsIn') = ToSet(eventsIn) \cup {Closed(entity[c])}
        /\ NewOnce(eventsIn')
    BY <1>1, <1>3, AppendSet DEF TypeOK, QueueType, LoginOnce, Closed
  <2>2. LoginOnce'
    BY <1>1, <2>1 DEF LoginOnce
  <2>3. QED  BY <1>1, <2>1, <2>2 DEF Queued
<1>4. QED  BY <1>2, <1>3 DEF Disconnect

\* Popping an event keeps logins unique and takes at most that event away.
LEMMA PopQueues ==
    ASSUME TypeOK, LoginOnce, NEW e, PopEvent(e), UNCHANGED eventsIn
    PROVE  /\ LoginOnce'
           /\ \A d : Queued(NewPlayer(d))' => Queued(NewPlayer(d))
           /\ \A d : e = NewPlayer(d) => Queued(NewPlayer(d)) /\ ~Queued(NewPlayer(d))'
<1>1. eventsOut \in Seq(Event) /\ eventsOut # <<>> /\ e = Last(eventsOut)
        /\ eventsOut' = Front(eventsOut)
  BY DEF TypeOK, QueueType, PopEvent
<1>2. /\ ToSet(eventsOut) = ToSet(eventsOut') \cup {e}
      /\ NewOnce(eventsOut')
      /\ e.type = "NEW_PLAYER" => e \notin ToSet(eventsOut')
  BY <1>1, PopSet DEF LoginOnce
<1>3. LoginOnce'
  BY <1>2 DEF LoginOnce
<1>4. ASSUME NEW d, e = NewPlayer(d)
      PROVE  Queued(NewPlayer(d)) /\ ~Queued(NewPlayer(d))'
  <2>1. e \in Event
    BY <1>1, PopTypes
  <2>2. d \in Conns /\ e.type = "NEW_PLAYER"
    BY <1>4, <2>1 DEF NewPlayer, Event
  <2>3. NewPlayer(d) \notin ToSet(eventsIn)
    BY <1>2, <1>4, <2>2 DEF LoginOnce
  <2>4. QED  BY <1>2, <1>4, <2>2, <2>3 DEF Queued
<1>5. QED  BY <1>2, <1>3, <1>4 DEF Queued

-----------------------------------------------------------------------------
(* Steps that allocate, free, take and drop nothing.                       *)

\* References move from one holder to another, or disappear; a connection the
\* backend disconnects may be held once more.
Quiet ==
    /\ UNCHANGED <<mem, ref_count>>
    /\ kicked \subseteq kicked'
    /\ \A c \in Conns : \/ Holders(c)' <= Holders(c)
                        \/ c \in kicked' /\ Holders(c) > 0
    /\ \A t \in Threads : thr'[t].at = "store" => thr'[t] = thr[t]
    /\ thr'["frontend"].at = "create" => mem[thr'["frontend"].conn] = "unused"

LEMMA QuietStep ==
    ASSUME RefInv, TypeOK', Quiet
    PROVE  RefCoversHolders' /\ NoDangling' /\ UnusedIsFree'
<1>1. \A c \in Conns : Holders(c) \in Nat /\ Holders(c)' \in Nat /\ ref_count[c] \in Int
  <2>1. (TypeOK => CountsAreNat)'
    BY HoldersNat, PTL
  <2>2. QED  BY <2>1, HoldersNat DEF RefInv, TypeOK, ConnType, CountsAreNat
<1>2. ASSUME NEW c \in Conns \ kicked'
      PROVE  c \in Conns \ kicked /\ Holders(c)' <= Holders(c)
  BY <1>2 DEF Quiet
<1>3. NoDangling'
  BY <1>1, <1>2 DEF Quiet, RefInv, NoDangling
<1>4. RefCoversHolders'
  <2>1. SUFFICES ASSUME NEW c \in Conns \ kicked'
                 PROVE  /\ ref_count'[c] >= Holders(c)'
                        /\ \A t \in Threads :
                             thr'[t].at = "store" /\ thr'[t].conn = c
                               => thr'[t].reg >= Holders(c)'
    BY DEF RefCoversHolders
  <2>2. ref_count'[c] >= Holders(c)'
    BY <1>1, <1>2 DEF Quiet, RefInv, RefCoversHolders
  <2>3. ASSUME NEW t \in Threads, thr'[t].at = "store", thr'[t].conn = c
        PROVE  thr'[t].reg >= Holders(c)'
    <3>1. thr[t].at = "store" /\ thr[t].conn = c /\ thr'[t].reg = thr[t].reg
      BY <2>3 DEF Quiet
    <3>2. thr[t].reg >= Holders(c) /\ thr[t].reg \in Int
      BY <1>2, <3>1, ThreadTypes DEF RefInv, TypeOK, RefCoversHolders
    <3>3. QED  BY <1>1, <1>2, <3>1, <3>2
  <2>4. QED  BY <2>2, <2>3
<1>5. UnusedIsFree'
  <2>1. ASSUME NEW c \in Conns, mem[c] = "unused"
        PROVE  Holders(c)' = 0
    BY <1>1, <2>1 DEF Quiet, RefInv, UnusedIsFree
  <2>2. QED  BY <2>1 DEF Quiet, UnusedIsFree, Frontend
<1>6. QED  BY <1>3, <1>4, <1>5

\* A step of the frontend's handler that hands references on: what it does to
\* the operations is made up for by its own reference.
LEMMA FrontendHandlerStep ==
    ASSUME RefInv, TypeOK', NEW s \in ThreadState, Goes("frontend", s),
           s.at # "store", s.at = "create" => mem[s.conn] = "unused",
           UNCHANGED <<mem, ref_count, alive, kicked>>,
           LoginOnce',
           \A c \in Conns : /\ Queued(NewPlayer(c))' <=> Queued(NewPlayer(c))
                            /\ state[c] = "PLAY" => state'[c] = "PLAY"
                            /\ OpRefs(c)' + One(HoldsIn(s, c))
                                 <= OpRefs(c) + One(Holds("frontend", c))
    PROVE  RefInv'
<1>0. "frontend" \in Threads /\ "backend" \in Threads
  BY DEF Threads
<1>1. /\ thr'["frontend"] = s
      /\ thr'["backend"] = thr["backend"]
  BY <1>0 DEF Goes, RefInv, TypeOK, LoopType, Threads
<1>2. \A c \in Conns : Holders(c)' <= Holders(c)
  <2>1. SUFFICES ASSUME NEW c \in Conns
                 PROVE  Holders(c)' <= Holders(c)
    OBVIOUS
  <2>2. ThreadRefs(c)' = ThreadRefs(c) - One(Holds("frontend", c)) + One(HoldsIn(s, c))
    BY <1>0, GoesRefs DEF RefInv
  <2>3. BackendRefs(c)' = BackendRefs(c)
    BY DEF BackendRefs, One
  <2>4. OpRefs(c) \in Nat /\ BackendRefs(c) \in Nat /\ ThreadRefs(c) \in Nat
    BY HolderCounts DEF RefInv
  <2>5. (TypeOK => CountsAreNat)'
    BY HoldersNat, PTL
  <2>6. QED  BY <2>2, <2>3, <2>4, <2>5 DEF Holders, One, CountsAreNat
<1>3. Quiet
  BY <1>1, <1>2 DEF Quiet, Threads
<1>4. BackendSeesPlayers'
  BY <1>1 DEF RefInv, BackendSeesPlayers, Holds
<1>5. QED  BY <1>3, <1>4, QuietStep DEF RefInv

\* The same for a frontend step that stays at its place in the handler.
LEMMA FrontendSameStep ==
    ASSUME RefInv, TypeOK', UNCHANGED thr, Frontend.at \notin {"store", "create"},
           UNCHANGED <<mem, ref_count, alive, kicked>>,
           LoginOnce',
           \A c \in Conns : /\ Queued(NewPlayer(c))' <=> Queued(NewPlayer(c))
                            /\ state[c] = "PLAY" => state'[c] = "PLAY"
                            /\ OpRefs(c)' <= OpRefs(c)
    PROVE  RefInv'
<1>1. thr["frontend"] \in ThreadState /\ Goes("frontend", thr["frontend"])
  BY DEF RefInv, TypeOK, LoopType, Goes, Threads
<1>2. \A c \in Conns : One(HoldsIn(thr["frontend"], c)) = One(Holds("frontend", c))
  BY DEF HoldsIn, Holds
<1>3. \A c \in Conns : OpRefs(c) \in Nat
  BY HolderCounts DEF RefInv
<1>4. (TypeOK => CountsAreNat)'
  BY HoldersNat, PTL
<1>5. \A c \in Conns : OpRefs(c)' + One(HoldsIn(thr["frontend"], c))
                         <= OpRefs(c) + One(Holds("frontend", c))
  BY <1>2, <1>3, <1>4 DEF One, CountsAreNat
<1>6. QED  BY <1>1, <1>5, FrontendHandlerStep DEF Frontend

\* A step of the backend that hands references on, or disconnects a player.
LEMMA BackendHandlerStep ==
    ASSUME RefInv, TypeOK', NEW s \in ThreadState, Goes("backend", s),
           s.at # "store",
           UNCHANGED <<mem, ref_count, state>>,
           kicked \subseteq kicked',
           LoginOnce',
           \A c \in Conns :
             /\ OpRefs(c)' <= OpRefs(c)
             /\ \/ BackendRefs(c)' + One(HoldsIn(s, c))
                     <= BackendRefs(c) + One(Holds("backend", c))
                \/ c \in kicked' /\ BackendRefs(c) > 0
             /\ Queued(NewPlayer(c))' \/ c \in alive' \/ HoldsIn(s, c)
                  => Queued(NewPlayer(c)) \/ c \in alive \/ Holds("backend", c)
    PROVE  RefInv'
<1>0. "frontend" \in Threads /\ "backend" \in Threads
  BY DEF Threads
<1>1. /\ thr'["backend"] = s
      /\ thr'["frontend"] = thr["frontend"]
  BY <1>0 DEF Goes, RefInv, TypeOK, LoopType, Threads
<1>2. \A c \in Conns : \/ Holders(c)' <= Holders(c)
                       \/ c \in kicked' /\ Holders(c) > 0
  <2>1. SUFFICES ASSUME NEW c \in Conns
                 PROVE  \/ Holders(c)' <= Holders(c)
                        \/ c \in kicked' /\ Holders(c) > 0
    OBVIOUS
  <2>2. ThreadRefs(c)' = ThreadRefs(c) - One(Holds("backend", c)) + One(HoldsIn(s, c))
    BY <1>0, GoesRefs DEF RefInv
  <2>3. OpRefs(c) \in Nat /\ BackendRefs(c) \in Nat /\ ThreadRefs(c) \in Nat
    BY HolderCounts DEF RefInv
  <2>4. (TypeOK => CountsAreNat)'
    BY HoldersNat, PTL
  <2>5. QED  BY <2>2, <2>3, <2>4 DEF Holders, One, CountsAreNat
<1>3. Quiet
  BY <1>1, <1>2 DEF Quiet, Threads, RefInv, UnusedIsFree, Frontend
<1>4. BackendSeesPlayers'
  BY <1>1 DEF RefInv, BackendSeesPlayers, Holds, HoldsIn
<1>5. QED  BY <1>3, <1>4, QuietStep DEF RefInv

-----------------------------------------------------------------------------
(* The steps of the frontend that hand references on.                      *)

\* A completed operation is one reference less among the operations.
LEMMA CompletedOp ==
    ASSUME TypeOK, NEW c \in Conns,
           \/ /\ recv[c] # "none" /\ recv' = [recv EXCEPT ![c] = "none"]
              /\ UNCHANGED <<sendStaged, sendFlight>>
           \/ /\ sendFlight[c] > 0 /\ sendFlight' = [sendFlight EXCEPT ![c] = @ - 1]
              /\ UNCHANGED <<recv, sendStaged>>
    PROVE  \A d \in Conns : OpRefs(d)' = IF d = c THEN OpRefs(d) - 1 ELSE OpRefs(d)
<1>1. \A d \in Conns : sendStaged[d] \in Nat /\ sendFlight[d] \in Nat
  BY DEF TypeOK, OpsType
<1>2. QED  BY <1>1 DEF OpRefs, One, TypeOK, OpsType

\* A completion that ends in a release, with or without a disconnect.
LEMMA CompletionStep ==
    ASSUME RefInv, TypeOK', NEW c \in Conns, Frontend = Idle,
           \/ Goes("frontend", At("load", c, 0)) /\ UNCHANGED <<eventsIn, disconnect>>
           \/ Goes("frontend", At("recv", c, 0)) /\ UNCHANGED <<eventsIn, disconnect>>
           \/ Disconnect("frontend", c),
           UNCHANGED <<mem, ref_count, state, alive, kicked, eventsOut>>,
           \A d \in Conns : OpRefs(d)' = IF d = c THEN OpRefs(d) - 1 ELSE OpRefs(d)
    PROVE  RefInv'
<1>0. "frontend" \in Threads
  BY DEF Threads
<1>1. PICK s \in {At("load", c, 0), At("recv", c, 0)} : Goes("frontend", s)
  BY DEF Disconnect
<1>2. s \in ThreadState /\ s.at \in {"load", "recv"} /\ s.conn = c
  BY <1>1, AtTypes, AtFields
<1>3. /\ LoginOnce'
      /\ \A d : Queued(NewPlayer(d))' <=> Queued(NewPlayer(d))
  <2>1. CASE UNCHANGED eventsIn
    BY <2>1 DEF RefInv, LoginOnce, Queued
  <2>2. CASE Disconnect("frontend", c)
    BY <1>0, <2>2, DisconnectQueues DEF RefInv
  <2>3. QED  BY <2>1, <2>2
<1>4. \A d \in Conns : OpRefs(d)' + One(HoldsIn(s, d)) <= OpRefs(d) + One(Holds("frontend", d))
  <2>1. \A d \in Conns : OpRefs(d) \in Nat
    BY HolderCounts DEF RefInv
  <2>2. QED  BY <1>2, <2>1 DEF HoldsIn, One
<1>5. QED  BY <1>1, <1>2, <1>3, <1>4, FrontendHandlerStep

\* The steps of frontend_start, without the handlers they call.
LEMMA FrontendLoopRefs ==
    ASSUME RefInv, TypeOK', Submit \/ AcceptDone \/ AcceptFails \/ Rearm
    PROVE  RefInv'
<1>0. LoginOnce /\ TypeOK
  BY DEF RefInv
<1>1. CASE Submit
  <2>1. \A c \in Conns : OpRefs(c)' = OpRefs(c)
    <3>1. \A c \in Conns : sendStaged[c] \in Nat /\ sendFlight[c] \in Nat
      BY <1>0 DEF TypeOK, OpsType
    <3>2. QED  BY <1>0, <1>1, <3>1 DEF Submit, OpRefs, One, TypeOK, OpsType
  <2>2. \A c \in Conns : OpRefs(c) \in Nat
    BY <1>0, HolderCounts
  <2>3. QED
    BY <1>0, <1>1, <2>1, <2>2, FrontendSameStep
       DEF Submit, Idle, At, conn, inbox, outbox, world, LoginOnce, Queued
<1>2. CASE AcceptFails
  <2>1. \A c \in Conns : OpRefs(c)' = OpRefs(c) /\ OpRefs(c) \in Nat
    BY <1>0, <1>2, SameOpRefs, HolderCounts DEF AcceptFails
  <2>2. QED
    BY <1>0, <1>2, <2>1, FrontendSameStep
       DEF AcceptFails, Idle, At, conn, inbox, outbox, world, LoginOnce, Queued
<1>3. CASE AcceptDone
  <2>1. PICK s \in ThreadState :
          /\ Goes("frontend", s)
          /\ s.at \in {"create", "rearm"}
          /\ s.at = "create" => mem[s.conn] = "unused"
    BY <1>0, <1>3, AtTypes, AtFields DEF AcceptDone, TypeOK, LoopType
  <2>2. \A c \in Conns : OpRefs(c)' + One(HoldsIn(s, c)) <= OpRefs(c) + One(Holds("frontend", c))
    <3>1. \A c \in Conns : OpRefs(c)' = OpRefs(c) /\ OpRefs(c) \in Nat
      BY <1>0, <1>3, SameOpRefs, HolderCounts DEF AcceptDone
    <3>2. QED  BY <2>1, <3>1 DEF HoldsIn, One
  <2>3. QED
    BY <1>0, <1>3, <2>1, <2>2, FrontendHandlerStep
       DEF AcceptDone, conn, inbox, outbox, world, LoginOnce, Queued
<1>4. CASE Rearm
  <2>1. PICK s \in ThreadState : Goes("frontend", s) /\ s.at \in {"accept", "run"}
    BY <1>4, AtTypes, AtFields DEF Rearm, AcceptUnlessAccepting
  <2>2. \A c \in Conns : OpRefs(c)' + One(HoldsIn(s, c)) <= OpRefs(c) + One(Holds("frontend", c))
    <3>1. \A c \in Conns : OpRefs(c)' = OpRefs(c) /\ OpRefs(c) \in Nat
      BY <1>0, <1>4, SameOpRefs, HolderCounts DEF Rearm
    <3>2. QED  BY <2>1, <3>1 DEF HoldsIn, One
  <2>3. QED
    BY <1>0, <1>4, <2>1, <2>2, FrontendHandlerStep
       DEF Rearm, conn, inbox, outbox, world, LoginOnce, Queued
<1>5. QED  BY <1>1, <1>2, <1>3, <1>4

\* Completions of sends and recvs.
LEMMA CompletionRefs ==
    ASSUME RefInv, TypeOK', NEW c \in Conns,
           SendOk(c) \/ SendFails(c) \/ RecvEof(c) \/ RecvData(c)
    PROVE  RefInv'
<1>0. TypeOK
  BY DEF RefInv
<1>1. CASE SendOk(c)
  BY <1>0, <1>1, CompletedOp, CompletionStep
     DEF SendOk, Completion, conn, inbox, outbox, world
<1>2. CASE SendFails(c)
  BY <1>0, <1>2, CompletedOp, CompletionStep DEF SendFails, Completion, outbox, world
<1>3. CASE RecvEof(c)
  BY <1>0, <1>3, CompletedOp, CompletionStep DEF RecvEof, Completion, outbox, world
<1>4. CASE RecvData(c)
  BY <1>0, <1>4, CompletedOp, CompletionStep
     DEF RecvData, Completion, conn, inbox, outbox, world
<1>5. QED  BY <1>1, <1>2, <1>3, <1>4

-----------------------------------------------------------------------------
(* release_connection.                                                     *)

\* The decrement reads a value that covers the holders, the thread included.
LEMMA ReleaseLoadRefs ==
    ASSUME RefInv, TypeOK', NEW t \in Threads, ReleaseLoad(t)
    PROVE  RefInv'
<1> DEFINE c == thr[t].conn
           s == At("store", c, ref_count[c])
<1>1. TypeOK /\ c \in Conns /\ ref_count[c] \in Int /\ s \in ThreadState
  BY ThreadTypes, AtTypes DEF RefInv, TypeOK, ConnType, ReleaseLoad
<1>2. Goes(t, s) /\ Holds(t, c) /\ thr[t].at = "load"
  BY DEF ReleaseLoad, Holds
<1>3. thr'[t] = s /\ \A u \in Threads \ {t} : thr'[u] = thr[u]
  BY <1>1, <1>2 DEF Goes, TypeOK, LoopType
<1>4. \A d \in Conns : One(HoldsIn(s, d)) = One(Holds(t, d))
  BY <1>2 DEF HoldsIn, Holds, At
<1>5. \A d \in Conns : Holders(d)' = Holders(d) /\ Holders(d) \in Nat
  <2>1. SUFFICES ASSUME NEW d \in Conns
                 PROVE  Holders(d)' = Holders(d) /\ Holders(d) \in Nat
    OBVIOUS
  <2>2. ThreadRefs(d)' = ThreadRefs(d) - One(Holds(t, d)) + One(HoldsIn(s, d))
    BY <1>1, <1>2, GoesRefs
  <2>3. OpRefs(d)' = OpRefs(d) /\ BackendRefs(d)' = BackendRefs(d)
    BY DEF ReleaseLoad, ops, inbox, outbox, world, OpRefs, BackendRefs, Queued
  <2>4. OpRefs(d) \in Nat /\ BackendRefs(d) \in Nat /\ ThreadRefs(d) \in Nat
    BY <1>1, HolderCounts
  <2>5. QED  BY <1>4, <2>2, <2>3, <2>4 DEF Holders, One
<1>6. RefCoversHolders'
  <2>1. SUFFICES ASSUME NEW d \in Conns \ kicked
                 PROVE  /\ ref_count[d] >= Holders(d)
                        /\ \A u \in Threads :
                             thr'[u].at = "store" /\ thr'[u].conn = d
                               => thr'[u].reg >= Holders(d)
    BY <1>5 DEF RefCoversHolders, ReleaseLoad, conn
  <2>2. ref_count[d] >= Holders(d)
    BY DEF RefInv, RefCoversHolders
  <2>3. ASSUME NEW u \in Threads, thr'[u].at = "store", thr'[u].conn = d
        PROVE  thr'[u].reg >= Holders(d)
    <3>1. CASE u = t
      BY <1>3, <2>2, <2>3, <3>1 DEF At
    <3>2. CASE u # t
      BY <1>3, <2>3, <3>2 DEF RefInv, RefCoversHolders
    <3>3. QED  BY <3>1, <3>2
  <2>4. QED  BY <2>2, <2>3
<1>7. NoDangling' /\ UnusedIsFree'
  <2>1. mem' = mem /\ kicked' = kicked
    BY DEF ReleaseLoad, conn
  <2>2. NoDangling'
    BY <1>5, <2>1 DEF RefInv, NoDangling
  <2>3. thr'["frontend"].at = "create" => thr'["frontend"] = thr["frontend"]
    BY <1>3 DEF Threads, At
  <2>4. UnusedIsFree'
    BY <1>5, <2>1, <2>3 DEF RefInv, UnusedIsFree, Frontend
  <2>5. QED  BY <2>2, <2>4
<1>8. BackendSeesPlayers' /\ LoginOnce'
  <2>1. UNCHANGED <<state, eventsIn, eventsOut, alive>>
    BY DEF ReleaseLoad, conn, inbox, outbox, world
  <2>2. \A d : Holds("backend", d)' => Holds("backend", d)
    BY <1>2, <1>3 DEF Holds, At, Threads
  <2>3. BackendSeesPlayers'
    BY <2>1, <2>2 DEF RefInv, BackendSeesPlayers, Queued
  <2>4. QED  BY <2>1, <2>3 DEF RefInv, LoginOnce
<1>9. QED  BY <1>6, <1>7, <1>8 DEF RefInv

\* The count written covers the holders that remain, so it is zero only when
\* nobody remains, and the struct may be freed.
LEMMA ReleaseStoreRefs ==
    ASSUME RefInv, TypeOK', NEW t \in Threads, ReleaseStore(t)
    PROVE  RefInv'
<1>0. TypeOK /\ total \in Int
  BY DEF RefInv, TypeOK, LoopType
<1>1. PICK c \in Conns, n \in Int : c = thr[t].conn /\ n = thr[t].reg - 1
  BY <1>0, ThreadTypes DEF TypeOK, ReleaseStore
<1>2. PICK s \in ThreadState : Goes(t, s) /\ s.at \in {"run", "count"}
  BY <1>0, AtTypes, AtFields DEF ReleaseStore
<1>3. thr'[t] = s /\ \A u \in Threads \ {t} : thr'[u] = thr[u]
  BY <1>0, <1>1, <1>2 DEF Goes, TypeOK, LoopType
<1>4. Holds(t, c) /\ thr[t].at = "store"
  BY <1>1 DEF ReleaseStore, Holds
<1>5. \A d \in Conns : /\ Holders(d) \in Nat
                       /\ Holders(d)' = IF d = c THEN Holders(d) - 1 ELSE Holders(d)
  <2>1. SUFFICES ASSUME NEW d \in Conns
                 PROVE  /\ Holders(d) \in Nat
                        /\ Holders(d)' = IF d = c THEN Holders(d) - 1 ELSE Holders(d)
    OBVIOUS
  <2>2. ThreadRefs(d)' = ThreadRefs(d) - One(Holds(t, d)) + One(HoldsIn(s, d))
    BY <1>0, <1>1, <1>2, GoesRefs
  <2>3. One(Holds(t, d)) = (IF d = c THEN 1 ELSE 0) /\ One(HoldsIn(s, d)) = 0
    BY <1>2, <1>4 DEF Holds, HoldsIn, One
  <2>4. OpRefs(d)' = OpRefs(d) /\ BackendRefs(d)' = BackendRefs(d)
    BY DEF ReleaseStore, ops, inbox, outbox, world, OpRefs, BackendRefs, Queued
  <2>5. OpRefs(d) \in Nat /\ BackendRefs(d) \in Nat /\ ThreadRefs(d) \in Nat
    BY <1>0, <1>1, HolderCounts
  <2>6. QED  BY <2>2, <2>3, <2>4, <2>5 DEF Holders
<1>6. /\ ref_count' = [ref_count EXCEPT ![c] = n]
      /\ mem' = IF n = 0 THEN [mem EXCEPT ![c] = "freed"] ELSE mem
      /\ UNCHANGED <<state, kicked, eventsIn, eventsOut, alive>>
  BY <1>1 DEF ReleaseStore, inbox, outbox, world
<1>7. c \notin kicked => n >= Holders(c)'
  <2>1. c \notin kicked => thr[t].reg >= Holders(c)
    BY <1>0, <1>1, <1>4 DEF RefInv, RefCoversHolders
  <2>2. thr[t].reg \in Int
    BY <1>0, <1>1, ThreadTypes DEF TypeOK
  <2>3. QED  BY <1>0, <1>1, <1>5, <2>1, <2>2
<1>8. RefCoversHolders'
  <2>1. SUFFICES ASSUME NEW d \in Conns \ kicked
                 PROVE  /\ ref_count'[d] >= Holders(d)'
                        /\ \A u \in Threads :
                             thr'[u].at = "store" /\ thr'[u].conn = d
                               => thr'[u].reg >= Holders(d)'
    BY <1>6 DEF RefCoversHolders
  <2>2. ref_count[d] \in Int /\ ref_count[d] >= Holders(d)
    BY <1>0, <1>1 DEF RefInv, RefCoversHolders, TypeOK, ConnType
  <2>3. ref_count'[d] >= Holders(d)'
    BY <1>0, <1>1, <1>5, <1>6, <1>7, <2>2 DEF TypeOK, ConnType
  <2>4. ASSUME NEW u \in Threads, thr'[u].at = "store", thr'[u].conn = d
        PROVE  thr'[u].reg >= Holders(d)'
    <3>1. thr'[u] = thr[u]
      BY <1>2, <1>3, <2>4
    <3>2. thr[u].reg >= Holders(d) /\ thr[u].reg \in Int
      BY <1>0, <1>1, <2>4, <3>1, ThreadTypes DEF RefInv, RefCoversHolders, TypeOK
    <3>3. QED  BY <1>5, <3>1, <3>2
  <2>5. QED  BY <2>3, <2>4
<1>9. NoDangling'
  <2>1. SUFFICES ASSUME NEW d \in Conns \ kicked, Holders(d)' > 0
                 PROVE  mem'[d] = "live"
    BY <1>6 DEF NoDangling
  <2>2. mem[d] = "live"
    BY <1>5, <2>1 DEF RefInv, NoDangling
  <2>3. d = c => n # 0
    BY <1>0, <1>1, <1>5, <1>7, <2>1
  <2>4. QED  BY <1>0, <1>1, <1>6, <2>2, <2>3 DEF TypeOK, ConnType
<1>10. UnusedIsFree'
  <2>1. \A d \in Conns : mem'[d] = "unused" <=> mem[d] = "unused"
    <3>1. mem[c] # "unused"
      <4>1. Holders(c) > 0
        BY <1>0, <1>1, <1>4, HolderCounts DEF Holders
      <4>2. QED  BY <1>0, <1>1, <4>1 DEF RefInv, UnusedIsFree
    <3>2. QED  BY <1>0, <1>1, <1>6, <3>1 DEF TypeOK, ConnType
  <2>2. ASSUME NEW d \in Conns, mem[d] = "unused"
        PROVE  Holders(d)' = 0
    <3>1. Holders(d) = 0 /\ d # c
      <4>1. Holders(c) > 0
        BY <1>0, <1>1, <1>4, HolderCounts DEF Holders
      <4>2. QED  BY <2>2, <4>1 DEF RefInv, UnusedIsFree
    <3>2. QED  BY <1>5, <3>1
  <2>3. ASSUME thr'["frontend"].at = "create"
        PROVE  mem'[thr'["frontend"].conn] = "unused"
    <3>1. thr'["frontend"] = thr["frontend"]
      BY <1>2, <1>3, <2>3 DEF Threads
    <3>2. thr["frontend"].conn \in Conns
      BY <1>0, <1>1, <2>3, <3>1, ThreadTypes DEF TypeOK, Threads
    <3>3. QED  BY <2>1, <2>3, <3>1, <3>2 DEF RefInv, UnusedIsFree, Frontend
  <2>4. QED  BY <2>1, <2>2, <2>3 DEF UnusedIsFree, Frontend
<1>11. BackendSeesPlayers' /\ LoginOnce'
  <2>1. \A d : Holds("backend", d)' => Holds("backend", d)
    BY <1>2, <1>3 DEF Holds, Threads
  <2>2. QED  BY <1>6, <2>1 DEF RefInv, BackendSeesPlayers, LoginOnce, Queued
<1>12. QED  BY <1>8, <1>9, <1>10, <1>11 DEF RefInv

\* The end of release_connection, and frontend_accept.
LEMMA ReleaseTailRefs ==
    ASSUME RefInv, TypeOK', NEW t \in Threads, ReleaseCount(t) \/ FrontendAccept(t)
    PROVE  RefInv'
<1>0. TypeOK /\ LoginOnce
  BY DEF RefInv
<1>1. PICK s \in ThreadState :
        Goes(t, s) /\ s.at \in {"run", "accept", "tail", "fill", "flag"}
  BY AtTypes, AtFields DEF ReleaseCount, AcceptUnlessAccepting, FrontendAccept, ReadTail,
     MoveTail, FillEntry, SetAccepting
<1>2. UNCHANGED <<mem, ref_count, state, alive, kicked, eventsIn, eventsOut>> /\ UNCHANGED ops
  BY DEF ReleaseCount, FrontendAccept, ReadTail, MoveTail, FillEntry, SetAccepting, conn,
         inbox, outbox, world
<1>3. \A c \in Conns : OpRefs(c)' <= OpRefs(c) /\ OpRefs(c) \in Nat /\ OpRefs(c)' \in Nat
  <2>1. \A c \in Conns : OpRefs(c) \in Nat
    BY <1>0, HolderCounts
  <2>2. QED  BY <1>2, <2>1, SameOpRefs
<1>4. LoginOnce' /\ \A c : Queued(NewPlayer(c))' <=> Queued(NewPlayer(c))
  BY <1>0, <1>2 DEF LoginOnce, Queued
<1>5. \A c \in Conns : One(HoldsIn(s, c)) = 0
  BY <1>1 DEF HoldsIn, One
<1>6. CASE t = "frontend"
  <2>1. \A c \in Conns : OpRefs(c)' + One(HoldsIn(s, c)) <= OpRefs(c) + One(Holds("frontend", c))
    BY <1>3, <1>5 DEF One
  <2>2. QED  BY <1>1, <1>2, <1>4, <1>6, <2>1, FrontendHandlerStep
<1>7. CASE t = "backend"
  <2>1. ASSUME NEW c \in Conns
        PROVE  /\ BackendRefs(c)' + One(HoldsIn(s, c))
                    <= BackendRefs(c) + One(Holds("backend", c))
               /\ ~HoldsIn(s, c)
    <3>1. BackendRefs(c)' = BackendRefs(c) /\ BackendRefs(c) \in Nat
      BY <1>0, <1>2, HolderCounts DEF BackendRefs, Queued
    <3>2. QED  BY <1>1, <1>5, <3>1 DEF One, HoldsIn
  <2>2. QED  BY <1>1, <1>2, <1>3, <1>4, <1>7, <2>1, BackendHandlerStep
<1>8. QED  BY <1>6, <1>7 DEF Threads

LEMMA ReleasesRefs ==
    ASSUME RefInv, TypeOK', NEW t \in Threads, Releases(t)
    PROVE  RefInv'
BY ReleaseLoadRefs, ReleaseStoreRefs, ReleaseTailRefs DEF Releases

-----------------------------------------------------------------------------
(* Steps that take references.                                             *)

\* A struct that was unknown so far has one reference, that of its recv.
LEMMA CreateRefs ==
    ASSUME RefInv, TypeOK', CreateConnection
    PROVE  RefInv'
<1>0. TypeOK /\ "frontend" \in Threads
  BY DEF RefInv, Threads
<1>1. PICK c \in Conns : c = Frontend.conn
  BY <1>0, ThreadTypes DEF CreateConnection, Frontend, TypeOK
<1>2. /\ mem[c] = "unused" /\ Holders(c) = 0
      /\ mem' = [mem EXCEPT ![c] = "live"]
      /\ ref_count' = [ref_count EXCEPT ![c] = 1]
      /\ recv' = [recv EXCEPT ![c] = "staged"]
      /\ UNCHANGED <<state, sendStaged, sendFlight, eventsIn, eventsOut, alive, kicked>>
  BY <1>1 DEF CreateConnection, RefInv, UnusedIsFree, inbox, outbox, world
<1>3. PICK s \in ThreadState : Goes("frontend", s) /\ s.at = "rearm"
  BY AtTypes, AtFields DEF CreateConnection
<1>4. thr'["frontend"] = s /\ thr'["backend"] = thr["backend"]
  BY <1>0, <1>3 DEF Goes, TypeOK, LoopType, Threads
<1>5. \A d \in Conns : /\ Holders(d) \in Nat
                       /\ Holders(d)' = IF d = c THEN 1 ELSE Holders(d)
  <2>1. SUFFICES ASSUME NEW d \in Conns
                 PROVE  /\ Holders(d) \in Nat
                        /\ Holders(d)' = IF d = c THEN 1 ELSE Holders(d)
    OBVIOUS
  <2>2. ThreadRefs(d)' = ThreadRefs(d)
    <3>1. Holds("frontend", d)' = FALSE /\ Holds("frontend", d) = FALSE
      BY <1>3, <1>4 DEF Holds, CreateConnection, Frontend
    <3>2. Holds("backend", d)' = Holds("backend", d)
      BY <1>4 DEF Holds
    <3>3. QED  BY <3>1, <3>2 DEF ThreadRefs, One
  <2>3. BackendRefs(d)' = BackendRefs(d)
    BY <1>2 DEF BackendRefs, Queued
  <2>4. OpRefs(d) \in Nat /\ BackendRefs(d) \in Nat /\ ThreadRefs(d) \in Nat
    BY <1>0, HolderCounts
  <2>5. d # c => OpRefs(d)' = OpRefs(d)
    BY <1>0, <1>2 DEF OpRefs, TypeOK, OpsType
  <2>6. d = c => OpRefs(d)' = 1 /\ BackendRefs(d) = 0 /\ ThreadRefs(d) = 0
    <3>1. OpRefs(c) = 0 /\ BackendRefs(c) = 0 /\ ThreadRefs(c) = 0
      <4>1. OpRefs(c) \in Nat /\ BackendRefs(c) \in Nat /\ ThreadRefs(c) \in Nat
        BY <1>0, HolderCounts
      <4>2. QED  BY <1>2, <4>1 DEF Holders
    <3>2. sendStaged[c] = 0 /\ sendFlight[c] = 0
      BY <1>0, <3>1, HolderCounts DEF TypeOK, OpsType
    <3>3. OpRefs(c)' = 1
      BY <1>0, <1>2, <3>2 DEF OpRefs, One, TypeOK, OpsType
    <3>4. QED  BY <3>1, <3>3
  <2>7. QED  BY <2>2, <2>3, <2>4, <2>5, <2>6 DEF Holders
<1>6. \A t \in Threads : Holds(t, c) => FALSE
  BY <1>0, <1>2, HolderCounts DEF Holders
<1>7. RefCoversHolders'
  <2>1. SUFFICES ASSUME NEW d \in Conns \ kicked
                 PROVE  /\ ref_count'[d] >= Holders(d)'
                        /\ \A u \in Threads :
                             thr'[u].at = "store" /\ thr'[u].conn = d
                               => thr'[u].reg >= Holders(d)'
    BY <1>2 DEF RefCoversHolders
  <2>2. ref_count'[d] >= Holders(d)'
    BY <1>0, <1>2, <1>5 DEF RefInv, RefCoversHolders, TypeOK, ConnType
  <2>3. ASSUME NEW u \in Threads, thr'[u].at = "store", thr'[u].conn = d
        PROVE  thr'[u].reg >= Holders(d)'
    <3>1. thr'[u] = thr[u]
      BY <1>3, <1>4, <2>3 DEF Threads
    <3>2. d # c
      BY <1>6, <2>3, <3>1 DEF Holds
    <3>3. QED  BY <1>5, <2>3, <3>1, <3>2 DEF RefInv, RefCoversHolders
  <2>4. QED  BY <2>2, <2>3
<1>8. NoDangling' /\ UnusedIsFree'
  BY <1>0, <1>2, <1>3, <1>4, <1>5
     DEF RefInv, NoDangling, UnusedIsFree, Frontend, TypeOK, ConnType
<1>9. BackendSeesPlayers' /\ LoginOnce'
  BY <1>2, <1>4 DEF RefInv, BackendSeesPlayers, LoginOnce, Queued, Holds
<1>10. QED  BY <1>7, <1>8, <1>9 DEF RefInv

\* A handler of the frontend that adds as much to the count as to the holders
\* of a connection that has not logged in.
LEMMA TakeStep ==
    ASSUME RefInv, TypeOK', NEW c \in Conns, NEW k \in Nat,
           Receiving(c), state[c] # "PLAY",
           UNCHANGED <<mem, kicked>>,
           ref_count' = [ref_count EXCEPT ![c] = @ + k],
           \A d \in Conns : Holders(d)' <= IF d = c THEN Holders(d) + k ELSE Holders(d),
           thr'["backend"] = thr["backend"],
           thr'["frontend"].at \notin {"store", "create"}
    PROVE  RefCoversHolders' /\ NoDangling' /\ UnusedIsFree'
<1>0. TypeOK /\ "frontend" \in Threads /\ "backend" \in Threads
  BY DEF RefInv, Threads
<1>1. \A d \in Conns : Holders(d) \in Nat /\ Holders(d)' \in Nat /\ ref_count[d] \in Int
  <2>1. (TypeOK => CountsAreNat)'
    BY HoldersNat, PTL
  <2>2. QED  BY <1>0, <2>1, HoldersNat DEF CountsAreNat, TypeOK, ConnType
<1>2. Holds("frontend", c) /\ Holders(c) > 0
  <2>1. Holds("frontend", c)
    BY DEF Receiving, Holds, Frontend
  <2>2. QED  BY <1>0, <2>1, HolderCounts DEF Holders
<1>3. RefCoversHolders'
  <2>1. SUFFICES ASSUME NEW d \in Conns \ kicked
                 PROVE  /\ ref_count'[d] >= Holders(d)'
                        /\ \A u \in Threads :
                             thr'[u].at = "store" /\ thr'[u].conn = d
                               => thr'[u].reg >= Holders(d)'
    BY DEF RefCoversHolders
  <2>2. ref_count[d] >= Holders(d)
    BY DEF RefInv, RefCoversHolders
  <2>3. ref_count'[d] >= Holders(d)'
    BY <1>0, <1>1, <2>2 DEF TypeOK, ConnType
  <2>4. ASSUME NEW u \in Threads, thr'[u].at = "store", thr'[u].conn = d
        PROVE  thr'[u].reg >= Holders(d)'
    <3>1. u = "backend" /\ thr[u].at = "store" /\ thr[u].conn = d /\ thr'[u] = thr[u]
      BY <2>4 DEF Threads
    <3>2. d # c
      BY <3>1 DEF RefInv, BackendSeesPlayers, Holds
    <3>3. thr[u].reg >= Holders(d) /\ thr[u].reg \in Int
      BY <1>0, <3>1, ThreadTypes DEF RefInv, RefCoversHolders, TypeOK
    <3>4. QED  BY <1>1, <3>1, <3>2, <3>3
  <2>5. QED  BY <2>3, <2>4
<1>4. mem[c] # "unused" /\ (c \notin kicked => mem[c] = "live")
  BY <1>1, <1>2 DEF RefInv, UnusedIsFree, NoDangling
<1>5. NoDangling'
  BY <1>1, <1>4 DEF RefInv, NoDangling
<1>6. UnusedIsFree'
  BY <1>1, <1>4 DEF RefInv, UnusedIsFree, Frontend
<1>7. QED  BY <1>3, <1>5, <1>6

\* frontend_send adds one operation to the holders of its connection.
LEMMA SendRefs ==
    ASSUME TypeOK, NEW c \in Conns, NEW r \in Nat, FrontendSend(c, r)
    PROVE  \A d \in Conns : OpRefs(d)' = IF d = c THEN OpRefs(d) + 1 ELSE OpRefs(d)
<1>1. \A d \in Conns : sendStaged[d] \in Nat /\ sendFlight[d] \in Nat
  BY DEF TypeOK, OpsType
<1>2. QED  BY <1>1 DEF FrontendSend, OpRefs, One, TypeOK, OpsType

-----------------------------------------------------------------------------
(* connection_on_recv.                                                     *)

\* Every packet the frontend handles keeps the invariant.  Only a handler of a
\* connection that has not logged in takes references.
LEMMA OnRecvRefs ==
    ASSUME RefInv, TypeOK', NEW c \in Conns, OnRecv(c)
    PROVE  RefInv'
<1>0. TypeOK /\ LoginOnce /\ "frontend" \in Threads /\ "backend" \in Threads
  BY DEF RefInv, Threads
<1>h. \A d \in Conns : OpRefs(d) \in Nat /\ BackendRefs(d) \in Nat /\ ThreadRefs(d) \in Nat
  BY <1>0, HolderCounts
<1>r. ASSUME Receiving(c)
      PROVE  /\ Frontend.at = "recv"
             /\ \A d \in Conns : Holds("frontend", d) <=> d = c
  BY <1>r DEF Receiving, Holds, Frontend
<1>1. CASE ProtocolViolation(c)
  <2>1. PICK s \in ThreadState : Goes("frontend", s) /\ s.at = "load" /\ s.conn = c
    BY <1>1, AtTypes, AtFields DEF ProtocolViolation, Disconnect
  <2>2. UNCHANGED <<mem, ref_count, state, alive, kicked, eventsOut>> /\ UNCHANGED ops
    BY <1>1 DEF ProtocolViolation, outbox, world
  <2>3. LoginOnce' /\ \A d : Queued(NewPlayer(d))' <=> Queued(NewPlayer(d))
    BY <1>0, <1>1, <2>2, DisconnectQueues DEF ProtocolViolation
  <2>4. \A d \in Conns : OpRefs(d)' + One(HoldsIn(s, d)) <= OpRefs(d) + One(Holds("frontend", d))
    <3>1. \A d \in Conns : OpRefs(d)' = OpRefs(d)
      BY <2>2, SameOpRefs
    <3>2. \A d \in Conns : One(HoldsIn(s, d)) = One(Holds("frontend", d))
      BY <1>1, <1>r, <2>1 DEF ProtocolViolation, HoldsIn, One
    <3>3. QED  BY <1>h, <3>1, <3>2 DEF One
  <2>5. QED  BY <2>1, <2>2, <2>3, <2>4, FrontendHandlerStep
<1>2. CASE Handshake(c)
  <2>1. /\ UNCHANGED <<mem, ref_count, alive, kicked, eventsIn, eventsOut>>
        /\ UNCHANGED ops /\ UNCHANGED thr
        /\ \A d \in Conns : state[d] = "PLAY" => state'[d] = "PLAY"
    BY <1>0, <1>2 DEF Handshake, inbox, outbox, world, TypeOK, ConnType
  <2>2. \A d \in Conns : OpRefs(d)' <= OpRefs(d)
    BY <1>h, <2>1, SameOpRefs
  <2>3. LoginOnce' /\ \A d : Queued(NewPlayer(d))' <=> Queued(NewPlayer(d))
    BY <1>0, <2>1 DEF LoginOnce, Queued
  <2>4. Frontend.at = "recv"
    BY <1>2, <1>r DEF Handshake
  <2>5. QED  BY <2>1, <2>2, <2>3, <2>4, FrontendSameStep
<1>3. CASE PlayPacket(c)
  <2>1. /\ UNCHANGED <<mem, ref_count, state, alive, kicked, eventsIn, eventsOut>>
        /\ UNCHANGED ops /\ UNCHANGED thr
    BY <1>3 DEF PlayPacket, conn, outbox, world
  <2>2. \A d \in Conns : OpRefs(d)' <= OpRefs(d)
    BY <1>h, <2>1, SameOpRefs
  <2>3. LoginOnce' /\ \A d : Queued(NewPlayer(d))' <=> Queued(NewPlayer(d))
    BY <1>0, <2>1 DEF LoginOnce, Queued
  <2>4. Frontend.at = "recv"
    BY <1>3, <1>r DEF PlayPacket
  <2>5. QED  BY <2>1, <2>2, <2>3, <2>4, FrontendSameStep
<1>4. CASE FinishRecv(c)
  <2>1. PICK s \in ThreadState : Goes("frontend", s) /\ s.at = "run"
    BY <1>4, AtTypes, AtFields DEF FinishRecv
  <2>2. UNCHANGED <<mem, ref_count, state, alive, kicked, eventsIn, eventsOut>>
    BY <1>4 DEF FinishRecv, conn, inbox, outbox, world
  <2>3. LoginOnce' /\ \A d : Queued(NewPlayer(d))' <=> Queued(NewPlayer(d))
    BY <1>0, <2>2 DEF LoginOnce, Queued
  <2>4. \A d \in Conns : OpRefs(d)' + One(HoldsIn(s, d)) <= OpRefs(d) + One(Holds("frontend", d))
    <3>1. \A d \in Conns : sendStaged[d] \in Nat /\ sendFlight[d] \in Nat
      BY <1>0 DEF TypeOK, OpsType
    <3>2. \A d \in Conns : d # c => OpRefs(d)' = OpRefs(d)
      BY <1>0, <1>4 DEF FinishRecv, OpRefs, TypeOK, OpsType
    <3>3. OpRefs(c)' <= OpRefs(c) + 1
      BY <1>0, <1>4, <3>1 DEF FinishRecv, OpRefs, One, TypeOK, OpsType
    <3>4. \A d \in Conns : /\ One(HoldsIn(s, d)) = 0
                           /\ One(Holds("frontend", d)) = IF d = c THEN 1 ELSE 0
      BY <1>4, <1>r, <2>1 DEF FinishRecv, HoldsIn, One
    <3>5. (TypeOK => CountsAreNat)'
      BY HoldersNat, PTL
    <3>6. QED  BY <1>h, <3>2, <3>3, <3>4, <3>5 DEF CountsAreNat
  <2>5. QED  BY <2>1, <2>2, <2>3, <2>4, FrontendHandlerStep
<1>5. CASE BadVersion(c) \/ StatusRequest(c)
  <2>0. Receiving(c) /\ state[c] # "PLAY" /\ FrontendSend(c, 0)
    BY <1>5 DEF BadVersion, StatusRequest
  <2>1. PICK s \in ThreadState : /\ Goes("frontend", s)
                                 /\ s.conn = c /\ s.at \in {"recv", "load"}
    <3>1. CASE BadVersion(c)
      BY <3>1, AtTypes, AtFields DEF BadVersion, Disconnect
    <3>2. CASE StatusRequest(c)
      <4>1. thr["frontend"] \in ThreadState /\ Goes("frontend", thr["frontend"])
        BY <1>0, <3>2 DEF TypeOK, LoopType, Goes, StatusRequest
      <4>2. QED  BY <2>0, <4>1 DEF Receiving, Frontend
    <3>3. QED  BY <1>5, <3>1, <3>2
  <2>2. /\ UNCHANGED <<mem, alive, kicked, eventsOut>>
        /\ \A d \in Conns : state[d] = "PLAY" => state'[d] = "PLAY"
    <3>1. CASE BadVersion(c)
      BY <1>0, <2>0, <3>1 DEF BadVersion, outbox, world, TypeOK, ConnType
    <3>2. CASE StatusRequest(c)
      BY <3>2 DEF StatusRequest, outbox, world
    <3>3. QED  BY <1>5, <3>1, <3>2
  <2>3. LoginOnce' /\ \A d : Queued(NewPlayer(d))' <=> Queued(NewPlayer(d))
    <3>1. CASE BadVersion(c)
      BY <1>0, <2>2, <3>1, DisconnectQueues DEF BadVersion
    <3>2. CASE StatusRequest(c)
      BY <1>0, <3>2 DEF StatusRequest, inbox, outbox, LoginOnce, Queued
    <3>3. QED  BY <1>5, <3>1, <3>2
  <2>4. thr'["frontend"] = s /\ thr'["backend"] = thr["backend"]
    BY <1>0, <2>1 DEF Goes, TypeOK, LoopType, Threads
  <2>5. \A d \in Conns : Holders(d)' <= IF d = c THEN Holders(d) + 1 ELSE Holders(d)
    <3>1. SUFFICES ASSUME NEW d \in Conns
                   PROVE  Holders(d)' <= IF d = c THEN Holders(d) + 1 ELSE Holders(d)
      OBVIOUS
    <3>2. ThreadRefs(d)' = ThreadRefs(d)
      <4>1. ThreadRefs(d)' = ThreadRefs(d) - One(Holds("frontend", d)) + One(HoldsIn(s, d))
        BY <1>0, <2>1, GoesRefs
      <4>2. One(HoldsIn(s, d)) = One(Holds("frontend", d))
        BY <1>r, <2>0, <2>1 DEF HoldsIn, One
      <4>3. QED  BY <1>h, <4>1, <4>2 DEF One
    <3>3. BackendRefs(d)' = BackendRefs(d)
      BY <2>2, <2>3 DEF BackendRefs, One
    <3>4. OpRefs(d)' = IF d = c THEN OpRefs(d) + 1 ELSE OpRefs(d)
      BY <1>0, <2>0, SendRefs
    <3>5. QED  BY <1>h, <3>2, <3>3, <3>4 DEF Holders
  <2>6. ref_count' = [ref_count EXCEPT ![c] = @ + 1]
    <3>1. ref_count' = [ref_count EXCEPT ![c] = @ + 1 + 0]
      BY <2>0 DEF FrontendSend
    <3>2. ref_count[c] \in Int /\ ref_count[c] + 1 + 0 = ref_count[c] + 1
      BY <1>0 DEF TypeOK, ConnType
    <3>3. QED  BY <3>1, <3>2
  <2>7. RefCoversHolders' /\ NoDangling' /\ UnusedIsFree'
    BY <2>0, <2>1, <2>2, <2>4, <2>5, <2>6, TakeStep
  <2>8. BackendSeesPlayers'
    BY <2>2, <2>3, <2>4 DEF RefInv, BackendSeesPlayers, Holds
  <2>9. QED  BY <2>3, <2>7, <2>8 DEF RefInv
<1>6. CASE LoginStart(c)
  <2>0. /\ Receiving(c) /\ state[c] = "LOGIN" /\ FrontendSend(c, 1)
        /\ UNCHANGED <<mem, alive, kicked, eventsOut>> /\ UNCHANGED thr
        /\ state' = [state EXCEPT ![c] = "PLAY"]
        /\ eventsIn' = Append(eventsIn, NewPlayer(c))
    BY <1>6 DEF LoginStart, outbox, world
  <2>1. ~Queued(NewPlayer(c)) /\ c \notin alive /\ ~Holds("backend", c)
    BY <2>0 DEF RefInv, BackendSeesPlayers
  <2>2. \A d : NewPlayer(d) = NewPlayer(c) <=> d = c
    BY DEF NewPlayer
  <2>3. /\ ToSet(eventsIn') = ToSet(eventsIn) \cup {NewPlayer(c)}
        /\ NewOnce(eventsIn')
    <3>1. NewPlayer(c) \in Event /\ NewPlayer(c) \notin ToSet(eventsIn)
      BY <2>1 DEF NewPlayer, Event, Queued
    <3>2. QED  BY <1>0, <2>0, <3>1, AppendSet DEF TypeOK, QueueType, LoginOnce
  <2>4. \A d : Queued(NewPlayer(d))' <=> Queued(NewPlayer(d)) \/ d = c
    BY <2>0, <2>2, <2>3 DEF Queued
  <2>5. LoginOnce'
    BY <1>0, <2>0, <2>1, <2>2, <2>3 DEF LoginOnce, Queued
  <2>6. \A d \in Conns : Holders(d)' <= IF d = c THEN Holders(d) + 2 ELSE Holders(d)
    <3>1. SUFFICES ASSUME NEW d \in Conns
                   PROVE  Holders(d)' <= IF d = c THEN Holders(d) + 2 ELSE Holders(d)
      OBVIOUS
    <3>2. ThreadRefs(d)' = ThreadRefs(d)
      BY <2>0, SameThreadRefs
    <3>3. BackendRefs(d)' = IF d = c THEN BackendRefs(d) + 1 ELSE BackendRefs(d)
      BY <2>0, <2>1, <2>4 DEF BackendRefs, One
    <3>4. OpRefs(d)' = IF d = c THEN OpRefs(d) + 1 ELSE OpRefs(d)
      BY <1>0, <2>0, SendRefs
    <3>5. QED  BY <1>h, <3>2, <3>3, <3>4 DEF Holders
  <2>7. ref_count' = [ref_count EXCEPT ![c] = @ + 2]
    <3>1. ref_count' = [ref_count EXCEPT ![c] = @ + 1 + 1]
      BY <2>0 DEF FrontendSend
    <3>2. ref_count[c] \in Int /\ ref_count[c] + 1 + 1 = ref_count[c] + 2
      BY <1>0 DEF TypeOK, ConnType
    <3>3. QED  BY <3>1, <3>2
  <2>8. RefCoversHolders' /\ NoDangling' /\ UnusedIsFree'
    BY <1>r, <2>0, <2>6, <2>7, TakeStep DEF Frontend
  <2>9. BackendSeesPlayers'
    BY <1>0, <2>0, <2>4 DEF RefInv, BackendSeesPlayers, Holds, TypeOK, ConnType
  <2>10. QED  BY <2>5, <2>8, <2>9 DEF RefInv
<1>7. CASE NoMemoryForAnswer(c)
  <2>1. PICK s \in ThreadState : Goes("frontend", s) /\ s.at = "run"
    BY <1>7, AtTypes, AtFields DEF NoMemoryForAnswer
  <2>2. /\ UNCHANGED <<mem, ref_count, alive, kicked, eventsIn, eventsOut>>
        /\ UNCHANGED ops
        /\ \A d \in Conns : state[d] = "PLAY" => state'[d] = "PLAY"
    BY <1>0, <1>7 DEF NoMemoryForAnswer, inbox, outbox, world, TypeOK, ConnType
  <2>3. LoginOnce' /\ \A d : Queued(NewPlayer(d))' <=> Queued(NewPlayer(d))
    BY <1>0, <2>2 DEF LoginOnce, Queued
  <2>4. \A d \in Conns : OpRefs(d)' + One(HoldsIn(s, d)) <= OpRefs(d) + One(Holds("frontend", d))
    <3>1. \A d \in Conns : OpRefs(d)' = OpRefs(d) /\ One(HoldsIn(s, d)) = 0
      BY <2>1, <2>2, SameOpRefs DEF HoldsIn, One
    <3>2. QED  BY <1>h, <3>1 DEF One
  <2>5. QED  BY <2>1, <2>2, <2>3, <2>4, FrontendHandlerStep
<1>8. QED  BY <1>1, <1>2, <1>3, <1>4, <1>5, <1>6, <1>7 DEF OnRecv

-----------------------------------------------------------------------------
(* The backend.                                                            *)

\* Only a living entity can hold the mark DisconnectPlayer.
KickIsAlive == kick \subseteq alive

\* The tick's steps that touch no player.
LEMMA BackendLoopRefs ==
    ASSUME RefInv, TypeOK', Switch \/ EventsDone \/ PacketsDone \/ FinalizeTick
                            \/ SkipPacket \/ HandlePacket
    PROVE  RefInv'
<1>0. TypeOK /\ LoginOnce /\ "backend" \in Threads
  BY DEF RefInv, Threads
<1>1. thr["backend"] = Idle /\ Idle \in ThreadState /\ Goes("backend", Idle)
  <2>1. thr["backend"] = Idle /\ UNCHANGED thr
    BY DEF Switch, EventsDone, PacketsDone, FinalizeTick, SkipPacket, HandlePacket,
           PopPacket, BackendAt, Backend
  <2>2. QED  BY <1>0, <2>1 DEF Goes, TypeOK, LoopType
<1>2. UNCHANGED <<mem, ref_count, state, alive, kicked>> /\ UNCHANGED ops
  BY DEF Switch, EventsDone, PacketsDone, FinalizeTick, SkipPacket, HandlePacket, conn, world
<1>3. \/ eventsIn' = eventsOut /\ eventsOut' = eventsIn
      \/ UNCHANGED <<eventsIn, eventsOut>>
  BY DEF Switch, EventsDone, PacketsDone, FinalizeTick, SkipPacket, HandlePacket, PopPacket,
         inbox, outbox
<1>4. LoginOnce' /\ \A d : Queued(NewPlayer(d))' <=> Queued(NewPlayer(d))
  BY <1>0, <1>3 DEF LoginOnce, Queued
<1>5. ASSUME NEW d \in Conns
      PROVE  /\ OpRefs(d)' <= OpRefs(d)
             /\ BackendRefs(d)' + One(HoldsIn(Idle, d))
                  <= BackendRefs(d) + One(Holds("backend", d))
             /\ ~HoldsIn(Idle, d)
  <2>1. OpRefs(d) \in Nat /\ BackendRefs(d) \in Nat
    BY <1>0, HolderCounts
  <2>2. OpRefs(d)' = OpRefs(d)
    BY <1>2, SameOpRefs
  <2>3. BackendRefs(d)' = BackendRefs(d)
    BY <1>2, <1>4 DEF BackendRefs, One
  <2>4. ~HoldsIn(Idle, d) /\ One(HoldsIn(Idle, d)) = 0
    BY AtFields DEF HoldsIn, One
  <2>5. QED  BY <2>1, <2>2, <2>3, <2>4 DEF One
<1>6. QED
  BY <1>1, <1>2, <1>4, <1>5, AtFields, BackendHandlerStep

\* The reference of the event becomes that of the entity.
LEMMA NewPlayerRefs ==
    ASSUME RefInv, TypeOK', NEW c \in Conns, HandleNewPlayer(c)
    PROVE  RefInv'
<1>0. TypeOK /\ LoginOnce /\ "backend" \in Threads
  BY DEF RefInv, Threads
<1>1. PICK s \in ThreadState : Goes("backend", s) /\ s.at = "tell"
  BY AtTypes, AtFields DEF HandleNewPlayer
<1>2. /\ UNCHANGED <<mem, ref_count, state, kicked, eventsIn>> /\ UNCHANGED ops
      /\ alive' = alive \cup {c}
      /\ PopEvent(NewPlayer(c))
  BY DEF HandleNewPlayer, inbox, conn
<1>3. /\ LoginOnce'
      /\ \A d : Queued(NewPlayer(d))' => Queued(NewPlayer(d))
      /\ Queued(NewPlayer(c)) /\ ~Queued(NewPlayer(c))'
  BY <1>0, <1>2, PopQueues
<1>4. ASSUME NEW d \in Conns
      PROVE  /\ OpRefs(d)' <= OpRefs(d)
             /\ BackendRefs(d)' + One(HoldsIn(s, d))
                  <= BackendRefs(d) + One(Holds("backend", d))
             /\ ~HoldsIn(s, d)
  <2>1. OpRefs(d) \in Nat
    BY <1>0, HolderCounts
  <2>2. OpRefs(d)' = OpRefs(d)
    BY <1>2, SameOpRefs
  <2>3. BackendRefs(d)' <= BackendRefs(d)
    BY <1>2, <1>3 DEF BackendRefs, One
  <2>4. ~HoldsIn(s, d) /\ One(HoldsIn(s, d)) = 0
    BY <1>1 DEF HoldsIn, One
  <2>5. BackendRefs(d) \in Nat
    BY <1>0, HolderCounts
  <2>6. (TypeOK => CountsAreNat)'
    BY HoldersNat, PTL
  <2>7. QED  BY <2>1, <2>2, <2>3, <2>4, <2>5, <2>6 DEF One, CountsAreNat
<1>5. QED
  BY <1>1, <1>2, <1>3, <1>4, BackendHandlerStep

\* Telling the connection its entity moves no reference.
LEMMA TellRefs ==
    ASSUME RefInv, TypeOK', NEW c \in Conns, TellEntity(c)
    PROVE  RefInv'
<1>0. TypeOK /\ LoginOnce
  BY DEF RefInv
<1>1. PICK s \in ThreadState : Goes("backend", s) /\ s.at = "run"
  BY AtTypes, AtFields DEF TellEntity
<1>2. UNCHANGED <<mem, ref_count, state, alive, kicked, eventsIn, eventsOut>> /\ UNCHANGED ops
  BY DEF TellEntity, inbox, outbox, world
<1>3. LoginOnce' /\ \A d : Queued(NewPlayer(d))' <=> Queued(NewPlayer(d))
  BY <1>0, <1>2 DEF LoginOnce, Queued
<1>4. ASSUME NEW d \in Conns
      PROVE  /\ OpRefs(d)' <= OpRefs(d)
             /\ BackendRefs(d)' + One(HoldsIn(s, d))
                  <= BackendRefs(d) + One(Holds("backend", d))
             /\ ~HoldsIn(s, d)
  <2>1. OpRefs(d) \in Nat /\ BackendRefs(d) \in Nat /\ OpRefs(d)' = OpRefs(d)
    BY <1>0, <1>2, HolderCounts, SameOpRefs
  <2>2. BackendRefs(d)' = BackendRefs(d) /\ ~HoldsIn(s, d) /\ One(HoldsIn(s, d)) = 0
    BY <1>1, <1>2, <1>3 DEF BackendRefs, HoldsIn, One
  <2>3. QED  BY <2>1, <2>2 DEF One
<1>5. QED  BY <1>1, <1>2, <1>3, <1>4, BackendHandlerStep

\* The reference of a deleted entity becomes that of the release.
LEMMA ClosedRefs ==
    ASSUME RefInv, TypeOK', NEW e \in Conns \cup {None}, HandleClosed(e)
    PROVE  RefInv'
<1>0. TypeOK /\ LoginOnce /\ "backend" \in Threads /\ alive \subseteq Conns
  BY DEF RefInv, Threads, TypeOK, WorldType
<1>1. thr["backend"] = Idle
  BY DEF HandleClosed, PopEvent, BackendAt, Backend
<1>2. PICK s \in ThreadState :
        /\ Goes("backend", s)
        /\ s.at # "store"
        /\ \A d \in Conns : HoldsIn(s, d) => d = e /\ e \in alive
  <2>1. CASE e \in alive
    <3>1. At("load", e, 0) \in ThreadState /\ Goes("backend", At("load", e, 0))
      BY <1>0, <2>1, AtTypes DEF HandleClosed
    <3>2. QED  BY <2>1, <3>1, AtFields DEF HoldsIn
  <2>2. CASE e \notin alive
    <3>1. Idle \in ThreadState /\ Goes("backend", Idle)
      BY <1>0, <1>1, <2>2 DEF HandleClosed, Goes, TypeOK, LoopType
    <3>2. QED  BY <3>1, AtFields DEF HoldsIn
  <2>3. QED  BY <2>1, <2>2
<1>3. /\ UNCHANGED <<mem, ref_count, state, kicked, eventsIn>> /\ UNCHANGED ops
      /\ alive' = alive \ {e}
      /\ PopEvent(Closed(e))
  BY DEF HandleClosed, inbox, conn
<1>4. /\ LoginOnce'
      /\ \A d : Queued(NewPlayer(d))' => Queued(NewPlayer(d))
  BY <1>0, <1>3, PopQueues
<1>5. ASSUME NEW d \in Conns
      PROVE  /\ OpRefs(d)' <= OpRefs(d)
             /\ BackendRefs(d)' + One(HoldsIn(s, d))
                  <= BackendRefs(d) + One(Holds("backend", d))
  <2>1. OpRefs(d) \in Nat /\ OpRefs(d)' = OpRefs(d)
    BY <1>0, <1>3, HolderCounts, SameOpRefs
  <2>2. /\ One(Queued(NewPlayer(d)))' <= One(Queued(NewPlayer(d)))
        /\ One(d \in alive)' + One(HoldsIn(s, d)) <= One(d \in alive)
    BY <1>2, <1>3, <1>4 DEF One
  <2>3. QED  BY <2>1, <2>2 DEF BackendRefs, One
<1>6. QED
  BY <1>2, <1>3, <1>4, <1>5, BackendHandlerStep

\* A disconnect by the backend drops a reference nobody held: from here on the
\* connection is in kicked.
LEMMA BackendDisconnectRefs ==
    ASSUME RefInv, TypeOK', NEW c \in Conns, c \in alive, Disconnect("backend", c),
           UNCHANGED <<mem, ref_count, state, alive, eventsOut>>, UNCHANGED ops,
           kicked' = kicked \cup {c}, Backend = Idle
    PROVE  RefInv'
<1>0. TypeOK /\ LoginOnce /\ "backend" \in Threads
  BY DEF RefInv, Threads
<1>1. PICK s \in ThreadState : Goes("backend", s) /\ s.at = "load" /\ s.conn = c
  BY AtTypes, AtFields DEF Disconnect
<1>2. LoginOnce' /\ \A d : Queued(NewPlayer(d))' <=> Queued(NewPlayer(d))
  BY <1>0, DisconnectQueues
<1>3. ASSUME NEW d \in Conns
      PROVE  /\ OpRefs(d)' <= OpRefs(d)
             /\ \/ BackendRefs(d)' + One(HoldsIn(s, d))
                     <= BackendRefs(d) + One(Holds("backend", d))
                \/ d \in kicked' /\ BackendRefs(d) > 0
             /\ HoldsIn(s, d) => d \in alive
  <2>1. OpRefs(d) \in Nat /\ BackendRefs(d) \in Nat /\ OpRefs(d)' = OpRefs(d)
    BY <1>0, HolderCounts, SameOpRefs
  <2>2. HoldsIn(s, d) <=> d = c
    BY <1>1 DEF HoldsIn
  <2>3. CASE d = c
    <3>1. d \in alive /\ d \in kicked' /\ BackendRefs(d) > 0
      BY <1>0, <2>3, HolderCounts
    <3>2. OpRefs(d)' <= OpRefs(d)
      BY <2>1
    <3>3. QED  BY <3>1, <3>2
  <2>4. CASE d # c
    <3>1. BackendRefs(d)' = BackendRefs(d) /\ One(HoldsIn(s, d)) = 0
      BY <1>2, <2>2, <2>4 DEF BackendRefs, One
    <3>2. QED  BY <2>1, <2>2, <2>4, <3>1 DEF One
  <2>5. QED  BY <2>3, <2>4
<1>4. QED
  BY <1>1, <1>2, <1>3, BackendHandlerStep

LEMMA BackendRefsKept ==
    ASSUME RefInv, KickIsAlive, TypeOK', BackendNext
    PROVE  RefInv'
<1>1. CASE HandleBadPacket
  <2>1. PICK p \in Packet : /\ PopPacket(p)
                            /\ p.entity \in alive
                            /\ Disconnect("backend", p.entity)
                            /\ kicked' = kicked \cup {p.entity}
    BY <1>1 DEF HandleBadPacket
  <2>2. p.entity \in Conns /\ Backend = Idle
    BY <2>1 DEF RefInv, TypeOK, WorldType, PopPacket, BackendAt
  <2>3. UNCHANGED <<mem, ref_count, state, alive, eventsOut>> /\ UNCHANGED ops
    BY <1>1 DEF HandleBadPacket, world
  <2>4. QED  BY <2>1, <2>2, <2>3, BackendDisconnectRefs
<1>2. ASSUME NEW c \in Conns, KickPlayer(c)
      PROVE  RefInv'
  BY <1>2, BackendDisconnectRefs DEF KickPlayer, KickIsAlive, BackendAt, outbox
<1>3. Releases("backend") => RefInv'
  BY ReleasesRefs DEF Threads
<1>4. QED
  BY <1>1, <1>2, <1>3, BackendLoopRefs, NewPlayerRefs, TellRefs, ClosedRefs DEF BackendNext

LEMMA FrontendRefsKept ==
    ASSUME RefInv, TypeOK', FrontendNext
    PROVE  RefInv'
BY FrontendLoopRefs, CreateRefs, CompletionRefs, OnRecvRefs, ReleasesRefs
   DEF FrontendNext, Threads

LEMMA StutterRefs ==
    ASSUME RefInv, UNCHANGED vars
    PROVE  RefInv'
BY DEF vars, conn, ops, ring, accepts, inbox, outbox, world, RefInv, TypeOK, ConnType, OpsType,
       AcceptType, LoopType, QueueType, WorldType, RefCoversHolders, NoDangling,
       UnusedIsFree, BackendSeesPlayers, LoginOnce, Holders, OpRefs, BackendRefs,
       ThreadRefs, Holds, Queued, Frontend

-----------------------------------------------------------------------------
(* The references.                                                         *)

\* At first nothing is allocated and nobody holds anything.
LEMMA InitRefs == Init => RefInv
<1> SUFFICES ASSUME Init
             PROVE  RefInv
  OBVIOUS
<1>1. TypeOK
  BY ConnectionsAssumption, AtTypes, EmptySeq
     DEF Init, TypeOK, ConnType, OpsType, AcceptType, LoopType, QueueType, WorldType,
         ConnState
<1>2. ToSet(eventsIn) = {} /\ ToSet(eventsOut) = {}
        /\ DOMAIN eventsIn = {} /\ DOMAIN eventsOut = {}
  BY DEF Init, ToSet
<1>3. \A d : ~Queued(NewPlayer(d))
  BY <1>2 DEF Queued
<1>4. \A t \in Threads : thr[t].at = "run"
  BY AtFields DEF Init
<1>5. \A c \in Conns : Holders(c) = 0
  <2>1. SUFFICES ASSUME NEW c \in Conns
                 PROVE  Holders(c) = 0
    OBVIOUS
  <2>2. OpRefs(c) = 0
    BY DEF Init, OpRefs, One
  <2>3. BackendRefs(c) = 0
    BY <1>3 DEF Init, BackendRefs, One
  <2>4. ThreadRefs(c) = 0
    BY <1>4 DEF ThreadRefs, Holds, One, Threads
  <2>5. QED  BY <2>2, <2>3, <2>4 DEF Holders
<1>6. RefCoversHolders /\ NoDangling /\ UnusedIsFree
  BY <1>4, <1>5 DEF Init, RefCoversHolders, NoDangling, UnusedIsFree, Frontend, Threads
<1>7. BackendSeesPlayers
  BY <1>3, <1>4 DEF Init, BackendSeesPlayers, Holds, Threads
<1>8. LoginOnce
  BY <1>2 DEF LoginOnce, NewOnce
<1>9. QED  BY <1>1, <1>6, <1>7, <1>8 DEF RefInv

\* The mark DisconnectPlayer goes with its entity.
LEMMA KickStaysAlive == KickIsAlive /\ [Next]_vars => KickIsAlive'
<1>1. ASSUME KickIsAlive, UNCHANGED world
      PROVE  KickIsAlive'
  BY <1>1 DEF world, KickIsAlive
<1>2. ASSUME KickIsAlive, FrontendNext
      PROVE  KickIsAlive'
  BY <1>1, <1>2 DEF FrontendNext, Submit, AcceptDone, AcceptFails, CreateConnection, Rearm,
     SendOk, SendFails, RecvEof, RecvData, OnRecv, ProtocolViolation, Handshake, BadVersion,
     StatusRequest, NoMemoryForAnswer, LoginStart, PlayPacket, FinishRecv, Releases,
     ReleaseLoad, ReleaseStore, ReleaseCount, FrontendAccept, ReadTail, MoveTail, FillEntry,
     SetAccepting
<1>3. ASSUME KickIsAlive, BackendNext
      PROVE  KickIsAlive'
  BY <1>1, <1>3 DEF BackendNext, KickIsAlive, Switch, EventsDone, PacketsDone, FinalizeTick,
     SkipPacket, HandlePacket, HandleBadPacket, HandleNewPlayer, TellEntity, HandleClosed,
     KickPlayer, Releases, ReleaseLoad, ReleaseStore, ReleaseCount, FrontendAccept, ReadTail,
     MoveTail, FillEntry, SetAccepting
<1>4. QED  BY <1>1, <1>2, <1>3 DEF Next, vars

-----------------------------------------------------------------------------
(* The ring of the frontend.                                               *)

\* Memory is set up in one place and freed in another.
LEMMA MemChanges ==
    [Next]_vars => \/ UNCHANGED mem
                   \/ CreateConnection
                   \/ \E t \in Threads : ReleaseStore(t)
<1>1. FrontendNext => UNCHANGED mem \/ CreateConnection \/ ReleaseStore("frontend")
  BY DEF FrontendNext, Submit, AcceptDone, AcceptFails, Rearm, SendOk, SendFails, RecvEof,
     RecvData, OnRecv, ProtocolViolation, Handshake, BadVersion, StatusRequest,
     NoMemoryForAnswer, LoginStart, PlayPacket, FinishRecv, Releases, ReleaseLoad,
     ReleaseCount, FrontendAccept, ReadTail, MoveTail, FillEntry, SetAccepting, conn
<1>2. BackendNext => UNCHANGED mem \/ ReleaseStore("backend")
  BY DEF BackendNext, Switch, EventsDone, PacketsDone, FinalizeTick, SkipPacket,
     HandlePacket, HandleBadPacket, HandleNewPlayer, TellEntity, HandleClosed, KickPlayer,
     Releases, ReleaseLoad, ReleaseCount, FrontendAccept, ReadTail, MoveTail, FillEntry,
     SetAccepting, conn
<1>3. QED  BY <1>1, <1>2 DEF Next, vars, conn, Threads

\* Nothing changes the state of a connection in PLAY.
LEMMA StateChanges ==
    [Next]_vars => \/ UNCHANGED state
                   \/ \E c \in Conns, n \in {"STATUS", "LOGIN", "PLAY"} :
                        state[c] # "PLAY" /\ state' = [state EXCEPT ![c] = n]
<1> DEFINE Before(c) == \E n \in {"STATUS", "LOGIN", "PLAY"} :
                          state[c] # "PLAY" /\ state' = [state EXCEPT ![c] = n]
<1>1. ASSUME NEW c \in Conns, OnRecv(c)
      PROVE  UNCHANGED state \/ Before(c)
  BY <1>1, ConnectionsAssumption
     DEF OnRecv, ProtocolViolation, Handshake, BadVersion, StatusRequest, NoMemoryForAnswer,
         LoginStart, PlayPacket, FinishRecv, conn
<1>2. ASSUME FrontendNext
      PROVE  UNCHANGED state \/ \E c \in Conns : OnRecv(c)
  BY <1>2 DEF FrontendNext, Submit, AcceptDone, AcceptFails, CreateConnection, Rearm, SendOk,
     SendFails, RecvEof, RecvData, Releases, ReleaseLoad, ReleaseStore, ReleaseCount,
     FrontendAccept, ReadTail, MoveTail, FillEntry, SetAccepting, conn
<1>3. BackendNext => UNCHANGED state
  BY DEF BackendNext, Switch, EventsDone, PacketsDone, FinalizeTick, SkipPacket,
     HandlePacket, HandleBadPacket, HandleNewPlayer, TellEntity, HandleClosed, KickPlayer,
     Releases, ReleaseLoad, ReleaseStore, ReleaseCount, FrontendAccept, ReadTail, MoveTail,
     FillEntry, SetAccepting, conn
<1>4. QED  BY <1>1, <1>2, <1>3 DEF Next, vars, conn

\* A freed connection that had logged in stays freed and logged in.
LEMMA FreedStays ==
    ASSUME TypeOK, UnusedIsFree, PlayerFreed, [Next]_vars
    PROVE  PlayerFreed'
<1>1. PICK c \in Conns : mem[c] = "freed" /\ state[c] = "PLAY"
  BY DEF PlayerFreed
<1>2. mem'[c] = "freed"
  <2>1. CASE CreateConnection
    BY <1>1, <2>1 DEF CreateConnection, UnusedIsFree, TypeOK, ConnType
  <2>2. ASSUME NEW t \in Threads, ReleaseStore(t)
        PROVE  mem'[c] = "freed"
    BY <1>1, <2>2 DEF ReleaseStore, TypeOK, ConnType
  <2>3. QED  BY <1>1, <2>1, <2>2, MemChanges
<1>3. state'[c] = "PLAY"
  BY <1>1, StateChanges DEF TypeOK, ConnType
<1>4. QED  BY <1>2, <1>3 DEF PlayerFreed

\* The backend comes to the ring by freeing a connection only.
LEMMA BackendComes ==
    ASSUME [Next]_vars, TypeOK,
           Backend.at \notin {"count", "accept", "tail", "fill", "flag"},
           Backend'.at \in {"count", "accept", "tail", "fill", "flag"}
    PROVE  /\ ReleaseStore("backend")
           /\ mem'[Backend.conn] = "freed"
           /\ Backend.conn \in Conns /\ Backend.at = "store"
<1>0. "frontend" \in Threads /\ "backend" \in Threads /\ thr \in [Threads -> ThreadState]
  BY DEF Threads, TypeOK, LoopType
<1>1. \A s : Goes("backend", s) => Backend' = s
  BY <1>0 DEF Goes, Backend
<1>2. \A s : Goes("frontend", s) => Backend' = Backend
  BY <1>0 DEF Goes, Backend
<1>3. Next
  BY DEF vars, Backend
<1>4. ASSUME FrontendNext
      PROVE  FALSE
  <2>1. \/ UNCHANGED thr
        \/ \E s : Goes("frontend", s)
    BY <1>4 DEF FrontendNext, Submit, AcceptDone, AcceptFails, CreateConnection, Rearm,
       AcceptUnlessAccepting, SendOk, SendFails, RecvEof, RecvData, OnRecv,
       ProtocolViolation, Handshake, BadVersion, StatusRequest, NoMemoryForAnswer,
       LoginStart, PlayPacket, FinishRecv, Disconnect, Releases, ReleaseLoad, ReleaseStore,
       ReleaseCount, FrontendAccept, ReadTail, MoveTail, FillEntry, SetAccepting
  <2>2. QED  BY <1>2, <2>1 DEF Backend
<1>5. ASSUME BackendNext
      PROVE  ReleaseStore("backend")
  <2>1. \/ UNCHANGED thr
        \/ \E c, n : Goes("backend", At("tell", c, n)) \/ Goes("backend", At("load", c, n))
                       \/ Goes("backend", At("store", c, n))
        \/ Goes("backend", Idle)
        \/ ReleaseStore("backend")
        \/ Backend.at \in {"count", "accept", "tail", "fill", "flag"}
    BY <1>5 DEF BackendNext, Switch, EventsDone, PacketsDone, FinalizeTick, SkipPacket,
       HandlePacket, HandleBadPacket, HandleNewPlayer, TellEntity, HandleClosed, KickPlayer,
       Disconnect, Releases, ReleaseLoad, ReleaseCount, FrontendAccept, ReadTail, MoveTail,
       FillEntry, SetAccepting, Backend
  <2>2. QED  BY <1>1, <2>1, AtFields DEF Backend
<1>6. ReleaseStore("backend")
  BY <1>3, <1>4, <1>5 DEF Next
<1>7. Backend.conn \in Conns /\ Backend.at = "store"
  BY <1>0, <1>6, ThreadTypes DEF ReleaseStore, TypeOK, Backend
<1>8. Backend'.at # "run" => mem' = [mem EXCEPT ![Backend.conn] = "freed"]
  BY <1>1, <1>6, AtFields DEF ReleaseStore, Backend
<1>9. QED  BY <1>6, <1>7, <1>8 DEF TypeOK, ConnType

\* The ring is torn only while the backend takes an entry of it.
LEMMA RingTorn ==
    ASSUME Next, fate' = "torn"
    PROVE  Backend.at \in {"tail", "fill"}
<1>1. TakesEntry("frontend") => Backend.at \in {"tail", "fill"}
  BY DEF Next, TakesEntry, Threads, Backend
<1>2. UNCHANGED fate \/ Submit => Backend.at \in {"tail", "fill"}
  BY DEF Next, Submit
<1>3. MoveTail("backend") => Backend.at \in {"tail", "fill"}
  BY DEF MoveTail, Backend
<1>4. FrontendNext => UNCHANGED fate \/ Submit \/ TakesEntry("frontend")
  BY DEF FrontendNext, AcceptDone, AcceptFails, CreateConnection, Rearm, SendOk, SendFails,
     RecvEof, RecvData, OnRecv, ProtocolViolation, Handshake, BadVersion, StatusRequest,
     NoMemoryForAnswer, LoginStart, FrontendSend, PlayPacket, FinishRecv, Releases,
     ReleaseLoad, ReleaseStore, ReleaseCount, FrontendAccept, ReadTail, MoveTail, FillEntry,
     SetAccepting, ring
<1>5. BackendNext => UNCHANGED fate \/ MoveTail("backend")
  BY DEF BackendNext, Switch, EventsDone, PacketsDone, FinalizeTick, SkipPacket,
     HandlePacket, HandleBadPacket, HandleNewPlayer, TellEntity, HandleClosed, KickPlayer,
     Releases, ReleaseLoad, ReleaseStore, ReleaseCount, FrontendAccept, ReadTail, FillEntry,
     SetAccepting, ring
<1>6. QED  BY <1>1, <1>2, <1>3, <1>4, <1>5 DEF Next

LEMMA RingKept ==
    ASSUME IInv, [Next]_vars
    PROVE  BackendAccepts' /\ OnlyPlayersTear'
<1>0. TypeOK /\ UnusedIsFree /\ BackendSeesPlayers
  BY DEF IInv, RefInv
<1>1. PlayerFreed => PlayerFreed'
  BY <1>0, FreedStays
<1>2. BackendAccepts'
  <2>1. SUFFICES ASSUME Backend'.at \in {"count", "accept", "tail", "fill", "flag"}
                 PROVE  PlayerFreed'
    BY DEF BackendAccepts
  <2>2. CASE Backend.at \in {"count", "accept", "tail", "fill", "flag"}
    BY <1>1, <2>2 DEF IInv, BackendAccepts
  <2>3. CASE Backend.at \notin {"count", "accept", "tail", "fill", "flag"}
    <3>1. /\ ReleaseStore("backend") /\ mem'[Backend.conn] = "freed"
          /\ Backend.conn \in Conns /\ Backend.at = "store"
      BY <1>0, <2>1, <2>3, BackendComes
    <3>2. state[Backend.conn] = "PLAY" /\ UNCHANGED state
      BY <1>0, <3>1 DEF BackendSeesPlayers, Holds, Backend, ReleaseStore
    <3>3. QED  BY <3>1, <3>2 DEF PlayerFreed
  <2>4. QED  BY <2>2, <2>3
<1>3. OnlyPlayersTear'
  <2>1. SUFFICES ASSUME fate' = "torn"
                 PROVE  PlayerFreed'
    BY DEF OnlyPlayersTear
  <2>2. CASE Next
    BY <1>1, <2>1, <2>2, RingTorn DEF IInv, BackendAccepts
  <2>3. CASE UNCHANGED vars
    BY <1>1, <2>1, <2>3 DEF IInv, OnlyPlayersTear, vars, ring
  <2>4. QED  BY <2>2, <2>3
<1>4. QED  BY <1>2, <1>3

-----------------------------------------------------------------------------
(* The theorems.                                                           *)

\* The inductive invariant is one.
THEOREM RefsCorrect == Spec => []IInv
<1>1. Init => IInv /\ KickIsAlive
  <2>1. Init => BackendAccepts /\ OnlyPlayersTear /\ KickIsAlive
    BY AtFields DEF Init, BackendAccepts, OnlyPlayersTear, KickIsAlive, Backend, Threads
  <2>2. QED  BY <2>1, InitRefs DEF IInv
<1>2. IInv /\ KickIsAlive /\ TypeOK' /\ [Next]_vars => IInv' /\ KickIsAlive'
  <2>1. RefInv /\ KickIsAlive /\ TypeOK' /\ [Next]_vars => RefInv'
    BY FrontendRefsKept, BackendRefsKept, StutterRefs DEF Next
  <2>2. QED  BY <2>1, RingKept, KickStaysAlive DEF IInv
<1>3. QED  BY <1>1, <1>2, TypeCorrect, PTL DEF Spec

\* No lost update of the unsynchronised ref_count makes the count smaller than
\* the number of holders of a connection, for any number of connections, until
\* the ring is torn.
THEOREM RefCoversHoldersHolds == Spec => []RefCoversHolders
<1>1. IInv => RefCoversHolders
  BY DEF IInv, RefInv
<1>2. QED  BY <1>1, RefsCorrect, PTL

\* A connection the frontend disconnects is never freed under a posted
\* operation, a queued login, an entity or a running handler, until the ring is
\* torn.
THEOREM NoDanglingHolds == Spec => []NoDangling
<1>1. IInv => NoDangling
  BY DEF IInv, RefInv
<1>2. QED  BY <1>1, RefsCorrect, PTL

\* The ring of the frontend is not torn before a player's connection was freed.
THEOREM OnlyPlayersTearHolds == Spec => []OnlyPlayersTear
<1>1. IInv => OnlyPlayersTear
  BY DEF IInv
<1>2. QED  BY <1>1, RefsCorrect, PTL

-----------------------------------------------------------------------------
(***************************************************************************)
(* Connections that only ask for the status: nothing leaks, the backlog is *)
(* kept, and m_accepting tells whether an accept is posted, for any number *)
(* of connections and any backlog.                                         *)
(*                                                                         *)
(* The backend never hears of such a client, so only the frontend works on *)
(* it and ref_count is the number of its holders, not just no less.  With  *)
(* a login the two threads race on the counts, and with a send that fails  *)
(* a connection is released while its recv is being handled; both lose     *)
(* references and with them connections.                                   *)
(***************************************************************************)

\* Clients never log in, and their answers are allocated and sent.
StatusOnly == NextStates \subseteq {"STATUS"} /\ {"send", "answer"} \cap Faults = {}

-----------------------------------------------------------------------------
(* The inductive invariant.                                                *)

BackendRests ==
    /\ eventsIn = <<>> /\ eventsOut = <<>> /\ packetsIn = <<>> /\ packetsOut = <<>>
    /\ alive = {} /\ kick = {} /\ Backend = Idle
    /\ \A c \in Conns : state[c] \in {"HANDSHAKING", "STATUS"}

Refs(c) == OpRefs(c) + One(Holds("frontend", c))

\* The count is the number of holders, and the handler that has the data of a
\* recv works on a connection that nobody disconnected.
RefsExact ==
    /\ \A c \in Conns : /\ mem[c] = "live" <=> Refs(c) > 0
                        /\ mem[c] = "live" => ref_count[c] = Refs(c)
                        /\ disconnect[c] => recv[c] = "none" /\ mem[c] # "unused"
    /\ Frontend.at = "store" => Frontend.reg = ref_count[Frontend.conn]
    /\ Frontend.at = "recv" => recv[Frontend.conn] = "none" /\ ~disconnect[Frontend.conn]
    /\ Frontend.at = "create" => mem[Frontend.conn] = "unused"

Resting  == {"run", "recv", "load", "store"}
InAccept == {"accept", "tail", "fill", "flag"}

\* The counter of connections and the accept, at each place of the handlers.
Capacity ==
    /\ IsFiniteSet(Live) /\ Cardinality(Live) <= Backlog
    /\ total = Cardinality(Live) + One(Frontend.at = "count")
    /\ Frontend.at \in {"create", "count"} => Frontend.reg = total
    /\ loop = "stopped" => Frontend = Idle
    /\ loop # "stopped" /\ Frontend.at # "flag" =>
         acceptStaged + acceptArmed = One(m_accepting)
    /\ Frontend.at = "flag" => acceptStaged + acceptArmed = 1
    /\ Frontend.at \in {"create", "rearm"} \cup InAccept => ~m_accepting
    /\ Frontend.at \in {"create", "count"} \cup InAccept => Cardinality(Live) < Backlog
    /\ Frontend.at = "count" => (m_accepting <=> Cardinality(Live) + 1 < Backlog)
    /\ Frontend.at \in Resting /\ loop # "stopped" =>
         (m_accepting <=> Cardinality(Live) < Backlog)

SInv == TypeOK /\ BackendRests /\ RefsExact /\ Capacity

-----------------------------------------------------------------------------
(* Steps that move a reference.                                            *)

LEMMA TwoThreads ==
    "frontend" \in Threads /\ "backend" \in Threads /\ Idle.at = "run" /\ Idle.conn = None
  BY AtFields DEF Threads, Idle, At

\* The thread goes somewhere, and the other one stays.
LEMMA FrontendGoes ==
    ASSUME TypeOK, NEW s, Goes("frontend", s)
    PROVE  /\ Frontend' = s /\ Backend' = Backend
           /\ \A c : Holds("frontend", c)' <=> HoldsIn(s, c)
<1>1. thr'["frontend"] = s /\ thr'["backend"] = thr["backend"]
  BY TwoThreads DEF TypeOK, LoopType, Goes
<1>2. QED  BY <1>1 DEF Frontend, Backend, Holds, HoldsIn

LEMMA RefCountsAreNat ==
    ASSUME TypeOK, NEW c \in Conns
    PROVE  /\ OpRefs(c) \in Nat /\ Refs(c) \in Nat
           /\ recv[c] # "none" \/ sendFlight[c] > 0 \/ Holds("frontend", c) => Refs(c) > 0
<1>1. /\ OpRefs(c) \in Nat
      /\ recv[c] # "none" \/ sendFlight[c] > 0 => OpRefs(c) > 0
  BY HolderCounts
<1>2. /\ One(Holds("frontend", c)) \in {0, 1}
      /\ Holds("frontend", c) => One(Holds("frontend", c)) = 1
  BY DEF One
<1>3. QED  BY <1>1, <1>2 DEF Refs

LEMMA RefsMove ==
    ASSUME TypeOK, RefsExact, NEW s \in ThreadState, Goes("frontend", s),
           UNCHANGED <<mem, ref_count>>,
           \A c \in Conns : OpRefs(c)' + One(HoldsIn(s, c)) = Refs(c),
           \A c \in Conns : disconnect'[c] => recv'[c] = "none" /\ mem[c] # "unused",
           s.at = "store" => s.reg = ref_count[s.conn],
           s.at = "recv" => recv'[s.conn] = "none" /\ ~disconnect'[s.conn],
           s.at = "create" => mem[s.conn] = "unused"
    PROVE  RefsExact'
<1>1. Frontend' = s /\ \A c : Holds("frontend", c)' <=> HoldsIn(s, c)
  BY FrontendGoes
<1>2. \A c \in Conns : Refs(c)' = Refs(c)
  BY <1>1 DEF Refs, One
<1>3. QED  BY <1>1, <1>2 DEF RefsExact

\* Between the places of release_connection and the handlers of data the counter
\* and the accept stay what they are.
LEMMA CapacityStays ==
    ASSUME TypeOK, Capacity, NEW s, Goes("frontend", s),
           Frontend.at \in Resting, s.at \in Resting,
           UNCHANGED <<mem, m_accepting, total>>,
           acceptStaged' + acceptArmed' = acceptStaged + acceptArmed,
           loop # "stopped", loop' # "stopped"
    PROVE  Capacity'
<1>1. Frontend' = s
  BY FrontendGoes
<1>2. Live' = Live
  BY DEF Live
<1>3. One(Frontend.at = "count") = 0 /\ One(s.at = "count") = 0
  BY DEF One, Resting
<1>4. QED  BY <1>1, <1>2, <1>3 DEF Capacity, Resting, InAccept

LEMMA StepsOfStatus ==
    ASSUME SInv
    PROVE  /\ Frontend.at # "run" => loop # "stopped"
           /\ \A c \in Conns : Receiving(c) => Frontend.at = "recv" /\ Holds("frontend", c)
  BY TwoThreads DEF SInv, Capacity, Receiving, Holds, Frontend

LEMMA SubmitStatus ==
    ASSUME SInv, Submit
    PROVE  RefsExact' /\ Capacity'
<1>1. Frontend = Idle /\ Goes("frontend", Idle) /\ Idle \in ThreadState
  BY AtTypes, TwoThreads DEF SInv, TypeOK, LoopType, Submit, Goes, Frontend
<1>2. \A c \in Conns : OpRefs(c)' = OpRefs(c) /\ (recv'[c] = "none" <=> recv[c] = "none")
  <2>1. \A c \in Conns : sendStaged[c] \in Nat /\ sendFlight[c] \in Nat
    BY DEF SInv, TypeOK, OpsType
  <2>2. QED  BY <2>1 DEF Submit, OpRefs, One, SInv, TypeOK, OpsType
<1>3. \A c \in Conns : One(HoldsIn(Idle, c)) = One(Holds("frontend", c))
  BY <1>1 DEF HoldsIn, Holds, Frontend
<1>4. RefsExact'
  BY <1>1, <1>2, <1>3, TwoThreads, RefsMove DEF Submit, conn, SInv, RefsExact, Refs
<1>5. acceptStaged' + acceptArmed' = acceptStaged + acceptArmed
  BY DEF SInv, TypeOK, AcceptType, Submit
<1>6. Capacity'
  BY <1>1, <1>5, TwoThreads, CapacityStays DEF Submit, conn, SInv, Resting
<1>7. QED  BY <1>4, <1>6

LEMMA CompletionStatus ==
    ASSUME SInv, NEW c \in Conns, SendOk(c) \/ RecvEof(c) \/ RecvData(c)
    PROVE  RefsExact' /\ Capacity'
<1>0. /\ Frontend = Idle /\ loop # "stopped" /\ loop' # "stopped"
      /\ UNCHANGED <<mem, ref_count, m_accepting, acceptStaged, acceptArmed, total>>
      /\ TypeOK /\ RefsExact /\ Capacity
  BY DEF SendOk, RecvEof, RecvData, Completion, conn, ring, accepts, SInv
<1>1. PICK s \in {At("load", c, 0), At("recv", c, 0)} :
        /\ Goes("frontend", s)
        /\ s.at = "recv" => RecvData(c)
  BY AtFields DEF SendOk, RecvEof, RecvData, Disconnect
<1>2. s \in ThreadState /\ s.at \in {"load", "recv"} /\ s.conn = c
  BY <1>1, AtTypes, AtFields
<1>3. \A d \in Conns : OpRefs(d)' = IF d = c THEN OpRefs(d) - 1 ELSE OpRefs(d)
  BY <1>0, CompletedOp DEF SendOk, RecvEof, RecvData
<1>4. \A d \in Conns : OpRefs(d)' + One(HoldsIn(s, d)) = Refs(d)
  <2>1. \A d \in Conns : OpRefs(d) \in Nat /\ One(Holds("frontend", d)) = 0
    BY <1>0, TwoThreads, RefCountsAreNat DEF Holds, One, Frontend
  <2>2. \A d \in Conns : One(HoldsIn(s, d)) = IF d = c THEN 1 ELSE 0
    BY <1>2 DEF HoldsIn, One
  <2>3. QED  BY <1>3, <2>1, <2>2 DEF Refs
<1>5. mem[c] # "unused"
  <2>1. Refs(c) > 0
    BY <1>0, RefCountsAreNat DEF SendOk, RecvEof, RecvData
  <2>2. QED  BY <1>0, <2>1 DEF RefsExact
<1>6. /\ \A d \in Conns : disconnect'[d] => recv'[d] = "none" /\ mem[d] # "unused"
      /\ s.at = "recv" => recv'[c] = "none" /\ ~disconnect'[c]
  <2>1. CASE SendOk(c)
    BY <1>0, <1>1, <2>1, AtFields DEF SendOk, RecvData, conn, RefsExact, TypeOK, OpsType
  <2>2. CASE RecvEof(c)
    <3>1. recv' = [recv EXCEPT ![c] = "none"] /\ disconnect' = [disconnect EXCEPT ![c] = TRUE]
      BY <2>2 DEF RecvEof, Disconnect
    <3>2. s.at = "load"
      BY <1>0, <1>1, <2>2, AtFields, FrontendGoes DEF RecvEof, Disconnect
    <3>3. QED  BY <1>0, <1>5, <3>1, <3>2 DEF RefsExact, TypeOK, OpsType, ConnType
  <2>3. CASE RecvData(c)
    <3>1. /\ recv' = [recv EXCEPT ![c] = "none"] /\ disconnect' = disconnect
          /\ recv[c] = "armed"
      BY <2>3 DEF RecvData, conn
    <3>2. QED  BY <1>0, <3>1 DEF RefsExact, TypeOK, OpsType
  <2>4. QED  BY <2>1, <2>2, <2>3
<1>7. RefsExact'
  BY <1>0, <1>1, <1>2, <1>4, <1>6, RefsMove
<1>8. Capacity'
  BY <1>0, <1>1, <1>2, TwoThreads, CapacityStays DEF Resting
<1>9. QED  BY <1>7, <1>8

\* A handler that stays where it is or ends without taking a reference.
LEMMA OnRecvStatus ==
    ASSUME SInv, NEW c \in Conns, ProtocolViolation(c) \/ Handshake(c) \/ FinishRecv(c)
    PROVE  RefsExact' /\ Capacity'
<1>0. /\ Frontend.at = "recv" /\ Frontend.conn = c /\ Holds("frontend", c)
      /\ loop # "stopped" /\ loop' # "stopped"
      /\ UNCHANGED <<mem, ref_count, m_accepting, acceptStaged, acceptArmed, total>>
      /\ TypeOK /\ RefsExact /\ Capacity
      /\ recv[c] = "none" /\ ~disconnect[c]
  BY StepsOfStatus
     DEF ProtocolViolation, Handshake, FinishRecv, Receiving, conn, ring, accepts, SInv, RefsExact
<1>1. \A d \in Conns : OpRefs(d) \in Nat /\ One(Holds("frontend", d)) = IF d = c THEN 1 ELSE 0
  BY <1>0, RefCountsAreNat DEF Holds, One, Frontend
<1>2. CASE ProtocolViolation(c)
  <2> DEFINE s == At("load", c, 0)
  <2>1. /\ Goes("frontend", s) /\ UNCHANGED ops /\ UNCHANGED recv
        /\ disconnect' = [disconnect EXCEPT ![c] = TRUE]
    BY <1>2 DEF ProtocolViolation, Disconnect, ops
  <2>2. s \in ThreadState /\ s.at = "load" /\ s.conn = c
    BY AtTypes, AtFields
  <2> HIDE DEF s
  <2>3. \A d \in Conns : OpRefs(d)' + One(HoldsIn(s, d)) = Refs(d)
    BY <1>1, <2>1, <2>2, SameOpRefs DEF HoldsIn, One, Refs
  <2>4. mem[c] # "unused"
    BY <1>0, RefCountsAreNat DEF RefsExact
  <2>5. \A d \in Conns : disconnect'[d] => recv'[d] = "none" /\ mem[d] # "unused"
    BY <1>0, <2>1, <2>4 DEF RefsExact, TypeOK, ConnType
  <2>6. RefsExact'
    BY <1>0, <2>1, <2>2, <2>3, <2>5, RefsMove
  <2>7. QED  BY <1>0, <2>1, <2>2, <2>6, CapacityStays DEF Resting
<1>3. CASE Handshake(c)
  <2>1. Frontend \in ThreadState /\ Goes("frontend", Frontend) /\ UNCHANGED <<ops, disconnect, recv>>
    BY <1>3, TwoThreads DEF SInv, TypeOK, LoopType, Goes, Handshake, Frontend, ops
  <2>2. \A d \in Conns : OpRefs(d)' + One(HoldsIn(Frontend, d)) = Refs(d)
    BY <2>1, SameOpRefs DEF HoldsIn, Holds, Refs, Frontend
  <2>3. RefsExact'
    BY <1>0, <2>1, <2>2, RefsMove DEF RefsExact
  <2>4. QED  BY <1>0, <2>1, <2>3, CapacityStays DEF Resting
<1>4. CASE FinishRecv(c)
  <2>1. /\ Goes("frontend", Idle) /\ UNCHANGED <<sendStaged, sendFlight, disconnect>>
        /\ recv' = [recv EXCEPT ![c] = "staged"]
    BY <1>0, <1>4 DEF FinishRecv, conn
  <2>2. \A d \in Conns : OpRefs(d)' = IF d = c THEN OpRefs(d) + 1 ELSE OpRefs(d)
    <3>1. \A d \in Conns : sendStaged[d] \in Nat /\ sendFlight[d] \in Nat
      BY <1>0 DEF TypeOK, OpsType
    <3>2. QED  BY <1>0, <2>1, <3>1 DEF OpRefs, One, TypeOK, OpsType
  <2>3. \A d \in Conns : One(HoldsIn(Idle, d)) = 0
    BY TwoThreads DEF HoldsIn, One
  <2>4. \A d \in Conns : OpRefs(d)' + One(HoldsIn(Idle, d)) = Refs(d)
    BY <1>1, <2>2, <2>3 DEF Refs
  <2>5. \A d \in Conns : disconnect'[d] => recv'[d] = "none" /\ mem[d] # "unused"
    BY <1>0, <2>1 DEF RefsExact, TypeOK, OpsType
  <2>6. RefsExact'
    BY <1>0, <2>1, <2>4, <2>5, AtTypes, TwoThreads, RefsMove
  <2>7. QED  BY <1>0, <2>1, <2>6, TwoThreads, CapacityStays DEF Resting
<1>5. QED  BY <1>2, <1>3, <1>4

\* A status or ping request takes the reference its send owns.
LEMMA StatusRequestStatus ==
    ASSUME SInv, NEW c \in Conns, StatusRequest(c)
    PROVE  RefsExact' /\ Capacity'
<1>0. /\ Frontend.at = "recv" /\ Frontend.conn = c /\ Holds("frontend", c)
      /\ loop # "stopped" /\ loop' = loop
      /\ UNCHANGED <<mem, recv, disconnect, m_accepting, acceptStaged, acceptArmed, total, thr>>
      /\ TypeOK /\ RefsExact /\ Capacity
  BY StepsOfStatus DEF StatusRequest, FrontendSend, Receiving, conn, ring, accepts, SInv
<1>1. \A d \in Conns : OpRefs(d)' = IF d = c THEN OpRefs(d) + 1 ELSE OpRefs(d)
  <2>1. \A d \in Conns : sendStaged[d] \in Nat /\ sendFlight[d] \in Nat
    BY <1>0 DEF TypeOK, OpsType
  <2>2. sendStaged' = [sendStaged EXCEPT ![c] = @ + 1] /\ sendFlight' = sendFlight
    BY DEF StatusRequest, FrontendSend
  <2>3. QED  BY <1>0, <2>1, <2>2 DEF OpRefs, One, TypeOK, OpsType
<1>2. \A d \in Conns : ref_count'[d] = IF d = c THEN ref_count[d] + 1 ELSE ref_count[d]
  <2>1. ref_count' = [ref_count EXCEPT ![c] = @ + 1 + 0]
    BY DEF StatusRequest, FrontendSend
  <2>2. ref_count \in [Conns -> Int]
    BY <1>0 DEF TypeOK, ConnType
  <2>3. QED  BY <2>1, <2>2
<1>3. \A d \in Conns : Refs(d)' = IF d = c THEN Refs(d) + 1 ELSE Refs(d)
  <2>1. \A d \in Conns : OpRefs(d) \in Nat /\ One(Holds("frontend", d)) \in {0, 1}
    BY <1>0, RefCountsAreNat DEF One
  <2>2. \A d \in Conns : One(Holds("frontend", d))' = One(Holds("frontend", d))
    BY <1>0 DEF Holds, One
  <2>3. QED  BY <1>1, <2>1, <2>2 DEF Refs
<1>4. Refs(c) > 0 /\ \A d \in Conns : Refs(d) \in Nat /\ ref_count[d] \in Int
  BY <1>0, RefCountsAreNat DEF TypeOK, ConnType
<1>5. \A d \in Conns : /\ mem'[d] = "live" <=> Refs(d)' > 0
                       /\ mem'[d] = "live" => ref_count'[d] = Refs(d)'
  BY <1>0, <1>2, <1>3, <1>4 DEF RefsExact
<1>6. Frontend' = Frontend
  BY <1>0 DEF Frontend
<1>7. RefsExact'
  BY <1>0, <1>5, <1>6 DEF RefsExact
<1>8. Capacity'
  BY <1>0, <1>6 DEF Capacity, Live
<1>9. QED  BY <1>7, <1>8

-----------------------------------------------------------------------------
(* Accepting.                                                              *)

\* The flag says that the accept that completed was the only one.
LEMMA AcceptDoneStatus ==
    ASSUME SInv, AcceptDone
    PROVE  RefsExact' /\ Capacity'
<1>0. /\ Frontend = Idle /\ loop # "stopped" /\ loop' # "stopped"
      /\ UNCHANGED <<mem, ref_count, disconnect, acceptStaged, total>> /\ UNCHANGED ops
      /\ acceptArmed > 0 /\ acceptArmed' = acceptArmed - 1 /\ m_accepting' = FALSE
      /\ TypeOK /\ RefsExact /\ Capacity
  BY DEF AcceptDone, Completion, conn, SInv
<1>1. PICK s \in ThreadState :
        /\ Goes("frontend", s)
        /\ \/ s.at = "create" /\ mem[s.conn] = "unused" /\ s.reg = total
           \/ s.at = "rearm"
        /\ s.at \notin {"store", "recv"} /\ \A d \in Conns : ~HoldsIn(s, d)
  <2>1. total \in Int
    BY <1>0 DEF TypeOK, LoopType
  <2>2. QED  BY <2>1, AtTypes, AtFields DEF AcceptDone, HoldsIn
<1>2. \A d \in Conns : OpRefs(d)' + One(HoldsIn(s, d)) = Refs(d)
  BY <1>0, <1>1, SameOpRefs, TwoThreads DEF Refs, Holds, One, Frontend
<1>3. RefsExact'
  BY <1>0, <1>1, <1>2, RefsMove DEF RefsExact, ops
<1>4. m_accepting /\ acceptStaged + acceptArmed = 1 /\ Cardinality(Live) < Backlog
  BY <1>0, TwoThreads DEF Capacity, Resting, InAccept, One, TypeOK, AcceptType
<1>5. acceptStaged' + acceptArmed' = 0
  BY <1>0, <1>4 DEF TypeOK, AcceptType
<1>6. Frontend' = s /\ Live' = Live
  BY <1>0, <1>1, FrontendGoes DEF Live
<1>7. total = Cardinality(Live)
  <2>1. One(Frontend.at = "count") = 0 /\ IsFiniteSet(Live)
    BY <1>0, TwoThreads DEF One, Capacity
  <2>2. QED  BY <1>0, <2>1, FS_CardinalityType DEF Capacity
<1>8. Capacity'
  <2>1. One(s.at = "count") = 0 /\ One(m_accepting)' = 0
    BY <1>0, <1>1 DEF One
  <2>2. IsFiniteSet(Live) /\ Cardinality(Live) \in Nat
    BY <1>0, FS_CardinalityType DEF Capacity
  <2>3. s.at \in {"create", "rearm"} /\ (s.at = "create" => s.reg = total)
    BY <1>1
  <2>4. QED
    BY <1>0, <1>4, <1>5, <1>6, <1>7, <2>1, <2>2, <2>3, ConnectionsAssumption
       DEF Capacity, Resting, InAccept
<1>9. QED  BY <1>3, <1>8

\* Once the loop has stopped nobody counts any more.
LEMMA AcceptFailsStatus ==
    ASSUME SInv, AcceptFails
    PROVE  RefsExact' /\ Capacity'
<1>0. /\ Frontend = Idle /\ Frontend' = Idle /\ loop' = "stopped"
      /\ UNCHANGED <<mem, ref_count, disconnect, recv, m_accepting, total, thr>> /\ UNCHANGED ops
      /\ TypeOK /\ RefsExact /\ Capacity
  BY DEF AcceptFails, conn, SInv, Frontend, ops
<1>1. \A d \in Conns : Refs(d)' = Refs(d)
  BY <1>0, SameOpRefs DEF Refs, Holds, One
<1>2. RefsExact'
  BY <1>0, <1>1 DEF RefsExact
<1>3. Live' = Live
  BY <1>0 DEF Live
<1>4. QED  BY <1>0, <1>2, <1>3, TwoThreads DEF Capacity

\* The struct that is set up was nobody's, and its recv takes its first reference.
LEMMA CreateStatus ==
    ASSUME SInv, CreateConnection
    PROVE  RefsExact' /\ Capacity'
<1> DEFINE c == Frontend.conn
           s == At("rearm", None, 0)
<1>0. /\ Frontend.at = "create" /\ c \in Conns /\ Frontend.reg = total
      /\ mem' = [mem EXCEPT ![c] = "live"]
      /\ ref_count' = [ref_count EXCEPT ![c] = 1]
      /\ recv' = [recv EXCEPT ![c] = "staged"]
      /\ total' = total + 1 /\ Goes("frontend", s) /\ loop # "stopped"
      /\ UNCHANGED <<disconnect, sendStaged, sendFlight, m_accepting, acceptStaged,
                     acceptArmed, loop>>
      /\ TypeOK /\ RefsExact /\ Capacity
  BY TwoThreads, ThreadTypes, StepsOfStatus
     DEF CreateConnection, ring, accepts, SInv, Frontend, Capacity, TypeOK
<1>1. s.at = "rearm" /\ s.conn = None /\ Frontend' = s /\ \A d : Holds("frontend", d)' <=> HoldsIn(s, d)
  BY <1>0, AtFields, FrontendGoes
<1> HIDE DEF c, s
<1>2. mem[c] = "unused"
  BY <1>0 DEF RefsExact, c
<1>3. /\ \A d \in Conns : OpRefs(d) \in Nat /\ Refs(d) = OpRefs(d)
      /\ OpRefs(c) = 0 /\ recv[c] = "none" /\ sendStaged[c] = 0 /\ sendFlight[c] = 0
  <2>1. \A d \in Conns : OpRefs(d) \in Nat /\ Refs(d) \in Nat /\ Refs(d) = OpRefs(d)
    <3>1. \A d \in Conns : One(Holds("frontend", d)) = 0
      BY <1>0 DEF Holds, One, Frontend
    <3>2. QED  BY <1>0, <3>1, RefCountsAreNat DEF Refs
  <2>2. OpRefs(c) = 0
    BY <1>0, <1>2, <2>1 DEF RefsExact
  <2>3. QED
    BY <1>0, <2>1, <2>2, HolderCounts DEF TypeOK, OpsType
<1>4. \A d \in Conns : Refs(d)' = IF d = c THEN 1 ELSE Refs(d)
  <2>1. \A d \in Conns : OpRefs(d)' = IF d = c THEN 1 ELSE OpRefs(d)
    <3>1. \A d \in Conns : recv'[d] = IF d = c THEN "staged" ELSE recv[d]
      BY <1>0 DEF TypeOK, OpsType
    <3>2. QED  BY <1>0, <1>3, <3>1 DEF OpRefs, One
  <2>2. \A d \in Conns : One(Holds("frontend", d))' = 0
    BY <1>1 DEF One, HoldsIn
  <2>3. QED  BY <1>3, <2>1, <2>2 DEF Refs
<1>5. \A d \in Conns : /\ mem'[d] = "live" <=> Refs(d)' > 0
                       /\ mem'[d] = "live" => ref_count'[d] = Refs(d)'
                       /\ disconnect'[d] => recv'[d] = "none" /\ mem'[d] # "unused"
  <2>1. /\ \A d \in Conns : mem'[d] = IF d = c THEN "live" ELSE mem[d]
        /\ \A d \in Conns : ref_count'[d] = IF d = c THEN 1 ELSE ref_count[d]
        /\ \A d \in Conns : recv'[d] = IF d = c THEN "staged" ELSE recv[d]
    BY <1>0 DEF TypeOK, ConnType, OpsType
  <2>2. ~disconnect[c]
    BY <1>0, <1>2 DEF RefsExact
  <2>3. QED  BY <1>0, <1>4, <2>1, <2>2 DEF RefsExact
<1>6. RefsExact'
  BY <1>1, <1>5 DEF RefsExact
<1>7. /\ IsFiniteSet(Live') /\ Cardinality(Live') = Cardinality(Live) + 1
      /\ Cardinality(Live) \in Nat
  <2>1. Live' = Live \cup {c} /\ c \notin Live
    BY <1>0, <1>2 DEF Live, TypeOK, ConnType
  <2>2. IsFiniteSet(Live)
    BY <1>0 DEF Capacity
  <2>3. QED  BY <2>1, <2>2, FS_AddElement, FS_CardinalityType
<1>8. Capacity'
  <2>1. One(s.at = "count") = 0 /\ One(Frontend.at = "count") = 0
    BY <1>0, <1>1 DEF One
  <2>2. /\ total = Cardinality(Live) /\ Cardinality(Live) < Backlog /\ ~m_accepting
        /\ acceptStaged + acceptArmed = One(m_accepting)
    BY <1>0, <1>7, <2>1 DEF Capacity
  <2>3. QED
    BY <1>0, <1>1, <1>7, <2>1, <2>2, ConnectionsAssumption DEF Capacity, Resting, InAccept
<1>9. QED  BY <1>6, <1>8

\* frontend_accept is called when there is room.
LEMMA RearmStatus ==
    ASSUME SInv, Rearm
    PROVE  RefsExact' /\ Capacity'
<1>0. /\ Frontend.at = "rearm" /\ loop # "stopped" /\ loop' = loop
      /\ UNCHANGED <<mem, ref_count, disconnect, m_accepting, acceptStaged, acceptArmed, total>>
      /\ UNCHANGED ops
      /\ TypeOK /\ RefsExact /\ Capacity
  BY StepsOfStatus DEF Rearm, conn, ring, accepts, SInv
<1>1. PICK s \in ThreadState :
        /\ Goes("frontend", s)
        /\ s = IF total \in 0 .. Backlog - 1 THEN At("accept", None, 0) ELSE Idle
        /\ s.at = IF total \in 0 .. Backlog - 1 THEN "accept" ELSE "run"
        /\ s.conn = None
  <2>1. ~m_accepting
    BY <1>0 DEF Capacity
  <2>2. total - PlayerConnectionsCount = total
    BY <1>0 DEF PlayerConnectionsCount, TypeOK, LoopType
  <2>3. QED
    BY <2>1, <2>2, AtTypes, AtFields, TwoThreads DEF Rearm, AcceptUnlessAccepting
<1>2. \A d \in Conns : OpRefs(d)' + One(HoldsIn(s, d)) = Refs(d)
  <2>1. \A d \in Conns : One(Holds("frontend", d)) = 0 /\ One(HoldsIn(s, d)) = 0
    BY <1>0, <1>1 DEF Holds, HoldsIn, One, Frontend
  <2>2. QED  BY <1>0, <2>1, SameOpRefs DEF Refs
<1>3. RefsExact'
  BY <1>0, <1>1, <1>2, RefsMove DEF RefsExact, ops
<1>4. Frontend' = s /\ Live' = Live
  BY <1>0, <1>1, FrontendGoes DEF Live
<1>5. Cardinality(Live) \in Nat /\ total = Cardinality(Live)
  <2>1. One(Frontend.at = "count") = 0 /\ IsFiniteSet(Live)
    BY <1>0 DEF One, Capacity
  <2>2. QED  BY <1>0, <2>1, FS_CardinalityType DEF Capacity
<1>6. Capacity'
  <2>1. One(s.at = "count") = 0
    BY <1>1 DEF One
  <2>2. s.at = "accept" <=> Cardinality(Live) < Backlog
    BY <1>1, <1>5, ConnectionsAssumption
  <2>3. s.at = "run" => s = Idle
    BY <1>1, AtFields
  <2>4. QED
    BY <1>0, <1>1, <1>4, <1>5, <2>1, <2>2, <2>3 DEF Capacity, Resting, InAccept
<1>7. QED  BY <1>3, <1>6

-----------------------------------------------------------------------------
(* release_connection on the frontend thread.                              *)

LEMMA ReleaseLoadStatus ==
    ASSUME SInv, ReleaseLoad("frontend")
    PROVE  RefsExact' /\ Capacity'
<1> DEFINE c == Frontend.conn
           s == At("store", c, ref_count[c])
<1>0. /\ Frontend.at = "load" /\ c \in Conns /\ ref_count[c] \in Int /\ Goes("frontend", s)
      /\ loop # "stopped" /\ loop' = loop
      /\ UNCHANGED <<mem, ref_count, disconnect, recv, m_accepting, acceptStaged,
                     acceptArmed, total>>
      /\ UNCHANGED ops
      /\ TypeOK /\ RefsExact /\ Capacity
  BY TwoThreads, ThreadTypes, StepsOfStatus
     DEF ReleaseLoad, conn, ops, ring, accepts, SInv, TypeOK, ConnType, Frontend
<1>1. s \in ThreadState /\ s.at = "store" /\ s.conn = c /\ s.reg = ref_count[c]
  BY <1>0, AtTypes, AtFields
<1> HIDE DEF s
<1>2. \A d \in Conns : OpRefs(d)' + One(HoldsIn(s, d)) = Refs(d)
  BY <1>0, <1>1, SameOpRefs DEF HoldsIn, Holds, One, Refs, Frontend
<1>3. RefsExact'
  BY <1>0, <1>1, <1>2, RefsMove DEF RefsExact
<1>4. QED  BY <1>0, <1>1, <1>3, CapacityStays DEF Resting

\* The last reference frees the struct; any other leaves the count exact.
LEMMA ReleaseStoreStatus ==
    ASSUME SInv, ReleaseStore("frontend")
    PROVE  RefsExact' /\ Capacity'
<1> DEFINE c == Frontend.conn
           n == Frontend.reg - 1
<1>0. /\ Frontend.at = "store" /\ c \in Conns /\ Holds("frontend", c)
      /\ Frontend.reg = ref_count[c]
      /\ ref_count' = [ref_count EXCEPT ![c] = n]
      /\ loop # "stopped" /\ loop' = loop
      /\ UNCHANGED <<disconnect, recv, m_accepting, acceptStaged, acceptArmed, total>>
      /\ UNCHANGED ops
      /\ TypeOK /\ RefsExact /\ Capacity
  BY TwoThreads, ThreadTypes, StepsOfStatus
     DEF ReleaseStore, ops, ring, accepts, SInv, TypeOK, Frontend, Holds, RefsExact
<1>1. /\ mem[c] = "live" /\ Refs(c) > 0 /\ ref_count[c] = Refs(c)
      /\ \A d \in Conns : OpRefs(d) \in Nat /\ Refs(d) \in Nat
  BY <1>0, RefCountsAreNat DEF RefsExact
<1>2. PICK s \in ThreadState :
        /\ Goes("frontend", s)
        /\ IF n = 0 THEN s = At("count", None, total) /\ s.at = "count" /\ s.reg = total
                         /\ mem' = [mem EXCEPT ![c] = "freed"]
                    ELSE s = Idle /\ s.at = "run" /\ mem' = mem
        /\ s.conn = None
  <2>1. total \in Int
    BY <1>0 DEF TypeOK, LoopType
  <2>2. QED
    BY <2>1, AtTypes, AtFields, TwoThreads DEF ReleaseStore, Frontend
<1>3. Frontend' = s /\ \A d : Holds("frontend", d)' <=> HoldsIn(s, d)
  BY <1>0, <1>2, FrontendGoes
<1>4. \A d \in Conns : Refs(d)' = IF d = c THEN n ELSE Refs(d)
  <2>1. \A d \in Conns : One(Holds("frontend", d)) = IF d = c THEN 1 ELSE 0
    BY <1>0 DEF Holds, One, Frontend
  <2>2. \A d \in Conns : One(Holds("frontend", d))' = 0
    <3>1. s.at \notin {"recv", "load", "store"}
      BY <1>2
    <3>2. QED  BY <1>3, <3>1 DEF HoldsIn, One
  <2>3. \A d \in Conns : OpRefs(d)' = OpRefs(d)
    BY <1>0, SameOpRefs
  <2>4. QED  BY <1>0, <1>1, <2>1, <2>2, <2>3 DEF Refs
<1>5. n \in Nat
  BY <1>0, <1>1
<1>6. \A d \in Conns : /\ mem'[d] = IF d = c /\ n = 0 THEN "freed" ELSE mem[d]
                       /\ ref_count'[d] = IF d = c THEN n ELSE ref_count[d]
  BY <1>0, <1>2 DEF TypeOK, ConnType
<1> HIDE DEF n
<1>7. \A d \in Conns : /\ mem'[d] = "live" <=> Refs(d)' > 0
                       /\ mem'[d] = "live" => ref_count'[d] = Refs(d)'
                       /\ disconnect'[d] => recv'[d] = "none" /\ mem'[d] # "unused"
  <2> SUFFICES ASSUME NEW d \in Conns
               PROVE  /\ mem'[d] = "live" <=> Refs(d)' > 0
                      /\ mem'[d] = "live" => ref_count'[d] = Refs(d)'
                      /\ disconnect'[d] => recv'[d] = "none" /\ mem'[d] # "unused"
    OBVIOUS
  <2>1. CASE d = c
    BY <1>0, <1>1, <1>4, <1>5, <1>6, <2>1 DEF RefsExact
  <2>2. CASE d # c
    BY <1>0, <1>4, <1>6, <2>2 DEF RefsExact
  <2>3. QED  BY <2>1, <2>2
<1>8. s.at \notin {"store", "recv", "create"}
  BY <1>2
<1>9. RefsExact'
  BY <1>3, <1>7, <1>8 DEF RefsExact
<1>10. CASE n # 0
  <2>1. s.at \in Resting /\ UNCHANGED mem
    BY <1>2, <1>10 DEF Resting
  <2>2. Capacity'
    BY <1>0, <1>2, <2>1, CapacityStays DEF Resting
  <2>3. QED  BY <1>9, <2>2
<1>11. CASE n = 0
  <2>1. /\ IsFiniteSet(Live') /\ Cardinality(Live') = Cardinality(Live) - 1
        /\ Cardinality(Live) \in Nat /\ Cardinality(Live') \in Nat
    <3>1. Live' = Live \ {c} /\ c \in Live
      BY <1>0, <1>1, <1>6, <1>11 DEF Live
    <3>2. IsFiniteSet(Live)
      BY <1>0 DEF Capacity
    <3>3. IsFiniteSet(Live \ {c}) /\ Cardinality(Live \ {c}) = Cardinality(Live) - 1
      BY <3>1, <3>2, FS_RemoveElement
    <3>4. Cardinality(Live) \in Nat /\ Cardinality(Live \ {c}) \in Nat
      BY <3>2, <3>3, FS_CardinalityType
    <3>5. QED  BY <3>1, <3>3, <3>4
  <2>2. s.at = "count" /\ s.reg = total
    BY <1>2, <1>11
  <2>3. One(s.at = "count") = 1 /\ One(Frontend.at = "count") = 0
    BY <1>0, <2>2 DEF One
  <2>4. /\ total = Cardinality(Live) /\ Cardinality(Live) <= Backlog
        /\ m_accepting <=> Cardinality(Live) < Backlog
        /\ acceptStaged + acceptArmed = One(m_accepting)
    BY <1>0, <2>1, <2>3 DEF Capacity, Resting, InAccept
  <2>5. One(m_accepting)' = One(m_accepting)
    BY <1>0 DEF One
  <2>6. Capacity'
    BY <1>0, <1>3, <2>1, <2>2, <2>3, <2>4, <2>5, ConnectionsAssumption DEF Capacity, Resting, InAccept
  <2>7. QED  BY <1>9, <2>6
<1>12. QED  BY <1>10, <1>11

\* The counter is written; frontend_accept is called when no accept is posted.
LEMMA ReleaseCountStatus ==
    ASSUME SInv, ReleaseCount("frontend")
    PROVE  RefsExact' /\ Capacity'
<1>0. /\ Frontend.at = "count" /\ Frontend.reg = total /\ total' = total - 1
      /\ loop # "stopped" /\ loop' = loop
      /\ UNCHANGED <<mem, ref_count, disconnect, recv, m_accepting, acceptStaged, acceptArmed>>
      /\ UNCHANGED ops
      /\ TypeOK /\ RefsExact /\ Capacity
  BY StepsOfStatus DEF ReleaseCount, conn, ops, ring, accepts, SInv, Frontend, Capacity
<1>1. PICK s \in ThreadState :
        /\ Goes("frontend", s)
        /\ s = IF m_accepting THEN Idle ELSE At("accept", None, 0)
        /\ s.at = IF m_accepting THEN "run" ELSE "accept"
        /\ s.conn = None
  BY AtTypes, AtFields, TwoThreads DEF ReleaseCount, AcceptUnlessAccepting
<1>2. s.at \in {"run", "accept"} /\ (s.at = "run" => s = Idle)
  BY <1>1
<1>3. \A d \in Conns : OpRefs(d)' + One(HoldsIn(s, d)) = Refs(d)
  <2>1. \A d \in Conns : One(Holds("frontend", d)) = 0 /\ One(HoldsIn(s, d)) = 0
    BY <1>0, <1>2 DEF Holds, HoldsIn, One, Frontend
  <2>2. QED  BY <1>0, <2>1, SameOpRefs DEF Refs
<1>4. RefsExact'
  BY <1>0, <1>1, <1>2, <1>3, RefsMove DEF RefsExact
<1>5. Frontend' = s /\ Live' = Live
  BY <1>0, <1>1, FrontendGoes DEF Live
<1>6. Cardinality(Live) \in Nat /\ total' = Cardinality(Live) /\ Cardinality(Live) < Backlog
  <2>1. One(Frontend.at = "count") = 1 /\ IsFiniteSet(Live)
    BY <1>0 DEF One, Capacity
  <2>2. QED  BY <1>0, <2>1, FS_CardinalityType DEF Capacity
<1>7. One(s.at = "count") = 0 /\ One(m_accepting)' = One(m_accepting)
  BY <1>0, <1>2 DEF One
<1>8. Capacity'
  BY <1>0, <1>1, <1>2, <1>5, <1>6, <1>7 DEF Capacity, Resting, InAccept
<1>9. QED  BY <1>4, <1>8

\* The frontend has its ring for itself, so its accept is posted.
LEMMA FrontendAcceptStatus ==
    ASSUME SInv, FrontendAccept("frontend")
    PROVE  RefsExact' /\ Capacity'
<1>0. /\ Frontend.at \in InAccept
      /\ UNCHANGED <<mem, ref_count, disconnect, recv, total, loop, acceptArmed>>
      /\ UNCHANGED ops
      /\ TypeOK /\ RefsExact /\ Capacity
  BY DEF FrontendAccept, ReadTail, MoveTail, FillEntry, SetAccepting, conn, ops, ring,
         accepts, SInv, Frontend, InAccept
<1>1. loop # "stopped"
  BY <1>0, StepsOfStatus DEF InAccept
<1>2. PICK s \in ThreadState :
        /\ Goes("frontend", s) /\ s.conn = None
        /\ \/ /\ s.at \in {"tail", "fill"} /\ Frontend.at \in {"accept", "tail"}
              /\ UNCHANGED <<acceptStaged, m_accepting>>
           \/ /\ s.at = "flag" /\ Frontend.at = "fill"
              /\ acceptStaged' = acceptStaged + 1 /\ UNCHANGED m_accepting
           \/ /\ s = Idle /\ s.at = "run" /\ Frontend.at = "flag"
              /\ m_accepting' = TRUE /\ UNCHANGED acceptStaged
  BY AtTypes, AtFields, TwoThreads
     DEF FrontendAccept, ReadTail, MoveTail, FillEntry, SetAccepting, accepts, ring, Frontend
<1>3. s.at \in {"tail", "fill", "flag", "run"}
  BY <1>2
<1>4. \A d \in Conns : OpRefs(d)' + One(HoldsIn(s, d)) = Refs(d)
  <2>1. \A d \in Conns : One(Holds("frontend", d)) = 0 /\ One(HoldsIn(s, d)) = 0
    BY <1>0, <1>3 DEF Holds, HoldsIn, One, Frontend, InAccept
  <2>2. QED  BY <1>0, <2>1, SameOpRefs DEF Refs
<1>5. RefsExact'
  BY <1>0, <1>2, <1>3, <1>4, RefsMove DEF RefsExact
<1>6. Frontend' = s /\ Live' = Live
  BY <1>0, <1>2, FrontendGoes DEF Live
<1>7. /\ One(Frontend.at = "count") = 0 /\ One(s.at = "count") = 0
      /\ ~m_accepting /\ One(m_accepting) = 0
  BY <1>0, <1>3 DEF One, Capacity, InAccept
<1>8. s.at # "flag" => acceptStaged' + acceptArmed' = One(m_accepting)'
  BY <1>0, <1>1, <1>2, <1>7 DEF One, Capacity
<1>9. s.at = "flag" => acceptStaged' + acceptArmed' = 1
  BY <1>0, <1>1, <1>2, <1>7 DEF Capacity, TypeOK, AcceptType
<1>10. s.at # "run" => ~m_accepting'
  BY <1>2, <1>7
<1>11. s.at = "run" => m_accepting' = TRUE
  BY <1>2
<1>12. Capacity'
  BY <1>0, <1>1, <1>3, <1>6, <1>7, <1>8, <1>9, <1>10, <1>11 DEF Capacity, Resting, InAccept
<1>13. QED  BY <1>5, <1>12

-----------------------------------------------------------------------------
(* The backend rests.                                                      *)

\* A step of release_connection, on the frontend.
LEMMA ReleasesStatus ==
    ASSUME SInv, Releases("frontend")
    PROVE  RefsExact' /\ Capacity'
BY ReleaseLoadStatus, ReleaseStoreStatus, ReleaseCountStatus, FrontendAcceptStatus DEF Releases

\* No step of the frontend gives the backend anything to do.
LEMMA FrontendRests ==
    ASSUME StatusOnly, SInv, FrontendNext
    PROVE  BackendRests'
<1>0. TypeOK /\ BackendRests
  BY DEF SInv
<1>1. \A s : Goes("frontend", s) => Backend' = Backend
  BY <1>0, FrontendGoes
<1>2. thr' = thr => Backend' = Backend
  BY DEF Backend
<1>3. \A c \in Conns : Disconnect("frontend", c) => eventsIn' = eventsIn /\ Backend' = Backend
  BY <1>0, <1>1 DEF Disconnect, BackendRests
<1>4. CASE Submit \/ AcceptDone \/ AcceptFails \/ CreateConnection \/ Rearm
  BY <1>0, <1>1, <1>2, <1>4
     DEF Submit, AcceptDone, AcceptFails, CreateConnection, Rearm, AcceptUnlessAccepting,
         conn, inbox, outbox, world, BackendRests
<1>5. ASSUME NEW c \in Conns, SendOk(c) \/ SendFails(c) \/ RecvEof(c) \/ RecvData(c)
      PROVE  BackendRests'
  BY <1>0, <1>1, <1>3, <1>5
     DEF SendOk, SendFails, RecvEof, RecvData, conn, inbox, outbox, world, BackendRests
<1>6. ASSUME NEW c \in Conns, OnRecv(c)
      PROVE  BackendRests'
  <2>1. CASE Handshake(c)
    BY <1>0, <1>2, <2>1
       DEF StatusOnly, Handshake, inbox, outbox, world, BackendRests, TypeOK, ConnType
  <2>2. CASE ProtocolViolation(c) \/ StatusRequest(c) \/ FinishRecv(c)
    BY <1>0, <1>1, <1>2, <1>3, <2>2
       DEF ProtocolViolation, StatusRequest, FinishRecv, conn, inbox, outbox, world, BackendRests
  <2>3. ~BadVersion(c) /\ ~LoginStart(c) /\ ~PlayPacket(c) /\ ~NoMemoryForAnswer(c)
    BY <1>0 DEF StatusOnly, BadVersion, LoginStart, PlayPacket, NoMemoryForAnswer, BackendRests
  <2>4. QED  BY <1>6, <2>1, <2>2, <2>3 DEF OnRecv
<1>7. CASE Releases("frontend")
  BY <1>0, <1>1, <1>7
     DEF Releases, ReleaseLoad, ReleaseStore, ReleaseCount, FrontendAccept, ReadTail, MoveTail,
         FillEntry, SetAccepting, AcceptUnlessAccepting, conn, inbox, outbox, world, BackendRests
<1>8. QED  BY <1>4, <1>5, <1>6, <1>7 DEF FrontendNext

\* A tick of the backend passes through empty queues.
LEMMA BackendIdles ==
    ASSUME SInv, BackendNext
    PROVE  BackendRests' /\ RefsExact' /\ Capacity'
<1>0. TypeOK /\ BackendRests /\ RefsExact /\ Capacity
  BY DEF SInv
<1>1. ~Releases("backend")
  BY <1>0, TwoThreads
     DEF Releases, ReleaseLoad, ReleaseStore, ReleaseCount, FrontendAccept, ReadTail, MoveTail,
         FillEntry, SetAccepting, BackendRests, Backend
<1>2. /\ ~SkipPacket /\ ~HandlePacket /\ ~HandleBadPacket
      /\ \A c \in Conns : ~HandleNewPlayer(c) /\ ~TellEntity(c) /\ ~KickPlayer(c)
      /\ \A e : ~HandleClosed(e)
  BY <1>0, AtFields
     DEF BackendRests, SkipPacket, HandlePacket, HandleBadPacket, PopPacket,
         HandleNewPlayer, TellEntity, HandleClosed, PopEvent, KickPlayer
<1>3. Switch \/ EventsDone \/ PacketsDone \/ FinalizeTick
  BY <1>1, <1>2 DEF BackendNext
<1>4. /\ UNCHANGED <<mem, ref_count, state, disconnect, recv, sendStaged, sendFlight, m_accepting,
                     acceptStaged, acceptArmed, loop, total, alive, kick, thr>>
      /\ eventsIn' = <<>> /\ eventsOut' = <<>> /\ packetsIn' = <<>> /\ packetsOut' = <<>>
  BY <1>0, <1>3 DEF Switch, EventsDone, PacketsDone, FinalizeTick, conn, ops, ring, accepts,
                    inbox, outbox, world, BackendRests
<1>5. BackendRests'
  BY <1>0, <1>4 DEF BackendRests, Backend
<1>6. Frontend' = Frontend /\ Live' = Live /\ \A c \in Conns : Refs(c)' = Refs(c)
  BY <1>4, SameOpRefs DEF Frontend, Live, Refs, Holds, One, ops
<1>7. RefsExact'
  BY <1>0, <1>4, <1>6 DEF RefsExact
<1>8. Capacity'
  BY <1>0, <1>4, <1>6 DEF Capacity
<1>9. QED  BY <1>5, <1>7, <1>8

-----------------------------------------------------------------------------
(* The theorems.                                                           *)

LEMMA InitStatus ==
    ASSUME Init, Backlog > 0
    PROVE  BackendRests /\ RefsExact /\ Capacity
<1>1. Frontend = Idle /\ Backend = Idle /\ Idle.at = "run" /\ Idle.conn = None
  BY TwoThreads DEF Init, Frontend, Backend
<1>2. \A c \in Conns : Refs(c) = 0
  <2>1. \A c \in Conns : One(Holds("frontend", c)) = 0 /\ OpRefs(c) = 0
    BY <1>1 DEF Init, Holds, One, OpRefs, Frontend
  <2>2. QED  BY <2>1 DEF Refs
<1>3. BackendRests
  BY <1>1 DEF Init, BackendRests
<1>4. RefsExact
  BY <1>1, <1>2 DEF Init, RefsExact
<1>5. Live = {}
  BY DEF Init, Live
<1>6. One(Frontend.at = "count") = 0 /\ One(m_accepting) = 1
  BY <1>1 DEF One, Init
<1>7. Capacity
  <2>1. Cardinality(Live) = 0 /\ IsFiniteSet(Live)
    BY <1>5, FS_EmptySet
  <2>2. Frontend.at = "run"
    BY <1>1
  <2>3. QED
    BY <1>1, <1>6, <2>1, <2>2, ConnectionsAssumption DEF Init, Capacity, Resting, InAccept
<1>8. QED  BY <1>3, <1>4, <1>7

LEMMA StatusStep ==
    ASSUME StatusOnly, SInv, TypeOK', [Next]_vars
    PROVE  SInv'
<1>1. CASE FrontendNext
  <2>1. \A c \in Conns : ~SendFails(c)
    BY DEF StatusOnly, SendFails
  <2>2. \A c \in Conns : ~BadVersion(c) /\ ~LoginStart(c) /\ ~PlayPacket(c)
    BY DEF SInv, StatusOnly, BadVersion, LoginStart, PlayPacket, BackendRests
  <2>n. \A c \in Conns : ~NoMemoryForAnswer(c)
    BY DEF StatusOnly, NoMemoryForAnswer
  <2>3. RefsExact' /\ Capacity'
    BY <1>1, <2>1, <2>2, <2>n, SubmitStatus, AcceptDoneStatus, AcceptFailsStatus, CreateStatus,
       RearmStatus, CompletionStatus, OnRecvStatus, StatusRequestStatus, ReleasesStatus
       DEF FrontendNext, OnRecv
  <2>4. QED  BY <1>1, <2>3, FrontendRests DEF SInv
<1>2. CASE BackendNext
  BY <1>2, BackendIdles DEF SInv
<1>3. CASE UNCHANGED vars
  <2>1. Frontend' = Frontend /\ Backend' = Backend /\ Live' = Live
        /\ \A c \in Conns : Refs(c)' = Refs(c)
    BY <1>3, SameOpRefs DEF vars, conn, Frontend, Backend, Live, Refs, Holds, One
  <2>2. RefsExact'
    BY <1>3, <2>1 DEF vars, conn, ops, SInv, RefsExact
  <2>3. Capacity'
    BY <1>3, <2>1 DEF vars, ring, accepts, SInv, Capacity
  <2>4. BackendRests'
    BY <1>3, <2>1 DEF vars, conn, inbox, outbox, world, SInv, BackendRests
  <2>5. QED  BY <2>2, <2>3, <2>4 DEF SInv
<1>4. QED  BY <1>1, <1>2, <1>3 DEF Next

\* With status clients only, ref_count is the number of holders, the counter
\* of connections the number of structs, and m_accepting the posted accept.
THEOREM StatusCorrect ==
    ASSUME StatusOnly, Backlog > 0
    PROVE  Spec => []SInv
<1>1. Init /\ TypeOK => SInv
  BY InitStatus DEF SInv
<1>2. SInv /\ TypeOK' /\ [Next]_vars => SInv'
  BY StatusStep
<1>3. QED  BY <1>1, <1>2, TypeCorrect, PTL DEF Spec

\* NoLeak: no connection is forgotten; each one that is allocated still has an
\* operation or a handler that will call release_connection for it.
THEOREM NothingLeaks ==
    ASSUME StatusOnly, Backlog > 0
    PROVE  Spec => []NoLeak
<1>1. SInv => NoLeak
  <2> SUFFICES ASSUME SInv, NEW c \in Live
               PROVE  Holders(c) > 0
    BY DEF NoLeak
  <2>1. c \in Conns /\ Refs(c) > 0 /\ TypeOK
    BY DEF Live, SInv, RefsExact
  <2>2. /\ OpRefs(c) \in Nat /\ BackendRefs(c) \in Nat
        /\ One(Holds("frontend", c)) \in {0, 1} /\ One(Holds("backend", c)) \in {0, 1}
    BY <2>1, HolderCounts DEF One
  <2>3. QED  BY <2>1, <2>2 DEF Holders, Refs, ThreadRefs
<1>2. QED  BY <1>1, StatusCorrect, PTL

\* BacklogRespected: create_connection never sets up more connections than the
\* backlog, and m_total_connections_count counts them.
THEOREM BacklogIsRespected ==
    ASSUME StatusOnly, Backlog > 0
    PROVE  Spec => []BacklogRespected
<1>1. SInv => BacklogRespected
  <2> SUFFICES ASSUME SInv
               PROVE  BacklogRespected
    OBVIOUS
  <2>1. IsFiniteSet(Live) /\ Cardinality(Live) \in Nat
    BY FS_CardinalityType DEF SInv, Capacity
  <2>2. FrontendFree => One(Frontend.at = "count") = 0
    BY TwoThreads DEF FrontendFree, One
  <2>3. QED  BY <2>1, <2>2 DEF SInv, Capacity, BacklogRespected
<1>2. QED  BY <1>1, StatusCorrect, PTL

\* AcceptMatchesFlag: m_accepting is set exactly when the one accept is posted,
\* and between completions exactly when there is room for a connection.
THEOREM FlagIsTheAccept ==
    ASSUME StatusOnly, Backlog > 0
    PROVE  Spec => []AcceptMatchesFlag
<1>1. SInv => AcceptMatchesFlag
  BY TwoThreads DEF SInv, Capacity, Resting, AcceptMatchesFlag, FrontendFree
<1>2. QED  BY <1>1, StatusCorrect, PTL

=============================================================================
