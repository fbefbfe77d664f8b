---------------------------- MODULE Connections ----------------------------
(***************************************************************************)
(* The lifetime of a connection_t, from accept to free, as three parties   *)
(* share it:                                                               *)
(*                                                                         *)
(*   - the frontend thread, which handles io_uring completions one at a    *)
(*     time (frontend/frontend.c, frontend/connection.c);                  *)
(*   - the kernel, which holds the operations the frontend staged and      *)
(*     submitted and completes them in any order;                          *)
(*   - the backend thread, whose tick turns global events into entities    *)
(*     that own a connection through PlayerConnection (backend/backend.c). *)
(*                                                                         *)
(* Nothing but the global queues is locked: ref_count, the count of        *)
(* connections and m_accepting are plain variables that both threads       *)
(* read, modify and write, so their updates are split into a load and a    *)
(* store here.  connection_t.entity is written by the backend and read by  *)
(* the frontend; it is one aligned word and is read and written whole.     *)
(*                                                                         *)
(* The submission ring is not locked either, and release_connection takes  *)
(* an entry of it on the backend's thread.  An entry that both threads     *)
(* write, or that the frontend submits before the backend has filled it    *)
(* in, may come to anything: what it held before, perhaps an operation of  *)
(* a connection that is freed by now, half of one and half of the other,   *)
(* or nothing.  The ring is torn then (fate) and the model stops: what it  *)
(* says, it says of the program up to there.                               *)
(*                                                                         *)
(* A connection logs in at most once, so the entity created for it is      *)
(* named by the connection; None is entity 0.  Packets keep the entity the *)
(* frontend read and what the backend will make of them.                   *)
(***************************************************************************)
EXTENDS Integers, FiniteSets, Sequences, SequencesExt

CONSTANTS
    Conns,       \* the connection_t structs that may ever be allocated
    None,        \* the null entity
    Backlog,     \* frontend_config_t.backlog
    NextStates,  \* the next_state values clients put in their handshake
    PlayPackets, \* what the backend makes of the packets clients send
    Faults,      \* the environment failures considered
    MaxSends,    \* bound: sends of one connection that are not complete
    MaxPackets   \* bound: packets in the queue the frontend fills

ASSUME ConnectionsAssumption ==
    /\ None \notin Conns
    /\ Backlog \in Nat
    /\ MaxSends \in Nat
    /\ MaxPackets \in Nat
    /\ NextStates \subseteq {"STATUS", "LOGIN"}
    /\ PlayPackets \subseteq {"ok", "bad", "fast", "kill"}
    /\ Faults \subseteq {"accept", "alloc", "answer", "send"}

VARIABLES
    mem,          \* [Conns -> {"unused", "live", "freed"}], the heap
    ref_count,    \* connection_t.ref_count
    state,        \* connection_t.state
    disconnect,   \* connection_t.disconnect
    entity,       \* connection_t.entity
    recv,         \* where the recv operation of a connection is
    sendStaged,   \* writev operations in the submission ring
    sendFlight,   \* writev operations the kernel holds
    acceptStaged, \* accept operations in the submission ring
    acceptArmed,  \* accept operations the kernel holds
    loop,         \* where frontend_start's loop is
    m_accepting,
    fate,         \* whether the entries of the ring are what somebody meant
    total,        \* m_total_connections_count
    eventsIn,     \* events of the queues the frontend fills, oldest first
    eventsOut,    \* events of the queues the tick drains
    packetsIn,
    packetsOut,
    tick,         \* where backend_start's loop is
    alive,        \* connections owned by a living entity's PlayerConnection
    kick,         \* of these, the ones that hold DisconnectPlayer
    thr,          \* what each thread is in the middle of
    kicked        \* history: connections the backend itself disconnected

conn    == <<mem, ref_count, state, disconnect, entity>>
ops     == <<recv, sendStaged, sendFlight>>
accepts == <<acceptStaged, acceptArmed, m_accepting>>
ring    == <<accepts, fate>>
inbox   == <<eventsIn, packetsIn>>
outbox  == <<eventsOut, packetsOut>>
world   == <<alive, kick>>
vars    == <<conn, ops, ring, loop, total, inbox, outbox, tick, world,
             thr, kicked>>

Threads   == {"frontend", "backend"}
ConnState == {"HANDSHAKING", "STATUS", "LOGIN", "PLAY"}

\* m_player_connections_count: no statement assigns it
PlayerConnectionsCount == 0

NewPlayer(c) == [type |-> "NEW_PLAYER", who |-> c]
Closed(e)    == [type |-> "CONNECTION_CLOSED", who |-> e]
Event        == [type : {"NEW_PLAYER"}, who : Conns]
                  \cup [type : {"CONNECTION_CLOSED"}, who : Conns \cup {None}]
Packet       == [from : Conns, entity : Conns \cup {None}, kind : PlayPackets]

\* A thread in the middle of a handler: the place it has reached, the
\* connection it works on, the value it holds in a register.
At(place, c, reg) == [at |-> place, conn |-> c, reg |-> reg]
ThreadState ==
    [at : {"recv", "create", "load", "store", "tell"}, conn : Conns, reg : Int]
      \cup [at : {"run", "rearm", "count", "accept", "tail", "fill", "flag"},
            conn : {None}, reg : Int]

Idle       == At("run", None, 0)
Frontend   == thr["frontend"]
Backend    == thr["backend"]
Goes(t, s) == thr' = [thr EXCEPT ![t] = s]

ConnType ==
    /\ mem \in [Conns -> {"unused", "live", "freed"}]
    /\ ref_count \in [Conns -> Int]
    /\ state \in [Conns -> ConnState]
    /\ disconnect \in [Conns -> BOOLEAN]
    /\ entity \in [Conns -> Conns \cup {None}]

OpsType ==
    /\ recv \in [Conns -> {"none", "staged", "armed"}]
    /\ sendStaged \in [Conns -> Nat]
    /\ sendFlight \in [Conns -> Nat]

AcceptType ==
    /\ acceptStaged \in Nat
    /\ acceptArmed \in Nat
    /\ m_accepting \in BOOLEAN
    /\ fate \in {"fine", "torn"}

LoopType ==
    /\ loop \in {"batch", "wait", "stopped"}
    /\ tick \in {"switch", "events", "packets", "systems", "stopped"}
    /\ total \in Int
    /\ thr \in [Threads -> ThreadState]

QueueType ==
    /\ eventsIn \in Seq(Event)
    /\ eventsOut \in Seq(Event)
    /\ packetsIn \in Seq(Packet)
    /\ packetsOut \in Seq(Packet)

WorldType ==
    /\ alive \subseteq Conns
    /\ kick \subseteq Conns
    /\ kicked \subseteq Conns

TypeOK ==
    ConnType /\ OpsType /\ AcceptType /\ LoopType /\ QueueType /\ WorldType

\* frontend_start has called frontend_accept and is about to submit.
Init ==
    /\ mem = [c \in Conns |-> "unused"]
    /\ ref_count = [c \in Conns |-> 0]
    /\ state = [c \in Conns |-> "HANDSHAKING"]
    /\ disconnect = [c \in Conns |-> FALSE]
    /\ entity = [c \in Conns |-> None]
    /\ recv = [c \in Conns |-> "none"]
    /\ sendStaged = [c \in Conns |-> 0]
    /\ sendFlight = [c \in Conns |-> 0]
    /\ acceptStaged = 1
    /\ acceptArmed = 0
    /\ m_accepting = TRUE
    /\ fate = "fine"
    /\ loop = "batch"
    /\ total = 0
    /\ eventsIn = <<>> /\ eventsOut = <<>>
    /\ packetsIn = <<>> /\ packetsOut = <<>>
    /\ tick = "switch"
    /\ alive = {} /\ kick = {} /\ kicked = {}
    /\ thr = [t \in Threads |-> Idle]

-----------------------------------------------------------------------------
(* release_connection and frontend_accept, on whichever thread runs them.  *)

\* --connection->ref_count reads the count ...
ReleaseLoad(t) ==
    /\ thr[t].at = "load"
    /\ Goes(t, At("store", thr[t].conn, ref_count[thr[t].conn]))
    /\ UNCHANGED <<conn, ops, ring, loop, total, inbox, outbox, tick, world, kicked>>

\* Mutant: every release asks for another accept.
ReleaseStoreAlways(t) ==
    /\ thr[t].at = "store"
    /\ LET c == thr[t].conn
           n == thr[t].reg - 1
       IN /\ ref_count' = [ref_count EXCEPT ![c] = n]
          /\ IF n = 0 THEN mem' = [mem EXCEPT ![c] = "freed"] ELSE UNCHANGED mem
          /\ Goes(t, At("count", None, total))
    /\ UNCHANGED <<state, disconnect, entity, ops, ring, loop, total, inbox,
                   outbox, tick, world, kicked>>

\* ... and writes it back one lower; at zero the struct is closed and freed
\* and the decrement of m_total_connections_count reads that counter.
ReleaseStore(t) ==
    /\ thr[t].at = "store"
    /\ LET c == thr[t].conn
           n == thr[t].reg - 1
       IN /\ ref_count' = [ref_count EXCEPT ![c] = n]
          /\ IF n = 0
             THEN /\ mem' = [mem EXCEPT ![c] = "freed"]
                  /\ Goes(t, At("count", None, total))
             ELSE /\ Goes(t, Idle)
                  /\ UNCHANGED mem
    /\ UNCHANGED <<state, disconnect, entity, ops, ring, loop, total, inbox,
                   outbox, tick, world, kicked>>

\* frontend_accept returns when an accept is outstanding already.
AcceptUnlessAccepting(t) ==
    Goes(t, IF m_accepting THEN Idle ELSE At("accept", None, 0))

\* Mutant: the freed connection does not ask for another accept.
ReleaseCountSilently(t) ==
    /\ thr[t].at = "count"
    /\ total' = thr[t].reg - 1
    /\ Goes(t, Idle)
    /\ UNCHANGED <<conn, ops, ring, loop, inbox, outbox, tick, world, kicked>>

\* The decrement of m_total_connections_count is written and
\* frontend_accept tests m_accepting.
ReleaseCount(t) ==
    /\ thr[t].at = "count"
    /\ total' = thr[t].reg - 1
    /\ AcceptUnlessAccepting(t)
    /\ UNCHANGED <<conn, ops, ring, loop, inbox, outbox, tick, world, kicked>>

\* io_uring_get_sqe reads the tail of the ring ...
ReadTail(t) ==
    /\ thr[t].at = "accept"
    /\ Goes(t, At("tail", None, 0))
    /\ UNCHANGED <<conn, ops, ring, loop, total, inbox, outbox, tick, world, kicked>>

\* Thread t takes an entry while the other one has read the tail and not yet
\* moved it: both get the same entry.
TakesEntry(t) ==
    fate' = IF \E u \in Threads \ {t} : thr[u].at = "tail" THEN "torn" ELSE fate

\* ... and moves it.  The entry is there now, with whatever it held before.
MoveTail(t) ==
    /\ thr[t].at = "tail"
    /\ TakesEntry(t)
    /\ Goes(t, At("fill", None, 0))
    /\ UNCHANGED <<conn, ops, accepts, loop, total, inbox, outbox, tick, world, kicked>>

\* io_uring_prep_accept and user_data.  Nothing is submitted: an entry of the
\* backend waits for the frontend.
FillEntry(t) ==
    /\ thr[t].at = "fill"
    /\ acceptStaged' = acceptStaged + 1
    /\ Goes(t, At("flag", None, 0))
    /\ UNCHANGED <<conn, ops, acceptArmed, m_accepting, fate, loop, total, inbox,
                   outbox, tick, world, kicked>>

SetAccepting(t) ==
    /\ thr[t].at = "flag"
    /\ m_accepting' = TRUE
    /\ Goes(t, Idle)
    /\ UNCHANGED <<conn, ops, acceptStaged, acceptArmed, fate, loop, total, inbox,
                   outbox, tick, world, kicked>>

\* disconnect_connection up to its call of release_connection.
Disconnect(t, c) ==
    /\ disconnect' = [disconnect EXCEPT ![c] = TRUE]
    /\ eventsIn' = IF state[c] = "PLAY"
                   THEN Append(eventsIn, Closed(entity[c]))
                   ELSE eventsIn
    /\ Goes(t, At("load", c, 0))

FrontendAccept(t) == ReadTail(t) \/ MoveTail(t) \/ FillEntry(t) \/ SetAccepting(t)

Releases(t) ==
    ReleaseLoad(t) \/ ReleaseStore(t) \/ ReleaseCount(t) \/ FrontendAccept(t)

-----------------------------------------------------------------------------
(* frontend_start: submission, and the handlers of accept, send and recv   *)
(* completions.  The kernel's completion is merged into its handling.      *)

\* The batch of completions is finished: submit what is in the ring and wait.
\* That includes an entry which the backend has not filled in yet.
Submit ==
    /\ loop = "batch" /\ Frontend = Idle
    /\ loop' = "wait"
    /\ recv' = [c \in Conns |-> IF recv[c] = "staged" THEN "armed" ELSE recv[c]]
    /\ sendFlight' = [c \in Conns |-> sendFlight[c] + sendStaged[c]]
    /\ sendStaged' = [c \in Conns |-> 0]
    /\ acceptArmed' = acceptArmed + acceptStaged
    /\ acceptStaged' = 0
    /\ fate' = IF Backend.at = "fill" THEN "torn" ELSE fate
    /\ UNCHANGED <<conn, m_accepting, total, inbox, outbox, tick, world, thr, kicked>>

\* A completion wakes the loop, or is the next one of the batch.
Completion ==
    /\ loop \in {"wait", "batch"} /\ Frontend = Idle
    /\ loop' = "batch"

\* Mutant: the flag is not cleared when the accept completes.
AcceptDoneKeepsFlag ==
    /\ Completion
    /\ acceptArmed > 0
    /\ acceptArmed' = acceptArmed - 1
    /\ \E c \in Conns : /\ mem[c] = "unused"
                        /\ Goes("frontend", At("create", c, total))
    /\ UNCHANGED <<conn, ops, m_accepting, acceptStaged, fate, total, inbox, outbox,
                   tick, world, kicked>>

\* An accept completed.  Under memory pressure the client is turned away.
AcceptDone ==
    /\ Completion
    /\ acceptArmed > 0
    /\ acceptArmed' = acceptArmed - 1
    /\ m_accepting' = FALSE
    /\ \/ \E c \in Conns : /\ mem[c] = "unused"
                           /\ Goes("frontend", At("create", c, total))
       \/ /\ "alloc" \in Faults
          /\ Goes("frontend", At("rearm", None, 0))
    /\ UNCHANGED <<conn, ops, acceptStaged, fate, total, inbox, outbox, tick, world,
                   kicked>>

\* create_connection after its malloc, and the first add_recv.
CreateConnection ==
    /\ Frontend.at = "create"
    /\ LET c == Frontend.conn
       IN /\ mem' = [mem EXCEPT ![c] = "live"]
          /\ ref_count' = [ref_count EXCEPT ![c] = 1]
          /\ recv' = [recv EXCEPT ![c] = "staged"]
    /\ TakesEntry("frontend")
    /\ total' = Frontend.reg + 1
    /\ Goes("frontend", At("rearm", None, 0))
    /\ UNCHANGED <<state, disconnect, entity, sendStaged, sendFlight, accepts,
                   loop, inbox, outbox, tick, world, kicked>>

\* Mutant: the backlog is compared with <=.
RearmOneTooMany ==
    /\ Frontend.at = "rearm"
    /\ IF total - PlayerConnectionsCount \in 0 .. Backlog
       THEN AcceptUnlessAccepting("frontend")
       ELSE Goes("frontend", Idle)
    /\ UNCHANGED <<conn, ops, ring, loop, total, inbox, outbox, tick, world, kicked>>

\* "only add more accepts if we have the capacity": the difference is an int
\* compared with a size_t, so a negative one is not below the backlog.
Rearm ==
    /\ Frontend.at = "rearm"
    /\ IF total - PlayerConnectionsCount \in 0 .. Backlog - 1
       THEN AcceptUnlessAccepting("frontend")
       ELSE Goes("frontend", Idle)
    /\ UNCHANGED <<conn, ops, ring, loop, total, inbox, outbox, tick, world, kicked>>

\* A failed accept ends frontend_start.
AcceptFails ==
    /\ "accept" \in Faults
    /\ loop \in {"wait", "batch"} /\ Frontend = Idle
    /\ acceptArmed > 0
    /\ acceptArmed' = acceptArmed - 1
    /\ loop' = "stopped"
    /\ UNCHANGED <<conn, ops, acceptStaged, m_accepting, fate, total, inbox, outbox,
                   tick, world, thr, kicked>>

\* Mutant: the reference of the send is kept.
SendOkKeepsRef(c) ==
    /\ Completion
    /\ sendFlight[c] > 0
    /\ sendFlight' = [sendFlight EXCEPT ![c] = @ - 1]
    /\ UNCHANGED <<conn, recv, sendStaged, ring, total, inbox, outbox, tick,
                   world, thr, kicked>>

\* A completed send drops its reference ...
SendOk(c) ==
    /\ Completion
    /\ sendFlight[c] > 0
    /\ sendFlight' = [sendFlight EXCEPT ![c] = @ - 1]
    /\ Goes("frontend", At("load", c, 0))
    /\ UNCHANGED <<conn, recv, sendStaged, ring, total, inbox, outbox, tick,
                   world, kicked>>

\* ... a failed one disconnects the client with it.
SendFails(c) ==
    /\ "send" \in Faults
    /\ Completion
    /\ sendFlight[c] > 0
    /\ sendFlight' = [sendFlight EXCEPT ![c] = @ - 1]
    /\ Disconnect("frontend", c)
    /\ UNCHANGED <<mem, ref_count, state, entity, recv, sendStaged, ring,
                   total, packetsIn, outbox, tick, world, kicked>>

\* The peer or the socket is gone: the reference of the recv is dropped.
RecvEof(c) ==
    /\ Completion
    /\ recv[c] = "armed"
    /\ recv' = [recv EXCEPT ![c] = "none"]
    /\ Disconnect("frontend", c)
    /\ UNCHANGED <<mem, ref_count, state, entity, sendStaged, sendFlight,
                   ring, total, packetsIn, outbox, tick, world, kicked>>

\* Data arrived; connection_on_recv works through the packets it completes.
RecvData(c) ==
    /\ Completion
    /\ recv[c] = "armed"
    /\ recv' = [recv EXCEPT ![c] = "none"]
    /\ Goes("frontend", At("recv", c, 0))
    /\ UNCHANGED <<conn, sendStaged, sendFlight, ring, total, inbox, outbox,
                   tick, world, kicked>>

-----------------------------------------------------------------------------
(* connection_on_recv, one packet at a time.                               *)

Receiving(c) == Frontend.at = "recv" /\ Frontend.conn = c

\* Mutant: the request does not own a reference.
FrontendSendBorrows(c, refs) ==
    /\ sendStaged[c] + sendFlight[c] < MaxSends
    /\ sendStaged' = [sendStaged EXCEPT ![c] = @ + 1]
    /\ ref_count' = [ref_count EXCEPT ![c] = @ + refs]
    /\ TakesEntry("frontend")
    /\ UNCHANGED <<recv, sendFlight, accepts>>

\* frontend_send stages a writev that owns a reference; refs counts the
\* references the caller takes besides.
FrontendSend(c, refs) ==
    /\ sendStaged[c] + sendFlight[c] < MaxSends
    /\ sendStaged' = [sendStaged EXCEPT ![c] = @ + 1]
    /\ ref_count' = [ref_count EXCEPT ![c] = @ + 1 + refs]
    /\ TakesEntry("frontend")
    /\ UNCHANGED <<recv, sendFlight, accepts>>

\* Mutant: the error is returned without a disconnect.
ProtocolViolationIgnored(c) ==
    /\ Receiving(c)
    /\ Goes("frontend", Idle)
    /\ UNCHANGED <<conn, ops, ring, loop, total, inbox, outbox, tick, world, kicked>>

\* Mutant: the recv is posted again as after a good packet.
ProtocolViolationRearms(c) ==
    /\ Receiving(c)
    /\ Disconnect("frontend", c)
    /\ recv' = [recv EXCEPT ![c] = "staged"]
    /\ UNCHANGED <<mem, ref_count, state, entity, sendStaged, sendFlight, ring,
                   loop, total, packetsIn, outbox, tick, world, kicked>>

\* A malformed or unexpected packet, at any stage.
ProtocolViolation(c) ==
    /\ Receiving(c)
    /\ Disconnect("frontend", c)
    /\ UNCHANGED <<mem, ref_count, state, entity, ops, ring, loop, total,
                   packetsIn, outbox, tick, world, kicked>>

Handshake(c) ==
    /\ Receiving(c) /\ state[c] = "HANDSHAKING"
    /\ \E s \in NextStates : state' = [state EXCEPT ![c] = s]
    /\ UNCHANGED <<mem, ref_count, disconnect, entity, ops, ring, loop, total,
                   inbox, outbox, tick, world, thr, kicked>>

\* A handshake for login with another version is answered and then treated as
\* a violation.
BadVersion(c) ==
    /\ Receiving(c) /\ state[c] = "HANDSHAKING" /\ "LOGIN" \in NextStates
    /\ state' = [state EXCEPT ![c] = "LOGIN"]
    /\ FrontendSend(c, 0)
    /\ Disconnect("frontend", c)
    /\ UNCHANGED <<mem, entity, loop, total, packetsIn, outbox, tick, world, kicked>>

\* Status and ping requests are answered at once.
StatusRequest(c) ==
    /\ Receiving(c) /\ state[c] = "STATUS"
    /\ FrontendSend(c, 0)
    /\ UNCHANGED <<mem, state, disconnect, entity, loop, total, inbox, outbox,
                   tick, world, thr, kicked>>

\* Mutant: the event does not own a reference.
LoginStartBorrows(c) ==
    /\ Receiving(c) /\ state[c] = "LOGIN"
    /\ state' = [state EXCEPT ![c] = "PLAY"]
    /\ FrontendSend(c, 0)
    /\ eventsIn' = Append(eventsIn, NewPlayer(c))
    /\ UNCHANGED <<mem, disconnect, entity, loop, total, packetsIn, outbox, tick,
                   world, thr, kicked>>

\* handle_login_phase: Login Success is staged, and the event that will own a
\* reference is queued for the backend.
LoginStart(c) ==
    /\ Receiving(c) /\ state[c] = "LOGIN"
    /\ state' = [state EXCEPT ![c] = "PLAY"]
    /\ FrontendSend(c, 1)
    /\ eventsIn' = Append(eventsIn, NewPlayer(c))
    /\ UNCHANGED <<mem, disconnect, entity, loop, total, packetsIn, outbox, tick,
                   world, thr, kicked>>

\* There is no memory for an answer.  The error is not a protocol violation and
\* ends frontend_start, with the reference of the recv still counted.
NoMemoryForAnswer(c) ==
    /\ "answer" \in Faults
    /\ Receiving(c)
    /\ \/ state[c] = "HANDSHAKING" /\ "LOGIN" \in NextStates
          /\ state' = [state EXCEPT ![c] = "LOGIN"]
       \/ state[c] = "STATUS" /\ UNCHANGED state
       \/ state[c] = "LOGIN" /\ state' = [state EXCEPT ![c] = "PLAY"]
    /\ loop' = "stopped"
    /\ Goes("frontend", Idle)
    /\ UNCHANGED <<mem, ref_count, disconnect, entity, ops, ring, total, inbox,
                   outbox, tick, world, kicked>>

\* In play the packet goes to the backend under the entity known right now.
PlayPacket(c) ==
    /\ Receiving(c) /\ state[c] = "PLAY"
    /\ Len(packetsIn) < MaxPackets
    /\ \E k \in PlayPackets :
         packetsIn' = Append(packetsIn, [from |-> c, entity |-> entity[c], kind |-> k])
    /\ UNCHANGED <<conn, ops, ring, loop, total, eventsIn, outbox, tick,
                   world, thr, kicked>>

\* The data is used up: add_recv, which skips a disconnected client.
FinishRecv(c) ==
    /\ Receiving(c)
    /\ IF disconnect[c]
       THEN UNCHANGED <<recv, fate>>
       ELSE recv' = [recv EXCEPT ![c] = "staged"] /\ TakesEntry("frontend")
    /\ Goes("frontend", Idle)
    /\ UNCHANGED <<conn, sendStaged, sendFlight, accepts, loop, total, inbox,
                   outbox, tick, world, kicked>>

-----------------------------------------------------------------------------
(* backend_start: one tick.                                                *)

BackendAt(place) == tick = place /\ Backend = Idle

\* global_queues_switch: the queues the frontend filled are drained now.
Switch ==
    /\ BackendAt("switch")
    /\ eventsIn' = eventsOut /\ eventsOut' = eventsIn
    /\ packetsIn' = packetsOut /\ packetsOut' = packetsIn
    /\ tick' = "events"
    /\ UNCHANGED <<conn, ops, ring, loop, total, world, thr, kicked>>

\* list_pop takes the entry that was added last.
PopEvent(e) ==
    /\ BackendAt("events")
    /\ eventsOut # <<>>
    /\ e = Last(eventsOut)
    /\ eventsOut' = Front(eventsOut)

\* The entity takes over the reference of the event ...
HandleNewPlayer(c) ==
    /\ PopEvent(NewPlayer(c))
    /\ alive' = alive \cup {c}
    /\ Goes("backend", At("tell", c, 0))
    /\ UNCHANGED <<conn, ops, ring, loop, total, inbox, packetsOut, tick, kick,
                   kicked>>

\* Mutant: the connection is not told its entity.
TellNothing(c) ==
    /\ Backend = At("tell", c, 0)
    /\ Goes("backend", Idle)
    /\ UNCHANGED <<conn, ops, ring, loop, total, inbox, outbox, tick, world, kicked>>

\* ... and the connection is told its entity.
TellEntity(c) ==
    /\ Backend = At("tell", c, 0)
    /\ entity' = [entity EXCEPT ![c] = c]
    /\ Goes("backend", Idle)
    /\ UNCHANGED <<mem, ref_count, state, disconnect, ops, ring, loop, total, inbox,
                   outbox, tick, world, kicked>>

\* Deleting the entity destroys its PlayerConnection, which releases the
\* connection; deleting an entity that is not alive does nothing.
HandleClosed(e) ==
    /\ PopEvent(Closed(e))
    /\ alive' = alive \ {e}
    /\ kick' = kick \ {e}
    /\ IF e \in alive THEN Goes("backend", At("load", e, 0)) ELSE UNCHANGED thr
    /\ UNCHANGED <<conn, ops, ring, loop, total, inbox, packetsOut, tick,
                   kicked>>

\* Mutant: the tick leaves its events before they are all handled.
EventsDoneEarly ==
    /\ BackendAt("events")
    /\ tick' = "packets"
    /\ UNCHANGED <<conn, ops, ring, loop, total, inbox, outbox, world, thr, kicked>>

EventsDone ==
    /\ BackendAt("events") /\ eventsOut = <<>>
    /\ tick' = "packets"
    /\ UNCHANGED <<conn, ops, ring, loop, total, inbox, outbox, world, thr, kicked>>

PopPacket(p) ==
    /\ BackendAt("packets")
    /\ packetsOut # <<>>
    /\ p = Last(packetsOut)
    /\ packetsOut' = Front(packetsOut)

\* A packet of an entity that is not alive is skipped.
SkipPacket ==
    /\ \E p \in Packet : PopPacket(p) /\ p.entity \notin alive
    /\ UNCHANGED <<conn, ops, ring, loop, total, inbox, eventsOut, tick,
                   world, thr, kicked>>

\* Any other packet: "fast" moves the player so far that the movement system
\* marks it with DisconnectPlayer, "kill" is one whose varint is cut short,
\* which leaves handle_packets with an error and so ends backend_start.
HandlePacket ==
    /\ \E p \in Packet :
         /\ PopPacket(p)
         /\ p.entity \in alive /\ p.kind # "bad"
         /\ kick' = IF p.kind = "fast" THEN kick \cup {p.entity} ELSE kick
         /\ tick' = IF p.kind = "kill" THEN "stopped" ELSE tick
    /\ UNCHANGED <<conn, ops, ring, loop, total, inbox, eventsOut, alive,
                   thr, kicked>>

\* A packet that breaks the protocol: disconnect_connection from the backend.
HandleBadPacket ==
    /\ \E p \in Packet :
         /\ PopPacket(p)
         /\ p.entity \in alive /\ p.kind = "bad"
         /\ Disconnect("backend", p.entity)
         /\ kicked' = kicked \cup {p.entity}
    /\ UNCHANGED <<mem, ref_count, state, entity, ops, ring, loop, total,
                   packetsIn, eventsOut, tick, world>>

PacketsDone ==
    /\ BackendAt("packets") /\ packetsOut = <<>>
    /\ tick' = "systems"
    /\ UNCHANGED <<conn, ops, ring, loop, total, inbox, outbox, world, thr, kicked>>

\* disconnect_players.  The CLOSED event it queues deletes the entity before
\* the systems run again, so each mark disconnects once.
KickPlayer(c) ==
    /\ BackendAt("systems") /\ c \in kick
    /\ kick' = kick \ {c}
    /\ Disconnect("backend", c)
    /\ kicked' = kicked \cup {c}
    /\ UNCHANGED <<mem, ref_count, state, entity, ops, ring, loop, total,
                   packetsIn, outbox, tick, alive>>

\* finalize_tick submits the backend's ring.
FinalizeTick ==
    /\ BackendAt("systems") /\ kick = {}
    /\ tick' = "switch"
    /\ UNCHANGED <<conn, ops, ring, loop, total, inbox, outbox, alive, kick,
                   thr, kicked>>

-----------------------------------------------------------------------------

OnRecv(c) ==
    \/ ProtocolViolation(c) \/ Handshake(c) \/ BadVersion(c) \/ StatusRequest(c)
    \/ NoMemoryForAnswer(c) \/ LoginStart(c) \/ PlayPacket(c) \/ FinishRecv(c)

FrontendNext ==
    \/ Submit \/ AcceptDone \/ AcceptFails \/ CreateConnection \/ Rearm
    \/ \E c \in Conns :
         SendOk(c) \/ SendFails(c) \/ RecvEof(c) \/ RecvData(c) \/ OnRecv(c)
    \/ Releases("frontend")

BackendNext ==
    \/ Switch \/ EventsDone \/ PacketsDone \/ FinalizeTick
    \/ SkipPacket \/ HandlePacket \/ HandleBadPacket
    \/ \E c \in Conns : HandleNewPlayer(c) \/ TellEntity(c) \/ KickPlayer(c)
    \/ \E e \in Conns \cup {None} : HandleClosed(e)
    \/ Releases("backend")

Next == fate = "fine" /\ (FrontendNext \/ BackendNext)

Spec == Init /\ [][Next]_vars

-----------------------------------------------------------------------------
(* References.  Who may still dereference a connection, as a count.        *)

One(p) == IF p THEN 1 ELSE 0

Queued(e) == e \in ToSet(eventsIn) \cup ToSet(eventsOut)

\* Thread t will release, or is about to hand on, a reference to c.
Holds(t, c) == thr[t].conn = c /\ thr[t].at \in {"recv", "load", "store"}

OpRefs(c)      == One(recv[c] # "none") + sendStaged[c] + sendFlight[c]
BackendRefs(c) == One(Queued(NewPlayer(c))) + One(c \in alive)
ThreadRefs(c)  == One(Holds("frontend", c)) + One(Holds("backend", c))
Holders(c)     == OpRefs(c) + BackendRefs(c) + ThreadRefs(c)

\* Whoever still holds a pointer to a connection - a posted operation, a
\* queued event, an entity, a handler that is running - finds it allocated,
\* although ref_count is not atomic: as long as the ring is not torn, only a
\* connection that the backend itself disconnected (which drops a reference
\* nobody gave it) can be lost early.
NoDangling ==
    \A c \in Conns \ kicked : Holders(c) > 0 => mem[c] = "live"

\* The count never falls below the number of holders, and a thread between
\* the load and the store of its decrement holds a value that covers them:
\* a lost update leaves the count too high, never too low.  This, too, holds
\* until the ring is torn.
RefCoversHolders ==
    \A c \in Conns \ kicked :
      /\ ref_count[c] >= Holders(c)
      /\ \A t \in Threads :
           thr[t].at = "store" /\ thr[t].conn = c => thr[t].reg >= Holders(c)

PlayerFreed == \E c \in Conns : mem[c] = "freed" /\ state[c] = "PLAY"

\* frontend.c:65 is not synchronised, but the ring of the frontend is torn only
\* after a connection that had logged in was freed: the backend comes to take
\* an entry in no other way, so that a server of status clients is safe.
OnlyPlayersTear == fate = "torn" => PlayerFreed

-----------------------------------------------------------------------------
(* What makes the three properties above inductive.                        *)

\* A struct that was never allocated is known to nobody; the one that is about
\* to be set up is such a struct.
UnusedIsFree ==
    /\ \A c \in Conns : mem[c] = "unused" => Holders(c) = 0
    /\ Frontend.at = "create" => mem[Frontend.conn] = "unused"

\* Only logged-in connections reach the backend, and references are taken only
\* before: put_connection never meets a release of the backend.
BackendSeesPlayers ==
    \A c \in Conns :
      Queued(NewPlayer(c)) \/ c \in alive \/ Holds("backend", c) => state[c] = "PLAY"

\* A login is queued once.
NewOnce(q) ==
    \A i, j \in DOMAIN q : q[i].type = "NEW_PLAYER" /\ q[i] = q[j] => i = j

LoginOnce ==
    /\ NewOnce(eventsIn) /\ NewOnce(eventsOut)
    /\ \A c \in Conns : ~(NewPlayer(c) \in ToSet(eventsIn)
                            /\ NewPlayer(c) \in ToSet(eventsOut))

\* The backend is on its way to the ring, or in it.
BackendAccepts ==
    Backend.at \in {"count", "accept", "tail", "fill", "flag"} => PlayerFreed

\* The references, and with them NoDangling.
RefInv ==
    /\ TypeOK
    /\ RefCoversHolders
    /\ NoDangling
    /\ UnusedIsFree
    /\ BackendSeesPlayers
    /\ LoginOnce

\* The inductive invariant behind the three properties.
IInv == RefInv /\ BackendAccepts /\ OnlyPlayersTear

-----------------------------------------------------------------------------
(* Fairness.  The threads keep running: a backend tick never blocks, and    *)
(* neither does the handling of a completion.  A batch is finite, because   *)
(* nothing new is in flight before Submit.  Each client closes its socket   *)
(* in the end, as it must once the socket is shut down for reading, and     *)
(* lets the sends to it complete or fail.                                   *)

BackendFairness == WF_vars(fate = "fine" /\ BackendNext)

FrontendFairness ==
    /\ WF_vars(fate = "fine" /\ Submit)
    /\ WF_vars(fate = "fine" /\ (CreateConnection \/ Rearm \/ Releases("frontend")))
    /\ WF_vars(fate = "fine" /\ \E c \in Conns : FinishRecv(c))

ClientsLeave ==
    \A c \in Conns : /\ SF_vars(fate = "fine" /\ RecvEof(c))
                     /\ SF_vars(fate = "fine" /\ (SendOk(c) \/ SendFails(c)))

LeavingSpec == Spec /\ FrontendFairness /\ BackendFairness /\ ClientsLeave

-----------------------------------------------------------------------------
(* Properties of the code as it is.                                        *)

Live         == {c \in Conns : mem[c] = "live"}
FrontendFree == Frontend = Idle

\* A connection that is still allocated still has somebody who will release
\* it.  With status clients only, and sends that do not fail, nothing leaks.
NoLeak == \A c \in Live : Holders(c) > 0

\* The number of allocated connections is what the backlog allows, and the
\* counter that decides about accepting agrees with it between completions.
BacklogRespected ==
    /\ Cardinality(Live) <= Backlog
    /\ FrontendFree => total = Cardinality(Live)

\* The accept is posted exactly when m_accepting says so: between completions
\* the flag, the operations and the capacity left agree.
AcceptMatchesFlag ==
    FrontendFree /\ loop # "stopped" =>
      /\ acceptStaged + acceptArmed = One(m_accepting)
      /\ m_accepting <=> Cardinality(Live) < Backlog

\* A server that filled up accepts again once its clients leave.
AcceptsAgain == []<>(acceptArmed > 0)

\* Every connection is closed and freed once its client leaves.
ConnectionsEnd == \A c \in Conns : mem[c] = "live" ~> mem[c] = "freed"

\* Neither thread has left its loop, and the ring is what they meant it to be.
Running == loop # "stopped" /\ tick # "stopped" /\ fate = "fine"

\* A client that logged in becomes a player, even when it leaves meanwhile: the
\* event survives the switch of the queues.
LoginReachesWorld ==
    \A c \in Conns : Queued(NewPlayer(c)) ~> c \in alive \/ ~Running

\* A player whose client is still connected when it has been told its entity is
\* taken out of the world once the client leaves, unless a failed accept, a want
\* of memory or a packet cut short ends one of the two threads before.
PlayersLeaveWorld ==
    \A c \in Conns :
      c \in alive /\ ~disconnect[c] /\ Backend # At("tell", c, 0)
        ~> c \notin alive \/ ~Running

-----------------------------------------------------------------------------
(* A property that a comment states and the code does not have.            *)

\* connection.h:32 "the ref count on this connection struct": whoever holds a
\* connection finds it allocated, whichever thread disconnects it.
NoUseAfterFree == \A c \in Conns : Holders(c) > 0 => mem[c] = "live"

=============================================================================
