# mminecraft in TLA+

mminecraft is a small Minecraft server in C. Its core is a handful of threads that share
structures with almost no locking: an io_uring frontend, a backend that ticks an ECS world
twenty times a second, a sender thread and a pool that generates chunks. This directory models
that core in TLA+, checks it with TLC on small instances and proves with TLAPS, for instances of
any size, every safety property that the runs check: of reference counts and the backlog, the
receive buffer, the queues of a tick, the chunk queue, the views of players, the sender's ring and
the packets.

Source paths below are relative to the repository's root (`src/frontend/connection.c`).

## 1. The system

### Components, state, operations

| component | state | operations |
|---|---|---|
| frontend loop (`src/frontend/frontend.c`) | `m_ring`, `m_accepting`, operations staged in the ring and held by the kernel | `frontend_accept`, `add_recv`, `frontend_send`, the loop of `frontend_start` |
| connections (`src/frontend/connection.c`) | `connection_t`: `ref_count`, `state`, `disconnect`, `entity`, the receive buffer; `m_total_connections_count` | `create_connection`, `release_connection`, `put_connection`, `disconnect_connection`, `connection_on_recv`, the handlers of handshake, status and login |
| global queues (`src/backend/backend.c`, `src/util/list.c`, `src/util/arena.c`) | two `global_queues_t` (events, packets, arena), `m_current_queue`, a mutex | lock, post, flip, drain, `arena_reset` |
| backend tick (`src/backend/backend.c`) | the ECS world, the loop of `backend_start` | `handle_generated_chunks`, `handle_global_events`, `handle_packets`, systems, `disconnect_players`, `finalize_tick` |
| mpsc queue (`src/util/mpscq.c`) | `buffer`, `count`, `head`, `tail` | `mpscq_enqueue`, `mpscq_dequeue`, `mpscq_count` |
| chunks (`src/backend/components/chunk.c`, `src/world/gen/generator.c`) | `m_chunk_entities`, `g_overworld`, jobs of the pool | `get_ecs_chunk`, `do_chunk_gen` |
| movement and view distance (`src/backend/systems/movement.c`, `src/backend/util/view_distance.c`) | positions, `PlayerViewDistance`, `PlayerNeedsChunk`, `PlayerHasChunk` | `player_commit_position`, `player_view_distance_set` |
| synchronisation (`src/backend/systems/sync.c`) | the chunks the client was sent | `sync_chunks`, `sync_entities` |
| sender (`src/backend/sender.c`) | a ring of its own, a mutex, requests | `backend_sender_send`, `backend_sender_submit`, the thread of `backend_sender_start` |
| start of the program (`src/main.c`) | three threads, no synchronisation | `main` |
| protocol (`src/backend/protocol.c`, `src/frontend/protocol.c`) | none; packets are built and handed over | the `send_` functions, `varint_size`, `varint_write`, `DECODE_VARINT` |
| world (`src/world/world.c`, `src/world/gen/flat/flat_world_gen.c`) | chunks and their sections | `section_write_compact`, `flat_world_gen` |
| block data, containers, random numbers, build | see `PROJECT.json` | |

### How they interact

    client --bytes--> kernel --completions--> frontend thread
                                                 | NEW_PLAYER, CONNECTION_CLOSED, packets
                                                 v
                                  global queues (mutex, flip once a tick)
                                                 v
      pool threads --mpsc queue--> backend thread --sender's ring--> client
             ^------ jobs ----------------|
                                          |---- release_connection, frontend_accept,
                                                disconnect_connection (back into the
                                                frontend's structures, without a lock)

The last arrow is what makes the program hard. A `connection_t` is shared by the kernel (posted
operations carry a pointer to it), the frontend (handlers), the queues (`EVENT_NEW_PLAYER`
carries one) and the backend (`PlayerConnection` owns one). All of them count in `ref_count`,
which is a plain integer. `release_connection` may run on either thread, and when it frees the
struct it decrements the count of connections and takes an entry of the frontend's ring.

### What is hard, and what makes each component correct

* **Connections.** Interleaving of unsynchronised updates; the order of a failed send, a
  completing recv and a tick; counters at the backlog. Correct if nobody ever holds a freed
  connection, every connection is freed in the end, the server accepts exactly while there is
  room, and every login leads to a player that leaves the world with its client.
* **Global queues.** The flip changes owner, lists and arena at once; entries are read without
  the mutex while their memory is going to be reset in bulk. Correct if every entry is delivered
  exactly once, in the tick after it was posted, and no slot is reused before its entry was read.
* **Receiving.** Packets arrive in pieces of any length. Correct if what is passed on depends on
  the bytes only, and a posted recv always has room (a recv of length 0 would look like a closed
  socket).
* **Chunk generation.** A lock-free queue at its limit, with producers that overshoot the count,
  reserve out of order and are delayed between reserving and storing. Correct if it is a bounded
  FIFO, its asserts hold, and each chunk is generated once and reaches its entity.
* **Views.** Chunks are added and dropped as differences of two views, so one wrong or missing
  difference is never repaired. Correct if a player has, or is going to get, every chunk in its
  view, and the server's record of what the client has is right.
* **Sender.** One ring, two threads that submit it, and only one of them takes the mutex; results
  of submissions are ignored; a descriptor may be closed and given out again while packets for it
  wait. Correct if the kernel gets each packet once, complete and in order, if every buffer is
  freed once and not before the kernel is done with it, and if packets reach the client they were
  meant for.
* **Protocol.** Sizes that are computed apart from what is written, sizes that are filled in
  later, masks, negative numbers, packed blocks, and varints of the client in any form. Correct if
  each side reads what the other meant, and an answer exactly fills its memory.

The full list, each at its line, is `hazards` in `PROJECT.json`.

## 2. The modules

| module | models | used by |
|---|---|---|
| `Connections` | the life of a `connection_t` between kernel, frontend and backend | `MCConnections`, `ConnectionsProofs` |
| `ConnectionsProofs` | types and the reference count; for status clients no leak, the backlog and the accept, proved | |
| `TickMailbox` | abstract: what the global queues promise | `GlobalQueues` |
| `GlobalQueues` | mutex, lists, arenas and flip, step by step | `MCGlobalQueues`, `GlobalQueuesProofs` |
| `PacketStream` | abstract: a client's stream read once from its start, without a buffer | `Framing` |
| `Framing` | `connection_on_recv` as a machine on bytes, and `Parse`, what a stream means | `FramingProofs` |
| `FramingProofs` | the buffer, that it cannot be seen, and that it agrees with `Parse`, proved | |
| `TicketQueue` | abstract: what `mpscq.h` promises | `ChunkGen` |
| `ChunkGen` | the mpsc queue, its producers and its consumer | `MCChunkGen`, `ChunkGenProofs` |
| `ChunkGenProofs` | the queue, its promise and the way of a chunk, proved | |
| `Remainders` | lemmas about places in a ring, and induction, proved | `ChunkGenProofs`, `SenderProofs`, `FramingProofs`, `ProtocolProofs` |
| `ChunkView` | positions, view distances, chunks needed and had | `MCChunkView`, `ChunkViewProofs` |
| `ChunkViewProofs` | types and the views, proved | |
| `Outbox` | abstract: what `sender.h` promises | `Sender` |
| `Sender` | the sender's ring, its two threads and the kernel, with the tick and the start of the program around it | `MCSender`, `SenderProofs` |
| `SenderProofs` | the ring and its promise, proved | |
| `Varint` | variable-length integers, both ways | `Protocol` |
| `Protocol` | every packet of the server, and a client that reads them; Teleport Confirm | `MCProtocol`, `ProtocolProofs` |
| `ProtocolProofs` | varints in both directions, every packet and the stream of them, proved | |

Definitions whose comment begins with "Mutant" are not part of any specification: each is a
plausible bug in the action that follows it, kept to show that the properties notice it.

### Connections

One action per completion (`AcceptDone`, `SendOk`, `SendFails`, `RecvEof`, `RecvData`) and, within
a handler, one per access to something that another thread may write. `thr` says where each of
the two threads is. `release_connection` is therefore a row of steps: `ReleaseLoad` and
`ReleaseStore` are the two halves of `--connection->ref_count`, `ReleaseCount` writes
`m_total_connections_count` back, and `frontend_accept` takes an entry of the ring (`ReadTail`,
`MoveTail`), prepares it (`FillEntry`) and raises the flag (`SetAccepting`). The frontend stages
operations (`recv = "staged"`, `sendStaged`, `acceptStaged`) and `Submit` hands them to the
kernel (`"armed"`, `sendFlight`, `acceptArmed`): an accept staged by the backend while the
frontend waits stays staged, as it does in `io_uring_submit_and_wait`.

* The backend's tick is `Switch`, the events (newest first, as `list_pop` takes them), the
  packets, `KickPlayer` for the entities marked by the movement system, and `FinalizeTick`.
* `entity[c]` stays `None` until `TellEntity`, a step after `HandleNewPlayer` has made the entity;
  packets and close events carry the value that was read when they were queued.
* The backend comes to `frontend_accept` without a lock (`frontend.c:301`). Both threads may read
  the same tail and get the same entry (`TakesEntry`), and the frontend may submit an entry that the
  backend has taken and not prepared (`Submit`): it holds what it held before, after 2048 entries an
  operation of some connection, perhaps freed by now, whose completion releases a reference nobody
  gave it. Either way `fate = "torn"`, and the model stops there, as `Sender` does for its own ring.
  Everything said about `Connections` is said of the program up to that moment. `OnlyPlayersTear` says
  when it can come.
* `Faults` selects what the environment does wrong: "accept", an accept that fails, which ends
  `frontend_start` (`frontend.c:168`); "alloc", no memory for a `connection_t`; "answer", none for an
  answer or its request, which ends `frontend_start` as well, with the reference of the recv
  still counted (`frontend.c:226`, `NoMemoryForAnswer`); "send", a send that fails.
* Abstractions: the submission ring of 2048 entries never fills; the plain stores to the
  ring become visible in program order, and the frontend prepares an entry of its own for a recv or a
  send in one step (only its own submission could see it half prepared); a struct is not allocated again
  after it was freed (`Conns` bounds the accepts of a run); a completion and its handling are one
  moment, in any order among the pending ones; `put_connection` is atomic because it only runs
  before the login, when the backend has not seen the connection yet (`BackendSeesPlayers`, part
  of the proof); what a packet contains is one of ok, bad (protocol violation), fast (moves too
  far) and kill (ends the backend with an error).

### GlobalQueues and TickMailbox

`Lock`, `Alloc`, `Fill`, `Link`, `Unlock` are one posting; `SwitchLock`, `Flip`, `SwitchUnlock`,
`PopEvent`, `Handle`, `PopPacket`, `Finalize` one tick. Pointers are (arena, slot) pairs and
`data` is the memory behind them, so reusing a slot too early shows up as an entry that changed.
The backend posts too, from its packet handlers and systems, as `disconnect_connection` does.
`TickMailbox` is three sets and three actions; `DeliversEachTick` is the refinement. Every entry
is posted once, because a history of posts without bound could not be checked.

### Framing

The buffer, its offset and its length are the code's; so are the states of the size decoder.
`Base` stands for 128, `BufferSize` for 256. `Parse` defines what a stream of bytes means without a
buffer, as a function of the whole stream: the packets that follow each other in it, up to the first
that is not complete or not allowed. `PacketStream` says it step by step: its
state is what has arrived, how much of it was read and the stage of the decoder, and it has an
action for each byte of a size (`ReadByte`) and for each packet (`ReadPacket`). `ReadsTheStream` is the
refinement: what was read is what was sent less what the buffer holds, so moving data to the start,
resetting the offset and going back to the kernel are steps in which nothing happens. `compressed`
is never set, so the states for compressed packets are left out; `POSTAUTH_BUFFER_SIZE` is not used
by the code, so the buffer keeps its size after login.

### ChunkGen and TicketQueue

Each atomic access of `mpscq_enqueue` and `mpscq_dequeue` is an action, under sequential
consistency. `Wrap` is the number of values of a `size_t`; the assumption `Wrap % Max = 0` is
needed by the code (capacity 1024). `TicketQueue` is the bounded FIFO of `mpscq.h`; an item is in
it from the moment its element is reserved. `IsAQueue` is the refinement: the queue begins at the
element `First`, and an element that is reserved and not filled holds what its producer will store
(`Item`). After `NULL` was dereferenced (see below) the process
is gone, and the model stops there.

### ChunkView

One action per handler and per system. ECS commands are deferred: components change at once,
entities and relations when the system ends, which is why packets of a tick all read the teleport
request as it was before the first. Players whose components put them in the same table are in
one array, and `first` chooses how they are laid out, since flecs is not part of the repository.
The history variable `shared` keeps the players that ever moved in one array with another
(`Sharing`); it restricts no behaviour. `player_commit_position` takes its views for all of them from
the first, so the properties except the players in `shared`, and nobody else.
`PlayerCommitPosition` is one step, although the loop at `movement.c:52-91` runs over the whole
rectangle between the two views before the distance is tested at `movement.c:101`: a client that
names a far but finite coordinate keeps the backend in it for as long as the rectangle is large.
The model says what the step does when it ends; that it ends soon is assumed (section 3).
Coordinates are whole numbers; `Area` bounds the chunks that are looked at; heights, rotations and
coordinates that are not finite are left out.

### Sender and Outbox

The ring is liburing's. `GetSqe` is `io_uring_get_sqe`, which advances `sqe_tail` in plain memory,
`PrepWritev` and `SetData` fill the entry. `io_uring_submit` is three steps, for both threads:
`FlushRead` reads `sqe_tail`, `FlushStore` publishes it as `ktail` and computes how many entries
to submit, `Enter` is the system call, which takes that many from `khead` on, or `Refused`. An
entry holds the number of the packet its iovec belongs to and the number of the request in its
`user_data`; before the first use both are 0, later those of the last packet in the same slot. So
an entry that is published half prepared shows, and the model stops there (`fate = "torn"`):
what the kernel and `free` do with it is not defined.

* The counters of liburing are unsigned and wrap; `Difference` says what a negative difference
  comes to, as far as the ring has entries.
* `tick` is the part of `backend_start` that decides when packets are handed over: at logins and
  by the systems, after which `FinalizeTick` submits, and keep-alives after that, which stay in
  the ring until something else submits. `overdue` remembers such packets.
* `life` and `fd` stand for `Connections`: a descriptor is free again when its connection is, and
  `CloseEarly` is the case that `conn_early_free` shows.
* `fate = "unready"`: the queues or the ring are used before the thread that initialises them has
  come to it. `main.c` notes this race. In the real program the memory is zero, so it crashes.
* `m_sqe_ring_mutex` has no variable: only the backend's thread ever takes it. The error path of
  `GET_SQE` is not taken, because `io_uring_sqring_wait` returns 0 without a polling thread.

`Outbox` counts what was handed over and has the sets of packets taken, sent and freed. Under
`LeavesInOrder`, `Enter` is `Take`, `Complete` is `Send`, `Reap` is `Free`.

### Varint and Protocol

A varint has `SegmentBits` (7) bits of the value in a byte and `IntBits` (32) in all. Both are
parameters, and the code's operators are written with them: `VarintSize`, `VarintWrite`,
`FakeVarint` (a varint of a given length, for the size that is filled in later) and `Decode`.
`Protocol` builds packets as sequences of units, one unit for a byte of a varint and one for
everything that is a whole field of a packed struct, a long of a section or constant NBT. The
client reads them by the layout of protocol 754 (`Kinds`), a definition of its own that shares only
`Segment` and the casts with the server's side: `ReadVarint` is a sum of digits, `ReadSection`
takes blocks out of longs by division. Shifts are multiplications and divisions by a `Power`, and
sums are a `Total`: both are recursive functions, of which the proofs can speak.

* `SendJoinGame` to `SendLoginSuccess` are the callers, each with the meaning of its packet and
  what was allocated for it; arrays that grow (`arrput`) are allocated as long as they are.
* `_ignored` of Join Game is not set by the code, so its byte is any.
* `Confirm` lets the client answer a teleport with any bytes up to one more than the longest
  varint. The other packets of a client are fields of packed structs, and belong to
  `Connections` and `ChunkView`.

## 3. The runs

| run | instance | shows |
|---|---|---|
| `conn_safe` | 2 connections, backlog 2, status and login, packets that break the protocol, answers without memory | `NoDangling`, `RefCoversHolders`, `OnlyPlayersTear` |
| `conn_status` | 3 status clients, backlog 2, failing allocations, clients leave | `NoLeak`, `BacklogRespected`, `AcceptMatchesFlag`, `AcceptsAgain`, `ConnectionsEnd` |
| `conn_players` | 1 client that logs in, backlog 2, ok, bad, fast and kill packets, failing sends and accepts, no memory for structs and answers | the proof's `IInv` (with `TypeOK`), `LoginReachesWorld`, `PlayersLeaveWorld` |
| `queues_tick` | 2 threads, 2 events, 2 packets | `EntriesOwnTheirSlots`, `FlipIsClean`, `IInv`, `DeliversEachTick`, `EveryPostIsHandled`, no deadlock |
| `framing_stream` | segments of 3 values, buffer of 4, streams of up to 6 bytes | `RoomToRecv`, `BufferHoldsTail`, `IInv`, `ReadsTheStream`, `CutsDoNotMatter`, `OnRecvReturns` |
| `chunks_queue` | 2 workers, 4 positions, capacity 2, head wraps at 2 | `AssertsHold`, `GeneratedOnce`, `IInv` (with `TypeOK`), `IsAQueue`, `ChunksArrive` |
| `view_one` | 1 player, 3 positions in 2 chunks, view distances 0 and 1 (2 is clipped) | `ViewIsCovered`, `HasWhatIsShown`, `IInv` (with `TypeOK`), `NeedsAreServed`, no deadlock |
| `sender_ring` | 1 player, ring of 2, 3 packets, 1 refused submission | `TypeOK`, `IInv`, `LeavesInOrder`, `OnlyOverlapTears`, `PacketsAreFreed` |
| `sender_fds` | 2 clients, 1 descriptor, ring of 2, 3 packets | `OnlyOverdueGoAstray` |
| `wire` | varints of 2 bits a byte and 7 in all, sections of 125 blocks, 7 blocks in a long, 2 packets | `ClientUnderstands`, `AnswersFillTheirMemory`, `ConfirmIsExact` |
| `conn_early_free`, `sender_race` | the smallest that shows it | the code disagrees with what its comments say, section 6 |

**Why these bounds.** A connection's reference count involves its own holders only, and one of
each kind (a recv, a send, the event, the entity, a handler on each thread) already overlaps in
`conn_safe`; the theorem of section 5 covers any number of connections, sends and packets. With a
backlog of 2 both of its clients live at once, an accept is staged by either thread, and in
`conn_players` an accept is armed, and fails, while a player is in the world. The backlog itself
needs one client more than fits, which `conn_status` has. In `queues_tick` two events and
two packets let a list hold two entries, an arena be reused and a thread be inside the critical
section at every step of the flip. A buffer of four with six bytes cuts every packet, also one
with a size of two bytes, at every place, and sizes up to 8 (two bytes) and 26 (three) exceed it.
Two workers and a capacity of two are the smallest with a full queue, an overshooting count,
reservations out of order and a tail that lags; four positions make the queue wrap twice.
For views one player suffices for the differences to go wrong; of several players, and of those
that share an array, only the theorems of section 5 speak. Three packets fill a ring of two,
let an entry be used again and two packets leave in one batch; a descriptor needs two clients to be
given out again. With two bits in a byte a number of seven bits takes up to four bytes, as one of
32 does up to five, so `Numbers` and `Lengths` have a value at each side of every edge, both
signs, and the smallest and the largest. A section of 125 blocks leaves the last long partly
filled, and two packets show that a packet ends where the next begins.

Deadlock is checked where nothing stops the program. In `Connections` all clients may have come
and gone or a fault ended a thread, in `ChunkGen` and `Sender` everything may be done or the process be
gone, and in `Protocol` the client may have read everything, so those configurations say
`CHECK_DEADLOCK FALSE`.

**Fairness.** The threads run and no tick blocks (for movements of a bounded length, see
`ChunkView`), until the ring is torn: weak fairness of the backend and of the handler
the frontend is in. A batch of completions ends since nothing new is in flight before `Submit`, so
weak fairness of `Submit`. In `conn_status` and `conn_players` clients eventually close and sends
complete or fail, the environment's part, which is strong fairness because one completion can
keep delaying another. The mutex of the queues is not fair; each thread is only required to
leave the critical section, and the tick gets the mutex because posts are bounded. In `ChunkView`
a requested chunk is ready some time, which is what `ChunksArrive` shows of `ChunkGen`. In `Sender`
the two threads run (weak fairness each) and the kernel completes what it has begun; refusals are
bounded, as no program can do anything about a kernel that refuses for good.

## 4. What is checked about what

* *References* (`NoDangling`, `RefCoversHolders`): connections that the backend itself
  disconnected are exempt (`kicked`), because for them the property is false; see `conn_early_free`.
  Both hold until the ring is torn.
* *The ring* (`OnlyPlayersTear`): that it is torn at all cannot be excluded, since the code does not
  (section 6); that a connection which had logged in was freed before, is. It is what makes the
  condition on the references harmless before the first player has left.
* *Leaks* (`NoLeak`, `ConnectionsEnd`): for status clients with sends that do not fail
  and answers that find memory. With either condition dropped the code leaks; see section 6.
* *Players* (`PlayersLeaveWorld`): for players whose client is still connected when it has been told its
  entity; for the others see section 6. `Running` excepts a program in which an error ended a
  thread or the ring was torn: after a failed accept, with players in the world, nobody takes
  them out.
* *Chunks* (`ChunksArrive`): or the backend dereferenced `NULL` first; see section 6.
* *Views* (`ViewIsCovered`, `HasWhatIsShown`): except the players that themselves moved in one array
  with another (`shared`); see section 6. The run has one player, so `shared` stays empty in it.
* *Sending* (`LeavesInOrder`, `PacketsAreFreed`): as long as no entry was torn and nothing was used
  before it was initialised. `OnlyOverlapTears` says how an entry can be torn at all, and
  `OnlyOverdueGoAstray` which packets can reach a stranger.
* *Packets* (`ClientUnderstands`): except a Join Game whose unset byte is 128 or more.
  `ConfirmIsExact` states that a number which does not end stops the backend, as the code has it.

## 5. What is proved

### Connections

`ConnectionsProofs!TypeCorrect`: `Spec => []TypeOK`, for any set of connections, backlog and
bounds. Its content is that counts of operations never become negative and that no thread is in
a handler of no connection.

`ConnectionsProofs` further has `Spec => []IInv` (`RefsCorrect`), and from it `RefCoversHoldersHolds`,
`NoDanglingHolds` and `OnlyPlayersTearHolds`. The argument: both threads decrement `ref_count` in
two steps, so a count that
only equals the number of holders is not preserved, and one between the steps is not even
described. What is preserved is

* the count of a connection that the backend did not disconnect is *at least* its number of
  holders, and a value that a thread has read and is about to decrement and write is, too. The
  thread that decrements is itself a holder until it writes, so the other thread's stale value
  still covers whoever remains after its own decrement: a lost update loses a decrement, never an
  increment. Increments (`put_connection`) cannot be lost, as they happen only before the login,
* and only logged-in connections are known to the backend (`BackendSeesPlayers`), so a
  `put_connection` never overlaps a release of the backend;
* a login is queued at most once (`LoginOnce`), so handing the reference from the event to the
  entity neither loses nor doubles it;
* a struct that was never allocated has no holder (`UnusedIsFree`), which is where
  `create_connection` starts.

`NoDangling` follows since a struct is freed only when a holder writes 0, and the value it read
covered every holder, so no other is left. One more invariant, that marked players are alive
(`KickIsAlive`), is proved on the way.

The ring needs one invariant more, `BackendAccepts`: wherever the backend is between freeing a
connection and raising the flag, a connection that had logged in is freed, since the backend only
works on such connections (`BackendSeesPlayers`). A ring is torn only with the backend in between
(`RingTorn`), and what is freed and its protocol state stay (`FreedStays`). So `OnlyPlayersTear`.

The proofs assume `ConnectionsAssumption` only, and hold with every fault. What they do not cover is
what a torn ring does: they are about behaviours up to the step that tears it.

Its second part proves what is true only of a smaller program: `NoLeak`
(`NothingLeaks`), `BacklogRespected` (`BacklogIsRespected`) and `AcceptMatchesFlag`
(`FlagIsTheAccept`), for any number of connections, any backlog above zero, failing allocations and
failing accepts, if clients only ask for the status, their sends complete and answers find memory
(`StatusOnly`). The
conditions are the code's, not the proof's: with a login, two threads decrement the count and
leak (section 6); a failed send, or an answer without memory, leaks the recv of its connection;
with a backlog of zero
`frontend_start` posts an accept all the same. The inductive invariant is `SInv`:

* `BackendRests`: nothing is queued for the backend, no entity exists, and its tick passes through
  empty queues. So the frontend alone works on connections, and `ref_count` can be exact;
* `RefsExact`: `ref_count` of an allocated connection is the number of its operations plus one if a
  handler works on it, the value a decrement has read is still the count, and exactly the
  allocated connections have a reference. A connection whose data is being handled was not
  disconnected, so `add_recv` posts its recv and the reference moves on. `NoLeak` follows;
* `Capacity`: what `m_total_connections_count`, `m_accepting` and the posted accept are at each place
  between a completion and the end of its handling. The accept is posted once exactly when the flag
  says so. After an accept the flag is down until there is known to be room; while a connection is
  freed the flag tells whether there was room before. The counting is done on `Cardinality(Live)`.

### Framing

`FramingProofs`: `Spec => []IInv` (`BufferCorrect`), and from it `RecvHasRoom` and `TailIsKept`, and the
refinement `BufferIsTransparent == Spec => ReadsTheStream`, for any size of the buffer, any number of
segment values up to it, and before and during play. The invariant is `BufferHoldsTail` and
`RoomToRecv` with `SizeFits`: a size that the decoder lets through fits in the buffer. This is why
the check that is missing at the first byte does no harm, and it needs that one segment is never
larger than the buffer (`FramingAssumption`; 127 and 256 in the code). A packet that is waited for
is not complete but fits, so after the `memmove` there is room for another byte. In the refinement
each step of the decoder is `ReadByte` and each delivery `ReadPacket`, because the byte the loop
looks at is the next one of the stream (`NextByte`) and a complete packet its next part
(`PacketIsNext`); a refusal is one on both sides.

`CutsNeverMatter == Spec => []CutsDoNotMatter` compares with `Parse`, which knows nothing of steps. The
invariant it needs is `FramesRight`: there are positions in the stream (`Cuts`) at which the
packets passed on begin and end as `Parse` has them, and what `recv_state` and `packet_size` say is what the
bytes read since the last of these positions say (`SizeRead`); the loop waits only when no complete
packet follows, and refuses only what breaks the protocol (`FrameRead`). More bytes do not change
a packet that was complete (`FrameStays`), so `Recv` keeps the positions, and `Deliver` adds one. From
the positions to `Parse` it is an induction over its recursion (`ParseIs`).

### Global queues

`GlobalQueuesProofs`: `Spec => []IInv` (`QueuesCorrect`), and from it `SlotsAreOwned`,
`FlipsAreClean` and the refinement `QueuesDeliver == Spec => DeliversEachTick`, for any threads
and any events and packets. The tick pops and reads entries and resets an arena without the mutex,
so `EntriesOwnTheirSlots` alone is not inductive. `IInv` adds

* who holds the mutex (`MutexIsHeld`): a thread inside a critical section is its only holder, so
  at most one pointer is handed out and not linked (`OnePoster`), and the backend neither flips
  while it posts nor posts while it flips;
* what the tick has emptied (`DrainedInOrder`): both lists of the drained queue before `Finalize`
  resets its arena, both lists and the arena before a flip hands them to the threads;
* what the entries hold (`ContentsAreKept`): each waiting pointer holds an entry of its own that
  was posted and not handled, and a pointer is filled before it is linked. Here slot ownership
  is used: `Fill` writes at a pointer that no waiting entry shares.

In the refinement `Link` is `Post`, `Flip` is `Turn` (its guard is `DrainedInOrder`), `Handle` is
`Deliver`, and every other step leaves the mailbox as it is (`MailboxStays`): popping only moves an
entry from its list to the hand. `ContentsAreKept` gives that a posted entry is new and that
handling one entry removes no other. Assumed are `QueuesAssumption` (the backend is a thread,
events are not packets, `None` is no thread and no entry) and `NullAssumption` (`NULL` is no slot).

### Chunk generation

`ChunkGenProofs`: `Spec => []QueueInv` (`QueueIsCorrect`), and from it the types (`ChunkTypes`),
`AssertsAreSafe` (the asserts of `mpscq.c` never fail) and the refinement
`QueueKeepsItsPromise == Spec => IsAQueue`; then `Spec => []IInv` (`ChunksAreCorrect`) and from it
`ChunksAreMadeOnce`. They hold for any finite sets of workers and positions, any capacity and any
word size that the capacity divides (`ChunkGenAssumption`). The difficulty is that none of `count`,
`head` and `tail` says what is in the queue: `count` includes producers that are on their way in or
were refused, `head` is ahead by elements that are reserved and empty, and `tail` is behind while
an item is being taken out. `QueueInv` adds

* `OccupiedFromFirst`: the elements that are filled or reserved lie together, from `First` up to
  `head`, however late their producers store. That `head` wraps at the word and `tail` at the
  capacity is the same place because one divides the other (`HeadWraps`, `TailCatchesUp`);
* `CountCovers`: `count` is these elements, the producers that were admitted or refused, and the
  item in the consumer's hand; without the refused ones this never exceeds the capacity. So a
  producer that was admitted finds the element at `head` free (`HeadIsFree`), and
  `OccupiedFromFirst` gets longer at its end (`ReserveExtends`) and shorter at its start
  (`DequeueShortens`), never with a hole;
* `HandsAreFull`: workers have a task, and the consumer an item, while the code says so.

In the refinement `Reserve` is the enqueue and the exchange of `mpscq_dequeue` the dequeue. `Item` of
a reserved element is what its producer holds, so `Store` changes nothing that can be seen.
`GeneratedOnce` then follows a chunk: its places, as pairs of a sort of place and an index, are none
before its entity is made and one afterwards, and every step takes it from one place to the next.
That the consumer never meets `NULL` is not claimed; it does (section 6).

### Views

`ChunkViewProofs`: `Spec => []TypeOK` (`ViewTypes`), and without a condition on the behaviour
`Spec => []IInv` (`ViewsAreCorrect`), from it `HasWhatIsShown` (`ServerKnowsTheClient`) and `ViewIsCovered`
(`ViewIsNeverForgotten`), for any number of players, positions, view distances and width of a
chunk. They speak of each player that is not in `shared`. For those in it the statements are false:
`player_commit_position` takes the views and the connection of the first player of its arrays for
all of them (section 6). What the theorems say of several players is that this error stays in the
array: however the others move, unload packets and chunks of one who never shared an array
are right. A player alone never shares one (`AloneAllIsSeen`). `IInv` is the two
properties, stated for players outside the world as well: they have no view distance
and nothing was sent to them. The step that matters is the commit: a player that looks like no other
mover is the first of its array, and of no other player's, so `Old` is the view it had, `New` the
view it gets and no unload packet of another goes to it (`OwnViews`), and what is added and dropped
turns a covered view into a covered view.

### Sender

`SenderProofs`: `Spec => []IInv` (`RingCorrect`), and from it the types of the ring (`SenderTypes`),
`SenderKeepsPromise == Spec => LeavesInOrder`, `TearsNeedOverlap == Spec => OnlyOverlapTears` and
`StraysAreLate == Spec => []OnlyOverdueGoAstray`, for any size of the ring and any number of
connections, descriptors, packets and refusals. Neither the published tail nor the number of
entries that a thread asks for can be relied on, since both may be stale when the system call is
made. `IInv` therefore speaks about `khead` and `sqe_tail` only:

* `SlotsAreCurrent`: in the round that begins at `khead`, an entry below `sqe_tail` describes its own
  packet, unless it is being prepared; every other entry still shows a packet below `khead`. So
  whatever the kernel is told to take, an intact entry is one that is next (`IntactIsPrepared`), a
  batch of intact entries is the next part of the packets (`TakesTheNext`), and `Enter` is `Take`
  of `Outbox`. That entries of one round have slots of their own, and that the next round uses the
  same ones, are lemmas about remainders (`SlotsDiffer`, `SlotsRepeat`, on `Remainders`).
* `HandedInOrder`, `TakenInOrder`: the packets of the ring are the last ones handed over, and what the
  kernel took is a first part of them.
* `TailsInOrder`: whoever publishes, `ktail` does not exceed `sqe_tail`; so an entry below `ktail` can
  only be torn while it is prepared (`TornByOverlap`), and only the sender's thread can publish less.
* `FdsAreOwned`, `WaitingHaveOwners`: players are closed in the part of a tick in which every packet
  in the ring is overdue, so one that is not has a player with its descriptor
  (`OnlyLateOnesStray`).

Assumed is `SenderAssumption`: a ring of at least one entry, and `None` is no number and no
descriptor.

### Packets

`ProtocolProofs` has `AnswersFillTheirMemoryHolds`, `ConfirmIsExactHolds` and `ClientUnderstandsHolds`, each of
the form `Spec => []P` with `P` as the run `wire` checks it, for any bits of a byte and of an integer,
any chunk, section, long and block, any coordinates, names and JSON, and any number of packets.

* *Varints.* A number is the sum of its digits (`Total` of `Power`s). `varint_write` puts down these
  digits, the number of bytes that `varint_size` says as long as it is not negative, and
  `ReadVarint` gives back the number whatever follows in the stream. `AnswersFillTheirMemoryHolds` is
  the second part for the lengths that answers have.
* *DECODE_VARINT.* For every sequence of bytes it gives what `ReadVarint` gives, in value and in the
  number of bytes, and fails when `ReadVarint` does. `ConfirmIsExactHolds` follows.
* *Packets.* One lemma for each packet (`SoundUnloadChunk` to `SoundChunkData`; `JoinGameIs`) says that the client
  makes of it what the server meant. They rest on lemmas about a part in front of a rest: if the
  parts are read one by one, so are they in a row. The two long ones are the section, where
  `BlocksPerLong` blocks of a `PackedLong` are digits of base `2^BlockBits` and so come out of
  division and remainder unchanged, and `CountIs`, that four layers counted by the generator are the
  blocks that are not air.
* *The stream.* `ClientUnderstandsHolds` has the inductive invariant `StreamRight`: what was sent says what it
  means (`SentRight`), what was received is what the client makes of the first packets (`ReceivedRight`), and
  the wire has the sizes and packets that it has not read, no more and no less (`WireRight`). Here
  a packet must not be longer than its size can say.

Assumed are `VarintAssumption` (a byte has a bit of the value, an integer more than one byte),
`ProtocolAssumption` (an edge has room for the four layers, a block's bits for their kinds and a long's
for a block, what is sent fits in an integer) and `SizesAssumption` (so do lengths of packets, and the
length of a section in the bytes left for it). The numbers of the code, 7 and 32, 16, 64, 15 and 4,
meet them by far.

### Induction

What recursion computes needs induction over numbers. The library states it about an operator, of
which the provers cannot be given an instance. `Remainders` states it about a set:
`Induction` says that a set with 0 and with the successor of each of its numbers has all numbers, and is
proved by the least number that is missing (`LeastNumber`, on `WFMin` of the library). A proof
by induction is then a proof about the set of the numbers that have the property. `Recursion` says that what
is defined by recursion exists, so that a recursive function can be unfolded (`PowerIs`, `ParseIs`).

### Only model-checked

Liveness under fairness is out of the prover's reach and stays with TLC: `AcceptsAgain`,
`ConnectionsEnd`, `LoginReachesWorld`, `PlayersLeaveWorld`, `EveryPostIsHandled`, `OnRecvReturns`,
`ChunksArrive`, `NeedsAreServed` and `PacketsAreFreed`. Every other property of a passing run is a
theorem; those of status clients have the condition `StatusOnly`.

## 6. Where the code disagrees with its own comments

Shown by runs that TLC must find violated:

* `conn_early_free`: `handle_packets` and `disconnect_players` disconnect a connection that they
  hold no reference of; its struct is freed while the entity or a posted recv uses it.
* `sender_race`: the sender's thread submits the ring while the backend is between taking an entry
  and setting its request; the kernel gets an entry without a packet, or an old one again, whose
  request is then freed a second time. `sender.h:20` says this is synchronized properly.

Met while modelling and stated here only, with the place:

* `src/frontend/connection.c:349`: `disconnect_connection` queues `connection->entity`, still 0 when
  the client leaves before the tick that makes its entity, which then stays in the world.
* `src/frontend/connection.c:331`: the accept that `release_connection` stages on the backend thread
  is submitted by nobody while the frontend waits for something else.
* `src/frontend/frontend.c:301`: on the backend's thread `frontend_accept` takes and prepares an entry
  of the frontend's ring in several steps, and `io_uring_submit_and_wait` (`frontend.c:154`) may
  submit it in between: zeroed, or an old operation with the `user_data` of a freed connection. Or
  both threads get the same entry. In `Connections` this is `fate = "torn"`.
* `src/frontend/frontend.c:168`: a failed accept ends `frontend_start`, with players in the world and
  operations in flight; `frontend.c:226` does so when an answer finds no memory, and does not
  release the reference of the recv.
* `src/backend/systems/movement.c:52`: the loop over the rectangle between two views comes before
  the test for moves that are too fast (`movement.c:101`) and is as long as the move.
* `src/backend/backend.c:358`: `handle_generated_chunks` trusts `mpscq_count`, which counts producers
  that have not stored anything yet, and dereferences the `NULL` that `mpscq_dequeue` returns. In
  `ChunkGen` this is `tick = "crashed"`.
* `src/backend/systems/movement.c:25`: `player_commit_position` computes every player's view from
  element 0 of the array, which the loop has already committed for the others. `ChunkView` models
  it (`Old`, `New`); for two players in one array `ViewIsCovered` would fail, so it excepts them
  (`shared`).
* `src/backend/backend.c:556`: keep-alives wait in the ring for the next tick; if their client leaves
  then, its descriptor may belong to somebody else when the kernel writes.
* `src/main.c:30`: the frontend may take logins before the backend has made its queues, and the
  backend may submit before the sender has made its ring.
* `src/backend/protocol.c:61`: `_ignored` of Join Game is never set, and a client reads it as a varint:
  128 or more shifts everything behind it.
* `src/backend/protocol.c:266`: the light of blocks is marked in the mask of the sky. No chunk has any
  light yet.
* `src/frontend/protocol.c:6`: `varint_size` takes a negative number for one byte long, `varint_write`
  writes five. No caller passes one.
* `src/backend/protocol.c:217` and `src/world/world.c:118` compute the bits of a block apart from each
  other and differ for small palettes. No section has a palette.
* `src/frontend/frontend.c:81`: after a failed send, a recv that completes with data ends in
  `add_recv`, which skips the client; the reference of the recv is never released.
* `src/frontend/connection.c:319`: two overlapping decrements leave the count one too high, and
  the connection is never freed.
* `src/frontend/frontend.c:250`: a disconnected connection still gets the answer to data that had
  arrived (`connection.h:44` says nothing new is queued).
* `src/backend/backend.c:344`: an error that is not a protocol violation, such as a varint cut
  short, ends `backend_start`.
* `src/frontend/connection.c:91`: Login Success is only staged when the login is queued; Join Game
  goes through another ring and may leave first.
* `src/frontend/connection.c:27`: nothing assigns `m_player_connections_count`, so players count
  against the backlog of connections that have not logged in.
* `src/backend/backend.c:171`: packets sent right after the login carry entity 0 and are skipped.
* `src/util/list.c:39`: `list_pop` takes the end that `list_add_tail` adds to; a tick handles the
  newest entry first.
* `src/backend/systems/movement.c:86`: a chunk that leaves the view before it was generated stays
  in `PlayerNeedsChunk`, is sent later and never unloaded.
* `src/backend/systems/movement.c:32`: the view position sent is the one before the move.
* `src/backend/systems/sync.c:65`: `EntityChunk` is set when a player joins and never again.

## 7. Not modelled, and the plan

Not modelled: generated block tables, vendored containers, random numbers, the build. The functions
of `world.c` that make and shrink palettes and free chunks are called by nothing. Within modelled
parts: rotations, ping, errors of the kernel calls themselves, the size of an arena, weak memory,
what the JSON of the status says, the NBT that packets carry (constants of the build), the bytes
within a field, and writes of which the kernel does only a part (the code takes them for whole).

Next, in this order:

1. The order of Login Success and Join Game (`connection.c:91`), which takes both rings: `Sender`
   composed with the frontend's ring of `Connections`.
2. `ChunkView` with fractional coordinates, the rounding of `view_distance.c:6` against
   `movement.c:33`, and positions that are not finite; `Connections` composed with `GlobalQueues`
   instead of its sequences.
3. Proofs: an invariant of `ChunkGen` without the dereferenced `NULL`; `ref_count` with logins but
   without failing sends, as an upper bound; that `PacketStream` and `Parse` agree, without a buffer.
