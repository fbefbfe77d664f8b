------------------------------ MODULE ChunkGen ------------------------------
(***************************************************************************)
(* How a chunk gets from the world generator to its entity.                *)
(*                                                                         *)
(*   get_ecs_chunk (backend/components/chunk.c), on the backend thread,    *)
(*     gives a position an entity and queues its generation;               *)
(*   do_chunk_gen (world/gen/generator.c), on the threads of a pool, puts  *)
(*     the chunk into the world and an event into m_generated_chunk_queue; *)
(*   handle_generated_chunks (backend/backend.c) takes the events out at   *)
(*     the start of a tick and hands the chunks to their entities.         *)
(*                                                                         *)
(* The queue is util/mpscq.c, one action for each of its atomic accesses.  *)
(* A chunk, its entity and its event are all named by the position.        *)
(* Accesses are sequentially consistent.                                   *)
(***************************************************************************)
EXTENDS Integers, FiniteSets, Sequences

CONSTANTS
    Positions, \* chunk_position_t
    Workers,   \* threads of m_thread_pool
    Max,       \* capacity of the queue, 1024
    Wrap,      \* values of a size_t, 2^64
    None

ASSUME ChunkGenAssumption ==
    /\ IsFiniteSet(Positions) /\ IsFiniteSet(Workers)
    /\ None \notin Positions
    /\ Max \in Nat /\ Max > 0
    /\ Wrap \in Nat /\ Wrap > 0 /\ Wrap % Max = 0

VARIABLES
    entities, \* m_chunk_entities: the positions that have an entity
    loaded,   \* the positions whose entity has ChunkData
    world,    \* g_overworld: the positions with a chunk
    jobs,     \* what the pool has to do
    buffer, count, head, tail, \* struct mpscq
    at,       \* where each worker is in do_chunk_gen and mpscq_enqueue
    task,     \* what it works on
    slot,     \* the element it reserved
    tick,     \* where the backend is
    left,     \* count of handle_generated_chunks
    ret,      \* what mpscq_dequeue is about to return
    dequeued  \* history

queue    == <<buffer, count, head, tail>>
workers  == <<at, task, slot>>
backend  == <<tick, left, ret, dequeued>>
chunks   == <<entities, loaded, world, jobs>>
vars     == <<chunks, queue, workers, backend>>

Slots == 0 .. Max - 1

TypeOK ==
    /\ entities \subseteq Positions
    /\ loaded \subseteq Positions
    /\ world \subseteq Positions
    /\ jobs \in Seq(Positions)
    /\ buffer \in [Slots -> Positions \cup {None}]
    /\ count \in Nat
    /\ head \in 0 .. Wrap - 1
    /\ tail \in Slots
    /\ at \in [Workers -> {"idle", "generate", "try", "backoff", "full", "reserve", "store"}]
    /\ task \in [Workers -> Positions \cup {None}]
    /\ slot \in [Workers -> Slots]
    /\ tick \in {"count", "drain", "retire", "systems", "crashed"}
    /\ left \in Nat
    /\ ret \in Positions \cup {None}
    /\ dequeued \in Seq(Positions)

Init ==
    /\ entities = {} /\ loaded = {} /\ world = {} /\ jobs = <<>>
    /\ buffer = [i \in Slots |-> None]
    /\ count = 0 /\ head = 0 /\ tail = 0
    /\ at = [w \in Workers |-> "idle"]
    /\ task = [w \in Workers |-> None]
    /\ slot = [w \in Workers |-> 0]
    /\ tick = "count" /\ left = 0 /\ ret = None
    /\ dequeued = <<>>

-----------------------------------------------------------------------------
(* The backend asks for chunks while its systems run.                      *)

\* Mutant: the entity is not remembered.
GetEcsChunkForgets(p) ==
    /\ tick = "systems" /\ p \notin entities
    /\ Len(jobs) < Cardinality(Positions)
    /\ IF p \in world
       THEN loaded' = loaded \cup {p} /\ UNCHANGED jobs
       ELSE jobs' = Append(jobs, p) /\ UNCHANGED loaded
    /\ UNCHANGED <<entities, world, queue, workers, backend>>

\* get_ecs_chunk and generator_queue; for a position that has an entity the
\* call changes nothing.
GetEcsChunk(p) ==
    /\ tick = "systems" /\ p \notin entities
    /\ entities' = entities \cup {p}
    /\ IF p \in world
       THEN loaded' = loaded \cup {p} /\ UNCHANGED jobs
       ELSE jobs' = Append(jobs, p) /\ UNCHANGED loaded
    /\ UNCHANGED <<world, queue, workers, backend>>

-----------------------------------------------------------------------------
(* do_chunk_gen                                                            *)

Goes(w, place) == at' = [at EXCEPT ![w] = place]

\* A thread of the pool takes the next job.
TakeJob(w) ==
    /\ at[w] = "idle" /\ jobs # <<>>
    /\ task' = [task EXCEPT ![w] = Head(jobs)]
    /\ jobs' = Tail(jobs)
    /\ Goes(w, "generate")
    /\ UNCHANGED <<entities, loaded, world, queue, slot, backend>>

\* generate and world_set_chunk
Generate(w) ==
    /\ at[w] = "generate"
    /\ world' = world \cup {task[w]}
    /\ Goes(w, "try")
    /\ UNCHANGED <<entities, loaded, jobs, queue, task, slot, backend>>

\* Mutant: the queue takes one item too many.
TryOffByOne(w) ==
    /\ at[w] = "try"
    /\ count' = count + 1
    /\ Goes(w, IF count > Max THEN "backoff" ELSE "reserve")
    /\ UNCHANGED <<chunks, buffer, head, tail, task, slot, backend>>

\* mpscq_enqueue counts first and looks at what the count was.
Try(w) ==
    /\ at[w] = "try"
    /\ count' = count + 1
    /\ Goes(w, IF count >= Max THEN "backoff" ELSE "reserve")
    /\ UNCHANGED <<chunks, buffer, head, tail, task, slot, backend>>

\* Mutant: a refused producer gives up.
BackOffGivesUp(w) ==
    /\ at[w] = "backoff"
    /\ count' = count - 1
    /\ task' = [task EXCEPT ![w] = None]
    /\ Goes(w, "idle")
    /\ UNCHANGED <<chunks, buffer, head, tail, slot, backend>>

BackOff(w) ==
    /\ at[w] = "backoff"
    /\ count' = count - 1
    /\ Goes(w, "full")
    /\ UNCHANGED <<chunks, buffer, head, tail, task, slot, backend>>

\* do_chunk_gen yields as long as the capacity is exactly used up; a count
\* above it wraps around and is room as well.
Retry(w) ==
    /\ at[w] = "full" /\ Max - count # 0
    /\ Goes(w, "try")
    /\ UNCHANGED <<chunks, queue, task, slot, backend>>

\* Mutant: the slot is the one after the increment.
ReserveNext(w) ==
    /\ at[w] = "reserve"
    /\ head' = (head + 1) % Wrap
    /\ slot' = [slot EXCEPT ![w] = (head + 1) % Max]
    /\ Goes(w, "store")
    /\ UNCHANGED <<chunks, buffer, count, tail, task, backend>>

Reserve(w) ==
    /\ at[w] = "reserve"
    /\ head' = (head + 1) % Wrap
    /\ slot' = [slot EXCEPT ![w] = head % Max]
    /\ Goes(w, "store")
    /\ UNCHANGED <<chunks, buffer, count, tail, task, backend>>

Store(w) ==
    /\ at[w] = "store"
    /\ buffer' = [buffer EXCEPT ![slot[w]] = task[w]]
    /\ task' = [task EXCEPT ![w] = None]
    /\ Goes(w, "idle")
    /\ UNCHANGED <<chunks, count, head, tail, slot, backend>>

-----------------------------------------------------------------------------
(* handle_generated_chunks                                                 *)

\* mpscq_count: it also counts the producers that are not done, or refused.
ReadCount ==
    /\ tick = "count"
    /\ left' = count
    /\ tick' = "drain"
    /\ UNCHANGED <<chunks, queue, workers, ret, dequeued>>

\* The exchange of mpscq_dequeue.  handle_generated_chunks dereferences what
\* it returns, NULL too.
Dequeue ==
    /\ tick = "drain" /\ left > 0
    /\ IF buffer[tail] = None
       THEN tick' = "crashed" /\ UNCHANGED <<buffer, ret, dequeued>>
       ELSE /\ ret' = buffer[tail]
            /\ buffer' = [buffer EXCEPT ![tail] = None]
            /\ dequeued' = Append(dequeued, buffer[tail])
            /\ tick' = "retire"
    /\ UNCHANGED <<chunks, count, head, tail, workers, left>>

\* The rest of mpscq_dequeue, and the chunk is set.
Retire ==
    /\ tick = "retire"
    /\ tail' = IF tail + 1 >= Max THEN 0 ELSE tail + 1
    /\ count' = count - 1
    /\ loaded' = loaded \cup {ret}
    /\ ret' = None
    /\ left' = left - 1
    /\ tick' = "drain"
    /\ UNCHANGED <<entities, world, jobs, buffer, head, workers, dequeued>>

Drained ==
    /\ tick = "drain" /\ left = 0
    /\ tick' = "systems"
    /\ UNCHANGED <<chunks, queue, workers, left, ret, dequeued>>

\* The next tick begins.
EndTick ==
    /\ tick = "systems"
    /\ tick' = "count"
    /\ UNCHANGED <<chunks, queue, workers, left, ret, dequeued>>

-----------------------------------------------------------------------------

Work(w) ==
    /\ tick # "crashed"
    /\ \/ TakeJob(w) \/ Generate(w)
       \/ Try(w) \/ BackOff(w) \/ Retry(w) \/ Reserve(w) \/ Store(w)

Tick == ReadCount \/ Dequeue \/ Retire \/ Drained \/ EndTick

Next == Tick \/ (\E p \in Positions : GetEcsChunk(p)) \/ \E w \in Workers : Work(w)

Spec == Init /\ [][Next]_vars

\* Ticks come round and each thread of the pool is scheduled.
FairSpec == Spec /\ WF_vars(Tick) /\ \A w \in Workers : WF_vars(Work(w))

-----------------------------------------------------------------------------
(* Properties.                                                             *)

Storing  == {w \in Workers : at[w] = "store"}
Reserved == {slot[w] : w \in Storing}
Filled   == {i \in Slots : buffer[i] # None}

\* The asserts of mpscq.c: an element that a producer reserved stays its own
\* and empty until it is filled, and whoever takes an item out finds it counted.
AssertsHold ==
    /\ \A w \in Storing : buffer[slot[w]] = None
    /\ \A v, w \in Storing : slot[v] = slot[w] => v = w
    /\ tick = "retire" => count > 0

\* Where the chunk of p is: waiting, at a worker, queued, in the backend's
\* hand or with its entity.
Places(p) ==
    {<<"jobs", i>> : i \in {i \in 1 .. Len(jobs) : jobs[i] = p}}
      \cup {<<"task", w>> : w \in {w \in Workers : task[w] = p}}
      \cup {<<"buffer", i>> : i \in {i \in Slots : buffer[i] = p}}
      \cup {<<"ret", 0>> : i \in {i \in {0} : ret = p}}
      \cup {<<"loaded", 0>> : i \in {i \in {0} : p \in loaded}}

\* A position is generated once: with its entity its chunk is on its way in
\* exactly one place until it is loaded, and then it is the one in the world.
GeneratedOnce ==
    /\ \A p \in Positions :
         /\ p \in entities <=> Places(p) # {}
         /\ \A x, y \in Places(p) : x = y
    /\ loaded \subseteq world

-----------------------------------------------------------------------------
(* What makes them inductive.                                              *)

\* The element that the next item comes from; during mpscq_dequeue the tail
\* still is behind it.
First    == IF tick = "retire" THEN tail + 1 ELSE tail
Occupied == Filled \cup Reserved
Size     == Cardinality(Occupied)

\* The elements that are filled or reserved lie together, in the order of the
\* reservations, and head is behind them.
OccupiedFromFirst ==
    /\ Occupied = {(First + k) % Max : k \in 0 .. Size - 1}
    /\ head % Max = (First + Size) % Max

Admitted == {w \in Workers : at[w] = "reserve"}
Refused  == {w \in Workers : at[w] = "backoff"}
InHand   == IF tick = "retire" THEN 1 ELSE 0

\* The count is what is in the queue and whoever is on its way in or out; a
\* producer that goes on to reserve has an element, refused ones or not.
CountCovers ==
    /\ count = Size + Cardinality(Admitted) + Cardinality(Refused) + InHand
    /\ Size + Cardinality(Admitted) + InHand <= Max

\* A worker has a task, and the backend a chunk, while the code says so.
HandsAreFull ==
    /\ \A w \in Workers : at[w] = "idle" <=> task[w] = None
    /\ tick = "retire" <=> ret # None
    /\ tick = "retire" => left > 0

\* Only chunks that are in the world are passed on.
PassedOnIsMade ==
    /\ \A w \in Workers : at[w] \notin {"idle", "generate"} => task[w] \in world
    /\ \A i \in Filled : buffer[i] \in world
    /\ tick = "retire" => ret \in world

QueueInv == TypeOK /\ AssertsHold /\ OccupiedFromFirst /\ CountCovers /\ HandsAreFull

IInv == QueueInv /\ PassedOnIsMade /\ GeneratedOnce

-----------------------------------------------------------------------------
(* The queue implements what its header promises.  An item is let in when   *)
(* its element is reserved, and out with the exchange.                      *)

Item(i) ==
    IF buffer[i] # None THEN buffer[i]
    ELSE task[CHOOSE w \in Storing : slot[w] = i]

Tickets == INSTANCE TicketQueue WITH
    Items <- Positions,
    queue <- [k \in 1 .. Size |-> Item((First + k - 1) % Max)],
    taken <- dequeued

IsAQueue == Tickets!Spec

\* A chunk that was asked for reaches its entity, unless the backend is gone.
ChunksArrive ==
    \A p \in Positions : p \in entities ~> (p \in loaded \/ tick = "crashed")

=============================================================================
