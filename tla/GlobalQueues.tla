---------------------------- MODULE GlobalQueues ----------------------------
(***************************************************************************)
(* The queues between the threads (backend/backend.c, util/list.c,         *)
(* util/arena.c): two global_queues_t, each two lists whose entries live   *)
(* in its arena.  Threads post into the one m_current_queue names, under   *)
(* the mutex; the backend flips m_current_queue under the mutex and then   *)
(* drains the other one, resets its arena and reads the entries it popped  *)
(* without the mutex.                                                      *)
(*                                                                         *)
(* An arena hands out slots; a pointer is a queue's arena and a slot.  The *)
(* contents of a slot stay until it is handed out and filled again.  The   *)
(* gigabyte of an arena is taken as enough: a slot is an entry, whatever   *)
(* its size, and there is one for each of Entries.                         *)
(***************************************************************************)
EXTENDS Integers, FiniteSets, Sequences, SequencesExt

CONSTANTS
    Threads, \* the threads that post
    Backend, \* the one that also drains
    Events,  \* the global_event_t that may be posted, each once
    Packets, \* the packet_event_t
    None

Entries == Events \cup Packets

ASSUME QueuesAssumption ==
    /\ Backend \in Threads
    /\ Events \cap Packets = {}
    /\ None \notin Entries \cup Threads

VARIABLES
    mutex,           \* who holds m_global_queues_mutex
    m_current_queue,
    arena,           \* how many slots each arena has handed out
    data,            \* the contents of the slots
    events, packes,  \* the lists of each queue, of pointers
    at,              \* where each thread is when it posts
    msg, ptr,        \* what it posts, and the slot it got
    tick,            \* where the backend's tick is
    hand,            \* the pointer the backend popped last
    posted, handled  \* history: entries in the order they were linked and read

vars == <<mutex, m_current_queue, arena, data, events, packes, at, msg, ptr,
          tick, hand, posted, handled>>

Queues  == {0, 1}
Slots   == 0 .. Cardinality(Entries) - 1
Pointer == [queue : Queues, slot : Slots]

ASSUME NullAssumption == None \notin Pointer

\* get_global_queues and get_current_queues
Filling  == m_current_queue
Draining == 1 - m_current_queue

TypeOK ==
    /\ mutex \in Threads \cup {None}
    /\ m_current_queue \in Queues
    /\ arena \in [Queues -> Nat]
    /\ data \in [Pointer -> Entries \cup {None}]
    /\ events \in [Queues -> Seq(Pointer)]
    /\ packes \in [Queues -> Seq(Pointer)]
    /\ at \in [Threads -> {"idle", "alloc", "fill", "link", "unlock"}]
    /\ msg \in [Threads -> Entries \cup {None}]
    /\ ptr \in [Threads -> Pointer \cup {None}]
    /\ tick \in {"switch", "flip", "flipped", "events", "packets", "systems"}
    /\ hand \in Pointer \cup {None}
    /\ posted \in Seq(Entries)
    /\ handled \in Seq(Entries \cup {None})

\* backend_start has reset the queues.
Init ==
    /\ mutex = None
    /\ m_current_queue = 1
    /\ arena = [q \in Queues |-> 0]
    /\ data = [p \in Pointer |-> None]
    /\ events = [q \in Queues |-> <<>>]
    /\ packes = [q \in Queues |-> <<>>]
    /\ at = [t \in Threads |-> "idle"]
    /\ msg = [t \in Threads |-> None]
    /\ ptr = [t \in Threads |-> None]
    /\ tick = "switch"
    /\ hand = None
    /\ posted = <<>> /\ handled = <<>>

-----------------------------------------------------------------------------
(* Posting: disconnect_connection, handle_login_phase, connection_on_recv. *)

Goes(t, place) == at' = [at EXCEPT ![t] = place]

\* The backend posts too, when it disconnects a player: from handle_packets or
\* from the systems.  Only the frontend posts packets.
MayPost(t, m) ==
    /\ m \notin ToSet(posted) \cup {msg[u] : u \in Threads}
    /\ t = Backend => m \in Events /\ hand = None /\ tick \in {"packets", "systems"}

\* Mutant: global_queues_lock is not called.
LockForgotten(t) ==
    /\ at[t] = "idle"
    /\ \E m \in Entries : MayPost(t, m) /\ msg' = [msg EXCEPT ![t] = m]
    /\ Goes(t, "alloc")
    /\ UNCHANGED <<mutex, m_current_queue, arena, data, events, packes, ptr, tick, hand,
                   posted, handled>>

Lock(t) ==
    /\ at[t] = "idle" /\ mutex = None
    /\ mutex' = t
    /\ \E m \in Entries : MayPost(t, m) /\ msg' = [msg EXCEPT ![t] = m]
    /\ Goes(t, "alloc")
    /\ UNCHANGED <<m_current_queue, arena, data, events, packes, ptr, tick, hand,
                   posted, handled>>

\* arena_alloc
Alloc(t) ==
    /\ at[t] = "alloc"
    /\ arena[Filling] \in Slots
    /\ ptr' = [ptr EXCEPT ![t] = [queue |-> Filling, slot |-> arena[Filling]]]
    /\ arena' = [arena EXCEPT ![Filling] = @ + 1]
    /\ Goes(t, "fill")
    /\ UNCHANGED <<mutex, m_current_queue, data, events, packes, msg, tick, hand,
                   posted, handled>>

Fill(t) ==
    /\ at[t] = "fill"
    /\ data' = [data EXCEPT ![ptr[t]] = msg[t]]
    /\ Goes(t, "link")
    /\ UNCHANGED <<mutex, m_current_queue, arena, events, packes, msg, ptr, tick, hand,
                   posted, handled>>

\* list_add_tail on the list that get_global_queues names now
Link(t) ==
    /\ at[t] = "link"
    /\ IF msg[t] \in Events
       THEN /\ events' = [events EXCEPT ![Filling] = Append(@, ptr[t])]
            /\ UNCHANGED packes
       ELSE /\ packes' = [packes EXCEPT ![Filling] = Append(@, ptr[t])]
            /\ UNCHANGED events
    /\ posted' = Append(posted, msg[t])
    /\ Goes(t, "unlock")
    /\ UNCHANGED <<mutex, m_current_queue, arena, data, msg, ptr, tick, hand, handled>>

Unlock(t) ==
    /\ at[t] = "unlock"
    /\ mutex' = None
    /\ msg' = [msg EXCEPT ![t] = None]
    /\ ptr' = [ptr EXCEPT ![t] = None]
    /\ Goes(t, "idle")
    /\ UNCHANGED <<m_current_queue, arena, data, events, packes, tick, hand, posted, handled>>

-----------------------------------------------------------------------------
(* The backend's tick.                                                     *)

TickIs(place) == tick = place /\ hand = None /\ at[Backend] = "idle"

\* Mutant: the flip is made without the mutex.
SwitchLockForgotten ==
    /\ TickIs("switch")
    /\ tick' = "flip"
    /\ UNCHANGED <<mutex, m_current_queue, arena, data, events, packes, at, msg, ptr, hand,
                   posted, handled>>

\* global_queues_switch
SwitchLock ==
    /\ TickIs("switch") /\ mutex = None
    /\ mutex' = Backend
    /\ tick' = "flip"
    /\ UNCHANGED <<m_current_queue, arena, data, events, packes, at, msg, ptr, hand,
                   posted, handled>>

Flip ==
    /\ TickIs("flip")
    /\ m_current_queue' = 1 - m_current_queue
    /\ tick' = "flipped"
    /\ UNCHANGED <<mutex, arena, data, events, packes, at, msg, ptr, hand, posted, handled>>

SwitchUnlock ==
    /\ TickIs("flipped")
    /\ mutex' = None
    /\ tick' = "events"
    /\ UNCHANGED <<m_current_queue, arena, data, events, packes, at, msg, ptr, hand,
                   posted, handled>>

\* list_pop takes the entry that was linked last.
PopEvent ==
    /\ TickIs("events") /\ events[Draining] # <<>>
    /\ hand' = Last(events[Draining])
    /\ events' = [events EXCEPT ![Draining] = Front(@)]
    /\ UNCHANGED <<mutex, m_current_queue, arena, data, packes, at, msg, ptr, tick,
                   posted, handled>>

PopPacket ==
    /\ TickIs("packets") /\ packes[Draining] # <<>>
    /\ hand' = Last(packes[Draining])
    /\ packes' = [packes EXCEPT ![Draining] = Front(@)]
    /\ UNCHANGED <<mutex, m_current_queue, arena, data, events, at, msg, ptr, tick,
                   posted, handled>>

\* The handler reads the popped entry.
Handle ==
    /\ hand # None
    /\ handled' = Append(handled, data[hand])
    /\ hand' = None
    /\ UNCHANGED <<mutex, m_current_queue, arena, data, events, packes, at, msg, ptr, tick,
                   posted>>

\* Mutant: the tick may go on although events are left.
EventsDoneEarly ==
    /\ TickIs("events")
    /\ tick' = "packets"
    /\ UNCHANGED <<mutex, m_current_queue, arena, data, events, packes, at, msg, ptr, hand,
                   posted, handled>>

EventsDone ==
    /\ TickIs("events") /\ events[Draining] = <<>>
    /\ tick' = "packets"
    /\ UNCHANGED <<mutex, m_current_queue, arena, data, events, packes, at, msg, ptr, hand,
                   posted, handled>>

PacketsDone ==
    /\ TickIs("packets") /\ packes[Draining] = <<>>
    /\ tick' = "systems"
    /\ UNCHANGED <<mutex, m_current_queue, arena, data, events, packes, at, msg, ptr, hand,
                   posted, handled>>

\* Mutant: the arena that is being filled is reset.
FinalizeFilling ==
    /\ TickIs("systems")
    /\ arena' = [arena EXCEPT ![Filling] = 0]
    /\ tick' = "switch"
    /\ UNCHANGED <<mutex, m_current_queue, data, events, packes, at, msg, ptr, hand,
                   posted, handled>>

\* Mutant: the arena is not reset.
FinalizeKeeps ==
    /\ TickIs("systems")
    /\ tick' = "switch"
    /\ UNCHANGED <<mutex, m_current_queue, arena, data, events, packes, at, msg, ptr, hand,
                   posted, handled>>

\* finalize_tick: arena_reset
Finalize ==
    /\ TickIs("systems")
    /\ arena' = [arena EXCEPT ![Draining] = 0]
    /\ tick' = "switch"
    /\ UNCHANGED <<mutex, m_current_queue, data, events, packes, at, msg, ptr, hand,
                   posted, handled>>

-----------------------------------------------------------------------------

Posting(t) == Alloc(t) \/ Fill(t) \/ Link(t) \/ Unlock(t)

Tick ==
    \/ SwitchLock \/ Flip \/ SwitchUnlock
    \/ PopEvent \/ EventsDone \/ PopPacket \/ PacketsDone \/ Handle
    \/ Finalize

Next == Tick \/ \E t \in Threads : Lock(t) \/ Posting(t)

Spec == Init /\ [][Next]_vars

\* A thread inside the critical section goes on, and so does the tick.  The
\* mutex is not fair, but each entry is posted once, so posting cannot keep
\* the backend from the mutex for ever.
FairSpec == Spec /\ WF_vars(Tick) /\ \A t \in Threads : WF_vars(Posting(t))

-----------------------------------------------------------------------------
(* Properties.                                                             *)

Linked(q) == ToSet(events[q]) \cup ToSet(packes[q])

\* Pointers that are not linked: popped and about to be read, or about to be
\* linked.
InHand == IF hand = None THEN {} ELSE {hand}
Fresh  == {ptr[t] : t \in {u \in Threads : at[u] \in {"fill", "link"}}}

OwnSlots(q, P) == \A p \in P : p.queue = q /\ p.slot < arena[q]

\* No slot is handed out again while its entry will still be read: entries live
\* in the arena of their own queue, below its mark, each in a slot of its own.
EntriesOwnTheirSlots ==
    /\ OwnSlots(Filling, Linked(Filling) \cup Fresh)
    /\ OwnSlots(Draining, Linked(Draining) \cup InHand)
    /\ (Fresh \cup InHand) \cap (Linked(Filling) \cup Linked(Draining)) = {}
    /\ \A q \in Queues :
         /\ ToSet(events[q]) \cap ToSet(packes[q]) = {}
         /\ IsInjective(events[q]) /\ IsInjective(packes[q])

\* A flip hands the threads empty lists and a fresh arena: entries of one tick
\* never mix with those of the next.
FlipIsClean ==
    tick \in {"switch", "flip"} => Linked(Draining) = {} /\ arena[Draining] = 0

\* What makes them inductive.  The mutex is held exactly where the code holds
\* it, and the lists that a later part of the tick no longer looks at are empty.
MutexIsHeld ==
    /\ \A t \in Threads :
         mutex = t <=> at[t] # "idle" \/ (t = Backend /\ tick \in {"flip", "flipped"})
    /\ at[Backend] # "idle" => tick \in {"packets", "systems"} /\ hand = None
    /\ \A t \in Threads :
         /\ at[t] # "idle" => msg[t] \in Entries
         /\ at[t] \in {"fill", "link", "unlock"} => ptr[t] \in Pointer

DrainedInOrder ==
    /\ hand # None => tick \in {"events", "packets"}
    /\ tick \in {"packets", "systems", "switch", "flip"} => events[Draining] = <<>>
    /\ tick \in {"systems", "switch", "flip"} => packes[Draining] = <<>>
    /\ tick \in {"switch", "flip"} => arena[Draining] = 0

\* What is linked or in hand was posted and is not handled yet, each entry in
\* one place; what is being posted is new, and filled in before it is linked.
Waiting == Linked(Filling) \cup Linked(Draining) \cup InHand

ContentsAreKept ==
    /\ \A p \in Waiting : data[p] \in ToSet(posted) \ ToSet(handled)
    /\ \A p, r \in Waiting : data[p] = data[r] => p = r
    /\ ToSet(handled) \subseteq ToSet(posted)
    /\ \A t \in Threads :
         /\ at[t] \in {"alloc", "fill", "link"} => msg[t] \notin ToSet(posted)
         /\ at[t] = "link" => data[ptr[t]] = msg[t]

IInv ==
    TypeOK /\ MutexIsHeld /\ EntriesOwnTheirSlots /\ DrainedInOrder /\ ContentsAreKept

Content(P) == {data[p] : p \in P}

\* The queues deliver every entry once, in the tick after it was posted.
Mailbox == INSTANCE TickMailbox WITH
    filling   <- Content(Linked(Filling)),
    draining  <- Content(Linked(Draining) \cup InHand),
    delivered <- ToSet(handled)

DeliversEachTick == Mailbox!Spec

\* Whatever was posted is handled, also while other threads go on posting.
EveryPostIsHandled == \A m \in Entries : m \in ToSet(posted) ~> m \in ToSet(handled)

=============================================================================
