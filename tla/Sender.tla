------------------------------ MODULE Sender ------------------------------
(***************************************************************************)
(* backend/sender.c: the ring that the backend fills during a tick and the *)
(* thread that waits for its completions, with the parts of the tick and   *)
(* of main.c that decide when it is used.                                  *)
(*                                                                         *)
(* backend_sender_send holds m_sqe_ring_mutex, backend_sender_start does   *)
(* not: its io_uring_submit_and_wait also publishes what the backend is    *)
(* still preparing.  Only the backend's thread ever takes the mutex, so it *)
(* never waits for it and the mutex has no variable.                       *)
(*                                                                         *)
(* The ring is liburing's: sqe_tail is plain memory, io_uring_submit reads *)
(* it, writes ktail and enters the kernel, which takes entries from khead. *)
(* The counters are unsigned there and wrap; here they grow, and what      *)
(* would be a difference below zero is a large number of entries.  Packets *)
(* and their requests are numbered in the order they are handed over.      *)
(*                                                                         *)
(* When the kernel is given an entry that is not a prepared packet, or a   *)
(* thread uses what is not initialised, the process is lost: fate says how *)
(* and the model stops.                                                    *)
(***************************************************************************)
EXTENDS Integers, FiniteSets, Sequences

CONSTANTS
    None,
    Fds,         \* file descriptors
    MaxConns,    \* bound: connections of a run
    Entries,     \* entries of the ring, 2048 in the code
    MaxPackets,  \* bound: packets of a run
    MaxRefusals  \* bound: submissions that the kernel refuses

ASSUME SenderAssumption ==
    /\ Entries \in Nat \ {0}
    /\ MaxConns \in Nat /\ MaxPackets \in Nat /\ MaxRefusals \in Nat
    /\ None \notin Nat \cup Fds

Conns   == 1 .. MaxConns    \* in the order they are accepted
Packets == 1 .. MaxPackets
Threads == {"backend", "sender"}

VARIABLES
    tick,      \* where backend_start is
    due,       \* players that this round of keep-alives has not reached
    life, fd,  \* of a connection
    handed,    \* packets handed to backend_sender_send, in order
    overdue,   \* packets that were still in the ring when the next tick began
    astray,    \* packets that were written to somebody else's socket
    sqes, sqe_tail, ktail, khead,
    inflight,  \* packets the kernel works on
    cq,        \* packets whose completion waits for the sender
    freed,     \* packets whose callback ran
    at,        \* where a thread is
    seen,      \* what its io_uring_submit has read or computed
    refused,
    fate

world == <<tick, due, life, fd>>
ring  == <<sqes, sqe_tail>>
vars  == <<tick, due, life, fd, handed, overdue, astray, sqes, sqe_tail, ktail, khead,
           inflight, cq, freed, at, seen, refused, fate>>

Packet == [to : Conns, fd : Fds]
Entry  == [iov : {0} \cup Packets, data : {0} \cup Packets]

TypeOK ==
    /\ tick \in {"init", "events", "systems", "alive"}
    /\ due \subseteq Conns
    /\ life \in [Conns -> {"new", "queued", "playing", "closed", "early"}]
    /\ fd \in [Conns -> Fds \cup {None}]
    /\ handed \in Seq(Packet) /\ Len(handed) <= MaxPackets
    /\ overdue \subseteq Packets
    /\ astray \subseteq Packets
    /\ sqes \in [0 .. Entries - 1 -> Entry]
    /\ khead \in Nat /\ sqe_tail \in khead .. khead + Entries /\ ktail \in Nat
    /\ inflight \subseteq Packets /\ cq \subseteq Packets /\ freed \subseteq Packets
    /\ at \in [Threads -> {"start", "run", "get", "prep", "data", "flush", "store", "enter", "wait"}]
    /\ seen \in [Threads -> Nat]
    /\ refused \in Nat
    /\ fate \in {"fine", "unready", "torn"}

Init ==
    /\ tick = "init" /\ due = {}
    /\ life = [c \in Conns |-> "new"] /\ fd = [c \in Conns |-> None]
    /\ handed = <<>> /\ overdue = {} /\ astray = {}
    /\ sqes = [i \in 0 .. Entries - 1 |-> [iov |-> 0, data |-> 0]]
    /\ sqe_tail = 0 /\ ktail = 0 /\ khead = 0
    /\ inflight = {} /\ cq = {} /\ freed = {}
    /\ at = [t \in Threads |-> IF t = "sender" THEN "start" ELSE "run"]
    /\ seen = [t \in Threads |-> 0]
    /\ refused = 0 /\ fate = "fine"

-----------------------------------------------------------------------------
(* Connections, as far as they decide where a descriptor leads.            *)

UnchangedSending == UNCHANGED <<handed, overdue, astray, sqes, sqe_tail, ktail, khead,
                                inflight, cq, freed, at, seen, refused>>

Open(c) == life[c] \in {"queued", "playing"}

\* A client is accepted and logs in: handle_login_phase posts an event.  Until
\* backend_start has initialised the queues the list of events has no head.
Connect(c) ==
    /\ life[c] = "new" /\ \A d \in 1 .. c - 1 : life[d] # "new"
    /\ \E f \in Fds :
         /\ \A d \in Conns : Open(d) => fd[d] # f
         /\ fd' = [fd EXCEPT ![c] = f]
    /\ life' = [life EXCEPT ![c] = "queued"]
    /\ fate' = IF tick = "init" THEN "unready" ELSE "fine"
    /\ UnchangedSending /\ UNCHANGED <<tick, due>>

-----------------------------------------------------------------------------
(* The tick.                                                               *)

Running(phase) == tick = phase /\ at["backend"] = "run"

\* The players that are sent something.
Playing == {c \in Conns : life[c] \in {"playing", "early"}}

\* backend_start before its loop
StartBackend ==
    /\ Running("init")
    /\ tick' = "events"
    /\ UnchangedSending /\ UNCHANGED <<due, life, fd, fate>>

Event(c) ==
    /\ \/ life[c] = "queued" /\ life' = [life EXCEPT ![c] = "playing"]
       \/ life[c] = "playing" /\ life' = [life EXCEPT ![c] = "closed"]
    /\ UnchangedSending /\ UNCHANGED <<tick, due, fd, fate>>

\* Mutant: events are also handled after the systems.
HandleEventLate(c) == (Running("events") \/ Running("systems")) /\ Event(c)

\* handle_global_events, for a login and for a close: the entity is made, or
\* deleted with what may be the last reference, which closes the descriptor.
HandleEvent(c) == Running("events") /\ Event(c)

\* Both threads call disconnect_connection on references they do not own, which
\* may close the descriptor under the player (Connections, NoUseAfterFree).
CloseEarly(c) ==
    /\ life[c] = "playing"
    /\ life' = [life EXCEPT ![c] = "early"]
    /\ UnchangedSending /\ UNCHANGED <<tick, due, fd, fate>>

\* backend_sender_send up to the mutex.  When calloc fails nothing is handed
\* over.
Hand(c) ==
    /\ Len(handed) < MaxPackets
    /\ handed' = Append(handed, [to |-> c, fd |-> fd[c]])
    /\ at' = [at EXCEPT !["backend"] = "get"]
    /\ UNCHANGED <<life, fd, overdue, astray, sqes, sqe_tail, ktail, khead,
                   inflight, cq, freed, seen, refused, fate>>

\* What a new player is sent, or whatever a system sends; the events are done.
Send(c) ==
    /\ Running("events") \/ Running("systems")
    /\ c \in Playing
    /\ Hand(c)
    /\ tick' = "systems"
    /\ UNCHANGED due

\* finalize_tick submits.  Every ten seconds it is time for keep-alives then.
FinalizeTick ==
    /\ Running("events") \/ Running("systems")
    /\ tick' = "alive"
    /\ \/ due' = {}
       \/ /\ due' = Playing
          /\ Len(handed) + Cardinality(due') <= MaxPackets
    /\ at' = [at EXCEPT !["backend"] = "flush"]
    /\ UNCHANGED <<life, fd, handed, overdue, astray, sqes, sqe_tail, ktail, khead,
                   inflight, cq, freed, seen, refused, fate>>

KeepAlive(c) ==
    /\ Running("alive") /\ c \in due
    /\ Hand(c)
    /\ due' = due \ {c}
    /\ UNCHANGED tick

\* The next turn of the loop.
NextTick ==
    /\ Running("alive") /\ due = {}
    /\ tick' = "events"
    /\ overdue' = overdue \cup (khead + 1 .. Len(handed))
    /\ UNCHANGED <<due, life, fd, handed, astray, sqes, sqe_tail, ktail, khead,
                   inflight, cq, freed, at, seen, refused, fate>>

-----------------------------------------------------------------------------
(* backend_sender_send under the mutex.                                    *)

Ready == at["sender"] # "start"

\* The memory of m_ring is zero until the sender has created the ring.
Unready ==
    /\ at["backend"] \in {"get", "flush"} /\ ~Ready
    /\ fate' = "unready"
    /\ UNCHANGED <<tick, due, life, fd>> /\ UnchangedSending

UnchangedButSqes == UNCHANGED <<tick, due, life, fd, handed, overdue, astray, ktail, khead,
                                inflight, cq, freed, seen, refused, fate>>

\* Mutant: room for one entry more than there is.
GetSqeTooMany ==
    /\ at["backend"] = "get" /\ Ready
    /\ at' = [at EXCEPT !["backend"] =
                IF sqe_tail - khead <= Entries THEN "prep" ELSE "flush"]
    /\ sqe_tail' = IF sqe_tail - khead <= Entries THEN sqe_tail + 1 ELSE sqe_tail
    /\ UnchangedButSqes /\ UNCHANGED sqes

\* io_uring_get_sqe, and io_uring_submit when the ring is full
GetSqe ==
    /\ at["backend"] = "get" /\ Ready
    /\ at' = [at EXCEPT !["backend"] = IF sqe_tail - khead < Entries THEN "prep" ELSE "flush"]
    /\ sqe_tail' = IF sqe_tail - khead < Entries THEN sqe_tail + 1 ELSE sqe_tail
    /\ UnchangedButSqes /\ UNCHANGED sqes

Slot(i) == i % Entries

\* io_uring_prep_writev: descriptor and iovec are set, user_data is not
PrepWritev ==
    /\ at["backend"] = "prep"
    /\ sqes' = [sqes EXCEPT ![Slot(sqe_tail - 1)].iov = Len(handed)]
    /\ at' = [at EXCEPT !["backend"] = "data"]
    /\ UnchangedButSqes /\ UNCHANGED sqe_tail

\* Mutant: the entry is submitted before its request is set.
SetDataNever ==
    /\ at["backend"] = "data"
    /\ at' = [at EXCEPT !["backend"] = "run"]
    /\ UnchangedButSqes /\ UNCHANGED ring

\* io_uring_sqe_set_data
SetData ==
    /\ at["backend"] = "data"
    /\ sqes' = [sqes EXCEPT ![Slot(sqe_tail - 1)].data = Len(handed)]
    /\ at' = [at EXCEPT !["backend"] = "run"]
    /\ UnchangedButSqes /\ UNCHANGED sqe_tail

-----------------------------------------------------------------------------
(* io_uring_submit, in three steps, for both threads.                      *)

FlushRead(t) ==
    /\ at[t] = "flush" /\ Ready
    /\ seen' = [seen EXCEPT ![t] = sqe_tail]
    /\ at' = [at EXCEPT ![t] = "store"]
    /\ UNCHANGED <<tick, due, life, fd, handed, overdue, astray, sqes, sqe_tail, ktail, khead,
                   inflight, cq, freed, refused, fate>>

\* What an unsigned difference comes to, as far as the ring has entries.
Difference(a, b) == IF a >= b THEN a - b ELSE Entries

FlushStore(t) ==
    /\ at[t] = "store"
    /\ ktail' = seen[t]
    /\ seen' = [seen EXCEPT ![t] = Difference(seen[t], khead)]
    /\ at' = [at EXCEPT ![t] = "enter"]
    /\ UNCHANGED <<tick, due, life, fd, handed, overdue, astray, sqes, sqe_tail, khead,
                   inflight, cq, freed, refused, fate>>

\* Where a thread goes on after io_uring_submit: GET_SQE tries again.
After(t) ==
    IF t = "sender" THEN "wait" ELSE IF sqe_tail < Len(handed) THEN "get" ELSE "run"

Taken == inflight \cup cq \cup freed

\* The entry describes one packet, and one the kernel has not had yet.
Intact(e) == e.iov = e.data /\ e.iov \in Packets \ Taken

\* Who has the descriptor now.
Owners(f) == {c \in Conns : Open(c) /\ fd[c] = f}

\* The kernel takes what is published, at most what it was asked for.
Batch(t) ==
    LET n == Difference(ktail, khead)
    IN  {sqes[Slot(i)] : i \in khead .. khead + (IF n < seen[t] THEN n ELSE seen[t]) - 1}

Enter(t) ==
    /\ at[t] = "enter"
    /\ IF \A e \in Batch(t) : Intact(e)
         THEN LET ps == {e.iov : e \in Batch(t)}
              IN  /\ khead' = khead + Cardinality(ps)
                  /\ inflight' = inflight \cup ps
                  /\ astray' = astray \cup
                        {p \in ps : Owners(handed[p].fd) \notin {{}, {handed[p].to}}}
                  /\ at' = [at EXCEPT ![t] = After(t)]
                  /\ seen' = [seen EXCEPT ![t] = 0]
                  /\ UNCHANGED fate
         ELSE /\ fate' = "torn"
              /\ UNCHANGED <<khead, inflight, astray, at, seen>>
    /\ UNCHANGED <<tick, due, life, fd, handed, overdue, sqes, sqe_tail, ktail,
                   cq, freed, refused>>

\* Nobody looks at the result of io_uring_submit.  The sender's call does not
\* wait then, and whatever has completed is handled.
Refused(t) ==
    /\ at[t] = "enter" /\ seen[t] > 0 /\ refused < MaxRefusals
    /\ refused' = refused + 1 /\ seen' = [seen EXCEPT ![t] = 0]
    /\ at' = [at EXCEPT ![t] = IF t = "sender" THEN "flush" ELSE After(t)]
    /\ IF t = "sender" THEN freed' = freed \cup cq /\ cq' = {} ELSE UNCHANGED <<freed, cq>>
    /\ UNCHANGED <<tick, due, life, fd, handed, overdue, astray, sqes, sqe_tail, ktail, khead,
                   inflight, fate>>

-----------------------------------------------------------------------------
(* Completions and the sender's thread.                                    *)

Complete(p) ==
    /\ p \in inflight
    /\ inflight' = inflight \ {p}
    /\ cq' = cq \cup {p}
    /\ UNCHANGED <<tick, due, life, fd, handed, overdue, astray, sqes, sqe_tail, ktail, khead,
                   freed, at, seen, refused, fate>>

\* io_uring_queue_init_params
StartSender ==
    /\ at["sender"] = "start"
    /\ at' = [at EXCEPT !["sender"] = "flush"]
    /\ UNCHANGED <<tick, due, life, fd, handed, overdue, astray, sqes, sqe_tail, ktail, khead,
                   inflight, cq, freed, seen, refused, fate>>

\* Mutant: requests are freed as soon as the kernel has them.
ReapEarly ==
    /\ at["sender"] = "wait" /\ cq # {}
    /\ freed' = freed \cup cq \cup inflight
    /\ cq' = {}
    /\ at' = [at EXCEPT !["sender"] = "flush"]
    /\ UNCHANGED <<tick, due, life, fd, handed, overdue, astray, sqes, sqe_tail, ktail, khead,
                   inflight, seen, refused, fate>>

\* Mutant: one completion is handled and all are acknowledged.
ReapOne ==
    /\ at["sender"] = "wait" /\ cq # {}
    /\ \E p \in cq : freed' = freed \cup {p}
    /\ cq' = {}
    /\ at' = [at EXCEPT !["sender"] = "flush"]
    /\ UNCHANGED <<tick, due, life, fd, handed, overdue, astray, sqes, sqe_tail, ktail, khead,
                   inflight, seen, refused, fate>>

\* A failed send is logged and freed like any other.
Reap ==
    /\ at["sender"] = "wait" /\ cq # {}
    /\ freed' = freed \cup cq
    /\ cq' = {}
    /\ at' = [at EXCEPT !["sender"] = "flush"]
    /\ UNCHANGED <<tick, due, life, fd, handed, overdue, astray, sqes, sqe_tail, ktail, khead,
                   inflight, seen, refused, fate>>

-----------------------------------------------------------------------------

Submitting(t) == FlushRead(t) \/ FlushStore(t) \/ Enter(t) \/ Refused(t)

Backend ==
    \/ StartBackend \/ FinalizeTick \/ NextTick
    \/ \E c \in Conns : HandleEvent(c) \/ Send(c) \/ KeepAlive(c)
    \/ Unready \/ GetSqe \/ PrepWritev \/ SetData
    \/ Submitting("backend")

SenderThread == StartSender \/ Submitting("sender") \/ Reap

Next ==
    /\ fate = "fine"
    /\ \/ Backend
       \/ SenderThread
       \/ \E c \in Conns : Connect(c) \/ CloseEarly(c)
       \/ \E p \in Packets : Complete(p)

Spec == Init /\ [][Next]_vars

\* The two threads run, and the kernel finishes what it has begun.
FairSpec ==
    /\ Spec
    /\ WF_vars(fate = "fine" /\ Backend) /\ WF_vars(fate = "fine" /\ SenderThread)
    /\ WF_vars(fate = "fine" /\ \E p \in Packets : Complete(p))

-----------------------------------------------------------------------------
(* What makes the properties below inductive.                              *)

Preparing == at["backend"] \in {"prep", "data"}

\* The tails follow one another, whoever has written ktail back.
TailsInOrder ==
    /\ ktail <= sqe_tail
    /\ \A t \in Threads : at[t] = "store" => seen[t] <= sqe_tail
    /\ at["backend"] = "store" => seen["backend"] = sqe_tail

\* A packet has its entry once GET_SQE has found one, and no packet before it
\* is without.
HandedInOrder ==
    /\ sqe_tail \in {Len(handed) - 1, Len(handed)}
    /\ Preparing \/ at["backend"] = "run" => sqe_tail = Len(handed)
    /\ at["backend"] = "get" => sqe_tail < Len(handed)
    /\ Preparing => khead < sqe_tail

Prepared(i) == i < sqe_tail /\ ~(i = sqe_tail - 1 /\ Preparing)

\* The entries that the kernel has not had describe their packets, and the others
\* what it has had, so that they cannot be taken for a packet.
SlotsAreCurrent ==
    \A i \in khead .. khead + Entries - 1 :
        LET e == sqes[Slot(i)]
        IN  IF Prepared(i) THEN e.iov = i + 1 /\ e.data = i + 1
            ELSE /\ e.data <= khead
                 /\ IF i = sqe_tail - 1 /\ at["backend"] = "data" THEN e.iov = i + 1
                    ELSE e.iov <= khead

\* The kernel has had a first part of the packets.
TakenInOrder == Taken = 1 .. khead

RingInv == TypeOK /\ TailsInOrder /\ HandedInOrder /\ SlotsAreCurrent /\ TakenInOrder

\* Open connections have descriptors of their own, and a packet goes to the one
\* its connection was given.
FdsAreOwned ==
    /\ \A c \in Conns : life[c] # "new" => fd[c] \in Fds
    /\ \A c, d \in Conns : Open(c) /\ Open(d) /\ fd[c] = fd[d] => c = d
    /\ \A p \in 1 .. Len(handed) :
         life[handed[p].to] # "new" /\ handed[p].fd = fd[handed[p].to]

Waiting == khead + 1 .. Len(handed)

\* The systems of a tick send to players that no event closes before the next.
WaitingHaveOwners ==
    /\ \A p \in Waiting \ overdue : life[handed[p].to] \in {"playing", "early"}
    /\ tick \in {"init", "events"} => Waiting \subseteq overdue
    /\ due # {} => tick = "alive" /\ due \subseteq Playing
    /\ astray \subseteq 1 .. khead

-----------------------------------------------------------------------------
(* Properties.                                                             *)

\* sender.h: packets leave once and in order, and their buffers live until the
\* kernel is done with them, as long as the process is not lost.
Promise == INSTANCE Outbox WITH
    handed <- Len(handed),
    taken  <- Taken,
    sent   <- cq \cup freed

LeavesInOrder == Promise!Spec

\* The missing mutex of the sender's thread is the only thing that tears an
\* entry.  Either it submits while the backend prepares one, or it has put back
\* a tail it read before, so that the ring seems to hold what was taken already.
OnlyOverlapTears ==
    [][ /\ fate' = "torn" => \/ at["sender"] = "enter" /\ at["backend"] \in {"prep", "data"}
                            \/ ktail < khead
        /\ ktail' < ktail => at["sender"] = "store" /\ seen["sender"] < sqe_tail ]_vars

\* A descriptor may belong to somebody else by the time the kernel looks it up.
\* A packet that was submitted in its tick only reaches a stranger when the
\* connection was closed under its player: others go at the start of a tick.
OnlyOverdueGoAstray ==
    \A p \in astray : p \in overdue \/ life[handed[p].to] = "early"

\* The invariant behind the properties above: what is in the ring, and to whom
\* it goes.
IInv ==
    /\ RingInv
    /\ FdsAreOwned
    /\ WaitingHaveOwners
    /\ OnlyOverdueGoAstray

\* Whatever is handed over is submitted, completed and freed, although nobody
\* looks at the result of a submission and the two threads overwrite ktail: again
\* and again, and when there are no packets any more for good, nothing is left.
PacketsAreFreed == []<>(freed = 1 .. Len(handed) \/ fate # "fine")

\* sender.h:20 "this is synchronized properly"
OnlyPreparedIsTaken == fate # "torn"

=============================================================================
