------------------------ MODULE GlobalQueuesProofs ------------------------
(***************************************************************************)
(* No slot of an arena is handed out again while its entry will still be   *)
(* read, whatever threads post and however the flip falls between their    *)
(* steps: EntriesOwnTheirSlots of GlobalQueues, through IInv.              *)
(*                                                                         *)
(* The proof follows who may touch what.  The holder of the mutex is the   *)
(* only thread with a fresh pointer (OnePoster); the tick alone touches    *)
(* the lists that are drained, and when it flips they are empty.           *)
(***************************************************************************)
EXTENDS GlobalQueues, SequenceTheorems, TLAPS

-----------------------------------------------------------------------------
(* Lists of pointers.                                                      *)

\* list_add_tail: the list has the new pointer besides, and no pointer twice
\* unless the new one was there.
LEMMA AppendPointer ==
    ASSUME NEW q \in Seq(Pointer), NEW p \in Pointer
    PROVE  /\ Append(q, p) \in Seq(Pointer)
           /\ ToSet(Append(q, p)) = ToSet(q) \cup {p}
           /\ IsInjective(q) /\ p \notin ToSet(q) => IsInjective(Append(q, p))
<1> DEFINE r == Append(q, p)
<1>1. Len(q) \in Nat /\ DOMAIN q = 1 .. Len(q)
  BY LenProperties
<1>2. /\ r \in Seq(Pointer) /\ Len(r) = Len(q) + 1
      /\ \A i \in 1 .. Len(q) : r[i] = q[i]
      /\ r[Len(q) + 1] = p
  BY AppendProperties
<1>3. DOMAIN r = 1 .. Len(q) + 1
  BY <1>2, LenProperties
<1> HIDE DEF r
<1>4. ToSet(r) = ToSet(q) \cup {p}
  BY <1>1, <1>2, <1>3 DEF ToSet
<1>5. ASSUME IsInjective(q), p \notin ToSet(q)
      PROVE  IsInjective(r)
  <2>1. SUFFICES ASSUME NEW i \in 1 .. Len(q) + 1, NEW j \in 1 .. Len(q) + 1, r[i] = r[j]
                 PROVE  i = j
    BY <1>3 DEF IsInjective
  <2>2. CASE i \in 1 .. Len(q) /\ j \in 1 .. Len(q)
    BY <1>1, <1>2, <1>5, <2>1, <2>2 DEF IsInjective
  <2>3. CASE i \in 1 .. Len(q) /\ j = Len(q) + 1
    BY <1>1, <1>2, <1>5, <2>1, <2>3 DEF ToSet
  <2>4. CASE i = Len(q) + 1 /\ j \in 1 .. Len(q)
    BY <1>1, <1>2, <1>5, <2>1, <2>4 DEF ToSet
  <2>5. QED  BY <1>1, <2>1, <2>2, <2>3, <2>4
<1>6. QED  BY <1>2, <1>4, <1>5 DEF r

\* list_pop: what it returns was in the list and is not any more.
LEMMA PopPointer ==
    ASSUME NEW q \in Seq(Pointer), q # <<>>
    PROVE  /\ Front(q) \in Seq(Pointer) /\ Last(q) \in Pointer
           /\ ToSet(q) = ToSet(Front(q)) \cup {Last(q)}
           /\ IsInjective(q) => IsInjective(Front(q)) /\ Last(q) \notin ToSet(Front(q))
<1>1. Len(q) \in Nat /\ Len(q) >= 1 /\ DOMAIN q = 1 .. Len(q)
  BY EmptySeq, LenProperties
<1>2. Front(q) \in Seq(Pointer) /\ Len(Front(q)) = Len(q) - 1
  BY <1>1, SubSeqProperties DEF Front
<1>3. DOMAIN Front(q) = 1 .. Len(q) - 1
  BY <1>2, LenProperties
<1>4. \A i \in 1 .. Len(q) - 1 : Front(q)[i] = q[i]
  BY <1>1, SubSeqProperties DEF Front
<1>5. Last(q) \in Pointer
  BY <1>1, ElementOfSeq DEF Last
<1>6. ToSet(q) = ToSet(Front(q)) \cup {Last(q)}
  BY <1>1, <1>3, <1>4 DEF ToSet, Last
<1>7. IsInjective(q) => IsInjective(Front(q)) /\ Last(q) \notin ToSet(Front(q))
  BY <1>1, <1>3, <1>4 DEF IsInjective, ToSet, Last
<1>8. QED  BY <1>2, <1>5, <1>6, <1>7

\* A list that is empty has no pointers.
LEMMA EmptyList == ToSet(<<>>) = {}
BY DEF ToSet

-----------------------------------------------------------------------------
(* Who is where.                                                           *)

\* The two queues are the one that is filled and the one that is drained.
LEMMA TwoQueues ==
    ASSUME m_current_queue \in Queues
    PROVE  /\ Filling \in Queues /\ Draining \in Queues /\ Filling # Draining
           /\ \A q \in Queues : q = Filling \/ q = Draining
BY DEF Queues, Filling, Draining

\* A thread in the critical section is alone there, and the flip is not under
\* way: the backend holds the mutex for it, and does not post meanwhile.
LEMMA OnePoster ==
    ASSUME MutexIsHeld, NEW t \in Threads, at[t] # "idle"
    PROVE  /\ mutex = t
           /\ \A u \in Threads \ {t} : at[u] = "idle"
           /\ tick \notin {"flip", "flipped"}
BY QueuesAssumption DEF MutexIsHeld

\* While the tick flips, nobody is in the critical section.
LEMMA NobodyPosts ==
    ASSUME MutexIsHeld, tick \in {"flip", "flipped"} \/ mutex = None
    PROVE  \A t \in Threads : at[t] = "idle"
BY QueuesAssumption, OnePoster DEF MutexIsHeld

-----------------------------------------------------------------------------
(* Types.                                                                  *)

\* A thread that posts keeps the types.
LEMMA PostingTypes ==
    ASSUME TypeOK, MutexIsHeld, NEW t \in Threads, Lock(t) \/ Posting(t)
    PROVE  TypeOK'
<1> USE DEF TypeOK
<1>1. CASE Lock(t)
  BY <1>1 DEF Lock, Goes
<1>2. CASE Alloc(t)
  <2>1. [queue |-> Filling, slot |-> arena[Filling]] \in Pointer
    BY <1>2, TwoQueues DEF Alloc, Pointer
  <2>2. arena' \in [Queues -> Nat]
    BY <1>2, TwoQueues DEF Alloc
  <2>3. QED  BY <1>2, <2>1, <2>2 DEF Alloc, Goes
<1>3. CASE Fill(t)
  <2>1. ptr[t] \in Pointer /\ msg[t] \in Entries
    BY <1>3 DEF Fill, MutexIsHeld
  <2>2. QED  BY <1>3, <2>1 DEF Fill, Goes
<1>4. CASE Link(t)
  <2>1. ptr[t] \in Pointer /\ msg[t] \in Entries
    BY <1>4 DEF Link, MutexIsHeld
  <2>2. /\ Append(events[Filling], ptr[t]) \in Seq(Pointer)
        /\ Append(packes[Filling], ptr[t]) \in Seq(Pointer)
    BY <2>1, TwoQueues, AppendPointer
  <2>3. Append(posted, msg[t]) \in Seq(Entries)
    BY <2>1
  <2>4. QED  BY <1>4, <2>1, <2>2, <2>3, TwoQueues DEF Link, Goes
<1>5. CASE Unlock(t)
  BY <1>5 DEF Unlock, Goes
<1>6. QED  BY <1>1, <1>2, <1>3, <1>4, <1>5 DEF Posting

\* The tick keeps the types.
LEMMA TickTypes ==
    ASSUME TypeOK, Tick
    PROVE  TypeOK'
<1> USE DEF TypeOK
<1>1. CASE SwitchLock
  BY <1>1, QueuesAssumption DEF SwitchLock
<1>2. CASE Flip
  BY <1>2 DEF Flip, Queues
<1>3. CASE SwitchUnlock
  BY <1>3 DEF SwitchUnlock
<1>4. CASE PopEvent
  <2>1. events[Draining] \in Seq(Pointer) /\ events[Draining] # <<>>
    BY <1>4, TwoQueues DEF PopEvent
  <2>2. QED  BY <1>4, <2>1, PopPointer, TwoQueues DEF PopEvent
<1>5. CASE PopPacket
  <2>1. packes[Draining] \in Seq(Pointer) /\ packes[Draining] # <<>>
    BY <1>5, TwoQueues DEF PopPacket
  <2>2. QED  BY <1>5, <2>1, PopPointer, TwoQueues DEF PopPacket
<1>6. CASE Handle
  <2>1. data[hand] \in Entries \cup {None}
    BY <1>6 DEF Handle
  <2>2. Append(handled, data[hand]) \in Seq(Entries \cup {None})
    BY <2>1
  <2>3. QED  BY <1>6, <2>2 DEF Handle
<1>7. CASE EventsDone \/ PacketsDone
  BY <1>7 DEF EventsDone, PacketsDone
<1>8. CASE Finalize
  BY <1>8, TwoQueues DEF Finalize
<1>9. QED  BY <1>1, <1>2, <1>3, <1>4, <1>5, <1>6, <1>7, <1>8 DEF Tick

-----------------------------------------------------------------------------
(* The mutex.                                                              *)

LEMMA PostingKeepsMutex ==
    ASSUME TypeOK, MutexIsHeld, NEW t \in Threads, Lock(t) \/ Posting(t)
    PROVE  MutexIsHeld'
<1>1. CASE Lock(t)
  <2>1. \A u \in Threads : at[u] = "idle"
    BY <1>1, NobodyPosts DEF Lock
  <2>2. tick \notin {"flip", "flipped"}
    BY <1>1, QueuesAssumption DEF Lock, MutexIsHeld
  <2>3. /\ at' = [at EXCEPT ![t] = "alloc"] /\ mutex' = t
        /\ tick' = tick /\ hand' = hand /\ ptr' = ptr
    BY <1>1 DEF Lock, Goes
  <2>4. msg'[t] \in Entries
    BY <1>1 DEF Lock, TypeOK
  <2>5. t = Backend => tick \in {"packets", "systems"} /\ hand = None
    BY <1>1 DEF Lock, MayPost
  <2>6. QED
    BY <2>1, <2>2, <2>3, <2>4, <2>5, QueuesAssumption DEF MutexIsHeld, TypeOK
<1>2. CASE Posting(t) /\ ~Unlock(t)
  <2>1. at[t] # "idle" /\ at'[t] # "idle" /\ \A u \in Threads \ {t} : at'[u] = at[u]
    BY <1>2 DEF Posting, Alloc, Fill, Link, Goes, TypeOK
  <2>2. /\ mutex' = mutex /\ tick' = tick /\ hand' = hand /\ msg' = msg
    BY <1>2 DEF Posting, Alloc, Fill, Link
  <2>3. \A u \in Threads : at'[u] = "idle" <=> at[u] = "idle"
    BY <2>1
  <2>4. at'[t] \in {"fill", "link", "unlock"} => ptr'[t] \in Pointer
    <3>1. CASE Alloc(t)
      BY <3>1, TwoQueues DEF Alloc, Pointer, TypeOK
    <3>2. CASE ~Alloc(t)
      BY <1>2, <3>2 DEF Posting, Fill, Link, MutexIsHeld
    <3>3. QED  BY <3>1, <3>2
  <2>5. \A u \in Threads \ {t} : at[u] = "idle"
    BY <2>1, OnePoster
  <2>6. QED
    BY <2>1, <2>2, <2>3, <2>4, <2>5, QueuesAssumption DEF MutexIsHeld
<1>3. CASE Unlock(t)
  <2>1. /\ mutex = t /\ \A u \in Threads \ {t} : at[u] = "idle"
        /\ tick \notin {"flip", "flipped"}
    BY <1>3, OnePoster DEF Unlock
  <2>2. /\ at' = [at EXCEPT ![t] = "idle"] /\ mutex' = None /\ tick' = tick
    BY <1>3 DEF Unlock, Goes
  <2>3. QED
    BY <2>1, <2>2, QueuesAssumption DEF MutexIsHeld, TypeOK
<1>4. QED  BY <1>1, <1>2, <1>3

LEMMA TickKeepsMutex ==
    ASSUME TypeOK, MutexIsHeld, Tick
    PROVE  MutexIsHeld'
<1>1. at' = at /\ msg' = msg /\ ptr' = ptr
  BY DEF Tick, SwitchLock, Flip, SwitchUnlock, PopEvent, EventsDone, PopPacket, PacketsDone,
         Handle, Finalize
<1>2. CASE SwitchLock
  <2>1. \A t \in Threads : at[t] = "idle"
    BY <1>2, NobodyPosts DEF SwitchLock
  <2>2. mutex' = Backend /\ tick' = "flip"
    BY <1>2 DEF SwitchLock
  <2>3. QED  BY <1>1, <2>1, <2>2, QueuesAssumption DEF MutexIsHeld
<1>3. CASE Flip
  BY <1>1, <1>3 DEF Flip, TickIs, MutexIsHeld
<1>4. CASE SwitchUnlock
  <2>1. \A t \in Threads : at[t] = "idle"
    BY <1>4, NobodyPosts DEF SwitchUnlock, TickIs
  <2>2. mutex' = None /\ tick' = "events"
    BY <1>4 DEF SwitchUnlock
  <2>3. QED  BY <1>1, <2>1, <2>2, QueuesAssumption DEF MutexIsHeld
<1>5. CASE Handle
  BY <1>1, <1>5 DEF Handle, MutexIsHeld
<1>6. CASE PopEvent \/ EventsDone \/ PopPacket \/ PacketsDone \/ Finalize
  <2>1. at[Backend] = "idle" /\ mutex' = mutex
    BY <1>6 DEF PopEvent, EventsDone, PopPacket, PacketsDone, Finalize, TickIs
  <2>2. tick \notin {"flip", "flipped"} /\ tick' \notin {"flip", "flipped"}
    BY <1>6 DEF PopEvent, EventsDone, PopPacket, PacketsDone, Finalize, TickIs
  <2>3. QED  BY <1>1, <2>1, <2>2 DEF MutexIsHeld
<1>7. QED  BY <1>2, <1>3, <1>4, <1>5, <1>6 DEF Tick

-----------------------------------------------------------------------------
(* The order in which a tick empties the lists.                            *)

\* Posting fills the other queue.
LEMMA PostingKeepsOrder ==
    ASSUME TypeOK, DrainedInOrder, NEW t \in Threads, Lock(t) \/ Posting(t)
    PROVE  DrainedInOrder'
<1>1. tick' = tick /\ hand' = hand /\ Draining' = Draining
  BY DEF Lock, Posting, Alloc, Fill, Link, Unlock, Draining
<1>2. events'[Draining] = events[Draining] /\ packes'[Draining] = packes[Draining]
  <2>1. CASE Link(t)
    BY <2>1, TwoQueues DEF Link, TypeOK
  <2>2. QED  BY <2>1 DEF Lock, Posting, Alloc, Fill, Unlock
<1>3. arena'[Draining] = arena[Draining]
  BY TwoQueues DEF Lock, Posting, Alloc, Fill, Link, Unlock, TypeOK
<1>4. QED  BY <1>1, <1>2, <1>3 DEF DrainedInOrder

LEMMA TickKeepsOrder ==
    ASSUME TypeOK, DrainedInOrder, Tick
    PROVE  DrainedInOrder'
<1>1. CASE SwitchLock \/ SwitchUnlock
  BY <1>1 DEF SwitchLock, SwitchUnlock, TickIs, DrainedInOrder, Draining
<1>2. CASE Flip
  BY <1>2 DEF Flip, TickIs, DrainedInOrder
<1>3. CASE PopEvent
  BY <1>3 DEF PopEvent, TickIs, DrainedInOrder, Draining
<1>4. CASE PopPacket
  <2>1. tick = "packets" /\ tick' = tick /\ events' = events /\ Draining' = Draining
    BY <1>4 DEF PopPacket, TickIs, Draining
  <2>2. QED  BY <2>1 DEF DrainedInOrder
<1>5. CASE Handle
  BY <1>5 DEF Handle, DrainedInOrder, Draining
<1>6. CASE EventsDone \/ PacketsDone
  BY <1>6 DEF EventsDone, PacketsDone, TickIs, DrainedInOrder, Draining
<1>7. CASE Finalize
  <2>1. arena'[Draining] = 0
    BY <1>7, TwoQueues DEF Finalize, TypeOK
  <2>2. QED  BY <1>7, <2>1 DEF Finalize, TickIs, DrainedInOrder, Draining
<1>8. QED  BY <1>1, <1>2, <1>3, <1>4, <1>5, <1>6, <1>7 DEF Tick

-----------------------------------------------------------------------------
(* The slots.                                                              *)

\* The only fresh pointer is that of the thread in the critical section.
LEMMA FreshOne ==
    ASSUME NEW t \in Threads, \A u \in Threads \ {t} : at[u] = "idle"
    PROVE  Fresh = IF at[t] \in {"fill", "link"} THEN {ptr[t]} ELSE {}
BY DEF Fresh

LEMMA FreshNone ==
    ASSUME \A t \in Threads : at[t] = "idle"
    PROVE  Fresh = {}
BY DEF Fresh

\* What is linked is a pointer, and its slot is a number.
LEMMA LinkedTypes ==
    ASSUME TypeOK, NEW q \in Queues, NEW p \in Linked(q)
    PROVE  p \in Pointer /\ p.slot \in Nat
<1>1. /\ events[q] \in Seq(Pointer) /\ packes[q] \in Seq(Pointer)
  BY DEF TypeOK
<1>2. PICK i \in DOMAIN events[q] \cup DOMAIN packes[q] :
        \/ i \in DOMAIN events[q] /\ p = events[q][i]
        \/ i \in DOMAIN packes[q] /\ p = packes[q][i]
  BY DEF Linked, ToSet
<1>3. p \in Pointer
  BY <1>1, <1>2, LenProperties, ElementOfSeq
<1>4. QED  BY <1>3 DEF Pointer, Slots

\* Lists, arenas and pointers as they were: so is who owns the slots.
LEMMA SameSlots ==
    ASSUME EntriesOwnTheirSlots, Fresh' \subseteq Fresh,
           UNCHANGED <<m_current_queue, arena, events, packes, hand>>
    PROVE  EntriesOwnTheirSlots'
<1>1. /\ Filling' = Filling /\ Draining' = Draining /\ InHand' = InHand
      /\ \A q : Linked(q)' = Linked(q)
  BY DEF Filling, Draining, InHand, Linked
<1>2. /\ OwnSlots(Filling, Linked(Filling) \cup Fresh)'
      /\ OwnSlots(Draining, Linked(Draining) \cup InHand)'
  BY <1>1 DEF EntriesOwnTheirSlots, OwnSlots
<1>3. ((Fresh \cup InHand) \cap (Linked(Filling) \cup Linked(Draining)) = {})'
  BY <1>1 DEF EntriesOwnTheirSlots
<1>4. QED  BY <1>2, <1>3 DEF EntriesOwnTheirSlots

LEMMA AllocSlots ==
    ASSUME TypeOK, MutexIsHeld, EntriesOwnTheirSlots, NEW t \in Threads, Alloc(t)
    PROVE  EntriesOwnTheirSlots'
<1> DEFINE new == [queue |-> Filling, slot |-> arena[Filling]]
<1>1. /\ Filling' = Filling /\ Draining' = Draining /\ InHand' = InHand
      /\ \A q : Linked(q)' = Linked(q)
  BY DEF Alloc, Filling, Draining, InHand, Linked
<1>2. \A u \in Threads \ {t} : at[u] = "idle"
  BY OnePoster DEF Alloc
<1>3. at'[t] = "fill" /\ ptr'[t] = new /\ \A u \in Threads \ {t} : at'[u] = "idle"
  BY <1>2 DEF Alloc, Goes, TypeOK
<1>4. Fresh' = {new}
  BY <1>3 DEF Fresh
<1>5. /\ Filling \in Queues /\ Draining \in Queues /\ Filling # Draining
      /\ arena[Filling] \in Nat /\ arena[Draining] \in Nat
      /\ arena'[Filling] = arena[Filling] + 1 /\ arena'[Draining] = arena[Draining]
  BY TwoQueues DEF Alloc, TypeOK
<1>6. /\ OwnSlots(Filling, Linked(Filling)) /\ OwnSlots(Draining, Linked(Draining) \cup InHand)
      /\ InHand \cap (Linked(Filling) \cup Linked(Draining)) = {}
  BY DEF EntriesOwnTheirSlots, OwnSlots
<1>7. \A p \in Linked(Filling) : p.slot \in Nat
  BY <1>5, LinkedTypes
<1>8. OwnSlots(Filling, Linked(Filling) \cup Fresh)'
  BY <1>1, <1>4, <1>5, <1>6, <1>7 DEF OwnSlots
<1>9. OwnSlots(Draining, Linked(Draining) \cup InHand)'
  BY <1>1, <1>5, <1>6 DEF OwnSlots
<1>10. new \notin Linked(Filling) /\ new \notin Linked(Draining)
  BY <1>5, <1>6 DEF OwnSlots
<1>11. ((Fresh \cup InHand) \cap (Linked(Filling) \cup Linked(Draining)) = {})'
  BY <1>1, <1>4, <1>6, <1>10
<1>12. QED  BY <1>8, <1>9, <1>11 DEF EntriesOwnTheirSlots, Alloc

LEMMA LinkSlots ==
    ASSUME TypeOK, MutexIsHeld, EntriesOwnTheirSlots, NEW t \in Threads, Link(t)
    PROVE  EntriesOwnTheirSlots'
<1>1. /\ Filling' = Filling /\ Draining' = Draining /\ InHand' = InHand /\ arena' = arena
  BY DEF Link, Filling, Draining, InHand
<1>2. /\ \A u \in Threads \ {t} : at[u] = "idle"
      /\ ptr[t] \in Pointer
  BY OnePoster DEF Link, MutexIsHeld
<1>3. Fresh = {ptr[t]}
  BY <1>2, FreshOne DEF Link
<1>4. Fresh' = {}
  BY <1>2 DEF Link, Goes, Fresh, TypeOK
<1>5. /\ Filling \in Queues /\ Draining \in Queues /\ Filling # Draining
      /\ events[Filling] \in Seq(Pointer) /\ packes[Filling] \in Seq(Pointer)
  BY TwoQueues DEF TypeOK
<1>6. /\ ptr[t] \notin ToSet(events[Filling]) /\ ptr[t] \notin ToSet(packes[Filling])
      /\ ptr[t] \notin Linked(Draining) /\ ptr[t] \notin InHand
  <2>1. ptr[t].queue = Filling
    BY <1>3 DEF EntriesOwnTheirSlots, OwnSlots
  <2>2. ptr[t] \notin Linked(Draining) \cup InHand
    BY <1>5, <2>1 DEF EntriesOwnTheirSlots, OwnSlots
  <2>3. QED  BY <1>3, <2>2 DEF EntriesOwnTheirSlots, Linked
<1>7. /\ events'[Draining] = events[Draining] /\ packes'[Draining] = packes[Draining]
      /\ \/ /\ events'[Filling] = Append(events[Filling], ptr[t])
            /\ packes'[Filling] = packes[Filling]
         \/ /\ events'[Filling] = events[Filling]
            /\ packes'[Filling] = Append(packes[Filling], ptr[t])
  BY <1>5 DEF Link, TypeOK
<1>8. /\ ToSet(Append(events[Filling], ptr[t])) = ToSet(events[Filling]) \cup {ptr[t]}
      /\ ToSet(Append(packes[Filling], ptr[t])) = ToSet(packes[Filling]) \cup {ptr[t]}
      /\ IsInjective(events[Filling]) => IsInjective(Append(events[Filling], ptr[t]))
      /\ IsInjective(packes[Filling]) => IsInjective(Append(packes[Filling], ptr[t]))
  BY <1>2, <1>5, <1>6, AppendPointer
<1>9. Linked(Filling)' = Linked(Filling) \cup Fresh /\ Linked(Draining)' = Linked(Draining)
  BY <1>1, <1>3, <1>7, <1>8 DEF Linked
<1>10. /\ OwnSlots(Filling, Linked(Filling) \cup Fresh)'
       /\ OwnSlots(Draining, Linked(Draining) \cup InHand)'
  BY <1>1, <1>4, <1>9 DEF EntriesOwnTheirSlots, OwnSlots
<1>11. ((Fresh \cup InHand) \cap (Linked(Filling) \cup Linked(Draining)) = {})'
  BY <1>1, <1>3, <1>4, <1>6, <1>9 DEF EntriesOwnTheirSlots
<1>12. /\ (ToSet(events[Filling]) \cap ToSet(packes[Filling]) = {})'
       /\ IsInjective(events'[Filling]) /\ IsInjective(packes'[Filling])
  BY <1>1, <1>5, <1>6, <1>7, <1>8 DEF EntriesOwnTheirSlots
<1>13. \A q \in Queues :
         /\ ToSet(events'[q]) \cap ToSet(packes'[q]) = {}
         /\ IsInjective(events'[q]) /\ IsInjective(packes'[q])
  <2>1. TAKE q \in Queues
  <2>2. CASE q = Filling
    BY <1>1, <1>12, <2>2
  <2>3. CASE q = Draining
    BY <1>7, <2>3 DEF EntriesOwnTheirSlots
  <2>4. QED  BY <2>2, <2>3, TwoQueues DEF TypeOK
<1>14. QED  BY <1>10, <1>11, <1>13 DEF EntriesOwnTheirSlots

\* The flip: nobody posts, and the lists that will be filled are empty.
LEMMA FlipSlots ==
    ASSUME TypeOK, MutexIsHeld, EntriesOwnTheirSlots, DrainedInOrder, Flip
    PROVE  EntriesOwnTheirSlots'
<1>1. Filling' = Draining /\ Draining' = Filling
  BY DEF Flip, Filling, Draining, TypeOK, Queues
<1>2. /\ arena' = arena /\ events' = events /\ packes' = packes
      /\ Fresh' = Fresh /\ InHand' = InHand
  BY DEF Flip, Fresh, InHand
<1>3. Fresh = {}
  BY NobodyPosts, FreshNone DEF Flip, TickIs
<1>4. InHand = {}
  BY DEF Flip, TickIs, InHand
<1>5. Linked(Draining) = {}
  BY EmptyList DEF Flip, TickIs, DrainedInOrder, Linked
<1>6. Linked(Filling)' = {} /\ Linked(Draining)' = Linked(Filling)
  BY <1>1, <1>2, <1>5 DEF Linked
<1>7. /\ OwnSlots(Filling, Linked(Filling) \cup Fresh)'
      /\ OwnSlots(Draining, Linked(Draining) \cup InHand)'
  BY <1>1, <1>2, <1>3, <1>4, <1>6 DEF EntriesOwnTheirSlots, OwnSlots
<1>8. QED
  BY <1>2, <1>3, <1>4, <1>7 DEF EntriesOwnTheirSlots

LEMMA PopSlots ==
    ASSUME TypeOK, EntriesOwnTheirSlots, PopEvent \/ PopPacket
    PROVE  EntriesOwnTheirSlots'
<1>1. /\ Filling' = Filling /\ Draining' = Draining /\ arena' = arena
      /\ Fresh' = Fresh /\ InHand = {}
  BY DEF PopEvent, PopPacket, TickIs, Filling, Draining, Fresh, InHand
<1>2. /\ Filling \in Queues /\ Draining \in Queues /\ Filling # Draining
      /\ events[Draining] \in Seq(Pointer) /\ packes[Draining] \in Seq(Pointer)
  BY TwoQueues DEF TypeOK
<1>3. events'[Filling] = events[Filling] /\ packes'[Filling] = packes[Filling]
  BY <1>2 DEF PopEvent, PopPacket, TypeOK
<1>4. /\ InHand' = {hand'} /\ hand' \in Linked(Draining)
      /\ Linked(Draining)' = Linked(Draining) \ {hand'}
      /\ ToSet(events'[Draining]) \subseteq ToSet(events[Draining])
      /\ ToSet(packes'[Draining]) \subseteq ToSet(packes[Draining])
      /\ IsInjective(events'[Draining]) /\ IsInjective(packes'[Draining])
  <2>1. CASE PopEvent
    <3>1. events[Draining] # <<>> /\ hand' = Last(events[Draining])
      BY <2>1 DEF PopEvent
    <3>2. /\ hand' \in Pointer
          /\ ToSet(events[Draining]) = ToSet(Front(events[Draining])) \cup {hand'}
          /\ IsInjective(Front(events[Draining]))
          /\ hand' \notin ToSet(Front(events[Draining]))
      BY <1>2, <3>1, PopPointer DEF EntriesOwnTheirSlots
    <3>3. events'[Draining] = Front(events[Draining]) /\ packes' = packes
      BY <1>2, <2>1 DEF PopEvent, TypeOK
    <3>4. hand' \notin ToSet(packes[Draining])
      BY <1>2, <3>2 DEF EntriesOwnTheirSlots
    <3>5. Linked(Draining)' = ToSet(Front(events[Draining])) \cup ToSet(packes[Draining])
      BY <1>1, <3>3 DEF Linked
    <3>6. InHand' = {hand'}
      BY <3>2, NullAssumption DEF InHand
    <3>7. QED
      BY <1>2, <3>2, <3>3, <3>4, <3>5, <3>6 DEF Linked, EntriesOwnTheirSlots
  <2>2. CASE PopPacket
    <3>1. packes[Draining] # <<>> /\ hand' = Last(packes[Draining])
      BY <2>2 DEF PopPacket
    <3>2. /\ hand' \in Pointer
          /\ ToSet(packes[Draining]) = ToSet(Front(packes[Draining])) \cup {hand'}
          /\ IsInjective(Front(packes[Draining]))
          /\ hand' \notin ToSet(Front(packes[Draining]))
      BY <1>2, <3>1, PopPointer DEF EntriesOwnTheirSlots
    <3>3. packes'[Draining] = Front(packes[Draining]) /\ events' = events
      BY <1>2, <2>2 DEF PopPacket, TypeOK
    <3>4. hand' \notin ToSet(events[Draining])
      BY <1>2, <3>2 DEF EntriesOwnTheirSlots
    <3>5. Linked(Draining)' = ToSet(events[Draining]) \cup ToSet(Front(packes[Draining]))
      BY <1>1, <3>3 DEF Linked
    <3>6. InHand' = {hand'}
      BY <3>2, NullAssumption DEF InHand
    <3>7. QED
      BY <1>2, <3>2, <3>3, <3>4, <3>5, <3>6 DEF Linked, EntriesOwnTheirSlots
  <2>3. QED  BY <2>1, <2>2
<1>5. Linked(Filling)' = Linked(Filling)
  BY <1>1, <1>3 DEF Linked
<1>6. /\ OwnSlots(Filling, Linked(Filling) \cup Fresh)'
      /\ OwnSlots(Draining, Linked(Draining) \cup InHand)'
  BY <1>1, <1>4, <1>5 DEF EntriesOwnTheirSlots, OwnSlots
<1>7. hand' \notin Linked(Filling)
  BY <1>2, <1>4 DEF EntriesOwnTheirSlots, OwnSlots
<1>8. ((Fresh \cup InHand) \cap (Linked(Filling) \cup Linked(Draining)) = {})'
  BY <1>1, <1>4, <1>5, <1>7 DEF EntriesOwnTheirSlots
<1>9. \A q \in Queues :
        /\ ToSet(events'[q]) \cap ToSet(packes'[q]) = {}
        /\ IsInjective(events'[q]) /\ IsInjective(packes'[q])
  <2>1. TAKE q \in Queues
  <2>2. CASE q = Filling
    BY <1>3, <2>2 DEF EntriesOwnTheirSlots
  <2>3. CASE q = Draining
    BY <1>4, <2>3 DEF EntriesOwnTheirSlots
  <2>4. QED  BY <2>2, <2>3, TwoQueues DEF TypeOK
<1>10. QED  BY <1>6, <1>8, <1>9 DEF EntriesOwnTheirSlots

LEMMA HandleSlots ==
    ASSUME TypeOK, EntriesOwnTheirSlots, Handle
    PROVE  EntriesOwnTheirSlots'
<1>1. /\ Filling' = Filling /\ Draining' = Draining /\ arena' = arena /\ Fresh' = Fresh
      /\ events' = events /\ packes' = packes /\ InHand' = {}
      /\ \A q : Linked(q)' = Linked(q)
  BY DEF Handle, Filling, Draining, Fresh, InHand, Linked
<1>2. QED  BY <1>1 DEF EntriesOwnTheirSlots, OwnSlots

\* arena_reset: nothing of the drained queue is linked or in hand.
LEMMA FinalizeSlots ==
    ASSUME TypeOK, EntriesOwnTheirSlots, DrainedInOrder, Finalize
    PROVE  EntriesOwnTheirSlots'
<1>1. /\ Filling' = Filling /\ Draining' = Draining /\ Fresh' = Fresh
      /\ events' = events /\ packes' = packes /\ InHand' = {} /\ InHand = {}
      /\ \A q : Linked(q)' = Linked(q)
  BY DEF Finalize, TickIs, Filling, Draining, Fresh, InHand, Linked
<1>2. arena'[Filling] = arena[Filling]
  BY TwoQueues DEF Finalize, TypeOK
<1>3. Linked(Draining) = {}
  BY EmptyList DEF Finalize, TickIs, DrainedInOrder, Linked
<1>4. QED  BY <1>1, <1>2, <1>3 DEF EntriesOwnTheirSlots, OwnSlots

LEMMA PostingKeepsSlots ==
    ASSUME TypeOK, MutexIsHeld, EntriesOwnTheirSlots, NEW t \in Threads,
           Lock(t) \/ Posting(t)
    PROVE  EntriesOwnTheirSlots'
<1>1. CASE Lock(t) \/ Fill(t) \/ Unlock(t)
  <2>1. Fresh' \subseteq Fresh
    BY <1>1 DEF Lock, Fill, Unlock, Goes, Fresh, TypeOK
  <2>2. QED  BY <1>1, <2>1, SameSlots DEF Lock, Fill, Unlock
<1>2. QED  BY <1>1, AllocSlots, LinkSlots DEF Posting

LEMMA TickKeepsSlots ==
    ASSUME TypeOK, MutexIsHeld, EntriesOwnTheirSlots, DrainedInOrder, Tick
    PROVE  EntriesOwnTheirSlots'
<1>1. CASE SwitchLock \/ SwitchUnlock \/ EventsDone \/ PacketsDone
  <2>1. Fresh' = Fresh
    BY <1>1 DEF SwitchLock, SwitchUnlock, EventsDone, PacketsDone, Fresh
  <2>2. QED
    BY <1>1, <2>1, SameSlots DEF SwitchLock, SwitchUnlock, EventsDone, PacketsDone
<1>2. QED  BY <1>1, FlipSlots, PopSlots, HandleSlots, FinalizeSlots DEF Tick

-----------------------------------------------------------------------------
(* The contents.                                                           *)

LEMMA AppendToSet ==
    ASSUME NEW S, NEW q \in Seq(S), NEW e \in S
    PROVE  ToSet(Append(q, e)) = ToSet(q) \cup {e}
<1> DEFINE r == Append(q, e)
<1>1. Len(q) \in Nat /\ DOMAIN q = 1 .. Len(q)
  BY LenProperties
<1>2. /\ r \in Seq(S) /\ Len(r) = Len(q) + 1
      /\ \A i \in 1 .. Len(q) : r[i] = q[i]
      /\ r[Len(q) + 1] = e
  BY AppendProperties
<1>3. DOMAIN r = 1 .. Len(q) + 1
  BY <1>2, LenProperties
<1> HIDE DEF r
<1>4. ToSet(r) = ToSet(q) \cup {e}
  BY <1>1, <1>2, <1>3 DEF ToSet
<1>5. QED  BY <1>4 DEF r

\* Waiting pointers are pointers, and none of them is fresh.
LEMMA WaitingTypes ==
    ASSUME TypeOK, EntriesOwnTheirSlots
    PROVE  Waiting \subseteq Pointer /\ Waiting \cap Fresh = {}
<1>1. Waiting \subseteq Pointer
  BY TwoQueues, LinkedTypes DEF Waiting, InHand, TypeOK
<1>2. InHand \cap Fresh = {}
  BY TwoQueues DEF EntriesOwnTheirSlots, OwnSlots, TypeOK
<1>3. QED  BY <1>1, <1>2 DEF Waiting, EntriesOwnTheirSlots

\* Linking makes one more pointer wait, in the queue that is filled.
LEMMA LinkAddsOne ==
    ASSUME TypeOK, MutexIsHeld, NEW t \in Threads, Link(t)
    PROVE  /\ Linked(Filling)' = Linked(Filling) \cup {ptr[t]}
           /\ Linked(Draining)' = Linked(Draining) /\ InHand' = InHand
           /\ Waiting' = Waiting \cup {ptr[t]}
<1>1. Filling' = Filling /\ Draining' = Draining /\ InHand' = InHand
  BY DEF Link, Filling, Draining, InHand
<1>2. /\ ptr[t] \in Pointer
      /\ Filling \in Queues /\ Draining \in Queues /\ Filling # Draining
      /\ events[Filling] \in Seq(Pointer) /\ packes[Filling] \in Seq(Pointer)
  BY TwoQueues DEF Link, MutexIsHeld, TypeOK
<1>3. /\ events'[Draining] = events[Draining] /\ packes'[Draining] = packes[Draining]
      /\ \/ /\ events'[Filling] = Append(events[Filling], ptr[t])
            /\ packes'[Filling] = packes[Filling]
         \/ /\ events'[Filling] = events[Filling]
            /\ packes'[Filling] = Append(packes[Filling], ptr[t])
  BY <1>2 DEF Link, TypeOK
<1>4. /\ ToSet(Append(events[Filling], ptr[t])) = ToSet(events[Filling]) \cup {ptr[t]}
      /\ ToSet(Append(packes[Filling], ptr[t])) = ToSet(packes[Filling]) \cup {ptr[t]}
  BY <1>2, AppendPointer
<1>5. Linked(Filling)' = Linked(Filling) \cup {ptr[t]} /\ Linked(Draining)' = Linked(Draining)
  BY <1>1, <1>3, <1>4 DEF Linked
<1>6. QED  BY <1>1, <1>5 DEF Waiting

\* Reading the popped entry takes it out of those that wait.
LEMMA HandleTakesOne ==
    ASSUME EntriesOwnTheirSlots, Handle
    PROVE  /\ hand \in Waiting /\ Waiting' = Waiting \ {hand}
           /\ InHand = {hand} /\ InHand' = {}
           /\ Linked(Filling)' = Linked(Filling) /\ Linked(Draining)' = Linked(Draining)
<1>1. /\ InHand = {hand} /\ InHand' = {}
      /\ Linked(Filling)' = Linked(Filling) /\ Linked(Draining)' = Linked(Draining)
  BY DEF Handle, InHand, Linked, Filling, Draining
<1>2. hand \notin Linked(Filling) \cup Linked(Draining)
  BY <1>1 DEF EntriesOwnTheirSlots
<1>3. QED  BY <1>1, <1>2 DEF Waiting

\* A pop moves a pointer from a list into the backend's hand.
LEMMA PopMovesOne ==
    ASSUME TypeOK, EntriesOwnTheirSlots, PopEvent \/ PopPacket
    PROVE  /\ Linked(Filling)' = Linked(Filling)
           /\ (Linked(Draining) \cup InHand)' = Linked(Draining) \cup InHand
<1>1. Filling' = Filling /\ Draining' = Draining /\ InHand = {}
  BY DEF PopEvent, PopPacket, TickIs, Filling, Draining, InHand
<1>2. /\ Filling \in Queues /\ Draining \in Queues /\ Filling # Draining
      /\ events[Draining] \in Seq(Pointer) /\ packes[Draining] \in Seq(Pointer)
  BY TwoQueues DEF TypeOK
<1>3. Linked(Filling)' = Linked(Filling)
  BY <1>1, <1>2 DEF PopEvent, PopPacket, Linked, TypeOK
<1>4. CASE PopEvent
  <2>1. /\ hand' \in Pointer
        /\ ToSet(events[Draining]) = ToSet(Front(events[Draining])) \cup {hand'}
    BY <1>2, <1>4, PopPointer DEF PopEvent
  <2>2. events'[Draining] = Front(events[Draining]) /\ packes' = packes
    BY <1>2, <1>4 DEF PopEvent, TypeOK
  <2>3. InHand' = {hand'}
    BY <2>1, NullAssumption DEF InHand
  <2>4. QED  BY <1>1, <1>3, <2>1, <2>2, <2>3 DEF Linked
<1>5. CASE PopPacket
  <2>1. /\ hand' \in Pointer
        /\ ToSet(packes[Draining]) = ToSet(Front(packes[Draining])) \cup {hand'}
    BY <1>2, <1>5, PopPointer DEF PopPacket
  <2>2. packes'[Draining] = Front(packes[Draining]) /\ events' = events
    BY <1>2, <1>5 DEF PopPacket, TypeOK
  <2>3. InHand' = {hand'}
    BY <2>1, NullAssumption DEF InHand
  <2>4. QED  BY <1>1, <1>3, <2>1, <2>2, <2>3 DEF Linked
<1>6. QED  BY <1>4, <1>5

\* No other step of the tick changes what waits.
LEMMA TickKeepsWaiting ==
    ASSUME TypeOK, EntriesOwnTheirSlots, Tick, ~Handle
    PROVE  Waiting' = Waiting /\ handled' = handled
<1>1. CASE Flip
  <2>1. Filling' = Draining /\ Draining' = Filling
    BY <1>1 DEF Flip, Filling, Draining, TypeOK, Queues
  <2>2. QED  BY <1>1, <2>1 DEF Flip, Waiting, Linked, InHand
<1>2. CASE PopEvent \/ PopPacket
  BY <1>2, PopMovesOne DEF PopEvent, PopPacket, Waiting
<1>3. CASE SwitchLock \/ SwitchUnlock \/ EventsDone \/ PacketsDone \/ Finalize
  BY <1>3 DEF SwitchLock, SwitchUnlock, EventsDone, PacketsDone, Finalize, Waiting, Linked,
              InHand, Filling, Draining
<1>4. QED  BY <1>1, <1>2, <1>3 DEF Tick

LEMMA PostingKeepsContents ==
    ASSUME TypeOK, MutexIsHeld, EntriesOwnTheirSlots, ContentsAreKept, NEW t \in Threads,
           Lock(t) \/ Posting(t)
    PROVE  ContentsAreKept'
<1>1. CASE Lock(t) \/ Alloc(t) \/ Unlock(t)
  <2>1. Waiting' = Waiting /\ data' = data /\ posted' = posted /\ handled' = handled
    BY <1>1 DEF Lock, Alloc, Unlock, Waiting, Linked, InHand, Filling, Draining
  <2>2. \A u \in Threads : at'[u] \in {"alloc", "fill", "link"} => msg'[u] \notin ToSet(posted)
    BY <1>1 DEF Lock, Alloc, Unlock, Goes, MayPost, TypeOK, ContentsAreKept
  <2>3. \A u \in Threads : at'[u] = "link" => data[ptr'[u]] = msg'[u]
    BY <1>1 DEF Lock, Alloc, Unlock, Goes, TypeOK, ContentsAreKept
  <2>4. QED  BY <2>1, <2>2, <2>3 DEF ContentsAreKept
<1>2. CASE Fill(t)
  <2>1. Waiting' = Waiting /\ posted' = posted /\ handled' = handled
    BY <1>2 DEF Fill, Waiting, Linked, InHand, Filling, Draining
  <2>2. ptr[t] \in Pointer /\ ptr[t] \in Fresh
    BY <1>2 DEF Fill, MutexIsHeld, Fresh
  <2>3. \A p \in Waiting : data'[p] = data[p]
    BY <1>2, <2>2, WaitingTypes DEF Fill, TypeOK
  <2>4. data'[ptr[t]] = msg[t] /\ ptr' = ptr /\ msg' = msg
    BY <1>2, <2>2 DEF Fill, TypeOK
  <2>5. \A u \in Threads \ {t} : at[u] = "idle"
    BY <1>2, OnePoster DEF Fill
  <2>6. at' = [at EXCEPT ![t] = "link"] /\ at[t] = "fill"
    BY <1>2 DEF Fill, Goes
  <2>7. \A u \in Threads :
          /\ at'[u] \in {"alloc", "fill", "link"} => msg'[u] \notin ToSet(posted)
          /\ at'[u] = "link" => data'[ptr'[u]] = msg'[u]
    BY <2>4, <2>5, <2>6 DEF TypeOK, ContentsAreKept
  <2>8. QED  BY <2>1, <2>3, <2>7 DEF ContentsAreKept
<1>3. CASE Link(t)
  <2>1. /\ data' = data /\ handled' = handled /\ msg' = msg /\ ptr' = ptr
        /\ Waiting' = Waiting \cup {ptr[t]}
    BY <1>3, LinkAddsOne DEF Link
  <2>2. /\ msg[t] \in Entries /\ msg[t] \notin ToSet(posted) /\ data[ptr[t]] = msg[t]
    BY <1>3 DEF Link, MutexIsHeld, ContentsAreKept
  <2>3. ToSet(posted') = ToSet(posted) \cup {msg[t]}
    BY <1>3, <2>2, AppendToSet DEF Link, TypeOK
  <2>4. \A u \in Threads : at'[u] \notin {"alloc", "fill", "link"}
    BY <1>3, OnePoster DEF Link, Goes, TypeOK
  <2>5. \A p \in Waiting' : data'[p] \in ToSet(posted') \ ToSet(handled')
    BY <2>1, <2>2, <2>3 DEF ContentsAreKept
  <2>6. \A p, r \in Waiting' : data'[p] = data'[r] => p = r
    BY <2>1, <2>2 DEF ContentsAreKept
  <2>7. QED  BY <2>1, <2>3, <2>4, <2>5, <2>6 DEF ContentsAreKept
<1>4. QED  BY <1>1, <1>2, <1>3 DEF Posting

LEMMA TickKeepsContents ==
    ASSUME TypeOK, EntriesOwnTheirSlots, ContentsAreKept, Tick
    PROVE  ContentsAreKept'
<1>1. at' = at /\ msg' = msg /\ ptr' = ptr /\ data' = data /\ posted' = posted
  BY DEF Tick, SwitchLock, Flip, SwitchUnlock, PopEvent, EventsDone, PopPacket, PacketsDone,
         Handle, Finalize
<1>2. CASE Handle
  <2>1. hand \in Waiting /\ Waiting' = Waiting \ {hand}
    BY <1>2, HandleTakesOne
  <2>2. ToSet(handled') = ToSet(handled) \cup {data[hand]}
    BY <1>2, AppendToSet DEF Handle, TypeOK
  <2>3. QED  BY <1>1, <2>1, <2>2 DEF ContentsAreKept
<1>3. CASE ~Handle
  <2>1. Waiting' = Waiting /\ handled' = handled
    BY <1>3, TickKeepsWaiting
  <2>2. QED  BY <1>1, <2>1 DEF ContentsAreKept
<1>4. QED  BY <1>2, <1>3

-----------------------------------------------------------------------------
(* The theorems.                                                           *)

LEMMA InitIInv == Init => IInv
<1> SUFFICES ASSUME Init PROVE IInv
  OBVIOUS
<1>1. TypeOK
  BY EmptySeq DEF Init, TypeOK, Queues
<1>2. MutexIsHeld
  BY QueuesAssumption DEF Init, MutexIsHeld
<1>3. DrainedInOrder
  BY TwoQueues, <1>1 DEF Init, DrainedInOrder, TypeOK
<1>4. EntriesOwnTheirSlots
  <2>1. /\ Fresh = {} /\ InHand = {}
        /\ \A q \in Queues : events[q] = <<>> /\ packes[q] = <<>> /\ Linked(q) = {}
    BY FreshNone, EmptyList DEF Init, InHand, Linked
  <2>2. Linked(Filling) = {} /\ Linked(Draining) = {}
    BY <1>1, <2>1, TwoQueues DEF TypeOK
  <2>3. \A q \in Queues :
          /\ ToSet(events[q]) \cap ToSet(packes[q]) = {}
          /\ IsInjective(events[q]) /\ IsInjective(packes[q])
    BY <2>1, EmptyList, EmptySeq DEF IsInjective
  <2>4. QED  BY <2>1, <2>2, <2>3 DEF EntriesOwnTheirSlots, OwnSlots
<1>5. ContentsAreKept
  <2>1. Waiting = {}
    BY <1>1, TwoQueues, EmptyList DEF Init, Waiting, Linked, InHand, TypeOK
  <2>2. ToSet(handled) = {}
    BY EmptyList DEF Init
  <2>3. QED  BY <2>1, <2>2 DEF Init, ContentsAreKept
<1>6. QED  BY <1>1, <1>2, <1>3, <1>4, <1>5 DEF IInv

LEMMA StutterIInv ==
    ASSUME IInv, UNCHANGED vars
    PROVE  IInv'
BY DEF vars, IInv, TypeOK, MutexIsHeld, EntriesOwnTheirSlots, DrainedInOrder,
       ContentsAreKept, Waiting, OwnSlots, Linked, Fresh, InHand, Filling, Draining

\* The invariant behind the use of the two arenas holds in every reachable
\* state, for any threads, events and packets.
THEOREM QueuesCorrect == Spec => []IInv
<1>1. ASSUME IInv, [Next]_vars PROVE IInv'
  <2>1. TypeOK /\ MutexIsHeld /\ EntriesOwnTheirSlots /\ DrainedInOrder
        /\ ContentsAreKept
    BY <1>1 DEF IInv
  <2>2. ASSUME NEW t \in Threads, Lock(t) \/ Posting(t) PROVE IInv'
    BY <2>1, <2>2, PostingTypes, PostingKeepsMutex, PostingKeepsSlots, PostingKeepsOrder,
       PostingKeepsContents DEF IInv
  <2>3. CASE Tick
    BY <2>1, <2>3, TickTypes, TickKeepsMutex, TickKeepsSlots, TickKeepsOrder,
       TickKeepsContents DEF IInv
  <2>4. QED  BY <1>1, <2>2, <2>3, StutterIInv DEF Next
<1>2. QED  BY <1>1, InitIInv, PTL DEF Spec

\* backend.c resets an arena in bulk and reads entries without the mutex: no
\* slot is handed out again while its entry is linked, popped or being filled.
THEOREM SlotsAreOwned == Spec => []EntriesOwnTheirSlots
<1>1. IInv => EntriesOwnTheirSlots
  BY DEF IInv
<1>2. QED  BY <1>1, QueuesCorrect, PTL

\* global_queues_switch always gives the threads empty lists and an arena that
\* was reset.
THEOREM FlipsAreClean == Spec => []FlipIsClean
<1>1. IInv => FlipIsClean
  BY EmptyList DEF IInv, DrainedInOrder, FlipIsClean, Linked
<1>2. QED  BY <1>1, QueuesCorrect, PTL

-----------------------------------------------------------------------------
(* The queues implement the mailbox of a tick.                             *)

\* What the mailbox is made of, and what it takes to leave it as it is.
LEMMA MailboxStays ==
    ASSUME Linked(Filling)' = Linked(Filling),
           (Linked(Draining) \cup InHand)' = Linked(Draining) \cup InHand,
           \A p \in Waiting : data'[p] = data[p],
           handled' = handled
    PROVE  UNCHANGED Mailbox!vars
<1>1. Content(Linked(Filling))' = Content(Linked(Filling))
  BY DEF Content, Waiting
<1>2. Content(Linked(Draining) \cup InHand)' = Content(Linked(Draining) \cup InHand)
  BY DEF Content, Waiting
<1>3. QED  BY <1>1, <1>2 DEF Mailbox!vars

LEMMA MailboxInit == Init => Mailbox!Init
<1> SUFFICES ASSUME Init PROVE Mailbox!Init
  OBVIOUS
<1>1. m_current_queue \in Queues
  BY DEF Init, Queues
<1>2. Linked(Filling) = {} /\ Linked(Draining) \cup InHand = {} /\ ToSet(handled) = {}
  BY <1>1, TwoQueues, EmptyList DEF Init, Linked, InHand
<1>3. QED  BY <1>2 DEF Mailbox!Init, Content

LEMMA PostingIsPost ==
    ASSUME IInv, NEW t \in Threads, Lock(t) \/ Posting(t)
    PROVE  [Mailbox!Next]_(Mailbox!vars)
<1> USE DEF IInv
<1>1. CASE Lock(t) \/ Alloc(t) \/ Unlock(t)
  BY <1>1, MailboxStays DEF Lock, Alloc, Unlock, Linked, InHand, Filling, Draining
<1>2. CASE Fill(t)
  <2>1. ptr[t] \in Fresh
    BY <1>2 DEF Fill, Fresh
  <2>2. \A p \in Waiting : data'[p] = data[p]
    BY <1>2, <2>1, WaitingTypes DEF Fill, TypeOK
  <2>3. QED
    BY <1>2, <2>2, MailboxStays DEF Fill, Linked, InHand, Filling, Draining
<1>3. CASE Link(t)
  <2>1. /\ data' = data /\ handled' = handled
        /\ Linked(Filling)' = Linked(Filling) \cup {ptr[t]}
        /\ Linked(Draining)' = Linked(Draining) /\ InHand' = InHand
    BY <1>3, LinkAddsOne DEF Link
  <2>2. /\ msg[t] \in Entries /\ msg[t] \notin ToSet(posted) /\ data[ptr[t]] = msg[t]
    BY <1>3 DEF Link, MutexIsHeld, ContentsAreKept
  <2>3. Content(Linked(Filling))' = Content(Linked(Filling)) \cup {msg[t]}
    BY <2>1, <2>2 DEF Content
  <2>4. Content(Linked(Draining) \cup InHand)' = Content(Linked(Draining) \cup InHand)
    BY <2>1 DEF Content
  <2>5. msg[t] \notin Content(Linked(Filling)) \cup Content(Linked(Draining) \cup InHand)
                        \cup ToSet(handled)
    BY <2>2 DEF Content, ContentsAreKept, Waiting
  <2>6. Mailbox!Post(msg[t])
    BY <2>1, <2>3, <2>4, <2>5 DEF Mailbox!Post
  <2>7. QED  BY <2>2, <2>6 DEF Mailbox!Next
<1>4. QED  BY <1>1, <1>2, <1>3 DEF Posting

LEMMA TickIsTurnOrDeliver ==
    ASSUME IInv, Tick
    PROVE  [Mailbox!Next]_(Mailbox!vars)
<1> USE DEF IInv
<1>1. CASE Handle
  <2>1. /\ data' = data /\ InHand = {hand} /\ InHand' = {} /\ hand \in Waiting
        /\ Linked(Filling)' = Linked(Filling) /\ Linked(Draining)' = Linked(Draining)
    BY <1>1, HandleTakesOne DEF Handle
  <2>2. hand \notin Linked(Draining)
    BY <2>1 DEF EntriesOwnTheirSlots
  <2>3. \A p \in Linked(Draining) : data[p] # data[hand]
    BY <2>1, <2>2 DEF ContentsAreKept, Waiting
  <2>4. /\ data[hand] \in Content(Linked(Draining) \cup InHand)
        /\ Content(Linked(Draining) \cup InHand)'
             = Content(Linked(Draining) \cup InHand) \ {data[hand]}
        /\ Content(Linked(Filling))' = Content(Linked(Filling))
    BY <2>1, <2>3 DEF Content
  <2>5. data[hand] \in ToSet(posted)
    BY <2>1 DEF ContentsAreKept
  <2>6. data[hand] \in Entries
    BY <2>5, LenProperties, ElementOfSeq DEF ToSet, TypeOK
  <2>7. ToSet(handled') = ToSet(handled) \cup {data[hand]}
    <3>1. handled \in Seq(Entries \cup {None}) /\ data[hand] \in Entries \cup {None}
      BY <2>6 DEF TypeOK
    <3>2. ToSet(Append(handled, data[hand])) = ToSet(handled) \cup {data[hand]}
      BY <3>1, AppendToSet
    <3>3. handled' = Append(handled, data[hand])
      BY <1>1 DEF Handle
    <3>4. QED  BY <3>2, <3>3
  <2>8. Mailbox!Deliver(data[hand])
    BY <2>4, <2>7 DEF Mailbox!Deliver
  <2>9. QED  BY <2>6, <2>8 DEF Mailbox!Next
<1>2. CASE Flip
  <2>1. Filling' = Draining /\ Draining' = Filling
    BY <1>2 DEF Flip, Filling, Draining, TypeOK, Queues
  <2>2. Linked(Draining) = {} /\ InHand = {}
    BY <1>2, EmptyList DEF Flip, TickIs, DrainedInOrder, Linked, InHand
  <2>3. /\ Linked(Filling)' = {} /\ Linked(Draining)' = Linked(Filling) /\ InHand' = {}
        /\ data' = data /\ handled' = handled
    BY <1>2, <2>1, <2>2 DEF Flip, Linked, InHand
  <2>4. Mailbox!Turn
    BY <2>2, <2>3 DEF Mailbox!Turn, Content
  <2>5. QED  BY <2>4 DEF Mailbox!Next
<1>3. CASE PopEvent \/ PopPacket
  BY <1>3, PopMovesOne, MailboxStays DEF PopEvent, PopPacket
<1>4. CASE SwitchLock \/ SwitchUnlock \/ EventsDone \/ PacketsDone \/ Finalize
  BY <1>4, MailboxStays DEF SwitchLock, SwitchUnlock, EventsDone, PacketsDone, Finalize,
                            Linked, InHand, Filling, Draining
<1>5. QED  BY <1>1, <1>2, <1>3, <1>4 DEF Tick

\* Whatever the threads do, an entry is delivered exactly once, in the tick
\* after the one it was posted in.
THEOREM QueuesDeliver == Spec => DeliversEachTick
<1>1. IInv /\ [Next]_vars => [Mailbox!Next]_(Mailbox!vars)
  <2>1. SUFFICES ASSUME IInv, [Next]_vars PROVE [Mailbox!Next]_(Mailbox!vars)
    OBVIOUS
  <2>2. CASE UNCHANGED vars
    BY <2>2, MailboxStays DEF vars, Linked, InHand, Filling, Draining
  <2>3. QED  BY <2>1, <2>2, PostingIsPost, TickIsTurnOrDeliver DEF Next
<1>2. QED
  BY <1>1, MailboxInit, QueuesCorrect, PTL DEF Spec, DeliversEachTick, Mailbox!Spec

=============================================================================
