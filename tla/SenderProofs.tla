--------------------------- MODULE SenderProofs ---------------------------
(***************************************************************************)
(* What the sender promises, for a ring of any size and any number of      *)
(* connections, packets and refused submissions.                           *)
(*                                                                         *)
(* Two threads publish and submit the same ring and only one of them holds *)
(* the mutex, so ktail may even go back.  What keeps the packets in order  *)
(* is that the kernel takes entries from khead on, and that an entry it    *)
(* may take too many still shows the packet it was used for before         *)
(* (SlotsAreCurrent): it is torn, never a packet out of its turn.          *)
(***************************************************************************)
EXTENDS Sender, Remainders, FiniteSetTheorems, SequenceTheorems, TLAPS

-----------------------------------------------------------------------------
(* Slots of the ring.                                                      *)

LEMMA SlotBound == \A i \in Nat : Slot(i) \in 0 .. Entries - 1
  BY SenderAssumption DEF Slot

\* The entries of one round have slots of their own.
LEMMA SlotsDiffer ==
    ASSUME NEW i \in Nat, NEW j \in Nat, i < j, j < i + Entries
    PROVE  Slot(i) # Slot(j)
<1>1. Entries \in Nat \ {0}
  BY SenderAssumption
<1>2. QED  BY <1>1, RoundDiffers DEF Slot

\* The next round uses the same slots.
LEMMA SlotsRepeat ==
    ASSUME NEW i \in Nat
    PROVE  Slot(i + Entries) = Slot(i)
<1>1. Entries \in Nat \ {0}
  BY SenderAssumption
<1>2. QED  BY <1>1, RoundRepeats DEF Slot

-----------------------------------------------------------------------------
(* What the kernel takes.                                                  *)

\* How many entries a system call covers.
Asked(t) == IF Difference(ktail, khead) < seen[t] THEN Difference(ktail, khead) ELSE seen[t]

LEMMA AskedFits ==
    ASSUME RingInv, NEW t \in Threads
    PROVE  /\ Asked(t) \in 0 .. Entries
           /\ Batch(t) = {sqes[Slot(i)] : i \in khead .. khead + Asked(t) - 1}
           /\ ktail >= khead => khead + Asked(t) <= sqe_tail
<1>1. /\ khead \in Nat /\ sqe_tail \in khead .. khead + Entries /\ ktail \in Nat
      /\ seen[t] \in Nat /\ ktail <= sqe_tail /\ Entries \in Nat
  BY SenderAssumption DEF RingInv, TypeOK, TailsInOrder
<1>2. Difference(ktail, khead) \in 0 .. Entries
  BY <1>1 DEF Difference
<1>3. Asked(t) \in 0 .. Entries
  BY <1>1, <1>2 DEF Asked
<1>4. ktail >= khead => Asked(t) <= ktail - khead
  BY <1>1, <1>3 DEF Asked, Difference
<1>5. ktail >= khead => khead + Asked(t) <= sqe_tail
  BY <1>1, <1>3, <1>4
<1>6. QED  BY <1>3, <1>5 DEF Batch, Asked

\* In the ring an entry is intact exactly when it is prepared.
LEMMA IntactIsPrepared ==
    ASSUME RingInv, NEW i \in khead .. khead + Entries - 1
    PROVE  Intact(sqes[Slot(i)]) <=> Prepared(i)
<1> DEFINE e == sqes[Slot(i)]
<1>1. /\ khead \in Nat /\ sqe_tail \in Nat /\ i \in Nat /\ i >= khead
      /\ Len(handed) \in Nat /\ Len(handed) <= MaxPackets /\ MaxPackets \in Nat
      /\ sqe_tail <= Len(handed)
  BY SenderAssumption, LenProperties DEF RingInv, TypeOK, HandedInOrder
<1>2. e.iov \in Nat /\ e.data \in Nat
  <2>1. e \in Entry
    BY <1>1, SlotBound DEF RingInv, TypeOK
  <2>2. QED  BY <2>1, <1>1 DEF Entry, Packets
<1>3. Taken = 1 .. khead
  BY DEF RingInv, TakenInOrder
<1>4. CASE Prepared(i)
  <2>1. e.iov = i + 1 /\ e.data = i + 1
    BY <1>4 DEF RingInv, SlotsAreCurrent
  <2>2. i + 1 \in Packets \ Taken
    BY <1>1, <1>3, <1>4 DEF Prepared, Packets
  <2>3. QED  BY <1>4, <2>1, <2>2 DEF Intact
<1>5. CASE ~Prepared(i)
  <2>1. /\ e.data <= khead
        /\ e.iov <= khead \/ e.iov = i + 1
    BY <1>5 DEF RingInv, SlotsAreCurrent
  <2>2. e.iov = e.data => e.iov \notin Packets \ Taken
    BY <1>1, <1>2, <1>3, <2>1 DEF Packets
  <2>3. QED  BY <1>5, <2>2 DEF Intact
<1>6. QED  BY <1>4, <1>5

\* When the kernel finds nothing torn it gets the next packets, whatever was
\* published and asked for.
LEMMA TakesTheNext ==
    ASSUME RingInv, NEW t \in Threads, \A e \in Batch(t) : Intact(e)
    PROVE  /\ {e.iov : e \in Batch(t)} = khead + 1 .. khead + Asked(t)
           /\ Cardinality({e.iov : e \in Batch(t)}) = Asked(t)
           /\ khead + Asked(t) <= sqe_tail
           /\ Preparing => khead + Asked(t) < sqe_tail
<1> DEFINE m == Asked(t)
           I == khead .. khead + m - 1
<1>1. /\ m \in Nat /\ m <= Entries /\ Entries \in Nat
      /\ Batch(t) = {sqes[Slot(i)] : i \in I}
  BY AskedFits, SenderAssumption
<1>2. khead \in Nat /\ sqe_tail \in Nat /\ sqe_tail >= khead /\ (Preparing => sqe_tail > khead)
  BY SenderAssumption DEF RingInv, TypeOK, HandedInOrder
<1> HIDE DEF m
<1>3. I \subseteq khead .. khead + Entries - 1 /\ I \subseteq Nat
  BY <1>1, <1>2
<1>4. \A i \in I : Prepared(i)
  BY <1>1, <1>3, IntactIsPrepared
<1>5. \A i \in I : sqes[Slot(i)].iov = i + 1
  BY <1>3, <1>4 DEF RingInv, SlotsAreCurrent
<1>6. {e.iov : e \in Batch(t)} = {i + 1 : i \in I}
  BY <1>1, <1>5
<1>7. {i + 1 : i \in I} = khead + 1 .. khead + m
  <2>1. \A p \in khead + 1 .. khead + m : p - 1 \in I /\ p = (p - 1) + 1
    BY <1>1, <1>2
  <2>2. \A i \in I : i + 1 \in khead + 1 .. khead + m
    BY <1>1, <1>2
  <2>3. QED  BY <2>1, <2>2
<1>8. Cardinality(khead + 1 .. khead + m) = m
  BY <1>1, <1>2, FS_Interval
<1>9. khead + m <= sqe_tail /\ (Preparing => khead + m < sqe_tail)
  <2>1. CASE m = 0
    BY <1>2, <2>1
  <2>2. CASE m > 0
    <3>1. Prepared(khead + m - 1)
      BY <1>1, <1>2, <1>4, <2>2
    <3>2. QED  BY <1>1, <1>2, <3>1 DEF Prepared
  <2>3. QED  BY <1>1, <2>1, <2>2
<1>10. QED  BY <1>6, <1>7, <1>8, <1>9 DEF m

-----------------------------------------------------------------------------
(* Steps that leave the ring, or the destinations, alone.                  *)

DestinationInv == FdsAreOwned /\ WaitingHaveOwners /\ OnlyOverdueGoAstray

LEMMA IInvSplits == IInv <=> RingInv /\ DestinationInv
  BY DEF IInv, DestinationInv

LEMMA RingStays ==
    ASSUME RingInv, TypeOK', Taken' = Taken,
           UNCHANGED <<handed, sqes, sqe_tail, ktail, khead, at, seen>>
    PROVE  RingInv'
<1>1. TailsInOrder'
  BY DEF RingInv, TailsInOrder
<1>2. HandedInOrder'
  BY DEF RingInv, HandedInOrder, Preparing
<1>3. SlotsAreCurrent'
  BY DEF RingInv, SlotsAreCurrent, Prepared, Preparing, Slot
<1>4. TakenInOrder'
  BY DEF RingInv, TakenInOrder
<1>5. QED  BY <1>1, <1>2, <1>3, <1>4 DEF RingInv

LEMMA DestinationsStay ==
    ASSUME DestinationInv, UNCHANGED <<tick, due, life, fd, handed, overdue, astray, khead>>
    PROVE  DestinationInv'
<1>1. FdsAreOwned'
  BY DEF DestinationInv, FdsAreOwned, Open
<1>2. WaitingHaveOwners'
  BY DEF DestinationInv, WaitingHaveOwners, Waiting, Playing
<1>3. OnlyOverdueGoAstray'
  BY DEF DestinationInv, OnlyOverdueGoAstray
<1>4. QED  BY <1>1, <1>2, <1>3 DEF DestinationInv

\* The packets of the ring are the last ones that were handed over.
LEMMA RingOfPackets ==
    ASSUME RingInv
    PROVE  /\ Entries \in Nat /\ Entries > 0 /\ MaxPackets \in Nat
           /\ khead \in Nat /\ sqe_tail \in Nat /\ ktail \in Nat /\ Len(handed) \in Nat
           /\ khead <= sqe_tail /\ sqe_tail <= khead + Entries
           /\ sqe_tail <= Len(handed) /\ Len(handed) <= MaxPackets
           /\ \A p \in 1 .. Len(handed) : p \in Packets /\ handed[p] \in Packet
<1>1. /\ Entries \in Nat /\ Entries > 0 /\ MaxPackets \in Nat
      /\ khead \in Nat /\ sqe_tail \in khead .. khead + Entries /\ ktail \in Nat
      /\ handed \in Seq(Packet) /\ Len(handed) <= MaxPackets
  BY SenderAssumption DEF RingInv, TypeOK
<1>2. Len(handed) \in Nat /\ \A p \in 1 .. Len(handed) : handed[p] \in Packet
  BY <1>1, LenProperties, ElementOfSeq
<1>3. QED  BY <1>1, <1>2 DEF RingInv, HandedInOrder, Packets

-----------------------------------------------------------------------------
(* Initial states.                                                         *)

LEMMA InitIInv == Init => IInv
<1> SUFFICES ASSUME Init PROVE IInv
  OBVIOUS
<1>0. Entries \in Nat \ {0} /\ MaxPackets \in Nat
  BY SenderAssumption
<1>1. TypeOK
  <2>1. handed \in Seq(Packet) /\ Len(handed) = 0
    BY EmptySeq DEF Init
  <2>2. QED  BY <1>0, <2>1 DEF Init, TypeOK, Entry, Threads
<1>2. TailsInOrder /\ HandedInOrder /\ TakenInOrder
  BY DEF Init, TailsInOrder, HandedInOrder, TakenInOrder, Preparing, Taken, Threads
<1>3. SlotsAreCurrent
  BY <1>0, SlotBound DEF Init, SlotsAreCurrent, Prepared, Preparing
<1>4. DestinationInv
  BY <1>0 DEF Init, DestinationInv, FdsAreOwned, WaitingHaveOwners, Waiting, Open,
              OnlyOverdueGoAstray
<1>5. QED  BY <1>1, <1>2, <1>3, <1>4, IInvSplits DEF RingInv

-----------------------------------------------------------------------------
(* Connections and the phases of a tick.                                   *)

\* A client logs in, its events are handled, or its descriptor is closed early.
LEMMA ConnectionStep ==
    ASSUME IInv, NEW c \in Conns, Connect(c) \/ HandleEvent(c) \/ CloseEarly(c)
    PROVE  IInv'
<1>0. UNCHANGED <<handed, overdue, astray, sqes, sqe_tail, ktail, khead, inflight, cq, freed,
                  at, seen, refused, tick, due>>
  BY DEF Connect, HandleEvent, Event, CloseEarly, UnchangedSending
<1>1. TypeOK'
  BY <1>0 DEF IInv, RingInv, TypeOK, Connect, HandleEvent, Event, CloseEarly, Packet
<1>2. RingInv'
  BY <1>0, <1>1, RingStays DEF IInv, Taken
<1>3. \A d \in Conns : d # c => life'[d] = life[d] /\ fd'[d] = fd[d]
  BY DEF IInv, RingInv, TypeOK, Connect, HandleEvent, Event, CloseEarly, UnchangedSending
<1>4. \/ /\ life[c] = "new" /\ life'[c] = "queued" /\ fd'[c] \in Fds
         /\ \A d \in Conns : Open(d) => fd[d] # fd'[c]
      \/ life[c] = "queued" /\ life'[c] = "playing" /\ fd'[c] = fd[c]
      \/ life[c] = "playing" /\ life'[c] = "closed" /\ fd'[c] = fd[c] /\ tick = "events"
      \/ life[c] = "playing" /\ life'[c] = "early" /\ fd'[c] = fd[c]
  BY DEF IInv, RingInv, TypeOK, Connect, HandleEvent, Event, CloseEarly, UnchangedSending, Running
<1>5. /\ khead \in Nat /\ khead <= Len(handed)
      /\ \A p \in 1 .. Len(handed) : handed[p].to \in Conns
  BY RingOfPackets DEF IInv, Packet
<1>6. FdsAreOwned'
  BY <1>0, <1>3, <1>4, <1>5 DEF IInv, FdsAreOwned, Open
<1>7. WaitingHaveOwners'
  BY <1>0, <1>3, <1>4, <1>5 DEF IInv, WaitingHaveOwners, Waiting, Playing
<1>8. OnlyOverdueGoAstray'
  <2>1. \A p \in astray : handed[p].to \in Conns
    BY <1>5 DEF IInv, WaitingHaveOwners
  <2>2. QED  BY <1>0, <1>3, <1>4, <2>1 DEF IInv, OnlyOverdueGoAstray
<1>9. QED  BY <1>2, <1>6, <1>7, <1>8 DEF IInv

\* The queues are made, a tick begins, or the ring is used before it is made.
LEMMA TickStep ==
    ASSUME IInv, StartBackend \/ NextTick \/ Unready
    PROVE  IInv'
<1>0. UNCHANGED <<handed, astray, sqes, sqe_tail, ktail, khead, inflight, cq, freed,
                  at, seen, refused, due, life, fd>>
  BY DEF StartBackend, NextTick, Unready, UnchangedSending
<1>1. Waiting \subseteq Packets
  BY RingOfPackets DEF IInv, Waiting, Packets
<1>2. TypeOK'
  BY <1>0, <1>1 DEF IInv, RingInv, TypeOK, StartBackend, NextTick, Unready, UnchangedSending, Waiting
<1>3. RingInv'
  BY <1>0, <1>2, RingStays DEF IInv, Taken
<1>4. FdsAreOwned'
  BY <1>0 DEF IInv, FdsAreOwned, Open
<1>5. WaitingHaveOwners' /\ OnlyOverdueGoAstray'
  BY <1>0 DEF IInv, WaitingHaveOwners, OnlyOverdueGoAstray, Waiting, Playing, StartBackend,
              NextTick, Unready, UnchangedSending, Running
<1>6. QED  BY <1>3, <1>4, <1>5 DEF IInv

\* finalize_tick
LEMMA FinalizeTickStep ==
    ASSUME IInv, FinalizeTick
    PROVE  IInv'
<1>0. /\ UNCHANGED <<handed, overdue, astray, sqes, sqe_tail, ktail, khead, inflight, cq, freed,
                     seen, refused, life, fd, fate>>
      /\ at["backend"] = "run" /\ at' = [at EXCEPT !["backend"] = "flush"]
      /\ tick' = "alive" /\ due' \subseteq Playing
  BY DEF FinalizeTick, Running
<1>1. TypeOK'
  BY <1>0 DEF IInv, RingInv, TypeOK, Playing, Threads
<1>2. at'["backend"] = "flush" /\ \A t \in Threads : at'[t] = "store" => at[t] = "store"
  BY <1>0 DEF IInv, RingInv, TypeOK, Threads
<1>3. RingInv'
  BY <1>0, <1>1, <1>2 DEF IInv, RingInv, TailsInOrder, HandedInOrder, SlotsAreCurrent, Prepared,
                          Preparing, Slot, TakenInOrder, Taken
<1>4. DestinationInv'
  BY <1>0 DEF IInv, DestinationInv, FdsAreOwned, WaitingHaveOwners, OnlyOverdueGoAstray, Open,
              Waiting, Playing
<1>5. QED  BY <1>3, <1>4, IInvSplits DEF IInv, DestinationInv

-----------------------------------------------------------------------------
(* backend_sender_send.                                                    *)

\* A packet for a player is handed over, by a system or as a keep-alive.
LEMMA HandStep ==
    ASSUME IInv, NEW c \in Conns, Send(c) \/ KeepAlive(c)
    PROVE  IInv'
<1>0. /\ handed' = Append(handed, [to |-> c, fd |-> fd[c]]) /\ Len(handed) < MaxPackets
      /\ at["backend"] = "run" /\ at' = [at EXCEPT !["backend"] = "get"]
      /\ UNCHANGED <<life, fd, overdue, astray, sqes, sqe_tail, ktail, khead, inflight, cq,
                     freed, seen, refused, fate>>
  BY DEF Send, KeepAlive, Hand, Running
<1>1. life[c] \in {"playing", "early"} /\ fd[c] \in Fds
  BY DEF IInv, WaitingHaveOwners, FdsAreOwned, Send, KeepAlive, Playing
<1>2. /\ tick' \in {"systems", "alive"} /\ due' \subseteq due
      /\ due' # {} => tick' = "alive"
  BY DEF Send, KeepAlive, Running, IInv, WaitingHaveOwners
<1>3. handed \in Seq(Packet) /\ [to |-> c, fd |-> fd[c]] \in Packet
  BY <1>1 DEF IInv, RingInv, TypeOK, Packet
<1>4. /\ handed' \in Seq(Packet) /\ Len(handed') = Len(handed) + 1 /\ Len(handed) \in Nat
      /\ \A p \in 1 .. Len(handed) : handed'[p] = handed[p]
      /\ handed'[Len(handed) + 1] = [to |-> c, fd |-> fd[c]]
  BY <1>0, <1>3, AppendProperties, LenProperties
<1>5. TypeOK'
  <2>1. Len(handed') <= MaxPackets
    BY <1>0, <1>4, SenderAssumption
  <2>2. QED  BY <1>0, <1>2, <1>4, <2>1 DEF IInv, RingInv, TypeOK, Threads
<1>6. at'["backend"] = "get" /\ \A t \in Threads : at'[t] = "store" => at[t] = "store"
  BY <1>0 DEF IInv, RingInv, TypeOK, Threads
<1>7. TailsInOrder' /\ HandedInOrder' /\ TakenInOrder'
  BY <1>0, <1>4, <1>6 DEF IInv, RingInv, TailsInOrder, HandedInOrder, TakenInOrder, Taken, Preparing
<1>8. SlotsAreCurrent'
  BY <1>0, <1>6 DEF IInv, RingInv, SlotsAreCurrent, Prepared, Preparing, Slot
<1>9. FdsAreOwned'
  BY <1>0, <1>1, <1>4 DEF IInv, FdsAreOwned, Open
<1>10. WaitingHaveOwners'
  BY <1>0, <1>1, <1>2, <1>4, RingOfPackets DEF IInv, WaitingHaveOwners, Waiting, Playing
<1>11. OnlyOverdueGoAstray'
  BY <1>0, <1>4, RingOfPackets DEF IInv, OnlyOverdueGoAstray, WaitingHaveOwners
<1>12. QED  BY <1>5, <1>7, <1>8, <1>9, <1>10, <1>11 DEF IInv, RingInv

\* io_uring_get_sqe finds an entry, which still shows an earlier packet, or the
\* ring is full.
LEMMA GetSqeStep ==
    ASSUME IInv, GetSqe
    PROVE  IInv'
<1>0. /\ UNCHANGED <<tick, due, life, fd, handed, overdue, astray, ktail, khead, inflight, cq,
                     freed, seen, refused, fate, sqes>>
      /\ at["backend"] = "get"
      /\ \/ /\ sqe_tail - khead < Entries /\ sqe_tail' = sqe_tail + 1
            /\ at' = [at EXCEPT !["backend"] = "prep"]
         \/ sqe_tail' = sqe_tail /\ at' = [at EXCEPT !["backend"] = "flush"]
  BY DEF GetSqe, UnchangedButSqes
<1>1. TypeOK'
  BY <1>0, RingOfPackets DEF IInv, RingInv, TypeOK, Threads
<1>2. /\ \A t \in Threads : at'[t] = "store" => at[t] = "store"
      /\ \/ sqe_tail' = sqe_tail + 1 /\ at'["backend"] = "prep"
         \/ sqe_tail' = sqe_tail /\ at'["backend"] = "flush"
  BY <1>0 DEF IInv, RingInv, TypeOK, Threads
<1>3. TailsInOrder'
  BY <1>0, <1>2, RingOfPackets DEF IInv, RingInv, TypeOK, TailsInOrder, Threads
<1>4. HandedInOrder' /\ TakenInOrder'
  BY <1>0, <1>2, RingOfPackets DEF IInv, RingInv, HandedInOrder, TakenInOrder, Taken, Preparing
<1>5. SlotsAreCurrent'
  <2>1. CASE sqe_tail' = sqe_tail + 1 /\ at'["backend"] = "prep"
    <3>1. SUFFICES ASSUME NEW i \in khead .. khead + Entries - 1
                   PROVE  LET e == sqes[Slot(i)]
                          IN  IF i < sqe_tail THEN e.iov = i + 1 /\ e.data = i + 1
                              ELSE e.iov <= khead /\ e.data <= khead
      BY <1>0, <2>1, RingOfPackets DEF IInv, SlotsAreCurrent, Prepared, Preparing, Slot
    <3>2. Prepared(i) <=> i < sqe_tail
      BY <1>0 DEF Prepared, Preparing
    <3>3. QED  BY <1>0, <3>2 DEF IInv, RingInv, SlotsAreCurrent
  <2>2. CASE sqe_tail' = sqe_tail /\ at'["backend"] = "flush"
    BY <1>0, <2>2 DEF IInv, RingInv, SlotsAreCurrent, Prepared, Preparing, Slot
  <2>3. QED  BY <1>2, <2>1, <2>2
<1>6. DestinationInv'
  BY <1>0, DestinationsStay, IInvSplits
<1>7. QED  BY <1>1, <1>3, <1>4, <1>5, <1>6 DEF IInv, RingInv, DestinationInv

\* The entry gets its iovec, then its request; no entry that the kernel may still
\* take has the same slot.
LEMMA PrepareStep ==
    ASSUME IInv, PrepWritev \/ SetData
    PROVE  IInv'
<1> DEFINE k == sqe_tail - 1
<1>0. UNCHANGED <<tick, due, life, fd, handed, overdue, astray, ktail, khead, inflight, cq,
                  freed, seen, refused, fate, sqe_tail>>
  BY DEF PrepWritev, SetData, UnchangedButSqes
<1>1. /\ khead \in Nat /\ k \in Nat /\ sqe_tail \in Nat /\ Entries \in Nat /\ Entries > 0
      /\ k >= khead /\ k < khead + Entries
      /\ Len(handed) = k + 1 /\ Len(handed) \in Packets
  BY RingOfPackets DEF IInv, RingInv, HandedInOrder, Preparing, PrepWritev, SetData
<1>2. \A i \in khead .. khead + Entries - 1 : i # k => Slot(i) # Slot(k)
  BY <1>1, SlotsDiffer
<1>3. /\ sqes \in [0 .. Entries - 1 -> Entry]
      /\ \A i \in khead .. khead + Entries - 1 : Slot(i) \in 0 .. Entries - 1
      /\ Slot(k) \in 0 .. Entries - 1
      /\ at \in [Threads -> {"start", "run", "get", "prep", "data", "flush", "store", "enter", "wait"}]
  BY <1>1, SlotBound DEF IInv, RingInv, TypeOK
<1>4. /\ sqes' \in [0 .. Entries - 1 -> Entry]
      /\ \A i \in khead .. khead + Entries - 1 : i # k => sqes'[Slot(i)] = sqes[Slot(i)]
      /\ PrepWritev => sqes'[Slot(k)].iov = k + 1 /\ sqes'[Slot(k)].data = sqes[Slot(k)].data
      /\ SetData => sqes'[Slot(k)].iov = sqes[Slot(k)].iov /\ sqes'[Slot(k)].data = k + 1
  <2> HIDE DEF k
  <2>1. CASE PrepWritev
    <3>1. sqes' = [sqes EXCEPT ![Slot(k)] = [iov |-> k + 1, data |-> sqes[Slot(k)].data]]
      <4>1. \A e \in Entry : [e EXCEPT !.iov = k + 1] = [iov |-> k + 1, data |-> e.data]
        BY DEF Entry
      <4>2. sqes' = [sqes EXCEPT ![Slot(k)] = [sqes[Slot(k)] EXCEPT !.iov = k + 1]]
        BY <1>1, <2>1 DEF PrepWritev, k
      <4>3. QED  BY <1>3, <4>1, <4>2
    <3>2. [iov |-> k + 1, data |-> sqes[Slot(k)].data] \in Entry
      BY <1>1, <1>3 DEF Entry
    <3>3. ~SetData
      BY <2>1 DEF PrepWritev, SetData
    <3>4. QED  BY <1>2, <1>3, <2>1, <3>1, <3>2, <3>3
  <2>2. CASE SetData
    <3>1. sqes' = [sqes EXCEPT ![Slot(k)] = [iov |-> sqes[Slot(k)].iov, data |-> k + 1]]
      <4>1. \A e \in Entry : [e EXCEPT !.data = k + 1] = [iov |-> e.iov, data |-> k + 1]
        BY DEF Entry
      <4>2. sqes' = [sqes EXCEPT ![Slot(k)] = [sqes[Slot(k)] EXCEPT !.data = k + 1]]
        BY <1>1, <2>2 DEF SetData, k
      <4>3. QED  BY <1>3, <4>1, <4>2
    <3>2. [iov |-> sqes[Slot(k)].iov, data |-> k + 1] \in Entry
      BY <1>1, <1>3 DEF Entry
    <3>3. ~PrepWritev
      BY <2>2 DEF PrepWritev, SetData
    <3>4. QED  BY <1>2, <1>3, <2>2, <3>1, <3>2, <3>3
  <2>3. QED  BY <2>1, <2>2
<1>5. /\ PrepWritev => at["backend"] = "prep" /\ at'["backend"] = "data"
      /\ SetData => at["backend"] = "data" /\ at'["backend"] = "run"
      /\ at' \in [Threads -> {"start", "run", "get", "prep", "data", "flush", "store", "enter", "wait"}]
      /\ \A t \in Threads : at'[t] = "store" => at[t] = "store"
  BY <1>3 DEF PrepWritev, SetData, Threads
<1>6. TypeOK'
  BY <1>0, <1>4, <1>5 DEF IInv, RingInv, TypeOK
<1>7. TailsInOrder' /\ HandedInOrder' /\ TakenInOrder'
  BY <1>0, <1>5 DEF IInv, RingInv, TailsInOrder, HandedInOrder, TakenInOrder, Taken, Preparing
<1>8. SlotsAreCurrent'
  <2>1. SUFFICES ASSUME NEW i \in khead .. khead + Entries - 1
                 PROVE  LET e == sqes'[Slot(i)]
                        IN  IF Prepared(i)' THEN e.iov = i + 1 /\ e.data = i + 1
                            ELSE /\ e.data <= khead
                                 /\ IF i = k /\ at'["backend"] = "data" THEN e.iov = i + 1
                                    ELSE e.iov <= khead
    BY <1>0 DEF SlotsAreCurrent, Slot
  <2>2. CASE i # k
    BY <1>0, <1>1, <1>4, <2>2 DEF IInv, RingInv, SlotsAreCurrent, Prepared
  <2>3. CASE i = k
    <3>1. k \in khead .. khead + Entries - 1 /\ ~Prepared(k)
      BY <1>1 DEF Prepared, Preparing, PrepWritev, SetData
    <3>2. /\ sqes[Slot(k)].data <= khead
          /\ at["backend"] = "data" => sqes[Slot(k)].iov = k + 1
      BY <3>1 DEF IInv, RingInv, SlotsAreCurrent
    <3>3. CASE PrepWritev
      BY <1>0, <1>1, <1>4, <1>5, <2>3, <3>2, <3>3 DEF Prepared, Preparing
    <3>4. CASE SetData
      <4>1. sqes'[Slot(k)].iov = k + 1 /\ sqes'[Slot(k)].data = k + 1
        BY <1>4, <1>5, <3>2, <3>4
      <4>2. at'["backend"] = "run" /\ i \in Nat /\ i < sqe_tail'
        BY <1>0, <1>1, <1>5, <2>3, <3>4
      <4>3. Prepared(i)'
        BY <4>2 DEF Prepared, Preparing
      <4>4. QED  BY <2>3, <4>1, <4>3
    <3>5. QED  BY <3>3, <3>4
  <2>4. QED  BY <2>2, <2>3
<1>9. DestinationInv'
  BY <1>0, DestinationsStay, IInvSplits
<1>10. QED  BY <1>6, <1>7, <1>8, <1>9 DEF IInv, RingInv, DestinationInv

-----------------------------------------------------------------------------
(* io_uring_submit.                                                        *)

\* The tail is read.
LEMMA FlushReadStep ==
    ASSUME IInv, NEW t \in Threads, FlushRead(t)
    PROVE  IInv'
<1>0. /\ UNCHANGED <<tick, due, life, fd, handed, overdue, astray, sqes, sqe_tail, ktail, khead,
                     inflight, cq, freed, refused, fate>>
      /\ at[t] = "flush" /\ at' = [at EXCEPT ![t] = "store"]
      /\ seen' = [seen EXCEPT ![t] = sqe_tail]
  BY DEF FlushRead
<1>1. /\ at \in [Threads -> {"start", "run", "get", "prep", "data", "flush", "store", "enter", "wait"}]
      /\ seen \in [Threads -> Nat] /\ sqe_tail \in Nat
  BY RingOfPackets DEF IInv, RingInv, TypeOK
<1>2. TypeOK'
  BY <1>0, <1>1 DEF IInv, RingInv, TypeOK
<1>3. /\ at'[t] = "store" /\ seen'[t] = sqe_tail
      /\ \A u \in Threads : u # t => at'[u] = at[u] /\ seen'[u] = seen[u]
      /\ "backend" \in Threads
  BY <1>0, <1>1 DEF Threads
<1>4. TailsInOrder'
  BY <1>0, <1>1, <1>3 DEF IInv, RingInv, TailsInOrder
<1>5. HandedInOrder' /\ SlotsAreCurrent' /\ TakenInOrder'
  BY <1>0, <1>3 DEF IInv, RingInv, HandedInOrder, SlotsAreCurrent, TakenInOrder, Taken,
                    Prepared, Preparing, Slot
<1>6. DestinationInv'
  BY <1>0, DestinationsStay, IInvSplits
<1>7. QED  BY <1>2, <1>4, <1>5, <1>6 DEF IInv, RingInv, DestinationInv

\* The tail is published, be it an old one.
LEMMA FlushStoreStep ==
    ASSUME IInv, NEW t \in Threads, FlushStore(t)
    PROVE  IInv'
<1>0. /\ UNCHANGED <<tick, due, life, fd, handed, overdue, astray, sqes, sqe_tail, khead,
                     inflight, cq, freed, refused, fate>>
      /\ at[t] = "store" /\ at' = [at EXCEPT ![t] = "enter"]
      /\ ktail' = seen[t]
      /\ seen' = [seen EXCEPT ![t] = Difference(seen[t], khead)]
  BY DEF FlushStore
<1>1. /\ at \in [Threads -> {"start", "run", "get", "prep", "data", "flush", "store", "enter", "wait"}]
      /\ seen \in [Threads -> Nat] /\ Difference(seen[t], khead) \in Nat
  BY RingOfPackets DEF IInv, RingInv, TypeOK, Difference
<1>2. TypeOK'
  BY <1>0, <1>1 DEF IInv, RingInv, TypeOK
<1>3. /\ at'[t] = "enter"
      /\ \A u \in Threads : u # t => at'[u] = at[u] /\ seen'[u] = seen[u]
      /\ "backend" \in Threads
  BY <1>0, <1>1 DEF Threads
<1>4. TailsInOrder'
  BY <1>0, <1>3 DEF IInv, RingInv, TailsInOrder
<1>5. HandedInOrder' /\ SlotsAreCurrent' /\ TakenInOrder'
  BY <1>0, <1>3 DEF IInv, RingInv, HandedInOrder, SlotsAreCurrent, TakenInOrder, Taken,
                    Prepared, Preparing, Slot
<1>6. DestinationInv'
  BY <1>0, DestinationsStay, IInvSplits
<1>7. QED  BY <1>2, <1>4, <1>5, <1>6 DEF IInv, RingInv, DestinationInv

\* Where a thread goes on after a submission, whatever became of it.
LEMMA AfterSubmission ==
    ASSUME RingInv, NEW t \in Threads, at[t] = "enter",
           at' = [at EXCEPT ![t] = After(t)]
              \/ (t = "sender" /\ at' = [at EXCEPT ![t] = "flush"])
    PROVE  /\ at' \in [Threads -> {"start", "run", "get", "prep", "data", "flush", "store", "enter", "wait"}]
           /\ \A u \in Threads : at'[u] = "store" => at[u] = "store" /\ u # t
           /\ Preparing' <=> Preparing
           /\ at'["backend"] = "data" <=> at["backend"] = "data"
           /\ at'["backend"] = "run" => at["backend"] = "run" \/ sqe_tail >= Len(handed)
           /\ at'["backend"] = "get" => at["backend"] = "get" \/ sqe_tail < Len(handed)
<1>1. at \in [Threads -> {"start", "run", "get", "prep", "data", "flush", "store", "enter", "wait"}]
  BY DEF RingInv, TypeOK
<1>2. sqe_tail \in Nat /\ Len(handed) \in Nat
  BY RingOfPackets
<1>3. QED  BY <1>1, <1>2 DEF After, Threads, Preparing

\* The kernel refuses.
LEMMA RefusedStep ==
    ASSUME IInv, NEW t \in Threads, Refused(t)
    PROVE  IInv'
<1>0. /\ UNCHANGED <<tick, due, life, fd, handed, overdue, astray, sqes, sqe_tail, ktail, khead,
                     inflight, fate>>
      /\ at[t] = "enter" /\ seen' = [seen EXCEPT ![t] = 0]
      /\ at' = [at EXCEPT ![t] = After(t)] \/ (t = "sender" /\ at' = [at EXCEPT ![t] = "flush"])
      /\ freed' \cup cq' = freed \cup cq
      /\ freed' \subseteq Packets /\ cq' \subseteq Packets /\ refused' \in Nat
  <2>1. freed \subseteq Packets /\ cq \subseteq Packets /\ refused \in Nat
    BY DEF IInv, RingInv, TypeOK
  <2>2. CASE t = "sender"
    BY <2>1, <2>2 DEF Refused
  <2>3. CASE t # "sender"
    BY <2>1, <2>3 DEF Refused
  <2>4. QED  BY <2>2, <2>3
<1>1. /\ at' \in [Threads -> {"start", "run", "get", "prep", "data", "flush", "store", "enter", "wait"}]
      /\ \A u \in Threads : at'[u] = "store" => at[u] = "store" /\ u # t
      /\ Preparing' <=> Preparing
      /\ at'["backend"] = "data" <=> at["backend"] = "data"
      /\ at'["backend"] = "run" => at["backend"] = "run" \/ sqe_tail >= Len(handed)
      /\ at'["backend"] = "get" => at["backend"] = "get" \/ sqe_tail < Len(handed)
  BY <1>0, AfterSubmission DEF IInv
<1>2. seen' \in [Threads -> Nat] /\ \A u \in Threads : u # t => seen'[u] = seen[u]
  BY <1>0 DEF IInv, RingInv, TypeOK
<1>3. TypeOK'
  BY <1>0, <1>1, <1>2 DEF IInv, RingInv, TypeOK
<1>4. TailsInOrder'
  BY <1>0, <1>1, <1>2 DEF IInv, RingInv, TailsInOrder, Threads
<1>5. HandedInOrder'
  BY <1>0, <1>1, RingOfPackets DEF IInv, RingInv, HandedInOrder
<1>6. SlotsAreCurrent' /\ TakenInOrder'
  <2>1. SlotsAreCurrent'
    BY <1>0, <1>1 DEF IInv, RingInv, SlotsAreCurrent, Prepared, Slot
  <2>2. TakenInOrder'
    BY <1>0 DEF IInv, RingInv, TakenInOrder, Taken
  <2>3. QED  BY <2>1, <2>2
<1>7. DestinationInv'
  BY <1>0, DestinationsStay, IInvSplits
<1>8. QED  BY <1>3, <1>4, <1>5, <1>6, <1>7 DEF IInv, RingInv, DestinationInv

\* A packet that waits and is not overdue is for a connection that still has its
\* descriptor, unless that was closed early.
LEMMA OnlyLateOnesStray ==
    ASSUME IInv, NEW p \in Waiting, Owners(handed[p].fd) \notin {{}, {handed[p].to}}
    PROVE  p \in overdue \/ life[handed[p].to] = "early"
<1> DEFINE c == handed[p].to
<1>1. p \in 1 .. Len(handed) /\ c \in Conns
  BY RingOfPackets DEF IInv, Waiting, Packet
<1>2. fd[c] = handed[p].fd
  BY <1>1 DEF IInv, FdsAreOwned
<1>3. ASSUME life[c] = "playing"
      PROVE  FALSE
  <2>1. Open(c)
    BY <1>3 DEF Open
  <2>2. Owners(fd[c]) = {c}
    BY <1>1, <2>1 DEF Owners, IInv, FdsAreOwned
  <2>3. QED  BY <1>2, <2>2
<1>4. QED  BY <1>3 DEF IInv, WaitingHaveOwners

\* The kernel takes the next packets, or finds a torn entry.
LEMMA EnterStep ==
    ASSUME IInv, NEW t \in Threads, Enter(t)
    PROVE  IInv'
<1>0. /\ UNCHANGED <<tick, due, life, fd, handed, overdue, sqes, sqe_tail, ktail, cq, freed, refused>>
      /\ at[t] = "enter"
  BY DEF Enter
<1>1. CASE ~\A e \in Batch(t) : Intact(e)
  <2>1. UNCHANGED <<khead, inflight, astray, at, seen>> /\ fate' = "torn"
    BY <1>1 DEF Enter
  <2>2. TypeOK'
    BY <1>0, <2>1 DEF IInv, RingInv, TypeOK
  <2>3. RingInv'
    BY <1>0, <2>1, <2>2, RingStays DEF IInv, Taken
  <2>4. DestinationInv'
    BY <1>0, <2>1, DestinationsStay, IInvSplits
  <2>5. QED  BY <2>3, <2>4 DEF IInv, DestinationInv
<1>2. CASE \A e \in Batch(t) : Intact(e)
  <2> DEFINE m  == Asked(t)
             ps == khead + 1 .. khead + m
  <2>1. /\ m \in Nat /\ m <= Entries
        /\ khead + m <= sqe_tail
        /\ Preparing => khead + m < sqe_tail
        /\ {e.iov : e \in Batch(t)} = ps /\ Cardinality({e.iov : e \in Batch(t)}) = m
    <3>1. Asked(t) \in 0 .. Entries /\ Entries \in Nat
      BY AskedFits, SenderAssumption DEF IInv
    <3>2. RingInv
      BY DEF IInv
    <3>3. /\ {e.iov : e \in Batch(t)} = khead + 1 .. khead + Asked(t)
          /\ Cardinality({e.iov : e \in Batch(t)}) = Asked(t)
          /\ khead + Asked(t) <= sqe_tail
          /\ Preparing => khead + Asked(t) < sqe_tail
      BY ONLY <1>2, <3>2, TakesTheNext, t \in Threads
    <3>4. QED  BY <3>1, <3>3
  <2>2. /\ khead' = khead + m /\ inflight' = inflight \cup ps
        /\ astray' = astray \cup {p \in ps : Owners(handed[p].fd) \notin {{}, {handed[p].to}}}
        /\ at' = [at EXCEPT ![t] = After(t)] /\ seen' = [seen EXCEPT ![t] = 0]
        /\ fate' = fate
    BY <1>2, <2>1 DEF Enter
  <2> HIDE DEF m
  <2>3. /\ khead \in Nat /\ sqe_tail \in Nat /\ khead <= sqe_tail /\ sqe_tail <= khead + Entries
        /\ Len(handed) \in Nat /\ sqe_tail <= Len(handed) /\ Entries \in Nat /\ Entries > 0
        /\ ps \subseteq Packets /\ ps \subseteq Waiting
    BY <2>1, RingOfPackets DEF IInv, Waiting
  <2>4. /\ at' \in [Threads -> {"start", "run", "get", "prep", "data", "flush", "store", "enter", "wait"}]
        /\ \A u \in Threads : at'[u] = "store" => at[u] = "store" /\ u # t
        /\ Preparing' <=> Preparing
        /\ at'["backend"] = "data" <=> at["backend"] = "data"
        /\ at'["backend"] = "run" => at["backend"] = "run" \/ sqe_tail >= Len(handed)
        /\ at'["backend"] = "get" => at["backend"] = "get" \/ sqe_tail < Len(handed)
    BY <1>0, <2>2, AfterSubmission DEF IInv
  <2>5. seen' \in [Threads -> Nat] /\ \A u \in Threads : u # t => seen'[u] = seen[u]
    BY <2>2 DEF IInv, RingInv, TypeOK
  <2>6. TypeOK'
    <3>1. khead' \in Nat /\ sqe_tail' \in khead' .. khead' + Entries
      BY <1>0, <2>1, <2>2, <2>3
    <3>2. inflight' \subseteq Packets /\ astray' \subseteq Packets
      BY <2>2, <2>3 DEF IInv, RingInv, TypeOK
    <3>3. QED  BY <1>0, <2>2, <2>4, <2>5, <3>1, <3>2 DEF IInv, RingInv, TypeOK
  <2>7. TailsInOrder'
    BY <1>0, <2>4, <2>5 DEF IInv, RingInv, TailsInOrder, Threads
  <2>8. HandedInOrder'
    BY <1>0, <2>1, <2>2, <2>3, <2>4 DEF IInv, RingInv, HandedInOrder
  <2>9. SlotsAreCurrent'
    <3>1. SUFFICES ASSUME NEW j \in khead + m .. khead + m + Entries - 1
                   PROVE  LET e == sqes[Slot(j)]
                          IN  IF Prepared(j) THEN e.iov = j + 1 /\ e.data = j + 1
                              ELSE /\ e.data <= khead + m
                                   /\ IF j = sqe_tail - 1 /\ at["backend"] = "data" THEN e.iov = j + 1
                                      ELSE e.iov <= khead + m
      BY <1>0, <2>2, <2>4 DEF SlotsAreCurrent, Slot, Prepared
    <3>2. /\ \A s \in 0 .. Entries - 1 : sqes[s].iov \in Nat /\ sqes[s].data \in Nat
      BY DEF IInv, RingInv, TypeOK, Entry, Packets
    <3>3. CASE j < khead + Entries
      <4>1. j \in khead .. khead + Entries - 1 /\ Slot(j) \in 0 .. Entries - 1
        <5>1. j \in khead .. khead + Entries - 1 /\ j \in Nat
          BY <2>1, <2>3, <3>3
        <5>2. QED  BY <5>1, SlotBound
      <4>2. CASE Prepared(j)
        BY <4>1, <4>2 DEF IInv, RingInv, SlotsAreCurrent
      <4>3. CASE ~Prepared(j)
        <5>1. /\ sqes[Slot(j)].data <= khead
              /\ IF j = sqe_tail - 1 /\ at["backend"] = "data" THEN sqes[Slot(j)].iov = j + 1
                 ELSE sqes[Slot(j)].iov <= khead
          BY <4>1, <4>3 DEF IInv, RingInv, SlotsAreCurrent
        <5>2. \A n \in Nat : n <= khead => n <= khead + m
          BY <2>1, <2>3
        <5>3. QED  BY <3>2, <4>1, <4>3, <5>1, <5>2
      <4>4. QED  BY <4>2, <4>3
    <3>4. CASE j >= khead + Entries
      <4> DEFINE i == j - Entries
      <4>1. i \in khead .. khead + m - 1 /\ i \in khead .. khead + Entries - 1 /\ i + Entries = j
        BY <2>1, <2>3, <3>4
      <4>2. Slot(j) = Slot(i)
        BY <2>3, <4>1, SlotsRepeat
      <4>3. sqes[Slot(i)] \in Batch(t) /\ Prepared(i)
        BY <1>2, <4>1, AskedFits, IntactIsPrepared DEF IInv, m
      <4>4. sqes[Slot(i)].iov = i + 1 /\ sqes[Slot(i)].data = i + 1
        BY <4>1, <4>3 DEF IInv, RingInv, SlotsAreCurrent
      <4>5. ~Prepared(j) /\ j # sqe_tail - 1
        BY <2>3, <3>4 DEF Prepared
      <4>6. sqes[Slot(j)].iov <= khead + m /\ sqes[Slot(j)].data <= khead + m
        BY <2>1, <2>3, <4>1, <4>2, <4>4
      <4>7. QED  BY <4>5, <4>6
    <3>5. QED  BY <2>1, <2>3, <3>3, <3>4
  <2>10. TakenInOrder'
    BY <1>0, <2>1, <2>2, <2>3 DEF IInv, RingInv, TakenInOrder, Taken
  <2>11. FdsAreOwned'
    BY <1>0 DEF IInv, FdsAreOwned, Open
  <2>12. WaitingHaveOwners'
    <3>1. Waiting' \subseteq Waiting /\ Playing' = Playing
      BY <1>0, <2>1, <2>2, <2>3 DEF Waiting, Playing
    <3>2. 1 .. khead \cup ps \subseteq 1 .. khead'
      BY <2>1, <2>2, <2>3
    <3>3. astray' \subseteq 1 .. khead'
      BY <2>2, <3>2 DEF IInv, WaitingHaveOwners
    <3>4. QED  BY <1>0, <3>1, <3>3 DEF IInv, WaitingHaveOwners
  <2>13. OnlyOverdueGoAstray'
    BY <1>0, <2>2, <2>3, OnlyLateOnesStray DEF IInv, OnlyOverdueGoAstray
  <2>14. QED  BY <2>6, <2>7, <2>8, <2>9, <2>10, <2>11, <2>12, <2>13 DEF IInv, RingInv
<1>3. QED  BY <1>1, <1>2

-----------------------------------------------------------------------------
(* The kernel and the sender's thread.                                     *)

LEMMA SenderStep ==
    ASSUME IInv, StartSender \/ Reap \/ \E p \in Packets : Complete(p)
    PROVE  IInv'
<1>0. /\ UNCHANGED <<tick, due, life, fd, handed, overdue, astray, sqes, sqe_tail, ktail, khead,
                     seen, refused, fate>>
      /\ Taken' = Taken
      /\ inflight' \subseteq Packets /\ cq' \subseteq Packets /\ freed' \subseteq Packets
  BY DEF StartSender, Reap, Complete, Taken, IInv, RingInv, TypeOK
<1>1. /\ at' \in [Threads -> {"start", "run", "get", "prep", "data", "flush", "store", "enter", "wait"}]
      /\ at'["backend"] = at["backend"]
      /\ \A t \in Threads : at'[t] = "store" => at[t] = "store"
  BY DEF StartSender, Reap, Complete, IInv, RingInv, TypeOK, Threads
<1>2. TypeOK'
  BY <1>0, <1>1 DEF IInv, RingInv, TypeOK
<1>3. RingInv'
  BY <1>0, <1>1, <1>2 DEF IInv, RingInv, TailsInOrder, HandedInOrder, SlotsAreCurrent, Prepared,
                          Preparing, Slot, TakenInOrder
<1>4. DestinationInv'
  BY <1>0, DestinationsStay, IInvSplits
<1>5. QED  BY <1>3, <1>4 DEF IInv, DestinationInv

-----------------------------------------------------------------------------
(* The theorems.                                                           *)

LEMMA NextIInv == IInv /\ [Next]_vars => IInv'
<1>1. SUFFICES ASSUME IInv, [Next]_vars PROVE IInv'
  OBVIOUS
<1>2. CASE Backend
  <2>1. CASE StartBackend \/ NextTick \/ Unready
    BY <1>1, <2>1, TickStep
  <2>2. CASE FinalizeTick
    BY <1>1, <2>2, FinalizeTickStep
  <2>3. CASE \E c \in Conns : HandleEvent(c) \/ Send(c) \/ KeepAlive(c)
    BY <1>1, <2>3, ConnectionStep, HandStep
  <2>4. CASE GetSqe \/ PrepWritev \/ SetData
    BY <1>1, <2>4, GetSqeStep, PrepareStep
  <2>5. CASE Submitting("backend")
    BY <1>1, <2>5, FlushReadStep, FlushStoreStep, EnterStep, RefusedStep DEF Submitting, Threads
  <2>6. QED  BY <1>2, <2>1, <2>2, <2>3, <2>4, <2>5 DEF Backend
<1>3. CASE SenderThread
  <2>1. CASE StartSender \/ Reap
    BY <1>1, <2>1, SenderStep
  <2>2. CASE Submitting("sender")
    BY <1>1, <2>2, FlushReadStep, FlushStoreStep, EnterStep, RefusedStep DEF Submitting, Threads
  <2>3. QED  BY <1>3, <2>1, <2>2 DEF SenderThread
<1>4. CASE \E c \in Conns : Connect(c) \/ CloseEarly(c)
  BY <1>1, <1>4, ConnectionStep
<1>5. CASE \E p \in Packets : Complete(p)
  BY <1>1, <1>5, SenderStep
<1>6. CASE UNCHANGED vars
  <2>1. TypeOK'
    BY <1>1, <1>6 DEF IInv, RingInv, TypeOK, vars
  <2>2. RingInv'
    BY <1>1, <1>6, <2>1, RingStays DEF IInv, Taken, vars
  <2>3. DestinationInv'
    BY <1>1, <1>6, DestinationsStay, IInvSplits DEF vars
  <2>4. QED  BY <2>2, <2>3 DEF IInv, DestinationInv
<1>7. QED  BY <1>1, <1>2, <1>3, <1>4, <1>5, <1>6 DEF Next

\* The inductive invariant: the ring shows the packets that the kernel has not
\* had, each complete and in its place, apart from the one being prepared.
THEOREM RingCorrect == Spec => []IInv
  BY InitIInv, NextIInv, PTL DEF Spec

\* Every variable has its type; above all the ring never holds more packets than
\* it has entries, and no tail runs ahead of what was handed over.
THEOREM SenderTypes == Spec => []TypeOK
<1>1. IInv => TypeOK
  BY DEF IInv, RingInv
<1>2. QED  BY <1>1, RingCorrect, PTL

\* Only a packet that missed its tick, or whose connection was closed under its
\* player, is written to a descriptor that belongs to somebody else.
THEOREM StraysAreLate == Spec => []OnlyOverdueGoAstray
<1>1. IInv => OnlyOverdueGoAstray
  BY DEF IInv
<1>2. QED  BY <1>1, RingCorrect, PTL

\* A thread that finds an entry torn does so while the other prepares it, or
\* behind a tail that was put back.
LEMMA TornByOverlap ==
    ASSUME RingInv, NEW t \in Threads, at[t] = "enter", ktail >= khead,
           ~\A e \in Batch(t) : Intact(e)
    PROVE  t = "sender" /\ Preparing
<1>1. /\ Asked(t) \in 0 .. Entries
      /\ Batch(t) = {sqes[Slot(i)] : i \in khead .. khead + Asked(t) - 1}
      /\ khead + Asked(t) <= sqe_tail
  BY AskedFits
<1>2. PICK i \in khead .. khead + Asked(t) - 1 : ~Intact(sqes[Slot(i)])
  BY <1>1
<1>3. i \in khead .. khead + Entries - 1 /\ i < sqe_tail
  BY <1>1, <1>2, RingOfPackets
<1>4. ~Prepared(i)
  BY <1>2, <1>3, IntactIsPrepared
<1>5. Preparing
  BY <1>3, <1>4 DEF Prepared
<1>6. QED  BY <1>5 DEF Preparing, Threads

\* An entry is only torn when the sender's thread, which does not take the mutex,
\* submits while the backend prepares it or has put back an old tail; and nothing
\* else puts a tail back.
THEOREM TearsNeedOverlap == Spec => OnlyOverlapTears
<1> DEFINE Torn == /\ fate' = "torn" =>
                        \/ at["sender"] = "enter" /\ at["backend"] \in {"prep", "data"}
                        \/ ktail < khead
                   /\ ktail' < ktail => at["sender"] = "store" /\ seen["sender"] < sqe_tail
<1>1. IInv /\ [Next]_vars => [Torn]_vars
  <2>1. SUFFICES ASSUME IInv, Next PROVE Torn
    OBVIOUS
  <2>2. fate = "fine"
    BY <2>1 DEF Next
  <2>3. khead \in Nat /\ ktail \in Nat /\ sqe_tail \in Nat /\ ktail <= sqe_tail
    BY <2>1, RingOfPackets DEF IInv, RingInv, TailsInOrder
  <2>4. ASSUME NEW t \in Threads, Enter(t)
        PROVE  Torn
    <3>1. ktail' = ktail /\ at[t] = "enter"
      BY <2>4 DEF Enter
    <3>2. CASE \A e \in Batch(t) : Intact(e)
      BY <2>2, <2>3, <2>4, <3>1, <3>2 DEF Enter
    <3>3. CASE ~\A e \in Batch(t) : Intact(e)
      <4>1. ktail >= khead => t = "sender" /\ Preparing
        BY <2>1, <3>1, <3>3, TornByOverlap DEF IInv
      <4>2. QED  BY <2>3, <3>1, <4>1 DEF Preparing
    <3>4. QED  BY <3>2, <3>3
  <2>5. ASSUME NEW t \in Threads, FlushStore(t)
        PROVE  Torn
    <3>1. at[t] = "store" /\ ktail' = seen[t] /\ fate' = fate
      BY <2>5 DEF FlushStore
    <3>2. t = "backend" => ktail' = sqe_tail
      BY <2>1, <3>1 DEF IInv, RingInv, TailsInOrder
    <3>3. t = "sender" \/ t = "backend"
      BY DEF Threads
    <3>4. seen[t] \in Nat
      BY <2>1 DEF IInv, RingInv, TypeOK
    <3>5. QED  BY <2>2, <2>3, <3>1, <3>2, <3>3, <3>4
  <2>6. ASSUME ktail' = ktail, fate' # "torn"
        PROVE  Torn
    BY <2>3, <2>6
  <2>7. CASE Backend
    BY <2>2, <2>4, <2>5, <2>6, <2>7
    DEF Backend, Submitting, Threads, StartBackend, FinalizeTick, NextTick, HandleEvent, Event, Send,
        KeepAlive, Hand, Unready, GetSqe, PrepWritev, SetData, UnchangedButSqes, UnchangedSending,
        FlushRead, Refused
  <2>8. CASE SenderThread
    BY <2>2, <2>4, <2>5, <2>6, <2>8
    DEF SenderThread, Submitting, Threads, StartSender, Reap, FlushRead, Refused
  <2>9. CASE \E c \in Conns : Connect(c) \/ CloseEarly(c)
    BY <2>2, <2>6, <2>9 DEF Connect, CloseEarly, UnchangedSending
  <2>10. CASE \E p \in Packets : Complete(p)
    BY <2>2, <2>6, <2>10 DEF Complete
  <2>11. QED  BY <2>1, <2>7, <2>8, <2>9, <2>10 DEF Next
<1>2. QED  BY <1>1, RingCorrect, PTL DEF Spec, OnlyOverlapTears

-----------------------------------------------------------------------------
(* The sender implements Outbox.                                           *)

Kept == UNCHANGED <<handed, Taken, cq \cup freed, freed>>

LEMMA KeptStutters == Kept => UNCHANGED Promise!vars
  BY DEF Kept, Promise!vars

LEMMA SubmittingIsTake ==
    ASSUME IInv, NEW t \in Threads, Submitting(t)
    PROVE  [Promise!Next]_(Promise!vars)
<1>1. CASE FlushRead(t) \/ FlushStore(t)
  BY <1>1, KeptStutters DEF FlushRead, FlushStore, Kept, Taken
<1>2. CASE Refused(t)
  <2>1. CASE t = "sender"
    <3>1. /\ UNCHANGED <<handed, Taken, cq \cup freed>>
          /\ freed' = freed \cup (cq \ freed)
      BY <1>2, <2>1 DEF Refused, Taken
    <3>2. cq \ freed \in SUBSET ((cq \cup freed) \ freed)
      OBVIOUS
    <3>3. Promise!Free
      BY <3>1, <3>2 DEF Promise!Free
    <3>4. QED  BY <3>3 DEF Promise!Next
  <2>2. CASE t # "sender"
    BY <1>2, <2>2, KeptStutters DEF Refused, Kept, Taken
  <2>3. QED  BY <2>1, <2>2
<1>3. CASE Enter(t)
  <2>1. CASE ~\A e \in Batch(t) : Intact(e)
    BY <1>3, <2>1, KeptStutters DEF Enter, Kept, Taken
  <2>2. CASE \A e \in Batch(t) : Intact(e)
    <3> DEFINE n == khead + Asked(t)
    <3>1. /\ {e.iov : e \in Batch(t)} = khead + 1 .. n
          /\ n <= sqe_tail /\ Asked(t) \in 0 .. Entries
      BY <2>2, TakesTheNext, AskedFits DEF IInv
    <3>2. UNCHANGED <<handed, cq, freed>> /\ inflight' = inflight \cup (khead + 1 .. n)
      BY <1>3, <2>2, <3>1 DEF Enter
    <3>3. /\ khead \in Nat /\ Entries \in Nat /\ Len(handed) \in Nat /\ n \in Nat
          /\ khead <= n /\ n <= Len(handed)
      BY <3>1, RingOfPackets DEF IInv
    <3> HIDE DEF n
    <3>4. Taken = 1 .. khead /\ Taken' = 1 .. n
      BY <3>2, <3>3 DEF IInv, RingInv, TakenInOrder, Taken
    <3>5. CASE n = 0
      BY <3>2, <3>3, <3>4, <3>5, KeptStutters DEF Kept
    <3>6. CASE n > 0
      <4>1. n \in 1 .. Len(handed) /\ Taken \subseteq 1 .. n
        BY <3>3, <3>4, <3>6
      <4>2. Promise!Take
        BY <3>2, <3>4, <4>1 DEF Promise!Take
      <4>3. QED  BY <4>2 DEF Promise!Next
    <3>7. QED  BY <3>3, <3>5, <3>6
  <2>3. QED  BY <2>1, <2>2
<1>4. QED  BY <1>1, <1>2, <1>3 DEF Submitting

\* sender.h, for every size of the ring: whatever the two threads do to each
\* other, and whatever the kernel refuses, packets are taken once and in order, and
\* their buffers are freed once, after the kernel is done with them.
THEOREM SenderKeepsPromise == Spec => LeavesInOrder
<1>1. Init => Promise!Init
  BY DEF Init, Promise!Init, Taken
<1>2. IInv /\ [Next]_vars => [Promise!Next]_(Promise!vars)
  <2>1. SUFFICES ASSUME IInv, [Next]_vars PROVE [Promise!Next]_(Promise!vars)
    OBVIOUS
  <2>2. ASSUME NEW c \in Conns, Send(c) \/ KeepAlive(c)
        PROVE  [Promise!Next]_(Promise!vars)
    <3>1. UNCHANGED <<inflight, cq, freed>> /\ handed' = Append(handed, [to |-> c, fd |-> fd[c]])
      BY <2>2 DEF Send, KeepAlive, Hand
    <3>2. [to |-> c, fd |-> fd[c]] \in Packet
      BY <2>1, <2>2 DEF Send, KeepAlive, Playing, IInv, FdsAreOwned, WaitingHaveOwners, Packet
    <3>3. Len(handed') = Len(handed) + 1
      BY <2>1, <3>1, <3>2, AppendProperties DEF IInv, RingInv, TypeOK
    <3>4. Promise!Hand
      BY <3>1, <3>3 DEF Promise!Hand, Taken
    <3>5. QED  BY <3>4 DEF Promise!Next
  <2>3. CASE Reap
    <3>1. /\ UNCHANGED <<handed, Taken, cq \cup freed>>
          /\ freed' = freed \cup (cq \ freed)
      BY <2>3 DEF Reap, Taken
    <3>2. cq \ freed \in SUBSET ((cq \cup freed) \ freed)
      OBVIOUS
    <3>3. Promise!Free
      BY <3>1, <3>2 DEF Promise!Free
    <3>4. QED  BY <3>3 DEF Promise!Next
  <2>4. ASSUME NEW p \in Packets, Complete(p)
        PROVE  [Promise!Next]_(Promise!vars)
    <3>1. /\ p \in Taken /\ UNCHANGED <<handed, Taken, freed>>
          /\ (cq \cup freed)' = (cq \cup freed) \cup {p}
      BY <2>4 DEF Complete, Taken
    <3>2. CASE p \in cq \cup freed
      BY <3>1, <3>2, KeptStutters DEF Kept
    <3>3. CASE p \notin cq \cup freed
      <4>1. Promise!Send
        BY <3>1, <3>3 DEF Promise!Send
      <4>2. QED  BY <4>1 DEF Promise!Next
    <3>4. QED  BY <3>2, <3>3
  <2>5. CASE \/ StartBackend \/ FinalizeTick \/ NextTick \/ Unready \/ GetSqe \/ PrepWritev \/ SetData
             \/ StartSender \/ UNCHANGED vars
             \/ \E c \in Conns : HandleEvent(c) \/ Connect(c) \/ CloseEarly(c)
    <3>1. Kept
      BY <2>5 DEF Kept, Taken, StartBackend, FinalizeTick, NextTick, Unready, GetSqe, PrepWritev,
                  SetData, StartSender, HandleEvent, Event, Connect, CloseEarly, UnchangedSending,
                  UnchangedButSqes, vars
    <3>2. QED  BY <3>1, KeptStutters
  <2>6. QED  BY <2>1, <2>2, <2>3, <2>4, <2>5, SubmittingIsTake
             DEF Next, Backend, SenderThread, Threads
<1>3. QED  BY <1>1, <1>2, RingCorrect, PTL DEF Spec, LeavesInOrder, Promise!Spec

=============================================================================
