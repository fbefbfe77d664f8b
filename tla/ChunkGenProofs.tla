--------------------------- MODULE ChunkGenProofs ---------------------------
(***************************************************************************)
(* The mpsc queue and the chunks that go through it, for a queue of any    *)
(* capacity and any number of workers and positions: its asserts hold, it  *)
(* is a bounded queue as mpscq.h promises, and a chunk is generated once.  *)
(*                                                                         *)
(* No variable says how many elements are used, and count says more than   *)
(* that while producers come and go.  The proofs therefore speak about the *)
(* elements that are filled or reserved: they lie together, from the one   *)
(* that is emptied next up to head (OccupiedFromFirst).                    *)
(***************************************************************************)
EXTENDS ChunkGen, Remainders, FiniteSetTheorems, SequenceTheorems, TLAPS

-----------------------------------------------------------------------------
(* Sizes.                                                                  *)

LEMMA Params ==
    /\ Max \in Nat \ {0} /\ Wrap \in Nat \ {0} /\ Wrap % Max = 0
    /\ IsFiniteSet(Workers) /\ IsFiniteSet(Positions) /\ None \notin Positions
    /\ 0 \in Slots
  BY ChunkGenAssumption DEF Slots

LEMMA SlotIsNat ==
    ASSUME NEW i \in Slots
    PROVE  i \in Nat /\ i + 1 \in Nat
  BY Params DEF Slots

LEMMA SlotsFinite == IsFiniteSet(Slots)
  BY Params, FS_Interval DEF Slots

LEMMA OccupiedIsFinite ==
    ASSUME TypeOK
    PROVE  /\ Occupied \subseteq Slots /\ IsFiniteSet(Occupied)
           /\ Size \in Nat
<1>1. Occupied \subseteq Slots
  BY DEF TypeOK, Occupied, Filled, Reserved, Storing
<1>2. IsFiniteSet(Occupied)
  BY <1>1, SlotsFinite, FS_Subset
<1>3. QED  BY <1>1, <1>2, FS_CardinalityType DEF Size

LEMMA CrowdsAreFinite ==
    /\ IsFiniteSet(Admitted) /\ Cardinality(Admitted) \in Nat
    /\ IsFiniteSet(Refused) /\ Cardinality(Refused) \in Nat
<1>1. Admitted \in SUBSET Workers /\ Refused \in SUBSET Workers
  BY DEF Admitted, Refused
<1>2. IsFiniteSet(Admitted) /\ IsFiniteSet(Refused)
  BY <1>1, Params, FS_Subset
<1>3. QED  BY <1>2, FS_CardinalityType

LEMMA FirstIsNat ==
    ASSUME TypeOK
    PROVE  First \in Nat /\ tail \in Nat /\ tail < Max /\ head \in Nat /\ count \in Nat
  BY Params DEF TypeOK, First, Slots

\* A producer that goes on is no longer counted where it was.
LEMMA Leaves ==
    ASSUME NEW w \in Workers, at[w] = "reserve" \/ at[w] = "backoff"
    PROVE  /\ at[w] = "reserve" => /\ Cardinality(Admitted) >= 1
                                   /\ Cardinality(Admitted \ {w}) = Cardinality(Admitted) - 1
           /\ at[w] = "backoff" => /\ Cardinality(Refused) >= 1
                                   /\ Cardinality(Refused \ {w}) = Cardinality(Refused) - 1
<1>1. ASSUME NEW S, IsFiniteSet(S), w \in S
      PROVE  Cardinality(S) >= 1 /\ Cardinality(S \ {w}) = Cardinality(S) - 1
  <2>1. Cardinality(S \ {w}) = Cardinality(S) - 1 /\ IsFiniteSet(S \ {w})
    BY <1>1, FS_RemoveElement
  <2>2. Cardinality(S \ {w}) \in Nat /\ Cardinality(S) \in Nat
    BY <1>1, <2>1, FS_CardinalityType
  <2>3. QED  BY <2>1, <2>2
<1>2. at[w] = "reserve" => w \in Admitted
  BY DEF Admitted
<1>3. at[w] = "backoff" => w \in Refused
  BY DEF Refused
<1>4. QED  BY <1>1, <1>2, <1>3, CrowdsAreFinite

LEMMA Joins ==
    ASSUME NEW w \in Workers, at[w] = "try"
    PROVE  /\ Cardinality(Admitted \cup {w}) = Cardinality(Admitted) + 1
           /\ Cardinality(Refused \cup {w}) = Cardinality(Refused) + 1
<1>1. w \notin Admitted /\ w \notin Refused
  BY DEF Admitted, Refused
<1>2. QED  BY <1>1, CrowdsAreFinite, FS_AddElement

-----------------------------------------------------------------------------
(* The ring of elements.                                                   *)

\* There is room where head is, as long as a producer has been admitted.
LEMMA HeadIsFree ==
    ASSUME QueueInv, Size < Max
    PROVE  head % Max \in Slots /\ head % Max \notin Occupied
<1> DEFINE n == Size
           f == First
<1>1. /\ n \in Nat /\ n < Max /\ f \in Nat /\ Max \in Nat \ {0}
      /\ Occupied = {(f + k) % Max : k \in 0 .. n - 1}
      /\ head % Max = (f + n) % Max
  BY OccupiedIsFinite, FirstIsNat, Params DEF QueueInv, OccupiedFromFirst
<1> HIDE DEF n, f
<1>2. ASSUME NEW k \in 0 .. n - 1
      PROVE  (f + k) % Max # (f + n) % Max
  <2>1. f + k \in Nat /\ f + n \in Nat /\ f + k < f + n /\ f + n < (f + k) + Max
    BY <1>1
  <2>2. QED  BY <1>1, <2>1, RoundDiffers
<1>3. head % Max \in Slots
  BY <1>1, FirstIsNat DEF Slots, QueueInv
<1>4. QED  BY <1>1, <1>2, <1>3

\* head wraps around with a size_t, and the element it stands for does not.
LEMMA HeadWraps ==
    ASSUME NEW h \in 0 .. Wrap - 1
    PROVE  (h + 1) % Wrap \in 0 .. Wrap - 1 /\ ((h + 1) % Wrap) % Max = (h + 1) % Max
<1>1. CASE h + 1 < Wrap
  <2>1. h + 1 \in 0 .. Wrap - 1
    BY <1>1, Params
  <2>2. (h + 1) % Wrap = h + 1
    BY <2>1, Params, FirstRound
  <2>3. QED  BY <2>1, <2>2
<1>2. CASE ~(h + 1 < Wrap)
  <2>1. h + 1 = Wrap
    BY <1>2, Params
  <2>2. (h + 1) % Wrap = 0 /\ 0 % Max = 0 /\ (h + 1) % Max = 0
    <3>1. Wrap % Wrap = 0 /\ 0 \in 0 .. Max - 1
      BY Params, FirstRound
    <3>2. 0 % Max = 0
      BY <3>1, Params, FirstRound
    <3>3. QED  BY <2>1, <3>1, <3>2, Params
  <2>3. QED  BY <2>2, Params
<1>3. QED  BY <1>1, <1>2

\* Between a producer and the consumer nothing is lost from the run of elements.
LEMMA ReserveExtends ==
    ASSUME QueueInv, Size < Max, Occupied' = Occupied \cup {head % Max},
           First' = First, head' = (head + 1) % Wrap
    PROVE  OccupiedFromFirst' /\ Size' = Size + 1
<1> DEFINE n == Size
           f == First
<1>1. /\ n \in Nat /\ f \in Nat /\ Max \in Nat \ {0} /\ head \in 0 .. Wrap - 1 /\ head \in Nat
      /\ Occupied = {(f + k) % Max : k \in 0 .. n - 1}
      /\ head % Max = (f + n) % Max /\ IsFiniteSet(Occupied)
  BY OccupiedIsFinite, FirstIsNat, Params DEF QueueInv, OccupiedFromFirst, TypeOK
<1>2. Size' = n + 1
  BY <1>1, HeadIsFree, FS_AddElement DEF Size
<1> HIDE DEF n, f
<1>3. Occupied' = {(f + k) % Max : k \in 0 .. n}
  <2>1. 0 .. n = (0 .. n - 1) \cup {n}
    BY <1>1
  <2>2. QED  BY <1>1, <2>1
<1>4. head' % Max = (f + (n + 1)) % Max
  <2>1. head' % Max = (head + 1) % Max
    BY <1>1, HeadWraps
  <2>2. (head + 1) % Max = ((f + n) + 1) % Max
    <3>1. f + n \in Nat
      BY <1>1
    <3>2. QED  BY <1>1, <3>1, SamePlaceNext
  <2>3. (f + n) + 1 = f + (n + 1)
    BY <1>1
  <2>4. QED  BY <2>1, <2>2, <2>3
<1>5. Size' - 1 = n
  BY <1>1, <1>2
<1>6. First' = f
  BY DEF f
<1>7. Occupied' = {(First' + k) % Max : k \in 0 .. Size' - 1} /\ head' % Max = (First' + Size') % Max
  <2>1. Occupied' = {(First' + k) % Max : k \in 0 .. Size' - 1}
    BY <1>3, <1>5, <1>6
  <2>2. head' % Max = (First' + Size') % Max
    BY <1>2, <1>4, <1>6
  <2>3. QED  BY <2>1, <2>2
<1>8. QED  BY <1>2, <1>7 DEF OccupiedFromFirst, n

LEMMA DequeueShortens ==
    ASSUME QueueInv, tick # "retire", tail \in Occupied, Occupied' = Occupied \ {tail},
           First' = tail + 1, head' = head
    PROVE  OccupiedFromFirst' /\ Size' = Size - 1 /\ Size >= 1
<1> DEFINE n == Size
<1>1. /\ n \in Nat /\ n <= Max /\ tail \in Nat /\ tail \in 0 .. Max - 1 /\ Max \in Nat \ {0}
      /\ Occupied = {(tail + k) % Max : k \in 0 .. n - 1}
      /\ head % Max = (tail + n) % Max /\ IsFiniteSet(Occupied)
  <2>1. Size <= Max
    BY OccupiedIsFinite, CrowdsAreFinite, Params DEF QueueInv, CountCovers, InHand
  <2>2. QED
    BY <2>1, OccupiedIsFinite, FirstIsNat, Params DEF QueueInv, OccupiedFromFirst, First
<1>2. Size' = n - 1 /\ n - 1 \in Nat
  <2>1. Size' = n - 1 /\ IsFiniteSet(Occupied')
    BY <1>1, FS_RemoveElement DEF Size
  <2>2. Size' \in Nat
    BY <2>1, FS_CardinalityType DEF Size
  <2>3. QED  BY <2>1, <2>2
<1> HIDE DEF n
<1>3. tail % Max = tail /\ tail + 0 = tail
  BY <1>1, FirstRound
<1>4. ASSUME NEW k \in 1 .. n - 1
      PROVE  (tail + k) % Max # tail
  <2>1. tail + k \in Nat /\ tail < tail + k /\ tail + k < tail + Max
    BY <1>1
  <2>2. QED  BY <1>1, <1>3, <2>1, RoundDiffers
<1>5. Occupied' = {(tail + k) % Max : k \in 1 .. n - 1}
  <2>1. 0 .. n - 1 = {0} \cup 1 .. n - 1
    BY <1>1, <1>2
  <2>2. Occupied = {tail} \cup {(tail + k) % Max : k \in 1 .. n - 1}
    BY <1>1, <1>3, <2>1
  <2>3. tail \notin {(tail + k) % Max : k \in 1 .. n - 1}
    BY <1>4
  <2>4. QED  BY <2>2, <2>3
<1>6. {(tail + k) % Max : k \in 1 .. n - 1} = {(tail + 1 + k) % Max : k \in 0 .. n - 1 - 1}
  <2>1. \A k \in 1 .. n - 1 : k - 1 \in 0 .. n - 1 - 1 /\ tail + 1 + (k - 1) = tail + k
    BY <1>1
  <2>2. \A k \in 0 .. n - 1 - 1 : k + 1 \in 1 .. n - 1 /\ tail + (k + 1) = tail + 1 + k
    BY <1>1
  <2>3. \A k \in 1 .. n - 1 : (tail + k) % Max \in {(tail + 1 + j) % Max : j \in 0 .. n - 1 - 1}
    BY <2>1
  <2>4. \A k \in 0 .. n - 1 - 1 : (tail + 1 + k) % Max \in {(tail + j) % Max : j \in 1 .. n - 1}
    BY <2>2
  <2>5. QED  BY <2>3, <2>4
<1>7. tail + 1 + (n - 1) = tail + n
  BY <1>1
<1>8. Occupied' = {(First' + k) % Max : k \in 0 .. Size' - 1} /\ head' % Max = (First' + Size') % Max
  BY <1>1, <1>2, <1>5, <1>6, <1>7
<1>9. n >= 1
  BY <1>1, <1>2
<1>10. QED  BY <1>2, <1>8, <1>9 DEF OccupiedFromFirst, n

\* When the tail catches up it may start over, which is the same place.
LEMMA TailCatchesUp ==
    ASSUME TypeOK, tick = "retire", NEW k \in Nat
    PROVE  /\ First = tail + 1
           /\ ((IF tail + 1 >= Max THEN 0 ELSE tail + 1) + k) % Max = (First + k) % Max
<1>1. First = tail + 1 /\ tail \in Nat /\ tail < Max /\ Max \in Nat \ {0}
  BY FirstIsNat, Params DEF First
<1>2. CASE tail + 1 >= Max
  <2>1. tail + 1 = Max /\ Max + k = k + Max
    BY <1>1, <1>2
  <2>2. (k + Max) % Max = k % Max
    BY <1>1, RoundRepeats
  <2>3. 0 + k = k
    OBVIOUS
  <2>4. QED  BY <1>1, <1>2, <2>1, <2>2, <2>3
<1>3. CASE ~(tail + 1 >= Max)
  BY <1>1, <1>3
<1>4. QED  BY <1>1, <1>2, <1>3

-----------------------------------------------------------------------------
(* Initial states.                                                         *)

LEMMA InitQueueInv == Init => QueueInv
<1> SUFFICES ASSUME Init PROVE QueueInv
  OBVIOUS
<1>1. TypeOK
  BY Params, EmptySeq DEF Init, TypeOK
<1>2. AssertsHold /\ HandsAreFull
  BY DEF Init, AssertsHold, HandsAreFull, Storing
<1>3. Occupied = {} /\ Admitted = {} /\ Refused = {} /\ Size = 0
  <2>1. Occupied = {} /\ Admitted = {} /\ Refused = {}
    BY DEF Init, Occupied, Filled, Reserved, Storing, Admitted, Refused
  <2>2. QED  BY <2>1, FS_EmptySet DEF Size
<1>4. CountCovers
  <2>1. Cardinality(Admitted) = 0 /\ Cardinality(Refused) = 0
    BY <1>3, FS_EmptySet
  <2>2. QED  BY <1>3, <2>1, Params DEF Init, CountCovers, InHand
<1>5. OccupiedFromFirst
  BY <1>3 DEF Init, OccupiedFromFirst, First
<1>6. QED  BY <1>1, <1>2, <1>4, <1>5 DEF QueueInv

-----------------------------------------------------------------------------
(* Steps that leave the queue alone.                                       *)

LEMMA QueueStays ==
    ASSUME QueueInv, TypeOK', HandsAreFull', UNCHANGED queue, slot' = slot,
           tick' = "retire" <=> tick = "retire",
           Storing' = Storing, Admitted' = Admitted, Refused' = Refused
    PROVE  QueueInv' /\ Size' = Size /\ First' = First
<1>1. UNCHANGED <<buffer, count, head, tail, slot>>
  BY DEF queue
<1>2. First' = First /\ InHand' = InHand
  BY <1>1 DEF First, InHand
<1>3. Occupied' = Occupied /\ Size' = Size
  BY <1>1 DEF Occupied, Filled, Reserved, Size
<1>4. AssertsHold'
  BY <1>1 DEF QueueInv, AssertsHold
<1>5. OccupiedFromFirst'
  BY <1>1, <1>2, <1>3 DEF QueueInv, OccupiedFromFirst
<1>6. CountCovers'
  BY <1>1, <1>2, <1>3 DEF QueueInv, CountCovers
<1>7. QED  BY <1>2, <1>3, <1>4, <1>5, <1>6 DEF QueueInv

\* A worker takes a task, makes the chunk, or tries again.
LEMMA QuietWorkStep ==
    ASSUME QueueInv, NEW w \in Workers, TakeJob(w) \/ Generate(w) \/ Retry(w)
    PROVE  QueueInv' /\ Storing' = Storing /\ Size' = Size /\ First' = First
<1>0. jobs \in Seq(Positions) /\ at \in [Workers -> {"idle", "generate", "try", "backoff", "full", "reserve", "store"}]
      /\ task \in [Workers -> Positions \cup {None}]
  BY DEF QueueInv, TypeOK
<1>1. /\ UNCHANGED queue /\ slot' = slot /\ tick' = tick /\ ret' = ret /\ left' = left
      /\ \E place \in {"generate", "try"} : at' = [at EXCEPT ![w] = place]
      /\ at[w] \in {"idle", "generate", "full"}
  BY DEF TakeJob, Generate, Retry, Goes, backend
<1>2. Storing' = Storing /\ Admitted' = Admitted /\ Refused' = Refused
  BY <1>0, <1>1 DEF Storing, Admitted, Refused
<1>3. CASE TakeJob(w)
  <2>1. Head(jobs) \in Positions /\ jobs' \in Seq(Positions)
    BY <1>0, <1>3, HeadTailProperties DEF TakeJob
  <2>2. TypeOK'
    BY <1>3, <2>1 DEF QueueInv, TypeOK, TakeJob, Goes, queue, backend
  <2>3. HandsAreFull'
    BY <1>0, <1>3, <2>1, Params DEF QueueInv, HandsAreFull, TakeJob, Goes, backend
  <2>4. QED  BY <1>1, <1>2, <2>2, <2>3, QueueStays
<1>4. CASE Generate(w)
  <2>1. task[w] \in Positions
    BY <1>0, <1>4 DEF QueueInv, HandsAreFull, Generate
  <2>2. TypeOK'
    BY <1>4, <2>1 DEF QueueInv, TypeOK, Generate, Goes, queue, backend
  <2>3. HandsAreFull'
    BY <1>0, <1>4 DEF QueueInv, HandsAreFull, Generate, Goes, backend
  <2>4. QED  BY <1>1, <1>2, <2>2, <2>3, QueueStays
<1>5. CASE Retry(w)
  <2>1. TypeOK'
    BY <1>5 DEF QueueInv, TypeOK, Retry, Goes, queue, backend, chunks
  <2>2. HandsAreFull'
    BY <1>0, <1>5 DEF QueueInv, HandsAreFull, Retry, Goes, backend
  <2>3. QED  BY <1>1, <1>2, <2>1, <2>2, QueueStays
<1>6. QED  BY <1>3, <1>4, <1>5

\* The backend goes on in its tick, or finds NULL.
LEMMA QuietTickStep ==
    ASSUME QueueInv, \/ ReadCount \/ Drained \/ EndTick
                     \/ Dequeue /\ buffer[tail] = None
                     \/ \E p \in Positions : GetEcsChunk(p)
                     \/ UNCHANGED vars
    PROVE  QueueInv' /\ Storing' = Storing /\ Size' = Size /\ First' = First
<1>1. /\ UNCHANGED queue /\ UNCHANGED <<at, task, slot, ret, dequeued, world>>
      /\ (tick' = "retire") = (tick = "retire")
      /\ tick' \in {"count", "drain", "retire", "systems", "crashed"} /\ left' \in Nat
      /\ tick = "retire" => left' = left
  BY DEF QueueInv, TypeOK, ReadCount, Drained, EndTick, Dequeue, GetEcsChunk, vars, chunks, queue,
         workers, backend
<1>2. /\ entities' \subseteq Positions /\ loaded' \subseteq Positions
      /\ jobs' \in Seq(Positions)
  <2>1. CASE \E p \in Positions : GetEcsChunk(p)
    <3>1. PICK p \in Positions : GetEcsChunk(p)
      BY <2>1
    <3>2. Append(jobs, p) \in Seq(Positions)
      BY AppendProperties DEF QueueInv, TypeOK
    <3>3. QED  BY <3>1, <3>2 DEF QueueInv, TypeOK, GetEcsChunk
  <2>2. CASE ~\E p \in Positions : GetEcsChunk(p)
    BY <2>2 DEF QueueInv, TypeOK, ReadCount, Drained, EndTick, Dequeue, vars, chunks
  <2>3. QED  BY <2>1, <2>2
<1>3. TypeOK'
  BY <1>1, <1>2 DEF QueueInv, TypeOK, queue
<1>4. HandsAreFull'
  BY <1>1 DEF QueueInv, HandsAreFull
<1>5. Storing' = Storing /\ Admitted' = Admitted /\ Refused' = Refused
  BY <1>1 DEF Storing, Admitted, Refused
<1>6. QED  BY <1>1, <1>3, <1>4, <1>5, QueueStays

-----------------------------------------------------------------------------
(* The producers.                                                          *)

LEMMA WorkerTypes ==
    ASSUME QueueInv
    PROVE  /\ at \in [Workers -> {"idle", "generate", "try", "backoff", "full", "reserve", "store"}]
           /\ task \in [Workers -> Positions \cup {None}]
           /\ slot \in [Workers -> Slots]
           /\ buffer \in [Slots -> Positions \cup {None}]
           /\ \A w \in Workers : at[w] # "idle" => task[w] \in Positions
  BY DEF QueueInv, TypeOK, HandsAreFull

\* A producer counts itself, and it is admitted if there was room.
LEMMA TryStep ==
    ASSUME QueueInv, NEW w \in Workers, Try(w)
    PROVE  QueueInv' /\ Storing' = Storing /\ Size' = Size /\ First' = First
<1>0. /\ at[w] = "try" /\ count' = count + 1
      /\ UNCHANGED <<buffer, head, tail, task, slot, tick, left, ret, dequeued>>
      /\ UNCHANGED chunks
  BY DEF Try, backend
<1>1. count \in Nat /\ Max \in Nat /\ Size \in Nat
  BY Params, OccupiedIsFinite DEF QueueInv, TypeOK
<1>2. at' = [at EXCEPT ![w] = IF count >= Max THEN "backoff" ELSE "reserve"]
  BY DEF Try, Goes
<1>3. TypeOK'
  BY <1>0, <1>1, <1>2 DEF QueueInv, TypeOK, chunks
<1>4. HandsAreFull'
  BY <1>0, <1>2, WorkerTypes DEF QueueInv, HandsAreFull
<1>5. Storing' = Storing
  BY <1>0, <1>2, WorkerTypes DEF Storing
<1>6. First' = First /\ InHand' = InHand
  BY <1>0 DEF First, InHand
<1>7. Occupied' = Occupied /\ Size' = Size
  BY <1>0, <1>5 DEF Occupied, Filled, Reserved, Size
<1>8. AssertsHold'
  BY <1>0, <1>1, <1>5 DEF QueueInv, AssertsHold
<1>9. OccupiedFromFirst'
  BY <1>0, <1>6, <1>7 DEF QueueInv, OccupiedFromFirst
<1>10. CountCovers'
  <2>1. /\ Cardinality(Admitted) \in Nat /\ Cardinality(Refused) \in Nat
        /\ InHand \in {0, 1}
        /\ count = Size + Cardinality(Admitted) + Cardinality(Refused) + InHand
        /\ Size + Cardinality(Admitted) + InHand <= Max
    BY CrowdsAreFinite DEF QueueInv, CountCovers, InHand
  <2>2. CASE count >= Max
    <3>1. Admitted' = Admitted /\ Refused' = Refused \cup {w}
      BY <1>0, <1>2, <2>2, WorkerTypes DEF Admitted, Refused
    <3>2. Cardinality(Refused') = Cardinality(Refused) + 1
      BY <1>0, <3>1, Joins
    <3>3. QED  BY <1>0, <1>1, <1>6, <1>7, <2>1, <3>1, <3>2 DEF CountCovers
  <2>3. CASE ~(count >= Max)
    <3>1. Refused' = Refused /\ Admitted' = Admitted \cup {w}
      BY <1>0, <1>2, <2>3, WorkerTypes DEF Admitted, Refused
    <3>2. Cardinality(Admitted') = Cardinality(Admitted) + 1
      BY <1>0, <3>1, Joins
    <3>3. QED  BY <1>0, <1>1, <1>6, <1>7, <2>1, <2>3, <3>1, <3>2 DEF CountCovers
  <2>4. QED  BY <2>2, <2>3
<1>11. QED  BY <1>3, <1>4, <1>5, <1>6, <1>7, <1>8, <1>9, <1>10 DEF QueueInv

LEMMA BackOffStep ==
    ASSUME QueueInv, NEW w \in Workers, BackOff(w)
    PROVE  QueueInv' /\ Storing' = Storing /\ Size' = Size /\ First' = First
<1>0. /\ at[w] = "backoff" /\ count' = count - 1 /\ at' = [at EXCEPT ![w] = "full"]
      /\ UNCHANGED <<buffer, head, tail, task, slot, tick, left, ret, dequeued>>
      /\ UNCHANGED chunks
  BY DEF BackOff, backend, Goes
<1>1. /\ Refused' = Refused \ {w} /\ Admitted' = Admitted /\ Storing' = Storing
  BY <1>0, WorkerTypes DEF Refused, Admitted, Storing
<1>2. /\ Cardinality(Refused') = Cardinality(Refused) - 1 /\ Cardinality(Refused) >= 1
  BY <1>0, <1>1, Leaves
<1>3. /\ Cardinality(Admitted) \in Nat /\ Cardinality(Refused) \in Nat
      /\ InHand \in {0, 1} /\ Size \in Nat /\ count \in Nat /\ Max \in Nat
      /\ count = Size + Cardinality(Admitted) + Cardinality(Refused) + InHand
      /\ Size + Cardinality(Admitted) + InHand <= Max
  BY CrowdsAreFinite, OccupiedIsFinite, Params DEF QueueInv, CountCovers, InHand, TypeOK
<1>4. First' = First /\ InHand' = InHand
  BY <1>0 DEF First, InHand
<1>5. Occupied' = Occupied /\ Size' = Size
  BY <1>0, <1>1 DEF Occupied, Filled, Reserved, Size
<1>6. CountCovers' /\ count' \in Nat /\ (tick = "retire" => count' > 0)
  <2>1. count' \in Nat /\ (tick = "retire" => InHand = 1)
    BY <1>0, <1>2, <1>3 DEF InHand
  <2>2. QED  BY <1>0, <1>1, <1>2, <1>3, <1>4, <1>5, <2>1 DEF CountCovers
<1>7. TypeOK'
  BY <1>0, <1>6 DEF QueueInv, TypeOK, chunks
<1>8. HandsAreFull'
  BY <1>0, WorkerTypes DEF QueueInv, HandsAreFull
<1>9. AssertsHold'
  BY <1>0, <1>1, <1>6 DEF QueueInv, AssertsHold
<1>10. OccupiedFromFirst'
  BY <1>0, <1>4, <1>5 DEF QueueInv, OccupiedFromFirst
<1>11. QED  BY <1>1, <1>4, <1>5, <1>6, <1>7, <1>8, <1>9, <1>10 DEF QueueInv

\* Who was admitted gets the element at head, which nobody else has.
LEMMA ReserveStep ==
    ASSUME QueueInv, NEW w \in Workers, Reserve(w)
    PROVE  /\ QueueInv' /\ Size < Max /\ Size' = Size + 1 /\ First' = First
           /\ Storing' = Storing \cup {w} /\ w \notin Storing
           /\ slot'[w] = head % Max /\ head % Max \in Slots /\ head % Max \notin Occupied
           /\ \A v \in Storing : slot'[v] = slot[v]
<1> DEFINE h == head % Max
<1>0. /\ at[w] = "reserve" /\ head' = (head + 1) % Wrap /\ slot' = [slot EXCEPT ![w] = h]
      /\ at' = [at EXCEPT ![w] = "store"]
      /\ UNCHANGED <<buffer, count, tail, task, tick, left, ret, dequeued>>
      /\ UNCHANGED chunks
  BY DEF Reserve, backend, Goes
<1>1. Cardinality(Admitted) >= 1 /\ Cardinality(Admitted \ {w}) = Cardinality(Admitted) - 1
  BY <1>0, Leaves
<1>2. /\ Cardinality(Admitted) \in Nat /\ Cardinality(Refused) \in Nat
      /\ InHand \in {0, 1} /\ Size \in Nat /\ count \in Nat /\ Max \in Nat
      /\ count = Size + Cardinality(Admitted) + Cardinality(Refused) + InHand
      /\ Size + Cardinality(Admitted) + InHand <= Max
  BY CrowdsAreFinite, OccupiedIsFinite, Params DEF QueueInv, CountCovers, InHand, TypeOK
<1>3. Size < Max
  BY <1>1, <1>2
<1>4. h \in Slots /\ h \notin Occupied
  BY <1>3, HeadIsFree
<1> HIDE DEF h
<1>5. /\ Storing' = Storing \cup {w} /\ w \notin Storing
      /\ Admitted' = Admitted \ {w} /\ Refused' = Refused
  BY <1>0, WorkerTypes DEF Storing, Admitted, Refused
<1>6. slot'[w] = h /\ \A v \in Workers : v # w => slot'[v] = slot[v]
  BY <1>0, WorkerTypes
<1>7. Reserved' = Reserved \cup {h}
  <2>1. Storing \subseteq Workers
    BY DEF Storing
  <2>2. Reserved' = {slot'[v] : v \in Storing \cup {w}}
    BY <1>5 DEF Reserved
  <2>3. \A v \in Storing : slot'[v] = slot[v]
    BY <1>5, <1>6, <2>1
  <2>4. QED  BY <1>6, <2>2, <2>3 DEF Reserved
<1>8. First' = First /\ InHand' = InHand /\ Occupied' = Occupied \cup {h}
  BY <1>0, <1>7 DEF First, InHand, Occupied, Filled
<1>9. OccupiedFromFirst' /\ Size' = Size + 1
  BY <1>0, <1>3, <1>8, ReserveExtends DEF h
<1>10. CountCovers'
  BY <1>0, <1>1, <1>2, <1>5, <1>8, <1>9 DEF CountCovers
<1>11. TypeOK'
  <2>1. head' \in 0 .. Wrap - 1
    BY <1>0, HeadWraps DEF QueueInv, TypeOK
  <2>2. QED  BY <1>0, <1>4, <2>1 DEF QueueInv, TypeOK, chunks
<1>12. HandsAreFull'
  BY <1>0, WorkerTypes DEF QueueInv, HandsAreFull
<1>13. AssertsHold'
  <2>1. \A v \in Storing : v \in Workers /\ v # w /\ slot[v] # h
    BY <1>4, <1>5 DEF Occupied, Reserved, Storing
  <2>2. buffer[h] = None
    BY <1>4 DEF Occupied, Filled
  <2>3. QED  BY <1>0, <1>5, <1>6, <2>1, <2>2 DEF QueueInv, AssertsHold
<1>14. QED
  <2>1. \A v \in Storing : v \in Workers /\ v # w
    BY <1>5 DEF Storing
  <2>2. QED  BY <1>3, <1>4, <1>5, <1>6, <1>8, <1>9, <1>10, <1>11, <1>12, <1>13, <2>1 DEF QueueInv, h

\* What was reserved is filled.
LEMMA StoreStep ==
    ASSUME QueueInv, NEW w \in Workers, Store(w)
    PROVE  /\ QueueInv' /\ Size' = Size /\ First' = First
           /\ Storing' = Storing \ {w} /\ w \in Storing
           /\ buffer[slot[w]] = None /\ task[w] \in Positions /\ slot[w] \in Slots
<1>0. /\ at[w] = "store" /\ buffer' = [buffer EXCEPT ![slot[w]] = task[w]]
      /\ task' = [task EXCEPT ![w] = None] /\ at' = [at EXCEPT ![w] = "idle"]
      /\ UNCHANGED <<count, head, tail, slot, tick, left, ret, dequeued>>
      /\ UNCHANGED chunks
  BY DEF Store, backend, Goes
<1>1. /\ Storing' = Storing \ {w} /\ w \in Storing
      /\ Admitted' = Admitted /\ Refused' = Refused
  BY <1>0, WorkerTypes DEF Storing, Admitted, Refused
<1>2. task[w] \in Positions /\ task[w] # None /\ slot[w] \in Slots /\ buffer[slot[w]] = None
  BY <1>0, <1>1, WorkerTypes, Params DEF QueueInv, AssertsHold
<1>3. Filled' = Filled \cup {slot[w]}
  BY <1>0, <1>2, WorkerTypes DEF Filled
<1>4. Reserved' = Reserved \ {slot[w]}
  <2>1. Reserved' = {slot[v] : v \in Storing \ {w}}
    BY <1>0, <1>1 DEF Reserved
  <2>2. \A v \in Storing : slot[v] = slot[w] => v = w
    BY <1>1 DEF QueueInv, AssertsHold
  <2>3. QED  BY <2>1, <2>2 DEF Reserved
<1>5. slot[w] \in Reserved
  BY <1>1 DEF Reserved
<1>6. Occupied' = Occupied /\ Size' = Size /\ First' = First /\ InHand' = InHand
  BY <1>0, <1>3, <1>4, <1>5 DEF Occupied, Size, First, InHand
<1>7. TypeOK'
  BY <1>0, <1>2 DEF QueueInv, TypeOK, chunks
<1>8. HandsAreFull'
  BY <1>0, WorkerTypes DEF QueueInv, HandsAreFull
<1>9. AssertsHold'
  <2>1. \A v \in Storing \ {w} : slot[v] # slot[w] /\ slot[v] \in Slots /\ v \in Workers
    BY <1>1, WorkerTypes DEF QueueInv, AssertsHold, Storing
  <2>2. QED  BY <1>0, <1>1, <2>1, WorkerTypes DEF QueueInv, AssertsHold
<1>10. OccupiedFromFirst' /\ CountCovers'
  BY <1>0, <1>1, <1>6 DEF QueueInv, OccupiedFromFirst, CountCovers
<1>11. QED  BY <1>1, <1>2, <1>6, <1>7, <1>8, <1>9, <1>10 DEF QueueInv

-----------------------------------------------------------------------------
(* The consumer.                                                           *)

LEMMA DequeueStep ==
    ASSUME QueueInv, Dequeue, buffer[tail] # None
    PROVE  /\ QueueInv' /\ Size' = Size - 1 /\ First = tail /\ First' = tail + 1
           /\ Storing' = Storing /\ Size >= 1 /\ buffer[tail] \in Positions /\ tail \in Slots
<1>0. /\ tick = "drain" /\ left > 0 /\ ret' = buffer[tail] /\ tick' = "retire"
      /\ buffer' = [buffer EXCEPT ![tail] = None]
      /\ dequeued' = Append(dequeued, buffer[tail])
      /\ UNCHANGED <<count, head, tail, at, task, slot, left>>
      /\ UNCHANGED chunks
  BY DEF Dequeue, workers
<1>1. tail \in Slots /\ buffer[tail] \in Positions /\ left \in Nat
  BY DEF QueueInv, TypeOK
<1>2. Storing' = Storing /\ Admitted' = Admitted /\ Refused' = Refused /\ Reserved' = Reserved
  BY <1>0 DEF Storing, Admitted, Refused, Reserved
<1>3. tail \in Filled /\ tail \notin Reserved
  BY <1>1 DEF Filled, Reserved, QueueInv, AssertsHold
<1>4. Filled' = Filled \ {tail}
  BY <1>0, <1>1, WorkerTypes DEF Filled
<1>5. tail \in Occupied /\ Occupied' = Occupied \ {tail} /\ First' = tail + 1 /\ First = tail
  BY <1>0, <1>2, <1>3, <1>4 DEF Occupied, First
<1>6. OccupiedFromFirst' /\ Size' = Size - 1 /\ Size >= 1
  BY <1>0, <1>5, DequeueShortens
<1>7. /\ Cardinality(Admitted) \in Nat /\ Cardinality(Refused) \in Nat
      /\ InHand = 0 /\ InHand' = 1 /\ Size \in Nat /\ count \in Nat /\ Max \in Nat
      /\ count = Size + Cardinality(Admitted) + Cardinality(Refused) + InHand
      /\ Size + Cardinality(Admitted) + InHand <= Max
  BY <1>0, CrowdsAreFinite, OccupiedIsFinite, Params DEF QueueInv, CountCovers, InHand, TypeOK
<1>8. CountCovers' /\ count > 0
  BY <1>0, <1>2, <1>6, <1>7 DEF CountCovers
<1>9. TypeOK'
  <2>1. dequeued' \in Seq(Positions)
    BY <1>0, <1>1, AppendProperties DEF QueueInv, TypeOK
  <2>2. QED  BY <1>0, <1>1, <2>1 DEF QueueInv, TypeOK, chunks
<1>10. HandsAreFull'
  BY <1>0 DEF QueueInv, HandsAreFull
<1>11. AssertsHold'
  <2>1. \A w \in Storing : slot[w] # tail /\ slot[w] \in Slots
    BY <1>3, WorkerTypes DEF Reserved, Storing
  <2>2. QED  BY <1>0, <1>1, <1>2, <1>8, <2>1, WorkerTypes DEF QueueInv, AssertsHold
<1>12. QED  BY <1>1, <1>2, <1>5, <1>6, <1>8, <1>9, <1>10, <1>11 DEF QueueInv

LEMMA RetireStep ==
    ASSUME QueueInv, Retire
    PROVE  /\ QueueInv' /\ Size' = Size /\ Storing' = Storing /\ ret \in Positions
           /\ \A k \in Nat : (First' + k) % Max = (First + k) % Max
<1>0. /\ tick = "retire" /\ tail' = (IF tail + 1 >= Max THEN 0 ELSE tail + 1) /\ count' = count - 1
      /\ loaded' = loaded \cup {ret} /\ ret' = None /\ left' = left - 1 /\ tick' = "drain"
      /\ UNCHANGED <<entities, world, jobs, buffer, head, at, task, slot, dequeued>>
  BY DEF Retire, workers
<1>1. /\ tail \in 0 .. Max - 1 /\ ret \in Positions /\ left \in Nat /\ left > 0 /\ Max \in Nat \ {0}
      /\ First = tail + 1 /\ First' = tail' /\ First \in Nat
  BY <1>0, Params DEF QueueInv, TypeOK, HandsAreFull, Slots, First
<1>2. tail' \in Slots /\ left' \in Nat
  BY <1>0, <1>1 DEF Slots
<1>3. /\ Storing' = Storing /\ Admitted' = Admitted /\ Refused' = Refused
      /\ Occupied' = Occupied /\ Size' = Size
  BY <1>0 DEF Storing, Admitted, Refused, Occupied, Filled, Reserved, Size
<1>4. \A k \in Nat : (First' + k) % Max = (First + k) % Max
  BY <1>0, <1>1, TailCatchesUp DEF QueueInv
<1>5. /\ Cardinality(Admitted) \in Nat /\ Cardinality(Refused) \in Nat
      /\ InHand = 1 /\ InHand' = 0 /\ Size \in Nat /\ count \in Nat
      /\ count = Size + Cardinality(Admitted) + Cardinality(Refused) + InHand
      /\ Size + Cardinality(Admitted) + InHand <= Max
  BY <1>0, CrowdsAreFinite, OccupiedIsFinite DEF QueueInv, CountCovers, InHand, TypeOK
<1>6. CountCovers' /\ count' \in Nat
  BY <1>0, <1>1, <1>3, <1>5 DEF CountCovers
<1>7. OccupiedFromFirst'
  <2>1. \A k \in 0 .. Size - 1 : (First' + k) % Max = (First + k) % Max
    BY <1>4, <1>5
  <2>2. {(First' + k) % Max : k \in 0 .. Size - 1} = {(First + k) % Max : k \in 0 .. Size - 1}
    BY <2>1
  <2>3. (First' + Size) % Max = (First + Size) % Max
    BY <1>4, <1>5
  <2>4. /\ Occupied' = {(First' + k) % Max : k \in 0 .. Size' - 1}
        /\ head' % Max = (First' + Size') % Max
    BY <1>0, <1>3, <2>2, <2>3 DEF QueueInv, OccupiedFromFirst
  <2>5. QED  BY <2>4 DEF OccupiedFromFirst
<1>8. TypeOK'
  BY <1>0, <1>1, <1>2, <1>6 DEF QueueInv, TypeOK
<1>9. HandsAreFull' /\ AssertsHold'
  BY <1>0, <1>3 DEF QueueInv, HandsAreFull, AssertsHold
<1>10. QED  BY <1>1, <1>3, <1>4, <1>6, <1>7, <1>8, <1>9 DEF QueueInv

LEMMA NextQueueInv == QueueInv /\ [Next]_vars => QueueInv'
<1> SUFFICES ASSUME QueueInv, [Next]_vars PROVE QueueInv'
  OBVIOUS
<1>1. ASSUME NEW w \in Workers, Work(w)
      PROVE  QueueInv'
  BY <1>1, QuietWorkStep, TryStep, BackOffStep, ReserveStep, StoreStep DEF Work
<1>2. CASE Tick
  BY <1>2, QuietTickStep, DequeueStep, RetireStep DEF Tick
<1>3. CASE (\E p \in Positions : GetEcsChunk(p)) \/ UNCHANGED vars
  BY <1>3, QuietTickStep
<1>4. QED  BY <1>1, <1>2, <1>3 DEF Next

\* The inductive invariant of mpscq.c, and the chunks in the hands of threads.
THEOREM QueueIsCorrect == Spec => []QueueInv
  BY InitQueueInv, NextQueueInv, PTL DEF Spec

\* The types of the queue and of both sides: counts are never negative, the tail
\* stays in the buffer, and head in a size_t.
THEOREM ChunkTypes == Spec => []TypeOK
<1>1. QueueInv => TypeOK
  BY DEF QueueInv
<1>2. QED  BY <1>1, QueueIsCorrect, PTL

\* The asserts of mpscq_enqueue and mpscq_dequeue: no producer finds its element
\* taken, two never get the same one, and whoever takes an item finds it counted.
THEOREM AssertsAreSafe == Spec => []AssertsHold
<1>1. QueueInv => AssertsHold
  BY DEF QueueInv
<1>2. QED  BY <1>1, QueueIsCorrect, PTL

-----------------------------------------------------------------------------
(* The queue implements TicketQueue.                                       *)

\* The item k of the queue, and the queue.
Place(k) == (First + k - 1) % Max
Line     == [k \in 1 .. Size |-> Item(Place(k))]

LEMMA Choice ==
    ASSUME NEW S, NEW f, NEW w \in S, \A v \in S : f[v] = f[w] => v = w
    PROVE  (CHOOSE v \in S : f[v] = f[w]) = w
  OBVIOUS

\* An item is in its element, or with the producer that has it reserved.
LEMMA ItemIs ==
    ASSUME QueueInv, NEW i \in Slots
    PROVE  /\ i \in Filled => Item(i) = buffer[i]
           /\ \A w \in Storing : slot[w] = i => Item(i) = task[w]
<1>1. i \in Filled => Item(i) = buffer[i]
  BY DEF Filled, Item
<1>2. ASSUME NEW w \in Storing, slot[w] = i
      PROVE  Item(i) = task[w]
  <2>1. buffer[i] = None /\ \A v \in Storing : slot[v] = slot[w] => v = w
    BY <1>2 DEF QueueInv, AssertsHold
  <2>2. (CHOOSE v \in Storing : slot[v] = slot[w]) = w
    BY <2>1, Choice
  <2>3. QED  BY <1>2, <2>1, <2>2 DEF Item
<1>3. QED  BY <1>1, <1>2

LEMMA ItemWillBe ==
    ASSUME QueueInv', NEW i \in Slots
    PROVE  /\ buffer'[i] # None => Item(i)' = buffer'[i]
           /\ \A w \in Storing' : slot'[w] = i => Item(i)' = task'[w]
<1>1. buffer'[i] # None => Item(i)' = buffer'[i]
  BY DEF Item
<1>2. ASSUME NEW w \in Storing', slot'[w] = i
      PROVE  Item(i)' = task'[w]
  <2>1. buffer'[i] = None /\ \A v \in Storing' : slot'[v] = slot'[w] => v = w
    BY <1>2 DEF QueueInv, AssertsHold
  <2>2. (CHOOSE v \in Storing' : slot'[v] = slot'[w]) = w
    BY <2>1, Choice
  <2>3. QED  BY <1>2, <2>1, <2>2 DEF Item
<1>3. QED  BY <1>1, <1>2

\* An item stays what it is as long as nobody touches its element or its producer.
LEMMA ItemStays ==
    ASSUME QueueInv, QueueInv', NEW i \in Occupied, buffer'[i] = buffer[i],
           \A v \in Storing : slot[v] = i =>
             v \in Storing' /\ slot'[v] = slot[v] /\ task'[v] = task[v]
    PROVE  Item(i)' = Item(i)
<1>1. i \in Slots
  BY OccupiedIsFinite DEF QueueInv
<1>2. CASE i \in Filled
  BY <1>1, <1>2, ItemIs, ItemWillBe DEF Filled
<1>3. CASE i \notin Filled
  <2>1. PICK v \in Storing : slot[v] = i
    BY <1>3 DEF Occupied, Reserved
  <2>2. Item(i) = task[v] /\ Item(i)' = task'[v]
    BY <1>1, <2>1, ItemIs, ItemWillBe
  <2>3. QED  BY <2>1, <2>2
<1>4. QED  BY <1>2, <1>3

LEMMA LineIs ==
    ASSUME QueueInv
    PROVE  /\ \A k \in 1 .. Size : Place(k) \in Occupied
           /\ Size \in Nat /\ Size <= Max /\ Len(Line) = Size /\ DOMAIN Line = 1 .. Size
           /\ Line \in Seq({Item(i) : i \in Occupied})
<1>1. Size \in Nat /\ First \in Nat
  BY OccupiedIsFinite, FirstIsNat DEF QueueInv
<1>2. Size <= Max
  BY <1>1, CrowdsAreFinite, Params DEF QueueInv, CountCovers, InHand
<1>3. ASSUME NEW k \in 1 .. Size
      PROVE  Place(k) \in Occupied
  <2>1. k - 1 \in 0 .. Size - 1 /\ First + (k - 1) = First + k - 1
    BY <1>1
  <2>2. QED  BY <2>1 DEF QueueInv, OccupiedFromFirst, Place
<1>4. Line \in Seq({Item(i) : i \in Occupied}) /\ Len(Line) = Size
  BY <1>1, <1>3 DEF Line
<1>5. QED  BY <1>1, <1>2, <1>3, <1>4 DEF Line

\* The queue after a step that lets nobody in or out.
LEMMA LineStays ==
    ASSUME QueueInv, QueueInv', Size' = Size,
           \A k \in Nat : (First' + k) % Max = (First + k) % Max,
           \A i \in Occupied : Item(i)' = Item(i)
    PROVE  Line' = Line
<1>1. Size \in Nat /\ First \in Nat /\ First' \in Nat
  <2>1. tail' \in Slots
    BY DEF QueueInv, TypeOK
  <2>2. First' \in Nat
    BY <2>1, SlotIsNat DEF First
  <2>3. QED  BY <2>2, OccupiedIsFinite, FirstIsNat DEF QueueInv
<1>2. ASSUME NEW k \in 1 .. Size
      PROVE  Item(Place(k))' = Item(Place(k))
  <2>1. k - 1 \in Nat /\ First + (k - 1) = First + k - 1 /\ First' + (k - 1) = First' + k - 1
    BY <1>1
  <2>2. Place(k)' = Place(k)
    BY <2>1 DEF Place
  <2>3. Place(k) \in Occupied
    BY LineIs
  <2>4. ASSUME NEW i, i = Place(k)
        PROVE  Item(Place(k))' = Item(i)'
    BY <2>2, <2>4 DEF Item
  <2>5. QED  BY <2>3, <2>4
<1>3. QED  BY <1>2 DEF Line

TicketStep == [Tickets!Next]_(Tickets!vars)

LEMMA LineIsQueue == Line = [k \in 1 .. Size |-> Item((First + k - 1) % Max)]
  BY DEF Line, Place

LEMMA ItemsAreChunks ==
    ASSUME QueueInv
    PROVE  \A i \in Occupied : Item(i) \in Positions
<1> SUFFICES ASSUME NEW i \in Occupied PROVE Item(i) \in Positions
  OBVIOUS
<1>1. i \in Slots
  BY OccupiedIsFinite DEF QueueInv
<1>2. CASE i \in Filled
  BY <1>1, <1>2, ItemIs, WorkerTypes DEF Filled
<1>3. CASE i \notin Filled
  <2>1. PICK v \in Storing : slot[v] = i
    BY <1>3 DEF Occupied, Reserved
  <2>2. v \in Workers /\ at[v] # "idle"
    BY DEF Storing
  <2>3. QED  BY <1>1, <2>1, <2>2, ItemIs, WorkerTypes
<1>4. QED  BY <1>2, <1>3

\* Whoever does not reserve, fill or empty an element cannot be seen.
LEMMA OthersAreUnseen ==
    ASSUME QueueInv, QueueInv', Size' = Size, First' = First, Storing' = Storing,
           UNCHANGED <<buffer, slot, dequeued>>,
           \A v \in Storing : task'[v] = task[v]
    PROVE  UNCHANGED <<Line, dequeued>>
<1>1. \A i \in Occupied : Item(i)' = Item(i)
  BY ItemStays
<1>2. QED  BY <1>1, LineStays

LEMMA QuietIsUnseen ==
    ASSUME QueueInv, QueueInv', [Next]_vars,
           ~\E w \in Workers : Reserve(w) \/ Store(w),
           ~Retire, ~(Dequeue /\ buffer[tail] # None)
    PROVE  UNCHANGED <<Line, dequeued>>
<1>1. ASSUME NEW w \in Workers, TakeJob(w) \/ Generate(w) \/ Try(w) \/ BackOff(w) \/ Retry(w)
      PROVE  UNCHANGED <<Line, dequeued>>
  <2>1. Storing' = Storing /\ Size' = Size /\ First' = First
    BY <1>1, QuietWorkStep, TryStep, BackOffStep
  <2>2. UNCHANGED <<buffer, slot, dequeued>> /\ \A v \in Workers : v # w => task'[v] = task[v]
    BY <1>1, WorkerTypes DEF TakeJob, Generate, Try, BackOff, Retry, queue, backend
  <2>3. w \notin Storing
    BY <1>1 DEF TakeJob, Generate, Try, BackOff, Retry, Storing
  <2>4. \A v \in Storing : v \in Workers /\ v # w
    BY <2>3 DEF Storing
  <2>5. QED  BY <2>1, <2>2, <2>4, OthersAreUnseen
<1>2. ASSUME \/ ReadCount \/ Drained \/ EndTick
             \/ Dequeue /\ buffer[tail] = None
             \/ \E p \in Positions : GetEcsChunk(p)
             \/ UNCHANGED vars
      PROVE  UNCHANGED <<Line, dequeued>>
  <2>1. Storing' = Storing /\ Size' = Size /\ First' = First
    BY <1>2, QuietTickStep
  <2>2. UNCHANGED <<buffer, slot, task, dequeued>>
    BY <1>2 DEF ReadCount, Drained, EndTick, Dequeue, GetEcsChunk, vars, queue, workers, backend
  <2>3. QED  BY <2>1, <2>2, OthersAreUnseen
<1>3. CASE \E w \in Workers : Work(w)
  BY <1>1, <1>3 DEF Work
<1>4. CASE Tick \/ (\E p \in Positions : GetEcsChunk(p)) \/ UNCHANGED vars
  BY <1>2, <1>4 DEF Tick
<1>5. QED  BY <1>3, <1>4 DEF Next

\* The item gets its place in the queue when its element is reserved.
LEMMA ReserveEnqueues ==
    ASSUME QueueInv, QueueInv', NEW w \in Workers, Reserve(w)
    PROVE  /\ task[w] \in Positions /\ Len(Line) < Max
           /\ Line' = Append(Line, task[w]) /\ dequeued' = dequeued
<1>1. /\ Size < Max /\ Size' = Size + 1 /\ First' = First
      /\ Storing' = Storing \cup {w} /\ w \notin Storing
      /\ slot'[w] = head % Max /\ head % Max \in Slots /\ head % Max \notin Occupied
      /\ \A v \in Storing : slot'[v] = slot[v]
  BY ReserveStep
<1>2. UNCHANGED <<buffer, task, dequeued>> /\ at[w] = "reserve"
  BY DEF Reserve, backend
<1>3. task[w] \in Positions
  BY <1>2, WorkerTypes
<1>4. Size \in Nat /\ First \in Nat /\ Len(Line) = Size
  BY OccupiedIsFinite, FirstIsNat, LineIs DEF QueueInv
<1>5. \A i \in Occupied : Item(i)' = Item(i)
  BY <1>1, <1>2, ItemStays
<1>6. ASSUME NEW k \in 1 .. Size
      PROVE  Item(Place(k))' = Item(Place(k))
  <2>1. Place(k) \in Occupied /\ Place(k)' = Place(k)
    BY <1>1, LineIs DEF Place
  <2>2. ASSUME NEW i, i = Place(k)
        PROVE  Item(Place(k))' = Item(i)'
    BY <2>1, <2>2 DEF Item
  <2>3. QED  BY <1>5, <2>1, <2>2
<1>7. PICK n \in Nat : n = Size
  BY <1>4
<1>8. Item(Place(n + 1))' = task[w]
  <2>1. First + (n + 1) - 1 = First + n
    BY <1>4
  <2>2. Place(n + 1)' = head % Max
    BY <1>1, <1>7, <2>1 DEF Place, QueueInv, OccupiedFromFirst
  <2>3. ASSUME NEW i, i = Place(n + 1)'
        PROVE  Item(Place(n + 1))' = task'[w]
    <3>1. Item(Place(n + 1))' = Item(i)'
      BY <2>3 DEF Item
    <3>2. QED  BY <1>1, <2>2, <2>3, <3>1, ItemWillBe
  <2>4. QED  BY <1>2, <2>3
<1>9. Line' = Append(Line, task[w])
  <2>1. 1 .. Size' = (1 .. Size) \cup {n + 1} /\ n + 1 \notin 1 .. Size
    BY <1>1, <1>4, <1>7
  <2>2. Line' = [k \in 1 .. Size' |-> Item(Place(k))']
    BY DEF Line
  <2>3. Line' = [k \in 1 .. Size' |-> IF k = n + 1 THEN task[w] ELSE Item(Place(k))]
    BY <1>6, <1>8, <2>1, <2>2
  <2>4. Line = [k \in 1 .. n |-> Item(Place(k))] /\ Len(Line) = n
    BY <1>4, <1>7 DEF Line
  <2>5. QED  BY <1>1, <1>7, <2>3, <2>4
<1>10. QED  BY <1>1, <1>2, <1>3, <1>4, <1>9

\* What was reserved is filled, which cannot be seen.
LEMMA StoreIsUnseen ==
    ASSUME QueueInv, QueueInv', NEW w \in Workers, Store(w)
    PROVE  UNCHANGED <<Line, dequeued>>
<1>1. /\ Size' = Size /\ First' = First /\ Storing' = Storing \ {w} /\ w \in Storing
      /\ task[w] \in Positions /\ slot[w] \in Slots /\ buffer[slot[w]] = None
  BY StoreStep
<1>2. /\ buffer' = [buffer EXCEPT ![slot[w]] = task[w]]
      /\ task' = [task EXCEPT ![w] = None] /\ UNCHANGED <<slot, dequeued>>
  BY DEF Store, backend
<1>3. ASSUME NEW i \in Occupied
      PROVE  Item(i)' = Item(i)
  <2>1. i \in Slots
    BY OccupiedIsFinite DEF QueueInv
  <2>2. CASE i = slot[w]
    <3>1. Item(i) = task[w]
      BY <1>1, <2>1, <2>2, ItemIs
    <3>2. buffer'[i] = task[w] /\ task[w] # None
      BY <1>1, <1>2, <2>2, WorkerTypes, Params
    <3>3. QED  BY <2>1, <3>1, <3>2, ItemWillBe
  <2>3. CASE i # slot[w]
    <3>1. buffer'[i] = buffer[i]
      BY <1>2, <2>1, <2>3, WorkerTypes
    <3>2. \A v \in Storing : slot[v] = i =>
            v \in Storing' /\ slot'[v] = slot[v] /\ task'[v] = task[v]
      BY <1>1, <1>2, <2>3, WorkerTypes DEF Storing
    <3>3. QED  BY <3>1, <3>2, ItemStays
  <2>4. QED  BY <2>2, <2>3
<1>4. QED  BY <1>1, <1>2, <1>3, LineStays

LEMMA TailIs ==
    ASSUME NEW S, NEW s \in Seq(S), s # <<>>
    PROVE  Tail(s) = [k \in 1 .. Len(s) - 1 |-> s[k + 1]]
<1>1. /\ Tail(s) \in Seq(S) /\ Len(Tail(s)) = Len(s) - 1
      /\ \A k \in 1 .. Len(Tail(s)) : Tail(s)[k] = s[k + 1]
  BY HeadTailProperties
<1>2. Tail(s) \in [1 .. Len(Tail(s)) -> S]
  BY <1>1, LenProperties
<1>3. QED  BY <1>1, <1>2

\* The exchange takes the first item.
LEMMA DequeueDequeues ==
    ASSUME QueueInv, QueueInv', Dequeue, buffer[tail] # None
    PROVE  /\ Line # <<>> /\ Line' = Tail(Line) /\ dequeued' = Append(dequeued, Head(Line))
<1>1. /\ Size' = Size - 1 /\ First = tail /\ First' = tail + 1
      /\ Storing' = Storing /\ Size >= 1 /\ tail \in Slots
  BY DequeueStep
<1>2. /\ buffer' = [buffer EXCEPT ![tail] = None] /\ dequeued' = Append(dequeued, buffer[tail])
      /\ UNCHANGED <<slot, task>>
  BY DEF Dequeue, workers
<1>3. Size \in Nat /\ Size <= Max /\ Len(Line) = Size /\ tail \in Nat /\ tail < Max /\ Max \in Nat \ {0}
  BY LineIs, FirstIsNat, Params DEF QueueInv
<1>4. tail % Max = tail
  BY <1>3, FirstRound
<1>5. Line[1] = buffer[tail]
  <2>1. Place(1) = tail
    <3>1. First + 1 - 1 = tail
      BY <1>1, <1>3
    <3>2. QED  BY <1>4, <3>1 DEF Place
  <2>2. Line[1] = Item(tail)
    BY <1>1, <1>3, <2>1 DEF Line
  <2>3. QED  BY <1>1, <2>2, ItemIs DEF Filled
<1>6. ASSUME NEW k \in 1 .. Size - 1
      PROVE  Item(Place(k))' = Item(Place(k + 1))
  <2>1. Place(k)' = Place(k + 1)
    <3>1. First' + k - 1 = First + (k + 1) - 1
      BY <1>1, <1>3
    <3>2. QED  BY <3>1 DEF Place
  <2>2. Place(k + 1) \in Occupied /\ Place(k + 1) \in Slots
    <3>1. k + 1 \in 1 .. Size
      BY <1>3
    <3>2. QED  BY <3>1, LineIs, OccupiedIsFinite DEF QueueInv
  <2>3. Place(k + 1) # tail
    <3>1. /\ tail + k \in Nat /\ tail < tail + k /\ tail + k < tail + Max
          /\ First + (k + 1) - 1 = tail + k
      BY <1>1, <1>3
    <3>2. QED  BY <1>3, <1>4, <3>1, RoundDiffers DEF Place
  <2>4. ASSUME NEW i, i = Place(k + 1)
        PROVE  Item(Place(k))' = Item(i)'
    BY <2>1, <2>4 DEF Item
  <2>5. ASSUME NEW i, i = Place(k + 1)
        PROVE  Item(i)' = Item(i)
    <3>1. i \in Occupied /\ buffer'[i] = buffer[i]
      BY <1>1, <1>2, <2>2, <2>3, <2>5, WorkerTypes
    <3>2. \A v \in Storing : v \in Storing' /\ slot'[v] = slot[v] /\ task'[v] = task[v]
      BY <1>1, <1>2
    <3>3. QED  BY <3>1, <3>2, ItemStays
  <2>6. QED  BY <2>4, <2>5
<1>7. Line' = Tail(Line)
  <2>1. Line' = [k \in 1 .. Size - 1 |-> Item(Place(k))']
    BY <1>1 DEF Line
  <2>2. Line' = [k \in 1 .. Size - 1 |-> Line[k + 1]]
    <3>1. \A k \in 1 .. Size - 1 : k + 1 \in 1 .. Size
      BY <1>3
    <3>2. \A k \in 1 .. Size - 1 : Line[k + 1] = Item(Place(k + 1))
      BY <3>1 DEF Line
    <3>3. QED  BY <1>6, <2>1, <3>2
  <2>3. Line \in Seq({Item(i) : i \in Occupied}) /\ Line # <<>>
    BY <1>1, <1>3, LineIs
  <2>4. Tail(Line) = [k \in 1 .. Len(Line) - 1 |-> Line[k + 1]]
    BY <2>3, TailIs
  <2>5. QED  BY <1>3, <2>2, <2>4
<1>8. Line # <<>> /\ Head(Line) = Line[1]
  <2>1. Line \in Seq({Item(i) : i \in Occupied}) /\ Line # <<>>
    BY <1>1, <1>3, LineIs
  <2>2. QED  BY <2>1
<1>9. QED  BY <1>2, <1>5, <1>7, <1>8

LEMMA RetireIsUnseen ==
    ASSUME QueueInv, QueueInv', Retire
    PROVE  UNCHANGED <<Line, dequeued>>
<1>1. /\ Size' = Size /\ Storing' = Storing
      /\ \A k \in Nat : (First' + k) % Max = (First + k) % Max
  BY RetireStep
<1>2. UNCHANGED <<buffer, slot, task, dequeued>>
  BY DEF Retire, workers
<1>3. \A i \in Occupied : Item(i)' = Item(i)
  BY <1>1, <1>2, ItemStays
<1>4. QED  BY <1>1, <1>2, <1>3, LineStays

LEMMA QueueStep ==
    ASSUME QueueInv, QueueInv', [Next]_vars
    PROVE  TicketStep
<1>1. Line = [k \in 1 .. Size |-> Item((First + k - 1) % Max)]
  BY LineIsQueue
<1>2. Line' = [k \in 1 .. Size |-> Item((First + k - 1) % Max)]'
  BY DEF Line, Place
<1>3. ASSUME NEW w \in Workers, Reserve(w)
      PROVE  TicketStep
  <2>1. Tickets!Enqueue(task[w]) /\ task[w] \in Positions
    BY <1>1, <1>2, <1>3, ReserveEnqueues DEF Tickets!Enqueue
  <2>2. QED  BY <2>1 DEF TicketStep, Tickets!Next
<1>4. CASE Dequeue /\ buffer[tail] # None
  <2>1. Tickets!Dequeue
    BY <1>1, <1>2, <1>4, DequeueDequeues DEF Tickets!Dequeue
  <2>2. QED  BY <2>1 DEF TicketStep, Tickets!Next
<1>5. ASSUME UNCHANGED <<Line, dequeued>>
      PROVE  TicketStep
  BY <1>1, <1>2, <1>5 DEF TicketStep, Tickets!vars
<1>6. ASSUME NEW w \in Workers, Store(w)
      PROVE  TicketStep
  BY <1>5, <1>6, StoreIsUnseen
<1>7. CASE Retire
  BY <1>5, <1>7, RetireIsUnseen
<1>8. QED  BY <1>3, <1>4, <1>5, <1>6, <1>7, QuietIsUnseen

LEMMA QueueInit == Init => Tickets!Init
<1> SUFFICES ASSUME Init PROVE Tickets!Init
  OBVIOUS
<1>1. Occupied = {} /\ Size = 0
  <2>1. Occupied = {}
    BY DEF Init, Occupied, Filled, Reserved, Storing
  <2>2. QED  BY <2>1, FS_EmptySet DEF Size
<1>2. QED  BY <1>1 DEF Init, Tickets!Init

LEMMA QueueNext == QueueInv /\ [Next]_vars => TicketStep
  BY NextQueueInv, QueueStep

\* mpscq.c is the queue that mpscq.h promises: never more than its capacity, and
\* what was let in comes out once, in the order in which it was let in, whatever
\* producers are refused or stopped in the middle.
THEOREM QueueKeepsItsPromise == Spec => IsAQueue
  BY QueueInit, QueueNext, QueueIsCorrect, PTL DEF Spec, IsAQueue, Tickets!Spec, TicketStep

-----------------------------------------------------------------------------
(* A position is generated once.                                           *)

Queued(p)   == \E i \in 1 .. Len(jobs) : jobs[i] = p
Worked(p)   == \E w \in Workers : task[w] = p
Buffered(p) == \E i \in Slots : buffer[i] = p
Handed(p)   == ret = p

\* The chunk of p is nowhere twice, ...
OnePlaceEach(p) ==
    /\ \A i, j \in 1 .. Len(jobs) : jobs[i] = p /\ jobs[j] = p => i = j
    /\ \A v, w \in Workers : task[v] = p /\ task[w] = p => v = w
    /\ \A i, j \in Slots : buffer[i] = p /\ buffer[j] = p => i = j

\* ... and not in two sorts of places.
OneSort(p) ==
    /\ Queued(p) => ~(Worked(p) \/ Buffered(p) \/ Handed(p) \/ p \in loaded)
    /\ Worked(p) => ~(Buffered(p) \/ Handed(p) \/ p \in loaded)
    /\ Buffered(p) => ~(Handed(p) \/ p \in loaded)
    /\ Handed(p) => p \notin loaded

Somewhere(p) == Queued(p) \/ Worked(p) \/ Buffered(p) \/ Handed(p) \/ p \in loaded

OnItsWay(p) == OnePlaceEach(p) /\ OneSort(p) /\ (p \in entities <=> Somewhere(p))

Travel == (\A p \in Positions : OnItsWay(p)) /\ PassedOnIsMade /\ loaded \subseteq world

LEMMA TravelIsOnce == Travel => GeneratedOnce
<1> SUFFICES ASSUME Travel, NEW p \in Positions
             PROVE  /\ p \in entities <=> Places(p) # {}
                    /\ \A x, y \in Places(p) : x = y
  BY DEF Travel, GeneratedOnce
<1>1. OnItsWay(p)
  BY DEF Travel
<1>2. p \in entities <=> Places(p) # {}
  <2>1. Places(p) # {} <=> Somewhere(p)
    BY DEF Places, Somewhere, Queued, Worked, Buffered, Handed
  <2>2. QED  BY <1>1, <2>1 DEF OnItsWay
<1>3. ASSUME NEW x \in Places(p), NEW y \in Places(p)
      PROVE  x = y
  <2>1. ASSUME NEW z \in Places(p)
        PROVE  \/ Queued(p) /\ \E i \in 1 .. Len(jobs) : jobs[i] = p /\ z = <<"jobs", i>>
               \/ Worked(p) /\ \E w \in Workers : task[w] = p /\ z = <<"task", w>>
               \/ Buffered(p) /\ \E i \in Slots : buffer[i] = p /\ z = <<"buffer", i>>
               \/ Handed(p) /\ z = <<"ret", 0>>
               \/ p \in loaded /\ z = <<"loaded", 0>>
    BY <2>1 DEF Places, Queued, Worked, Buffered, Handed
  <2>2. CASE Queued(p)
    <3>1. ~Worked(p) /\ ~Buffered(p) /\ ~Handed(p) /\ p \notin loaded
      BY <1>1, <2>2 DEF OnItsWay, OneSort
    <3>2. \A i, j \in 1 .. Len(jobs) : jobs[i] = p /\ jobs[j] = p => i = j
      BY <1>1 DEF OnItsWay, OnePlaceEach
    <3>3. QED  BY <2>1, <3>1, <3>2
  <2>3. CASE Worked(p)
    <3>1. ~Queued(p) /\ ~Buffered(p) /\ ~Handed(p) /\ p \notin loaded
      BY <1>1, <2>3 DEF OnItsWay, OneSort
    <3>2. \A v, w \in Workers : task[v] = p /\ task[w] = p => v = w
      BY <1>1 DEF OnItsWay, OnePlaceEach
    <3>3. QED  BY <2>1, <3>1, <3>2
  <2>4. CASE Buffered(p)
    <3>1. ~Queued(p) /\ ~Worked(p) /\ ~Handed(p) /\ p \notin loaded
      BY <1>1, <2>4 DEF OnItsWay, OneSort
    <3>2. \A i, j \in Slots : buffer[i] = p /\ buffer[j] = p => i = j
      BY <1>1 DEF OnItsWay, OnePlaceEach
    <3>3. QED  BY <2>1, <3>1, <3>2
  <2>5. CASE Handed(p)
    <3>1. ~Queued(p) /\ ~Worked(p) /\ ~Buffered(p) /\ p \notin loaded
      BY <1>1, <2>5 DEF OnItsWay, OneSort
    <3>2. QED  BY <2>1, <3>1
  <2>6. CASE p \in loaded
    <3>1. ~Queued(p) /\ ~Worked(p) /\ ~Buffered(p) /\ ~Handed(p)
      BY <1>1, <2>6 DEF OnItsWay, OneSort
    <3>2. QED  BY <2>1, <3>1
  <2>7. QED  BY <1>3, <2>1, <2>2, <2>3, <2>4, <2>5, <2>6
<1>4. QED  BY <1>2, <1>3

LEMMA InitTravel == Init => Travel
<1> SUFFICES ASSUME Init PROVE Travel
  OBVIOUS
<1>1. \A w \in Workers : task[w] = None /\ at[w] = "idle"
  BY DEF Init
<1>2. \A i \in Slots : buffer[i] = None
  BY DEF Init
<1>3. PassedOnIsMade /\ loaded \subseteq world
  BY <1>1, <1>2 DEF Init, PassedOnIsMade, Filled
<1>4. ASSUME NEW p \in Positions
      PROVE  OnItsWay(p)
  <2>1. p # None
    BY Params
  <2>2. jobs = <<>> /\ Len(jobs) = 0 /\ ret = None /\ entities = {} /\ loaded = {}
    BY DEF Init
  <2>3. ~Queued(p) /\ ~Worked(p) /\ ~Buffered(p) /\ ~Handed(p)
    BY <1>1, <1>2, <2>1, <2>2 DEF Queued, Worked, Buffered, Handed
  <2>4. OnePlaceEach(p)
    BY <1>1, <1>2, <2>1, <2>2 DEF OnePlaceEach
  <2>5. QED  BY <2>2, <2>3, <2>4 DEF OnItsWay, OneSort, Somewhere
<1>5. QED  BY <1>3, <1>4 DEF Travel

\* Where nothing is passed on the world may only grow.
LEMMA NothingMoves ==
    ASSUME QueueInv, Travel, UNCHANGED <<entities, jobs, task, buffer, ret, loaded>>,
           world \subseteq world', PassedOnIsMade'
    PROVE  Travel'
<1>1. ASSUME NEW p \in Positions
      PROVE  OnItsWay(p)'
  BY DEF Travel, OnItsWay, OnePlaceEach, OneSort, Somewhere, Queued, Worked, Buffered, Handed
<1>2. loaded' \subseteq world'
  BY DEF Travel
<1>3. QED  BY <1>1, <1>2 DEF Travel

LEMMA WorldGrows ==
    ASSUME Travel, UNCHANGED <<task, buffer, ret>>, world \subseteq world',
           (tick' = "retire") = (tick = "retire"),
           \A w \in Workers : at'[w] \notin {"idle", "generate"} =>
             at[w] \notin {"idle", "generate"} \/ task[w] \in world'
    PROVE  PassedOnIsMade'
  BY DEF Travel, PassedOnIsMade, Filled

\* A chunk is asked for when its entity is made, and never again.
LEMMA AskedOnce ==
    ASSUME QueueInv, Travel, NEW q \in Positions, GetEcsChunk(q)
    PROVE  Travel'
<1>0. /\ q \notin entities /\ entities' = entities \cup {q} /\ jobs \in Seq(Positions)
      /\ UNCHANGED <<world, task, at, buffer, ret, tick>>
      /\ q \in world => loaded' = loaded \cup {q} /\ jobs' = jobs
      /\ q \notin world => loaded' = loaded /\ jobs' = Append(jobs, q)
  BY DEF GetEcsChunk, queue, workers, backend, QueueInv, TypeOK
<1>1. PassedOnIsMade'
  BY <1>0, WorldGrows
<1>2. loaded' \subseteq world'
  BY <1>0 DEF Travel
<1>3. \A p \in Positions : /\ Worked(p)' = Worked(p) /\ Buffered(p)' = Buffered(p)
                           /\ Handed(p)' = Handed(p)
  BY <1>0 DEF Worked, Buffered, Handed
<1>4. ~Somewhere(q)
  BY <1>0 DEF Travel, OnItsWay
<1>5. ASSUME NEW p \in Positions
      PROVE  OnItsWay(p)'
  <2>1. OnItsWay(p)
    BY DEF Travel
  <2>2. CASE q \in world
    <3>1. Queued(p)' = Queued(p) /\ OnePlaceEach(p)'
      BY <1>0, <2>1, <2>2 DEF Queued, OnItsWay, OnePlaceEach
    <3>2. p \in loaded' <=> p \in loaded \/ p = q
      BY <1>0, <2>2
    <3>3. QED
      BY <1>0, <1>3, <1>4, <2>1, <3>1, <3>2 DEF OnItsWay, OneSort, Somewhere
  <2>3. CASE q \notin world
    <3>1. /\ Len(jobs) \in Nat /\ Len(jobs') = Len(jobs) + 1 /\ jobs'[Len(jobs) + 1] = q
          /\ \A i \in 1 .. Len(jobs) : jobs'[i] = jobs[i]
      BY <1>0, <2>3, AppendProperties, LenProperties
    <3>2. Queued(p)' <=> Queued(p) \/ p = q
      <4>1. 1 .. Len(jobs') = (1 .. Len(jobs)) \cup {Len(jobs) + 1}
        BY <3>1
      <4>2. QED  BY <3>1, <4>1 DEF Queued
    <3>3. OnePlaceEach(p)'
      <4>1. p = q => \A i \in 1 .. Len(jobs) : jobs[i] # p
        BY <1>4 DEF Somewhere, Queued
      <4>2. \A i \in 1 .. Len(jobs') : i \in 1 .. Len(jobs) \/ i = Len(jobs) + 1
        BY <3>1
      <4>3. QED  BY <1>0, <2>1, <3>1, <4>1, <4>2 DEF OnItsWay, OnePlaceEach
    <3>4. QED
      BY <1>0, <1>3, <1>4, <2>1, <2>3, <3>2, <3>3 DEF OnItsWay, OneSort, Somewhere
  <2>4. QED  BY <2>2, <2>3
<1>6. QED  BY <1>1, <1>2, <1>5 DEF Travel

\* From the list of jobs to a worker.
LEMMA TakenOnce ==
    ASSUME QueueInv, Travel, NEW w \in Workers, TakeJob(w)
    PROVE  Travel'
<1> DEFINE q == Head(jobs)
<1>0. /\ jobs # <<>> /\ jobs \in Seq(Positions) /\ q \in Positions
      /\ jobs' = Tail(jobs) /\ at' = [at EXCEPT ![w] = "generate"]
      /\ task' = [task EXCEPT ![w] = q] /\ task[w] = None
      /\ UNCHANGED <<entities, loaded, world, buffer, ret, tick>>
  BY HeadTailProperties DEF TakeJob, Goes, queue, backend, QueueInv, TypeOK, HandsAreFull
<1>1. /\ Len(jobs) \in Nat \ {0} /\ jobs[1] = q /\ Len(jobs') = Len(jobs) - 1
      /\ \A i \in 1 .. Len(jobs') : jobs'[i] = jobs[i + 1]
  BY <1>0, HeadTailProperties, LenProperties, EmptySeq
<1> HIDE DEF q
<1>2. /\ task'[w] = q
      /\ \A v \in Workers : v # w => task'[v] = task[v] /\ at'[v] = at[v]
      /\ at'[w] = "generate"
  BY <1>0, WorkerTypes
<1>3. PassedOnIsMade'
  BY <1>0, <1>2 DEF Travel, PassedOnIsMade, Filled
<1>4. Queued(q)
  BY <1>1 DEF Queued
<1>5. ASSUME NEW p \in Positions
      PROVE  OnItsWay(p)'
  <2>1. OnItsWay(p) /\ OnItsWay(q) /\ p # None
    BY <1>0, Params DEF Travel
  <2>2. \A i \in 1 .. Len(jobs') : i \in 1 .. Len(jobs) /\ i + 1 \in 1 .. Len(jobs)
    BY <1>1
  <2>3. \A i \in 1 .. Len(jobs) : i # 1 => i - 1 \in 1 .. Len(jobs') /\ (i - 1) + 1 = i
    BY <1>1
  <2>4. Queued(p)' <=> Queued(p) /\ p # q
    <3>1. CASE p = q
      <4>1. \A i \in 1 .. Len(jobs') : jobs[i + 1] # q
        <5>1. \A i \in 1 .. Len(jobs') : i + 1 # 1 /\ 1 \in 1 .. Len(jobs)
          BY <1>1
        <5>2. QED  BY <1>1, <2>1, <2>2, <5>1 DEF OnItsWay, OnePlaceEach
      <4>2. QED  BY <1>1, <3>1, <4>1 DEF Queued
    <3>2. CASE p # q
      <4>1. Queued(p)' => Queued(p)
        BY <1>1, <2>2 DEF Queued
      <4>2. ASSUME NEW i \in 1 .. Len(jobs), jobs[i] = p
            PROVE  Queued(p)'
        <5>1. i - 1 \in 1 .. Len(jobs') /\ jobs'[i - 1] = p
          BY <1>1, <2>3, <3>2, <4>2
        <5>2. QED  BY <5>1 DEF Queued
      <4>3. QED  BY <3>2, <4>1, <4>2 DEF Queued
    <3>3. QED  BY <3>1, <3>2
  <2>5. Worked(p)' <=> Worked(p) \/ p = q
    BY <1>0, <1>2, <2>1 DEF Worked
  <2>6. OnePlaceEach(p)'
    <3>1. ASSUME NEW i \in 1 .. Len(jobs'), NEW j \in 1 .. Len(jobs'), jobs'[i] = p, jobs'[j] = p
          PROVE  i = j
      <4>1. i + 1 = j + 1
        BY <1>1, <2>1, <2>2, <3>1 DEF OnItsWay, OnePlaceEach
      <4>2. QED  BY <4>1
    <3>2. p = q => ~Worked(p)
      BY <1>4, <2>1 DEF OnItsWay, OneSort
    <3>3. \A u, v \in Workers : task'[u] = p /\ task'[v] = p => u = v
      BY <1>2, <2>1, <3>2 DEF Worked, OnItsWay, OnePlaceEach
    <3>4. \A i, j \in Slots : buffer'[i] = p /\ buffer'[j] = p => i = j
      BY <1>0, <2>1 DEF OnItsWay, OnePlaceEach
    <3>5. QED  BY <3>1, <3>3, <3>4 DEF OnePlaceEach
  <2>7. Buffered(p)' = Buffered(p) /\ Handed(p)' = Handed(p)
    BY <1>0 DEF Buffered, Handed
  <2>8. QED  BY <1>0, <1>4, <2>1, <2>4, <2>5, <2>6, <2>7 DEF OnItsWay, OneSort, Somewhere
<1>6. loaded' \subseteq world'
  BY <1>0 DEF Travel
<1>7. QED  BY <1>3, <1>5, <1>6 DEF Travel

\* From a worker into its element.
LEMMA StoredOnce ==
    ASSUME QueueInv, Travel, NEW w \in Workers, Store(w)
    PROVE  Travel'
<1> DEFINE q == task[w]
           e == slot[w]
<1>0. /\ at[w] = "store" /\ q \in Positions /\ e \in Slots /\ buffer[e] = None
      /\ buffer' = [buffer EXCEPT ![e] = q] /\ task' = [task EXCEPT ![w] = None]
      /\ at' = [at EXCEPT ![w] = "idle"]
      /\ UNCHANGED <<entities, loaded, world, jobs, ret, tick>>
  BY StoreStep DEF Store, Goes, chunks, backend
<1>1. /\ task'[w] = None /\ at'[w] = "idle" /\ buffer'[e] = q
      /\ \A v \in Workers : v # w => task'[v] = task[v] /\ at'[v] = at[v]
      /\ \A i \in Slots : i # e => buffer'[i] = buffer[i]
  BY <1>0, WorkerTypes
<1>2. q \in world
  BY <1>0 DEF Travel, PassedOnIsMade
<1>3. PassedOnIsMade'
  BY <1>0, <1>1, <1>2 DEF Travel, PassedOnIsMade, Filled
<1>4. Worked(q)
  BY DEF Worked
<1>5. ASSUME NEW p \in Positions
      PROVE  OnItsWay(p)'
  <2>1. OnItsWay(p) /\ OnItsWay(q) /\ p # None
    BY <1>0, Params DEF Travel
  <2>2. Worked(p)' <=> Worked(p) /\ p # q
    BY <1>1, <2>1 DEF Worked, OnItsWay, OnePlaceEach
  <2>3. Buffered(p)' <=> Buffered(p) \/ p = q
    BY <1>0, <1>1, <2>1 DEF Buffered
  <2>4. OnePlaceEach(p)'
    <3>1. p = q => ~Buffered(p)
      BY <1>4, <2>1 DEF OnItsWay, OneSort
    <3>2. \A i, j \in Slots : buffer'[i] = p /\ buffer'[j] = p => i = j
      BY <1>1, <2>1, <3>1 DEF Buffered, OnItsWay, OnePlaceEach
    <3>3. \A u, v \in Workers : task'[u] = p /\ task'[v] = p => u = v
      BY <1>1, <2>1 DEF OnItsWay, OnePlaceEach
    <3>4. \A i, j \in 1 .. Len(jobs') : jobs'[i] = p /\ jobs'[j] = p => i = j
      BY <1>0, <2>1 DEF OnItsWay, OnePlaceEach
    <3>5. QED  BY <3>2, <3>3, <3>4 DEF OnePlaceEach
  <2>5. Queued(p)' = Queued(p) /\ Handed(p)' = Handed(p)
    BY <1>0 DEF Queued, Handed
  <2>6. QED  BY <1>0, <1>4, <2>1, <2>2, <2>3, <2>4, <2>5 DEF OnItsWay, OneSort, Somewhere
<1>6. loaded' \subseteq world'
  BY <1>0 DEF Travel
<1>7. QED  BY <1>3, <1>5, <1>6 DEF Travel

\* From the queue into the backend's hand.
LEMMA OutOnce ==
    ASSUME QueueInv, Travel, Dequeue, buffer[tail] # None
    PROVE  Travel'
<1> DEFINE q == buffer[tail]
<1>0. /\ tail \in Slots /\ q \in Positions /\ ret = None /\ ret' = q /\ tick' = "retire"
      /\ buffer' = [buffer EXCEPT ![tail] = None]
      /\ UNCHANGED <<entities, loaded, world, jobs, at, task>>
  BY DequeueStep DEF Dequeue, chunks, workers, QueueInv, HandsAreFull
<1>1. buffer'[tail] = None /\ \A i \in Slots : i # tail => buffer'[i] = buffer[i]
  BY <1>0, WorkerTypes
<1>2. q \in world
  BY <1>0 DEF Travel, PassedOnIsMade, Filled
<1>3. PassedOnIsMade'
  BY <1>0, <1>1, <1>2 DEF Travel, PassedOnIsMade, Filled
<1>4. Buffered(q)
  BY <1>0 DEF Buffered
<1>5. ASSUME NEW p \in Positions
      PROVE  OnItsWay(p)'
  <2>1. OnItsWay(p) /\ OnItsWay(q) /\ p # None
    BY <1>0, Params DEF Travel
  <2>2. Buffered(p)' <=> Buffered(p) /\ p # q
    BY <1>0, <1>1, <2>1 DEF Buffered, OnItsWay, OnePlaceEach
  <2>3. (Handed(p)' <=> p = q) /\ ~Handed(p)
    BY <1>0, <2>1 DEF Handed
  <2>4. OnePlaceEach(p)'
    BY <1>0, <1>1, <2>1 DEF OnItsWay, OnePlaceEach
  <2>5. Queued(p)' = Queued(p) /\ Worked(p)' = Worked(p)
    BY <1>0 DEF Queued, Worked
  <2>6. QED  BY <1>0, <1>4, <2>1, <2>2, <2>3, <2>4, <2>5 DEF OnItsWay, OneSort, Somewhere
<1>6. loaded' \subseteq world'
  BY <1>0 DEF Travel
<1>7. QED  BY <1>3, <1>5, <1>6 DEF Travel

\* From there to its entity.
LEMMA SetOnce ==
    ASSUME QueueInv, Travel, Retire
    PROVE  Travel'
<1>0. /\ ret \in Positions /\ ret' = None /\ loaded' = loaded \cup {ret} /\ tick = "retire"
      /\ tick' = "drain"
      /\ UNCHANGED <<entities, world, jobs, buffer, at, task>>
  BY RetireStep DEF Retire, workers
<1>1. ret \in world
  BY <1>0 DEF Travel, PassedOnIsMade
<1>2. PassedOnIsMade' /\ loaded' \subseteq world'
  BY <1>0, <1>1 DEF Travel, PassedOnIsMade, Filled
<1>3. ASSUME NEW p \in Positions
      PROVE  OnItsWay(p)'
  <2>1. OnItsWay(p) /\ p # None
    BY Params DEF Travel
  <2>2. ~Handed(p)' /\ (p \in loaded' <=> p \in loaded \/ Handed(p))
    BY <1>0, <2>1 DEF Handed
  <2>3. Queued(p)' = Queued(p) /\ Worked(p)' = Worked(p) /\ Buffered(p)' = Buffered(p)
    BY <1>0 DEF Queued, Worked, Buffered
  <2>4. OnePlaceEach(p)'
    BY <1>0, <2>1 DEF OnItsWay, OnePlaceEach
  <2>5. QED  BY <1>0, <2>1, <2>2, <2>3, <2>4 DEF OnItsWay, OneSort, Somewhere
<1>4. QED  BY <1>2, <1>3 DEF Travel

LEMMA NextTravel == QueueInv /\ Travel /\ [Next]_vars => Travel'
<1> SUFFICES ASSUME QueueInv, Travel, [Next]_vars PROVE Travel'
  OBVIOUS
<1>1. ASSUME NEW w \in Workers, Generate(w)
      PROVE  Travel'
  <2>1. /\ UNCHANGED <<entities, jobs, task, buffer, ret, loaded, tick>>
        /\ world' = world \cup {task[w]} /\ \A v \in Workers : v # w => at'[v] = at[v]
    BY <1>1, WorkerTypes DEF Generate, Goes, queue, backend
  <2>2. QED  BY <2>1, WorldGrows, NothingMoves
<1>2. ASSUME NEW w \in Workers, Try(w) \/ BackOff(w) \/ Retry(w) \/ Reserve(w)
      PROVE  Travel'
  <2>1. /\ UNCHANGED <<entities, jobs, task, buffer, ret, loaded, world, tick>>
        /\ at[w] \notin {"idle", "generate"}
        /\ \A v \in Workers : v # w => at'[v] = at[v]
    BY <1>2, WorkerTypes DEF Try, BackOff, Retry, Reserve, Goes, chunks, queue, backend
  <2>2. QED  BY <2>1, WorldGrows, NothingMoves
<1>3. ASSUME NEW w \in Workers, Work(w)
      PROVE  Travel'
  BY <1>1, <1>2, <1>3, TakenOnce, StoredOnce DEF Work
<1>4. ASSUME \/ ReadCount \/ Drained \/ EndTick
             \/ Dequeue /\ buffer[tail] = None
             \/ UNCHANGED vars
      PROVE  Travel'
  <2>1. UNCHANGED <<entities, jobs, task, buffer, ret, loaded, world, at>>
    BY <1>4 DEF ReadCount, Drained, EndTick, Dequeue, vars, chunks, queue, workers, backend
  <2>2. (tick' = "retire") = (tick = "retire")
    BY <1>4 DEF ReadCount, Drained, EndTick, Dequeue, vars, backend
  <2>3. QED  BY <2>1, <2>2, WorldGrows, NothingMoves
<1>5. CASE Tick
  BY <1>4, <1>5, OutOnce, SetOnce DEF Tick
<1>6. QED  BY <1>3, <1>4, <1>5, AskedOnce DEF Next

LEMMA EachTravelsOnce == Spec => [](QueueInv /\ Travel)
<1>1. Init => QueueInv /\ Travel
  BY InitQueueInv, InitTravel
<1>2. (QueueInv /\ Travel) /\ [Next]_vars => (QueueInv /\ Travel)'
  BY NextQueueInv, NextTravel
<1>3. QED  BY <1>1, <1>2, PTL DEF Spec

\* Everything that holds of the queue and of the chunks on their way.
THEOREM ChunksAreCorrect == Spec => []IInv
<1>1. QueueInv /\ Travel => IInv
  BY TravelIsOnce DEF IInv, Travel
<1>2. QED  BY <1>1, EachTravelsOnce, PTL

\* get_ecs_chunk asks for a position once, and from then on its chunk is in one
\* place: no two threads generate it, none is lost and none is handed out twice.
THEOREM ChunksAreMadeOnce == Spec => []GeneratedOnce
<1>1. IInv => GeneratedOnce
  BY DEF IInv
<1>2. QED  BY <1>1, ChunksAreCorrect, PTL

=============================================================================
