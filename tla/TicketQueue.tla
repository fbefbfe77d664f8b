---------------------------- MODULE TicketQueue ----------------------------
(***************************************************************************)
(* What mpscq.h promises: a queue of at most Max items.  An item that was  *)
(* let in comes out once, and items come out in the order they were let    *)
(* in.  A producer that is refused and a consumer that is told "nothing"   *)
(* change nothing.                                                         *)
(***************************************************************************)
EXTENDS Naturals, Sequences

CONSTANTS Items, Max

VARIABLES
    queue,
    taken \* what the consumer got, in order

vars == <<queue, taken>>

TypeOK == queue \in Seq(Items) /\ taken \in Seq(Items)

Init == queue = <<>> /\ taken = <<>>

Enqueue(x) ==
    /\ Len(queue) < Max
    /\ queue' = Append(queue, x)
    /\ UNCHANGED taken

Dequeue ==
    /\ queue # <<>>
    /\ queue' = Tail(queue)
    /\ taken' = Append(taken, Head(queue))

Next == Dequeue \/ \E x \in Items : Enqueue(x)

Spec == Init /\ [][Next]_vars

=============================================================================
