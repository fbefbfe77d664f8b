------------------------------ MODULE Outbox ------------------------------
(***************************************************************************)
(* What backend/sender.h promises: packets are handed over, the kernel     *)
(* gets each of them once and in that order, and a packet's buffer is      *)
(* given back once, after the kernel is done with it.                      *)
(***************************************************************************)
EXTENDS Integers

VARIABLES
    handed,  \* how many packets there have been; they are numbered from 1
    taken,   \* the packets that the kernel got
    sent,    \* those that it is done with
    freed    \* those whose callback ran

vars == <<handed, taken, sent, freed>>

Init == handed = 0 /\ taken = {} /\ sent = {} /\ freed = {}

Hand ==
    /\ handed' = handed + 1
    /\ UNCHANGED <<taken, sent, freed>>

\* The kernel takes the next packets, as many as it likes.
Take ==
    /\ \E n \in 1 .. handed : taken \subseteq 1 .. n /\ taken' = 1 .. n
    /\ UNCHANGED <<handed, sent, freed>>

Send ==
    /\ \E p \in taken \ sent : sent' = sent \cup {p}
    /\ UNCHANGED <<handed, taken, freed>>

Free ==
    /\ \E S \in SUBSET (sent \ freed) : freed' = freed \cup S
    /\ UNCHANGED <<handed, taken, sent>>

Next == Hand \/ Take \/ Send \/ Free

Spec == Init /\ [][Next]_vars

=============================================================================
