--------------------------- MODULE MCGlobalQueues ---------------------------
(* Small instances of GlobalQueues.                                        *)
EXTENDS GlobalQueues, TLC

\* Events are interchangeable, and so are packets.
EntrySymmetry == Permutations(Events) \cup Permutations(Packets)

=============================================================================
