---------------------------- MODULE MCChunkView ----------------------------
(* Chunks of two blocks; West is in the chunk west of the others.          *)
EXTENDS ChunkView

SpawnAt == [x |-> 0, z |-> 0]
West    == [x |-> -1, z |-> 0]
East    == [x |-> 1, z |-> 0]

Line == {SpawnAt, West, East}

\* The chunks that views of distance 1 reach along the line.
Row == [x : -2 .. 1, z : {0}]

=============================================================================
