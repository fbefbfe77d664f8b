----------------------------- MODULE MCChunkGen -----------------------------
(* Small instances of ChunkGen; their constants are in the .cfg files.     *)
EXTENDS ChunkGen

=============================================================================
