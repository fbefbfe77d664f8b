---------------------------- MODULE MCConnections ----------------------------
(***************************************************************************)
(* Instances of Connections for TLC.                                       *)
(***************************************************************************)
EXTENDS Connections, TLC

\* Connections are interchangeable: nothing orders or names one of them.
ConnSymmetry == Permutations(Conns)

=============================================================================
