----------------------------- MODULE MCSender -----------------------------
(* The sender for TLC: one connection is enough for the ring, two share a  *)
(* descriptor.                                                             *)
EXTENDS Sender, TLC

=============================================================================
