---------------------------- MODULE MCProtocol ----------------------------
(* The packets for TLC: two bits of a number in a byte and numbers of seven, *)
(* so that a number takes up to four bytes.                                  *)
EXTENDS Protocol

MCCoordinates == {-64, -1, 4}
MCNumbers     == {-64, -1, 0, 3, 4, 63}

\* A length at each side of the edges of a varint.
MCLengths == {1, 3, 4, 15, 16, 50}

=============================================================================
