-------------------------- MODULE MCMemoryRoutines --------------------------
(* Six bytes; for the copies all different, for memcmp equal up to any     *)
(* place, with values on both sides of the sign bit.                       *)
EXTENDS MemoryRoutines

MCContents ==
  {[a \in Addresses |-> 40 * a]} \cup [Addresses -> {1, 255}]

\* Beyond an unsigned char, and negative.
MCInts == {257, -1}
=============================================================================
