-------------------------------- MODULE Rng ---------------------------------
(***************************************************************************)
(* The random number device, part of the emulator.  headless/rng-trace     *)
(* shows what it computes: the values it requires are those of the 32-bit  *)
(* xorshift generator with the shifts 13, 17 and 5.  A word is the set of  *)
(* the positions of its one bits.                                          *)
(***************************************************************************)
EXTENDS Integers

\* The word with these halves.
Word32(high, low) ==
  LET ones(n) == {b \in 0 .. 15 : (n \div 2^b) % 2 = 1}
  IN  ones(low) \cup {16 + b : b \in ones(high)}

Xor(x, y)  == (x \ y) \cup (y \ x)
Left(x, n)  == {b + n : b \in {c \in x : c + n < 32}}
Right(x, n) == {b - n : b \in {c \in x : c >= n}}

\* What a read of DATA makes of STATE, and returns.
NextState(x) ==
  LET y == Xor(x, Left(x, 13))
      z == Xor(y, Right(y, 17))
  IN  Xor(z, Left(z, 5))

DEFAULT_SEED == Word32(19781, 19797)  \* 0x4d454d55

\* A store to SEED; from zero the generator would never leave zero.
Seeded(v) == LET s == IF v = {} THEN DEFAULT_SEED ELSE v IN [seed |-> s, state |-> s]
=============================================================================
