--------------------------- MODULE MemoryRoutines ---------------------------
(***************************************************************************)
(* memcpy, memset, memmove and memcmp of kernel/src/runtime/memory.c and,  *)
(* word for word the same, user/lib/src/memory.c.  A step is one pass of a *)
(* loop over bytes.                                                        *)
(***************************************************************************)
EXTENDS Integers

CONSTANTS
  Span,            \* bytes of memory
  ByteSpan,        \* values of an unsigned char (256)
  Contents,        \* what memory may hold before a call
  Ints             \* the second arguments of memset

Addresses == 0 .. Span - 1

ASSUME MemoryAssumption ==
  /\ Span \in Nat /\ ByteSpan \in Nat \ {0} /\ Ints \subseteq Int
  /\ Contents \subseteq [Addresses -> 0 .. ByteSpan - 1]

\* Arguments whose ranges lie in memory.  memcpy is only defined for ranges
\* that do not overlap.
Calls ==
  {c \in [f : {"memcpy", "memset", "memmove", "memcmp"}, out : 0 .. Span, in : 0 .. Span,
          length : 0 .. Span, value : Ints] :
     /\ c.out + c.length =< Span /\ c.in + c.length =< Span
     /\ c.f = "memcpy" => c.out + c.length =< c.in \/ c.in + c.length =< c.out}

VARIABLES
  call,            \* the routine and its arguments
  mem,             \* the bytes
  index,           \* the loop variable
  result,          \* <<>>, or <<v>> once the routine has returned v
  before           \* mem at the call (history)

vars == <<call, mem, index, result, before>>

\* Upwards whatever the overlap.
DownwardsNever(c) == FALSE

\* memmove copies from the end unless the destination is the lower one.
Downwards(c) == c.f = "memmove" /\ ~(c.out < c.in)

Init ==
  /\ call \in Calls
  /\ mem \in Contents
  /\ index = IF Downwards(call) THEN call.length ELSE 0
  /\ result = <<>>
  /\ before = mem

InLoop(fs) == result = <<>> /\ call.f \in fs

memcpy_step ==
  /\ InLoop({"memcpy", "memmove"}) /\ ~Downwards(call)
  /\ index < call.length
  /\ mem' = [mem EXCEPT ![call.out + index] = mem[call.in + index]]
  /\ index' = index + 1
  /\ UNCHANGED <<call, result, before>>

memmove_step ==
  /\ InLoop({"memmove"}) /\ Downwards(call)
  /\ index # 0
  /\ mem' = [mem EXCEPT ![call.out + index - 1] = mem[call.in + index - 1]]
  /\ index' = index - 1
  /\ UNCHANGED <<call, result, before>>

memset_step ==
  /\ InLoop({"memset"})
  /\ index < call.length
  /\ mem' = [mem EXCEPT ![call.out + index] = call.value % ByteSpan]
  /\ index' = index + 1
  /\ UNCHANGED <<call, result, before>>

\* The loop of memcmp goes on while the bytes are the same.
memcmp_step ==
  /\ InLoop({"memcmp"})
  /\ index < call.length /\ mem[call.out + index] = mem[call.in + index]
  /\ index' = index + 1
  /\ UNCHANGED <<call, mem, result, before>>

\* The char types compared as signed ones.
OrderSigned(a, b) ==
  LET signed(x) == IF 2 * x >= ByteSpan THEN x - ByteSpan ELSE x
  IN  IF signed(a) < signed(b) THEN -1 ELSE 1

Order(a, b) == IF a < b THEN -1 ELSE 1

Return ==
  /\ result = <<>>
  /\ \/ /\ call.f = "memcmp" /\ index < call.length
        /\ mem[call.out + index] # mem[call.in + index]
        /\ result' = <<Order(mem[call.out + index], mem[call.in + index])>>
     \/ /\ IF Downwards(call) THEN index = 0 ELSE index >= call.length
        /\ result' = <<IF call.f = "memcmp" THEN 0 ELSE call.out>>
  /\ UNCHANGED <<call, mem, index, before>>

Returned == result # <<>> /\ UNCHANGED vars

Next == memcpy_step \/ memmove_step \/ memset_step \/ memcmp_step \/ Return \/ Returned

Spec == Init /\ [][Next]_vars

-----------------------------------------------------------------------------
(* Properties                                                              *)

Offsets == 0 .. call.length - 1

\* What memory must hold afterwards, from what it held before.
Expected ==
  [a \in Addresses |->
     IF a - call.out \notin Offsets \/ call.f = "memcmp" THEN before[a]
     ELSE IF call.f = "memset" THEN call.value % ByteSpan
     ELSE before[call.in + (a - call.out)]]

\* Lexicographic order of the two ranges, as unsigned bytes.
Less(x, y) ==
  \E n \in Offsets : /\ before[x + n] < before[y + n]
                     /\ \A k \in 0 .. n - 1 : before[x + k] = before[y + k]

ExpectedResult ==
  IF call.f # "memcmp" THEN call.out
  ELSE IF Less(call.out, call.in) THEN -1 ELSE IF Less(call.in, call.out) THEN 1 ELSE 0

\* Every routine returns with exactly the memory and the value its caller may
\* rely on, for every overlap memmove allows and every length, zero included
\* (memory.c lines 3-44).
RoutineExact == result # <<>> => mem = Expected /\ result = <<ExpectedResult>>

\* While bytes are still to be copied their sources hold what they held at the
\* call: no pass of a copy loop destroys a byte a later pass needs.
SourceIntact ==
  InLoop({"memcpy", "memmove"}) =>
    \A n \in Offsets :
      (IF Downwards(call) THEN n < index ELSE n >= index) => mem[call.in + n] = before[call.in + n]
=============================================================================
