------------------------ MODULE MemoryRoutinesProofs ------------------------
(***************************************************************************)
(* Proofs about the routines of memory.c, for memories of every size and   *)
(* content and for every call whose ranges lie in them.                    *)
(***************************************************************************)
EXTENDS MemoryRoutines, TLAPS

\* Whether the loop has passed offset n.
Passed(n) == IF Downwards(call) THEN n >= index ELSE n < index

\* Memory with the offsets that were passed as they must be afterwards and
\* everything else as it was at the call.
Partial ==
  [a \in Addresses |->
     IF a - call.out \in Offsets /\ Passed(a - call.out) THEN Expected[a] ELSE before[a]]

TypeOK ==
  /\ call \in Calls
  /\ before \in [Addresses -> 0 .. ByteSpan - 1]
  /\ index \in 0 .. call.length

\* memcmp has found no difference so far.
SameSoFar ==
  call.f = "memcmp" => \A n \in 0 .. index - 1 : before[call.out + n] = before[call.in + n]

IInv == TypeOK /\ mem = Partial /\ SameSoFar /\ RoutineExact

-----------------------------------------------------------------------------

\* The ranges of a call lie in memory.
LEMMA CallFacts ==
  ASSUME call \in Calls
  PROVE  /\ call.f \in {"memcpy", "memset", "memmove", "memcmp"}
         /\ call.out \in Nat /\ call.in \in Nat /\ call.length \in Nat /\ call.value \in Int
         /\ call.out + call.length =< Span /\ call.in + call.length =< Span /\ Span \in Nat
         /\ call.f = "memcpy" => call.out + call.length =< call.in \/ call.in + call.length =< call.out
         /\ \A n \in Offsets : call.out + n \in Addresses /\ call.in + n \in Addresses
<1>1. /\ call \in [f : {"memcpy", "memset", "memmove", "memcmp"}, out : 0 .. Span, in : 0 .. Span,
                  length : 0 .. Span, value : Ints]
      /\ call.out + call.length =< Span /\ call.in + call.length =< Span
      /\ call.f = "memcpy" => call.out + call.length =< call.in \/ call.in + call.length =< call.out
  BY DEF Calls
<1>2. /\ call.f \in {"memcpy", "memset", "memmove", "memcmp"}
      /\ call.out \in Nat /\ call.in \in Nat /\ call.length \in Nat /\ call.value \in Int /\ Span \in Nat
  <2>1. Span \in Nat /\ Ints \subseteq Int
    BY MemoryAssumption
  <2>2. /\ call.f \in {"memcpy", "memset", "memmove", "memcmp"} /\ call.value \in Ints
        /\ call.out \in 0 .. Span /\ call.in \in 0 .. Span /\ call.length \in 0 .. Span
    BY <1>1
  <2>3. \A x \in 0 .. Span : x \in Nat
    BY <2>1
  <2>4. call.value \in Int
    BY <2>1, <2>2
  <2> QED
    BY <2>1, <2>2, <2>3, <2>4, Zenon
<1>3. \A n \in Offsets : call.out + n \in Addresses /\ call.in + n \in Addresses
  BY <1>1, <1>2 DEF Offsets, Addresses
<1> QED
  BY <1>1, <1>2, <1>3

\* A byte of memory, and what becomes of a byte in the range of the call.
LEMMA ByteFacts ==
  ASSUME TypeOK, mem = Partial, NEW a \in Addresses
  PROVE  /\ a - call.out \in Offsets /\ Passed(a - call.out) => mem[a] = Expected[a]
         /\ ~(a - call.out \in Offsets /\ Passed(a - call.out)) => mem[a] = before[a]
  BY DEF Partial

\* What the C standard expects at an offset of the destination.
LEMMA ExpectedFacts ==
  ASSUME TypeOK, NEW n \in Offsets
  PROVE  Expected[call.out + n] =
           IF call.f = "memcmp" THEN before[call.out + n]
           ELSE IF call.f = "memset" THEN call.value % ByteSpan
           ELSE before[call.in + n]
<1>1. call.out + n \in Addresses /\ (call.out + n) - call.out = n
  BY CallFacts DEF TypeOK, Offsets
<1>2. Expected[call.out + n] =
        IF (call.out + n) - call.out \notin Offsets \/ call.f = "memcmp" THEN before[call.out + n]
        ELSE IF call.f = "memset" THEN call.value % ByteSpan
        ELSE before[call.in + ((call.out + n) - call.out)]
  BY <1>1 DEF Expected
<1> QED
  BY <1>1, <1>2

\* No byte that is still to be copied has been written.
LEMMA SourceFacts ==
  ASSUME IInv
  PROVE  SourceIntact
<1> SUFFICES ASSUME InLoop({"memcpy", "memmove"}), NEW n \in Offsets,
                    IF Downwards(call) THEN n < index ELSE n >= index
             PROVE  mem[call.in + n] = before[call.in + n]
  BY DEF SourceIntact
<1>1. call.in + n \in Addresses
  BY CallFacts DEF IInv, TypeOK
<1>2. /\ call.out \in Nat /\ call.in \in Nat /\ call.length \in Nat /\ index \in Nat /\ n \in Nat
      /\ call.f \in {"memcpy", "memmove"}
      /\ call.f = "memcpy" => call.out + call.length =< call.in \/ call.in + call.length =< call.out
  BY CallFacts DEF IInv, TypeOK, InLoop, Offsets
<1>3. mem = Partial /\ TypeOK
  BY DEF IInv
<1>4. ASSUME NEW a \in Addresses, a = call.in + n
      PROVE  mem[a] = before[a]
  <2>1. CASE Downwards(call)
    BY <1>2, <1>3, <1>4, <2>1, ByteFacts DEF Passed, Offsets, Downwards
  <2>2. CASE ~Downwards(call)
    BY <1>2, <1>3, <1>4, <2>2, ByteFacts DEF Passed, Offsets, Downwards
  <2> QED
    BY <2>1, <2>2
<1> QED
  BY <1>1, <1>4

\* A call that has done nothing yet satisfies IInv.
LEMMA InitInv == Init => IInv
<1> SUFFICES ASSUME Init PROVE IInv
  OBVIOUS
<1>1. TypeOK
  BY MemoryAssumption, CallFacts DEF Init, TypeOK
<1>2. mem = Partial
  <2>1. \A n \in Offsets : ~Passed(n)
    BY CallFacts DEF Init, Passed, Offsets
  <2> QED
    BY <2>1, <1>1 DEF Init, Partial, TypeOK
<1>3. SameSoFar
  BY DEF Init, SameSoFar, Downwards
<1> QED
  BY <1>1, <1>2, <1>3 DEF IInv, RoutineExact, Init

-----------------------------------------------------------------------------
(* One pass of a loop                                                      *)

\* A pass that gives one more byte its final value keeps mem = Partial.
LEMMA PassKeepsPartial ==
  ASSUME IInv, NEW n \in Offsets, UNCHANGED <<call, before>>,
         mem' = [mem EXCEPT ![call.out + n] = Expected[call.out + n]],
         \A k \in Offsets : Passed(k)' <=> Passed(k) \/ k = n
  PROVE  mem' = Partial'
<1>1. Expected' = Expected /\ Offsets' = Offsets
  BY DEF Expected, Offsets
<1>2. call.out + n \in Addresses
  BY CallFacts DEF IInv, TypeOK
<1>3. ASSUME NEW a \in Addresses
      PROVE  mem'[a] = Partial'[a]
  <2>1. CASE a = call.out + n
    BY <2>1, <1>1, <1>2, CallFacts DEF IInv, TypeOK, Partial, Offsets
  <2>2. CASE a # call.out + n
    <3>1. a - call.out # n
      BY <2>2, CallFacts DEF IInv, TypeOK, Offsets, Addresses
    <3>2. mem'[a] = mem[a]
      BY <2>2, <1>2 DEF IInv, Partial
    <3>3. a - call.out \in Offsets => (Passed(a - call.out)' <=> Passed(a - call.out))
      BY <3>1
    <3> QED
      BY <3>2, <3>3, <1>1, ByteFacts DEF IInv, Partial
  <2> QED
    BY <2>1, <2>2
<1> QED
  BY <1>3 DEF IInv, Partial

\* One byte of memcpy.
LEMMA memcpy_stepInv == ASSUME IInv, memcpy_step PROVE IInv'
<1>1. index \in Offsets
  BY CallFacts DEF IInv, TypeOK, memcpy_step, Offsets
<1>2. mem[call.in + index] = before[call.in + index]
  BY <1>1, SourceFacts DEF memcpy_step, SourceIntact, InLoop, IInv, TypeOK
<1>3. Expected[call.out + index] = before[call.in + index]
  BY <1>1, ExpectedFacts DEF IInv, memcpy_step, InLoop
<1>4. mem' = Partial'
  <2>1. UNCHANGED <<call, before>>
    BY DEF memcpy_step
  <2>2. \A k \in Offsets : Passed(k)' <=> Passed(k) \/ k = index
    BY CallFacts DEF memcpy_step, InLoop, Passed, Downwards, Offsets, IInv, TypeOK
  <2>3. mem' = [mem EXCEPT ![call.out + index] = Expected[call.out + index]]
    BY <1>2, <1>3, CallFacts DEF memcpy_step, IInv, TypeOK
  <2> QED
    BY <1>1, <2>1, <2>2, <2>3, PassKeepsPartial
<1>5. TypeOK'
  BY <1>1, CallFacts DEF IInv, TypeOK, memcpy_step, Offsets
<1> QED
  BY <1>4, <1>5 DEF IInv, SameSoFar, RoutineExact, memcpy_step, InLoop

\* One byte of memmove, in the direction the overlap demands.
LEMMA memmove_stepInv == ASSUME IInv, memmove_step PROVE IInv'
<1>1. index - 1 \in Offsets
  BY CallFacts DEF IInv, TypeOK, memmove_step, Offsets
<1>2. mem[call.in + (index - 1)] = before[call.in + (index - 1)]
  BY <1>1, SourceFacts DEF memmove_step, SourceIntact, InLoop, IInv, TypeOK
<1>3. Expected[call.out + (index - 1)] = before[call.in + (index - 1)]
  BY <1>1, ExpectedFacts DEF IInv, memmove_step, InLoop, Downwards
<1>4. mem' = Partial'
  <2>1. UNCHANGED <<call, before>>
    BY DEF memmove_step
  <2>2. \A k \in Offsets : Passed(k)' <=> Passed(k) \/ k = index - 1
    BY CallFacts DEF memmove_step, InLoop, Passed, Downwards, Offsets, IInv, TypeOK
  <2>3. mem' = [mem EXCEPT ![call.out + (index - 1)] = Expected[call.out + (index - 1)]]
    BY <1>2, <1>3, CallFacts DEF memmove_step, IInv, TypeOK
  <2> QED
    BY <1>1, <2>1, <2>2, <2>3, PassKeepsPartial
<1>5. TypeOK'
  BY <1>1, CallFacts DEF IInv, TypeOK, memmove_step, Offsets
<1> QED
  BY <1>4, <1>5 DEF IInv, SameSoFar, RoutineExact, memmove_step, InLoop

\* One byte of memset.
LEMMA memset_stepInv == ASSUME IInv, memset_step PROVE IInv'
<1>1. index \in Offsets
  BY CallFacts DEF IInv, TypeOK, memset_step, Offsets
<1>2. Expected[call.out + index] = call.value % ByteSpan
  BY <1>1, ExpectedFacts DEF IInv, memset_step, InLoop
<1>3. mem' = Partial'
  <2>1. UNCHANGED <<call, before>>
    BY DEF memset_step
  <2>2. \A k \in Offsets : Passed(k)' <=> Passed(k) \/ k = index
    BY CallFacts DEF memset_step, InLoop, Passed, Downwards, Offsets, IInv, TypeOK
  <2>3. mem' = [mem EXCEPT ![call.out + index] = Expected[call.out + index]]
    BY <1>2, CallFacts DEF memset_step, IInv, TypeOK
  <2> QED
    BY <1>1, <2>1, <2>2, <2>3, PassKeepsPartial
<1>4. TypeOK'
  BY <1>1, CallFacts DEF IInv, TypeOK, memset_step, Offsets
<1> QED
  BY <1>3, <1>4 DEF IInv, SameSoFar, RoutineExact, memset_step, InLoop

\* memcmp leaves memory alone.
LEMMA memcmpReads == ASSUME IInv, call.f = "memcmp" PROVE mem = before
  BY CallFacts DEF IInv, TypeOK, Partial, Expected

\* One comparison of memcmp.
LEMMA memcmp_stepInv == ASSUME IInv, memcmp_step PROVE IInv'
<1>1. index \in Offsets /\ mem = before /\ call.f = "memcmp"
  BY CallFacts, memcmpReads DEF IInv, TypeOK, memcmp_step, Offsets, InLoop
<1>2. Expected' = Expected /\ Offsets' = Offsets
  BY DEF Expected, Offsets, memcmp_step
<1>3. mem' = Partial'
  BY <1>1, <1>2, CallFacts DEF IInv, TypeOK, Partial, Expected, memcmp_step
<1>4. TypeOK'
  BY <1>1, CallFacts DEF IInv, TypeOK, memcmp_step, Offsets
<1>5. SameSoFar'
  BY <1>1, CallFacts DEF IInv, TypeOK, SameSoFar, memcmp_step
<1> QED
  BY <1>3, <1>4, <1>5 DEF IInv, RoutineExact, memcmp_step, InLoop

-----------------------------------------------------------------------------
(* The return                                                              *)

\* The first difference decides the order.
LEMMA Decided ==
  ASSUME IInv, call.f = "memcmp", index < call.length,
         before[call.out + index] # before[call.in + index]
  PROVE  ExpectedResult = Order(before[call.out + index], before[call.in + index])
<1> DEFINE a(n) == before[call.out + n]
           b(n) == before[call.in + n]
<1>1. \A n \in Offsets : a(n) \in Int /\ b(n) \in Int
  BY CallFacts, MemoryAssumption DEF IInv, TypeOK
<1>2. index \in Offsets /\ \A n \in 0 .. index - 1 : n \in Offsets /\ a(n) = b(n)
  BY CallFacts DEF IInv, TypeOK, SameSoFar, Offsets
<1>3. \A n \in Offsets : n = index \/ n \in 0 .. index - 1 \/ index \in 0 .. n - 1
  BY <1>2, CallFacts DEF IInv, TypeOK, Offsets
<1> HIDE DEF a, b
<1>4. CASE a(index) < b(index)
  <2>1. \E n \in Offsets : a(n) < b(n) /\ \A k \in 0 .. n - 1 : a(k) = b(k)
    BY <1>2, <1>4
  <2> QED
    BY <2>1, <1>4 DEF ExpectedResult, Less, Order, a, b
<1>5. CASE b(index) < a(index)
  <2>1. \E n \in Offsets : b(n) < a(n) /\ \A k \in 0 .. n - 1 : b(k) = a(k)
    BY <1>2, <1>5
  <2>2. ~\E n \in Offsets : a(n) < b(n) /\ \A k \in 0 .. n - 1 : a(k) = b(k)
    BY <1>1, <1>2, <1>3, <1>5
  <2> QED
    BY <2>1, <2>2, <1>1, <1>2, <1>5 DEF ExpectedResult, Less, Order, a, b
<1> QED
  BY <1>1, <1>2, <1>4, <1>5 DEF a, b

\* Without a difference the ranges are equal.
LEMMA Equal ==
  ASSUME IInv, call.f = "memcmp", index = call.length
  PROVE  ExpectedResult = 0
<1>1. \A n \in Offsets : before[call.out + n] = before[call.in + n] /\ before[call.in + n] \in Int
  BY CallFacts, MemoryAssumption DEF IInv, TypeOK, SameSoFar, Offsets
<1> QED
  BY <1>1 DEF ExpectedResult, Less

\* A routine returns when it is done with every byte.
LEMMA ReturnInv == ASSUME IInv, Return PROVE IInv'
<1>1. TypeOK' /\ SameSoFar' /\ mem' = Partial' /\ Expected' = Expected /\ ExpectedResult' = ExpectedResult
  BY DEF IInv, TypeOK, SameSoFar, Partial, Passed, Expected, ExpectedResult, Less, Offsets, Return
<1>2. CASE /\ call.f = "memcmp" /\ index < call.length
           /\ mem[call.out + index] # mem[call.in + index]
           /\ result' = <<Order(mem[call.out + index], mem[call.in + index])>>
  <2>1. mem = before /\ before = Expected
    BY <1>2, memcmpReads DEF IInv, TypeOK, Expected
  <2>2. result' = <<ExpectedResult>>
    BY <1>2, <2>1, Decided
  <2> QED
    BY <1>1, <2>1, <2>2 DEF IInv, RoutineExact, Return
<1>3. CASE /\ IF Downwards(call) THEN index = 0 ELSE index >= call.length
           /\ result' = <<IF call.f = "memcmp" THEN 0 ELSE call.out>>
  <2>1. \A n \in Offsets : Passed(n)
    BY <1>3, CallFacts DEF IInv, TypeOK, Passed, Offsets
  <2>2. mem = Expected
    BY <2>1, CallFacts DEF IInv, TypeOK, Partial, Expected
  <2>3. result' = <<ExpectedResult>>
    <3>1. CASE call.f = "memcmp"
      BY <1>3, <3>1, Equal, CallFacts DEF IInv, TypeOK, Downwards
    <3>2. CASE call.f # "memcmp"
      BY <1>3, <3>2 DEF ExpectedResult
    <3> QED
      BY <3>1, <3>2
  <2> QED
    BY <1>1, <2>2, <2>3 DEF IInv, RoutineExact, Return
<1> QED
  BY <1>2, <1>3 DEF Return

\* Every step keeps IInv.
LEMMA NextInv == IInv /\ [Next]_vars => IInv'
<1> SUFFICES ASSUME IInv, [Next]_vars PROVE IInv'
  OBVIOUS
<1>1. CASE UNCHANGED vars
  BY <1>1 DEF IInv, TypeOK, SameSoFar, Partial, Passed, RoutineExact, Expected, ExpectedResult, Less, Offsets, vars
<1> QED
  BY <1>1, memcpy_stepInv, memmove_stepInv, memset_stepInv, memcmp_stepInv, ReturnInv DEF Next, Returned

\* The inductive invariant holds in every behaviour.
THEOREM Invariant == Spec => []IInv
  BY InitInv, NextInv, PTL DEF Spec

\* RoutineExact: what the routines leave in memory and return is what C defines,
\* for every overlap and length.
THEOREM RoutinesExact == Spec => []RoutineExact
<1>1. IInv => RoutineExact
  BY DEF IInv
<1> QED
  BY Invariant, <1>1, PTL

\* SourceIntact: no pass of a copy destroys a byte that a later pass needs.
THEOREM SourcesIntact == Spec => []SourceIntact
  BY Invariant, SourceFacts, PTL
=============================================================================
