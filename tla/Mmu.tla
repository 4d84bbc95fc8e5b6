-------------------------------- MODULE Mmu ---------------------------------
(***************************************************************************)
(* The memory management unit behind kernel/include/minemu/mmu.h.  It is   *)
(* part of the emulator: this is what headless/mmu, headless/ttbr-switch   *)
(* and headless/exceptions require of it.  Only the pages the programs     *)
(* change or fault on are modelled; every other access succeeds.           *)
(***************************************************************************)
EXTENDS Integers

\* Virtual pages.
KERNEL         == 0  \* code and data that stay mapped
TEST_VADDR     == 1
RNG            == 2
TRACE          == 3
USER_PROBE     == 4
PREFETCH_PROBE == 5

Pages == {TEST_VADDR, RNG, TRACE, USER_PROBE, PREFETCH_PROBE}

\* The causes and the bits of the fault status.
TRANSLATION == 1
READ_PROTECTION == 2
WRITE_PROTECTION == 3
EXECUTE_PROTECTION == 4
FROM_USER == 256
IS_WRITE == 512
IS_FETCH == 1024

\* A table entry: where it leads, its R, W, X, U, A and D bits, and the bits
\* that are left to software.
Pte(frame, flags, soft) == [valid |-> TRUE, frame |-> frame, flags |-> flags, soft |-> soft]
NoPte == [valid |-> FALSE, frame |-> "none", flags |-> {}, soft |-> 0]

\* Tables for TEST_VADDR; the entries of the other pages are named by the page.
Tables == {"table_a", "table_b"}

\* The tables and the TLB after the bootstrap; root[d] is the table that
\* directory d has for TEST_VADDR.
MmuReset ==
  [ttbr |-> "a", root |-> [d \in {"a", "b"} |-> "none"],
   table |-> [t \in Tables |-> NoPte],
   pte |-> [p \in Pages \ {TEST_VADDR} |->
              IF p \in {RNG, TRACE} THEN Pte("device", {"R", "W"}, 0)
              ELSE Pte("code", {"R", "W", "X"}, 0)],
   tlb |-> [p \in Pages |-> NoPte]]

Walk(m, p) ==
  IF p # TEST_VADDR THEN m.pte[p]
  ELSE LET t == m.root[m.ttbr] IN IF t = "none" THEN NoPte ELSE m.table[t]

\* What an access uses: the TLB before the tables.
Seen(m, p) == IF m.tlb[p].valid THEN m.tlb[p] ELSE Walk(m, p)

\* The fault status of an access, 0 if it is allowed.  Nothing writes to ROM.
Fault(m, p, kind, by_user) ==
  LET e == Seen(m, p)
      may == kind \in e.flags /\ (by_user => "U" \in e.flags) /\ ~(kind = "W" /\ e.frame = "rom")
      cause == CASE ~e.valid -> TRANSLATION
                 [] kind = "R" -> READ_PROTECTION
                 [] kind = "W" -> WRITE_PROTECTION
                 [] OTHER -> EXECUTE_PROTECTION
  IN  IF p = KERNEL \/ (e.valid /\ may) THEN 0
      ELSE cause + (IF by_user THEN FROM_USER ELSE 0) + (IF kind = "W" THEN IS_WRITE ELSE 0)
           + (IF kind = "X" THEN IS_FETCH ELSE 0)

Cached(m, p, e) == [m EXCEPT !.tlb[p] = e]

\* After an access that is allowed: a walk sets A, and D for a write, and is
\* remembered in the TLB.
Touched(m, p, kind) ==
  IF p = KERNEL \/ m.tlb[p].valid THEN m
  ELSE LET e == [Walk(m, p) EXCEPT !.flags = @ \cup (IF kind = "W" THEN {"A", "D"} ELSE {"A"})]
       IN  IF p = TEST_VADDR THEN [Cached(m, p, e) EXCEPT !.table[m.root[m.ttbr]] = e]
           ELSE [Cached(m, p, e) EXCEPT !.pte[p] = e]

\* After one that is not: the entry may have been remembered.
Refused(m, p) == {m, Cached(m, p, Walk(m, p))}

\* minemu_mmu_set_ttbr0 leaves the TLB alone, minemu_mmu_tlbiall empties it.
minemu_mmu_set_ttbr0(m, d) == [m EXCEPT !.ttbr = d]
minemu_mmu_tlbiall(m)      == [m EXCEPT !.tlb = [p \in Pages |-> NoPte]]
=============================================================================
