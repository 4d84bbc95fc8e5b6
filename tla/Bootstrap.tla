----------------------------- MODULE Bootstrap ------------------------------
(***************************************************************************)
(* The kernel bootstrap, kernel/src/startup/boot.S: it builds the first    *)
(* page tables in RAM that holds anything, turns translation on under its  *)
(* own feet and moves to the higher half.  A step is one store to a table, *)
(* one system register write, or one straight run of register moves.       *)
(*                                                                         *)
(* A page number is the pair of ten-bit fields an address begins with:     *)
(* [dir, idx].  The tables lie in the first directory entry's worth of     *)
(* RAM, so a table is named by its idx alone.                              *)
(***************************************************************************)
EXTENDS Integers

CONSTANTS
  N,               \* entries of a directory and of a table (1024)
  RamDir,          \* directory entry of physical RAM (0x40000000 >> 22)
  DirectDir,       \* first directory entry of the direct map (0xc0000000 >> 22)
  MmioDir,         \* directory entry of the MMIO window (0x10000000 >> 22)
  NTables,         \* tables of the direct map (16)
  NMmio,           \* pages of the MMIO window (16)
  DirPage, IdentityPage, DirectPage, MmioPage,  \* where the tables lie in RAM
  BootPage,        \* the page of the bootstrap code (0x40008000)
  KernelPage,      \* the page of minemu_bootstrap_high, as a physical page number
  StackPage,       \* StackPage[m]: the physical page below the stack top of mode m
  InfoPage,        \* the page of the boot-info record, as a physical page number
  Garbage          \* what a word of RAM may hold at reset

Modes   == {"svc", "irq", "abt", "und"}
Entries == 0 .. N - 1

\* The pages that minemu_bootstrap_map writes.
TablePages ==
  {DirPage, IdentityPage, MmioPage} \cup (DirectPage .. DirectPage + NTables - 1)

\* Physical RAM: NTables directory entries from RamDir on.
RamPages == [dir : RamDir .. RamDir + NTables - 1, idx : Entries]

\* The words of a table: an invalid one, a pointer to a table, a page.
Zero        == [kind |-> "none", dir |-> 0, idx |-> 0]
Table(t)    == [kind |-> "table", dir |-> RamDir, idx |-> t]
Page(p, k)  == [kind |-> k, dir |-> p.dir, idx |-> p.idx]
Words       == [kind : {"none", "table", "rwx", "rw"}, dir : Nat, idx : Nat]

ASSUME LayoutAssumption ==
  /\ N \in Nat \ {0, 1} /\ {RamDir, DirectDir, MmioDir} \subseteq Entries
  /\ NTables \in 1 .. N /\ NMmio \in 1 .. N
  /\ RamDir < DirectDir /\ MmioDir < RamDir /\ DirectDir + NTables =< N
  /\ TablePages \subseteq Entries
  /\ DirPage # IdentityPage /\ DirPage # MmioPage /\ IdentityPage # MmioPage
  /\ {DirPage, IdentityPage, MmioPage} \cap (DirectPage .. DirectPage + NTables - 1) = {}
  /\ DirectPage \in Nat
  /\ BootPage \in Entries \ TablePages
  /\ KernelPage \in RamPages /\ InfoPage \in RamPages /\ StackPage \in [Modes -> RamPages]
  /\ Garbage \subseteq Words

\* The direct map's view of a page of RAM: physical + 0x80000000.
ToVirtual(p) == [dir |-> p.dir - RamDir + DirectDir, idx |-> p.idx]

VARIABLES
  mem,             \* mem[t]: the words of table page t
  pc,              \* where the bootstrap is
  r0, r1, r2,      \* the loops' pointer, word to store and down counter
  r3, r4,          \* the outer loop's directory index and down counter
  r8,              \* the boot-info pointer handed over by the loader
  sp,              \* sp[m]: the page below the banked stack pointer of mode m
  ttbr, stale, mmu, vbar \* TTBR0; whether the TLB may hold entries of earlier
                         \* tables; SCTLR.M; whether VBAR names the kernel's vectors

cp15 == <<ttbr, stale, mmu, vbar>>
vars == <<mem, pc, r0, r1, r2, r3, r4, r8, sp, cp15>>

Init ==
  /\ mem \in [TablePages -> [Entries -> Garbage]]
  /\ pc = "stacks"
  /\ r0 = [page |-> 0, word |-> 0]
  /\ r1 = Zero
  /\ r2 = 0 /\ r3 = 0 /\ r4 = 0
  /\ r8 = ToVirtual(InfoPage)
  /\ sp = [m \in Modes |-> [dir |-> 0, idx |-> 0]]
  /\ ttbr \in TablePages  \* what reset leaves there is not relied on
  /\ stale \in BOOLEAN
  /\ mmu = FALSE
  /\ vbar = FALSE

Load(page, word, count) ==
  /\ r0' = [page |-> page, word |-> 0]
  /\ r1' = word
  /\ r2' = count

\* The four banked stack pointers, physical; then r0-r2 for the first loop.
Stacks ==
  /\ pc = "stacks"
  /\ sp' = StackPage
  /\ Load(DirPage, Zero, N)
  /\ pc' = "clear_directory"
  /\ UNCHANGED <<mem, r3, r4, r8, cp15>>

-----------------------------------------------------------------------------
(* minemu_bootstrap_map                                                    *)

Advance(p) ==
  IF p.word = N - 1 THEN [page |-> p.page + 1, word |-> 0] ELSE [p EXCEPT !.word = @ + 1]

\* add r1, r1, #4096: the carry of idx goes to dir.
NextPage(w) ==
  IF w.idx = N - 1 THEN [w EXCEPT !.dir = @ + 1, !.idx = 0] ELSE [w EXCEPT !.idx = @ + 1]

\* One turn of a fill loop: str r1, [r0], #4; (add r1;) subs r2; bne.
Fill(label, word, exit) ==
  /\ pc = label
  /\ mem' = [mem EXCEPT ![r0.page][r0.word] = r1]
  /\ r0' = Advance(r0)
  /\ r1' = word
  /\ r2' = r2 - 1
  /\ pc' = IF r2 = 1 THEN exit ELSE label
  /\ UNCHANGED <<r3, r4, r8, sp, cp15>>

SetDirectory(d, t) == mem' = [mem EXCEPT ![DirPage][d] = Table(t)]

ClearDirectory == Fill("clear_directory", r1, "load_identity")

LoadIdentity ==
  /\ pc = "load_identity"
  /\ Load(IdentityPage, Page([dir |-> RamDir, idx |-> 0], "rwx"), N)
  /\ pc' = "identity"
  /\ UNCHANGED <<mem, r3, r4, r8, sp, cp15>>

Identity == Fill("identity", NextPage(r1), "enter_identity")

\* The store of the directory entry is missing.
EnterIdentitySkipped ==
  /\ pc = "enter_identity"
  /\ Load(DirectPage, Page([dir |-> RamDir, idx |-> 0], "rwx"), 0)
  /\ r3' = DirectDir
  /\ r4' = NTables
  /\ pc' = "direct_table"
  /\ UNCHANGED <<mem, r8, sp, cp15>>

\* The identity table's directory entry, then r0, r1, r3, r4 for the direct map.
EnterIdentity ==
  /\ pc = "enter_identity"
  /\ SetDirectory(RamDir, IdentityPage)
  /\ Load(DirectPage, Page([dir |-> RamDir, idx |-> 0], "rwx"), 0)
  /\ r3' = DirectDir
  /\ r4' = NTables
  /\ pc' = "direct_table"
  /\ UNCHANGED <<r8, sp, cp15>>

DirectTable ==
  /\ pc = "direct_table"
  /\ SetDirectory(r3, r0.page)
  /\ r3' = r3 + 1
  /\ r2' = N
  /\ pc' = "direct"
  /\ UNCHANGED <<r0, r1, r4, r8, sp, cp15>>

Direct == Fill("direct", NextPage(r1), "direct_next")

\* Each table begins at the start of RAM again.
DirectNextReload ==
  /\ pc = "direct_next"
  /\ r4' = r4 - 1
  /\ r1' = Page([dir |-> RamDir, idx |-> 0], "rwx")
  /\ pc' = IF r4 = 1 THEN "load_mmio" ELSE "direct_table"
  /\ UNCHANGED <<mem, r0, r2, r3, r8, sp, cp15>>

DirectNext ==
  /\ pc = "direct_next"
  /\ r4' = r4 - 1
  /\ pc' = IF r4 = 1 THEN "load_mmio" ELSE "direct_table"
  /\ UNCHANGED <<mem, r0, r1, r2, r3, r8, sp, cp15>>

LoadMmio ==
  /\ pc = "load_mmio"
  /\ Load(MmioPage, Zero, N)
  /\ pc' = "clear_mmio"
  /\ UNCHANGED <<mem, r3, r4, r8, sp, cp15>>

\* The MMIO table keeps what RAM held.
ClearMmioSkipped ==
  /\ pc = "clear_mmio"
  /\ pc' = "load_window"
  /\ UNCHANGED <<mem, r0, r1, r2, r3, r4, r8, sp, cp15>>

ClearMmio == Fill("clear_mmio", r1, "load_window")

LoadWindow ==
  /\ pc = "load_window"
  /\ Load(MmioPage, Page([dir |-> MmioDir, idx |-> 0], "rw"), NMmio)
  /\ pc' = "window"
  /\ UNCHANGED <<mem, r3, r4, r8, sp, cp15>>

Window == Fill("window", NextPage(r1), "enter_mmio")

EnterMmio ==
  /\ pc = "enter_mmio"
  /\ SetDirectory(MmioDir, MmioPage)
  /\ pc' = "ttbr"
  /\ UNCHANGED <<r0, r1, r2, r3, r4, r8, sp, cp15>>

-----------------------------------------------------------------------------
(* The switch to translated addresses                                      *)

SetTtbr ==
  /\ pc = "ttbr"
  /\ ttbr' = DirPage
  /\ pc' = "tlbiall"
  /\ UNCHANGED <<mem, r0, r1, r2, r3, r4, r8, sp, stale, mmu, vbar>>

Tlbiall ==
  /\ pc = "tlbiall"
  /\ stale' = FALSE
  /\ pc' = "enable"
  /\ UNCHANGED <<mem, r0, r1, r2, r3, r4, r8, sp, ttbr, mmu, vbar>>

EnableMmu ==
  /\ pc = "enable"
  /\ mmu' = TRUE
  /\ pc' = "vbar"
  /\ UNCHANGED <<mem, r0, r1, r2, r3, r4, r8, sp, ttbr, stale, vbar>>

SetVbar ==
  /\ pc = "vbar"
  /\ vbar' = TRUE
  /\ pc' = "jump"
  /\ UNCHANGED <<mem, r0, r1, r2, r3, r4, r8, sp, ttbr, stale, mmu>>

JumpHigh ==
  /\ pc = "jump"
  /\ pc' = "high"
  /\ UNCHANGED <<mem, r0, r1, r2, r3, r4, r8, sp, cp15>>

\* minemu_bootstrap_high: the four stack pointers again, virtual now.
HighStacks ==
  /\ pc = "high"
  /\ sp' = [m \in Modes |-> ToVirtual(StackPage[m])]
  /\ pc' = "kernel_main"
  /\ UNCHANGED <<mem, r0, r1, r2, r3, r4, r8, cp15>>

\* kernel_main does not come back to the bootstrap.
KernelMain == pc = "kernel_main" /\ UNCHANGED vars

Next ==
  \/ Stacks
  \/ ClearDirectory
  \/ LoadIdentity
  \/ Identity
  \/ EnterIdentity
  \/ DirectTable
  \/ Direct
  \/ DirectNext
  \/ LoadMmio
  \/ ClearMmio
  \/ LoadWindow
  \/ Window
  \/ EnterMmio
  \/ SetTtbr
  \/ Tlbiall
  \/ EnableMmu
  \/ SetVbar
  \/ JumpHigh
  \/ HighStacks
  \/ KernelMain

Spec == Init /\ [][Next]_vars

-----------------------------------------------------------------------------
(* Properties                                                              *)

\* What the hardware's table walk finds for virtual page v.  Any word that is
\* not "none" has the valid bit; one that does not point to a table of the
\* bootstrap leads the walk into memory that holds anything.
Walk(v) ==
  LET pde == mem[ttbr][v.dir]
  IN  IF pde.kind = "none" THEN Zero
      ELSE IF pde.dir = RamDir /\ pde.idx \in TablePages THEN mem[pde.idx][v.idx]
      ELSE [kind |-> "anything", dir |-> 0, idx |-> 0]

\* What the map must be: the first RAM directory entry and the MMIO window at
\* their own addresses, all of RAM in the direct map, and nothing else.
Expected(v) ==
  IF v.dir = RamDir THEN Page(v, "rwx")
  ELSE IF v.dir \in DirectDir .. DirectDir + NTables - 1
       THEN Page([dir |-> v.dir - DirectDir + RamDir, idx |-> v.idx], "rwx")
  ELSE IF v.dir = MmioDir /\ v.idx < NMmio THEN Page(v, "rw")
  ELSE Zero

\* Translation is only ever on with exactly that map, whatever RAM and the TLB
\* held at reset (boot.S lines 30-36, 42-98).
MapExact ==
  mmu => ~stale /\ \A v \in [dir : Entries, idx : Entries] : Walk(v) = Expected(v)

\* The page the next instruction comes from, and where it really lies.
FetchPage == IF pc \in {"high", "kernel_main"} THEN ToVirtual(KernelPage) ELSE [dir |-> RamDir, idx |-> BootPage]
CodePage  == IF pc \in {"high", "kernel_main"} THEN KernelPage ELSE [dir |-> RamDir, idx |-> BootPage]

\* The instruction after the one that turns translation on, and every later
\* one, is fetched from the page it was loaded into, which is executable.
FetchMapped == mmu => Walk(FetchPage) = Page(CodePage, "rwx")

\* kernel_main starts with the vectors installed, each mode on its own stack
\* through the direct map, and the boot-info pointer it can dereference.
HandOver ==
  pc = "kernel_main" =>
    /\ mmu /\ vbar
    /\ \A m \in Modes : sp[m].dir >= DirectDir /\ Walk(sp[m]) = Page(StackPage[m], "rwx")
    /\ Walk(r8) = Page(InfoPage, "rwx")
=============================================================================
