-------------------------- MODULE BootstrapProofs ---------------------------
(***************************************************************************)
(* Proofs about the bootstrap of boot.S, for tables and directories of     *)
(* every size, every layout of the tables in RAM that LayoutAssumption     *)
(* allows, and every content of RAM at reset.                              *)
(*                                                                         *)
(* The inductive invariant says how far each table has been written at     *)
(* each point of the program; the down counters r2 and r4 measure it.      *)
(***************************************************************************)
EXTENDS Bootstrap, TLAPS

Mapped   == {"ttbr", "tlbiall", "enable", "vbar", "jump", "high", "kernel_main"}
OnMmio   == {"load_mmio", "clear_mmio", "load_window", "window", "enter_mmio"}
OnDirect == {"direct_table", "direct", "direct_next"}
OnIdentity == {"load_identity", "identity", "enter_identity"}

\* The table of the direct map the outer loop is at.
Row == NTables - r4

\* What a directory entry must be once it has been entered.
DirectoryWord(e) ==
  IF e = RamDir THEN Table(IdentityPage)
  ELSE IF e = MmioDir THEN Table(MmioPage)
  ELSE Table(DirectPage + (e - DirectDir))

\* The directory entries that have been entered.
Entered(e) ==
  \/ pc \in OnDirect \cup OnMmio \cup Mapped /\ e = RamDir
  \/ pc \in OnDirect \cup OnMmio \cup Mapped /\ DirectDir =< e /\ e < r3
  \/ pc \in Mapped /\ e = MmioDir

RamWord(d, e) == [kind |-> "rwx", dir |-> d, idx |-> e]
MmioWord(e)   == [kind |-> "rw", dir |-> MmioDir, idx |-> e]

TypeOK ==
  /\ mem \in [TablePages -> [Entries -> Words]]
  /\ pc \in {"stacks", "clear_directory"} \cup OnIdentity \cup OnDirect \cup OnMmio \cup Mapped

\* The registers of each loop, at every point where a later step uses them.
Registers ==
  /\ pc = "clear_directory" =>
       r2 \in 1 .. N /\ r0 = [page |-> DirPage, word |-> N - r2] /\ r1 = Zero
  /\ pc = "identity" =>
       r2 \in 1 .. N /\ r0 = [page |-> IdentityPage, word |-> N - r2] /\ r1 = RamWord(RamDir, N - r2)
  /\ pc \in OnDirect => r4 \in 1 .. NTables
  /\ pc = "direct_table" =>
       /\ r3 = DirectDir + Row
       /\ r0 = [page |-> DirectPage + Row, word |-> 0] /\ r1 = RamWord(RamDir + Row, 0)
  /\ pc = "direct" =>
       /\ r3 = DirectDir + Row + 1 /\ r2 \in 1 .. N
       /\ r0 = [page |-> DirectPage + Row, word |-> N - r2] /\ r1 = RamWord(RamDir + Row, N - r2)
  /\ pc = "direct_next" =>
       /\ r3 = DirectDir + Row + 1
       /\ r0 = [page |-> DirectPage + Row + 1, word |-> 0] /\ r1 = RamWord(RamDir + Row + 1, 0)
  /\ pc \in OnMmio \cup Mapped => r3 = DirectDir + NTables
  /\ pc = "clear_mmio" =>
       r2 \in 1 .. N /\ r0 = [page |-> MmioPage, word |-> N - r2] /\ r1 = Zero
  /\ pc = "window" =>
       r2 \in 1 .. NMmio /\ r0 = [page |-> MmioPage, word |-> NMmio - r2] /\ r1 = MmioWord(NMmio - r2)

DirectoryOK ==
  \A e \in Entries :
    /\ pc = "clear_directory" /\ e < N - r2 => mem[DirPage][e] = Zero
    /\ pc \notin {"stacks", "clear_directory"} =>
         mem[DirPage][e] = IF Entered(e) THEN DirectoryWord(e) ELSE Zero

IdentityOK ==
  \A e \in Entries :
    \/ pc = "identity" /\ e < N - r2
    \/ pc \in {"enter_identity"} \cup OnDirect \cup OnMmio \cup Mapped
    => mem[IdentityPage][e] = RamWord(RamDir, e)

\* The words of the direct map that have been written.
Filled(j, e) ==
  \/ pc \in OnDirect /\ j < Row
  \/ pc = "direct" /\ j = Row /\ e < N - r2
  \/ pc = "direct_next" /\ j = Row
  \/ pc \in OnMmio \cup Mapped

DirectOK ==
  \A j \in 0 .. NTables - 1, e \in Entries :
    Filled(j, e) => mem[DirectPage + j][e] = RamWord(RamDir + j, e)

MmioOK ==
  \A e \in Entries :
    /\ \/ pc = "clear_mmio" /\ e < N - r2
       \/ pc = "load_window"
       \/ pc = "window" /\ e >= NMmio - r2
       \/ pc \in {"enter_mmio"} \cup Mapped /\ e >= NMmio
       => mem[MmioPage][e] = Zero
    /\ \/ pc = "window" /\ e < NMmio - r2
       \/ pc \in {"enter_mmio"} \cup Mapped /\ e < NMmio
       => mem[MmioPage][e] = MmioWord(e)

\* The system registers and the stacks.
Switched ==
  /\ mmu => pc \in {"vbar", "jump", "high", "kernel_main"}
  /\ pc \in Mapped \ {"ttbr"} => ttbr = DirPage
  /\ pc \in Mapped \ {"ttbr", "tlbiall"} => stale = FALSE
  /\ pc \in {"vbar", "jump", "high", "kernel_main"} => mmu
  /\ pc \in {"jump", "high", "kernel_main"} => vbar
  /\ pc = "kernel_main" => sp = [m \in Modes |-> ToVirtual(StackPage[m])]
  /\ r8 = ToVirtual(InfoPage)

Tables == DirectoryOK /\ IdentityOK /\ DirectOK /\ MmioOK
IInv   == TypeOK /\ Registers /\ Tables /\ Switched

-----------------------------------------------------------------------------
(* The layout                                                              *)

\* The sizes and places are numbers, and no two tables share a page.
LEMMA Layout ==
  /\ N \in Nat /\ N >= 2 /\ NTables \in Nat /\ NTables >= 1 /\ NMmio \in Nat /\ NMmio >= 1 /\ NMmio =< N
  /\ RamDir \in Nat /\ DirectDir \in Nat /\ MmioDir \in Nat /\ DirectPage \in Nat
  /\ RamDir < DirectDir /\ MmioDir < RamDir /\ DirectDir + NTables =< N
  /\ DirPage \in TablePages /\ IdentityPage \in TablePages /\ MmioPage \in TablePages
  /\ DirPage \in Entries /\ IdentityPage \in Entries /\ MmioPage \in Entries
  /\ DirPage # IdentityPage /\ DirPage # MmioPage /\ IdentityPage # MmioPage
  /\ \A j \in 0 .. NTables - 1 :
       /\ DirectPage + j \in TablePages /\ DirectPage + j \in Entries
       /\ DirectPage + j # DirPage /\ DirectPage + j # IdentityPage /\ DirectPage + j # MmioPage
<1>1. /\ N \in Nat /\ N >= 2 /\ NTables \in Nat /\ NTables >= 1 /\ NMmio \in Nat /\ NMmio >= 1 /\ NMmio =< N
      /\ RamDir \in Nat /\ DirectDir \in Nat /\ MmioDir \in Nat /\ DirectPage \in Nat
      /\ RamDir < DirectDir /\ MmioDir < RamDir /\ DirectDir + NTables =< N
  BY LayoutAssumption DEF Entries
<1>2. /\ DirPage \in TablePages /\ IdentityPage \in TablePages /\ MmioPage \in TablePages
      /\ TablePages \subseteq Entries
      /\ DirPage # IdentityPage /\ DirPage # MmioPage /\ IdentityPage # MmioPage
  BY LayoutAssumption DEF TablePages
<1>3. ASSUME NEW j \in 0 .. NTables - 1
      PROVE  /\ DirectPage + j \in TablePages
             /\ DirectPage + j # DirPage /\ DirectPage + j # IdentityPage /\ DirectPage + j # MmioPage
  <2>1. DirectPage + j \in DirectPage .. DirectPage + NTables - 1
    BY <1>1
  <2> QED
    BY <2>1, LayoutAssumption DEF TablePages
<1> QED
  BY <1>1, <1>2, <1>3

\* The words the bootstrap stores are words.
LEMMA WordTypes ==
  /\ Zero \in Words
  /\ \A d \in Nat, e \in Nat : RamWord(d, e) \in Words
  /\ \A e \in Nat : MmioWord(e) \in Words
  /\ \A t \in Nat : Table(t) \in Words
  BY Layout DEF Zero, RamWord, MmioWord, Table, Words

\* The address arithmetic of a fill loop.
LEMMA Steps ==
  /\ \A p, k \in Nat : k < N - 1 => Advance([page |-> p, word |-> k]) = [page |-> p, word |-> k + 1]
  /\ \A p \in Nat : Advance([page |-> p, word |-> N - 1]) = [page |-> p + 1, word |-> 0]
  /\ \A d, k \in Nat : k < N - 1 => NextPage(RamWord(d, k)) = RamWord(d, k + 1)
  /\ \A d \in Nat : NextPage(RamWord(d, N - 1)) = RamWord(d + 1, 0)
  /\ \A k \in Nat : k < N - 1 => NextPage(MmioWord(k)) = MmioWord(k + 1)
<1>1. \A p, k \in Nat : k < N - 1 => Advance([page |-> p, word |-> k]) = [page |-> p, word |-> k + 1]
  BY Layout DEF Advance
<1>2. \A p \in Nat : Advance([page |-> p, word |-> N - 1]) = [page |-> p + 1, word |-> 0]
  BY Layout DEF Advance
<1>3. \A d, k \in Nat : k < N - 1 => NextPage(RamWord(d, k)) = RamWord(d, k + 1)
  BY Layout DEF NextPage, RamWord
<1>4. \A d \in Nat : NextPage(RamWord(d, N - 1)) = RamWord(d + 1, 0)
  BY Layout DEF NextPage, RamWord
<1>5. \A k \in Nat : k < N - 1 => NextPage(MmioWord(k)) = MmioWord(k + 1)
  BY Layout DEF NextPage, MmioWord
<1> QED
  BY <1>1, <1>2, <1>3, <1>4, <1>5

-----------------------------------------------------------------------------

\* The CPU as the loader hands it over satisfies IInv.
LEMMA InitInv == Init => IInv
<1> SUFFICES ASSUME Init PROVE IInv
  OBVIOUS
<1>1. TypeOK
  BY LayoutAssumption DEF Init, TypeOK
<1>2. Registers /\ Tables /\ Switched
  BY DEF Init, Registers, Tables, DirectoryOK, IdentityOK, DirectOK, Filled, MmioOK, Switched,
         OnIdentity, OnDirect, OnMmio, Mapped
<1> QED
  BY <1>1, <1>2 DEF IInv

-----------------------------------------------------------------------------
(* Steps that store nothing                                                *)

\* Setting up the stacks touches no table.
LEMMA StacksInv == ASSUME IInv, Stacks PROVE IInv'
<1>1. TypeOK'
  BY DEF IInv, TypeOK, Stacks, OnIdentity, OnDirect, OnMmio, Mapped
<1>2. Registers'
  BY Layout DEF IInv, Registers, Stacks, Row, Load, OnIdentity, OnDirect, OnMmio, Mapped
<1>3. Tables'
  BY Layout DEF IInv, Registers, Tables, DirectoryOK, Entered, DirectoryWord, IdentityOK, DirectOK, Filled, MmioOK, Row, Stacks, Load, OnIdentity, OnDirect, OnMmio, Mapped, Entries
<1>4. Switched'
  BY DEF IInv, Switched, Stacks, cp15, OnIdentity, OnDirect, OnMmio, Mapped
<1> QED
  BY <1>1, <1>2, <1>3, <1>4 DEF IInv

\* The loop over the identity pages is entered with its first page.
LEMMA LoadIdentityInv == ASSUME IInv, LoadIdentity PROVE IInv'
<1>1. TypeOK'
  BY DEF IInv, TypeOK, LoadIdentity, OnIdentity, OnDirect, OnMmio, Mapped
<1>2. Registers'
  BY Layout DEF IInv, Registers, LoadIdentity, Row, Load, Page, RamWord, OnIdentity, OnDirect, OnMmio, Mapped
<1>3. Tables'
  BY Layout DEF IInv, Registers, Tables, DirectoryOK, Entered, DirectoryWord, IdentityOK, DirectOK, Filled, MmioOK, Row, LoadIdentity, Load, Page, RamWord, OnIdentity, OnDirect, OnMmio, Mapped, Entries
<1>4. Switched'
  BY DEF IInv, Switched, LoadIdentity, cp15, OnIdentity, OnDirect, OnMmio, Mapped
<1> QED
  BY <1>1, <1>2, <1>3, <1>4 DEF IInv

\* The loop over the direct map goes on to its next table.
LEMMA DirectNextInv == ASSUME IInv, DirectNext PROVE IInv'
<1>1. TypeOK'
  BY DEF IInv, TypeOK, DirectNext, OnIdentity, OnDirect, OnMmio, Mapped
<1>2. Registers'
  BY Layout DEF IInv, Registers, DirectNext, Row, RamWord, OnIdentity, OnDirect, OnMmio, Mapped
<1>3. DirectoryOK' /\ IdentityOK'
  BY Layout DEF IInv, Registers, Tables, DirectoryOK, Entered, DirectoryWord, IdentityOK, Row, DirectNext,
                OnIdentity, OnDirect, OnMmio, Mapped, Entries
<1>4. DirectOK'
  <2> SUFFICES ASSUME NEW j \in 0 .. NTables - 1, NEW e \in Entries, Filled(j, e)'
               PROVE  Filled(j, e)
    BY DEF IInv, Tables, DirectOK, DirectNext
  <2> QED
    BY Layout DEF IInv, Registers, Filled, Row, DirectNext, OnDirect, OnMmio, Mapped
<1>5. MmioOK'
  BY DEF DirectNext, MmioOK, Mapped
<1>6. Switched'
  BY DEF IInv, Switched, DirectNext, cp15, OnIdentity, OnDirect, OnMmio, Mapped
<1> QED
  BY <1>1, <1>2, <1>3, <1>4, <1>5, <1>6 DEF IInv, Tables

\* The MMIO table is cleared before it is used.
LEMMA LoadMmioInv == ASSUME IInv, LoadMmio PROVE IInv'
<1>1. TypeOK'
  BY DEF IInv, TypeOK, LoadMmio, OnIdentity, OnDirect, OnMmio, Mapped
<1>2. Registers'
  BY Layout DEF IInv, Registers, LoadMmio, Row, Load, OnIdentity, OnDirect, OnMmio, Mapped
<1>3. Tables'
  BY Layout DEF IInv, Registers, Tables, DirectoryOK, Entered, DirectoryWord, IdentityOK, DirectOK, Filled, MmioOK, Row, LoadMmio, Load, OnIdentity, OnDirect, OnMmio, Mapped, Entries
<1>4. Switched'
  BY DEF IInv, Switched, LoadMmio, cp15, OnIdentity, OnDirect, OnMmio, Mapped
<1> QED
  BY <1>1, <1>2, <1>3, <1>4 DEF IInv

\* The loop over the MMIO windows is entered with its first page.
LEMMA LoadWindowInv == ASSUME IInv, LoadWindow PROVE IInv'
<1>1. TypeOK'
  BY DEF IInv, TypeOK, LoadWindow, OnIdentity, OnDirect, OnMmio, Mapped
<1>2. Registers'
  BY Layout DEF IInv, Registers, LoadWindow, Row, Load, Page, MmioWord, OnIdentity, OnDirect, OnMmio, Mapped
<1>3. Tables'
  BY Layout DEF IInv, Registers, Tables, DirectoryOK, Entered, DirectoryWord, IdentityOK, DirectOK, Filled, MmioOK, Row, LoadWindow, Load, Page, MmioWord, OnIdentity, OnDirect, OnMmio, Mapped, Entries
<1>4. Switched'
  BY DEF IInv, Switched, LoadWindow, cp15, OnIdentity, OnDirect, OnMmio, Mapped
<1> QED
  BY <1>1, <1>2, <1>3, <1>4 DEF IInv

\* The writes of system registers, the jump and the second set of stacks.
LEMMA SwitchInv ==
  ASSUME IInv, SetTtbr \/ Tlbiall \/ EnableMmu \/ SetVbar \/ JumpHigh \/ HighStacks
  PROVE  IInv'
<1> DEFINE Step == SetTtbr \/ Tlbiall \/ EnableMmu \/ SetVbar \/ JumpHigh \/ HighStacks
<1> USE DEF SetTtbr, Tlbiall, EnableMmu, SetVbar, JumpHigh, HighStacks
<1>1. pc \in Mapped /\ pc' \in Mapped /\ UNCHANGED <<mem, r0, r1, r2, r3, r4, r8>>
  BY DEF Mapped
<1>2. TypeOK' /\ Registers'
  BY <1>1 DEF IInv, TypeOK, Registers, OnIdentity, OnDirect, OnMmio, Mapped
<1>3. Tables'
  BY <1>1 DEF IInv, Tables, DirectoryOK, Entered, DirectoryWord, IdentityOK, DirectOK, Filled, MmioOK,
              OnIdentity, OnDirect, OnMmio, Mapped
<1>4. Switched'
  <2>1. CASE SetTtbr
    BY <2>1 DEF IInv, Switched, Mapped
  <2>2. CASE Tlbiall
    BY <2>2 DEF IInv, Switched, Mapped
  <2>3. CASE EnableMmu
    BY <2>3 DEF IInv, Switched, Mapped
  <2>4. CASE SetVbar
    BY <2>4 DEF IInv, Switched, Mapped
  <2>5. CASE JumpHigh
    BY <2>5 DEF IInv, Switched, Mapped, cp15
  <2>6. CASE HighStacks
    BY <2>6 DEF IInv, Switched, Mapped, cp15
  <2> QED
    BY <2>1, <2>2, <2>3, <2>4, <2>5, <2>6
<1> QED
  BY <1>2, <1>3, <1>4 DEF IInv

-----------------------------------------------------------------------------
(* Turns of the fill loops                                                 *)

\* One turn of a loop that fills the first n words of a table.
LEMMA Turn ==
  ASSUME IInv, NEW n \in 1 .. N, r0 \in [page : TablePages, word : Entries], r1 \in Words,
         r2 \in 1 .. n, r0.word = n - r2,
         mem' = [mem EXCEPT ![r0.page][r0.word] = r1], r0' = Advance(r0), r2' = r2 - 1
  PROVE  /\ mem' \in [TablePages -> [Entries -> Words]]
         /\ \A q \in TablePages, e \in Entries :
              mem'[q][e] = IF q = r0.page /\ e = n - r2 THEN r1 ELSE mem[q][e]
         /\ r2 # 1 => r2' \in 1 .. n /\ r0' = [page |-> r0.page, word |-> n - r2']
         /\ r2 = 1 /\ n = N => r0' = [page |-> r0.page + 1, word |-> 0]
<1>1. PICK p \in TablePages, k \in Entries : r0 = [page |-> p, word |-> k]
  OBVIOUS
<1>2. p \in Nat /\ k = n - r2 /\ k \in Nat /\ n \in Nat /\ n =< N /\ r2 \in Nat
  BY <1>1, Layout, LayoutAssumption DEF Entries
<1>3. /\ mem' \in [TablePages -> [Entries -> Words]]
      /\ \A q \in TablePages, e \in Entries : mem'[q][e] = IF q = p /\ e = k THEN r1 ELSE mem[q][e]
  BY <1>1 DEF IInv, TypeOK
<1>4. k < N - 1 => r0' = [page |-> p, word |-> k + 1]
  BY <1>1, <1>2, Steps
<1>5. k = N - 1 => r0' = [page |-> p + 1, word |-> 0]
  BY <1>1, <1>2, Steps
<1> QED
  BY <1>1, <1>2, <1>3, <1>4, <1>5, Layout

\* Clearing the directory: what is clear stays clear, entry by entry.
LEMMA ClearDirectoryInv == ASSUME IInv, ClearDirectory PROVE IInv'
<1>1. /\ pc = "clear_directory" /\ r2 \in 1 .. N /\ r2 \in Nat /\ r2 =< N
      /\ r0 = [page |-> DirPage, word |-> N - r2] /\ r1 = Zero
  BY Layout DEF IInv, Registers, ClearDirectory, Fill
<1>2. DirPage \in TablePages /\ N - r2 \in Entries /\ Zero \in Words /\ N \in 1 .. N
  BY <1>1, Layout, WordTypes DEF IInv, Registers, Entries
<1>3. /\ mem' = [mem EXCEPT ![r0.page][r0.word] = r1] /\ r0' = Advance(r0) /\ r2' = r2 - 1
      /\ r1' = r1
      /\ pc' = IF r2 = 1 THEN "load_identity" ELSE "clear_directory"
      /\ UNCHANGED <<r3, r4, r8, sp, cp15>>
  BY DEF ClearDirectory, Fill
<1>4. /\ r0 \in [page : TablePages, word : Entries] /\ r0.word = N - r2 /\ r0.page = DirPage
  BY <1>1, <1>2
<1>5. /\ mem' \in [TablePages -> [Entries -> Words]]
      /\ \A q \in TablePages, e \in Entries :
           mem'[q][e] = IF q = DirPage /\ e = N - r2 THEN Zero ELSE mem[q][e]
      /\ r2 # 1 => r2' \in 1 .. N /\ r0' = [page |-> DirPage, word |-> N - r2']
      /\ r2 = 1 /\ N = N => r0' = [page |-> DirPage + 1, word |-> 0]
  BY <1>1, <1>2, <1>3, <1>4, Turn
<1>6. TypeOK'
  BY <1>3, <1>5 DEF IInv, TypeOK, OnIdentity, OnDirect, OnMmio, Mapped
<1>7. Registers'
  BY <1>1, <1>2, <1>3, <1>5, Layout, Steps DEF IInv, Registers, OnIdentity, OnDirect, OnMmio, Mapped, Row, Entries
<1>8. DirectoryOK'
  BY <1>1, <1>2, <1>3, <1>5, Layout DEF IInv, Registers, Tables, DirectoryOK, Entered, DirectoryWord, OnIdentity, OnDirect, OnMmio, Mapped, Entries
<1>9. IdentityOK'
  BY <1>1, <1>2, <1>3, <1>5, Layout DEF IInv, Registers, Tables, IdentityOK, OnIdentity, OnDirect, OnMmio, Mapped, Entries
<1>10. DirectOK'
  BY <1>1, <1>2, <1>3, <1>5, Layout DEF IInv, Registers, Tables, DirectOK, Filled, Row, OnIdentity, OnDirect, OnMmio, Mapped, Entries
<1>11. MmioOK'
  BY <1>1, <1>2, <1>3, <1>5, Layout DEF IInv, Registers, Tables, MmioOK, OnIdentity, OnDirect, OnMmio, Mapped, Entries
<1>12. Switched'
  BY <1>1, <1>3 DEF IInv, Switched, cp15, OnIdentity, OnDirect, OnMmio, Mapped
<1> QED
  BY <1>6, <1>7, <1>8, <1>9, <1>10, <1>11, <1>12 DEF IInv, Tables

\* One page of the identity map.
LEMMA IdentityInv == ASSUME IInv, Identity PROVE IInv'
<1>1. /\ pc = "identity" /\ r2 \in 1 .. N /\ r2 \in Nat /\ r2 =< N
      /\ r0 = [page |-> IdentityPage, word |-> N - r2] /\ r1 = RamWord(RamDir, N - r2)
  BY Layout DEF IInv, Registers, Identity, Fill
<1>2. IdentityPage \in TablePages /\ N - r2 \in Entries /\ RamWord(RamDir, N - r2) \in Words /\ N \in 1 .. N
  BY <1>1, Layout, WordTypes DEF IInv, Registers, Entries
<1>3. /\ mem' = [mem EXCEPT ![r0.page][r0.word] = r1] /\ r0' = Advance(r0) /\ r2' = r2 - 1
      /\ r1' = NextPage(r1)
      /\ pc' = IF r2 = 1 THEN "enter_identity" ELSE "identity"
      /\ UNCHANGED <<r3, r4, r8, sp, cp15>>
  BY DEF Identity, Fill
<1>4. /\ r0 \in [page : TablePages, word : Entries] /\ r0.word = N - r2 /\ r0.page = IdentityPage
  BY <1>1, <1>2
<1>5. /\ mem' \in [TablePages -> [Entries -> Words]]
      /\ \A q \in TablePages, e \in Entries :
           mem'[q][e] = IF q = IdentityPage /\ e = N - r2 THEN RamWord(RamDir, N - r2) ELSE mem[q][e]
      /\ r2 # 1 => r2' \in 1 .. N /\ r0' = [page |-> IdentityPage, word |-> N - r2']
      /\ r2 = 1 /\ N = N => r0' = [page |-> IdentityPage + 1, word |-> 0]
  BY <1>1, <1>2, <1>3, <1>4, Turn
<1>6. TypeOK'
  BY <1>3, <1>5 DEF IInv, TypeOK, OnIdentity, OnDirect, OnMmio, Mapped
<1>7. Registers'
  BY <1>1, <1>2, <1>3, <1>5, Layout, Steps DEF IInv, Registers, OnIdentity, OnDirect, OnMmio, Mapped, Row, Entries
<1>8. DirectoryOK'
  BY <1>1, <1>2, <1>3, <1>5, Layout DEF IInv, Registers, Tables, DirectoryOK, Entered, DirectoryWord, OnIdentity, OnDirect, OnMmio, Mapped, Entries
<1>9. IdentityOK'
  <2> SUFFICES ASSUME NEW e \in Entries, e =< N - r2
               PROVE  mem'[IdentityPage][e] = RamWord(RamDir, e)
    BY <1>1, <1>3, Layout DEF IdentityOK, OnDirect, OnMmio, Mapped, Entries
  <2>1. CASE e = N - r2
    BY <2>1, <1>2, <1>5
  <2>2. CASE e < N - r2
    BY <2>2, <1>1, <1>2, <1>5 DEF IInv, Tables, IdentityOK
  <2> QED
    BY <1>1, <2>1, <2>2, Layout DEF Entries
<1>10. DirectOK'
  BY <1>1, <1>2, <1>3, <1>5, Layout DEF IInv, Registers, Tables, DirectOK, Filled, Row, OnIdentity, OnDirect, OnMmio, Mapped, Entries
<1>11. MmioOK'
  BY <1>1, <1>2, <1>3, <1>5, Layout DEF IInv, Registers, Tables, MmioOK, OnIdentity, OnDirect, OnMmio, Mapped, Entries
<1>12. Switched'
  BY <1>1, <1>3 DEF IInv, Switched, cp15, OnIdentity, OnDirect, OnMmio, Mapped
<1> QED
  BY <1>6, <1>7, <1>8, <1>9, <1>10, <1>11, <1>12 DEF IInv, Tables

\* One page of the direct map.
LEMMA DirectInv == ASSUME IInv, Direct PROVE IInv'
<1>1. /\ pc = "direct" /\ r2 \in 1 .. N /\ r2 \in Nat /\ r2 =< N
      /\ r0 = [page |-> DirectPage + Row, word |-> N - r2] /\ r1 = RamWord(RamDir + Row, N - r2)
  BY Layout DEF IInv, Registers, Direct, Fill
<1>2. /\ Row \in 0 .. NTables - 1 /\ Row \in Nat /\ Row' = Row /\ r4 \in 1 .. NTables
      /\ r3 = DirectDir + Row + 1 /\ r3' = r3
      /\ N - r2 \in Entries /\ N \in 1 .. N
      /\ DirectPage + Row \in TablePages /\ RamWord(RamDir + Row, N - r2) \in Words
  <2>1. /\ Row \in 0 .. NTables - 1 /\ Row \in Nat /\ Row' = Row /\ r4 \in 1 .. NTables
        /\ r3 = DirectDir + Row + 1 /\ r3' = r3
    BY <1>1, Layout DEF IInv, Registers, Direct, Fill, Row, OnDirect
  <2>2. N - r2 \in Entries /\ N - r2 \in Nat /\ N \in 1 .. N
    BY <1>1, Layout DEF Entries
  <2> QED
    BY <2>1, <2>2, Layout, WordTypes
<1>3. /\ mem' = [mem EXCEPT ![r0.page][r0.word] = r1] /\ r0' = Advance(r0) /\ r2' = r2 - 1
      /\ r1' = NextPage(r1)
      /\ pc' = IF r2 = 1 THEN "direct_next" ELSE "direct"
      /\ UNCHANGED <<r3, r4, r8, sp, cp15>>
  BY DEF Direct, Fill
<1>4. /\ r0 \in [page : TablePages, word : Entries] /\ r0.word = N - r2 /\ r0.page = DirectPage + Row
  BY <1>1, <1>2
<1>5. /\ mem' \in [TablePages -> [Entries -> Words]]
      /\ \A q \in TablePages, e \in Entries :
           mem'[q][e] = IF q = DirectPage + Row /\ e = N - r2 THEN RamWord(RamDir + Row, N - r2) ELSE mem[q][e]
      /\ r2 # 1 => r2' \in 1 .. N /\ r0' = [page |-> DirectPage + Row, word |-> N - r2']
      /\ r2 = 1 /\ N = N => r0' = [page |-> DirectPage + Row + 1, word |-> 0]
  BY <1>1, <1>2, <1>3, <1>4, Turn
<1>6. TypeOK'
  BY <1>3, <1>5 DEF IInv, TypeOK, OnIdentity, OnDirect, OnMmio, Mapped
<1>7. Registers'
  <2>1. CASE r2 = 1
    <3>1. NextPage(RamWord(RamDir + Row, N - 1)) = RamWord(RamDir + Row + 1, 0)
      BY <1>2, Layout, Steps
    <3> QED
      BY <1>1, <1>2, <1>3, <1>5, <2>1, <3>1 DEF Registers, OnDirect, OnMmio, Mapped
  <2>2. CASE r2 # 1
    <3>1. NextPage(RamWord(RamDir + Row, N - r2)) = RamWord(RamDir + Row, (N - r2) + 1)
      BY <1>1, <1>2, <2>2, Layout, Steps
    <3>2. (N - r2) + 1 = N - r2'
      BY <1>1, <1>3, Layout
    <3> QED
      BY <1>1, <1>2, <1>3, <1>5, <2>2, <3>1, <3>2 DEF Registers, OnDirect, OnMmio, Mapped
  <2> QED
    BY <2>1, <2>2
<1>8. DirectoryOK'
  <2>1. \A e \in Entries : mem'[DirPage][e] = mem[DirPage][e]
    BY <1>2, <1>5, Layout
  <2> QED
    BY <1>1, <1>3, <2>1 DEF IInv, Tables, DirectoryOK, Entered, DirectoryWord, OnDirect, OnMmio, Mapped
<1>9. IdentityOK'
  <2>1. \A e \in Entries : mem'[IdentityPage][e] = mem[IdentityPage][e]
    BY <1>2, <1>5, Layout
  <2> QED
    BY <1>1, <1>3, <2>1 DEF IInv, Tables, IdentityOK, OnDirect, OnMmio, Mapped
<1>10. DirectOK'
  <2> SUFFICES ASSUME NEW j \in 0 .. NTables - 1, NEW e \in Entries, Filled(j, e)'
               PROVE  mem'[DirectPage + j][e] = RamWord(RamDir + j, e)
    BY DEF DirectOK
  <2>1. Filled(j, e) \/ (j = Row /\ e = N - r2)
    BY <1>1, <1>2, <1>3, Layout DEF Filled, OnDirect, OnMmio, Mapped, Entries
  <2>2. CASE j = Row /\ e = N - r2
    BY <2>2, <1>2, <1>5
  <2>3. CASE Filled(j, e) /\ ~(j = Row /\ e = N - r2)
    <3>1. DirectPage + j = DirectPage + Row => j = Row
      BY <1>2, Layout
    <3>2. mem'[DirectPage + j][e] = mem[DirectPage + j][e]
      BY <1>2, <1>5, <2>3, <3>1, Layout
    <3> QED
      BY <2>3, <3>2 DEF IInv, Tables, DirectOK
  <2> QED
    BY <2>1, <2>2, <2>3
<1>11. MmioOK'
  BY <1>1, <1>2, <1>3, <1>5, Layout DEF IInv, Registers, Tables, MmioOK, OnIdentity, OnDirect, OnMmio, Mapped, Entries
<1>12. Switched'
  BY <1>1, <1>3 DEF IInv, Switched, cp15, OnIdentity, OnDirect, OnMmio, Mapped
<1> QED
  BY <1>6, <1>7, <1>8, <1>9, <1>10, <1>11, <1>12 DEF IInv, Tables

\* Clearing the MMIO table, entry by entry.
LEMMA ClearMmioInv == ASSUME IInv, ClearMmio PROVE IInv'
<1>1. /\ pc = "clear_mmio" /\ r2 \in 1 .. N /\ r2 \in Nat /\ r2 =< N
      /\ r0 = [page |-> MmioPage, word |-> N - r2] /\ r1 = Zero
  BY Layout DEF IInv, Registers, ClearMmio, Fill
<1>2. MmioPage \in TablePages /\ N - r2 \in Entries /\ Zero \in Words /\ N \in 1 .. N
  BY <1>1, Layout, WordTypes DEF IInv, Registers, Entries
<1>3. /\ mem' = [mem EXCEPT ![r0.page][r0.word] = r1] /\ r0' = Advance(r0) /\ r2' = r2 - 1
      /\ r1' = r1
      /\ pc' = IF r2 = 1 THEN "load_window" ELSE "clear_mmio"
      /\ UNCHANGED <<r3, r4, r8, sp, cp15>>
  BY DEF ClearMmio, Fill
<1>4. /\ r0 \in [page : TablePages, word : Entries] /\ r0.word = N - r2 /\ r0.page = MmioPage
  BY <1>1, <1>2
<1>5. /\ mem' \in [TablePages -> [Entries -> Words]]
      /\ \A q \in TablePages, e \in Entries :
           mem'[q][e] = IF q = MmioPage /\ e = N - r2 THEN Zero ELSE mem[q][e]
      /\ r2 # 1 => r2' \in 1 .. N /\ r0' = [page |-> MmioPage, word |-> N - r2']
      /\ r2 = 1 /\ N = N => r0' = [page |-> MmioPage + 1, word |-> 0]
  BY <1>1, <1>2, <1>3, <1>4, Turn
<1>6. TypeOK'
  BY <1>3, <1>5 DEF IInv, TypeOK, OnIdentity, OnDirect, OnMmio, Mapped
<1>7. Registers'
  BY <1>1, <1>2, <1>3, <1>5, Layout, Steps DEF IInv, Registers, OnIdentity, OnDirect, OnMmio, Mapped, Row, Entries
<1>8. DirectoryOK'
  BY <1>1, <1>2, <1>3, <1>5, Layout DEF IInv, Registers, Tables, DirectoryOK, Entered, DirectoryWord, OnIdentity, OnDirect, OnMmio, Mapped, Entries
<1>9. IdentityOK'
  BY <1>1, <1>2, <1>3, <1>5, Layout DEF IInv, Registers, Tables, IdentityOK, OnIdentity, OnDirect, OnMmio, Mapped, Entries
<1>10. DirectOK'
  <2>1. \A j \in 0 .. NTables - 1, e \in Entries : mem'[DirectPage + j][e] = mem[DirectPage + j][e]
    BY <1>2, <1>5, Layout
  <2> QED
    BY <1>1, <1>3, <2>1 DEF IInv, Tables, DirectOK, Filled, OnDirect, OnMmio, Mapped
<1>11. MmioOK'
  BY <1>1, <1>2, <1>3, <1>5, Layout DEF IInv, Registers, Tables, MmioOK, OnIdentity, OnDirect, OnMmio, Mapped, Entries
<1>12. Switched'
  BY <1>1, <1>3 DEF IInv, Switched, cp15, OnIdentity, OnDirect, OnMmio, Mapped
<1> QED
  BY <1>6, <1>7, <1>8, <1>9, <1>10, <1>11, <1>12 DEF IInv, Tables

\* One page of an MMIO window.
LEMMA WindowInv == ASSUME IInv, Window PROVE IInv'
<1>1. /\ pc = "window" /\ r2 \in 1 .. NMmio /\ r2 \in Nat /\ r2 =< NMmio
      /\ r0 = [page |-> MmioPage, word |-> NMmio - r2] /\ r1 = MmioWord(NMmio - r2)
  BY Layout DEF IInv, Registers, Window, Fill
<1>2. MmioPage \in TablePages /\ NMmio - r2 \in Entries /\ MmioWord(NMmio - r2) \in Words /\ NMmio \in 1 .. N
  BY <1>1, Layout, WordTypes DEF IInv, Registers, Entries
<1>3. /\ mem' = [mem EXCEPT ![r0.page][r0.word] = r1] /\ r0' = Advance(r0) /\ r2' = r2 - 1
      /\ r1' = NextPage(r1)
      /\ pc' = IF r2 = 1 THEN "enter_mmio" ELSE "window"
      /\ UNCHANGED <<r3, r4, r8, sp, cp15>>
  BY DEF Window, Fill
<1>4. /\ r0 \in [page : TablePages, word : Entries] /\ r0.word = NMmio - r2 /\ r0.page = MmioPage
  BY <1>1, <1>2
<1>5. /\ mem' \in [TablePages -> [Entries -> Words]]
      /\ \A q \in TablePages, e \in Entries :
           mem'[q][e] = IF q = MmioPage /\ e = NMmio - r2 THEN MmioWord(NMmio - r2) ELSE mem[q][e]
      /\ r2 # 1 => r2' \in 1 .. NMmio /\ r0' = [page |-> MmioPage, word |-> NMmio - r2']
      /\ r2 = 1 /\ NMmio = N => r0' = [page |-> MmioPage + 1, word |-> 0]
  BY <1>1, <1>2, <1>3, <1>4, Turn
<1>6. TypeOK'
  BY <1>3, <1>5 DEF IInv, TypeOK, OnIdentity, OnDirect, OnMmio, Mapped
<1>7. Registers'
  BY <1>1, <1>2, <1>3, <1>5, Layout, Steps DEF IInv, Registers, OnIdentity, OnDirect, OnMmio, Mapped, Row, Entries
<1>8. DirectoryOK'
  BY <1>1, <1>2, <1>3, <1>5, Layout DEF IInv, Registers, Tables, DirectoryOK, Entered, DirectoryWord, OnIdentity, OnDirect, OnMmio, Mapped, Entries
<1>9. IdentityOK'
  BY <1>1, <1>2, <1>3, <1>5, Layout DEF IInv, Registers, Tables, IdentityOK, OnIdentity, OnDirect, OnMmio, Mapped, Entries
<1>10. DirectOK'
  <2>1. \A j \in 0 .. NTables - 1, e \in Entries : mem'[DirectPage + j][e] = mem[DirectPage + j][e]
    BY <1>2, <1>5, Layout
  <2> QED
    BY <1>1, <1>3, <2>1 DEF IInv, Tables, DirectOK, Filled, OnDirect, OnMmio, Mapped
<1>11. MmioOK'
  BY <1>1, <1>2, <1>3, <1>5, Layout DEF IInv, Registers, Tables, MmioOK, OnIdentity, OnDirect, OnMmio, Mapped, Entries
<1>12. Switched'
  BY <1>1, <1>3 DEF IInv, Switched, cp15, OnIdentity, OnDirect, OnMmio, Mapped
<1> QED
  BY <1>6, <1>7, <1>8, <1>9, <1>10, <1>11, <1>12 DEF IInv, Tables

-----------------------------------------------------------------------------
(* Directory entries                                                       *)

\* The identity table enters the directory complete.
LEMMA EnterIdentityInv == ASSUME IInv, EnterIdentity PROVE IInv'
<1>1. RamDir \in Entries /\ Table(IdentityPage) \in Words /\ mem' = [mem EXCEPT ![DirPage][RamDir] = Table(IdentityPage)]
  BY Layout, WordTypes DEF IInv, Registers, EnterIdentity, SetDirectory, OnDirect, Entries, Row
<1>2. /\ mem' \in [TablePages -> [Entries -> Words]]
      /\ \A q \in TablePages, e \in Entries :
           mem'[q][e] = IF q = DirPage /\ e = RamDir THEN Table(IdentityPage) ELSE mem[q][e]
  BY <1>1, Layout DEF IInv, TypeOK
<1>3. TypeOK'
  BY <1>2 DEF IInv, TypeOK, EnterIdentity, OnIdentity, OnDirect, OnMmio, Mapped
<1>4. Registers'
  BY <1>1, Layout DEF IInv, Registers, EnterIdentity, Load, Page, RamWord, OnIdentity, OnDirect, OnMmio, Mapped, Row
<1>5. DirectoryOK'
  BY <1>1, <1>2, Layout DEF IInv, Registers, Tables, DirectoryOK, Entered, DirectoryWord, EnterIdentity, Load, Page, RamWord, OnIdentity, OnDirect, OnMmio, Mapped, Entries
<1>6. IdentityOK'
  BY <1>1, <1>2, Layout DEF IInv, Registers, Tables, IdentityOK, EnterIdentity, Load, Page, RamWord, OnIdentity, OnDirect, OnMmio, Mapped, Entries
<1>7. DirectOK'
  BY <1>1, <1>2, Layout DEF IInv, Registers, Tables, DirectOK, Filled, Row, EnterIdentity, Load, Page, RamWord, OnIdentity, OnDirect, OnMmio, Mapped, Entries
<1>8. MmioOK'
  BY <1>1, <1>2, Layout DEF IInv, Registers, Tables, MmioOK, EnterIdentity, Load, Page, RamWord, OnIdentity, OnDirect, OnMmio, Mapped, Entries
<1>9. Switched'
  BY DEF IInv, Switched, EnterIdentity, cp15, OnIdentity, OnDirect, OnMmio, Mapped
<1> QED
  BY <1>3, <1>4, <1>5, <1>6, <1>7, <1>8, <1>9 DEF IInv, Tables

\* A table of the direct map enters the directory before it is filled.
LEMMA DirectTableInv == ASSUME IInv, DirectTable PROVE IInv'
<1>1. r3 \in Entries /\ Table(DirectPage + Row) \in Words /\ mem' = [mem EXCEPT ![DirPage][r3] = Table(DirectPage + Row)]
  <2>1. /\ pc = "direct_table" /\ r4 \in 1 .. NTables /\ r3 = DirectDir + Row
        /\ r0.page = DirectPage + Row
    BY DEF IInv, Registers, DirectTable, OnDirect
  <2>2. Row \in Nat /\ Row < NTables
    BY <2>1, Layout DEF Row
  <2>3. r3 \in Entries /\ DirectPage + Row \in Nat
    BY <2>1, <2>2, Layout DEF Entries
  <2> QED
    BY <2>1, <2>3, WordTypes DEF DirectTable, SetDirectory
<1>2. /\ mem' \in [TablePages -> [Entries -> Words]]
      /\ \A q \in TablePages, e \in Entries :
           mem'[q][e] = IF q = DirPage /\ e = r3 THEN Table(DirectPage + Row) ELSE mem[q][e]
  BY <1>1, Layout DEF IInv, TypeOK
<1>3. TypeOK'
  BY <1>2 DEF IInv, TypeOK, DirectTable, OnIdentity, OnDirect, OnMmio, Mapped
<1>4. Registers'
  BY <1>1, Layout DEF IInv, Registers, DirectTable, OnIdentity, OnDirect, OnMmio, Mapped, Row
<1>5. DirectoryOK'
  <2>1. /\ pc = "direct_table" /\ pc' = "direct" /\ r3 = DirectDir + Row /\ r3' = r3 + 1
        /\ Row \in Nat /\ Row < NTables
    BY Layout DEF IInv, Registers, DirectTable, OnDirect, Row
  <2>2. DirectoryWord(r3) = Table(DirectPage + Row)
    BY <2>1, Layout DEF DirectoryWord
  <2>3. \A e \in Entries : Entered(e)' <=> Entered(e) \/ e = r3
    BY <2>1, Layout DEF Entered, OnDirect, OnMmio, Mapped, Entries
  <2>4. ASSUME NEW e \in Entries
        PROVE  mem'[DirPage][e] = IF Entered(e) \/ e = r3 THEN DirectoryWord(e) ELSE Zero
    <3>1. CASE e = r3
      BY <3>1, <1>1, <1>2, <2>2, Layout
    <3>2. CASE e # r3
      BY <3>2, <1>1, <1>2, <2>1, Layout DEF IInv, Tables, DirectoryOK
    <3> QED
      BY <3>1, <3>2
  <2> QED
    BY <2>1, <2>3, <2>4 DEF DirectoryOK, DirectoryWord
<1>6. IdentityOK'
  BY <1>1, <1>2, Layout DEF IInv, Registers, Tables, IdentityOK, DirectTable, OnIdentity, OnDirect, OnMmio, Mapped, Entries
<1>7. DirectOK'
  <2>1. \A j \in 0 .. NTables - 1, e \in Entries : mem'[DirectPage + j][e] = mem[DirectPage + j][e]
    BY <1>1, <1>2, Layout
  <2>2. \A j \in 0 .. NTables - 1, e \in Entries : Filled(j, e)' => Filled(j, e)
    BY Layout DEF DirectTable, Filled, Row, OnDirect, OnMmio, Mapped, Entries
  <2> QED
    BY <2>1, <2>2 DEF IInv, Tables, DirectOK
<1>8. MmioOK'
  BY <1>1, <1>2, Layout DEF IInv, Registers, Tables, MmioOK, DirectTable, OnIdentity, OnDirect, OnMmio, Mapped, Entries
<1>9. Switched'
  BY DEF IInv, Switched, DirectTable, cp15, OnIdentity, OnDirect, OnMmio, Mapped
<1> QED
  BY <1>3, <1>4, <1>5, <1>6, <1>7, <1>8, <1>9 DEF IInv, Tables

\* The MMIO table enters the directory complete.
LEMMA EnterMmioInv == ASSUME IInv, EnterMmio PROVE IInv'
<1>1. MmioDir \in Entries /\ Table(MmioPage) \in Words /\ mem' = [mem EXCEPT ![DirPage][MmioDir] = Table(MmioPage)]
  BY Layout, WordTypes DEF IInv, Registers, EnterMmio, SetDirectory, OnDirect, Entries, Row
<1>2. /\ mem' \in [TablePages -> [Entries -> Words]]
      /\ \A q \in TablePages, e \in Entries :
           mem'[q][e] = IF q = DirPage /\ e = MmioDir THEN Table(MmioPage) ELSE mem[q][e]
  BY <1>1, Layout DEF IInv, TypeOK
<1>3. TypeOK'
  BY <1>2 DEF IInv, TypeOK, EnterMmio, OnIdentity, OnDirect, OnMmio, Mapped
<1>4. Registers'
  BY <1>1, Layout DEF IInv, Registers, EnterMmio, OnIdentity, OnDirect, OnMmio, Mapped, Row
<1>5. DirectoryOK'
  BY <1>1, <1>2, Layout DEF IInv, Registers, Tables, DirectoryOK, Entered, DirectoryWord, EnterMmio, OnIdentity, OnDirect, OnMmio, Mapped, Entries
<1>6. IdentityOK'
  BY <1>1, <1>2, Layout DEF IInv, Registers, Tables, IdentityOK, EnterMmio, OnIdentity, OnDirect, OnMmio, Mapped, Entries
<1>7. DirectOK'
  BY <1>1, <1>2, Layout DEF IInv, Registers, Tables, DirectOK, Filled, Row, EnterMmio, OnIdentity, OnDirect, OnMmio, Mapped, Entries
<1>8. MmioOK'
  BY <1>1, <1>2, Layout DEF IInv, Registers, Tables, MmioOK, EnterMmio, OnIdentity, OnDirect, OnMmio, Mapped, Entries
<1>9. Switched'
  BY DEF IInv, Switched, EnterMmio, cp15, OnIdentity, OnDirect, OnMmio, Mapped
<1> QED
  BY <1>3, <1>4, <1>5, <1>6, <1>7, <1>8, <1>9 DEF IInv, Tables

-----------------------------------------------------------------------------
(* The specification                                                       *)

\* Every step of the bootstrap keeps IInv.
LEMMA NextInv == IInv /\ [Next]_vars => IInv'
<1> SUFFICES ASSUME IInv, [Next]_vars PROVE IInv'
  OBVIOUS
<1>1. CASE UNCHANGED vars
  <2>1. UNCHANGED <<mem, pc, r0, r1, r2, r3, r4, r8, sp, ttbr, stale, mmu, vbar>>
    BY <1>1 DEF vars, cp15
  <2> QED
    BY <2>1 DEF IInv, TypeOK, Registers, Tables, DirectoryOK, Entered, IdentityOK, DirectOK, Filled, MmioOK,
                Switched, Row
<1>2. CASE KernelMain
  BY <1>1, <1>2 DEF KernelMain
<1> QED
  BY <1>1, <1>2, StacksInv, ClearDirectoryInv, LoadIdentityInv, IdentityInv, EnterIdentityInv, DirectTableInv,
     DirectInv, DirectNextInv, LoadMmioInv, ClearMmioInv, LoadWindowInv, WindowInv, EnterMmioInv, SwitchInv
  DEF Next

\* The inductive invariant holds in every behaviour.
THEOREM Invariant == Spec => []IInv
  BY InitInv, NextInv, PTL DEF Spec

\* Once all tables are written and TTBR0 names the directory, a walk finds
\* exactly the map that was meant.
LEMMA WalkExact ==
  ASSUME IInv, pc \in Mapped \ {"ttbr"}, NEW v \in [dir : Entries, idx : Entries]
  PROVE  Walk(v) = Expected(v)
<1>1. /\ ttbr = DirPage /\ r3 = DirectDir + NTables /\ pc \notin {"stacks", "clear_directory"}
      /\ v.dir \in Entries /\ v.idx \in Entries /\ v = [dir |-> v.dir, idx |-> v.idx]
  BY DEF IInv, Switched, Registers, Mapped
<1>2. v.dir \in Nat /\ v.idx \in Nat
  BY <1>1, Layout DEF Entries
<1> DEFINE pde == mem[DirPage][v.dir]
<1>3. pde = IF \/ v.dir = RamDir \/ v.dir = MmioDir
               \/ DirectDir =< v.dir /\ v.dir < DirectDir + NTables
            THEN DirectoryWord(v.dir) ELSE Zero
  <2>1. Entered(v.dir) <=> \/ v.dir = RamDir \/ v.dir = MmioDir
                           \/ DirectDir =< v.dir /\ v.dir < DirectDir + NTables
    BY <1>1 DEF Entered, OnDirect, OnMmio, Mapped
  <2> QED
    BY <1>1, <2>1 DEF IInv, Tables, DirectoryOK
<1>4. Walk(v) = IF pde.kind = "none" THEN Zero
                ELSE IF pde.dir = RamDir /\ pde.idx \in TablePages THEN mem[pde.idx][v.idx]
                ELSE [kind |-> "anything", dir |-> 0, idx |-> 0]
  BY <1>1 DEF Walk
<1> HIDE DEF pde
<1>5. CASE v.dir = RamDir
  <2>1. Walk(v) = mem[IdentityPage][v.idx]
    BY <1>3, <1>4, <1>5, Layout DEF DirectoryWord, Table
  <2>2. Walk(v) = RamWord(RamDir, v.idx)
    BY <1>1, <2>1 DEF IInv, Tables, IdentityOK, Mapped
  <2> QED
    BY <1>5, <2>2 DEF RamWord, Expected, Page
<1>6. CASE DirectDir =< v.dir /\ v.dir < DirectDir + NTables
  <2>1. PICK j \in 0 .. NTables - 1 : j = v.dir - DirectDir /\ v.dir = DirectDir + j
    BY <1>2, <1>6, Layout
  <2>2. v.dir # RamDir /\ v.dir # MmioDir
    BY <1>2, <1>6, Layout
  <2>3. Walk(v) = mem[DirectPage + j][v.idx]
    BY <1>3, <1>4, <1>6, <2>1, <2>2, Layout DEF DirectoryWord, Table
  <2>4. Walk(v) = RamWord(RamDir + j, v.idx)
    BY <1>1, <2>3 DEF IInv, Tables, DirectOK, Filled, Mapped
  <2>5. v.dir \in DirectDir .. DirectDir + NTables - 1 /\ v.dir - DirectDir + RamDir = RamDir + j
    BY <1>2, <1>6, <2>1, Layout
  <2> QED
    BY <2>2, <2>4, <2>5 DEF RamWord, Expected, Page
<1>7. CASE v.dir = MmioDir
  <2>1. v.dir # RamDir /\ v.dir \notin DirectDir .. DirectDir + NTables - 1
    BY <1>7, Layout
  <2>2. Walk(v) = mem[MmioPage][v.idx]
    BY <1>3, <1>4, <1>7, <2>1, Layout DEF DirectoryWord, Table
  <2>3. Walk(v) = IF v.idx < NMmio THEN MmioWord(v.idx) ELSE Zero
    <3>1. CASE v.idx < NMmio
      BY <3>1, <1>1, <2>2 DEF IInv, Tables, MmioOK, Mapped
    <3>2. CASE v.idx >= NMmio
      BY <3>2, <1>1, <1>2, <2>2, Layout DEF IInv, Tables, MmioOK, Mapped
    <3> QED
      BY <3>1, <3>2, <1>2, Layout
  <2> QED
    BY <1>7, <2>1, <2>3 DEF MmioWord, Expected, Page
<1>8. CASE v.dir # RamDir /\ v.dir # MmioDir /\ ~(DirectDir =< v.dir /\ v.dir < DirectDir + NTables)
  <2>1. v.dir \notin DirectDir .. DirectDir + NTables - 1
    BY <1>2, <1>8, Layout
  <2> QED
    BY <1>3, <1>4, <1>8, <2>1 DEF Zero, Expected
<1> QED
  BY <1>5, <1>6, <1>7, <1>8

\* The direct map leads to the page of RAM it stands for.
LEMMA DirectMap ==
  ASSUME NEW p \in RamPages
  PROVE  /\ ToVirtual(p) \in [dir : Entries, idx : Entries]
         /\ ToVirtual(p).dir >= DirectDir
         /\ Expected(ToVirtual(p)) = Page(p, "rwx")
<1>1. PICK d \in RamDir .. RamDir + NTables - 1, e \in Entries : p = [dir |-> d, idx |-> e]
  BY DEF RamPages
<1>2. PICK f \in Entries : f = d - RamDir + DirectDir
  BY <1>1, Layout DEF Entries
<1>3. /\ f # RamDir /\ f >= DirectDir /\ f \in DirectDir .. DirectDir + NTables - 1
      /\ f - DirectDir + RamDir = d
  BY <1>1, <1>2, Layout
<1>4. ToVirtual(p) = [dir |-> f, idx |-> e]
  BY <1>1, <1>2 DEF ToVirtual
<1>5. Expected([dir |-> f, idx |-> e]) = [kind |-> "rwx", dir |-> d, idx |-> e]
  BY <1>3 DEF Expected, Page
<1> QED
  BY <1>1, <1>2, <1>3, <1>4, <1>5 DEF Page

\* MapExact: whatever RAM and the TLB held at reset, translation is only ever
\* on with exactly the map that was meant.
THEOREM MapIsExact == Spec => []MapExact
<1>1. IInv => MapExact
  BY WalkExact DEF IInv, Switched, MapExact, Mapped
<1> QED
  BY Invariant, <1>1, PTL

\* FetchMapped: no instruction fetch is cut off by the switch to translated
\* addresses, neither before nor after the jump to the higher half.
THEOREM FetchesMapped == Spec => []FetchMapped
<1>1. ASSUME IInv, mmu
      PROVE  Walk(FetchPage) = Page(CodePage, "rwx")
  <2>1. pc \in Mapped \ {"ttbr"}
    BY <1>1 DEF IInv, Switched, Mapped
  <2>2. CASE pc \in {"high", "kernel_main"}
    BY <1>1, <2>1, <2>2, WalkExact, DirectMap, LayoutAssumption DEF FetchPage, CodePage
  <2>3. CASE pc \notin {"high", "kernel_main"}
    <3>1. [dir |-> RamDir, idx |-> BootPage] \in [dir : Entries, idx : Entries]
      BY LayoutAssumption
    <3>2. Walk([dir |-> RamDir, idx |-> BootPage]) = Expected([dir |-> RamDir, idx |-> BootPage])
      BY <1>1, <2>1, <3>1, WalkExact
    <3> QED
      BY <2>3, <3>2 DEF FetchPage, CodePage, Expected, Page
  <2> QED
    BY <2>2, <2>3
<1>2. IInv => FetchMapped
  BY <1>1 DEF FetchMapped
<1> QED
  BY Invariant, <1>2, PTL

\* HandOver: kernel_main starts with vectors, stacks and a boot-info pointer
\* that work under translation.
THEOREM HandedOver == Spec => []HandOver
<1>1. ASSUME IInv, pc = "kernel_main"
      PROVE  /\ mmu /\ vbar
             /\ \A m \in Modes : sp[m].dir >= DirectDir /\ Walk(sp[m]) = Page(StackPage[m], "rwx")
             /\ Walk(r8) = Page(InfoPage, "rwx")
  <2>1. /\ mmu /\ vbar /\ r8 = ToVirtual(InfoPage) /\ pc \in Mapped \ {"ttbr"}
        /\ \A m \in Modes : sp[m] = ToVirtual(StackPage[m])
    BY <1>1 DEF IInv, Switched, Mapped
  <2>2. InfoPage \in RamPages /\ \A m \in Modes : StackPage[m] \in RamPages
    BY LayoutAssumption
  <2>3. \A p \in RamPages : ToVirtual(p).dir >= DirectDir /\ Walk(ToVirtual(p)) = Page(p, "rwx")
    BY <1>1, <2>1, WalkExact, DirectMap
  <2> QED
    BY <2>1, <2>2, <2>3
<1>2. IInv => HandOver
  BY <1>1 DEF HandOver
<1> QED
  BY Invariant, <1>2, PTL
=============================================================================
