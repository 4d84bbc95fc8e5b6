------------------------ MODULE BlockTransferProofs -------------------------
(***************************************************************************)
(* Proofs about the block driver for any number of tasks, any set of       *)
(* requests and any size of the media.                                     *)
(***************************************************************************)
EXTENDS BlockTransfer, TLAPS

\* Only a running context can be inside the part that masks interrupts, and
\* the CPU is masked while it is.
Critical ==
  /\ \A c \in Contexts : pc[c] \in MaskedLabels => Running(c) /\ imask
  /\ pc[Irq] # "idle" => hpc = "body"

\* A call in progress has arguments.
Argued == \A c \in Contexts : pc[c] # "idle" => req[c] \in Requests

\* The saved status is the one the context runs with outside the driver.
Saved ==
  \A c \in Contexts : pc[c] \in MaskedLabels \cup {"cpsid"} =>
                        cpsr[c] = (IF c = Irq THEN TRUE ELSE want[c])

\* A task that does not run was interrupted with I clear.
Preempted == \A t \in Tasks : ~Running(t) => ~want[t]

\* An IRQ is taken because SYSTICK is pending, and it stays so until claimed.
Claimable == hpc = "claim" => systick

IInv ==
  /\ TypeOK
  /\ Critical
  /\ Argued
  /\ Saved
  /\ Preempted
  /\ Claimable
  /\ Serialized
  /\ MaskRespected
  /\ CompletionNotStolen

-----------------------------------------------------------------------------
(* Facts about the transfer function                                       *)

\* A request without faults names a whole run of sectors on both sides.
LEMMA NoFaults ==
  ASSUME NEW r \in AllRequests, Faults(r) = {}
  PROVE  /\ r.unit \in AttachedUnits
         /\ r.lba + r.sector_count =< MediaSectors
         /\ r.dma_paddr + r.sector_count =< RamSectors
<1>1. "INVALID_UNIT" \notin Faults(r) /\ "NO_MEDIA" \notin Faults(r)
      /\ "INVALID_DMA" \notin Faults(r) /\ "INVALID_LBA" \notin Faults(r)
  OBVIOUS
<1>2. r.unit \in AttachedUnits
  BY <1>1 DEF Faults, ErrorCodes
<1>3. ~(r.lba + r.sector_count > MediaSectors) /\ ~(r.dma_paddr + r.sector_count > RamSectors)
  BY <1>1, <1>2 DEF Faults, ErrorCodes
<1>4. r.lba + r.sector_count \in Nat /\ r.dma_paddr + r.sector_count \in Nat
  BY DEF AllRequests
<1> QED
  BY <1>2, <1>3, <1>4, BlockAssumption

\* A transfer keeps the shape of the media and of RAM, whatever its outcome.
LEMMA TransferTypes ==
  ASSUME NEW r \in AllRequests, NEW e, NEW md \in Media, NEW mem \in Ram, NEW md2, NEW mem2,
         Transferred(r, e, md, mem, md2, mem2)
  PROVE  md2 \in Media /\ mem2 \in Ram /\ e \in ErrorCodes
<1>1. CASE e \in Faults(r) /\ md2 = md /\ mem2 = mem
  BY <1>1 DEF Faults
<1>2. CASE Faults(r) = {} /\ e = NONE /\ md2 = MediaAfter(r, md, mem) /\ mem2 = RamAfter(r, md, mem)
  <2>1. /\ r.unit \in AttachedUnits
        /\ r.lba + r.sector_count =< MediaSectors
        /\ r.dma_paddr + r.sector_count =< RamSectors
    BY <1>2, NoFaults
  <2>2. r.lba \in Nat /\ r.sector_count \in Nat \ {0} /\ r.dma_paddr \in Nat
    BY DEF AllRequests
  <2>3. md[r.unit] \in [0 .. MediaSectors - 1 -> Values]
    BY <2>1 DEF Media
  <2>4. RamAfter(r, md, mem) \in Ram
    <3>1. ASSUME NEW s \in 0 .. RamSectors - 1, s \in r.dma_paddr .. r.dma_paddr + r.sector_count - 1
          PROVE  r.lba + (s - r.dma_paddr) \in 0 .. MediaSectors - 1
      BY <3>1, <2>1, <2>2, BlockAssumption
    <3> QED
      BY <3>1, <2>3 DEF RamAfter, Ram
  <2>5. MediaAfter(r, md, mem) \in Media
    <3>1. ASSUME NEW s \in 0 .. MediaSectors - 1, s \in r.lba .. r.lba + r.sector_count - 1
          PROVE  r.dma_paddr + (s - r.lba) \in 0 .. RamSectors - 1
      BY <3>1, <2>1, <2>2, BlockAssumption
    <3>2. [s \in 0 .. MediaSectors - 1 |->
             IF s \in r.lba .. r.lba + r.sector_count - 1
             THEN mem[r.dma_paddr + (s - r.lba)]
             ELSE md[r.unit][s]] \in [0 .. MediaSectors - 1 -> Values]
      BY <3>1, <2>3 DEF Ram
    <3> QED
      BY <3>2, <2>1 DEF MediaAfter, Media
  <2> QED
    BY <1>2, <2>4, <2>5 DEF ErrorCodes
<1> QED
  BY <1>1, <1>2 DEF Transferred

-----------------------------------------------------------------------------
(* The inductive invariant                                                 *)

\* The state the bootstrap leaves satisfies IInv.
LEMMA InitInv == Init => IInv
<1> SUFFICES ASSUME Init PROVE IInv
  OBVIOUS
<1> USE DEF Init, DevInit
<1>1. TypeOK
  BY DEF TypeOK, DevTypeOK, Registers, ErrorCodes, Labels, Contexts
<1>2. Critical /\ Argued /\ Saved
  BY DEF Critical, Argued, Saved, Contexts, MaskedLabels, StoreLabels
<1>3. Preempted /\ Claimable /\ MaskRespected /\ CompletionNotStolen
  BY ContextAssumption DEF Preempted, Claimable, MaskRespected, CompletionNotStolen, Running
<1>4. Serialized
  BY DEF Serialized, MaskedLabels, StoreLabels, Quiet
<1> QED
  BY <1>1, <1>2, <1>3, <1>4 DEF IInv

-----------------------------------------------------------------------------
(* Preservation, one lemma for each action                                 *)

\* A context saves CPSR.
LEMMA ReadCpsrInv ==
  ASSUME IInv, NEW c \in Contexts, ReadCpsr(c)
  PROVE  IInv'
<1> USE ContextAssumption DEF IInv, ReadCpsr, At, Goto, Contexts, devVars, cpuVars, driverVars
<1>1. TypeOK'
  BY DEF TypeOK, DevTypeOK, Labels, MaskedLabels, StoreLabels
<1>2. Critical'
  BY DEF TypeOK, Critical, Running, Labels, MaskedLabels, StoreLabels
<1>3. Argued'
  BY DEF TypeOK, Argued
<1>4. Saved'
  BY DEF TypeOK, Saved, Critical, MaskRespected, Running, Labels, MaskedLabels, StoreLabels
<1>5. Preempted'
  BY DEF TypeOK, Preempted, Running
<1>6. Claimable'
  BY DEF TypeOK, Claimable
<1>7. Serialized'
  BY DEF TypeOK, Serialized, Owned, StoredBefore, Quiet, Registers, Labels, MaskedLabels, StoreLabels
<1>8. MaskRespected'
  BY DEF TypeOK, MaskRespected, Running, Labels, MaskedLabels, StoreLabels
<1>9. CompletionNotStolen'
  BY DEF TypeOK, CompletionNotStolen
<1> QED
  BY <1>1, <1>2, <1>3, <1>4, <1>5, <1>6, <1>7, <1>8, <1>9 DEF IInv

\* A context masks IRQs.
LEMMA CpsidInv ==
  ASSUME IInv, NEW c \in Contexts, Cpsid(c)
  PROVE  IInv'
<1> USE ContextAssumption DEF IInv, Cpsid, At, Goto, Contexts, devVars, cpuVars, driverVars
<1>1. TypeOK'
  BY DEF TypeOK, DevTypeOK, Labels, MaskedLabels, StoreLabels
<1>2. Critical'
  BY DEF TypeOK, Critical, Running, Labels, MaskedLabels, StoreLabels
<1>3. Argued'
  BY DEF TypeOK, Argued
<1>4. Saved'
  BY DEF TypeOK, Saved, Labels, MaskedLabels, StoreLabels
<1>5. Preempted'
  BY DEF TypeOK, Preempted, Running
<1>6. Claimable'
  BY DEF TypeOK, Claimable
<1>7. Serialized'
  <2>1. \A d \in Contexts : pc[d] \notin MaskedLabels
    BY DEF Critical, Running, MaskedLabels, StoreLabels
  <2>2. Quiet
    BY <2>1 DEF Serialized
  <2>3. \A d \in Contexts : pc'[d] \in MaskedLabels => d = c /\ pc'[d] = "unit"
    BY <2>1 DEF TypeOK
  <2>4. Quiet'
    BY <2>2 DEF Quiet
  <2> QED
    BY <2>3, <2>4 DEF Serialized, Owned, StoredBefore
<1>8. MaskRespected'
  BY DEF TypeOK, MaskRespected, Running, Labels, MaskedLabels, StoreLabels
<1>9. CompletionNotStolen'
  BY DEF TypeOK, CompletionNotStolen
<1> QED
  BY <1>1, <1>2, <1>3, <1>4, <1>5, <1>6, <1>7, <1>8, <1>9 DEF IInv

\* A context calls the driver.
LEMMA CallInv ==
  ASSUME IInv, NEW c \in Contexts, NEW r \in Requests, Call(c, r)
  PROVE  IInv'
<1> USE ContextAssumption DEF IInv, Call, At, Goto, Contexts, devVars, cpuVars, driverVars
<1>1. TypeOK'
  BY DEF TypeOK, DevTypeOK, Labels, MaskedLabels, StoreLabels
<1>2. Critical'
  BY DEF TypeOK, Critical, Running, Labels, MaskedLabels, StoreLabels
<1>3. Argued'
  BY DEF TypeOK, Argued
<1>4. Saved'
  BY DEF TypeOK, Saved, Labels, MaskedLabels, StoreLabels
<1>5. Preempted'
  BY DEF TypeOK, Preempted, Running
<1>6. Claimable'
  BY DEF TypeOK, Claimable
<1>7. Serialized'
  BY DEF TypeOK, Serialized, Owned, StoredBefore, Quiet, Registers, Labels, MaskedLabels, StoreLabels
<1>8. MaskRespected'
  BY DEF TypeOK, MaskRespected, Running, Labels, MaskedLabels, StoreLabels
<1>9. CompletionNotStolen'
  BY DEF TypeOK, CompletionNotStolen
<1> QED
  BY <1>1, <1>2, <1>3, <1>4, <1>5, <1>6, <1>7, <1>8, <1>9 DEF IInv

\* A context stores one of the four registers.
LEMMA StoreInv ==
  ASSUME IInv, NEW c \in Contexts, Store(c)
  PROVE  IInv'
<1> USE ContextAssumption DEF IInv, Store, At, Goto, Contexts, devVars, cpuVars, driverVars, WriteReg, NextLabel, Registers
<1>1. TypeOK'
  <2>1. req[c] \in AllRequests
    BY BlockAssumption DEF Argued, StoreLabels
  <2>2. req[c][pc[c]] \in Nat /\ pc[c] \in Registers /\ NextLabel[pc[c]] \in Labels
    BY <2>1 DEF AllRequests, StoreLabels, MaskedLabels, Labels
  <2> QED
    BY <2>2 DEF TypeOK, DevTypeOK
<1>2. Critical'
  BY DEF TypeOK, Critical, Running, Labels, MaskedLabels, StoreLabels
<1>3. Argued'
  BY DEF TypeOK, Argued, StoreLabels
<1>4. Saved'
  BY DEF TypeOK, Saved, Labels, MaskedLabels, StoreLabels
<1>5. Preempted'
  BY DEF TypeOK, Preempted, Running
<1>6. Claimable'
  BY DEF TypeOK, Claimable
<1>7. Serialized'
  <2>1. \A d \in Contexts : pc[d] \in MaskedLabels => d = c
    BY DEF Serialized, MaskedLabels
  <2>2. Owned(c) /\ pc[c] \in MaskedLabels
    BY DEF Serialized, MaskedLabels
  <2>3. pc'[c] \in MaskedLabels /\ \A d \in Contexts : d # c => pc'[d] = pc[d]
    BY DEF TypeOK, MaskedLabels, StoreLabels
  <2>4. Quiet'
    BY <2>2 DEF Owned, Quiet, StoreLabels
  <2>5. \A r \in Registers : StoredBefore(r, pc'[c]) => regs'[r] = req[c][r]
    <3>1. CASE pc[c] = "unit"
      BY <3>1, <2>2 DEF Owned, StoredBefore, TypeOK, DevTypeOK
    <3>2. CASE pc[c] = "lba"
      BY <3>2, <2>2 DEF Owned, StoredBefore, TypeOK, DevTypeOK
    <3>3. CASE pc[c] = "sector_count"
      BY <3>3, <2>2 DEF Owned, StoredBefore, TypeOK, DevTypeOK
    <3>4. CASE pc[c] = "dma_paddr"
      BY <3>4, <2>2 DEF Owned, StoredBefore, TypeOK, DevTypeOK
    <3> QED
      BY <3>1, <3>2, <3>3, <3>4 DEF StoreLabels
  <2>6. pc'[c] \in StoreLabels \cup {"command"}
    BY DEF TypeOK, StoreLabels
  <2>7. Owned(c)'
    BY <2>4, <2>5, <2>6 DEF Owned, StoreLabels
  <2> QED
    BY <2>1, <2>3, <2>7 DEF Serialized
<1>8. MaskRespected'
  BY DEF TypeOK, MaskRespected, Running, Labels, MaskedLabels, StoreLabels
<1>9. CompletionNotStolen'
  BY DEF TypeOK, CompletionNotStolen
<1> QED
  BY <1>1, <1>2, <1>3, <1>4, <1>5, <1>6, <1>7, <1>8, <1>9 DEF IInv

\* A context writes COMMAND.
LEMMA CommandInv ==
  ASSUME IInv, NEW c \in Contexts, Command(c)
  PROVE  IInv'
<1> USE ContextAssumption DEF IInv, Command, At, Goto, Contexts, devVars, cpuVars, driverVars, WriteCommand
<1>1. TypeOK'
  <2>1. req[c] \in AllRequests
    BY BlockAssumption DEF Argued
  <2>2. Owned(c)
    BY DEF Serialized, MaskedLabels
  <2>3. Quiet /\ \A r \in Registers : regs[r] = req[c][r]
    BY <2>2 DEF Owned, StoredBefore
  <2>4. job' = req[c] /\ busy' = TRUE /\ complete' = FALSE /\ error' = NONE
    BY <2>1, <2>3 DEF AllRequests, Registers, Quiet
  <2>5. UNCHANGED <<regs, irq_enable, media, ram>>
    OBVIOUS
  <2> QED
    BY <2>1, <2>4, <2>5 DEF TypeOK, DevTypeOK, ErrorCodes, Labels, MaskedLabels
<1>2. Critical'
  BY DEF TypeOK, Critical, Running, Labels, MaskedLabels, StoreLabels
<1>3. Argued'
  BY DEF TypeOK, Argued
<1>4. Saved'
  BY DEF TypeOK, Saved, Labels, MaskedLabels, StoreLabels
<1>5. Preempted'
  BY DEF TypeOK, Preempted, Running
<1>6. Claimable'
  BY DEF TypeOK, Claimable
<1>7. Serialized'
  <2>1. req[c] \in AllRequests
    BY BlockAssumption DEF Argued
  <2>2. Owned(c)
    BY DEF Serialized, MaskedLabels
  <2>3. Quiet /\ \A r \in Registers : regs[r] = req[c][r]
    BY <2>2 DEF Owned, StoredBefore
  <2>4. job' = req[c] /\ busy' = TRUE /\ complete' = FALSE /\ error' = NONE
    BY <2>1, <2>3 DEF AllRequests, Registers, Quiet
  <2>5. \A d \in Contexts : pc[d] \in MaskedLabels => d = c
    BY DEF Serialized, MaskedLabels
  <2>6. pc'[c] = "poll" /\ \A d \in Contexts : d # c => pc'[d] = pc[d]
    BY DEF TypeOK
  <2>7. Owned(c)'
    BY <2>4, <2>6 DEF Owned, StoredBefore
  <2> QED
    BY <2>5, <2>6, <2>7 DEF Serialized, MaskedLabels
<1>8. MaskRespected'
  BY DEF TypeOK, MaskRespected, Running, Labels, MaskedLabels, StoreLabels
<1>9. CompletionNotStolen'
  BY DEF TypeOK, CompletionNotStolen
<1> QED
  BY <1>1, <1>2, <1>3, <1>4, <1>5, <1>6, <1>7, <1>8, <1>9 DEF IInv

\* The poll loop ends.
LEMMA PollInv ==
  ASSUME IInv, NEW c \in Contexts, Poll(c)
  PROVE  IInv'
<1> USE ContextAssumption DEF IInv, Poll, At, Goto, Contexts, devVars, cpuVars, driverVars
<1>1. TypeOK'
  BY DEF TypeOK, DevTypeOK, Labels, MaskedLabels, StoreLabels
<1>2. Critical'
  BY DEF TypeOK, Critical, Running, Labels, MaskedLabels, StoreLabels
<1>3. Argued'
  BY DEF TypeOK, Argued
<1>4. Saved'
  BY DEF TypeOK, Saved, Labels, MaskedLabels, StoreLabels
<1>5. Preempted'
  BY DEF TypeOK, Preempted, Running
<1>6. Claimable'
  BY DEF TypeOK, Claimable
<1>7. Serialized'
  BY DEF TypeOK, Serialized, Owned, StoredBefore, Quiet, Registers, Labels, MaskedLabels, StoreLabels
<1>8. MaskRespected'
  BY DEF TypeOK, MaskRespected, Running, Labels, MaskedLabels, StoreLabels
<1>9. CompletionNotStolen'
  BY DEF TypeOK, CompletionNotStolen
<1> QED
  BY <1>1, <1>2, <1>3, <1>4, <1>5, <1>6, <1>7, <1>8, <1>9 DEF IInv

\* A context reads STATUS.
LEMMA ReadStatusInv ==
  ASSUME IInv, NEW c \in Contexts, ReadStatus(c)
  PROVE  IInv'
<1> USE ContextAssumption DEF IInv, ReadStatus, At, Goto, Contexts, devVars, cpuVars, driverVars
<1>1. TypeOK'
  BY DEF TypeOK, DevTypeOK, ErrorCodes, Labels, MaskedLabels, StoreLabels
<1>2. Critical'
  BY DEF TypeOK, Critical, Running, Labels, MaskedLabels, StoreLabels
<1>3. Argued'
  BY DEF TypeOK, Argued
<1>4. Saved'
  BY DEF TypeOK, Saved, Labels, MaskedLabels, StoreLabels
<1>5. Preempted'
  BY DEF TypeOK, Preempted, Running
<1>6. Claimable'
  BY DEF TypeOK, Claimable
<1>7. Serialized'
  BY DEF TypeOK, Serialized, Owned, StoredBefore, Quiet, Registers, Labels, MaskedLabels, StoreLabels
<1>8. MaskRespected'
  BY DEF TypeOK, MaskRespected, Running, Labels, MaskedLabels, StoreLabels
<1>9. CompletionNotStolen'
  BY DEF TypeOK, CompletionNotStolen
<1> QED
  BY <1>1, <1>2, <1>3, <1>4, <1>5, <1>6, <1>7, <1>8, <1>9 DEF IInv

\* A context reads ERROR.
LEMMA ReadErrorInv ==
  ASSUME IInv, NEW c \in Contexts, ReadError(c)
  PROVE  IInv'
<1> USE ContextAssumption DEF IInv, ReadError, At, Goto, Contexts, devVars, cpuVars, driverVars
<1>1. TypeOK'
  BY DEF TypeOK, DevTypeOK, Labels, MaskedLabels, StoreLabels
<1>2. Critical'
  BY DEF TypeOK, Critical, Running, Labels, MaskedLabels, StoreLabels
<1>3. Argued'
  BY DEF TypeOK, Argued
<1>4. Saved'
  BY DEF TypeOK, Saved, Labels, MaskedLabels, StoreLabels
<1>5. Preempted'
  BY DEF TypeOK, Preempted, Running
<1>6. Claimable'
  BY DEF TypeOK, Claimable
<1>7. Serialized'
  BY DEF TypeOK, Serialized, Owned, StoredBefore, Quiet, Registers, Labels, MaskedLabels, StoreLabels
<1>8. MaskRespected'
  BY DEF TypeOK, MaskRespected, Running, Labels, MaskedLabels, StoreLabels
<1>9. CompletionNotStolen'
  BY DEF TypeOK, CompletionNotStolen
<1> QED
  BY <1>1, <1>2, <1>3, <1>4, <1>5, <1>6, <1>7, <1>8, <1>9 DEF IInv

\* A context acknowledges the completion.
LEMMA AckInv ==
  ASSUME IInv, NEW c \in Contexts, Ack(c)
  PROVE  IInv'
<1> USE ContextAssumption DEF IInv, Ack, At, Goto, Contexts, devVars, cpuVars, driverVars, WriteAck
<1>1. TypeOK'
  BY DEF TypeOK, DevTypeOK, ErrorCodes, Labels, MaskedLabels, StoreLabels
<1>2. Critical'
  BY DEF TypeOK, Critical, Running, Labels, MaskedLabels, StoreLabels
<1>3. Argued'
  BY DEF TypeOK, Argued
<1>4. Saved'
  BY DEF TypeOK, Saved, Labels, MaskedLabels, StoreLabels
<1>5. Preempted'
  BY DEF TypeOK, Preempted, Running
<1>6. Claimable'
  BY DEF TypeOK, Claimable
<1>7. Serialized'
  BY DEF TypeOK, Serialized, Owned, StoredBefore, Quiet, Registers, Labels, MaskedLabels, StoreLabels
<1>8. MaskRespected'
  BY DEF TypeOK, MaskRespected, Running, Labels, MaskedLabels, StoreLabels
<1>9. CompletionNotStolen'
  BY DEF TypeOK, CompletionNotStolen
<1> QED
  BY <1>1, <1>2, <1>3, <1>4, <1>5, <1>6, <1>7, <1>8, <1>9 DEF IInv

\* A context restores I and returns.
LEMMA RestoreInv ==
  ASSUME IInv, NEW c \in Contexts, Restore(c)
  PROVE  IInv'
<1> USE ContextAssumption DEF IInv, Restore, At, Goto, Contexts, devVars, cpuVars, driverVars
<1>1. TypeOK'
  <2>1. NONE \in ErrorCodes
    BY DEF ErrorCodes
  <2> QED
    BY <2>1 DEF TypeOK, DevTypeOK, Labels, MaskedLabels, StoreLabels
<1>2. Critical'
  BY DEF TypeOK, Critical, Running, Labels, MaskedLabels, StoreLabels
<1>3. Argued'
  BY DEF TypeOK, Argued
<1>4. Saved'
  BY DEF TypeOK, Saved, Labels, MaskedLabels, StoreLabels
<1>5. Preempted'
  BY DEF TypeOK, Preempted, Running
<1>6. Claimable'
  BY DEF TypeOK, Claimable
<1>7. Serialized'
  BY DEF TypeOK, Serialized, Owned, StoredBefore, Quiet, Registers, Labels, MaskedLabels, StoreLabels
<1>8. MaskRespected'
  BY DEF TypeOK, MaskRespected, Saved, Critical, Running, Labels, MaskedLabels, StoreLabels
<1>9. CompletionNotStolen'
  BY DEF TypeOK, CompletionNotStolen
<1> QED
  BY <1>1, <1>2, <1>3, <1>4, <1>5, <1>6, <1>7, <1>8, <1>9 DEF IInv

\* A task sets or clears I.
LEMMA SetMaskInv ==
  ASSUME IInv, NEW t \in Tasks, NEW i \in BOOLEAN, SetMask(t, i)
  PROVE  IInv'
<1> USE ContextAssumption DEF IInv, SetMask, At, Goto, Contexts, devVars, cpuVars, driverVars
<1>1. TypeOK'
  BY DEF TypeOK, DevTypeOK, Labels, MaskedLabels, StoreLabels
<1>2. Critical'
  BY DEF TypeOK, Critical, Running, Labels, MaskedLabels, StoreLabels
<1>3. Argued'
  BY DEF TypeOK, Argued
<1>4. Saved'
  BY DEF TypeOK, Saved, Labels, MaskedLabels, StoreLabels
<1>5. Preempted'
  BY DEF TypeOK, Preempted, Running
<1>6. Claimable'
  BY DEF TypeOK, Claimable
<1>7. Serialized'
  BY DEF TypeOK, Serialized, Owned, StoredBefore, Quiet, Registers, Labels, MaskedLabels, StoreLabels
<1>8. MaskRespected'
  BY DEF TypeOK, MaskRespected, Running, Labels, MaskedLabels, StoreLabels
<1>9. CompletionNotStolen'
  BY DEF TypeOK, CompletionNotStolen
<1> QED
  BY <1>1, <1>2, <1>3, <1>4, <1>5, <1>6, <1>7, <1>8, <1>9 DEF IInv

\* SYSTICK becomes pending.
LEMMA SystickFireInv ==
  ASSUME IInv, SystickFire
  PROVE  IInv'
<1> USE ContextAssumption DEF IInv, SystickFire, At, Goto, Contexts, devVars, cpuVars, driverVars
<1>1. TypeOK'
  BY DEF TypeOK, DevTypeOK, Labels, MaskedLabels, StoreLabels
<1>2. Critical'
  BY DEF TypeOK, Critical, Running, Labels, MaskedLabels, StoreLabels
<1>3. Argued'
  BY DEF TypeOK, Argued
<1>4. Saved'
  BY DEF TypeOK, Saved, Labels, MaskedLabels, StoreLabels
<1>5. Preempted'
  BY DEF TypeOK, Preempted, Running
<1>6. Claimable'
  BY DEF TypeOK, Claimable
<1>7. Serialized'
  BY DEF TypeOK, Serialized, Owned, StoredBefore, Quiet, Registers, Labels, MaskedLabels, StoreLabels
<1>8. MaskRespected'
  BY DEF TypeOK, MaskRespected, Running, Labels, MaskedLabels, StoreLabels
<1>9. CompletionNotStolen'
  BY DEF TypeOK, CompletionNotStolen
<1> QED
  BY <1>1, <1>2, <1>3, <1>4, <1>5, <1>6, <1>7, <1>8, <1>9 DEF IInv

\* The CPU takes an IRQ.
LEMMA TakeIrqInv ==
  ASSUME IInv, TakeIrq
  PROVE  IInv'
<1> USE ContextAssumption DEF IInv, TakeIrq, At, Goto, Contexts, devVars, cpuVars, driverVars, BlockIrqLevel
<1>1. TypeOK'
  BY DEF TypeOK, DevTypeOK, Labels, MaskedLabels, StoreLabels
<1>2. Critical'
  BY DEF TypeOK, Critical, Running, Labels, MaskedLabels, StoreLabels
<1>3. Argued'
  BY DEF TypeOK, Argued
<1>4. Saved'
  BY DEF TypeOK, Saved, Labels, MaskedLabels, StoreLabels
<1>5. Preempted'
  BY DEF TypeOK, Preempted, MaskRespected, Running, Critical, MaskedLabels, StoreLabels
<1>6. Claimable'
  <2>1. \A c \in Contexts : pc[c] \notin MaskedLabels
    BY DEF Critical, Running
  <2>2. ~complete
    BY <2>1 DEF Serialized, Quiet
  <2> QED
    BY <2>2 DEF Claimable
<1>7. Serialized'
  BY DEF TypeOK, Serialized, Owned, StoredBefore, Quiet, Registers, Labels, MaskedLabels, StoreLabels
<1>8. MaskRespected'
  BY DEF TypeOK, MaskRespected, Running, Labels, MaskedLabels, StoreLabels
<1>9. CompletionNotStolen'
  BY DEF TypeOK, CompletionNotStolen
<1> QED
  BY <1>1, <1>2, <1>3, <1>4, <1>5, <1>6, <1>7, <1>8, <1>9 DEF IInv

\* The trampoline claims the source.
LEMMA ClaimInv ==
  ASSUME IInv, Claim
  PROVE  IInv'
<1> USE ContextAssumption DEF IInv, Claim, At, Goto, Contexts, devVars, cpuVars, driverVars, BlockIrqLevel
<1>1. TypeOK'
  BY DEF TypeOK, DevTypeOK, Labels, MaskedLabels, StoreLabels
<1>2. Critical'
  BY DEF TypeOK, Critical, Running, Labels, MaskedLabels, StoreLabels
<1>3. Argued'
  BY DEF TypeOK, Argued
<1>4. Saved'
  BY DEF TypeOK, Saved, Labels, MaskedLabels, StoreLabels
<1>5. Preempted'
  BY DEF TypeOK, Preempted, Running
<1>6. Claimable'
  BY DEF TypeOK, Claimable
<1>7. Serialized'
  BY DEF TypeOK, Serialized, Owned, StoredBefore, Quiet, Registers, Labels, MaskedLabels, StoreLabels
<1>8. MaskRespected'
  BY DEF TypeOK, MaskRespected, Running, Labels, MaskedLabels, StoreLabels
<1>9. CompletionNotStolen'
  BY DEF Claimable, CompletionNotStolen
<1> QED
  BY <1>1, <1>2, <1>3, <1>4, <1>5, <1>6, <1>7, <1>8, <1>9 DEF IInv

\* The dispatch acknowledges the source.
LEMMA DispatchInv ==
  ASSUME IInv, Dispatch
  PROVE  IInv'
<1> USE ContextAssumption DEF IInv, Dispatch, At, Goto, Contexts, devVars, cpuVars, driverVars, WriteAck
<1>1. TypeOK'
  BY DEF TypeOK, DevTypeOK, CompletionNotStolen
<1>2. Critical'
  BY DEF TypeOK, Critical, Running, Labels, MaskedLabels, StoreLabels
<1>3. Argued'
  BY DEF TypeOK, Argued
<1>4. Saved'
  BY DEF TypeOK, Saved, Labels, MaskedLabels, StoreLabels
<1>5. Preempted'
  BY DEF TypeOK, Preempted, Running
<1>6. Claimable'
  BY DEF TypeOK, Claimable
<1>7. Serialized'
  <2>1. UNCHANGED <<devVars, pc, req>>
    BY DEF CompletionNotStolen
  <2> QED
    BY <2>1 DEF Serialized, Owned, StoredBefore, Quiet, Registers, MaskedLabels, StoreLabels
<1>8. MaskRespected'
  BY DEF TypeOK, MaskRespected, Running, Labels, MaskedLabels, StoreLabels
<1>9. CompletionNotStolen'
  BY DEF TypeOK, CompletionNotStolen
<1> QED
  BY <1>1, <1>2, <1>3, <1>4, <1>5, <1>6, <1>7, <1>8, <1>9 DEF IInv

\* The trampoline returns into a task.
LEMMA IrqReturnInv ==
  ASSUME IInv, NEW t \in Tasks, IrqReturn(t)
  PROVE  IInv'
<1> USE ContextAssumption DEF IInv, IrqReturn, At, Goto, Contexts, devVars, cpuVars, driverVars
<1>1. TypeOK'
  BY DEF TypeOK, DevTypeOK, Labels, MaskedLabels, StoreLabels
<1>2. Critical'
  BY DEF TypeOK, Critical, Running, Labels, MaskedLabels, StoreLabels
<1>3. Argued'
  BY DEF TypeOK, Argued
<1>4. Saved'
  BY DEF TypeOK, Saved, Labels, MaskedLabels, StoreLabels
<1>5. Preempted'
  BY DEF TypeOK, Preempted, Running
<1>6. Claimable'
  BY DEF TypeOK, Claimable
<1>7. Serialized'
  BY DEF TypeOK, Serialized, Owned, StoredBefore, Quiet, Registers, Labels, MaskedLabels, StoreLabels
<1>8. MaskRespected'
  BY DEF TypeOK, MaskRespected, Preempted, Running, Labels, MaskedLabels, StoreLabels
<1>9. CompletionNotStolen'
  BY DEF TypeOK, CompletionNotStolen
<1> QED
  BY <1>1, <1>2, <1>3, <1>4, <1>5, <1>6, <1>7, <1>8, <1>9 DEF IInv

\* The command in flight completes.
LEMMA CompleteInv ==
  ASSUME IInv, Complete
  PROVE  IInv'
<1> USE ContextAssumption DEF IInv, Complete, At, Goto, Contexts, devVars, cpuVars, driverVars, DeviceComplete
<1>1. TypeOK'
  <2>1. PICK c \in Contexts : pc[c] \in MaskedLabels /\ Owned(c)
    BY DEF Serialized, Quiet
  <2>2. pc[c] = "poll" /\ job = req[c]
    BY <2>1 DEF Owned, Quiet
  <2>3. job \in AllRequests
    BY <2>2, BlockAssumption DEF Argued
  <2>4. media' \in Media /\ ram' \in Ram
    BY <2>3, TransferTypes DEF TypeOK, DevTypeOK
  <2> QED
    BY <2>4 DEF TypeOK, DevTypeOK
<1>2. Critical'
  BY DEF TypeOK, Critical, Running, Labels, MaskedLabels, StoreLabels
<1>3. Argued'
  BY DEF TypeOK, Argued
<1>4. Saved'
  BY DEF TypeOK, Saved, Labels, MaskedLabels, StoreLabels
<1>5. Preempted'
  BY DEF TypeOK, Preempted, Running
<1>6. Claimable'
  BY DEF TypeOK, Claimable
<1>7. Serialized'
  BY DEF TypeOK, Serialized, Owned, StoredBefore, Quiet, Registers, Labels, MaskedLabels, StoreLabels
<1>8. MaskRespected'
  BY DEF TypeOK, MaskRespected, Running, Labels, MaskedLabels, StoreLabels
<1>9. CompletionNotStolen'
  BY DEF TypeOK, CompletionNotStolen
<1> QED
  BY <1>1, <1>2, <1>3, <1>4, <1>5, <1>6, <1>7, <1>8, <1>9 DEF IInv


\* Every step of the kernel, the driver and the device preserves IInv.
LEMMA NextInv == IInv /\ [Next]_vars => IInv'
<1> SUFFICES ASSUME IInv, [Next]_vars PROVE IInv'
  OBVIOUS
<1>1. ASSUME NEW c \in Contexts, DriverStep(c) PROVE IInv'
  BY <1>1, ReadCpsrInv, CpsidInv, StoreInv, CommandInv, PollInv, ReadStatusInv, ReadErrorInv,
     AckInv, RestoreInv DEF DriverStep
<1>2. ASSUME NEW c \in Contexts, NEW r \in Requests, Call(c, r) PROVE IInv'
  BY <1>2, CallInv
<1>3. ASSUME NEW t \in Tasks, IrqReturn(t) \/ \E i \in BOOLEAN : SetMask(t, i) PROVE IInv'
  BY <1>3, IrqReturnInv, SetMaskInv
<1>4. CASE SystickFire \/ TakeIrq \/ Claim \/ Dispatch \/ Complete
  BY <1>4, SystickFireInv, TakeIrqInv, ClaimInv, DispatchInv, CompleteInv
<1>5. CASE UNCHANGED vars
  <2> USE <1>5 DEF IInv, vars, devVars, cpuVars, driverVars
  <2>1. TypeOK'
    BY DEF TypeOK, DevTypeOK
  <2>2. Critical' /\ Argued' /\ Saved'
    BY DEF Critical, Argued, Saved, Running
  <2>3. Preempted' /\ Claimable' /\ MaskRespected' /\ CompletionNotStolen'
    BY DEF Preempted, Claimable, MaskRespected, CompletionNotStolen, Running
  <2>4. Serialized'
    BY DEF Serialized, Owned, StoredBefore, Quiet
  <2> QED
    BY <2>1, <2>2, <2>3, <2>4
<1> QED
  BY <1>1, <1>2, <1>3, <1>4, <1>5 DEF Next

\* IInv holds in every reachable state of block.c and its callers.
THEOREM Invariant == Spec => []IInv
  BY InitInv, NextInv, PTL DEF Spec

\* Every variable of the driver, the kernel and the device keeps its type.
THEOREM TypeCorrect == Spec => []TypeOK
<1>1. IInv => TypeOK
  BY DEF IInv
<1> QED
  BY <1>1, Invariant, PTL

\* For any number of tasks: calls of minemu_block_read and minemu_block_write
\* are serialized, and the controller only ever holds the registers and the
\* command of the one call in progress.
THEOREM CallsSerialized == Spec => []Serialized
<1>1. IInv => Serialized
  BY DEF IInv
<1> QED
  BY <1>1, Invariant, PTL

\* No caller finds its I bit changed by the driver, and the handler is never
\* unmasked by a call it makes.
THEOREM CallerMaskKept == Spec => []MaskRespected
<1>1. IInv => MaskRespected
  BY DEF IInv
<1> QED
  BY <1>1, Invariant, PTL

\* The handler never claims, and so never acknowledges, the completion that
\* the driver polls for.
THEOREM CompletionKept == Spec => []CompletionNotStolen
<1>1. IInv => CompletionNotStolen
  BY DEF IInv
<1> QED
  BY <1>1, Invariant, PTL

-----------------------------------------------------------------------------
(* The driver implements the service block.h promises                      *)

\* What a step leaves alone if the service does not see it.
Invisible ==
  /\ UNCHANGED <<media, ram, req>>
  /\ \A d \in Contexts : Phase(d)' = Phase(d) /\ Answer(d)' = Answer(d)

\* Such a step is a stutter of the service.
LEMMA InvisibleStutters == ASSUME Invisible PROVE UNCHANGED Service!vars
  BY DEF Invisible, Service!vars

\* The service speaks of the same errors and the same transfers.
LEMMA SameMedia ==
  /\ Service!NONE = NONE /\ Service!NoRequest = NoRequest
  /\ Service!ErrorCodes = ErrorCodes /\ Service!Media = Media /\ Service!Ram = Ram
  BY DEF Service!NONE, NONE, Service!NoRequest, NoRequest, Service!ErrorCodes, ErrorCodes,
         Service!Media, Media, Service!Ram, Ram

\* A transfer of the device is a transfer of the service.
LEMMA SameTransfer ==
  ASSUME NEW r, NEW e, NEW md, NEW mem, NEW md2, NEW mem2, Transferred(r, e, md, mem, md2, mem2)
  PROVE  Service!Transferred(r, e, md, mem, md2, mem2)
<1>1. Service!READ = READ /\ Service!WRITE = WRITE
  BY DEF Service!READ, READ, Service!WRITE, WRITE
<1>2. Service!Faults(r) = Faults(r)
  BY <1>1, SameMedia DEF Service!Faults, Faults
<1>3. Service!MediaAfter(r, md, mem) = MediaAfter(r, md, mem)
  BY <1>1 DEF Service!MediaAfter, MediaAfter
<1>4. Service!RamAfter(r, md, mem) = RamAfter(r, md, mem)
  BY <1>1 DEF Service!RamAfter, RamAfter
<1> QED
  BY <1>2, <1>3, <1>4, SameMedia DEF Transferred, Service!Transferred

\* Initial states map to initial states.
LEMMA ServiceInit == Init => Service!Init
  BY SameMedia DEF Init, DevInit, Service!Init, Phase, Answer

\* The instructions that only the driver can see.
LEMMA DriverInvisible ==
  ASSUME IInv, NEW c \in Contexts, DriverStep(c), ~Restore(c)
  PROVE  Invisible
<1> USE DEF IInv, TypeOK, DevTypeOK, At, Goto, Invisible, Phase, Answer, devVars
<1>1. CASE ReadCpsr(c) \/ Cpsid(c)
  BY <1>1 DEF ReadCpsr, Cpsid, Labels
<1>2. CASE Store(c)
  <2>1. pc'[c] \in StoreLabels \cup {"command"}
    BY <1>2 DEF Store, StoreLabels, NextLabel
  <2> QED
    BY <1>2, <2>1 DEF Store, WriteReg, StoreLabels
<1>3. CASE Command(c)
  <2>1. Quiet
    BY <1>3 DEF Command, Serialized, Owned, MaskedLabels
  <2>2. complete' = FALSE /\ UNCHANGED <<media, ram, req>>
    BY <1>3, <2>1 DEF Command, WriteCommand, Quiet
  <2>3. \A d \in Contexts : d # c => pc[d] \notin MaskedLabels
    BY <1>3 DEF Command, Serialized, MaskedLabels
  <2> QED
    BY <1>3, <2>2, <2>3 DEF Command, MaskedLabels
<1>4. CASE Poll(c) \/ ReadStatus(c) \/ ReadError(c)
  BY <1>4 DEF Poll, ReadStatus, ReadError
<1>5. CASE Ack(c)
  <2>1. \A d \in Contexts : d # c => pc[d] \notin MaskedLabels
    BY <1>5 DEF Ack, Serialized, MaskedLabels
  <2> QED
    BY <1>5, <2>1 DEF Ack, WriteAck, MaskedLabels
<1> QED
  BY <1>1, <1>2, <1>3, <1>4, <1>5 DEF DriverStep

\* So are the steps of the kernel around the driver.
LEMMA KernelInvisible ==
  ASSUME IInv,
         \/ \E t \in Tasks : IrqReturn(t) \/ \E i \in BOOLEAN : SetMask(t, i)
         \/ SystickFire \/ TakeIrq \/ Claim \/ Dispatch
  PROVE  Invisible
<1> UNCHANGED <<devVars, driverVars>>
  BY DEF IInv, CompletionNotStolen, IrqReturn, SetMask, SystickFire, TakeIrq, Claim, Dispatch
<1> QED
  BY DEF Invisible, Phase, Answer, devVars, driverVars

\* The completion in the device is the instant at which a call takes effect.
LEMMA CompletePerforms ==
  ASSUME IInv, Complete
  PROVE  \E c \in Contexts : Service!Perform(c)
<1> USE DEF IInv, Complete, DeviceComplete, driverVars
<1>1. PICK c \in Contexts : pc[c] \in MaskedLabels /\ Owned(c)
  BY DEF Serialized, Quiet
<1>2. pc[c] = "poll" /\ ~complete /\ job = req[c]
  BY <1>1 DEF Owned, Quiet, TypeOK, DevTypeOK
<1>3. \A d \in Contexts : d # c => pc[d] \notin MaskedLabels
  BY <1>1 DEF Serialized
<1>4. \A d \in Contexts : d # c => Phase(d)' = Phase(d) /\ Answer(d)' = Answer(d)
  BY <1>3 DEF Phase, Answer, MaskedLabels
<1>5. Phase(c) = "called" /\ Phase(c)' = "done" /\ Answer(c)' = error'
  BY <1>2 DEF Phase, Answer
<1>6. Service!Transferred(req[c], error', media, ram, media', ram')
  BY <1>2, SameTransfer
<1>7. Service!Perform(c)
  BY <1>4, <1>5, <1>6, SameMedia DEF Service!Perform, TypeOK, DevTypeOK
<1> QED
  BY <1>7

\* The return of the driver is the return of the service.
LEMMA RestoreReturns ==
  ASSUME IInv, NEW c \in Contexts, Restore(c)
  PROVE  Service!Return(c)
<1> USE DEF IInv, TypeOK, At, Goto, Restore
<1>1. \A d \in Contexts : d # c => Phase(d)' = Phase(d) /\ Answer(d)' = Answer(d)
  BY DEF Phase, Answer, devVars
<1>2. Phase(c) = "done" /\ Phase(c)' = "idle" /\ Answer(c)' = NONE
  BY DEF Phase, Answer
<1>3. UNCHANGED <<media, ram>> /\ req' = [req EXCEPT ![c] = NoRequest]
  BY DEF devVars
<1> QED
  BY <1>1, <1>2, <1>3, SameMedia DEF Service!Return

\* A call of the driver is a call of the service.
LEMMA CallCalls ==
  ASSUME IInv, NEW c \in Contexts, NEW r \in Requests, Call(c, r)
  PROVE  Service!Call(c, r)
<1> USE DEF IInv, TypeOK, At, Goto, Call
<1>1. \A d \in Contexts : d # c => Phase(d)' = Phase(d) /\ Answer(d)' = Answer(d)
  BY DEF Phase, Answer, devVars
<1>2. Phase(c) = "idle" /\ Phase(c)' = "called" /\ Answer(c)' = Answer(c)
  BY DEF Phase, Answer
<1>3. UNCHANGED <<media, ram>> /\ req' = [req EXCEPT ![c] = r]
  BY DEF devVars
<1> QED
  BY <1>1, <1>2, <1>3 DEF Service!Call

\* Every step maps to a step of the service or to a stutter.
LEMMA ServiceNext == IInv /\ [Next]_vars => [Service!Next]_Service!vars
<1> SUFFICES ASSUME IInv, [Next]_vars PROVE [Service!Next]_Service!vars
  OBVIOUS
<1>1. ASSUME NEW c \in Contexts, DriverStep(c) PROVE [Service!Next]_Service!vars
  BY <1>1, DriverInvisible, InvisibleStutters, RestoreReturns DEF Service!Next
<1>2. ASSUME NEW c \in Contexts, NEW r \in Requests, Call(c, r) PROVE Service!Next
  BY <1>2, CallCalls DEF Service!Next
<1>3. CASE \/ \E t \in Tasks : IrqReturn(t) \/ \E i \in BOOLEAN : SetMask(t, i)
           \/ SystickFire \/ TakeIrq \/ Claim \/ Dispatch
  BY <1>3, KernelInvisible, InvisibleStutters
<1>4. CASE Complete
  BY <1>4, CompletePerforms DEF Service!Next
<1>5. CASE UNCHANGED vars
  <2>1. Invisible
    BY <1>5 DEF vars, devVars, driverVars, Invisible, Phase, Answer
  <2> QED
    BY <2>1, InvisibleStutters
<1> QED
  BY <1>1, <1>2, <1>3, <1>4, <1>5 DEF Next

\* The promise of block.h for every number of callers: each call is exactly
\* one transfer, made at one instant between call and return, and the caller
\* gets the error of that very transfer.
THEOREM DriverImplementsService == Spec => ImplementsService
  BY ServiceInit, ServiceNext, Invariant, PTL DEF Spec, ImplementsService, Service!Spec

-----------------------------------------------------------------------------
(* A transfer ends                                                         *)

\* What every step does to the transfer of c, by whoever it is made.
Advances(c) ==
  /\ UNCHANGED <<current, hpc, source, want>> /\ \A d \in Contexts \ {c} : pc'[d] = pc[d]
  /\ Remaining(c)' < Remaining(c) \/ (systick' /\ UNCHANGED <<devVars, imask, driverVars>>)

\* The context inside the masked part is the only one that runs.
LEMMA Alone ==
  ASSUME IInv, NEW c \in Contexts, pc[c] \in MaskedLabels
  PROVE  imask /\ Running(c) /\ \A d \in Contexts : Running(d) => d = c
  BY ContextAssumption DEF IInv, Critical, Running, Contexts

\* An instruction of the transfer itself.
LEMMA OwnStepAdvances ==
  ASSUME IInv, NEW c \in Contexts, pc[c] \in MaskedLabels, DriverStep(c)
  PROVE  Advances(c)
<1>1. pc \in [Contexts -> Labels]
  BY DEF IInv, TypeOK
<1>2. CASE ReadCpsr(c) \/ Cpsid(c)
  BY <1>2 DEF ReadCpsr, Cpsid, At, MaskedLabels, StoreLabels
<1>3. CASE Store(c)
  BY <1>1, <1>3 DEF Store, Goto, WriteReg, Advances, Remaining, cpuVars, StoreLabels, NextLabel
<1>4. CASE Command(c)
  BY <1>1, <1>4 DEF Command, At, Goto, WriteCommand, Advances, Remaining, cpuVars
<1>5. CASE Poll(c)
  BY <1>1, <1>5 DEF Poll, At, Goto, Advances, Remaining, cpuVars
<1>6. CASE ReadStatus(c) \/ ReadError(c)
  BY <1>1, <1>6 DEF ReadStatus, ReadError, At, Goto, Advances, Remaining, cpuVars
<1>7. CASE Ack(c)
  BY <1>1, <1>7 DEF Ack, At, Goto, Advances, Remaining, cpuVars
<1>8. CASE Restore(c)
  BY <1>1, <1>8 DEF Restore, At, Goto, Advances, Remaining
<1> QED
  BY <1>2, <1>3, <1>4, <1>5, <1>6, <1>7, <1>8 DEF DriverStep

\* The completion comes while the transfer polls, and not before.
LEMMA CompleteAdvances ==
  ASSUME IInv, NEW c \in Contexts, pc[c] \in MaskedLabels, Complete
  PROVE  Advances(c)
<1>1. busy /\ complete' = TRUE /\ UNCHANGED <<pc, current, hpc, source, want>>
  BY DEF Complete, DeviceComplete, cpuVars, driverVars
<1>2. pc[c] = "poll" /\ ~complete
  BY <1>1 DEF IInv, Serialized, Owned, Quiet, TypeOK, DevTypeOK
<1> QED
  BY <1>1, <1>2 DEF Advances, Remaining

\* No other step is possible, but for the timer's.
LEMMA StepAdvances ==
  ASSUME IInv, NEW c \in Contexts, pc[c] \in MaskedLabels, Next
  PROVE  Advances(c)
<1>1. imask /\ Running(c) /\ \A d \in Contexts : Running(d) => d = c
  BY Alone
<1>2. Irq \in Contexts /\ Tasks \subseteq Contexts /\ "idle" \notin MaskedLabels
  BY DEF Contexts, MaskedLabels, StoreLabels
<1>3. ASSUME NEW d \in Contexts, DriverStep(d) \/ \E r \in Requests : Call(d, r) PROVE Advances(c)
  <2>1. Running(d)
    BY <1>3 DEF DriverStep, Call, ReadCpsr, Cpsid, Store, Command, Poll, ReadStatus, ReadError, Ack, Restore, At
  <2>2. d = c
    BY <1>1, <2>1
  <2>3. ~\E r \in Requests : Call(c, r)
    BY <1>2 DEF Call, At
  <2> QED
    BY <1>3, <2>2, <2>3, OwnStepAdvances
<1>4. ASSUME NEW t \in Tasks PROVE ~IrqReturn(t) /\ ~\E i \in BOOLEAN : SetMask(t, i)
  BY <1>1, <1>2 DEF IrqReturn, SetMask, At
<1>5. ASSUME SystickFire PROVE Advances(c)
  BY <1>5 DEF SystickFire, Advances, driverVars
<1>6. ~TakeIrq /\ ~Claim /\ ~Dispatch
  BY <1>1 DEF TakeIrq, Claim, Dispatch, Running
<1> QED
  BY <1>3, <1>4, <1>5, <1>6, CompleteAdvances DEF Next

\* For any number of tasks: a call that has masked interrupts is left alone
\* until it returns, and gets nearer to its return with every step, of its own
\* or of the controller.  It waits only in the loop of block.c line 14, and
\* there, by CallsSerialized, a command in flight or a completion to be seen.
THEOREM TransferEnds == Spec => TransferAdvances
<1>1. IInv /\ [Next]_vars =>
        [\A c \in Contexts : pc[c] \in MaskedLabels =>
           /\ UNCHANGED <<current, hpc, source, want>> /\ \A d \in Contexts \ {c} : pc'[d] = pc[d]
           /\ Remaining(c)' < Remaining(c) \/ (systick' /\ UNCHANGED <<devVars, imask, driverVars>>)]_vars
  BY StepAdvances DEF Advances
<1> QED
  BY <1>1, Invariant, PTL DEF Spec, TransferAdvances
=============================================================================
