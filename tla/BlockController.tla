-------------------------- MODULE BlockController ---------------------------
(***************************************************************************)
(* The register interface of the shared block controller.  The controller  *)
(* is part of the emulator, so every action here is external: it is what   *)
(* headless/block/main.c and headless/block-unattached/main.c require of   *)
(* the device that kernel/src/runtime/block.c drives.                      *)
(***************************************************************************)
EXTENDS BlockMedia

VARIABLES
  regs,            \* UNIT, LBA, SECTOR_COUNT and DMA_PADDR
  job,             \* the request in flight, a snapshot taken when COMMAND is written
  busy, complete,  \* the BUSY and COMPLETE bits of STATUS
  error,           \* the ERROR register; STATUS.ERROR is set iff it is not NONE
  irq_enable,      \* CONTROL.IRQ_ENABLE
  media, ram       \* the storage and the RAM that DMA reaches

devVars == <<regs, job, busy, complete, error, irq_enable, media, ram>>

DevTypeOK ==
  /\ regs \in [Registers -> Nat]
  /\ job \in AllRequests \cup {NoRequest}
  /\ busy \in BOOLEAN
  /\ complete \in BOOLEAN
  /\ error \in ErrorCodes
  /\ irq_enable \in BOOLEAN
  /\ media \in Media
  /\ ram \in Ram

DevInit ==
  /\ regs = [r \in Registers |-> 0]
  /\ job = NoRequest
  /\ busy = FALSE
  /\ complete = FALSE
  /\ error = NONE
  /\ irq_enable \in BOOLEAN
  /\ media \in Media
  /\ ram \in Ram

\* Nothing in flight and nothing left to acknowledge.
Quiet == ~busy /\ ~complete /\ error = NONE

\* The level the controller drives into the interrupt controller.
BlockIrqLevel == complete /\ irq_enable

WriteReg(r, v) ==
  /\ regs' = [regs EXCEPT ![r] = v]
  /\ UNCHANGED <<job, busy, complete, error, irq_enable, media, ram>>

\* A command written while another is in flight is refused with BUSY; the
\* one in flight is not disturbed.
WriteCommand(op) ==
  \/ /\ busy
     /\ error' = "BUSY"
     /\ UNCHANGED <<regs, job, busy, complete, irq_enable, media, ram>>
  \/ /\ ~busy
     /\ job' = [command |-> op, unit |-> regs["unit"], lba |-> regs["lba"],
                sector_count |-> regs["sector_count"], dma_paddr |-> regs["dma_paddr"]]
     /\ busy' = TRUE
     /\ complete' = FALSE
     /\ error' = NONE
     /\ UNCHANGED <<regs, irq_enable, media, ram>>

WriteAck ==
  /\ complete' = FALSE
  /\ error' = NONE
  /\ UNCHANGED <<regs, job, busy, irq_enable, media, ram>>

\* The deadline of the command in flight passes.
DeviceComplete ==
  /\ busy
  /\ busy' = FALSE
  /\ complete' = TRUE
  /\ error' \in ErrorCodes
  /\ Transferred(job, error', media, ram, media', ram')
  /\ job' = NoRequest
  /\ UNCHANGED <<regs, irq_enable>>
=============================================================================
