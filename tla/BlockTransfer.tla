--------------------------- MODULE BlockTransfer ----------------------------
(***************************************************************************)
(* The synchronous block driver, kernel/src/runtime/block.c, called by the *)
(* tasks of a preemptive kernel and by its IRQ handler.  One CPU runs one  *)
(* context at a time; each action is one instruction or one device access  *)
(* of that context, so an interrupt may arrive between any two of them.    *)
(* The handler is the one of examples/irq-context-switch: it claims the    *)
(* source, acknowledges it and returns into a task.  Which task that is,   *)
(* and whether the handler uses the driver too, is left open, because      *)
(* kernel/include/minemu/irq.h leaves the dispatch policy to the user.     *)
(***************************************************************************)
EXTENDS BlockController

CONSTANTS
  Tasks,           \* task contexts
  Irq              \* the context of the IRQ handler

ASSUME ContextAssumption == Tasks # {} /\ Irq \notin Tasks

Contexts == Tasks \cup {Irq}

VARIABLES
  imask,           \* CPSR.I of the CPU
  current,         \* the task that runs, or that the handler interrupted
  hpc,             \* where the IRQ handler is: "off", "claim", "dispatch", "body"
  source,          \* frame->exception_id, the source the handler claimed
  systick,         \* the pending level of SYSTICK
  pc,              \* pc[c]: the next instruction of c in minemu_block_transfer
  cpsr,            \* cpsr[c]: the local variable, bit 0x80 of it
  req,             \* req[c]: the arguments
  err,             \* err[c]: the local variable error
  want             \* want[t]: the I bit task t itself last chose (history)

cpuVars    == <<imask, current, hpc, source, systick>>
driverVars == <<pc, cpsr, req, err>>
vars       == <<devVars, cpuVars, driverVars, want>>

\* The program counters of minemu_block_transfer.  "idle" is outside the call.
StoreLabels == {"unit", "lba", "sector_count", "dma_paddr"}
MaskedLabels == StoreLabels \cup {"command", "poll", "status", "error", "ack", "restore"}
Labels == {"idle", "mrs", "cpsid"} \cup MaskedLabels

NextLabel ==
  [unit |-> "lba", lba |-> "sector_count", sector_count |-> "dma_paddr", dma_paddr |-> "command"]

\* Every register, local variable and program counter stays in its domain; in
\* particular the value returned is always one of the ERROR codes.
TypeOK ==
  /\ DevTypeOK
  /\ imask \in BOOLEAN
  /\ current \in Tasks
  /\ hpc \in {"off", "claim", "dispatch", "body"}
  /\ source \in {"SYSTICK", "BLOCK", NONE}
  /\ systick \in BOOLEAN
  /\ pc \in [Contexts -> Labels]
  /\ cpsr \in [Contexts -> BOOLEAN]
  /\ req \in [Contexts -> Requests \cup {NoRequest}]
  /\ err \in [Contexts -> ErrorCodes]
  /\ want \in [Tasks -> BOOLEAN]

\* The bootstrap leaves I set; the tasks that do not run wait to be resumed
\* with I clear, as the saved status of every interrupted task has it.
Init ==
  /\ DevInit
  /\ imask = TRUE
  /\ current \in Tasks
  /\ hpc = "off"
  /\ source = NONE
  /\ systick = FALSE
  /\ pc = [c \in Contexts |-> "idle"]
  /\ cpsr = [c \in Contexts |-> FALSE]
  /\ req = [c \in Contexts |-> NoRequest]
  /\ err = [c \in Contexts |-> NONE]
  /\ want = [t \in Tasks |-> t = current]

\* The context whose instructions the CPU executes.
Running(c) == IF c = Irq THEN hpc = "body" ELSE hpc = "off" /\ current = c

At(c, label) == Running(c) /\ pc[c] = label
Goto(c, label) == pc' = [pc EXCEPT ![c] = label]

-----------------------------------------------------------------------------
(* minemu_block_transfer                                                   *)

Call(c, r) ==
  /\ At(c, "idle")
  /\ req' = [req EXCEPT ![c] = r]
  /\ Goto(c, "mrs")
  /\ UNCHANGED <<devVars, cpuVars, cpsr, err, want>>

ReadCpsr(c) ==
  /\ At(c, "mrs")
  /\ cpsr' = [cpsr EXCEPT ![c] = imask]
  /\ Goto(c, "cpsid")
  /\ UNCHANGED <<devVars, cpuVars, req, err, want>>

\* Interrupts stay as they were.
CpsidWithoutMask(c) ==
  /\ At(c, "cpsid")
  /\ Goto(c, "unit")
  /\ UNCHANGED <<devVars, cpuVars, cpsr, req, err, want>>

Cpsid(c) ==
  /\ At(c, "cpsid")
  /\ imask' = TRUE
  /\ Goto(c, "unit")
  /\ UNCHANGED <<devVars, current, hpc, source, systick, cpsr, req, err, want>>

\* The four stores that describe the transfer.
Store(c) ==
  /\ Running(c)
  /\ pc[c] \in StoreLabels
  /\ WriteReg(pc[c], req[c][pc[c]])
  /\ Goto(c, NextLabel[pc[c]])
  /\ UNCHANGED <<cpuVars, cpsr, req, err, want>>

Command(c) ==
  /\ At(c, "command")
  /\ WriteCommand(req[c].command)
  /\ Goto(c, "poll")
  /\ UNCHANGED <<cpuVars, cpsr, req, err, want>>

\* BUSY is taken for COMPLETE.
PollStatusReady(c) ==
  /\ At(c, "poll")
  /\ busy \/ complete
  /\ Goto(c, "status")
  /\ UNCHANGED <<devVars, cpuVars, cpsr, req, err, want>>

\* The load that ends the loop; one that does not find COMPLETE changes nothing.
Poll(c) ==
  /\ At(c, "poll")
  /\ complete
  /\ Goto(c, "status")
  /\ UNCHANGED <<devVars, cpuVars, cpsr, req, err, want>>

\* STATUS.ERROR decides whether the ERROR register is read at all.
ReadStatus(c) ==
  /\ At(c, "status")
  /\ err' = [err EXCEPT ![c] = NONE]
  /\ Goto(c, IF error # NONE THEN "error" ELSE "ack")
  /\ UNCHANGED <<devVars, cpuVars, cpsr, req, want>>

\* The STATUS bit is returned instead of the ERROR register.
ReadErrorBit(c) ==
  /\ At(c, "error")
  /\ err' = [err EXCEPT ![c] = "ERROR_BIT"]
  /\ Goto(c, "ack")
  /\ UNCHANGED <<devVars, cpuVars, cpsr, req, want>>

ReadError(c) ==
  /\ At(c, "error")
  /\ err' = [err EXCEPT ![c] = error]
  /\ Goto(c, "ack")
  /\ UNCHANGED <<devVars, cpuVars, cpsr, req, want>>

\* Interrupts come back before the acknowledgement, which is left to the handler.
AckUnmasked(c) ==
  /\ At(c, "ack")
  /\ imask' = cpsr[c]
  /\ Goto(c, "restore")
  /\ UNCHANGED <<devVars, current, hpc, source, systick, cpsr, req, err, want>>

Ack(c) ==
  /\ At(c, "ack")
  /\ WriteAck
  /\ Goto(c, "restore")
  /\ UNCHANGED <<cpuVars, cpsr, req, err, want>>

\* cpsie i whatever the caller had.
RestoreEnabled(c) ==
  /\ At(c, "restore")
  /\ imask' = FALSE
  /\ req' = [req EXCEPT ![c] = NoRequest]
  /\ err' = [err EXCEPT ![c] = NONE]
  /\ cpsr' = [cpsr EXCEPT ![c] = FALSE]
  /\ Goto(c, "idle")
  /\ UNCHANGED <<devVars, current, hpc, source, systick, want>>

\* cpsie i only if the saved I bit was clear, and the return.
Restore(c) ==
  /\ At(c, "restore")
  /\ imask' = IF cpsr[c] THEN imask ELSE FALSE
  /\ req' = [req EXCEPT ![c] = NoRequest]
  /\ err' = [err EXCEPT ![c] = NONE]
  /\ cpsr' = [cpsr EXCEPT ![c] = FALSE]
  /\ Goto(c, "idle")
  /\ UNCHANGED <<devVars, current, hpc, source, systick, want>>

DriverStep(c) ==
  \/ ReadCpsr(c)
  \/ Cpsid(c)
  \/ Store(c)
  \/ Command(c)
  \/ Poll(c)
  \/ ReadStatus(c)
  \/ ReadError(c)
  \/ Ack(c)
  \/ Restore(c)

-----------------------------------------------------------------------------
(* The rest of the kernel: irq.h, the IRQ trampoline and its dispatch      *)

\* minemu_irq_enable and minemu_irq_disable, called by a task.
SetMask(t, i) ==
  /\ At(t, "idle")
  /\ want[t] # i
  /\ imask' = i
  /\ want' = [want EXCEPT ![t] = i]
  /\ UNCHANGED <<devVars, current, hpc, source, systick, driverVars>>

SystickFire ==
  /\ ~systick
  /\ systick' = TRUE
  /\ UNCHANGED <<devVars, imask, current, hpc, source, driverVars, want>>

\* The CPU takes an IRQ: between any two instructions while I is clear.
TakeIrq ==
  /\ hpc = "off"
  /\ ~imask
  /\ systick \/ BlockIrqLevel
  /\ imask' = TRUE
  /\ hpc' = "claim"
  /\ UNCHANGED <<devVars, current, source, systick, driverVars, want>>

\* The trampoline reads CLAIM: SYSTICK has the highest priority, BLOCK the lowest.
Claim ==
  /\ hpc = "claim"
  /\ source' = IF systick THEN "SYSTICK" ELSE IF BlockIrqLevel THEN "BLOCK" ELSE NONE
  /\ hpc' = "dispatch"
  /\ UNCHANGED <<devVars, imask, current, systick, driverVars, want>>

\* minemu_irq_dispatch acknowledges the device of the claimed source.
Dispatch ==
  /\ hpc = "dispatch"
  /\ systick' = (systick /\ source # "SYSTICK")
  /\ IF source = "BLOCK" THEN WriteAck ELSE UNCHANGED devVars
  /\ hpc' = "body"
  /\ UNCHANGED <<imask, current, source, driverVars, want>>

\* The trampoline leaves through the frame of any task: subs pc, lr restores
\* the status saved there, which has I clear.
IrqReturn(t) ==
  /\ At(Irq, "idle")
  /\ hpc' = "off"
  /\ source' = NONE
  /\ current' = t
  /\ imask' = FALSE
  /\ UNCHANGED <<devVars, systick, driverVars, want>>

Complete == DeviceComplete /\ UNCHANGED <<cpuVars, driverVars, want>>

Next ==
  \/ \E c \in Contexts : DriverStep(c) \/ \E r \in Requests : Call(c, r)
  \/ \E t \in Tasks : IrqReturn(t) \/ \E i \in BOOLEAN : SetMask(t, i)
  \/ SystickFire
  \/ TakeIrq
  \/ Claim
  \/ Dispatch
  \/ Complete

Spec == Init /\ [][Next]_vars

\* The CPU keeps executing the code it is in, and a command in flight
\* completes after MINEMU_BLOCK_COMPLETION_TICKS.  Nothing is assumed of the
\* scheduler or of the timer.
Fairness ==
  /\ \A c \in Contexts : WF_vars(DriverStep(c))
  /\ WF_vars(Complete)

FairSpec == Spec /\ Fairness

-----------------------------------------------------------------------------
(* Properties                                                              *)

\* While a context is between the store to UNIT and the acknowledgement, the
\* registers hold its own arguments as far as it has written them and the
\* controller holds its own request and nothing else; while no context is,
\* the controller is quiet (block.c lines 9-21).
StoredBefore(r, label) ==
  CASE label = "lba"          -> r \in {"unit"}
    [] label = "sector_count" -> r \in {"unit", "lba"}
    [] label = "dma_paddr"    -> r \in {"unit", "lba", "sector_count"}
    [] label = "command"      -> TRUE
    [] OTHER                  -> FALSE

Owned(c) ==
  /\ \A r \in Registers : StoredBefore(r, pc[c]) => regs[r] = req[c][r]
  /\ CASE pc[c] = "poll"               -> busy # complete /\ (busy => job = req[c] /\ error = NONE)
       [] pc[c] \in {"status", "ack"}  -> ~busy /\ complete
       [] pc[c] = "error"              -> ~busy /\ complete /\ error # NONE
       [] OTHER                        -> Quiet

Serialized ==
  /\ \A c \in Contexts : pc[c] \in MaskedLabels => Owned(c)
  /\ \A c, d \in Contexts : pc[c] \in MaskedLabels /\ pc[d] \in MaskedLabels => c = d
  /\ (\A c \in Contexts : pc[c] \notin MaskedLabels) => Quiet

\* A context finds the I bit after minemu_block_transfer as it chose it before,
\* whatever ran in between; the handler always runs masked (block.c lines 7, 22-24).
MaskRespected ==
  /\ \A t \in Tasks : Running(t) /\ pc[t] \notin MaskedLabels => imask = want[t]
  /\ hpc # "off" => imask

\* The interrupt that the completion raises while the driver polls is never
\* taken: the handler sees SYSTICK only (block.c line 21 before line 23).
CompletionNotStolen == hpc \in {"dispatch", "body"} => source = "SYSTICK"

\* The promise of block.h: every call is one transfer made at one instant,
\* and what it returns is the error of that transfer.
Phase(c) ==
  IF pc[c] = "idle" THEN "idle"
  ELSE IF pc[c] \in {"status", "error", "ack", "restore"} \/ (pc[c] = "poll" /\ complete)
       THEN "done" ELSE "called"

Answer(c) ==
  IF Phase(c) # "done" THEN NONE
  ELSE IF pc[c] \in {"poll", "status", "error"} THEN error ELSE err[c]

Service == INSTANCE BlockService WITH
  phase <- [c \in Contexts |-> Phase(c)], asked <- req, answer <- [c \in Contexts |-> Answer(c)]

ImplementsService == Service!Spec

\* A transfer that has masked interrupts returns (block.c lines 14-15): the
\* completion it polls for is never lost.
TransferReturns == \A c \in Contexts : pc[c] \in MaskedLabels ~> pc[c] = "idle"

\* How many steps of its own and of the controller a transfer is from its end.
Remaining(c) ==
  CASE pc[c] = "unit"    -> 11 [] pc[c] = "lba"    -> 10 [] pc[c] = "sector_count" -> 9 [] pc[c] = "dma_paddr" -> 8
    [] pc[c] = "command" -> 7  [] pc[c] = "poll"   -> (IF complete THEN 5 ELSE 6)
    [] pc[c] = "status"  -> 4  [] pc[c] = "error"  -> 3  [] pc[c] = "ack" -> 2  [] pc[c] = "restore" -> 1
    [] OTHER             -> 0

\* Once a transfer has masked interrupts no other context, no handler and no
\* scheduler makes a step before it returns, and every step that is made brings
\* it nearer to its return, except that SYSTICK may become pending (block.c
\* lines 9-24, whose loop waits without a limit).
TransferAdvances ==
  [][\A c \in Contexts : pc[c] \in MaskedLabels =>
       /\ UNCHANGED <<current, hpc, source, want>> /\ \A d \in Contexts \ {c} : pc'[d] = pc[d]
       /\ Remaining(c)' < Remaining(c) \/ (systick' /\ UNCHANGED <<devVars, imask, driverVars>>)]_vars
=============================================================================
