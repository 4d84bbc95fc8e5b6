----------------------------- MODULE BlockCases -----------------------------
(***************************************************************************)
(* The programs headless/block/main.c and headless/block-unattached/main.c *)
(* against the block controller, with its completion deadline counted in   *)
(* instructions.  A program is the sequence of its register accesses and   *)
(* checks.  The calls of the driver are single transfers: that they are is *)
(* the theorem DriverImplementsService of BlockTransferProofs.             *)
(***************************************************************************)
EXTENDS BlockController, InterruptController, Sequences

CONSTANTS
  MaxStatementTicks  \* bound: the slowest build that is considered

ASSUME StatementAssumption == MaxStatementTicks \in Nat \ {0}

COMPLETION_TICKS == 32

VARIABLES
  program,         \* "block" or "unattached"
  at,              \* index of its next statement
  outcome,         \* "running", "failed" or "passed"
  pace,            \* the most instructions that the build puts between two
                   \* register accesses of the C code; the source does not say
  left,            \* ticks until the command in flight completes
  missed,          \* a completion came before the program waited for it (history)
  enable,          \* ENABLE of the interrupt controller
  in_service       \* the source claimed and not yet ended

caseVars == <<program, pace, at, outcome, left, missed, enable, in_service>>
vars     == <<devVars, caseVars>>

-----------------------------------------------------------------------------
(* The programs                                                            *)

FILESYSTEM == 0
SWAP       == 1
UNATTACHED == 3  \* the swap unit of the machine that has no swap medium
DMA        == 0  \* the sector of RAM that holds the buffer

Do(op, x)       == [op |-> op, x |-> x]
Register(r, v)  == [op |-> "register", x |-> r, y |-> v]
Driver(r, e)    == [op |-> "driver", x |-> r, y |-> e]

\* wait_complete(expected_error); STATUS.ERROR is set iff ERROR is not NONE.
wait_complete(e) == <<Do("wait", NONE), Do("error", e), Do("ack", NONE)>>

describe(u, l, n, d) ==
  <<Register("unit", u), Register("lba", l), Register("sector_count", n), Register("dma_paddr", d)>>

command(u, op, l, n, d) == describe(u, l, n, d) \o <<Do("command", op)>>

\* The command, and STATUS read 31 and 32 ticks after it.
samples(op) == <<Do("exact", op), Do("sample", "BUSY"), Do("status", "COMPLETE")>>

exact_command(u, op, l, n, d, e) == describe(u, l, n, d) \o samples(op) \o wait_complete(e)

Fill(v)   == Do("fill", v)
Expect(v) == Do("expect", v)

data_test ==
  <<Do("unit", FILESYSTEM)>> \o exact_command(FILESYSTEM, READ, 0, 1, DMA, NONE)
  \o <<Expect(0), Fill(165)>> \o exact_command(FILESYSTEM, WRITE, 1, 1, DMA, NONE)
  \o <<Fill(90)>> \o exact_command(SWAP, WRITE, 1, 1, DMA, NONE)
  \o <<Fill(0)>> \o exact_command(FILESYSTEM, READ, 1, 1, DMA, NONE)
  \o <<Expect(165)>> \o exact_command(SWAP, READ, 1, 1, DMA, NONE) \o <<Expect(90)>>

\* dma_paddr + 1 is not the address of a sector.
error_test ==
  exact_command(FILESYSTEM, "99", 0, 1, DMA, "INVALID_COMMAND")
  \o exact_command(FILESYSTEM, READ, 0, 1, DMA + 1, "INVALID_DMA")
  \o exact_command(FILESYSTEM, READ, 2, 1, DMA, "INVALID_LBA")
  \o exact_command(2, READ, 0, 1, DMA, "INVALID_UNIT")

\* A command refused while another is in flight, and what is done about it.
refused(statements) ==
  <<Fill(0)>> \o command(FILESYSTEM, READ, 1, 1, DMA)
  \o <<Register("unit", SWAP), Do("command", READ)>> \o statements
  \o <<Do("unit", SWAP), Expect(165)>>

\* The acknowledgement comes before the look at the error.
busy_test_ack_first == refused(<<Do("ack", NONE), Do("error", "BUSY")>> \o wait_complete(NONE))

\* The refused command is waited for as well.
busy_test_waits_twice ==
  refused(<<Do("error", "BUSY"), Do("ack", NONE)>> \o wait_complete(NONE) \o wait_complete(NONE))

busy_test == refused(<<Do("error", "BUSY"), Do("ack", NONE)>> \o wait_complete(NONE))

irq_of(unit) ==
  command(unit, READ, 0, 1, DMA)
  \o <<Do("wait", NONE), Do("pending", TRUE), Do("claim", BLOCK), Do("ack", NONE),
       Do("eoi", NONE), Do("pending", FALSE)>>

irq_test == <<Do("enable", {BLOCK}), Do("control", TRUE)>> \o irq_of(FILESYSTEM) \o irq_of(SWAP)

transfer(op, u) == [command |-> op, unit |-> u, lba |-> 0, sector_count |-> 1, dma_paddr |-> DMA]

driver_test ==
  <<Fill(60), Driver(transfer(WRITE, SWAP), NONE), Fill(0), Driver(transfer(READ, SWAP), NONE),
    Expect(60), Driver(transfer(READ, 2), "INVALID_UNIT"), Do("status", "QUIET")>>

block_main == data_test \o error_test \o busy_test \o irq_test \o driver_test

unattached_main ==
  describe(UNATTACHED, 0, 1, DMA) \o samples(READ) \o <<Do("error", "NO_MEDIA"), Do("ack", NONE)>>

Program == IF program = "block" THEN block_main ELSE unattached_main

\* The media are files of zeroes; the buffer is in .bss.
Init ==
  /\ program \in {"block", "unattached"}
  /\ pace \in 1 .. MaxStatementTicks
  /\ at = 1 /\ outcome = "running" /\ left = 0 /\ missed = FALSE
  /\ enable = {} /\ in_service = IRQ_NONE
  /\ DevInit
  /\ ~irq_enable
  /\ media = [u \in AttachedUnits |-> [s \in 0 .. MediaSectors - 1 |-> 0]]
  /\ ram = [s \in 0 .. RamSectors - 1 |-> 0]

-----------------------------------------------------------------------------
(* The statements                                                          *)

Stmt == Program[at]

\* A command in flight completes at its deadline, before the next access.
Execute(op) == outcome = "running" /\ Stmt.op = op /\ ~(busy /\ left = 0)

\* Ticks from a statement to the next one: 31 and 1 in minemu_block_exact_32.
Ticks == CASE Stmt.op = "exact" -> {31} [] Stmt.op = "sample" -> {1} [] OTHER -> 1 .. pace

Elapse ==
  \E d \in Ticks :
    LET n == IF busy THEN left ELSE COMPLETION_TICKS
    IN  left' = IF busy' /\ d < n THEN n - d ELSE 0

\* MINEMU_REQUIRE(ok), and on to the next statement; the end is fail_stop.
Require(ok) ==
  /\ outcome' = IF ~ok THEN "failed" ELSE IF at = Len(Program) THEN "passed" ELSE "running"
  /\ at' = at + 1
  /\ Elapse
  /\ UNCHANGED <<program, pace, missed>>

SetRegister == Execute("register") /\ WriteReg(Stmt.x, Stmt.y) /\ Require(TRUE) /\ UNCHANGED <<enable, in_service>>

SetCommand ==
  /\ Execute("command") \/ Execute("exact")
  /\ WriteCommand(Stmt.x)
  /\ Require(TRUE) /\ UNCHANGED <<enable, in_service>>

SetAck == Execute("ack") /\ WriteAck /\ Require(TRUE) /\ UNCHANGED <<enable, in_service>>

\* The stores of line 109 and line 110.
Configure ==
  /\ Execute("enable") \/ Execute("control")
  /\ enable' = IF Stmt.op = "enable" THEN Stmt.x ELSE enable
  /\ irq_enable' = IF Stmt.op = "control" THEN Stmt.x ELSE irq_enable
  /\ UNCHANGED <<regs, job, busy, complete, error, media, ram, in_service>>
  /\ Require(TRUE)

\* The loops that fill the buffer.
FillBuffer ==
  /\ Execute("fill")
  /\ ram' = [ram EXCEPT ![DMA] = Stmt.x]
  /\ UNCHANGED <<regs, job, busy, complete, error, irq_enable, media, enable, in_service>>
  /\ Require(TRUE)

Levels == IF BlockIrqLevel THEN {BLOCK} ELSE {}

\* Reads, each with the value the program requires.
Check ==
  /\ UNCHANGED <<devVars, enable, in_service>>
  /\ \/ Execute("sample") /\ Require(busy /\ ~complete /\ error = NONE)
     \/ Execute("status") /\ Require(IF Stmt.x = "QUIET" THEN ~complete /\ error = NONE ELSE ~busy /\ complete)
     \/ Execute("wait") /\ complete /\ Require(TRUE)
     \/ Execute("error") /\ Require(error = Stmt.x)
     \/ Execute("unit") /\ Require(regs["unit"] = Stmt.x)
     \/ Execute("expect") /\ Require(ram[DMA] = Stmt.x)
     \/ Execute("pending") /\ Require((BLOCK \in Levels) = Stmt.x)

\* The loops of lines 12 and 113, while COMPLETE is not set.
Poll ==
  /\ Execute("wait") /\ ~complete
  /\ UNCHANGED devVars
  /\ Elapse
  /\ UNCHANGED <<program, pace, at, outcome, missed, enable, in_service>>

Claim ==
  /\ Execute("claim")
  /\ in_service' = Highest(Levels, enable, ResetPriority)
  /\ UNCHANGED <<devVars, enable>>
  /\ Require(in_service' = Stmt.x)

WriteEoi == Execute("eoi") /\ in_service' = IRQ_NONE /\ UNCHANGED <<devVars, enable>> /\ Require(TRUE)

\* minemu_block_read and minemu_block_write: one transfer, acknowledged.
CallDriver ==
  /\ Execute("driver")
  /\ regs' = [r \in Registers |-> Stmt.x[r]]
  /\ complete' = FALSE /\ error' = NONE
  /\ UNCHANGED <<job, busy, irq_enable, enable, in_service>>
  /\ \E e \in ErrorCodes : Transferred(Stmt.x, e, media, ram, media', ram') /\ Require(e = Stmt.y)

\* The deadline of the command in flight.
Complete ==
  /\ left = 0 /\ DeviceComplete
  /\ missed' = (missed \/ (outcome = "running" /\ Stmt.op \notin {"wait", "status"}))
  /\ UNCHANGED <<program, pace, at, outcome, left, enable, in_service>>

Cpu ==
  \/ SetRegister \/ SetCommand \/ SetAck \/ Configure \/ FillBuffer \/ Check \/ Poll
  \/ Claim \/ WriteEoi \/ CallDriver

FailStop == outcome # "running" /\ UNCHANGED vars

Next == Cpu \/ Complete \/ FailStop

\* The CPU executes and the controller keeps its deadline.
Spec == Init /\ [][Next]_vars /\ WF_vars(Cpu) /\ WF_vars(Complete)

-----------------------------------------------------------------------------
(* Properties                                                              *)

\* A MINEMU_REQUIRE of the two programs fails only where the completion of the
\* first command overtakes the BUSY test, and it overtakes it only in a build
\* whose four accesses up to line 102 may take the 32 ticks of the deadline;
\* such a run never reports success.
\* Otherwise every transfer and every error is seen, and the refused command
\* disturbs neither the one in flight nor its completion
\* (headless/block/main.c lines 11-144).
BlockPass ==
  /\ outcome = "failed" => missed
  /\ missed => 4 * pace >= COMPLETION_TICKS /\ outcome # "passed"

\* Every wait for COMPLETE ends, the one of line 103 included, which follows
\* an acknowledgement made while the command is in flight, unless that
\* acknowledgement comes too late and takes the completion with it.
BlockEnd == <>(outcome # "running" \/ missed)
=============================================================================
