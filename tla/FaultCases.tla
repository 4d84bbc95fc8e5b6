----------------------------- MODULE FaultCases -----------------------------
(***************************************************************************)
(* The programs headless/mmu, headless/ttbr-switch and headless/exceptions *)
(* with their dispatches, on the exception entries of TrapFrames and the   *)
(* MMU.  A program is the sequence of its statements, four bytes each, so  *)
(* an abort really is retried or stepped over by what the frame says.      *)
(***************************************************************************)
EXTENDS TrapFrames, Mmu, InterruptController

VARIABLES
  program,         \* "mmu", "ttbr" or "exceptions"
  outcome,         \* "running", "failed" or "passed"
  mmu,             \* the tables, TTBR0 and the TLB
  mem,             \* the first word of each page the programs read or write
  stage,           \* the variables by which a program and its dispatches talk
  systick

cpuVars  == <<cpsr, r, user, banks, stack, dfsr, dfar, taken, entering, stopped>>
caseVars == <<vars, program, outcome, mmu, mem, stage, systick>>

START    == 8     \* where the programs begin
DISPATCH == 4000  \* where the dispatches begin

-----------------------------------------------------------------------------
(* The programs                                                            *)

On(page, op, x, y) == [page |-> page, op |-> op, x |-> x, y |-> y]
Do(op, x, y)       == On(KERNEL, op, x, y)

Set(name, v)       == Do("set", name, v)
Expect(name, v)    == Do("expect", name, v)
Map(pte)           == Do("map", "table_a", pte)
Tlbiall            == Do("tlbiall", 0, 0)
Read(v)            == Do("read", TEST_VADDR, v)
Write(v)           == Do("write", TEST_VADDR, v)

METADATA == 21

\* Without the TLBIALL of line 61.
clear_bits_only == <<Do("clear_bits", "table_a", {"A", "D"})>>
clear_bits      == <<Do("clear_bits", "table_a", {"A", "D"}), Tlbiall>>

mmu_main ==
  <<Do("root", "a", "table_a"), Map(Pte("page", {"R", "W"}, METADATA)), Tlbiall, Write(1),
    Do("memory", "page", 1), Do("bits", "table_a", {"A", "D"}), Do("soft", "table_a", METADATA)>>
  \o clear_bits
  \o <<Read(1), Do("bits", "table_a", {"A"}),
       Map(Pte("page", {"W"}, METADATA)), Tlbiall, Set("abort", 1), Read(1), Expect("abort", 0),
       Map(Pte("page", {"R"}, METADATA)), Tlbiall, Set("abort", 2), Write(2),
       Do("memory", "page", 2), Expect("abort", 0),
       Map(Pte("rom", {"R", "W"}, 0)), Tlbiall, Set("abort", 3), Write(0), Expect("abort", 0)>>

\* The read of line 38, which must still see the old tables.
Stale(v) == Do("read_stale", TEST_VADDR, v)

ttbr_main ==
  <<Do("store", "page_a", 10), Do("store", "page_b", 11), Map(Pte("page_a", {"R", "W"}, 0)),
    Do("map", "table_b", Pte("page_b", {"R", "W"}, 0)),
    Do("root", "a", "table_a"), Do("root", "b", "table_b"), Tlbiall, Read(10),
    Do("ttbr", "b", 0), Stale(10), Tlbiall, Read(11), Do("ttbr", "a", 0), Tlbiall, Read(10)>>

\* minemu_user_probe; its bx runs in SVC mode and comes back to main.
user_probe ==
  LET At(op, x) == On(USER_PROBE, op, x, 0)
  IN  <<At("literal", 0), At("read", RNG), At("literal", 0), At("write", TRACE),
        At("undefined", 0), At("svc", 0), At("branch", 0)>>

systick_irq ==
  <<Do("systick", 0, 0), Do("mask", FALSE, 0), Do("irq_taken", 0, 0), Do("mask", TRUE, 0), Expect("irq", 1)>>

exceptions_main ==
  <<Do("root", "a", "table_a"), Do("expect_frame", 0, 0), Do("svc", 0, 0), Expect("svc", 1),
    Set("undefined", 1), Do("undefined", 0, 0), Expect("undefined", 0),
    Do("cp15_false", 0, 0), Set("abort", 1), Read(0), Expect("abort", 0),
    Do("revoke", PREFETCH_PROBE, "X"), Tlbiall, Set("abort", 2),
    On(PREFETCH_PROBE, "branch", 0, 0), Expect("abort", 0),
    Do("revoke", USER_PROBE, "U"), Tlbiall, Set("abort", 3), Set("undefined", 2), Set("device", 1),
    Do("expect_frame", 0, 0), Do("enter_user", 0, 0)>>
  \o user_probe
  \o <<Expect("abort", 0), Expect("undefined", 0), Expect("svc", 2), Expect("device", 3)>>
  \o systick_irq

Program ==
  CASE program = "mmu" -> mmu_main [] program = "ttbr" -> ttbr_main [] OTHER -> exceptions_main

CaseInit ==
  /\ program \in {"mmu", "ttbr", "exceptions"}
  /\ Init
  /\ cpsr = SVC + I_BIT /\ pc = START
  /\ outcome = "running"
  /\ mmu = MmuReset
  /\ mem = [f \in {"page", "page_a", "page_b", "data_page"} |-> 0]
  /\ stage = [abort |-> 0, undefined |-> 0, device |-> 0, svc |-> 0, irq |-> 0, frame |-> 0]
  /\ systick = SystickReset

-----------------------------------------------------------------------------
(* The statements                                                          *)

Stmt   == Program[pc \div 4 - 1]
InMain == outcome = "running" /\ ~entering /\ stopped = <<>>
InUser == ModeOf(cpsr) = USR

FetchFault == Fault(mmu, Stmt.page, "X", InUser)
Execute(op) == InMain /\ Stmt.op = op /\ FetchFault = 0
Fetched     == Touched(mmu, Stmt.page, "X")

IsRead     == Stmt.op \in {"read", "read_stale"}
DataKind   == IF IsRead THEN "R" ELSE "W"
DataFault  == Fault(Fetched, Stmt.x, DataKind, InUser)
DataAccess == InMain /\ FetchFault = 0 /\ (IsRead \/ Stmt.op = "write")

\* MINEMU_REQUIRE(ok), and on to the next statement; the end is fail_stop.
Require(ok) ==
  /\ outcome' = IF ~ok THEN "failed" ELSE IF pc \div 4 - 1 = Len(Program) THEN "passed" ELSE "running"
  /\ pc' = pc + 4
  /\ UNCHANGED program

Prefetch ==
  /\ InMain /\ FetchFault # 0
  /\ Raise("prefetch_abort", FetchFault, Stmt.page)
  /\ mmu' \in Refused(mmu, Stmt.page)
  /\ UNCHANGED <<program, outcome, mem, stage, systick>>

DataAbort ==
  /\ DataAccess /\ DataFault # 0
  /\ Raise("data_abort", DataFault, Stmt.x)
  /\ mmu' \in Refused(Fetched, Stmt.x)
  /\ UNCHANGED <<program, outcome, mem, stage, systick>>

Access ==
  /\ DataAccess /\ DataFault = 0
  /\ mmu' = Touched(Fetched, Stmt.x, DataKind)
  /\ LET f == Seen(mmu, Stmt.x).frame
     IN  /\ mem' = IF IsRead THEN mem ELSE [mem EXCEPT ![f] = Stmt.y]
         /\ Require(IsRead => mem[f] = Stmt.y)
  /\ UNCHANGED <<cpuVars, stage, systick>>

\* Stores to the tables through the direct map, TTBR0 and TLBIALL.
EditTables ==
  /\ \/ Execute("root") /\ mmu' = [mmu EXCEPT !.root[Stmt.x] = Stmt.y]
     \/ Execute("map") /\ mmu' = [mmu EXCEPT !.table[Stmt.x] = Stmt.y]
     \/ Execute("clear_bits") /\ mmu' = [mmu EXCEPT !.table[Stmt.x].flags = @ \ Stmt.y]
     \/ Execute("revoke") /\ mmu' = [mmu EXCEPT !.pte[Stmt.x].flags = @ \ {Stmt.y}]
     \/ Execute("ttbr") /\ mmu' = minemu_mmu_set_ttbr0(mmu, Stmt.x)
     \/ Execute("tlbiall") /\ mmu' = minemu_mmu_tlbiall(mmu)
  /\ Require(TRUE)
  /\ UNCHANGED <<cpuVars, mem, stage, systick>>

\* Stores to variables and to the pages themselves.
Store ==
  /\ \/ Execute("set") /\ stage' = [stage EXCEPT ![Stmt.x] = Stmt.y] /\ UNCHANGED mem
     \/ Execute("expect_frame") /\ stage' = [stage EXCEPT !.frame = sp[SVC] - FrameWords] /\ UNCHANGED mem
     \/ Execute("store") /\ mem' = [mem EXCEPT ![Stmt.x] = Stmt.y] /\ UNCHANGED stage
  /\ Require(TRUE)
  /\ UNCHANGED <<cpuVars, mmu, systick>>

\* What the programs look at, and instructions without an effect of their own.
Check ==
  /\ \/ Execute("expect") /\ Require(stage[Stmt.x] = Stmt.y)
     \/ Execute("memory") /\ Require(mem[Stmt.x] = Stmt.y)
     \/ Execute("bits") /\ Require(mmu.table[Stmt.x].flags \cap {"A", "D"} = Stmt.y)
     \/ Execute("soft") /\ Require(mmu.table[Stmt.x].soft = Stmt.y)
     \/ Execute("irq_taken") /\ stage.irq # 0 /\ Require(TRUE)
     \/ (Execute("literal") \/ Execute("branch") \/ Execute("cp15_false")) /\ Require(TRUE)
  /\ mmu' = Fetched
  /\ UNCHANGED <<cpuVars, mem, stage, systick>>

\* minemu_trigger_undefined, the mrc of user code, and svc #0.
Trap ==
  /\ \E k \in {"undefined", "svc"} : Execute(k) /\ Raise(k, 0, 0)
  /\ mmu' = Fetched
  /\ UNCHANGED <<program, outcome, mem, stage, systick>>

\* minemu_run_user_probe enters user mode with I clear; cpsie and cpsid.
ChangeMode ==
  /\ \/ Execute("enter_user") /\ cpsr' = USR
     \/ Execute("mask") /\ cpsr' = ModeOf(cpsr) + (IF Stmt.x THEN I_BIT ELSE 0)
  /\ Require(TRUE)
  /\ UNCHANGED <<r, user, banks, stack, dfsr, dfar, taken, entering, stopped, mmu, mem, stage, systick>>

\* The timer with PERIODIC set, and without IRQ_ENABLE.
start_periodic == Started([systick EXCEPT !.period = 64], TRUE, TRUE)
start_silent   == Started([systick EXCEPT !.period = 64], FALSE, FALSE)

\* Lines 179-182; the only source that is enabled.
start_systick == Started([systick EXCEPT !.period = 64], FALSE, TRUE)

Systick ==
  /\ Execute("systick")
  /\ systick' = start_systick
  /\ Require(TRUE)
  /\ UNCHANGED <<cpuVars, mmu, mem, stage>>

Expire ==
  /\ systick.on /\ ~systick.pending
  /\ systick' = After(systick, systick.left)
  /\ UNCHANGED <<vars, program, outcome, mmu, mem, stage>>

TakeIrq ==
  /\ InMain /\ SystickLevel(systick) # {}
  /\ Raise("irq", 0, 0)
  /\ UNCHANGED <<program, outcome, mmu, mem, stage, systick>>

-----------------------------------------------------------------------------
(* The trampolines and the dispatches                                      *)

Trampoline ==
  /\ Save /\ pc' = DISPATCH
  /\ UNCHANGED <<program, outcome, mmu, mem, stage, systick>>

Return ==
  /\ pc = DISPATCH + 4 /\ outcome = "running"
  /\ Restore
  /\ UNCHANGED <<program, outcome, mmu, mem, stage, systick>>

Dispatching(k) == outcome = "running" /\ ~entering /\ stopped # <<>> /\ pc = DISPATCH /\ Kind = k

\* A dispatch that returns, if ok.
Done(ok) ==
  /\ outcome' = IF ok THEN "running" ELSE "failed"
  /\ pc' = DISPATCH + 4
  /\ UNCHANGED <<cpsr, r, user, banks, dfsr, dfar, taken, entering, program, mem>>

\* The fields as trap.h names them.
return_lr == Word(52)
fault_pc  == Word(64)
status    == Word(68)
address   == Word(72)
reserved  == Word(84)

require_exact_stack == sp[Mode] = StackWords - FrameWords

\* The end of an abort dispatch: the tables repaired, TLBIALL, the stage over.
Repair(ok, m) ==
  /\ Done(ok)
  /\ mmu' = minemu_mmu_tlbiall(m)
  /\ stage' = [stage EXCEPT !.abort = 0]

Granted(flag) == [mmu EXCEPT !.table["table_a"].flags = @ \cup {flag}]

mmu_abort_dispatch ==
  LET ok == /\ Kind = "data_abort" /\ address = TEST_VADDR
            /\ mmu.table["table_a"].flags \cap {"A", "D"} = {}
  IN  /\ Dispatching("data_abort") \/ Dispatching("prefetch_abort")
      /\ \/ stage.abort = 1 /\ Repair(ok /\ status = READ_PROTECTION, Granted("R")) /\ MoveReturn(0)
         \/ stage.abort = 2 /\ Repair(ok /\ status = IS_WRITE + WRITE_PROTECTION, Granted("W")) /\ MoveReturn(0)
         \/ stage.abort = 3 /\ Repair(ok /\ status = IS_WRITE + WRITE_PROTECTION, mmu) /\ MoveReturn(4)
         \/ stage.abort \notin 1 .. 3 /\ Repair(FALSE, mmu) /\ MoveReturn(0)
      /\ UNCHANGED systick

\* An access of user code to a device is stepped over, not repaired.
DeviceAbort(ok) ==
  \/ /\ stage.device = 1 /\ address = RNG
     /\ Done(ok /\ status = FROM_USER + READ_PROTECTION)
     /\ stage' = [stage EXCEPT !.device = 2]
  \/ /\ stage.device = 2 /\ address = TRACE
     /\ Done(ok /\ status = FROM_USER + IS_WRITE + WRITE_PROTECTION)
     /\ stage' = [stage EXCEPT !.device = 3]

IsDeviceAbort ==
  /\ Kind = "data_abort"
  /\ <<stage.device, address>> \in {<<1, RNG>>, <<2, TRACE>>}

\* direct_pte(page) |= flag
DirectGranted(p, flag) == [mmu EXCEPT !.pte[p].flags = @ \cup {flag}]

\* What each stage expects, and the tables it leaves.
exceptions_abort_repair(ok) ==
  \/ /\ stage.abort = 1
     /\ Repair(ok /\ Kind = "data_abort" /\ address = TEST_VADDR /\ status = TRANSLATION,
               [mmu EXCEPT !.table["table_a"] = Pte("data_page", {"R", "W"}, 0)])
  \/ /\ stage.abort = 2
     /\ Repair(ok /\ Kind = "prefetch_abort" /\ address = PREFETCH_PROBE
                  /\ status = IS_FETCH + EXECUTE_PROTECTION,
               DirectGranted(PREFETCH_PROBE, "X"))
  \/ /\ stage.abort = 3
     /\ Repair(ok /\ Kind = "prefetch_abort" /\ address = USER_PROBE
                  /\ status = FROM_USER + IS_FETCH + EXECUTE_PROTECTION,
               DirectGranted(USER_PROBE, "U"))
  \/ stage.abort \notin 1 .. 3 /\ Repair(FALSE, mmu)

exceptions_abort_dispatch ==
  LET ok == /\ require_exact_stack /\ reserved = 0
            /\ return_lr = fault_pc + (IF Kind = "data_abort" THEN 8 ELSE 4)
  IN  /\ Dispatching("data_abort") \/ Dispatching("prefetch_abort")
      /\ IF IsDeviceAbort THEN DeviceAbort(ok) /\ MoveReturn(4) /\ UNCHANGED mmu
         ELSE exceptions_abort_repair(ok) /\ MoveReturn(0)
      /\ UNCHANGED systick

minemu_svc_dispatch ==
  /\ Dispatching("svc")
  /\ Done(/\ sp[SVC] = stage.frame
          /\ Word(60) = -3 /\ return_lr = fault_pc + 4 /\ reserved = 0
          /\ ModeOf(Word(56)) = IF stage.svc = 0 THEN SVC ELSE USR)
  /\ stage' = [stage EXCEPT !.svc = @ + 1]
  /\ MoveMode(IF ModeOf(Word(56)) = USR THEN SVC - USR ELSE 0)
  /\ UNCHANGED <<mmu, systick>>

minemu_undefined_dispatch ==
  /\ Dispatching("undefined")
  /\ Done(/\ require_exact_stack /\ Word(60) = -4 /\ return_lr = fault_pc + 4 /\ reserved = 0
          /\ stage.undefined \in {1, 2}
          /\ ModeOf(Word(56)) = IF stage.undefined = 1 THEN SVC ELSE USR)
  /\ stage' = [stage EXCEPT !.undefined = 0]
  /\ UNCHANGED <<stack, stopped, mmu, systick>>

\* SYSTICK is acknowledged and ended before the return.
minemu_irq_dispatch ==
  /\ Dispatching("irq")
  /\ Done(/\ require_exact_stack /\ cpsr >= I_BIT /\ Word(60) = SYSTICK
          /\ return_lr = fault_pc + 4 /\ reserved = 0 /\ systick.pending)
  /\ systick' = Acked(systick)
  /\ stage' = [stage EXCEPT !.irq = @ + 1]
  /\ UNCHANGED <<stack, stopped, mmu>>

Dispatch ==
  \/ program = "mmu" /\ mmu_abort_dispatch
  \/ program = "exceptions" /\ exceptions_abort_dispatch
  \/ minemu_svc_dispatch \/ minemu_undefined_dispatch \/ minemu_irq_dispatch

Cpu ==
  \/ Prefetch \/ DataAbort \/ Access \/ EditTables \/ Store \/ Check \/ Trap \/ ChangeMode \/ Systick
  \/ TakeIrq \/ Trampoline \/ Dispatch \/ Return

\* fail_stop, or one more turn of the loop of line 184.
Spin ==
  /\ InMain => Stmt.op = "irq_taken"
  /\ outcome = "running" => InMain
  /\ UNCHANGED caseVars

CaseNext == Cpu \/ Expire \/ Spin

\* The CPU executes and the timer expires.
CaseSpec == CaseInit /\ [][CaseNext]_caseVars /\ WF_caseVars(Cpu) /\ WF_caseVars(Expire)

-----------------------------------------------------------------------------
(* Properties                                                              *)

\* No MINEMU_REQUIRE of the programs or of their dispatches fails: every abort
\* has the cause and the address the program provoked, is raised once, and the
\* access it stopped is made afterwards or stepped over, whether or not the
\* TLB remembers an entry that refused an access.
FaultsPass == outcome # "failed"

\* No abort is retried for ever and the loop of headless/exceptions/main.c line
\* 184 ends: the programs reach their end.
FaultsEnd == <>(outcome # "running")

\* An access is made through the entry that the tables hold, except for the one
\* at headless/ttbr-switch/main.c line 38: whoever edits a table, a dispatch
\* included, invalidates the TLB before the page is used again.
FreshTranslation ==
  InMain =>
    \A p \in {Stmt.page} \cup (IF Stmt.op \in {"read", "write"} THEN {Stmt.x} ELSE {}) :
      p # KERNEL => Seen(mmu, p) = Walk(mmu, p)
=============================================================================
