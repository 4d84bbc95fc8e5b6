--------------------------- MODULE ContextSwitch ----------------------------
(***************************************************************************)
(* The two context-switch examples: examples/svc-context-switch, where the *)
(* tasks trap by SVC, and examples/irq-context-switch, where SYSTICK       *)
(* interrupts them.  Their trampolines save the same frame on the stack of *)
(* the exception mode, call a dispatch that picks the frame to leave by,   *)
(* and restore it.                                                         *)
(*                                                                         *)
(* Memory is counted in trap frames (88 bytes).  The exception stack of    *)
(* the kernel ends at KernelTop; the memory the dispatch gives to task B   *)
(* ends at TaskBTop: a stack of TaskBFrames frames, or the one frame       *)
(* task_b_storage.                                                         *)
(***************************************************************************)
EXTENDS Integers

CONSTANTS
  KernelFrames,    \* frames the exception stack has room for
  StackFrames,     \* frames task_b_stack has room for
  Contents         \* what the registers r0-r12 may hold; 0 among them

ASSUME SwitchAssumption ==
  /\ {KernelFrames, StackFrames} \subseteq Nat \ {0, 1}
  /\ 0 \in Contents

VARIABLES
  exception,       \* "svc" or "irq": which of the two examples
  at,              \* "task", "dispatch" or "leave"
  task,            \* the task whose code the CPU executes or has interrupted
  regs,            \* r0-r12 of the CPU
  masked,          \* CPSR.I
  sp,              \* the banked stack pointer of the exception mode
  mem,             \* mem[s]: the frame in slot s
  task_a_frame, task_b_frame,
  pending,         \* SYSTICK is pending
  stopped          \* stopped[t]: registers of t when it was last stopped (history)

vars == <<exception, at, task, regs, masked, sp, mem, task_a_frame, task_b_frame, pending, stopped>>

\* task_b_stack, or the one frame of task_b_storage.
TaskBFrames == IF exception = "svc" THEN StackFrames ELSE 1

TaskBTop  == TaskBFrames + 1
KernelTop == TaskBTop + KernelFrames + 1

\* Slot TaskBTop - TaskBFrames - 1 is the memory just below what task B was
\* given, and the one below KernelTop - KernelFrames that below the stack.
Slots == 0 .. KernelTop - 1
KernelStack == KernelTop - KernelFrames .. KernelTop - 1
TaskBMemory == TaskBTop - TaskBFrames .. TaskBTop - 1

Tasks == {"A", "B"}
NULL  == -1

\* A frame: registers, the code it returns into, the I bit of its SPSR.
Frame(r, t, i) == [regs |-> r, task |-> t, masked |-> i]
Scratch == Frame(-1, "none", TRUE)

Init ==
  /\ exception \in {"svc", "irq"}
  /\ at = "task"
  /\ task = "A"
  /\ regs = 0
  /\ masked = (exception = "svc")
  /\ sp = KernelTop
  /\ mem = [s \in Slots |-> Scratch]
  /\ task_a_frame = NULL
  /\ task_b_frame = NULL
  /\ pending = FALSE
  /\ stopped = [t \in Tasks |-> 0]

\* The task computes.
Work(v) ==
  /\ at = "task"
  /\ regs' = v
  /\ UNCHANGED <<exception, at, task, masked, sp, mem, task_a_frame, task_b_frame, pending, stopped>>

SystickFire ==
  /\ exception = "irq"
  /\ ~pending
  /\ pending' = TRUE
  /\ UNCHANGED <<exception, at, task, regs, masked, sp, mem, task_a_frame, task_b_frame, stopped>>

\* The exception and the trampoline up to its call of the dispatch.
Trap ==
  /\ at = "task"
  /\ exception = "irq" => pending /\ ~masked
  /\ sp' = sp - 1
  /\ mem' = [mem EXCEPT ![sp - 1] = Frame(regs, task, masked)]
  /\ masked' = TRUE
  /\ stopped' = [stopped EXCEPT ![task] = regs]
  /\ at' = "dispatch"
  /\ UNCHANGED <<exception, task, regs, task_a_frame, task_b_frame, pending>>

\* The memory while the C code of the dispatch runs: its locals lie below sp.
WithLocals == [mem EXCEPT ![sp - 1] = Scratch]

\* The order of the definitions changed.
BelowStorageReordered == {"task_a_frame"}

\* The variables of irq-context-switch/main.c that lie below task_b_storage.
\* The build optimizes nothing and gives each variable a section of its own,
\* so they lie in the order of lines 7-10: interrupt_count, which nothing
\* reads, comes before task_b_storage, and the two pointers after it.
BelowStorage == {"interrupt_count"}

\* The variables that the locals overwrite: when the IRQ dispatch runs on
\* task_b_storage there is no stack below the frame.
Overwritten == IF exception = "irq" /\ sp = TaskBTop - 1 THEN BelowStorage ELSE {}

\* What the dispatch reads from task_a_frame: the pointer it recorded, or a
\* word of its own locals, where no frame is.
ReadTaskA == IF "task_a_frame" \in Overwritten THEN 0 ELSE task_a_frame

\* The handler's own status instead.
NewTaskBMasked == Frame(0, "B", masked)

\* The frame the dispatch makes for task B: registers zero, its entry point,
\* and the status of the task that was stopped.
NewTaskB == Frame(0, "B", mem[sp].masked)

\* minemu_svc_dispatch and minemu_irq_dispatch, first call.
DispatchFirst ==
  /\ at = "dispatch"
  /\ task_b_frame = NULL
  /\ pending' = FALSE
  /\ task_a_frame' = sp
  /\ task_b_frame' = TaskBTop - 1
  /\ mem' = [WithLocals EXCEPT ![TaskBTop - 1] = NewTaskB]
  /\ sp' = TaskBTop - 1
  /\ at' = "leave"
  /\ UNCHANGED <<exception, task, regs, masked, stopped>>

\* The frame is recorded as task A's, and the one recorded before is left by.
DispatchSwapped ==
  /\ at = "dispatch"
  /\ task_b_frame # NULL
  /\ pending' = FALSE
  /\ task_a_frame' = sp
  /\ mem' = WithLocals
  /\ sp' = ReadTaskA
  /\ at' = "leave"
  /\ UNCHANGED <<exception, task, regs, masked, task_b_frame, stopped>>

\* Every later call: the frame is recorded as task B's, and A's is left by.
DispatchLater ==
  /\ at = "dispatch"
  /\ task_b_frame # NULL
  /\ pending' = FALSE
  /\ task_b_frame' = sp
  /\ mem' = WithLocals
  /\ sp' = ReadTaskA
  /\ at' = "leave"
  /\ UNCHANGED <<exception, task, regs, masked, task_a_frame, stopped>>

\* Without add sp, sp, #88.
LeaveSpKept ==
  /\ at = "leave"
  /\ task' = mem[sp].task
  /\ regs' = mem[sp].regs
  /\ masked' = mem[sp].masked
  /\ at' = "task"
  /\ UNCHANGED <<exception, sp, mem, task_a_frame, task_b_frame, pending, stopped>>

\* The registers from below the frame.
LeaveOneWordOff ==
  /\ at = "leave"
  /\ task' = mem[sp].task
  /\ regs' = mem[sp - 1].regs
  /\ masked' = mem[sp].masked
  /\ sp' = sp + 1
  /\ at' = "task"
  /\ UNCHANGED <<exception, mem, task_a_frame, task_b_frame, pending, stopped>>

\* The rest of the trampoline: mov sp, r0; restore; add sp, sp, #88; return.
Leave ==
  /\ at = "leave"
  /\ task' = mem[sp].task
  /\ regs' = mem[sp].regs
  /\ masked' = mem[sp].masked
  /\ sp' = sp + 1
  /\ at' = "task"
  /\ UNCHANGED <<exception, mem, task_a_frame, task_b_frame, pending, stopped>>

Next ==
  \/ \E v \in Contents : Work(v)
  \/ SystickFire
  \/ Trap
  \/ DispatchFirst
  \/ DispatchLater
  \/ Leave

\* The periodic timer keeps firing, a task that loops on svc #0 traps, and
\* the handler, which nothing interrupts, runs to its end.
Fairness ==
  /\ WF_vars(SystickFire)
  /\ WF_vars(Trap)
  /\ WF_vars(DispatchFirst \/ DispatchLater \/ Leave)

Spec == Init /\ [][Next]_vars /\ Fairness

-----------------------------------------------------------------------------
(* Properties                                                              *)

\* A task that is resumed finds the registers it was stopped with; a task
\* that starts finds zeros (main.c, the frame that is returned).
ContextKept == [][at = "leave" => regs' = stopped[task']]_vars

\* The task that is resumed runs on the stack pointer it was stopped with:
\* switching neither leaks nor overlaps frames.
SpBalanced == at = "task" => sp = IF task = "A" THEN KernelTop ELSE TaskBTop

\* Task B gets one slice: once task A has been resumed it is resumed for ever,
\* because its own frame is then recorded as task B's (main.c, the last two
\* statements of the dispatch).
BRunsOnce == [](task = "A" /\ task_b_frame # NULL /\ at = "task" => [](task = "A"))

\* Task A is always resumed: task B inherits a status that lets the next
\* exception in.
AResumed == task = "B" ~> task = "A"

\* The trampolines of both examples push the frame into memory that was set
\* aside for it.  So do the dispatches their locals, but for the IRQ dispatch
\* that interrupts task B, which has only task_b_storage: its locals overwrite
\* what lies below, and neither pointer to a frame is there.
PushesContained ==
  at = "dispatch" =>
    /\ sp \in KernelStack \cup TaskBMemory
    /\ \/ sp - 1 \in KernelStack \cup TaskBMemory
       \/ exception = "irq" /\ task = "B" /\ Overwritten \cap {"task_a_frame", "task_b_frame"} = {}
=============================================================================
