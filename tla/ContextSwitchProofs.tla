------------------------ MODULE ContextSwitchProofs -------------------------
(***************************************************************************)
(* Proofs about the two context-switch examples, for every size of the     *)
(* stacks and everything the registers may hold.                           *)
(***************************************************************************)
EXTENDS ContextSwitch, TLAPS

FrameType == [regs : Contents \cup {-1}, task : Tasks \cup {"none"}, masked : BOOLEAN]

TypeOK ==
  /\ exception \in {"svc", "irq"}
  /\ at \in {"task", "dispatch", "leave"}
  /\ task \in Tasks
  /\ regs \in Contents
  /\ masked \in BOOLEAN
  /\ mem \in [Slots -> FrameType]
  /\ pending \in BOOLEAN
  /\ stopped \in [Tasks -> Contents]

\* The stack pointer of the exception mode while task t runs.
Top(t) == IF t = "A" THEN KernelTop ELSE TaskBTop

\* The frame of t lies below its Top and holds what t was stopped with.
Saved(t) == mem[Top(t) - 1].task = t /\ mem[Top(t) - 1].regs = stopped[t]

\* Where the frames are: before the first dispatch there is only task A.
Recorded ==
  IF task_b_frame = NULL
  THEN task = "A" /\ stopped["B"] = 0 /\ at # "leave"
  ELSE task_a_frame = KernelTop - 1

\* Whose frames are complete at each place: that of a task that does not run,
\* if it is A, and that of the task the handler was entered from.
Complete ==
  /\ task = "B" => Saved("A")
  /\ at = "task" => sp = Top(task)
  /\ at # "task" => regs = stopped[task]
  /\ at = "dispatch" => sp = Top(task) - 1 /\ Saved(task)
  /\ at = "leave" => /\ Saved("A")
                     /\ \E t \in Tasks : sp = Top(t) - 1 /\ Saved(t)
                     /\ task = "B" => sp = Top("A") - 1

IInv == TypeOK /\ Recorded /\ Complete

-----------------------------------------------------------------------------

\* The memory of task B and the stack of the kernel are apart, with room for
\* a frame and the locals below it.
LEMMA Layout ==
  /\ TaskBTop \in Nat /\ KernelTop \in Nat /\ TaskBTop >= 2 /\ KernelTop >= TaskBTop + 3
  /\ {TaskBTop - 1, TaskBTop - 2, KernelTop - 1, KernelTop - 2} \subseteq Slots
  /\ Top("A") = KernelTop /\ Top("B") = TaskBTop
<1>1. TaskBFrames \in Nat \ {0} /\ KernelFrames \in Nat \ {0, 1}
  BY SwitchAssumption DEF TaskBFrames
<1>2. TaskBTop \in Nat /\ KernelTop \in Nat /\ TaskBTop >= 2 /\ KernelTop >= TaskBTop + 3
  BY <1>1 DEF TaskBTop, KernelTop
<1> QED
  BY <1>2 DEF Slots, Top

\* Task A runs on the empty stack of the kernel.
LEMMA InitInv == Init => IInv
<1> SUFFICES ASSUME Init PROVE IInv
  OBVIOUS
<1>1. Scratch \in FrameType
  BY DEF Scratch, Frame, FrameType
<1>2. TypeOK
  BY <1>1, SwitchAssumption DEF Init, TypeOK, Tasks
<1>3. Recorded /\ Complete
  BY DEF Init, Recorded, Complete, Top, Tasks
<1> QED
  BY <1>2, <1>3 DEF IInv

\* The layout does not change.
LEMMA LayoutKept ==
  ASSUME exception' = exception
  PROVE  TaskBTop' = TaskBTop /\ KernelTop' = KernelTop /\ Slots' = Slots /\ \A t : Top(t)' = Top(t)
  BY DEF TaskBTop, KernelTop, TaskBFrames, Slots, Top

\* A task computes in its own registers.
LEMMA WorkInv == ASSUME IInv, NEW v \in Contents, Work(v) PROVE IInv'
  BY LayoutKept DEF IInv, TypeOK, Recorded, Complete, Saved, Work

\* A tick pends and changes nothing else.
LEMMA SystickFireInv == ASSUME IInv, SystickFire PROVE IInv'
  BY LayoutKept DEF IInv, TypeOK, Recorded, Complete, Saved, SystickFire

\* The handler stores the registers of the running task below its Top.
LEMMA TrapInv == ASSUME IInv, Trap PROVE IInv'
<1>1. TypeOK'
  BY Layout, LayoutKept DEF IInv, TypeOK, Complete, Trap, FrameType, Frame, Tasks, Top
<1>2. Recorded'
  BY LayoutKept DEF IInv, Recorded, Trap, TypeOK, Tasks
<1>3. Complete'
  BY Layout, LayoutKept DEF IInv, Complete, Saved, Trap, TypeOK, Tasks, Frame
<1> QED
  BY <1>1, <1>2, <1>3 DEF IInv

\* The first dispatch records the frame of task A and builds that of task B.
LEMMA DispatchFirstInv == ASSUME IInv, DispatchFirst PROVE IInv'
<1>1. task = "A" /\ sp = KernelTop - 1 /\ Saved("A") /\ stopped["B"] = 0
  BY Layout DEF IInv, Recorded, Complete, DispatchFirst
<1>2. TypeOK'
  BY <1>1, Layout, LayoutKept, SwitchAssumption
  DEF IInv, TypeOK, DispatchFirst, WithLocals, NewTaskB, Scratch, FrameType, Frame, Tasks
<1>3. Recorded'
  BY <1>1, Layout, LayoutKept DEF Recorded, DispatchFirst, NULL, IInv
<1>4. Complete'
  BY <1>1, Layout, LayoutKept
  DEF IInv, TypeOK, Complete, Saved, DispatchFirst, WithLocals, NewTaskB, Scratch, Frame, Tasks
<1> QED
  BY <1>2, <1>3, <1>4 DEF IInv

\* The locals of the dispatch leave the recorded frame of task A alone.
LEMMA TaskARead == ReadTaskA = task_a_frame
  BY DEF ReadTaskA, Overwritten, BelowStorage

\* A later dispatch goes back to the frame of task A.
LEMMA DispatchLaterInv == ASSUME IInv, DispatchLater PROVE IInv'
<1>1. sp = Top(task) - 1 /\ Saved(task) /\ Saved("A") /\ task_a_frame = KernelTop - 1
  BY DEF IInv, TypeOK, Tasks, Recorded, Complete, DispatchLater
<1>2. TypeOK'
  BY <1>1, TaskARead, Layout, LayoutKept
  DEF IInv, TypeOK, DispatchLater, WithLocals, Scratch, FrameType, Frame, Tasks
<1>3. Recorded'
  BY <1>1, TaskARead, Layout, LayoutKept DEF Recorded, DispatchLater, NULL, IInv, TypeOK, Tasks
<1>4. Complete'
  BY <1>1, TaskARead, Layout, LayoutKept
  DEF IInv, TypeOK, Complete, Saved, DispatchLater, WithLocals, Scratch, Frame, Tasks
<1> QED
  BY <1>2, <1>3, <1>4 DEF IInv

\* The frame that is left by is that of the task it names.
LEMMA LeaveFacts ==
  ASSUME IInv, Leave
  PROVE  /\ task' \in Tasks /\ sp = Top(task') - 1 /\ regs' = stopped[task']
         /\ masked' \in BOOLEAN /\ Saved("A") /\ task_b_frame # NULL
  BY Layout DEF IInv, TypeOK, FrameType, Recorded, Complete, Saved, Leave, Tasks

\* The handler takes the registers from the frame that the dispatch returned.
LEMMA LeaveInv == ASSUME IInv, Leave PROVE IInv'
<1>1. TypeOK'
  BY LeaveFacts, LayoutKept DEF IInv, TypeOK, Leave
<1>2. Recorded'
  BY LeaveFacts, LayoutKept DEF IInv, Recorded, Leave
<1>3. Complete'
  BY LeaveFacts, Layout, LayoutKept DEF IInv, Complete, Saved, Leave, Tasks
<1> QED
  BY <1>1, <1>2, <1>3 DEF IInv

\* Every step keeps IInv.
LEMMA NextInv == IInv /\ [Next]_vars => IInv'
<1> SUFFICES ASSUME IInv, [Next]_vars PROVE IInv'
  OBVIOUS
<1>1. CASE UNCHANGED vars
  BY <1>1, LayoutKept DEF IInv, TypeOK, Recorded, Complete, Saved, vars
<1> QED
  BY <1>1, WorkInv, SystickFireInv, TrapInv, DispatchFirstInv, DispatchLaterInv, LeaveInv DEF Next

\* The inductive invariant holds in every behaviour.
THEOREM Invariant == Spec => []IInv
  BY InitInv, NextInv, PTL DEF Spec

\* SpBalanced: a task always runs on the exception stack pointer that belongs to it.
THEOREM StackPointersKept == Spec => []SpBalanced
<1>1. IInv => SpBalanced
  BY DEF IInv, Complete, SpBalanced, Top
<1> QED
  BY Invariant, <1>1, PTL

\* PushesContained: the frames of both examples and the locals of the SVC
\* example stay in memory that was set aside for them, and where the locals of
\* the IRQ example do not, they spare both pointers to a frame.
THEOREM PushesStayContained == Spec => []PushesContained
<1>1. IInv => PushesContained
  BY SwitchAssumption
  DEF IInv, TypeOK, Tasks, Complete, PushesContained, Top, KernelStack, TaskBMemory, KernelTop, TaskBTop, TaskBFrames,
      Overwritten, BelowStorage
<1> QED
  BY Invariant, <1>1, PTL

\* ContextKept: a task that is resumed finds the registers it was stopped with.
THEOREM ContextsKept == Spec => ContextKept
<1>1. IInv /\ [Next]_vars => [at = "leave" => regs' = stopped[task']]_vars
  <2> SUFFICES ASSUME IInv, Next, at = "leave", ~UNCHANGED vars PROVE regs' = stopped[task']
    OBVIOUS
  <2>1. CASE Leave
    BY <2>1, LeaveFacts
  <2>2. CASE SystickFire
    BY <2>2 DEF SystickFire, IInv, Complete
  <2> QED
    BY <2>1, <2>2 DEF Next, Work, Trap, DispatchFirst, DispatchLater
<1> QED
  BY Invariant, <1>1, PTL DEF Spec, ContextKept

-----------------------------------------------------------------------------
(* The schedule                                                            *)

\* Task B has had its slice, and the handler leaves by the frame of task A.
Settled == task = "A" /\ task_b_frame # NULL /\ (at = "leave" => sp = Top("A") - 1)

\* Once task B has had its slice the handler never leaves by its frame again.
LEMMA SettledKept == IInv /\ Settled /\ [Next]_vars => Settled'
<1> SUFFICES ASSUME IInv, Settled, [Next]_vars PROVE Settled'
  OBVIOUS
<1>1. CASE DispatchLater
  BY <1>1, TaskARead, Layout, LayoutKept DEF IInv, Recorded, Settled, DispatchLater, NULL, Complete
<1>2. CASE Leave
  BY <1>2, LeaveFacts, Layout, LayoutKept DEF IInv, Settled, Leave, Tasks
<1>3. CASE UNCHANGED vars
  BY <1>3, LayoutKept DEF vars, Settled
<1>4. CASE SystickFire
  BY <1>4, LayoutKept DEF SystickFire, Settled
<1>5. CASE Trap \/ \E v \in Contents : Work(v)
  BY <1>5 DEF Trap, Work, Settled
<1>6. CASE DispatchFirst
  BY <1>6 DEF DispatchFirst, Settled
<1> QED
  BY <1>1, <1>2, <1>3, <1>4, <1>5, <1>6 DEF Next

\* BRunsOnce: once task A has been resumed, task B never runs again.
THEOREM TaskBRunsOnce == Spec => BRunsOnce
<1>1. task = "A" /\ task_b_frame # NULL /\ at = "task" => Settled
  BY DEF Settled
<1>2. Settled => task = "A"
  BY DEF Settled
<1> QED
  BY Invariant, SettledKept, <1>1, <1>2, PTL DEF Spec, BRunsOnce
=============================================================================
