----------------------------- MODULE TrapFrames -----------------------------
(***************************************************************************)
(* The exception entries of kernel/src/startup/vectors.S and the SVC and   *)
(* IRQ trampolines of headless/exceptions, word by word: each saves a      *)
(* struct minemu_trap_frame on the banked stack of its mode, calls its     *)
(* dispatch, and restores.  A dispatch is ordinary code: it may edit its   *)
(* frame and may itself be stopped by an exception of a mode that is not   *)
(* in use.                                                                 *)
(***************************************************************************)
EXTENDS Integers, Sequences, SequencesExt

CONSTANTS
  CodeAddrs,       \* addresses of the instructions that may be stopped
  Values,          \* what the code may put into the registers
  MaxTaken         \* bound: exceptions in one behaviour

\* The mode field of the status register, and its I bit.
USR == 16
IRQ == 18
SVC == 19
ABT == 23
UND == 27
I_BIT == 128

ExceptionModes == {IRQ, SVC, ABT, UND}
ModeOf(status) == status % I_BIT

Kinds == {"undefined", "svc", "prefetch_abort", "data_abort", "irq"}

\* sizeof(struct minemu_trap_frame) in words, and the stacks.
FrameWords == 22
StackWords == 2 * FrameWords

\* The address minemu_*_dispatch returns to, in its trampoline.
Link == 8000

\* r0-r12 of code that computes with v, every register different.
Fill(v) == [k \in 1 .. 13 |-> 100 * v + k]

ASSUME TrapAssumption ==
  /\ MaxTaken \in Nat
  /\ Values \subseteq Nat
  /\ \A a \in CodeAddrs : a \in Nat /\ a >= 8 /\ a % 4 = 0

VARIABLES
  cpsr, pc, r,     \* the CPU
  user,            \* sp and lr of the user bank
  sp, lr, spsr,    \* the banked registers of each exception mode; sp counts
                   \* words from the low end of the mode's stack
  stack,           \* stack[m]: the words of the stack of mode m
  dfsr, dfar,      \* CP15 fault status and fault address
  taken,           \* how many exceptions there were, to bound the model
  entering,        \* whether the CPU is at an exception vector
  stopped          \* what is stopped, innermost last: the kind of exception
                   \* and the code it stopped, as it must be resumed (history)

banks == <<sp, lr, spsr>>
vars  == <<cpsr, pc, r, user, banks, stack, dfsr, dfar, taken, entering, stopped>>

Init ==
  /\ cpsr \in {SVC + I_BIT, SVC, USR}
  /\ pc \in CodeAddrs
  /\ r = Fill(0)
  /\ user = <<0, 0>>
  /\ sp = [m \in ExceptionModes |-> StackWords]
  /\ lr = [m \in ExceptionModes |-> 0]
  /\ spsr = [m \in ExceptionModes |-> USR]
  /\ stack = [m \in ExceptionModes |-> [k \in 1 .. StackWords |-> 0]]
  /\ dfsr = 0 /\ dfar = 0
  /\ taken = 0
  /\ entering = FALSE
  /\ stopped = <<>>

\* What differs between the five entries: the mode, the id in the frame, what
\* is taken off lr for fault_pc, whether the fault registers are saved, and
\* what the return takes off lr.
EntryCode(mode, id, back, fault, ret) ==
  [mode |-> mode, id |-> id, back |-> back, fault |-> fault, ret |-> ret]

minemu_undefined_entry      == EntryCode(UND, -4, 4, FALSE, 0)
minemu_svc_trampoline       == EntryCode(SVC, -3, 4, FALSE, 0)
minemu_prefetch_abort_entry == EntryCode(ABT, -2, 4, TRUE, 4)

\* With the 4 of the prefetch abort.
data_abort_copied           == EntryCode(ABT, -1, 4, TRUE, 4)
minemu_data_abort_entry     == EntryCode(ABT, -1, 8, TRUE, 8)

\* The id is what CLAIM returns: SYSTICK.
minemu_irq_trampoline       == EntryCode(IRQ, 0, 4, FALSE, 4)

\* minemu_vectors
Entries ==
  [undefined |-> minemu_undefined_entry, svc |-> minemu_svc_trampoline,
   prefetch_abort |-> minemu_prefetch_abort_entry, data_abort |-> minemu_data_abort_entry,
   irq |-> minemu_irq_trampoline]

\* The entry that is being executed.
Kind  == Last(stopped).kind
Entry == Entries[Kind]
Mode  == Entry.mode

-----------------------------------------------------------------------------
(* The code that is stopped, and the CPU                                   *)

\* Ordinary code computes; privileged code may load the user bank.
Work(v, a) ==
  /\ ~entering
  /\ r' = Fill(v)
  /\ user' = <<1000 + v, 2000 + v>>
  /\ pc' = a
  /\ UNCHANGED <<cpsr, banks, stack, dfsr, dfar, taken, entering, stopped>>

\* What the architecture puts into lr: the stopped instruction plus this.
LinkOffset(k) == IF k = "data_abort" THEN 8 ELSE 4

\* Where the stopped code goes on: SVC and an undefined instruction are over,
\* an abort is tried again, an interrupt came before the instruction.
ResumeAt(k) == IF k \in {"svc", "undefined"} THEN pc + 4 ELSE pc

\* SVC is executed by the kernel's or the user's own code only, and nothing
\* is raised whose mode is in use: lr of that mode would be lost.
Raise(k, status, address) ==
  LET m == Entries[k].mode
  IN  /\ ~entering
      /\ taken < MaxTaken /\ taken' = taken + 1
      /\ k = "svc" => stopped = <<>>
      /\ k = "irq" => cpsr < I_BIT
      /\ k # "svc" => ModeOf(cpsr) # m /\ \A n \in DOMAIN stopped : Entries[stopped[n].kind].mode # m
      /\ lr' = [lr EXCEPT ![m] = pc + LinkOffset(k)]
      /\ spsr' = [spsr EXCEPT ![m] = cpsr]
      /\ cpsr' = m + I_BIT
      /\ IF Entries[k].fault
         THEN dfsr' = status /\ dfar' = address
         ELSE UNCHANGED <<dfsr, dfar>>
      /\ entering' = TRUE
      /\ stopped' = Append(stopped,
           [kind |-> k, at |-> pc, pc |-> ResumeAt(k), r |-> r, user |-> user, status |-> cpsr,
            lr |-> IF ModeOf(cpsr) \in ExceptionModes \ {m} THEN lr[ModeOf(cpsr)] ELSE 0,
            fault |-> IF Entries[k].fault THEN <<status, address>> ELSE <<0, 0>>])
      /\ UNCHANGED <<pc, r, user, sp, stack>>

-----------------------------------------------------------------------------
(* The trampolines                                                         *)

\* The words in the order of the offsets 0, 52, 56, ..., 84.
SavedWords ==
  r \o << lr[Mode], spsr[Mode], Entry.id, lr[Mode] - Entry.back,
          IF Entry.fault THEN dfsr ELSE 0, IF Entry.fault THEN dfar ELSE 0,
          user[1], user[2], 0 >>

PutFrame(words) ==
  stack' = [stack EXCEPT ![Mode] = [k \in DOMAIN @ |->
              IF k > sp[Mode] - FrameWords /\ k =< sp[Mode] THEN words[k - (sp[Mode] - FrameWords)] ELSE @[k]]]

\* mrs r1, spsr before the registers are stored.
SaveLate ==
  /\ entering
  /\ PutFrame([SavedWords EXCEPT ![2] = spsr[Mode]])
  /\ sp' = [sp EXCEPT ![Mode] = @ - FrameWords]
  /\ lr' = [lr EXCEPT ![Mode] = Link]
  /\ r' = [r EXCEPT ![1] = sp[Mode] - FrameWords, ![2] = 0]
  /\ pc' \in CodeAddrs
  /\ entering' = FALSE
  /\ UNCHANGED <<cpsr, user, spsr, dfsr, dfar, taken, stopped>>

\* From the vector to the call of the dispatch: r1 is scratch, r0 the frame.
Save ==
  /\ entering
  /\ PutFrame(SavedWords)
  /\ sp' = [sp EXCEPT ![Mode] = @ - FrameWords]
  /\ lr' = [lr EXCEPT ![Mode] = Link]
  /\ r' = [r EXCEPT ![1] = sp[Mode] - FrameWords, ![2] = 0]
  /\ pc' \in CodeAddrs
  /\ entering' = FALSE
  /\ UNCHANGED <<cpsr, user, spsr, dfsr, dfar, taken, stopped>>

\* The word of the current frame at a byte offset.
Word(offset) == stack[Mode][sp[Mode] + offset \div 4 + 1]

\* frame->return_lr += n.
MoveReturn(n) ==
  /\ stack' = [stack EXCEPT ![Mode][sp[Mode] + 14] = @ + n]
  /\ stopped' = [stopped EXCEPT ![Len(stopped)].pc = @ + n]

\* A dispatch steps over the stopped instruction.
SkipInstruction ==
  /\ ~entering /\ stopped # <<>>
  /\ Word(52) = Last(stopped).at + LinkOffset(Kind)  \* once for each stop
  /\ MoveReturn(4)
  /\ UNCHANGED <<cpsr, pc, r, user, banks, dfsr, dfar, taken, entering>>

\* frame->spsr with n added to its mode.
MoveMode(n) ==
  /\ stack' = [stack EXCEPT ![Mode][sp[Mode] + 15] = @ + n]
  /\ stopped' = [stopped EXCEPT ![Len(stopped)].status = @ + n]

\* svc_dispatch of headless/exceptions: user code goes on in SVC mode.
ReturnPrivileged ==
  /\ ~entering /\ stopped # <<>> /\ Kind = "svc"
  /\ ModeOf(Word(56)) = USR
  /\ MoveMode(SVC - USR)
  /\ UNCHANGED <<cpsr, pc, r, user, banks, dfsr, dfar, taken, entering>>

\* Without add sp, sp, #88.
RestoreSpKept ==
  /\ ~entering /\ stopped # <<>> /\ lr[Mode] = Link
  /\ lr' = [lr EXCEPT ![Mode] = Word(52)]
  /\ spsr' = [spsr EXCEPT ![Mode] = Word(56)]
  /\ user' = <<Word(76), Word(80)>>
  /\ r' = [k \in 1 .. 13 |-> Word(4 * (k - 1))]
  /\ pc' = Word(52) - Entry.ret
  /\ cpsr' = Word(56)
  /\ stopped' = Front(stopped)
  /\ UNCHANGED <<sp, stack, dfsr, dfar, taken, entering>>

\* The return of the dispatch to its trampoline, and the trampoline's rest.
Restore ==
  /\ ~entering /\ stopped # <<>> /\ lr[Mode] = Link
  /\ lr' = [lr EXCEPT ![Mode] = Word(52)]
  /\ spsr' = [spsr EXCEPT ![Mode] = Word(56)]
  /\ user' = <<Word(76), Word(80)>>
  /\ r' = [k \in 1 .. 13 |-> Word(4 * (k - 1))]
  /\ sp' = [sp EXCEPT ![Mode] = @ + FrameWords]
  /\ pc' = Word(52) - Entry.ret
  /\ cpsr' = Word(56)
  /\ stopped' = Front(stopped)
  /\ UNCHANGED <<stack, dfsr, dfar, taken, entering>>

Next ==
  \/ \E v \in Values, a \in CodeAddrs : Work(v, a)
  \/ \E k \in Kinds, v \in Values : Raise(k, 500 + v, 600 + v)
  \/ Save
  \/ SkipInstruction
  \/ ReturnPrivileged
  \/ Restore

Spec == Init /\ [][Next]_vars

-----------------------------------------------------------------------------
(* Properties                                                              *)

\* Code that an exception stopped goes on as it was stopped, or as the dispatch
\* told it to through its frame: same registers, user bank, status and place,
\* and the same lr of its own mode, however deep the dispatch was itself
\* stopped (vectors.S lines 43-50, 72-79, 101-108).
ResumedIntact ==
  [][Len(stopped') < Len(stopped) =>
       LET c == Last(stopped)
       IN  /\ pc' = c.pc /\ r' = c.r /\ user' = c.user /\ cpsr' = c.status
           /\ c.lr # 0 => lr'[ModeOf(c.status)] = c.lr]_vars

\* The fields of the innermost frame at the offsets of trap.h tell what
\* happened, also after an inner exception has come and gone.
FrameTells ==
  stopped # <<>> /\ ~entering =>
    LET c == Last(stopped)
    IN  /\ Word(56) = c.status /\ Word(60) = Entry.id /\ Word(64) = c.at
        /\ <<Word(68), Word(72)>> = c.fault /\ Word(84) = 0

\* The checks of headless/exceptions/main.c lines 33, 63, 75 and 89: a dispatch
\* finds its frame at the very top of the stack of its mode, and a mode that
\* is not in use has an empty stack.
StacksExact ==
  ~entering =>
    \A m \in ExceptionModes :
      sp[m] = IF \E n \in DOMAIN stopped : Entries[stopped[n].kind].mode = m
              THEN StackWords - FrameWords ELSE StackWords
=============================================================================
