----------------------------- MODULE UserSystem -----------------------------
(***************************************************************************)
(* The whole of examples/user-mode-hello: the loader, user mode, and the   *)
(* system call of its kernel.  The module that was loaded is either the    *)
(* program of user/main.c or any other: that one calls from wherever it    *)
(* may execute and stores wherever it may write.  The trampoline is that   *)
(* of TrapFrames; here it saves and restores what the dispatch uses.       *)
(***************************************************************************)
EXTENDS UserLoader

CONSTANTS
  UserBytes,       \* the bytes that user programs store
  MaxUserSteps     \* bound: system calls and stores of an arbitrary program

VARIABLES
  cpu,             \* "kernel" until user mode is entered; then "user", "svc"
                   \* in the dispatch, "return" after it, "stopped" in fail_stop
  user_program,    \* "hello" or "any"
  index,           \* the loop variable of user_main, or the number of the next
                   \* step of an arbitrary program
  r0, r7,          \* the registers of the call
  thumb,           \* the T bit of the status
  user_sp,
  fault_pc, instruction,   \* where the call was made, and the word there
  user_syscall_observed,
  tx               \* what UART0 was sent

userVars == <<cpu, user_program, index, r0, r7, thumb, user_sp, fault_pc, instruction,
              user_syscall_observed, tx>>
sysVars  == <<vars, userVars>>

UART_PUTCHAR   == 1
SYSCALL_ERROR  == -1
UINT8_MAX      == 255
SVC_ZERO       == "svc #0"
USER_STACK_TOP == USER_STACK_BOTTOM + PAGE_SIZE

\* "hello world\n"
message == <<104, 101, 108, 108, 111, 32, 119, 111, 114, 108, 100, 10>>

SysInit ==
  /\ Init
  /\ cpu = "kernel" /\ user_program = "any" /\ index = 1
  /\ r0 = 0 /\ r7 = 0 /\ thumb = FALSE /\ user_sp = 0
  /\ fault_pc = 0 /\ instruction = SVC_ZERO
  /\ user_syscall_observed = FALSE /\ tx = <<>>

\* kernel_main up to its call of minemu_enter_user.
Load == cpu = "kernel" /\ Next /\ UNCHANGED userVars

\* r0-r3 are cleared, the status is user mode, A32.
minemu_enter_user ==
  /\ cpu = "kernel" /\ pc = "user"
  /\ cpu' = "user"
  /\ user_program' \in {"hello", "any"}
  /\ fault_pc' = Module.entry
  /\ user_sp' = USER_STACK_TOP
  /\ r0' = 0
  /\ UNCHANGED <<vars, index, r7, thumb, instruction, user_syscall_observed, tx>>

\* What the user's translations allow on the page of address a.
May(flag, a) ==
  PageOf(a) \in DOMAIN user_page_table /\ flag \in user_page_table[PageOf(a)].flags

\* The frames after a store of b to the n bytes from a, all on one page.
Stored(a, n, b) ==
  [user_image_pages EXCEPT ![user_page_table[PageOf(a)].frame] =
     [o \in Offsets |-> IF o \in (a % PAGE_SIZE) .. (a % PAGE_SIZE) + n - 1 THEN b ELSE @[o]]]

\* One turn of the loop of user_main, up to svc #0: push {r7, lr} first.
minemu_hello_uart_putchar ==
  /\ cpu = "user" /\ user_program = "hello" /\ index =< Len(message)
  /\ IF May(EXECUTABLE, fault_pc) /\ May(WRITABLE, user_sp - 2 * InstructionSize)
     THEN /\ cpu' = "svc"
          /\ user_sp' = user_sp - 2 * InstructionSize
          /\ \E b \in UserBytes : user_image_pages' = Stored(user_sp', 2 * InstructionSize, b)
          /\ r0' = message[index] /\ r7' = UART_PUTCHAR
          /\ instruction' = SVC_ZERO
     ELSE cpu' = "stopped" /\ UNCHANGED <<user_sp, user_image_pages, r0, r7, instruction>>
  /\ UNCHANGED <<loaderVars, user_program, index, thumb, fault_pc, user_syscall_observed, tx>>

\* pop {r7, pc} and ++index.
HelloReturn ==
  /\ cpu = "return" /\ user_program = "hello"
  /\ May(READABLE, user_sp)
  /\ cpu' = "user"
  /\ user_sp' = user_sp + 2 * InstructionSize
  /\ index' = index + 1
  /\ UNCHANGED <<vars, user_program, r0, r7, thumb, fault_pc, instruction, user_syscall_observed, tx>>

\* Any other program: a store of a byte, anywhere it may write.
AnyStore ==
  /\ cpu = "user" /\ user_program = "any" /\ index =< MaxUserSteps
  /\ \E p \in DOMAIN user_page_table, o \in Offsets, b \in UserBytes :
       /\ WRITABLE \in user_page_table[p].flags
       /\ user_image_pages' = Stored(p + o, 1, b)
  /\ index' = index + 1
  /\ UNCHANGED <<loaderVars, cpu, user_program, r0, r7, thumb, user_sp, fault_pc, instruction,
                 user_syscall_observed, tx>>

\* And an svc of its choice, anywhere it may execute.
AnyCall ==
  /\ cpu = "user" /\ user_program = "any" /\ index =< MaxUserSteps
  /\ \E p \in DOMAIN user_page_table : \E o \in {x \in Offsets : x % InstructionSize = 0} :
       EXECUTABLE \in user_page_table[p].flags /\ fault_pc' = p + o
  /\ r0' \in {0, UINT8_MAX, UINT8_MAX + 1} /\ r7' \in {0, UART_PUTCHAR}
  /\ thumb' \in BOOLEAN
  /\ instruction' \in {SVC_ZERO, "svc #1"}
  /\ cpu' = "svc"
  /\ UNCHANGED <<vars, user_program, index, user_sp, user_syscall_observed, tx>>

AnyReturn ==
  /\ cpu = "return" /\ user_program = "any"
  /\ cpu' = "user"
  /\ index' = index + 1
  /\ UNCHANGED <<vars, user_program, r0, r7, thumb, user_sp, fault_pc, instruction,
                 user_syscall_observed, tx>>

\* Its undefined instructions and aborts end in fail_stop.
minemu_abort_dispatch ==
  /\ cpu = "user" /\ user_program = "any"
  /\ cpu' = "stopped"
  /\ UNCHANGED <<vars, user_program, index, r0, r7, thumb, user_sp, fault_pc, instruction,
                 user_syscall_observed, tx>>

-----------------------------------------------------------------------------
(* minemu_svc_dispatch                                                     *)

\* Only characters that can be seen.
CallAcceptedPrintable ==
  instruction = SVC_ZERO /\ r7 = UART_PUTCHAR /\ r0 >= 32 /\ r0 =< UINT8_MAX

CallAccepted == instruction = SVC_ZERO /\ r7 = UART_PUTCHAR /\ r0 =< UINT8_MAX

\* The kernel loads the instruction at fault_pc through the user's page; if it
\* may not, its own abort ends in fail_stop.  The frame is that of an svc from
\* user mode, as line 270 asks: the kernel itself makes no call.
minemu_svc_dispatch ==
  /\ cpu = "svc"
  /\ IF ~thumb /\ ~May(READABLE, fault_pc)
     THEN cpu' = "stopped" /\ UNCHANGED <<r0, user_syscall_observed, tx>>
     ELSE /\ cpu' = "return"
          /\ IF ~thumb /\ CallAccepted
             THEN r0' = 0 /\ tx' = Append(tx, r0) /\ user_syscall_observed' = TRUE
             ELSE r0' = SYSCALL_ERROR /\ UNCHANGED <<user_syscall_observed, tx>>
  /\ UNCHANGED <<vars, user_program, index, r7, thumb, user_sp, fault_pc, instruction>>

Machine ==
  \/ minemu_enter_user
  \/ minemu_hello_uart_putchar \/ HelloReturn
  \/ AnyStore \/ AnyCall \/ AnyReturn \/ minemu_abort_dispatch
  \/ minemu_svc_dispatch

\* for (;;) nop, and fail_stop.
Idle == cpu \in {"user", "stopped"} /\ UNCHANGED sysVars

SysNext == Load \/ Machine \/ Idle

\* The CPU executes.
SysSpec == SysInit /\ [][SysNext]_sysVars /\ WF_sysVars(Load) /\ WF_sysVars(Machine)

-----------------------------------------------------------------------------
(* Properties                                                              *)

\* When user mode is entered the user finds the image its module describes and
\* an empty stack.  From then on, whatever it stores, the map and the pages it
\* may not write stay as they are: no page shares its frame with a writable
\* one (kernel/main.c lines 146-163 and 251-259).
ImageProtected ==
  pc = "user" =>
    /\ Mapped
    /\ \A p \in DOMAIN user_page_table :
         cpu = "kernel" \/ WRITABLE \notin user_page_table[p].flags => HoldsImage(p)

\* The dispatch loads the instruction of the call from an address the user
\* chose, in kernel mode (main.c line 276).  It never faults there: whatever
\* module was loaded, what the user can execute the kernel can read, because
\* load_user_module refuses a segment that is executable and not readable.
KernelReadSafe == cpu = "svc" /\ ~thumb => May(READABLE, fault_pc)

\* The program of user/main.c prints its message, character by character and
\* nothing else, wherever its segments lie.
HelloPrinted == (cpu = "user" /\ user_program = "hello") ~> (cpu = "user" /\ tx = message)
=============================================================================
