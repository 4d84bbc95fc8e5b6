# Verification of the minimum kernel starter

The repository is bare-metal ARM code for the `minemu` machine: a ROM boot loader, a starter kernel
(bootstrap, exception entries, a block driver, memory routines), examples (two context switches, MMIO, a
user-mode loader with a system call) and headless conformance programs. This directory holds TLA+ models
of that code, TLC configurations for small instances, and TLAPS proofs. Paths below are relative to
`src/`.

## The system and its parts

| Part | State | Operations | What makes it hard | What makes it correct |
|---|---|---|---|---|
| Boot loader, `bootloader/src/boot.c` | RAM, the boot-info record | copy, clear, publish, enter | RAM holds anything at reset; nothing is checked | kernel memory is what the image says; the record is what the kernel reads |
| Bootstrap, `kernel/src/startup/boot.S` | page tables, stacks, CP15 | fill loops, TTBR, TLBIALL, MMU on, VBAR, jump | dirty tables, changing the address space under the running code | the map is exact, the code stays mapped |
| Starter kernel, `kernel/src/core/main.c` | data and BSS | check, report | depends on both of the above | it reports success |
| Exception entries, `kernel/src/startup/vectors.S`, trampolines | banked registers and stacks, trap frames | save, dispatch, restore | nesting across modes, offsets, return addresses | stopped code goes on as it was |
| Block driver, `kernel/src/runtime/block.c` | device registers, CPSR.I | read, write | preemption, callers in the handler, the completion interrupt | calls are serialized and return their own error |
| Block controller (`minemu`), `headless/block*` | registers, media, the request in flight | stores, completion, ACK | a deadline in ticks; a command while one is in flight | every transfer and error is seen, no completion is lost |
| Context switches, `examples/{svc,irq}-context-switch` | frames, banked sp | trap, dispatch, leave | the stack pointer travels with the frame | contexts kept, stacks kept |
| User loader, `examples/user-mode-hello/kernel/main.c` | page pool, user table, ROM map | check, find, prepare, write, map | untrusted 32-bit fields, shared pages | accepts exactly what can be loaded |
| System call and user program, `examples/user-mode-hello` | user registers, user pages, UART output | enter, call, dispatch, return | the kernel reads memory at an address of the user | the kernel never faults there; the message is printed |
| Memory routines, `kernel/src/runtime/memory.c`, `user/lib/src/memory.c` | bytes | memcpy, memset, memmove, memcmp | overlap, zero length, signedness | equal to their definitions |
| Interrupt controller, SYSTICK, UARTs, `headless/{interrupts,uart}` | levels, enable, priorities, the claim; receive queues | claim, finish, wait, interrupt handler | input and interrupts at any time | claims in priority order, everything served, no wait for ever |
| RNG, trace, `headless/rng-trace`, `examples/mmio-basics` | seed, state, events | seed, read, trace | the zero seed | the values required |
| MMU, `headless/{mmu,ttbr-switch,exceptions}` | tables, TTBR0, TLB, A and D bits | edit, invalidate, fault, repair | stale translations, faults repaired and retried | each fault once and for its cause; only fresh translations used |

The boot loader calls the bootstrap with the address of the record in r0; the bootstrap enters
`minemu_kernel_main` with it. Exceptions enter through `vectors.S`; SVC and IRQ go to trampolines that a
kernel supplies (by default `fail_stop`). Tasks and the IRQ handler share one CPU, the block controller
and its interrupt line. The user loader reads system ROM and is entered from the same bootstrap; its
kernel is called back through the SVC trampoline. The headless programs take the place of the starter
kernel; their dispatches are called from `vectors.S` and talk to the program through variables.

## Modules

* `BlockMedia`: what a transfer does to media and RAM, and its errors (external, from the driver's and
  the headless cases' use). `BlockService`: the abstract promise of `block.h`: call, one atomic
  transfer, return. `BlockController`: the register interface of the device (external).
* `BlockTransfer`: the driver. `pc[c]` is the statement of `minemu_block_transfer` that context `c`
  executes next, `cpsr`, `req`, `err` are its locals and arguments. Each device access is an action of
  its own, `mrs` and `cpsid` too. The contexts are tasks and the IRQ handler; the handler is the one of
  `irq-context-switch` (claim, acknowledge, leave through a frame), free to call the driver itself and
  to return into any task. SYSTICK may fire at any moment and the controller may complete at any moment.
  `want` is a history variable: the mask a task chose.
* `BootLoader`: `boot_main`, one action per turn of a byte loop and per field of the record, and the
  check of `core/main.c`. Values are read and written as little-endian bytes.
* `Bootstrap`: `boot.S`, one action per store to a table or system register write. A page number is the
  pair of its directory and table index, so `add r1, r1, #4096` is an increment with carry.
* `TrapFrames`: the entries of `vectors.S` and the SVC/IRQ trampolines, frames as 22 words at the byte
  offsets of the assembly; the properties read them at the offsets of `trap.h`. `stopped` is the chain of
  stopped code. A dispatch may compute, edit its frame as the headless dispatches do, and be stopped.
* `ContextSwitch`: both examples; `exception` selects one. Frames are units: `TrapFrames` looks inside. While
  the IRQ dispatch runs on `task_b_storage`, which is one frame, its locals lie on other variables:
  `BelowStorage` names them. `examples/kernel.mk` gives the compiler no `-O` and `-fdata-sections`, so the
  static variables lie in the order of their definitions (`main.c` lines 7-10): below `task_b_storage` is
  `interrupt_count`, which nothing reads, and above it are the two pointers.
* `UserLoader`: the example's loader, one action per pass of the loop around `user_page_index`. Numbers
  are 32-bit values with the code's wrap-around. The names of modules and the bytes of records are
  abstracted to fields; `info.ok` stands for the equality checks of the boot-info record. Frame 0 of
  `user_image_pages` is `user_stack`.
* `UserSystem` extends it with user mode: `minemu_enter_user`, `minemu_svc_dispatch`, and as the loaded
  program either the one of `user/main.c`, which stops at its first access that the pages do not allow,
  or any program, which stores bytes wherever its pages allow, calls with any register contents, from any
  address it may execute, in either instruction set, or faults. The hello program stores too: it pushes
  r7 and lr.
* `MemoryRoutines`: one step per byte; `before` is memory at the call.
* `InterruptController` (interrupt controller, SYSTICK), `Rng`, `Mmu`: devices of the emulator, external,
  from what the programs require of them.
* `InterruptCases`, `BlockCases`, `FaultCases`: the headless programs and `mmio-basics`. A program is the
  sequence of its register accesses and checks, helper functions are sequences that it is made of, and an
  action executes one kind of statement. A `MINEMU_REQUIRE` that does not hold leads to `failed`, the end
  of the program to `passed`. In `FaultCases`, which extends `TrapFrames`, a statement is four bytes of
  code: an abort saves a real frame, and the retry or the skip comes from what the frame says on return.
  `minemu_run_user_probe` enters user mode with I clear, and its `svc` comes back to main in that state.

Operators named like the action they precede, with a comment that says what is wrong with them
(`RestoreEnabled`, `ZeroFromStart`, ...), are faulty variants. No specification uses them; each property
is known to fail when one of them takes the place of the definition after it.

## Runs

| Run | Module, configuration | Result |
|---|---|---|
| block_driver | MCBlockTransfer, MCBlockTransfer.cfg | two tasks and the handler, 313 824 states |
| block_returns | MCBlockTransfer, MCBlockReturns.cfg | one task and the handler, liveness, 22 416 states |
| boot_loader | MCBootLoader, MCBootLoader.cfg | 562 states |
| bootstrap | MCBootstrap, MCBootstrap.cfg | 557 states |
| trap_frames | TrapFrames, TrapFrames.cfg | 1 335 212 states |
| context_switch | ContextSwitch, ContextSwitch.cfg | both examples, 321 states |
| user_system | MCUserSystem, MCUserSystem.cfg | 282 708 states |
| memory_routines | MCMemoryRoutines, MCMemoryRoutines.cfg | 205 572 states |
| interrupt_cases | InterruptCases, InterruptCases.cfg | 332 states |
| block_cases | BlockCases, BlockCases.cfg | 12 475 states |
| fault_cases | FaultCases, FaultCases.cfg | 262 states |

* **block_driver** checks that calls never mix (`Serialized`), that every context finds its own mask
  (`MaskRespected`), that the handler never sees the completion (`CompletionNotStolen`), and that the
  driver implements `BlockService` (`ImplementsService`). `TransferAdvances` is about steps: once a call
  has masked interrupts nobody else makes one, and each one brings the call nearer to its return. Two tasks
  are the fewest that can preempt each other; the requests are a write, a read of the same sector and one
  that two errors apply to.
* **block_returns** checks `TransferReturns` under weak fairness of the CPU's next instruction in the
  driver and of the device's completion. The CPU always executes and the device completes after a fixed
  number of ticks; nothing is assumed of the scheduler, since the polling part is masked.
* **boot_loader**: one, two and three segments, in either order, with file bytes only, BSS only, and
  empty; RAM at reset all zero or all 0xa5. `Loaded`, `ReservedZero`, `NoLateWrite` are about memory,
  `KernelAccepts` about what the kernel reads, `BootEnds` about termination (fairness: nothing else runs).
* **bootstrap**: tables of eight entries, two direct tables (the carry between them happens), an MMIO
  window shorter than its table (so clearing matters), stacks outside the identity map, RAM full of valid
  table entries, a TLB that may be stale, any TTBR0 at reset.
* **trap_frames**: four exceptions in a behaviour (`MaxTaken`): the deepest chain is three (SVC or IRQ,
  undefined, abort) and the fourth follows a return. Started from user code and from kernel code with
  interrupts masked or not.
* **context_switch**: both examples, three register contents; the state space is closed, no bound on the
  number of switches. `SpBalanced`, `ContextKept` and `PushesContained` are about frames and stacks:
  the one dispatch whose locals are outside any stack, the IRQ dispatch that interrupts task B, overwrites
  no pointer that it or a later one reads. With the definitions in another order it does, and
  `PushesContained` fails. `BRunsOnce` is about the schedule. `AResumed` assumes that the periodic timer keeps firing and the CPU
  keeps running.
* **user_system**: pages of four bytes, 6-bit words, a pool of two frames and three user pages, so every
  limit and every wrap is within reach; one segment at all limits, pairs of segments apart, adjacent,
  sharing a page, or overlapping; damaged headers and module tables: about 10 000 modules. `AcceptsExactly`
  compares the loader with a definition of a loadable module, `ReadsMapped` is about what it
  reads. An accepted module is then run, an arbitrary one for two stores or calls (`MaxUserSteps`: each
  before or after the other; a call leaves nothing behind that the next could depend on but the flag of the
  first trace, and a store changes one byte; user code stores one value, `UserBytes`, that no image has).
  `ImageProtected`: user mode begins with exactly the memory that the segments describe, and while the user
  runs its stores reach no page that it may not write. `KernelReadSafe` holds because an executable segment that is not readable is refused. `LoadAdvances`
  gives the loader's loops a variant: a later part of the loader, a later segment, a later loop over the
  segment's range, or less left of that range. `HelloPrinted` assumes that the CPU executes.
* **memory_routines**: six bytes, every placement and length, memcpy only without overlap as C demands.
  `RoutineExact` compares the result, `SourceIntact` every pass of a copy loop.
* **interrupt_cases**: characters arrive at any moment of their phase (the manifest spaces the pairs far
  apart), SYSTICK expires at any moment outside the two routines that count ticks, and an interrupt is
  taken at any instruction that is not masked. The programs do not show whether the controller keeps a
  claim until its EOI; both kinds are checked. `DevicesPass`: no check fails. `AllServed`: at the end no
  character, no level and no handler is left over, and the outputs are those required. `DevicesEnd`
  assumes that the CPU executes and that the manifest's input arrives.
* **block_cases**: the source does not say how many instructions lie between two accesses of the C code. In
  a behaviour `pace` is the most that its build has, each access takes one to `pace` ticks, and
  `minemu_block_exact_32` takes 31 and 1. The run has every `pace` up to 33 (`MaxStatementTicks`), beyond
  which one access outlasts the deadline of 32 and nothing changes. The BUSY test (`main.c` lines 98-103)
  must give its second command, look at the error and acknowledge it before the first command completes;
  `missed` records that a completion came before the program waited for it. `BlockPass`: only then does a
  check fail; it happens only with a `pace` of eight or more; and such a run never ends in `passed`.
  `BlockEnd`: only then may the wait of line 103 hang, the acknowledgement having taken the completion.
  It assumes that the CPU executes and that the controller keeps its deadline. Unit 3 stands for the swap
  unit of the machine of `block-unattached`, whose medium is missing. The calls of the driver are single
  transfers, as `DriverImplementsService` proves.
* **fault_cases**: an entry that refused an access may or may not stay in the TLB. `FaultsPass`: no check
  of the programs or of their dispatches fails. `FreshTranslation`: whoever edits a table invalidates the
  TLB before the page is used; the read of `ttbr-switch/main.c` line 38, which tests a stale entry, is the
  exception. `FaultsEnd` assumes that the CPU executes and that the timer expires. Twelve exceptions
  (`MaxTaken`) are more than the programs raise.

Deadlock is checked in every run; the ends of a program (`fail_stop`, `kernel_main`, the idle loop of user
mode) and the loops that wait are explicit self-loops.

## Observations

No run contradicts what a document, comment or test of the repository says. Two things that a reader of
the examples may not expect are modelled as the code has them. In both context switches the third and
every later trap records task A's frame as task B's, so task B runs for one slice only (`BRunsOnce`). And
in the IRQ example sp_irq stays at the end of `task_b_storage` while task B runs, so the interrupt that
stops it saves its frame there and calls the dispatch with no stack below; the example works because of
what lies there (`BelowStorage`).

## Proofs

Every theorem is for all values of the constants that satisfy the named assumptions.

`BlockTransferProofs` (assumptions `BlockAssumption`, `ContextAssumption`: units, sizes and requests are
of their kinds, there is a task, the handler is not one). `IInv` adds to the checked properties what
makes them inductive: a context is in the masked part only while it runs and the CPU is masked
(`Critical`), a call has arguments (`Argued`), the saved status is the mask its owner chose (`Saved`), a
task that does not run was interrupted unmasked (`Preempted`), and an interrupt being claimed is SYSTICK
(`Claimable`). `Critical` excludes preemption inside the masked part, from which `Serialized` follows:
only the owner moves the device, besides its completion. `Quiet` outside the masked part means the block
interrupt cannot be pending while interrupts are enabled, which gives `CompletionNotStolen`. The
refinement maps the completion of the device to the atomic `Perform`, `Call` and `Restore` to call and
return; all other steps are invisible. `TransferEnds` is the part of `TransferReturns` that needs no
fairness, for any number of tasks: `Critical` leaves no step to anyone but the owner, the controller and
the timer, `Serialized` has the completion come at the poll and nowhere else, and every step of the first
two makes `Remaining` smaller.

`BootLoaderProofs` (assumption `LoaderAssumption`: sizes, and what the comment in `boot_main` says the
packer has validated: segments inside RAM, apart from each other and from the record). `IInv` says how far
the loops have come: earlier segments are loaded, the current one up to the index, what belongs to nobody
is untouched, the record is clear and then differs from zero only in fields. Its first conjunct, `TypeOK`
(RAM holds bytes), is proved here and not checked by a run. For `KernelAccepts`,
`Published` adds that the fields before the index are in the record, and the lemmas on `ByteOf` and
`read_u32` show that a value written as two or four little-endian bytes is read back as it was. It also
needs `KernelAssumption`: the published constants fit their fields, and the image is one the build packs
with the starter kernel (`KernelImage`: one module, the initialized word in the file bytes of a segment,
the BSS behind them).

`BootstrapProofs` (assumption `LayoutAssumption`: the table pages are distinct, the three windows do not
overlap and fit the directory, kernel, record and stacks lie in the direct map). `IInv` gives, at each
loop, the value of every register in terms of its counter (`Registers`), which words of which table have
been written (`Tables`: the direct tables are entered in the directory before they are filled, so the two
are tracked apart), and what has been switched on (`Switched`). `WalkExact` derives the whole map from the
finished tables; `MapIsExact`, `FetchesMapped` and `HandedOver` follow for every table size, number of
tables and window length.

`TrapFramesProofs` (assumption `TrapAssumption`: addresses of code are aligned and not below 8; the number
of exceptions, `MaxTaken`, is arbitrary). `IInv`: no mode is stopped twice and stopped code belongs to a
mode further out (`Nested`), the frame of every stopped context holds that context (`FramesKept`), a stack
holds either nothing or one frame (`StacksKept`), an lr that stopped code still needs is in its bank and
in no mode that was entered since (`LinksKept`), and at the vector the CPU still holds what is to be saved
(`AtVector`). `FramesKept` speaks of all frames in the chain, not only of the innermost one: a return
uncovers the next. A frame is touched only by its own mode, so nesting leaves it alone; this gives
`FramesTell`, and with `LinksKept` `CodeResumes`. The lemmas on the single steps (`RaiseInv`, `SaveInv`,
`MoveReturnInv`, `MoveModeInv`, `RestoredInv`) do not depend on `Next`: `FaultCasesProofs` uses them again.

`FaultCasesProofs` (assumption `TrapAssumption`) is about the three programs of `FaultCases` with their
dispatches. They make other steps than `TrapFrames` allows (statements that change the mode, dispatches
that edit tables), so `IInv` is shown again for `CaseSpec`, which gives `CaseFrames` and `CaseResumes`.
`CaseInv` adds where the program is: it is at a statement `n` of its text, or will go on there after the
one exception that is being handled (`MainAt`); at most one is, so nothing is stopped twice; an abort that
its dispatch has not answered yet was raised by a statement that accesses memory, or by one outside the
kernel's pages; and the TLB agrees with the tables (`Coherent`) unless `n` lies between an edit and its
TLBIALL (`Dirty`). That last set is read off the texts once (`TtbrText`, `MmuText`, `ExceptionsText`): no
statement in it reads or writes memory but the read of `ttbr-switch/main.c` line 38, and it is closed
under going on until a TLBIALL. What a walk stores and remembers, and what it remembers of a refused
access, keeps the TLB coherent (`TouchedKeeps`, `RefusedKeeps`). A dispatch that edits a table
(`RepairKeeps`) leaves an empty TLB whether it retries the access or steps over it, and after a step over
there is a statement left, because the last one of a text raises no abort. `AccessesFresh` follows.

`ContextSwitchProofs` (assumption `SwitchAssumption`: room for two frames on each stack). `IInv`: before
the first dispatch only task A exists, afterwards A's frame is always the topmost of the kernel stack
(`Recorded`), and at each place the frames that a later step restores are complete and belong to the task
they are restored into (`Complete`). `TaskARead` shows that no dispatch reads a pointer that its locals
have overwritten. `Settled`, a second invariant, holds from the first resumption of A
and gives `BRunsOnce`.

`UserSystemProofs`, the loader (assumption `UserAssumption`: sizes are positive, base and stack are on page boundaries
below 2^32, the records consist of 32-bit fields; nothing is assumed of their values, of the number of
modules or of segments). `IInv`: the checks passed so far hold (`ImageOK`, `ModuleOK`, `LoopOK`), the
cursor has not wrapped and lies in its segment (`CursorOK`), the pool holds exactly the pages that were
asked for, each once and with the flags of every segment on it (`PagesAsked`, `PagesHeld`), every byte of
every page is that of the last segment written there, or of the segment below the cursor (`BytesOK`), the
table maps the pool (`TableOK`), and a refusal had a reason (`Refused`). All but `BytesOK` is `Settled`. The last is the hard half of
`AcceptsExactly`: each early return has to contradict `Loadable`, for a full pool by counting: its pages
are distinct pages of the segments, so a further one is one too many (`FS_Subset`, `FS_Injection` of the
library's finite sets). The other half comes from the state at entry to user mode.
`LoaderEnds` uses the same invariant: `CursorOK` bounds the cursor by the end of user space, so a page that
is prepared leaves strictly less of it, and a chunk that is written is not empty, so it leaves strictly
less of the length; both are natural numbers below 2^32 and the other parts of the order are finite. An
infinite behaviour of the loader that keeps making steps is thereby excluded for every image.

`UserSystemProofs`, the system: a store of the user falsifies `BytesOK`, so the invariant of `SysSpec`,
`SysInv`, keeps `Settled` throughout, `BytesOK` and a clear stack as long as the kernel loads, and from
user mode on the bytes of the pages that are not writable (`ProtectedOK`); a call comes from where the user
may execute. `StoreKeeps` is the step that matters: the table gives every page a frame of its own
(`TableFacts`, from `TableOK` and `PagesAsked`), so a store through a writable page changes no other.
`ImageKept` follows; with the refusal of executable segments that are not readable, so does
`KernelReadsSafely`, for any module, any program and any number of stores and calls. The theorems about the
loader are stated for `SysSpec` too.

`MemoryRoutinesProofs` (assumption `MemoryAssumption`: bytes in range). `IInv`: memory is `Partial`, what
C defines at the offsets a loop has passed, from whichever end, and what it was elsewhere; memcmp has seen
no difference. `SourceFacts` shows that with the direction the code chooses no byte still to be read is
among those passed, which makes `Partial` inductive.

Only model-checked:

* All liveness, which the prover does not handle: `TransferReturns`, `BootEnds`, `AResumed`,
  `HelloPrinted`, `DevicesEnd`, `BlockEnd`, `FaultsEnd`. `TransferEnds` and `LoaderEnds` prove what of it
  is safety for the driver and the loader.
* `DevicesPass` and `AllServed`: `InterruptCases` has no constants, and its run visits every state of the
  four programs with every arrival, expiry and interrupt.
* `BlockPass`: beyond a `MaxStatementTicks` of 33 there is nothing new, and the texts need media of exactly
  two sectors.
* `FaultsPass`: the constants of `FaultCases` do not enter, as long as the exceptions the programs raise are
  not cut off by `MaxTaken`; the run visits every state.

## Not modelled

* `user/prog/minimum-user`, an empty loop; `bootloader/src/start.S`, which sets a stack and calls
  `boot_main`; the build, the manifests and the linker scripts, which have no run-time state.
* The checks of `exception_id` and of the mode in `minemu_svc_dispatch` of user-mode-hello (line 270): only
  an `svc` of the user leads there, because its kernel makes none.
* The bytes below `.bss` on which the locals of the IRQ dispatch of `irq-context-switch` also lie, once. The
  example has no `.data` and no `.rodata`, so they are the last ones of `.text`, where the linker puts what
  it takes from the runtime library: the bootstrap, the entries and hooks of the other exceptions and
  `memset`, none of which is executed after the first switch.
* The emulator's internals: its devices are modelled as far as the code relies on them, and are marked
  external.
* In `TrapFrames`, exceptions of a mode that is already in use: lr of the mode would be lost, and the
  dispatches of the repository raise none. `FaultCases` has the one the headless program makes on purpose,
  `svc` in SVC mode from code that keeps nothing in lr.
* Code that runs with translation on is assumed to touch mapped memory, except for the pages in `Mmu`.

## Plan

A composition of `BootLoader` and `Bootstrap` that hands over RAM and r0; today `KernelStarts` and
`HandedOver` meet at the record's address and contents, each on its own side.
