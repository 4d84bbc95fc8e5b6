--------------------------- MODULE InterruptCases ---------------------------
(***************************************************************************)
(* The programs headless/interrupts, headless/uart, headless/rng-trace and *)
(* examples/mmio-basics against the interrupt controller, SYSTICK, the     *)
(* UARTs and the random number device, with their input arriving at any    *)
(* time.  A program is the sequence of its statements; a step is one       *)
(* statement, one step of the IRQ handler or one event of a device.  A     *)
(* REQUIRE that does not hold ends in "failed".                            *)
(***************************************************************************)
EXTENDS InterruptController, Rng, Sequences

VARIABLES
  program,         \* which of the four programs runs
  at,              \* index of its next statement
  outcome,         \* "running", "failed" or "passed"
  masked,          \* CPSR.I
  handler,         \* the IRQ handler: "off", "claim", "dispatch" or "eoi"
  source,          \* frame->exception_id
  irq_order,       \* the sources dispatched; its length is irq_count
  inputs,          \* inputs[u]: what has not arrived at UART u yet
  rx,              \* the receive queues
  device_irq,      \* the interrupt enable bits in CONTROL of the UARTs and of
                   \* the block controller, which is given no command
  received, tx,    \* the characters received, and those sent
  systick,
  rng, trace,      \* the random number device, and the events traced
  enable, priority,
  latching,        \* whether the controller keeps a claim until its EOI: the
                   \* programs do not tell, so both kinds are checked
  in_service       \* the claim it keeps

uartVars == <<inputs, rx, device_irq, received, tx>>
intcVars == <<enable, priority, in_service>>
cpuVars  == <<masked, handler, source, irq_order>>
rngVars  == <<rng, trace>>
vars     == <<program, at, outcome, cpuVars, uartVars, systick, rngVars, intcVars, latching>>

Uarts == {UART0, UART1}
NONE  == "none"

-----------------------------------------------------------------------------
(* The programs                                                            *)

Do(op)        == [op |-> op]
Do1(op, x)    == [op |-> op, x |-> x]
Do2(op, x, y) == [op |-> op, x |-> x, y |-> y]

\* claim() checked, and finish().
Claim(s)  == Do1("claim", s)
finish(s) == <<Do1("ack", s), Do1("eoi", s)>>

wait_both == <<Do1("wait_uart", UART0), Do1("wait_uart", UART1)>>

first_phase ==
  <<Do1("enable", {SYSTICK, UART0, UART1}), Claim(SYSTICK), Claim(SYSTICK)>> \o finish(SYSTICK)
  \o <<Do2("priorities", 10, 5), Claim(UART1), Claim(UART1)>> \o finish(UART1)
  \o <<Claim(UART0)>> \o finish(UART0)

second_phase ==
  wait_both \o <<Do2("priorities", 7, 7), Claim(UART0)>> \o finish(UART0)
  \o <<Claim(UART1)>> \o finish(UART1) \o <<Claim(IRQ_NONE)>>

\* Interrupts stay masked.
third_phase_masked ==
  wait_both \o <<Do2("priorities", 9, 3), Do("irqs_taken"), Do1("order", <<UART1, UART0>>)>>

third_phase ==
  wait_both \o <<Do2("priorities", 9, 3), Do1("mask", FALSE), Do("irqs_taken"), Do1("mask", TRUE),
                 Do1("order", <<UART1, UART0>>)>>

opening == <<Do1("mask", TRUE), Do("exact_128")>> \o wait_both \o <<Do1("device_irq", UART0), Do1("device_irq", UART1)>>
timing  == <<Do("exact_64"), Do1("ack", SYSTICK)>>

interrupts_main ==
  opening \o first_phase \o second_phase \o timing \o third_phase \o <<Do1("trace", 1)>>

receive(u) == Do1("receive", u)

uart_main ==
  <<Do1("tx_ready", UART0), Do1("tx_ready", UART1), receive(UART0), receive(UART1),
    Do2("was", UART0, "A"), Do2("was", UART1, "B"),
    Do1("rx_empty", UART0), Do1("rx_empty", UART1), Do1("send", UART0), Do1("send", UART1),
    Do1("trace", 1)>>

\* SEED and STATE; the zero that is stored in line 13 is not taken.
rng_holds(seed, state) == <<Do2("rng", "seed", seed), Do2("rng", "state", state)>>

rng_main ==
  LET s == Word32(4660, 22136)  \* 0x12345678
      a == Word32(14456, 19226)  \* 0x38784b1a
      b == Word32(5467, 9379)   \* 0x155b24a3
  IN  rng_holds(DEFAULT_SEED, DEFAULT_SEED)
      \o <<Do1("rng_data", Word32(31004, 31586)), Do1("rng_data", a)>> \o rng_holds(DEFAULT_SEED, a)
      \o <<Do1("rng_seed", {})>> \o rng_holds(DEFAULT_SEED, DEFAULT_SEED)
      \o <<Do1("rng_seed", s)>> \o rng_holds(s, s)
      \o <<Do1("rng_data", Word32(34712, 23205)), Do1("rng_data", b)>> \o rng_holds(s, b)
      \o <<Do1("trace", 1), Do1("trace", 2), Do1("trace", 3)>>

\* The message, its characters by their positions; the value read from DATA
\* goes to TRACE.
mmio_message == [n \in 1 .. 24 |-> n]

mmio_main ==
  [n \in DOMAIN mmio_message |-> Do2("put", UART0, mmio_message[n])]
  \o <<Do1("rng_seed", Word32(4660, 22136)), Do("trace_data"), Do1("systick", 100), Do1("device_irq", BLOCK)>>

Program ==
  CASE program = "interrupts" -> interrupts_main [] program = "uart" -> uart_main
    [] program = "rng" -> rng_main [] OTHER -> mmio_main

\* What the test manifests feed to UART u.
Inputs(p, u) ==
  IF p = "interrupts" THEN (IF u = UART0 THEN <<"A", "C", "E">> ELSE <<"B", "D", "F">>)
  ELSE IF p = "uart" THEN (IF u = UART0 THEN <<"A">> ELSE <<"B">>) ELSE <<>>

Init ==
  /\ program \in {"interrupts", "uart", "rng", "mmio"}
  /\ at = 1
  /\ outcome = "running"
  /\ masked = TRUE /\ handler = "off" /\ source = IRQ_NONE /\ irq_order = <<>>
  /\ inputs = [u \in Uarts |-> Inputs(program, u)]
  /\ rx = [u \in Uarts |-> <<>>] /\ device_irq = [d \in Uarts \cup {BLOCK} |-> FALSE]
  /\ received = [u \in Uarts |-> NONE] /\ tx = [u \in Uarts |-> <<>>]
  /\ systick = SystickReset
  /\ rng = Seeded(DEFAULT_SEED) /\ trace = <<>>
  /\ enable = {} /\ priority = ResetPriority /\ in_service = IRQ_NONE
  /\ latching \in BOOLEAN

-----------------------------------------------------------------------------
(* The devices                                                             *)

Levels == SystickLevel(systick) \cup {u \in Uarts : device_irq[u] /\ rx[u] # <<>>}

\* What a read of CLAIM returns.
Claimed ==
  IF latching /\ in_service # IRQ_NONE THEN in_service ELSE Highest(Levels, enable, priority)

\* A read of rx_data takes the oldest character.
Pop(u) == rx' = [rx EXCEPT ![u] = IF @ = <<>> THEN @ ELSE Tail(@)]

\* The statement at which the program is over with the n-th pair of inputs.
Over(n) ==
  Len(opening) + (IF n >= 1 THEN Len(first_phase) ELSE 0) + (IF n >= 2 THEN Len(second_phase) ELSE 0)

\* The manifest spaces the pairs 200000 ticks and more apart: the program is
\* over with one pair when the next arrives.
Arrive(u) ==
  /\ inputs[u] # <<>>
  /\ LET n == Len(Inputs(program, u)) - Len(inputs[u]) IN n > 0 => at > Over(n)
  /\ rx' = [rx EXCEPT ![u] = Append(@, Head(inputs[u]))]
  /\ inputs' = [inputs EXCEPT ![u] = Tail(@)]
  /\ UNCHANGED <<program, at, outcome, cpuVars, device_irq, received, tx, systick, rngVars, intcVars, latching>>

\* Outside the two timed routines SYSTICK expires at any time.
Expire ==
  /\ systick.on /\ ~systick.pending
  /\ systick' = After(systick, systick.left)
  /\ UNCHANGED <<program, at, outcome, cpuVars, uartVars, rngVars, intcVars, latching>>

-----------------------------------------------------------------------------
(* The statements                                                          *)

Stmt == Program[at]

Execute(op) == outcome = "running" /\ handler = "off" /\ Stmt.op = op

\* MINEMU_REQUIRE(ok), and on to the next statement; the end is fail_stop.
Require(ok) ==
  /\ outcome' = IF ~ok THEN "failed" ELSE IF at = Len(Program) THEN "passed" ELSE "running"
  /\ at' = at + 1
  /\ UNCHANGED <<program, latching>>

SetMask ==
  /\ Execute("mask")
  /\ masked' = Stmt.x
  /\ Require(TRUE)
  /\ UNCHANGED <<handler, source, irq_order, uartVars, systick, intcVars>>

\* One tick late.
samples_late(s) == <<After(s, s.period), After(After(s, s.period), 1)>>

\* A store to CONTROL, and STATUS read period - 1 and period ticks later.
samples(s) == <<After(s, s.period - 1), After(After(s, s.period - 1), 1)>>

exact_128 ==
  /\ Execute("exact_128")
  /\ LET s == samples(Started([systick EXCEPT !.period = 128], FALSE, TRUE))
     IN  systick' = s[2] /\ Require(~s[1].pending /\ s[2].pending)
  /\ UNCHANGED <<cpuVars, uartVars, intcVars>>

\* The same with an acknowledgement two ticks after the first period, and the
\* two samples around the end of the second.
exact_64 ==
  /\ Execute("exact_64")
  /\ LET s == samples(Started([systick EXCEPT !.period = 64], TRUE, FALSE))
         t == After(Acked(After(s[2], 2)), 61)
     IN  /\ systick' = After(t, 1)
         /\ Require(~s[1].pending /\ s[2].pending /\ ~t.pending /\ systick'.pending)
  /\ UNCHANGED <<cpuVars, uartVars, intcVars>>

\* The stores that set the devices up.
Configure ==
  /\ Execute("device_irq") \/ Execute("enable") \/ Execute("priorities")
  /\ device_irq' = IF Stmt.op = "device_irq" THEN [device_irq EXCEPT ![Stmt.x] = TRUE] ELSE device_irq
  /\ enable' = IF Stmt.op = "enable" THEN Stmt.x ELSE enable
  /\ priority' = IF Stmt.op = "priorities"
                 THEN [priority EXCEPT ![UART0] = Stmt.x, ![UART1] = Stmt.y] ELSE priority
  /\ Require(TRUE)
  /\ UNCHANGED <<cpuVars, inputs, rx, received, tx, systick, in_service>>

claim ==
  /\ Execute("claim")
  /\ in_service' = Claimed
  /\ Require(Claimed = Stmt.x)
  /\ UNCHANGED <<cpuVars, uartVars, systick, enable, priority>>

\* finish: first the device, by an ACK or by a read of rx_data.
AckDevice ==
  /\ Execute("ack")
  /\ IF Stmt.x = SYSTICK
     THEN systick' = Acked(systick) /\ UNCHANGED rx
     ELSE Pop(Stmt.x) /\ UNCHANGED systick
  /\ Require(TRUE)
  /\ UNCHANGED <<cpuVars, inputs, device_irq, received, tx, intcVars>>

\* finish: then the controller.
WriteEoi ==
  /\ Execute("eoi")
  /\ in_service' = IRQ_NONE
  /\ Require(TRUE)
  /\ UNCHANGED <<cpuVars, uartVars, systick, enable, priority>>

\* The loop ends when RX_READY is set.
wait_uart == Execute("wait_uart") /\ rx[Stmt.x] # <<>> /\ Require(TRUE)

\* while (irq_count < 2U), and the look at irq_order.
AwaitIrqs  == Execute("irqs_taken") /\ Len(irq_order) >= 2 /\ Require(TRUE)
CheckOrder == Execute("order") /\ Require(irq_order = Stmt.x)

\* The transmitters are ready; a receiver is ready iff a character waits.
CheckUart ==
  \/ Execute("tx_ready") /\ Require(TRUE)
  \/ Execute("was") /\ Require(received[Stmt.x] = Stmt.y)
  \/ Execute("rx_empty") /\ Require(rx[Stmt.x] = <<>>)

\* Statements that only read.
Observe ==
  /\ wait_uart \/ AwaitIrqs \/ CheckOrder \/ CheckUart
  /\ UNCHANGED <<cpuVars, uartVars, systick, intcVars>>

Receive ==
  /\ Execute("receive")
  /\ rx[Stmt.x] # <<>>
  /\ received' = [received EXCEPT ![Stmt.x] = Head(rx[Stmt.x])]
  /\ Pop(Stmt.x)
  /\ Require(TRUE)
  /\ UNCHANGED <<cpuVars, inputs, device_irq, tx, systick, intcVars>>

Send ==
  /\ \/ Execute("send") /\ tx' = [tx EXCEPT ![Stmt.x] = Append(@, received[Stmt.x])]
     \/ Execute("put") /\ tx' = [tx EXCEPT ![Stmt.x] = Append(@, Stmt.y)]
  /\ Require(TRUE)
  /\ UNCHANGED <<cpuVars, inputs, rx, device_irq, received, systick, intcVars>>

-----------------------------------------------------------------------------
(* The IRQ handler                                                         *)

TakeIrq ==
  /\ handler = "off" /\ ~masked
  /\ Levels \cap enable # {}
  /\ masked' = TRUE /\ handler' = "claim"
  /\ UNCHANGED <<program, at, outcome, source, irq_order, uartVars, systick, intcVars, latching>>

\* The trampoline reads CLAIM into the frame.
TrampolineClaim ==
  /\ handler = "claim"
  /\ source' = Claimed /\ in_service' = Claimed
  /\ handler' = "dispatch"
  /\ UNCHANGED <<program, at, outcome, masked, irq_order, uartVars, systick, enable, priority, latching>>

\* The character is left in the queue of UART0.
DispatchKeeps(s) == IF s = UART0 THEN UNCHANGED rx ELSE Pop(s)
DispatchPop(s)  == Pop(s)

minemu_irq_dispatch ==
  /\ handler = "dispatch" /\ outcome = "running"
  /\ IF masked /\ Len(irq_order) < 2 /\ source \in Uarts
     THEN /\ irq_order' = Append(irq_order, source)
          /\ DispatchPop(source)
          /\ handler' = "eoi" /\ UNCHANGED outcome
     ELSE outcome' = "failed" /\ UNCHANGED <<irq_order, rx, handler>>
  /\ UNCHANGED <<program, at, masked, source, inputs, device_irq, received, tx, systick, intcVars, latching>>

\* EOI, and the return of the trampoline into code that runs unmasked.
DispatchEoi ==
  /\ handler = "eoi"
  /\ in_service' = IRQ_NONE
  /\ handler' = "off" /\ source' = IRQ_NONE /\ masked' = FALSE
  /\ UNCHANGED <<program, at, outcome, irq_order, uartVars, systick, enable, priority, latching>>

\* SYSTICK without an interrupt.
StartSystick ==
  /\ Execute("systick")
  /\ systick' = Started([systick EXCEPT !.period = Stmt.x], FALSE, FALSE)
  /\ Require(TRUE)
  /\ UNCHANGED <<cpuVars, uartVars, intcVars>>

\* Loads and stores of SEED, STATE and DATA, and minemu_trace_event.
RngStep ==
  /\ \/ Execute("rng") /\ Require(rng[Stmt.x] = Stmt.y) /\ UNCHANGED rngVars
     \/ Execute("rng_seed") /\ rng' = Seeded(Stmt.x) /\ Require(TRUE) /\ UNCHANGED trace
     \/ /\ Execute("rng_data")
        /\ rng' = [rng EXCEPT !.state = NextState(@)]
        /\ Require(rng'.state = Stmt.x) /\ UNCHANGED trace
     \/ Execute("trace") /\ trace' = Append(trace, Stmt.x) /\ Require(TRUE) /\ UNCHANGED rng
     \/ /\ Execute("trace_data")
        /\ rng' = [rng EXCEPT !.state = NextState(@)]
        /\ trace' = Append(trace, rng'.state) /\ Require(TRUE)
  /\ UNCHANGED <<cpuVars, uartVars, systick, intcVars>>

Handler == TakeIrq \/ TrampolineClaim \/ minemu_irq_dispatch \/ DispatchEoi

Statement ==
  \/ SetMask \/ exact_128 \/ exact_64 \/ Configure \/ claim \/ AckDevice \/ WriteEoi
  \/ Observe \/ Receive \/ Send \/ StartSystick

Cpu == RngStep \/ ((Statement \/ Handler) /\ UNCHANGED rngVars)

\* fail_stop, or one more turn of a loop that waits.
Spin ==
  /\ outcome = "running" => Stmt.op \in {"wait_uart", "irqs_taken", "receive"}
  /\ UNCHANGED vars

Next == Cpu \/ (\E u \in Uarts : Arrive(u)) \/ Expire \/ Spin

\* The CPU executes, and the input of the manifest arrives.
Fairness == WF_vars(Cpu) /\ \A u \in Uarts : WF_vars(Arrive(u))

Spec == Init /\ [][Next]_vars /\ Fairness

-----------------------------------------------------------------------------
(* Properties                                                              *)

\* No MINEMU_REQUIRE of the programs fails, whenever the characters arrive
\* within their phase and the interrupts are taken, with either kind of
\* controller (headless/interrupts/main.c lines 11-105).
DevicesPass == outcome # "failed"

\* No wait of the programs is for ever: every input reaches them, and the two
\* interrupts the last loop counts are taken.
DevicesEnd == <>(outcome # "running")

\* A program that has passed has served everything it was sent: no character
\* waits, no source asks, and what the UART program received it has sent; the
\* MMIO example has sent its message and traced the number that headless/
\* rng-trace requires of the same seed.
AllServed ==
  outcome = "passed" =>
    /\ \A u \in Uarts : inputs[u] = <<>> /\ rx[u] = <<>>
    /\ Levels \cap enable = {} /\ handler = "off"
    /\ program = "uart" => tx = [u \in Uarts |-> Inputs(program, u)]
    /\ program = "mmio" => tx[UART0] = mmio_message /\ trace = <<Word32(34712, 23205)>>
=============================================================================
