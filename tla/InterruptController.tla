------------------------ MODULE InterruptController -------------------------
(***************************************************************************)
(* The interrupt controller and SYSTICK.  Both are part of the emulator:   *)
(* this is what headless/interrupts and headless/exceptions require of     *)
(* them, through the registers of kernel/include/minemu/platform.h.        *)
(***************************************************************************)
EXTENDS Integers

SYSTICK  == 0
UART0    == 1
UART1    == 2
BLOCK    == 3
IRQ_NONE == -1

Sources == {SYSTICK, UART0, UART1, BLOCK}

ResetPriority == [s \in Sources |-> CASE s = SYSTICK -> 0 [] s = BLOCK -> 128 [] OTHER -> 64]

\* The source CLAIM names: of those that ask and are enabled the one with the
\* lowest priority value, and the lowest number where values are equal.
Highest(levels, enable, priority) ==
  LET ready == levels \cap enable
      before(s, t) == priority[s] < priority[t] \/ (priority[s] = priority[t] /\ s =< t)
  IN  IF ready = {} THEN IRQ_NONE
      ELSE CHOOSE s \in ready : \A t \in ready : before(s, t)

-----------------------------------------------------------------------------
\* SYSTICK: ticks left until PENDING is set; on is CONTROL.ENABLE.
SystickReset ==
  [period |-> 0, left |-> 0, on |-> FALSE, periodic |-> FALSE, irq |-> FALSE, pending |-> FALSE]

\* A store to CONTROL starts the count.
Started(s, periodic, irq) ==
  [s EXCEPT !.left = s.period, !.on = TRUE, !.periodic = periodic, !.irq = irq]

Acked(s) == [s EXCEPT !.pending = FALSE]

\* n ticks later; n is at most one period.
After(s, n) ==
  IF ~s.on THEN s
  ELSE IF n < s.left THEN [s EXCEPT !.left = @ - n]
  ELSE [s EXCEPT !.pending = TRUE, !.on = s.periodic,
                 !.left = IF s.periodic THEN s.period - (n - s.left) ELSE 0]

SystickLevel(s) == IF s.pending /\ s.irq THEN {SYSTICK} ELSE {}
=============================================================================
