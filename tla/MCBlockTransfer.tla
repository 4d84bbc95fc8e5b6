-------------------------- MODULE MCBlockTransfer ---------------------------
(* Two tasks and the handler; one medium of one sector, two RAM sectors.   *)
EXTENDS BlockTransfer

Transfer(op, u, l, n, d) ==
  [command |-> op, unit |-> u, lba |-> l, sector_count |-> n, dma_paddr |-> d]

\* A write, a read of the same sector to another place, and a transfer that
\* two different errors apply to.
MCRequests ==
  {Transfer(WRITE, 0, 0, 1, 0), Transfer(READ, 0, 0, 1, 1), Transfer(WRITE, 1, 0, 1, 2)}
=============================================================================
