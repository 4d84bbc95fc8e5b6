---------------------------- MODULE MCBootstrap -----------------------------
(* Tables of eight entries, a direct map of two tables, an MMIO window     *)
(* that leaves half of its table empty.                                    *)
EXTENDS Bootstrap

MCKernelPage == [dir |-> RamDir, idx |-> 6]
MCInfoPage   == [dir |-> RamDir, idx |-> 7]

\* The stacks lie in the second table's part of RAM, beyond the identity map.
MCStackPage ==
  [svc |-> [dir |-> RamDir + 1, idx |-> 0], irq |-> [dir |-> RamDir + 1, idx |-> 1],
   abt |-> [dir |-> RamDir + 1, idx |-> 2], und |-> [dir |-> RamDir + 1, idx |-> 7]]

\* The worst a word can be: a valid entry that names a table.
MCGarbage == {[kind |-> "rwx", dir |-> RamDir, idx |-> IdentityPage]}
=============================================================================
