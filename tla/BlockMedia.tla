----------------------------- MODULE BlockMedia -----------------------------
(***************************************************************************)
(* What one block transfer does to the media and to RAM, and which errors  *)
(* it can end with.  The storage itself belongs to the emulator; this is   *)
(* what kernel/src/runtime/block.c and the headless block cases rely on.   *)
(* Media and RAM are counted in 512-byte sectors; a DMA address is the     *)
(* index of a RAM sector, and one that does not name a whole run of RAM    *)
(* sectors stands for every address the controller refuses.                *)
(***************************************************************************)
EXTENDS Integers

CONSTANTS
  SupportedUnits,  \* unit numbers the controller decodes (0 and 1)
  AttachedUnits,   \* the supported units that have media
  MediaSectors,    \* sectors on each medium
  RamSectors,      \* sectors of RAM that DMA can reach
  Values,          \* sector contents
  Requests         \* the transfers the callers ask for

READ  == "READ"
WRITE == "WRITE"
NONE  == "NONE"

ErrorCodes ==
  {NONE, "NO_MEDIA", "BUSY", "INVALID_COMMAND", "INVALID_DMA", "INVALID_LBA",
   "DEFERRED_PERSISTENCE", "INVALID_UNIT"}

Registers == {"unit", "lba", "sector_count", "dma_paddr"}

\* A request names the command and the four registers it is described by.
AllRequests ==
  [command : {READ, WRITE}, unit : Nat, lba : Nat, sector_count : Nat \ {0}, dma_paddr : Nat]

\* What a request variable holds while there is no request.
NoRequest == [command |-> NONE]

ASSUME BlockAssumption ==
  /\ SupportedUnits \subseteq Nat
  /\ AttachedUnits \subseteq SupportedUnits
  /\ MediaSectors \in Nat \ {0}
  /\ RamSectors \in Nat \ {0}
  /\ Requests \subseteq AllRequests

Media == [AttachedUnits -> [0 .. MediaSectors - 1 -> Values]]
Ram   == [0 .. RamSectors - 1 -> Values]

-----------------------------------------------------------------------------
\* The errors that apply to a request.  Where several apply the code says
\* nothing about which one is reported.
Faults(r) ==
  {e \in ErrorCodes :
     \/ e = "INVALID_COMMAND" /\ r.command \notin {READ, WRITE}
     \/ e = "INVALID_UNIT" /\ r.unit \notin SupportedUnits
     \/ e = "NO_MEDIA"     /\ r.unit \in SupportedUnits \ AttachedUnits
     \/ e = "INVALID_DMA"  /\ r.dma_paddr + r.sector_count > RamSectors
     \/ e = "INVALID_LBA"  /\ r.unit \in AttachedUnits
                           /\ r.lba + r.sector_count > MediaSectors}

\* RAM after a successful transfer r.
RamAfter(r, md, mem) ==
  IF r.command = READ
  THEN [s \in 0 .. RamSectors - 1 |->
          IF s \in r.dma_paddr .. r.dma_paddr + r.sector_count - 1
          THEN md[r.unit][r.lba + (s - r.dma_paddr)]
          ELSE mem[s]]
  ELSE mem

\* The media after a successful transfer r.
MediaAfter(r, md, mem) ==
  IF r.command = WRITE
  THEN [md EXCEPT ![r.unit] =
          [s \in 0 .. MediaSectors - 1 |->
             IF s \in r.lba .. r.lba + r.sector_count - 1
             THEN mem[r.dma_paddr + (s - r.lba)]
             ELSE @[s]]]
  ELSE md

\* One whole transfer ending with error e: the data moves iff there is no error.
Transferred(r, e, md, mem, md2, mem2) ==
  \/ /\ Faults(r) = {} /\ e = NONE
     /\ md2 = MediaAfter(r, md, mem)
     /\ mem2 = RamAfter(r, md, mem)
  \/ /\ e \in Faults(r)
     /\ md2 = md
     /\ mem2 = mem
=============================================================================
