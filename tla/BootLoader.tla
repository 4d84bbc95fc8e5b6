----------------------------- MODULE BootLoader -----------------------------
(***************************************************************************)
(* The ROM loader, bootloader/src/boot.c: it copies the kernel segments of *)
(* the packed image into RAM, clears their BSS, publishes the boot-info    *)
(* record and enters the bootstrap.  A step is one iteration of a byte     *)
(* loop or one field of the record.  The last step is the check that       *)
(* kernel/src/core/main.c makes of what it finds.                          *)
(***************************************************************************)
EXTENDS Integers, Sequences

CONSTANTS
  RamLow, RamHigh,      \* physical RAM, first and last address
  InitialRam,           \* what RAM may hold at reset
  Images,               \* the packed images: system ROM, byte by byte
  BOOT_INFO_PADDR,      \* where the boot-info record lies
  BOOT_INFO_VADDR,      \* the same record in the direct map
  BOOT_INFO_MAGIC, ABI_VERSION, SYSTEM_ROM_BASE,
  DIRECT_MAP_VADDR, DIRECT_MAP_PADDR, DIRECT_MAP_SIZE,
  DataAddr, DataValue,  \* initialized_data of main.c: its address and value
  BssAddrs              \* the bytes of zeroed_bss of main.c

BOOT_INFO_SIZE      == 64
KERNEL_SEGMENT_SIZE == 32

Byte     == 0 .. 255
RamAddrs == RamLow .. RamHigh
InfoAddrs == BOOT_INFO_PADDR .. BOOT_INFO_PADDR + BOOT_INFO_SIZE - 1

-----------------------------------------------------------------------------
(* Reading the packed image                                                *)

\* The 32-bit little-endian value at an address of ROM or RAM.
read_u32(bytes, a) ==
  bytes[a] + 256 * bytes[a + 1] + 65536 * bytes[a + 2] + 16777216 * bytes[a + 3]

ImageSize(img)   == read_u32(img, 8)
KernelTable(img) == read_u32(img, 12)
KernelCount(img) == read_u32(img, 16)
ModuleTable(img) == read_u32(img, 20)
ModuleCount(img) == read_u32(img, 24)

Record(img, s)      == KernelTable(img) + s * KERNEL_SEGMENT_SIZE
Source(img, s)      == read_u32(img, Record(img, s))
Destination(img, s) == read_u32(img, Record(img, s) + 4)
FileSize(img, s)    == read_u32(img, Record(img, s) + 12)
MemorySize(img, s)  == read_u32(img, Record(img, s) + 16)

Segments(img) == 0 .. KernelCount(img) - 1

\* The bytes that segment s stands for in memory, and what they must be.
Extent(img, s) == Destination(img, s) .. Destination(img, s) + MemorySize(img, s) - 1

SegmentByte(img, s, a) ==
  IF a - Destination(img, s) < FileSize(img, s)
  THEN img[Source(img, s) + (a - Destination(img, s))]
  ELSE 0

\* What the packer has validated before the image is in ROM (boot.c lines
\* 95-99); the loader relies on it and checks nothing.
PackerValid(img) ==
  /\ {KernelCount(img), ImageSize(img), ModuleTable(img), ModuleCount(img)} \subseteq Nat
  /\ \A s \in Segments(img) :
       /\ Source(img, s) \in Nat /\ Destination(img, s) \in Nat
       /\ FileSize(img, s) \in Nat /\ MemorySize(img, s) \in Nat
       /\ FileSize(img, s) =< MemorySize(img, s)
       /\ \A k \in 0 .. FileSize(img, s) - 1 : img[Source(img, s) + k] \in Byte
       /\ Extent(img, s) \subseteq RamAddrs \ InfoAddrs
       /\ \A r \in Segments(img) : r # s => Extent(img, r) \cap Extent(img, s) = {}

ASSUME LoaderAssumption ==
  /\ {RamLow, RamHigh, BOOT_INFO_PADDR} \subseteq Nat
  /\ {BOOT_INFO_MAGIC, ABI_VERSION, SYSTEM_ROM_BASE} \subseteq Nat
  /\ {DIRECT_MAP_VADDR, DIRECT_MAP_PADDR, DIRECT_MAP_SIZE} \subseteq Nat
  /\ InfoAddrs \subseteq RamAddrs
  /\ InitialRam \subseteq [RamAddrs -> Byte]
  /\ \A img \in Images : PackerValid(img)

\* What the build packs with the starter kernel: one module, initialized_data
\* among the file bytes of a segment and zeroed_bss after them (main.c lines
\* 5-6 and 14-15).
KernelImage(img) ==
  /\ \A a \in 8 .. 27 : img[a] \in Byte
  /\ ImageSize(img) # 0 /\ ModuleTable(img) # 0 /\ ModuleCount(img) = 1
  /\ \E s \in Segments(img) :
       /\ DataAddr .. DataAddr + 3 \subseteq Extent(img, s)
       /\ DataValue = read_u32([a \in DataAddr .. DataAddr + 3 |-> SegmentByte(img, s, a)], DataAddr)
  /\ \A a \in BssAddrs : \E s \in Segments(img) :
       a \in Extent(img, s) /\ a - Destination(img, s) >= FileSize(img, s)

\* A value of 32 bits.
Fits32(v) == v \div 65536 < 65536

\* The published constants fit their fields: 32 bits, and 16 for the version.
ASSUME KernelAssumption ==
  /\ \A v \in {BOOT_INFO_MAGIC, SYSTEM_ROM_BASE, DIRECT_MAP_VADDR, DIRECT_MAP_PADDR, DIRECT_MAP_SIZE} : Fits32(v)
  /\ ABI_VERSION < 65536
  /\ DataAddr \in Nat
  /\ \A img \in Images : KernelImage(img)

-----------------------------------------------------------------------------
(* The boot-info record                                                    *)

\* The byte of a little-endian value that lies n places above its first.
ByteOf(v, n) == (v \div <<1, 256, 65536, 16777216>>[n + 1]) % 256

\* The fields in the order they are written: offset, width in bytes, value.
Fields(img) ==
  << <<0, 4, BOOT_INFO_MAGIC>>, <<4, 2, ABI_VERSION>>, <<6, 2, BOOT_INFO_SIZE>>,
     <<8, 4, SYSTEM_ROM_BASE>>, <<12, 4, ImageSize(img)>>, <<16, 4, ModuleTable(img)>>,
     <<20, 4, ModuleCount(img)>>, <<24, 4, DIRECT_MAP_VADDR>>, <<28, 4, DIRECT_MAP_PADDR>>,
     <<32, 4, DIRECT_MAP_SIZE>> >>

FieldAddrs(f) == BOOT_INFO_PADDR + f[1] .. BOOT_INFO_PADDR + f[1] + f[2] - 1

\* Most significant byte first.
WriteBigEndian(mem, f) ==
  [a \in RamAddrs |-> IF a \in FieldAddrs(f) THEN ByteOf(f[3], f[2] - 1 - (a - BOOT_INFO_PADDR - f[1])) ELSE mem[a]]

\* write_u16 and write_u32.
WriteField(mem, f) ==
  [a \in RamAddrs |-> IF a \in FieldAddrs(f) THEN ByteOf(f[3], a - BOOT_INFO_PADDR - f[1]) ELSE mem[a]]

-----------------------------------------------------------------------------
VARIABLES
  rom,             \* the image in system ROM
  ram,             \* physical RAM
  pc,              \* where boot_main is
  seg,             \* index of the segment loop
  index,           \* index of the byte loop, or of the field being written
  r0,              \* the argument handed to the bootstrap
  trace,           \* what kernel_main reports
  ram0             \* RAM as it was at reset (history)

vars == <<rom, ram, pc, seg, index, r0, trace, ram0>>

Init ==
  /\ rom \in Images
  /\ ram \in InitialRam
  /\ pc = "segment"
  /\ seg = 0
  /\ index = 0
  /\ r0 = 0
  /\ trace = "none"
  /\ ram0 = ram

\* The head of the segment loop.
Segment ==
  /\ pc = "segment"
  /\ pc' = IF seg < KernelCount(rom) THEN "copy" ELSE "clear"
  /\ index' = 0
  /\ UNCHANGED <<rom, ram, seg, r0, trace, ram0>>

\* The index is not advanced.
CopyStuck ==
  /\ pc = "copy"
  /\ IF index < FileSize(rom, seg)
     THEN /\ ram' = [ram EXCEPT ![Destination(rom, seg) + index] = rom[Source(rom, seg) + index]]
          /\ UNCHANGED <<pc, index>>
     ELSE /\ pc' = "zero"
          /\ index' = 0
          /\ UNCHANGED ram
  /\ UNCHANGED <<rom, seg, r0, trace, ram0>>

\* copy_bytes(destination, source, file_size)
CopyByte ==
  /\ pc = "copy"
  /\ IF index < FileSize(rom, seg)
     THEN /\ ram' = [ram EXCEPT ![Destination(rom, seg) + index] = rom[Source(rom, seg) + index]]
          /\ index' = index + 1
          /\ UNCHANGED pc
     ELSE /\ pc' = "zero"
          /\ index' = 0
          /\ UNCHANGED ram
  /\ UNCHANGED <<rom, seg, r0, trace, ram0>>

\* BSS is cleared from the start of the segment.
ZeroFromStart ==
  /\ pc = "zero"
  /\ IF index < MemorySize(rom, seg) - FileSize(rom, seg)
     THEN /\ ram' = [ram EXCEPT ![Destination(rom, seg) + index] = 0]
          /\ index' = index + 1
          /\ UNCHANGED <<pc, seg>>
     ELSE /\ pc' = "segment"
          /\ seg' = seg + 1
          /\ UNCHANGED <<ram, index>>
  /\ UNCHANGED <<rom, r0, trace, ram0>>

\* zero_bytes(destination + file_size, memory_size - file_size); ++index
ZeroByte ==
  /\ pc = "zero"
  /\ IF index < MemorySize(rom, seg) - FileSize(rom, seg)
     THEN /\ ram' = [ram EXCEPT ![Destination(rom, seg) + FileSize(rom, seg) + index] = 0]
          /\ index' = index + 1
          /\ UNCHANGED <<pc, seg>>
     ELSE /\ pc' = "segment"
          /\ seg' = seg + 1
          /\ UNCHANGED <<ram, index>>
  /\ UNCHANGED <<rom, r0, trace, ram0>>

\* One byte more than the record.
ClearTooFar ==
  /\ pc = "clear"
  /\ IF index =< BOOT_INFO_SIZE
     THEN /\ ram' = [ram EXCEPT ![BOOT_INFO_PADDR + index] = 0]
          /\ index' = index + 1
          /\ UNCHANGED pc
     ELSE /\ pc' = "field"
          /\ index' = 1
          /\ UNCHANGED ram
  /\ UNCHANGED <<rom, seg, r0, trace, ram0>>

\* The record is not cleared.
ClearSkipped ==
  /\ pc = "clear"
  /\ pc' = "field"
  /\ index' = 1
  /\ UNCHANGED <<rom, ram, seg, r0, trace, ram0>>

\* write_boot_info clears the whole record first.
ClearInfo ==
  /\ pc = "clear"
  /\ IF index < BOOT_INFO_SIZE
     THEN /\ ram' = [ram EXCEPT ![BOOT_INFO_PADDR + index] = 0]
          /\ index' = index + 1
          /\ UNCHANGED pc
     ELSE /\ pc' = "field"
          /\ index' = 1
          /\ UNCHANGED ram
  /\ UNCHANGED <<rom, seg, r0, trace, ram0>>

WriteInfo ==
  /\ pc = "field"
  /\ index =< Len(Fields(rom))
  /\ ram' = WriteField(ram, Fields(rom)[index])
  /\ index' = index + 1
  /\ UNCHANGED <<rom, pc, seg, r0, trace, ram0>>

\* entry(BOOT_INFO_VADDR): the bootstrap keeps r0 and enters kernel_main.
Enter ==
  /\ pc = "field"
  /\ index > Len(Fields(rom))
  /\ r0' = BOOT_INFO_VADDR
  /\ pc' = "kernel_main"
  /\ UNCHANGED <<rom, ram, seg, index, trace, ram0>>

-----------------------------------------------------------------------------
(* minemu_kernel_main of core/main.c                                       *)

read_u16(bytes, a) == bytes[a] + 256 * bytes[a + 1]

InfoAccepted ==
  /\ r0 = BOOT_INFO_VADDR
  /\ read_u32(ram, BOOT_INFO_PADDR) = BOOT_INFO_MAGIC
  /\ read_u16(ram, BOOT_INFO_PADDR + 4) = ABI_VERSION
  /\ read_u16(ram, BOOT_INFO_PADDR + 6) = BOOT_INFO_SIZE
  /\ read_u32(ram, BOOT_INFO_PADDR + 8) = SYSTEM_ROM_BASE
  /\ read_u32(ram, BOOT_INFO_PADDR + 12) # 0
  /\ read_u32(ram, BOOT_INFO_PADDR + 20) = 1
  /\ read_u32(ram, BOOT_INFO_PADDR + 16) # 0
  /\ read_u32(ram, BOOT_INFO_PADDR + 24) = DIRECT_MAP_VADDR
  /\ read_u32(ram, BOOT_INFO_PADDR + 28) = DIRECT_MAP_PADDR
  /\ read_u32(ram, BOOT_INFO_PADDR + 32) = DIRECT_MAP_SIZE
  /\ read_u32(ram, DataAddr) = DataValue

KernelMain ==
  /\ pc = "kernel_main"
  /\ trace' = IF ~InfoAccepted THEN "b007bad0"
              ELSE IF \E a \in BssAddrs : ram[a] # 0 THEN "b007bad1"
              ELSE "20000001"
  /\ pc' = "fail_stop"
  /\ UNCHANGED <<rom, ram, seg, index, r0, ram0>>

\* minemu_fail_stop loops for ever.
FailStop ==
  /\ pc = "fail_stop"
  /\ UNCHANGED vars

Next ==
  \/ Segment
  \/ CopyByte
  \/ ZeroByte
  \/ ClearInfo
  \/ WriteInfo
  \/ Enter
  \/ KernelMain
  \/ FailStop

Spec == Init /\ [][Next]_vars

\* The loader runs with interrupts masked and nothing else runs: the CPU
\* executes it to its end.
FairSpec == Spec /\ WF_vars(Next)

-----------------------------------------------------------------------------
(* Properties                                                              *)

\* RAM holds bytes, the indices are natural numbers, the report is one of main.c's.
TypeOK ==
  /\ rom \in Images
  /\ ram \in [RamAddrs -> Byte]
  /\ pc \in {"segment", "copy", "zero", "clear", "field", "kernel_main", "fail_stop"}
  /\ seg \in Nat
  /\ index \in Nat
  /\ trace \in {"none", "b007bad0", "b007bad1", "20000001"}
  /\ ram0 \in [RamAddrs -> Byte]

\* Whatever RAM held at reset, the kernel starts in the memory its image
\* describes: file bytes, zeroed BSS, and nothing else touched but the
\* boot-info record (boot.c lines 104-119).
Loaded ==
  pc \in {"kernel_main", "fail_stop"} =>
    /\ \A s \in Segments(rom) : \A a \in Extent(rom, s) : ram[a] = SegmentByte(rom, s, a)
    /\ \A a \in RamAddrs \ InfoAddrs :
         (\A s \in Segments(rom) : a \notin Extent(rom, s)) => ram[a] = ram0[a]

\* Every byte of the record that no field defines is zero (boot.c lines 76-81).
ReservedZero ==
  pc \in {"kernel_main", "fail_stop"} =>
    \A a \in InfoAddrs : ram[a] # 0 => \E k \in 1 .. 10 : a \in FieldAddrs(Fields(rom)[k])

\* The loader never writes outside what it owns, at any moment: no byte it
\* has finished with changes again.
NoLateWrite ==
  [][\A s \in Segments(rom) : s < seg => \A a \in Extent(rom, s) : ram'[a] = ram[a]]_vars

\* The kernel accepts what the loader publishes: main.c reports 0x20000001.
KernelAccepts == trace \in {"none", "20000001"}

\* Booting ends in the kernel's report.
BootEnds == <>(trace # "none")
=============================================================================
