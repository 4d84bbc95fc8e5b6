-------------------------- MODULE BootLoaderProofs --------------------------
(***************************************************************************)
(* Proofs about the ROM loader for every image the packer accepts, every   *)
(* RAM size and every content of RAM at reset.                             *)
(***************************************************************************)
EXTENDS BootLoader, TLAPS

Finished == {"clear", "field", "kernel_main", "fail_stop"}

\* The loop indices stay within the loops' bounds.
Bounds ==
  /\ seg =< KernelCount(rom)
  /\ pc \in {"copy", "zero"} => seg < KernelCount(rom)
  /\ pc \in Finished => seg = KernelCount(rom)
  /\ pc = "copy" => index =< FileSize(rom, seg)
  /\ pc = "zero" => index =< MemorySize(rom, seg) - FileSize(rom, seg)
  /\ pc = "clear" => index =< BOOT_INFO_SIZE
  /\ pc = "field" => index \in 1 .. 11

\* The segments before seg are in memory.
SegmentsDone ==
  \A s \in Segments(rom) : s < seg => \A a \in Extent(rom, s) : ram[a] = SegmentByte(rom, s, a)

\* Segment seg is in memory as far as the loops have come.
Progress == IF pc = "copy" THEN index ELSE FileSize(rom, seg) + index

SegmentPart ==
  pc \in {"copy", "zero"} =>
    \A a \in Extent(rom, seg) : a - Destination(rom, seg) < Progress =>
                                  ram[a] = SegmentByte(rom, seg, a)

\* What belongs to nobody is as it was.
Untouched ==
  \A a \in RamAddrs \ InfoAddrs :
    (\A s \in Segments(rom) : a \notin Extent(rom, s)) => ram[a] = ram0[a]

\* The record is clear as far as the loop has come, and then except for fields.
Cleared ==
  /\ pc = "clear" => \A a \in InfoAddrs : a - BOOT_INFO_PADDR < index => ram[a] = 0
  /\ pc \in Finished \ {"clear"} =>
       \A a \in InfoAddrs : ram[a] # 0 => \E k \in 1 .. 10 : a \in FieldAddrs(Fields(rom)[k])

IInv == TypeOK /\ Bounds /\ SegmentsDone /\ SegmentPart /\ Untouched /\ Cleared

-----------------------------------------------------------------------------
(* Facts about the image and the record                                    *)

\* What the packer's validation says of the segment being loaded.
LEMMA SegmentFacts ==
  ASSUME NEW img \in Images, NEW s \in Segments(img)
  PROVE  /\ s \in Nat
         /\ Source(img, s) \in Nat /\ Destination(img, s) \in Nat
         /\ FileSize(img, s) \in Nat /\ MemorySize(img, s) \in Nat
         /\ FileSize(img, s) =< MemorySize(img, s)
         /\ \A k \in 0 .. FileSize(img, s) - 1 : img[Source(img, s) + k] \in Byte
         /\ Extent(img, s) \subseteq RamAddrs \ InfoAddrs
         /\ \A r \in Segments(img) : r # s => Extent(img, r) \cap Extent(img, s) = {}
<1>1. PackerValid(img)
  BY LoaderAssumption
<1> QED
  BY <1>1 DEF PackerValid, Segments

\* A byte of a value is a byte.
LEMMA ByteOfType ==
  ASSUME NEW v \in Nat, NEW n \in 0 .. 3
  PROVE  ByteOf(v, n) \in Byte
<1>1. n = 0 \/ n = 1 \/ n = 2 \/ n = 3
  OBVIOUS
<1> QED
  BY <1>1 DEF ByteOf, Byte

\* Every field has two or four bytes, lies in the record and holds a number.
LEMMA FieldFacts ==
  ASSUME NEW img \in Images, NEW k \in 1 .. 10
  PROVE  /\ Fields(img)[k][1] \in 0 .. 60 /\ Fields(img)[k][2] \in {2, 4}
         /\ Fields(img)[k][3] \in Nat
<1>1. PackerValid(img)
  BY LoaderAssumption
<1>2. k = 1 \/ k = 2 \/ k = 3 \/ k = 4 \/ k = 5 \/ k = 6 \/ k = 7 \/ k = 8 \/ k = 9 \/ k = 10
  OBVIOUS
<1> QED
  BY <1>1, <1>2, LoaderAssumption DEF Fields, PackerValid, BOOT_INFO_SIZE

\* There are ten fields.
LEMMA FieldCount == ASSUME NEW img PROVE Len(Fields(img)) = 10
  BY DEF Fields

\* Writing a field changes its own bytes of the record only.
LEMMA WriteFieldFacts ==
  ASSUME NEW img \in Images, NEW k \in 1 .. 10, NEW mem \in [RamAddrs -> Byte]
  PROVE  /\ WriteField(mem, Fields(img)[k]) \in [RamAddrs -> Byte]
         /\ FieldAddrs(Fields(img)[k]) \subseteq InfoAddrs
         /\ \A a \in RamAddrs \ FieldAddrs(Fields(img)[k]) : WriteField(mem, Fields(img)[k])[a] = mem[a]
<1> DEFINE f == Fields(img)[k]
<1>1. f[1] \in 0 .. 60 /\ f[2] \in {2, 4} /\ f[3] \in Nat
  BY FieldFacts
<1> HIDE DEF f
<1>2. BOOT_INFO_PADDR \in Nat /\ RamLow \in Nat /\ RamHigh \in Nat
  BY LoaderAssumption
<1>3. \A a \in FieldAddrs(f) : a - BOOT_INFO_PADDR - f[1] \in 0 .. 3
  BY <1>1, <1>2 DEF FieldAddrs
<1>4. \A a \in RamAddrs : (IF a \in FieldAddrs(f) THEN ByteOf(f[3], a - BOOT_INFO_PADDR - f[1]) ELSE mem[a]) \in Byte
  BY <1>1, <1>3, ByteOfType
<1>5. WriteField(mem, f) \in [RamAddrs -> Byte]
  BY <1>4 DEF WriteField
<1>6. FieldAddrs(f) \subseteq InfoAddrs
  BY <1>1, <1>2 DEF FieldAddrs, InfoAddrs, BOOT_INFO_SIZE
<1>7. \A a \in RamAddrs \ FieldAddrs(f) : WriteField(mem, f)[a] = mem[a]
  BY DEF WriteField
<1> QED
  BY <1>5, <1>6, <1>7 DEF f

-----------------------------------------------------------------------------
(* The inductive invariant                                                 *)

\* The state at reset satisfies IInv.
LEMMA InitInv == Init => IInv
<1> SUFFICES ASSUME Init PROVE IInv
  OBVIOUS
<1>1. KernelCount(rom) \in Nat
  BY LoaderAssumption DEF Init, PackerValid
<1>2. TypeOK /\ Bounds
  BY <1>1, LoaderAssumption DEF Init, TypeOK, Bounds, Finished
<1>3. SegmentsDone /\ SegmentPart /\ Untouched /\ Cleared
  BY <1>1 DEF Init, SegmentsDone, SegmentPart, Untouched, Cleared, Finished, Segments
<1> QED
  BY <1>2, <1>3 DEF IInv

\* The head of the loop: nothing is written.
LEMMA SegmentInv == ASSUME IInv, Segment PROVE IInv'
<1> USE DEF IInv, Segment
<1>1. KernelCount(rom) \in Nat
  BY LoaderAssumption DEF TypeOK, PackerValid
<1>2. TypeOK'
  BY DEF TypeOK
<1>3. Bounds'
  <2>1. CASE seg < KernelCount(rom)
    <3>1. seg \in Segments(rom)
      BY <1>1, <2>1 DEF TypeOK, Segments
    <3>2. FileSize(rom, seg) \in Nat
      BY <3>1, SegmentFacts DEF TypeOK
    <3> QED
      BY <1>1, <2>1, <3>2 DEF TypeOK, Bounds, Finished
  <2>2. CASE ~(seg < KernelCount(rom))
    BY <1>1, <2>2 DEF TypeOK, Bounds, Finished, BOOT_INFO_SIZE
  <2> QED
    BY <2>1, <2>2
<1>4. SegmentsDone' /\ Untouched'
  BY DEF SegmentsDone, Untouched
<1>5. SegmentPart'
  <2>1. CASE seg < KernelCount(rom)
    <3>1. seg \in Segments(rom)
      BY <1>1, <2>1 DEF TypeOK, Segments
    <3>2. Destination(rom, seg) \in Nat /\ MemorySize(rom, seg) \in Nat
      BY <3>1, SegmentFacts DEF TypeOK
    <3>3. \A a \in Extent(rom, seg) : ~(a - Destination(rom, seg) < 0)
      BY <3>2 DEF Extent
    <3> QED
      BY <2>1, <3>3 DEF SegmentPart, Progress
  <2>2. CASE ~(seg < KernelCount(rom))
    BY <2>2 DEF SegmentPart
  <2> QED
    BY <2>1, <2>2
<1>6. Cleared'
  BY LoaderAssumption DEF Cleared, Finished, InfoAddrs
<1> QED
  BY <1>2, <1>3, <1>4, <1>5, <1>6

\* A store to byte m of the segment being loaded, with the value it must have.
LEMMA StoreInv ==
  ASSUME IInv, seg \in Segments(rom), NEW m \in 0 .. MemorySize(rom, seg) - 1,
         ram' = [ram EXCEPT ![Destination(rom, seg) + m] = SegmentByte(rom, seg, Destination(rom, seg) + m)],
         UNCHANGED <<rom, seg, ram0>>
  PROVE  /\ ram' \in [RamAddrs -> Byte]
         /\ SegmentsDone'
         /\ Untouched'
         /\ \A a \in Extent(rom, seg) :
              ram'[a] = IF a = Destination(rom, seg) + m THEN SegmentByte(rom, seg, a) ELSE ram[a]
         /\ \A a \in InfoAddrs : ram'[a] = ram[a]
<1> USE DEF IInv
<1> DEFINE d == Destination(rom, seg) + m
<1>1. /\ rom \in Images /\ ram \in [RamAddrs -> Byte] /\ seg \in Nat
  BY DEF TypeOK
<1>2. /\ Source(rom, seg) \in Nat /\ Destination(rom, seg) \in Nat
      /\ FileSize(rom, seg) \in Nat /\ MemorySize(rom, seg) \in Nat
      /\ \A k \in 0 .. FileSize(rom, seg) - 1 : rom[Source(rom, seg) + k] \in Byte
      /\ Extent(rom, seg) \subseteq RamAddrs \ InfoAddrs
      /\ \A r \in Segments(rom) : r # seg => Extent(rom, r) \cap Extent(rom, seg) = {}
  BY <1>1, SegmentFacts
<1>3. d \in Extent(rom, seg)
  BY <1>2 DEF Extent
<1>4. SegmentByte(rom, seg, d) \in Byte
  <2>1. d - Destination(rom, seg) = m
    BY <1>2
  <2>2. CASE m < FileSize(rom, seg)
    <3>1. rom[Source(rom, seg) + m] \in Byte
      BY <1>2, <2>2
    <3> QED
      BY <3>1, <2>1, <2>2 DEF SegmentByte
  <2>3. CASE ~(m < FileSize(rom, seg))
    BY <2>1, <2>3 DEF SegmentByte, Byte
  <2> QED
    BY <2>2, <2>3
<1>5. ram' = [ram EXCEPT ![d] = SegmentByte(rom, seg, d)]
  OBVIOUS
<1> HIDE DEF d
<1>6. ram' \in [RamAddrs -> Byte] /\ \A a \in RamAddrs : a # d => ram'[a] = ram[a]
  BY <1>1, <1>2, <1>3, <1>4, <1>5
<1>7. SegmentsDone'
  <2>1. \A s \in Segments(rom) : s < seg => s # seg
    BY <1>1 DEF Segments
  <2>2. \A s \in Segments(rom) : s < seg => \A a \in Extent(rom, s) : a \in RamAddrs /\ a # d
    BY <1>1, <1>2, <1>3, <2>1, SegmentFacts
  <2> QED
    BY <1>6, <2>2 DEF SegmentsDone
<1>8. Untouched'
  BY <1>3, <1>6 DEF Untouched
<1>9. \A a \in Extent(rom, seg) : ram'[a] = IF a = d THEN SegmentByte(rom, seg, a) ELSE ram[a]
  BY <1>1, <1>2, <1>3, <1>5, <1>6
<1>10. \A a \in InfoAddrs : ram'[a] = ram[a]
  BY <1>2, <1>3, <1>6, LoaderAssumption
<1> QED
  BY <1>6, <1>7, <1>8, <1>9, <1>10 DEF d

\* copy_bytes
LEMMA CopyByteInv == ASSUME IInv, CopyByte PROVE IInv'
<1> USE DEF IInv, CopyByte
<1>1. KernelCount(rom) \in Nat /\ rom \in Images /\ seg \in Nat /\ index \in Nat
  BY LoaderAssumption DEF TypeOK, PackerValid
<1>2. seg \in Segments(rom) /\ index =< FileSize(rom, seg)
  BY <1>1 DEF Bounds, Segments
<1>3. /\ Destination(rom, seg) \in Nat /\ FileSize(rom, seg) \in Nat /\ MemorySize(rom, seg) \in Nat
      /\ FileSize(rom, seg) =< MemorySize(rom, seg)
  BY <1>1, <1>2, SegmentFacts
<1>4. CASE index < FileSize(rom, seg)
  <2>1. /\ ram' = [ram EXCEPT ![Destination(rom, seg) + index] = rom[Source(rom, seg) + index]]
        /\ index' = index + 1 /\ UNCHANGED <<pc, rom, seg, r0, trace, ram0>>
    BY <1>4
  <2>2. SegmentByte(rom, seg, Destination(rom, seg) + index) = rom[Source(rom, seg) + index]
    <3>1. (Destination(rom, seg) + index) - Destination(rom, seg) = index
      BY <1>1, <1>3
    <3> QED
      BY <3>1, <1>4 DEF SegmentByte
  <2>3. index \in 0 .. MemorySize(rom, seg) - 1
    BY <1>1, <1>3, <1>4
  <2>4. /\ ram' \in [RamAddrs -> Byte] /\ SegmentsDone' /\ Untouched'
        /\ \A a \in Extent(rom, seg) :
             ram'[a] = IF a = Destination(rom, seg) + index THEN SegmentByte(rom, seg, a) ELSE ram[a]
    BY <1>2, <2>1, <2>2, <2>3, StoreInv
  <2>5. TypeOK' /\ Bounds' /\ Cleared'
    BY <1>1, <1>3, <1>4, <2>1, <2>4 DEF TypeOK, Bounds, Cleared, Finished
  <2>6. SegmentPart'
    <3>1. \A a \in Extent(rom, seg) : a - Destination(rom, seg) < index + 1 =>
            a = Destination(rom, seg) + index \/ a - Destination(rom, seg) < index
      BY <1>1, <1>3 DEF Extent
    <3> QED
      BY <2>1, <2>4, <3>1 DEF SegmentPart, Progress
  <2> QED
    BY <2>4, <2>5, <2>6
<1>5. CASE ~(index < FileSize(rom, seg))
  <2>1. pc' = "zero" /\ index' = 0 /\ UNCHANGED <<ram, rom, seg, r0, trace, ram0>>
    BY <1>5
  <2>2. TypeOK' /\ Bounds' /\ Cleared'
    BY <1>1, <1>3, <2>1 DEF TypeOK, Bounds, Cleared, Finished
  <2>3. SegmentsDone' /\ Untouched'
    BY <2>1 DEF SegmentsDone, Untouched
  <2>4. SegmentPart'
    BY <1>1, <1>2, <1>3, <1>5, <2>1 DEF SegmentPart, Progress
  <2> QED
    BY <2>2, <2>3, <2>4
<1> QED
  BY <1>4, <1>5

\* zero_bytes of the rest of the segment
LEMMA ZeroByteInv == ASSUME IInv, ZeroByte PROVE IInv'
<1> USE DEF IInv, ZeroByte
<1> DEFINE rest == MemorySize(rom, seg) - FileSize(rom, seg)
           m == FileSize(rom, seg) + index
<1>1. KernelCount(rom) \in Nat /\ rom \in Images /\ seg \in Nat /\ index \in Nat
  BY LoaderAssumption DEF TypeOK, PackerValid
<1>2. seg \in Segments(rom) /\ index =< rest
  BY <1>1 DEF Bounds, Segments
<1>3. /\ Destination(rom, seg) \in Nat /\ FileSize(rom, seg) \in Nat /\ MemorySize(rom, seg) \in Nat
      /\ FileSize(rom, seg) =< MemorySize(rom, seg)
  BY <1>1, <1>2, SegmentFacts
<1>4. CASE index < rest
  <2>1. /\ ram' = [ram EXCEPT ![Destination(rom, seg) + FileSize(rom, seg) + index] = 0]
        /\ index' = index + 1 /\ UNCHANGED <<pc, rom, seg, r0, trace, ram0>>
    BY <1>4
  <2>2. Destination(rom, seg) + FileSize(rom, seg) + index = Destination(rom, seg) + m
    BY <1>1, <1>3
  <2>3. SegmentByte(rom, seg, Destination(rom, seg) + m) = 0
    <3>1. ~((Destination(rom, seg) + m) - Destination(rom, seg) < FileSize(rom, seg))
      BY <1>1, <1>3
    <3> QED
      BY <3>1 DEF SegmentByte
  <2>4. m \in 0 .. MemorySize(rom, seg) - 1
    BY <1>1, <1>3, <1>4
  <2>5. ram' = [ram EXCEPT ![Destination(rom, seg) + m] = SegmentByte(rom, seg, Destination(rom, seg) + m)]
    BY <2>1, <2>2, <2>3
  <2>6. /\ ram' \in [RamAddrs -> Byte] /\ SegmentsDone' /\ Untouched'
        /\ \A a \in Extent(rom, seg) :
             ram'[a] = IF a = Destination(rom, seg) + m THEN SegmentByte(rom, seg, a) ELSE ram[a]
    BY <1>2, <2>1, <2>4, <2>5, StoreInv
  <2>7. TypeOK' /\ Bounds' /\ Cleared'
    BY <1>1, <1>3, <1>4, <2>1, <2>6 DEF TypeOK, Bounds, Cleared, Finished
  <2>8. SegmentPart'
    <3>1. \A a \in Extent(rom, seg) : a - Destination(rom, seg) < FileSize(rom, seg) + (index + 1) =>
            a = Destination(rom, seg) + m \/ a - Destination(rom, seg) < FileSize(rom, seg) + index
      BY <1>1, <1>3 DEF Extent
    <3> QED
      BY <2>1, <2>6, <3>1 DEF SegmentPart, Progress
  <2> QED
    BY <2>6, <2>7, <2>8
<1>5. CASE ~(index < rest)
  <2>1. pc' = "segment" /\ seg' = seg + 1 /\ UNCHANGED <<ram, index, rom, r0, trace, ram0>>
    BY <1>5
  <2>2. TypeOK' /\ Bounds' /\ Cleared' /\ SegmentPart'
    BY <1>1, <1>2, <2>1 DEF TypeOK, Bounds, Cleared, Finished, SegmentPart, Segments
  <2>3. Untouched'
    BY <2>1 DEF Untouched
  <2>4. \A a \in Extent(rom, seg) : ram[a] = SegmentByte(rom, seg, a)
    <3>1. \A a \in Extent(rom, seg) : a - Destination(rom, seg) < FileSize(rom, seg) + index
      BY <1>1, <1>2, <1>3, <1>5 DEF Extent
    <3> QED
      BY <3>1 DEF SegmentPart, Progress
  <2>5. SegmentsDone'
    BY <1>1, <2>1, <2>4 DEF SegmentsDone, Segments
  <2> QED
    BY <2>2, <2>3, <2>5
<1> QED
  BY <1>4, <1>5

\* A store inside the record leaves the segments and everybody else alone.
LEMMA InfoStore ==
  ASSUME IInv, ram' \in [RamAddrs -> Byte], \A a \in RamAddrs \ InfoAddrs : ram'[a] = ram[a],
         UNCHANGED <<rom, seg, ram0>>
  PROVE  SegmentsDone' /\ Untouched'
<1>1. \A s \in Segments(rom) : \A a \in Extent(rom, s) : ram'[a] = ram[a]
  BY SegmentFacts DEF IInv, TypeOK
<1> QED
  BY <1>1 DEF IInv, SegmentsDone, Untouched

\* zero_bytes of the record
LEMMA ClearInfoInv == ASSUME IInv, ClearInfo PROVE IInv'
<1> USE DEF IInv, ClearInfo
<1>1. index \in Nat /\ index =< BOOT_INFO_SIZE /\ ram \in [RamAddrs -> Byte]
  BY DEF TypeOK, Bounds
<1>2. BOOT_INFO_PADDR \in Nat /\ InfoAddrs \subseteq RamAddrs
  BY LoaderAssumption
<1>3. CASE index < BOOT_INFO_SIZE
  <2>1. BOOT_INFO_PADDR + index \in InfoAddrs
    BY <1>1, <1>2, <1>3 DEF InfoAddrs, BOOT_INFO_SIZE
  <2>2. /\ ram' \in [RamAddrs -> Byte]
        /\ ram'[BOOT_INFO_PADDR + index] = 0
        /\ \A a \in RamAddrs : a # BOOT_INFO_PADDR + index => ram'[a] = ram[a]
    BY <1>1, <1>2, <1>3, <2>1 DEF Byte
  <2>3. SegmentsDone' /\ Untouched'
    BY <2>1, <2>2, InfoStore
  <2>4. TypeOK' /\ Bounds' /\ SegmentPart'
    BY <1>1, <1>3, <2>2 DEF TypeOK, Bounds, Finished, SegmentPart, BOOT_INFO_SIZE
  <2>5. Cleared'
    <3>1. \A a \in InfoAddrs : a - BOOT_INFO_PADDR < index + 1 =>
            a = BOOT_INFO_PADDR + index \/ a - BOOT_INFO_PADDR < index
      BY <1>1, <1>2 DEF InfoAddrs
    <3> QED
      BY <1>2, <1>3, <2>2, <3>1 DEF Cleared, Finished
  <2> QED
    BY <2>3, <2>4, <2>5
<1>4. CASE ~(index < BOOT_INFO_SIZE)
  <2>1. pc' = "field" /\ index' = 1 /\ UNCHANGED <<ram, rom, seg, r0, trace, ram0>>
    BY <1>4
  <2>2. SegmentsDone' /\ Untouched' /\ SegmentPart'
    BY <2>1 DEF SegmentsDone, Untouched, SegmentPart
  <2>3. TypeOK' /\ Bounds'
    BY <2>1 DEF TypeOK, Bounds, Finished
  <2>4. \A a \in InfoAddrs : a - BOOT_INFO_PADDR < index
    BY <1>1, <1>2, <1>4 DEF InfoAddrs, BOOT_INFO_SIZE
  <2>5. Cleared'
    BY <2>1, <2>4 DEF Cleared, Finished
  <2> QED
    BY <2>2, <2>3, <2>5
<1> QED
  BY <1>3, <1>4

\* One field of the record
LEMMA WriteInfoInv == ASSUME IInv, WriteInfo PROVE IInv'
<1> USE DEF IInv, WriteInfo
<1>1. index \in 1 .. 10 /\ rom \in Images /\ ram \in [RamAddrs -> Byte]
  BY FieldCount DEF TypeOK, Bounds
<1>2. /\ ram' \in [RamAddrs -> Byte]
      /\ FieldAddrs(Fields(rom)[index]) \subseteq InfoAddrs
      /\ \A a \in RamAddrs \ FieldAddrs(Fields(rom)[index]) : ram'[a] = ram[a]
  BY <1>1, WriteFieldFacts
<1>3. SegmentsDone' /\ Untouched'
  BY <1>2, InfoStore
<1>4. TypeOK' /\ Bounds' /\ SegmentPart'
  BY <1>1, <1>2 DEF TypeOK, Bounds, Finished, SegmentPart
<1>5. Cleared'
  BY <1>1, <1>2, LoaderAssumption DEF Cleared, Finished
<1> QED
  BY <1>3, <1>4, <1>5

\* The jump to the bootstrap, the kernel's check and the final loop write nothing.
LEMMA LastStepsInv == ASSUME IInv, Enter \/ KernelMain \/ FailStop \/ UNCHANGED vars PROVE IInv'
<1> USE DEF IInv
<1>1. CASE Enter \/ KernelMain
  <2>1. /\ UNCHANGED <<rom, ram, seg, index, ram0>>
        /\ pc \in Finished \ {"clear"}
        /\ pc' \in {"kernel_main", "fail_stop"}
        /\ trace' \in {"none", "b007bad0", "b007bad1", "20000001"}
    BY <1>1 DEF Enter, KernelMain, Finished, TypeOK
  <2>2. TypeOK' /\ Bounds'
    BY <2>1 DEF TypeOK, Bounds, Finished
  <2>3. SegmentsDone' /\ SegmentPart' /\ Untouched'
    BY <2>1 DEF SegmentsDone, SegmentPart, Untouched
  <2>4. Cleared'
    BY <2>1 DEF Cleared, Finished
  <2> QED
    BY <2>2, <2>3, <2>4
<1>2. CASE FailStop \/ UNCHANGED vars
  <2>1. UNCHANGED vars
    BY <1>2 DEF FailStop
  <2> QED
    BY <2>1 DEF vars, TypeOK, Bounds, SegmentsDone, SegmentPart, Progress, Untouched, Cleared
<1> QED
  BY <1>1, <1>2

\* Every step of the loader preserves IInv.
LEMMA NextInv == IInv /\ [Next]_vars => IInv'
  BY SegmentInv, CopyByteInv, ZeroByteInv, ClearInfoInv, WriteInfoInv, LastStepsInv DEF Next

\* IInv holds in every reachable state of the loader.
THEOREM Invariant == Spec => []IInv
  BY InitInv, NextInv, PTL DEF Spec

\* RAM stays a memory of bytes and the loops stay inside it.
THEOREM TypeCorrect == Spec => []TypeOK
<1>1. IInv => TypeOK
  BY DEF IInv
<1> QED
  BY <1>1, Invariant, PTL

\* For every image the packer accepts and every content of RAM at reset, the
\* kernel starts in exactly the memory its image describes.
THEOREM ImageLoaded == Spec => []Loaded
<1>1. IInv => Loaded
  BY DEF IInv, TypeOK, Bounds, Finished, SegmentsDone, Untouched, Loaded, Segments
<1> QED
  BY <1>1, Invariant, PTL

\* The reserved bytes of the boot-info record are zero.
THEOREM RecordDeterministic == Spec => []ReservedZero
<1>1. IInv => ReservedZero
  BY DEF IInv, Cleared, Finished, ReservedZero
<1> QED
  BY <1>1, Invariant, PTL

\* No byte of a segment is written again after the loader has left it.
THEOREM LoadedStays == Spec => NoLateWrite
<1> DEFINE Keep == \A s \in Segments(rom) : s < seg => \A a \in Extent(rom, s) : ram'[a] = ram[a]
<1>1. IInv /\ [Next]_vars => [Keep]_vars
  <2> SUFFICES ASSUME IInv, [Next]_vars PROVE [Keep]_vars
    OBVIOUS
  <2>1. CASE UNCHANGED vars
    BY <2>1
  <2>2. CASE Next
    <3>1. IInv' /\ UNCHANGED rom /\ (seg' = seg \/ seg' = seg + 1)
      BY <2>2, NextInv DEF Next, Segment, CopyByte, ZeroByte, ClearInfo, WriteInfo, Enter, KernelMain,
                           FailStop, vars
    <3>2. \A s \in Segments(rom) : s < seg => s < seg'
      BY <3>1 DEF Segments, IInv, TypeOK
    <3> QED
      BY <3>1, <3>2 DEF IInv, SegmentsDone
  <2> QED
    BY <2>1, <2>2
<1> QED
  BY <1>1, Invariant, PTL DEF Spec, NoLateWrite

-----------------------------------------------------------------------------
(* The kernel's check                                                      *)

\* Field k of the record has the bytes of its value.
FieldHeld(k) ==
  \A a \in FieldAddrs(Fields(rom)[k]) :
    ram[a] = ByteOf(Fields(rom)[k][3], a - BOOT_INFO_PADDR - Fields(rom)[k][1])

\* The fields before index are in the record; the kernel finds all of them.
Published ==
  /\ pc = "field" => \A k \in 1 .. 10 : k < index => FieldHeld(k)
  /\ pc \in {"kernel_main", "fail_stop"} => \A k \in 1 .. 10 : FieldHeld(k)
  /\ pc = "kernel_main" => r0 = BOOT_INFO_VADDR
  /\ trace \in {"none", "20000001"}

\* Where the fields lie.
LEMMA FieldPlace ==
  ASSUME NEW img, NEW k \in 1 .. 10
  PROVE  /\ Fields(img)[k][1] = IF k =< 2 THEN 4 * (k - 1) ELSE IF k = 3 THEN 6 ELSE 4 * (k - 2)
         /\ Fields(img)[k][2] = IF k \in {2, 3} THEN 2 ELSE 4
<1>1. k = 1 \/ k = 2 \/ k = 3 \/ k = 4 \/ k = 5 \/ k = 6 \/ k = 7 \/ k = 8 \/ k = 9 \/ k = 10
  OBVIOUS
<1> QED
  BY <1>1 DEF Fields

\* No two fields share a byte.
LEMMA FieldsApart ==
  ASSUME NEW img, NEW j \in 1 .. 10, NEW k \in 1 .. 10, j # k
  PROVE  FieldAddrs(Fields(img)[j]) \cap FieldAddrs(Fields(img)[k]) = {}
<1>1. PICK p, u, q, v : p = Fields(img)[j][1] /\ u = Fields(img)[j][2] /\ q = Fields(img)[k][1] /\ v = Fields(img)[k][2]
  OBVIOUS
<1>2. /\ p \in Int /\ q \in Int /\ u \in Int /\ v \in Int
      /\ p + u =< q \/ q + v =< p
  <2>1. /\ p = IF j =< 2 THEN 4 * (j - 1) ELSE IF j = 3 THEN 6 ELSE 4 * (j - 2)
        /\ u = IF j \in {2, 3} THEN 2 ELSE 4
    BY <1>1, FieldPlace
  <2>2. /\ q = IF k =< 2 THEN 4 * (k - 1) ELSE IF k = 3 THEN 6 ELSE 4 * (k - 2)
        /\ v = IF k \in {2, 3} THEN 2 ELSE 4
    BY <1>1, FieldPlace
  <2> QED
    BY <2>1, <2>2
<1>3. BOOT_INFO_PADDR \in Nat
  BY LoaderAssumption
<1> QED
  BY <1>1, <1>2, <1>3 DEF FieldAddrs

\* v cut after its first byte, its second or its third: what is below and above.
Cut8(v, x, h)  == x < 256 /\ v = x + 256 * h
Cut16(v, x, h) == x < 65536 /\ v = x + 65536 * h
Cut24(v, x, h) == x < 16777216 /\ v = x + 16777216 * h

\* v by its digits in base 256.
Spells(v, a, b, c, d) == v = a + 256 * b + 65536 * c + 16777216 * d

\* Every number can be cut after its first byte.
LEMMA Div256 ==
  ASSUME NEW v \in Nat
  PROVE  \E q \in Nat, e \in Nat : Cut8(v, e, q)
<1>1. v \div 256 \in Nat /\ v % 256 \in Nat /\ v % 256 < 256 /\ v = (v % 256) + 256 * (v \div 256)
  OBVIOUS
<1> QED
  BY <1>1 DEF Cut8

\* The first byte of a number is its last digit.
LEMMA Digit0 ==
  ASSUME NEW e \in Nat, NEW q \in Nat, NEW v \in Nat, Cut8(v, e, q)
  PROVE  ByteOf(v, 0) = e
<1>1. v \div 1 = v
  OBVIOUS
<1>2. v % 256 = e
  BY DEF Cut8
<1> QED
  BY <1>1, <1>2 DEF ByteOf

\* The same for the second byte.
LEMMA Digit1 ==
  ASSUME NEW x \in Nat, NEW q \in Nat, NEW e \in Nat, NEW h \in Nat, NEW v \in Nat, Cut8(v, x, q), Cut8(q, e, h)
  PROVE  ByteOf(v, 1) = e
<1>1. v \div 256 = q
  BY DEF Cut8
<1>2. q % 256 = e
  BY DEF Cut8
<1> QED
  BY <1>1, <1>2 DEF ByteOf

\* The same for the third byte.
LEMMA Digit2 ==
  ASSUME NEW x \in Nat, NEW q \in Nat, NEW e \in Nat, NEW h \in Nat, NEW v \in Nat, Cut16(v, x, q), Cut8(q, e, h)
  PROVE  ByteOf(v, 2) = e
<1>1. v \div 65536 = q
  BY DEF Cut16
<1>2. q % 256 = e
  BY DEF Cut8
<1> QED
  BY <1>1, <1>2, SMT DEF ByteOf

\* The same for the last byte of a 32-bit number.
LEMMA Digit3 ==
  ASSUME NEW x \in Nat, NEW q \in Nat, NEW v \in Nat, q < 256, Cut24(v, x, q)
  PROVE  ByteOf(v, 3) = q
<1>1. v \div 16777216 = q
  BY DEF Cut24
<1>2. q % 256 = q
  OBVIOUS
<1> QED
  BY <1>1, <1>2, SMT DEF ByteOf

\* A 32-bit number cut three times.
LEMMA Cuts ==
  ASSUME NEW v \in Nat, NEW e \in Nat, NEW f \in Nat, NEW g \in Nat, NEW q \in Nat, NEW h \in Nat, NEW k \in Nat,
         Fits32(v), Cut8(v, e, q), Cut8(q, f, h), Cut8(h, g, k)
  PROVE  /\ \E x \in Nat : Cut16(v, x, h)
         /\ \E x \in Nat : Cut24(v, x, k)
         /\ k < 256 /\ Spells(v, e, f, g, k)
<1>1. v = e + 256 * f + 65536 * g + 16777216 * k
  BY SMT DEF Cut8
<1>2. v = e + 256 * f + 65536 * h
  BY SMT DEF Cut8
<1>3. e < 256 /\ f < 256 /\ g < 256
  BY DEF Cut8
<1>4. PICK x \in Nat : x = e + 256 * f
  BY SMT
<1>5. PICK y \in Nat : y = e + 256 * f + 65536 * g
  BY SMT
<1>6. Cut16(v, x, h) /\ Cut24(v, y, k)
  BY <1>1, <1>2, <1>3, <1>4, <1>5, SMT DEF Cut16, Cut24
<1>7. k < 256
  <2>1. v < 65536 * 65536
    BY SMT DEF Fits32
  <2> QED
    BY <1>1, <2>1, SMT
<1> QED
  BY <1>1, <1>6, <1>7, SMT DEF Spells

\* A 32-bit value is what its four bytes spell.
LEMMA FourBytes ==
  ASSUME NEW v \in Nat, Fits32(v)
  PROVE  \E a \in Nat, b \in Nat, c \in Nat, d \in Nat :
           /\ a = ByteOf(v, 0) /\ b = ByteOf(v, 1) /\ c = ByteOf(v, 2) /\ d = ByteOf(v, 3)
           /\ Spells(v, a, b, c, d)
<1>1. PICK q \in Nat, e \in Nat : Cut8(v, e, q)
  BY Div256
<1>2. PICK h \in Nat, f \in Nat : Cut8(q, f, h)
  BY Div256
<1>3. PICK k \in Nat, g \in Nat : Cut8(h, g, k)
  BY Div256
<1>4. /\ \E x \in Nat : Cut16(v, x, h)
      /\ \E x \in Nat : Cut24(v, x, k)
      /\ k < 256 /\ Spells(v, e, f, g, k)
  BY <1>1, <1>2, <1>3, Cuts
<1>5. ByteOf(v, 0) = e
  BY <1>1, Digit0
<1>6. ByteOf(v, 1) = f
  BY <1>1, <1>2, Digit1
<1>7. ByteOf(v, 2) = g
  BY <1>3, <1>4, Digit2
<1>8. ByteOf(v, 3) = k
  BY <1>4, Digit3
<1> QED
  BY <1>4, <1>5, <1>6, <1>7, <1>8

\* A 16-bit value is what its two bytes spell.
LEMMA TwoBytes ==
  ASSUME NEW v \in Nat, v < 65536
  PROVE  \E a \in Nat, b \in Nat : a = ByteOf(v, 0) /\ b = ByteOf(v, 1) /\ v = a + 256 * b
<1>1. PICK q \in Nat, e \in Nat : Cut8(v, e, q)
  BY Div256, SMT
<1>2. Cut8(q, q, 0) /\ 0 \in Nat /\ v = e + 256 * q
  BY <1>1, SMT DEF Cut8
<1>3. ByteOf(v, 0) = e
  BY <1>1, Digit0, SMT
<1>4. ByteOf(v, 1) = q
  BY <1>1, <1>2, Digit1, SMT
<1> QED
  BY <1>2, <1>3, <1>4, SMT

\* The header's numbers are 32-bit numbers.
LEMMA HeaderWord ==
  ASSUME NEW img \in Images, NEW o \in 8 .. 24
  PROVE  read_u32(img, o) \in Nat /\ Fits32(read_u32(img, o))
<1>1. KernelImage(img)
  BY KernelAssumption
<1>2. o \in 8 .. 27 /\ o + 1 \in 8 .. 27 /\ o + 2 \in 8 .. 27 /\ o + 3 \in 8 .. 27
  OBVIOUS
<1>3. PICK a \in Byte, b \in Byte, c \in Byte, d \in Byte :
        a = img[o] /\ b = img[o + 1] /\ c = img[o + 2] /\ d = img[o + 3]
  BY <1>1, <1>2, Zenon DEF KernelImage
<1>4. read_u32(img, o) = a + 256 * b + 65536 * c + 16777216 * d
  BY <1>3 DEF read_u32
<1>5. /\ a \in Nat /\ a < 256 /\ b \in Nat /\ b < 256 /\ c \in Nat /\ c < 256 /\ d \in Nat /\ d < 256
  BY DEF Byte
<1>6. PICK v \in Nat : v = a + 256 * b + 65536 * c + 16777216 * d /\ v < 65536 * 65536
  BY <1>5, SMT
<1>7. Fits32(v)
  BY <1>6, SMT DEF Fits32
<1> QED
  BY <1>4, <1>6, <1>7, SMT

\* Every field's value fits the field.
LEMMA FieldFits ==
  ASSUME NEW img \in Images, NEW k \in 1 .. 10
  PROVE  /\ Fields(img)[k][3] \in Nat /\ Fits32(Fields(img)[k][3])
         /\ k \in {2, 3} => Fields(img)[k][3] < 65536
<1>1. Fields(img)[k][3] \in Nat
  BY FieldFacts
<1>2. CASE k \in {2, 3}
  <2>1. ABI_VERSION \in Nat /\ ABI_VERSION < 65536
    BY LoaderAssumption, KernelAssumption
  <2>2. Fields(img)[k][3] = ABI_VERSION \/ Fields(img)[k][3] = 64
    BY <1>2 DEF Fields, BOOT_INFO_SIZE
  <2>3. \A v \in Nat : v < 65536 => Fits32(v)
    BY SMT DEF Fits32
  <2>4. Fields(img)[k][3] < 65536
    BY <2>1, <2>2, SMT
  <2> QED
    BY <1>1, <2>3, <2>4, SMT
<1>3. CASE k \in {5, 6, 7}
  <2>1. Fields(img)[k][3] = read_u32(img, 8) \/ Fields(img)[k][3] = read_u32(img, 20) \/ Fields(img)[k][3] = read_u32(img, 24)
    BY <1>3 DEF Fields, ImageSize, ModuleTable, ModuleCount
  <2>2. PICK o \in 8 .. 24 : Fields(img)[k][3] = read_u32(img, o)
    BY <2>1
  <2>3. Fits32(read_u32(img, o))
    BY HeaderWord
  <2> QED
    BY <1>1, <1>3, <2>2, <2>3
<1>4. CASE k \in {1, 4, 8, 9, 10}
  <2>1. Fields(img)[k][3] \in {BOOT_INFO_MAGIC, SYSTEM_ROM_BASE, DIRECT_MAP_VADDR, DIRECT_MAP_PADDR, DIRECT_MAP_SIZE}
    BY <1>4 DEF Fields
  <2>2. Fits32(Fields(img)[k][3])
    BY <2>1, KernelAssumption
  <2> QED
    BY <1>1, <1>4, <2>2
<1> QED
  BY <1>2, <1>3, <1>4

\* The bytes of field k, at b and after it.
LEMMA FieldBytes ==
  ASSUME IInv, NEW k \in 1 .. 10, FieldHeld(k), NEW b \in Int, b = BOOT_INFO_PADDR + Fields(rom)[k][1]
  PROVE  /\ ram[b] = ByteOf(Fields(rom)[k][3], 0) /\ ram[b + 1] = ByteOf(Fields(rom)[k][3], 1)
         /\ k \notin {2, 3} => ram[b + 2] = ByteOf(Fields(rom)[k][3], 2) /\ ram[b + 3] = ByteOf(Fields(rom)[k][3], 3)
<1>1. BOOT_INFO_PADDR \in Int
  BY LoaderAssumption
<1>2. Fields(rom)[k][1] \in Int /\ Fields(rom)[k][2] = IF k \in {2, 3} THEN 2 ELSE 4
  BY FieldPlace
<1>3. ASSUME NEW n \in 0 .. 3, n < Fields(rom)[k][2]
      PROVE  ram[b + n] = ByteOf(Fields(rom)[k][3], n)
  <2>1. PICK a \in Int : a = b + n
    OBVIOUS
  <2>2. a \in FieldAddrs(Fields(rom)[k])
    BY <1>1, <1>2, <1>3, <2>1 DEF FieldAddrs
  <2>3. ram[a] = ByteOf(Fields(rom)[k][3], a - BOOT_INFO_PADDR - Fields(rom)[k][1])
    BY <2>2 DEF FieldHeld
  <2>4. a - BOOT_INFO_PADDR - Fields(rom)[k][1] = n
    BY <1>1, <1>2, <2>1
  <2> QED
    BY <2>1, <2>3, <2>4
<1>4. b + 0 = b /\ 0 < Fields(rom)[k][2] /\ 1 < Fields(rom)[k][2]
  BY <1>2
<1>5. k \notin {2, 3} => 2 < Fields(rom)[k][2] /\ 3 < Fields(rom)[k][2]
  BY <1>2
<1>6. ram[b + 0] = ByteOf(Fields(rom)[k][3], 0) /\ ram[b + 1] = ByteOf(Fields(rom)[k][3], 1)
  BY <1>3, <1>4
<1>7. k \notin {2, 3} => ram[b + 2] = ByteOf(Fields(rom)[k][3], 2) /\ ram[b + 3] = ByteOf(Fields(rom)[k][3], 3)
  BY <1>3, <1>5
<1> QED
  BY <1>4, <1>6, <1>7

\* A four-byte field that the record holds is read back as its value.
LEMMA ReadBack32 ==
  ASSUME IInv, NEW k \in 1 .. 10, k \notin {2, 3}, FieldHeld(k)
  PROVE  read_u32(ram, BOOT_INFO_PADDR + Fields(rom)[k][1]) = Fields(rom)[k][3]
<1>1. rom \in Images
  BY DEF IInv, TypeOK
<1>2. PICK v \in Nat : v = Fields(rom)[k][3] /\ Fits32(v)
  BY <1>1, FieldFits
<1>3. PICK b \in Int : b = BOOT_INFO_PADDR + Fields(rom)[k][1]
  BY FieldPlace, LoaderAssumption
<1>4. PICK x \in Nat, y \in Nat, z \in Nat, w \in Nat :
        /\ x = ByteOf(v, 0) /\ y = ByteOf(v, 1) /\ z = ByteOf(v, 2) /\ w = ByteOf(v, 3)
        /\ Spells(v, x, y, z, w)
  BY <1>2, FourBytes
<1>5. x = ram[b] /\ y = ram[b + 1] /\ z = ram[b + 2] /\ w = ram[b + 3]
  <2>1. /\ ram[b] = ByteOf(Fields(rom)[k][3], 0) /\ ram[b + 1] = ByteOf(Fields(rom)[k][3], 1)
        /\ ram[b + 2] = ByteOf(Fields(rom)[k][3], 2) /\ ram[b + 3] = ByteOf(Fields(rom)[k][3], 3)
    BY <1>3, FieldBytes
  <2> QED
    BY <1>2, <1>4, <2>1, Zenon
<1>6. read_u32(ram, b) = x + 256 * y + 65536 * z + 16777216 * w
  BY <1>5, SMT DEF read_u32
<1>7. read_u32(ram, b) = v
  BY <1>4, <1>6, SMT DEF Spells
<1> QED
  BY <1>2, <1>3, <1>7

\* A two-byte field that the record holds is read back as its value.
LEMMA ReadBack16 ==
  ASSUME IInv, NEW k \in {2, 3}, FieldHeld(k)
  PROVE  read_u16(ram, BOOT_INFO_PADDR + Fields(rom)[k][1]) = Fields(rom)[k][3]
<1>1. rom \in Images /\ k \in 1 .. 10
  BY DEF IInv, TypeOK
<1>2. PICK v \in Nat : v = Fields(rom)[k][3] /\ v < 65536
  BY <1>1, FieldFits, SMT
<1>3. PICK b \in Int : b = BOOT_INFO_PADDR + Fields(rom)[k][1]
  BY <1>1, FieldPlace, LoaderAssumption
<1>4. PICK x \in Nat, y \in Nat : x = ByteOf(v, 0) /\ y = ByteOf(v, 1) /\ v = x + 256 * y
  BY <1>2, TwoBytes, SMT
<1>5. x = ram[b] /\ y = ram[b + 1]
  <2>1. ram[b] = ByteOf(Fields(rom)[k][3], 0) /\ ram[b + 1] = ByteOf(Fields(rom)[k][3], 1)
    BY <1>1, <1>3, FieldBytes
  <2>2. Fields(rom)[k][3] = v
    BY <1>2, SMT
  <2> QED
    BY <1>4, <2>1, <2>2, SMT
<1>6. read_u16(ram, b) = x + 256 * y
  BY <1>5 DEF read_u16
<1> QED
  BY <1>2, <1>3, <1>4, <1>6, SMT

\* What kernel_main reads in a complete record.
LEMMA RecordRead ==
  ASSUME IInv, \A k \in 1 .. 10 : FieldHeld(k)
  PROVE  /\ read_u32(ram, BOOT_INFO_PADDR) = BOOT_INFO_MAGIC
         /\ read_u16(ram, BOOT_INFO_PADDR + 4) = ABI_VERSION
         /\ read_u16(ram, BOOT_INFO_PADDR + 6) = BOOT_INFO_SIZE
         /\ read_u32(ram, BOOT_INFO_PADDR + 8) = SYSTEM_ROM_BASE
         /\ read_u32(ram, BOOT_INFO_PADDR + 12) = ImageSize(rom)
         /\ read_u32(ram, BOOT_INFO_PADDR + 16) = ModuleTable(rom)
         /\ read_u32(ram, BOOT_INFO_PADDR + 20) = ModuleCount(rom)
         /\ read_u32(ram, BOOT_INFO_PADDR + 24) = DIRECT_MAP_VADDR
         /\ read_u32(ram, BOOT_INFO_PADDR + 28) = DIRECT_MAP_PADDR
         /\ read_u32(ram, BOOT_INFO_PADDR + 32) = DIRECT_MAP_SIZE
<1>1. /\ \A k \in 1 .. 10 : k \notin {2, 3} => read_u32(ram, BOOT_INFO_PADDR + Fields(rom)[k][1]) = Fields(rom)[k][3]
      /\ \A k \in {2, 3} : read_u16(ram, BOOT_INFO_PADDR + Fields(rom)[k][1]) = Fields(rom)[k][3]
  <2>1. \A k \in {2, 3} : k \in 1 .. 10
    OBVIOUS
  <2> QED
    BY <2>1, ReadBack32, ReadBack16
<1>2. /\ Fields(rom)[1] = <<0, 4, BOOT_INFO_MAGIC>> /\ Fields(rom)[2] = <<4, 2, ABI_VERSION>>
      /\ Fields(rom)[3] = <<6, 2, BOOT_INFO_SIZE>> /\ Fields(rom)[4] = <<8, 4, SYSTEM_ROM_BASE>>
      /\ Fields(rom)[5] = <<12, 4, ImageSize(rom)>> /\ Fields(rom)[6] = <<16, 4, ModuleTable(rom)>>
      /\ Fields(rom)[7] = <<20, 4, ModuleCount(rom)>> /\ Fields(rom)[8] = <<24, 4, DIRECT_MAP_VADDR>>
      /\ Fields(rom)[9] = <<28, 4, DIRECT_MAP_PADDR>> /\ Fields(rom)[10] = <<32, 4, DIRECT_MAP_SIZE>>
  BY DEF Fields
<1>3. /\ read_u32(ram, BOOT_INFO_PADDR + 0) = BOOT_INFO_MAGIC
      /\ read_u32(ram, BOOT_INFO_PADDR + 8) = SYSTEM_ROM_BASE
      /\ read_u32(ram, BOOT_INFO_PADDR + 12) = ImageSize(rom)
      /\ read_u32(ram, BOOT_INFO_PADDR + 16) = ModuleTable(rom)
      /\ read_u32(ram, BOOT_INFO_PADDR + 20) = ModuleCount(rom)
      /\ read_u32(ram, BOOT_INFO_PADDR + 24) = DIRECT_MAP_VADDR
      /\ read_u32(ram, BOOT_INFO_PADDR + 28) = DIRECT_MAP_PADDR
      /\ read_u32(ram, BOOT_INFO_PADDR + 32) = DIRECT_MAP_SIZE
  BY <1>1, <1>2
<1>4. read_u16(ram, BOOT_INFO_PADDR + 4) = ABI_VERSION /\ read_u16(ram, BOOT_INFO_PADDR + 6) = BOOT_INFO_SIZE
  BY <1>1, <1>2
<1>5. BOOT_INFO_PADDR + 0 = BOOT_INFO_PADDR
  BY LoaderAssumption
<1> QED
  BY <1>3, <1>4, <1>5

\* initialized_data and zeroed_bss are as the C program expects them.
LEMMA DataRead ==
  ASSUME IInv, pc = "kernel_main"
  PROVE  /\ read_u32(ram, DataAddr) = DataValue
         /\ \A a \in BssAddrs : ram[a] = 0
<1>1. rom \in Images /\ KernelImage(rom)
  BY KernelAssumption DEF IInv, TypeOK
<1>2. \A s \in Segments(rom) : \A a \in Extent(rom, s) : ram[a] = SegmentByte(rom, s, a)
  BY DEF IInv, TypeOK, Bounds, Finished, SegmentsDone, Segments
<1>3. read_u32(ram, DataAddr) = DataValue
  <2>1. PICK s \in Segments(rom) :
          /\ DataAddr .. DataAddr + 3 \subseteq Extent(rom, s)
          /\ DataValue = read_u32([a \in DataAddr .. DataAddr + 3 |-> SegmentByte(rom, s, a)], DataAddr)
    BY <1>1 DEF KernelImage
  <2>2. PICK f : f = [a \in DataAddr .. DataAddr + 3 |-> SegmentByte(rom, s, a)]
    OBVIOUS
  <2>3. \A a \in DataAddr .. DataAddr + 3 : f[a] = ram[a]
    BY <1>2, <2>1, <2>2
  <2>4. {DataAddr, DataAddr + 1, DataAddr + 2, DataAddr + 3} \subseteq DataAddr .. DataAddr + 3
    BY KernelAssumption
  <2>5. /\ f[DataAddr] = ram[DataAddr] /\ f[DataAddr + 1] = ram[DataAddr + 1]
        /\ f[DataAddr + 2] = ram[DataAddr + 2] /\ f[DataAddr + 3] = ram[DataAddr + 3]
    BY <2>3, <2>4
  <2>6. read_u32(f, DataAddr) = read_u32(ram, DataAddr)
    BY <2>5, SMT DEF read_u32
  <2> QED
    BY <2>1, <2>2, <2>6
<1>4. ASSUME NEW a \in BssAddrs PROVE ram[a] = 0
  <2>1. PICK s \in Segments(rom) : a \in Extent(rom, s) /\ a - Destination(rom, s) >= FileSize(rom, s)
    BY <1>1 DEF KernelImage
  <2>2. ~(a - Destination(rom, s) < FileSize(rom, s))
    <3>1. Destination(rom, s) \in Nat /\ FileSize(rom, s) \in Nat /\ MemorySize(rom, s) \in Nat
      BY <1>1, SegmentFacts
    <3>2. a \in Int
      BY <2>1, <3>1 DEF Extent
    <3> QED
      BY <2>1, <3>1, <3>2
  <2>3. SegmentByte(rom, s, a) = 0
    BY <2>2 DEF SegmentByte
  <2> QED
    BY <1>2, <2>1, <2>3
<1> QED
  BY <1>3, <1>4

\* Writing the next field keeps the fields that are there.
LEMMA WritePublished ==
  ASSUME IInv, Published, WriteInfo
  PROVE  Published'
<1>1. /\ index \in 1 .. 10 /\ rom \in Images /\ ram \in [RamAddrs -> Byte] /\ pc = "field"
      /\ rom' = rom /\ pc' = pc /\ index' = index + 1 /\ trace' = trace
      /\ ram' = WriteField(ram, Fields(rom)[index])
  BY FieldCount DEF IInv, TypeOK, Bounds, WriteInfo
<1>2. /\ FieldAddrs(Fields(rom)[index]) \subseteq InfoAddrs
      /\ \A a \in RamAddrs \ FieldAddrs(Fields(rom)[index]) : ram'[a] = ram[a]
  BY <1>1, WriteFieldFacts
<1>3. InfoAddrs \subseteq RamAddrs
  BY LoaderAssumption
<1>4. ASSUME NEW k \in 1 .. 10, k < index + 1
      PROVE  FieldHeld(k)'
  <2> SUFFICES ASSUME NEW a \in FieldAddrs(Fields(rom)[k])
               PROVE  ram'[a] = ByteOf(Fields(rom)[k][3], a - BOOT_INFO_PADDR - Fields(rom)[k][1])
    BY <1>1 DEF FieldHeld
  <2>1. a \in RamAddrs
    BY <1>1, <1>3, WriteFieldFacts
  <2>2. CASE k = index
    BY <1>1, <2>1, <2>2 DEF WriteField
  <2>3. CASE k # index
    <3>1. FieldHeld(k) /\ a \notin FieldAddrs(Fields(rom)[index])
      <4>1. k < index
        BY <1>1, <1>4, <2>3
      <4>2. FieldHeld(k)
        BY <1>1, <4>1 DEF Published
      <4> QED
        BY <1>1, <2>3, <4>2, FieldsApart
    <3> QED
      BY <1>2, <2>1, <3>1 DEF FieldHeld
  <2> QED
    BY <2>2, <2>3
<1> QED
  BY <1>1, <1>4 DEF Published

\* The kernel accepts what it finds.
LEMMA MainPublished ==
  ASSUME IInv, Published, KernelMain
  PROVE  Published'
<1>1. /\ pc = "kernel_main" /\ pc' = "fail_stop" /\ ram' = ram /\ rom' = rom
      /\ r0 = BOOT_INFO_VADDR /\ \A k \in 1 .. 10 : FieldHeld(k)
  BY DEF KernelMain, Published
<1>2. InfoAccepted
  <2>1. KernelImage(rom)
    BY KernelAssumption DEF IInv, TypeOK
  <2>2. ImageSize(rom) # 0 /\ ModuleTable(rom) # 0 /\ ModuleCount(rom) = 1
    BY <2>1 DEF KernelImage
  <2> QED
    BY <1>1, <2>2, RecordRead, DataRead DEF InfoAccepted
<1>3. trace' = "20000001"
  BY <1>1, <1>2, DataRead DEF KernelMain
<1>4. \A k \in 1 .. 10 : FieldHeld(k)'
  BY <1>1 DEF FieldHeld
<1> QED
  BY <1>1, <1>3, <1>4 DEF Published

\* Every step keeps the published record.
LEMMA NextPublished == IInv /\ Published /\ [Next]_vars => Published'
<1> SUFFICES ASSUME IInv, Published, [Next]_vars PROVE Published'
  OBVIOUS
<1>1. CASE Segment \/ CopyByte \/ ZeroByte
  BY <1>1 DEF Published, Segment, CopyByte, ZeroByte
<1>2. CASE ClearInfo
  BY <1>2 DEF Published, ClearInfo
<1>3. CASE WriteInfo
  BY <1>3, WritePublished
<1>4. CASE Enter
  <2>1. /\ pc = "field" /\ pc' = "kernel_main" /\ r0' = BOOT_INFO_VADDR /\ UNCHANGED <<rom, ram, trace>>
        /\ index > 10 /\ index \in Nat
    BY <1>4, FieldCount DEF Enter, IInv, TypeOK
  <2>2. \A k \in 1 .. 10 : FieldHeld(k)
    BY <2>1 DEF Published
  <2>3. \A k \in 1 .. 10 : FieldHeld(k)'
    BY <2>1, <2>2 DEF FieldHeld
  <2> QED
    BY <2>1, <2>3 DEF Published
<1>5. CASE KernelMain
  BY <1>5, MainPublished
<1>6. CASE FailStop \/ UNCHANGED vars
  <2>1. UNCHANGED <<rom, ram, pc, index, r0, trace>>
    BY <1>6 DEF FailStop, vars
  <2>2. \A k \in 1 .. 10 : FieldHeld(k) => FieldHeld(k)'
    BY <2>1 DEF FieldHeld
  <2> QED
    BY <2>1, <2>2 DEF Published
<1> QED
  BY <1>1, <1>2, <1>3, <1>4, <1>5, <1>6 DEF Next

\* The starter kernel accepts what the loader publishes: with any image its
\* build packs, main.c never reports 0xb007bad0 or 0xb007bad1.
THEOREM KernelStarts == Spec => []KernelAccepts
<1>1. Init => Published
  BY DEF Init, Published
<1>2. Published => KernelAccepts
  BY DEF Published, KernelAccepts
<1>3. Spec => []Published
  BY <1>1, NextPublished, Invariant, PTL DEF Spec
<1> QED
  BY <1>2, <1>3, PTL
=============================================================================
