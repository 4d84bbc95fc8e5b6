----------------------------- MODULE UserLoader -----------------------------
(***************************************************************************)
(* The loader of examples/user-mode-hello/kernel/main.c: it maps system    *)
(* ROM, finds the module, checks its segments, builds the user pages and   *)
(* their table, and enters user mode; any refusal ends in fail_stop.  A    *)
(* step is one pass of the innermost loop around user_page_index.          *)
(* The records come from the image and are not trusted: every number is a  *)
(* 32-bit value, and sums wrap as the code's do.                           *)
(***************************************************************************)
EXTENDS Integers, Sequences, FiniteSets

CONSTANTS
  WordSpan,            \* 2^32
  PAGE_SIZE,           \* 4096
  InstructionSize,     \* 4
  RecordSize,          \* 32, the shift by 5 in image_records_valid
  SYSTEM_ROM_SIZE,     \* bytes of system ROM
  TablePages,          \* pages one table maps (1024)
  ROM_TABLE_COUNT,     \* SYSTEM_ROM_TABLE_COUNT
  USER_IMAGE_BASE, USER_STACK_BOTTOM,
  MAX_USER_IMAGE_PAGES,
  Rom,                 \* Rom[o]: the byte of the image at offset o
  BootInfos            \* what the boot-info record and the image may say

\* The three flags a segment may have; anything else in the word is "unknown".
\* pte_flags_from_segment gives a page the bits of the same names.
READABLE   == "r"
WRITABLE   == "w"
EXECUTABLE == "x"
UserFlags  == {READABLE, WRITABLE, EXECUTABLE}

\* The records of boot.h: 32-bit fields, and the tables they point to.
Words    == 0 .. WordSpan - 1
Segments == [vaddr : Words, memory_size : Words, file_size : Words, data_offset : Words,
             flags : SUBSET (UserFlags \cup {"unknown"})]
Modules  == [named : BOOLEAN, name_offset : Words, name_length : Words, segment_table_offset : Words,
             segments : Seq(Segments), entry : Words]
Infos    == [ok : BOOLEAN, image_size : Words, module_table_offset : Words, modules : Seq(Modules)]

ASSUME UserAssumption ==
  /\ {WordSpan, PAGE_SIZE, InstructionSize, RecordSize, TablePages} \subseteq Nat \ {0}
  /\ {SYSTEM_ROM_SIZE, ROM_TABLE_COUNT, MAX_USER_IMAGE_PAGES} \subseteq Nat
  /\ {USER_IMAGE_BASE, USER_STACK_BOTTOM} \subseteq 1 .. WordSpan - 1
  /\ USER_IMAGE_BASE % PAGE_SIZE = 0 /\ USER_STACK_BOTTOM % PAGE_SIZE = 0
  /\ USER_IMAGE_BASE < USER_STACK_BOTTOM
  /\ BootInfos \subseteq Infos

Plus(a, b)  == (a + b) % WordSpan
Minus(a, b) == (a - b) % WordSpan
PageOf(v)   == v - (v % PAGE_SIZE)
Offsets     == 0 .. PAGE_SIZE - 1

VARIABLES
  info,                \* the boot-info record and the records of the image
  pc,                  \* where kernel_main is
  rom_pages,           \* pages of system ROM that are mapped
  module,              \* the index of the module found
  segment,             \* the index of the segment loop
  vaddr, length,       \* the cursor of prepare_user_range or write_user_range
  source,              \* its source pointer, an offset into the image
  entry_is_executable,
  user_page_vaddrs, user_page_flags,  \* sequences of length user_page_count
  user_image_pages,    \* the frames: bytes; frame 0 is user_stack
  user_page_table      \* user_page_table[page]: frame and flags

loopVars == <<module, segment, vaddr, length, source, entry_is_executable>>
pageVars == <<user_page_vaddrs, user_page_flags, user_image_pages>>
vars == <<info, pc, rom_pages, loopVars, pageVars, user_page_table>>

\* All but the bytes of the frames.
loaderVars == <<info, pc, rom_pages, loopVars, user_page_vaddrs, user_page_flags, user_page_table>>

STACK  == 0
Frames == {STACK} \cup 1 .. MAX_USER_IMAGE_PAGES

Init ==
  /\ info \in BootInfos
  /\ pc = "check"
  /\ rom_pages = 0
  /\ module = 1 /\ segment = 1
  /\ vaddr = 0 /\ length = 0 /\ source = 0
  /\ entry_is_executable = FALSE
  /\ user_page_vaddrs = <<>> /\ user_page_flags = <<>>
  /\ user_image_pages = [f \in Frames |-> [o \in Offsets |-> 0]]
  /\ user_page_table = [p \in {} |-> 0]

Module   == info.modules[module]
Segment  == Module.segments[segment]

\* The end of the range computed before it is compared.
image_range_wraps(offset, size) == Plus(offset, size) =< info.image_size

image_range_valid(offset, size) ==
  offset =< info.image_size /\ size =< info.image_size - offset

image_records_valid(offset, count) ==
  offset =< info.image_size /\ count =< (info.image_size - offset) \div RecordSize

-----------------------------------------------------------------------------
(* kernel_main, map_system_rom and find_module                             *)

\* Pages and tables the image needs.
RomPageCount == (info.image_size + PAGE_SIZE - 1) \div PAGE_SIZE
RomTableCount == (RomPageCount + TablePages - 1) \div TablePages

\* info.ok: magic, version, size, direct map and system_rom_base are the
\* expected ones.
Check ==
  /\ pc = "check"
  /\ IF /\ info.ok
        /\ info.image_size # 0 /\ info.image_size =< SYSTEM_ROM_SIZE
        /\ RomTableCount =< ROM_TABLE_COUNT
     THEN rom_pages' = RomPageCount /\ pc' = "find"
     ELSE rom_pages' = rom_pages /\ pc' = "fail_stop"
  /\ UNCHANGED <<info, loopVars, pageVars, user_page_table>>

\* The first record with the name; its count is bounded before it is read.
FindModule ==
  /\ pc = "find"
  /\ LET found(m) == info.modules[m].named /\ image_range_valid(info.modules[m].name_offset, info.modules[m].name_length)
     IN  IF /\ image_records_valid(info.module_table_offset, Len(info.modules))
            /\ \E m \in DOMAIN info.modules : found(m)
         THEN /\ module' = CHOOSE m \in DOMAIN info.modules :
                             found(m) /\ \A k \in 1 .. m - 1 : ~found(k)
              /\ pc' = "module"
         ELSE module' = module /\ pc' = "fail_stop"
  /\ UNCHANGED <<info, rom_pages, segment, vaddr, length, source, entry_is_executable, pageVars,
                 user_page_table>>

-----------------------------------------------------------------------------
(* load_user_module                                                        *)

ModuleAccepted ==
  /\ Len(Module.segments) # 0
  /\ image_records_valid(Module.segment_table_offset, Len(Module.segments))
  /\ Module.entry % InstructionSize = 0

RefuseModule ==
  /\ pc = "module"
  /\ ~ModuleAccepted
  /\ pc' = "fail_stop"
  /\ UNCHANGED <<info, rom_pages, loopVars, pageVars, user_page_table>>

StartModule ==
  /\ pc = "module"
  /\ ModuleAccepted
  /\ pc' = "segment"
  /\ segment' = 1
  /\ entry_is_executable' = FALSE
  /\ user_page_vaddrs' = <<>> /\ user_page_flags' = <<>>
  /\ user_page_table' = [p \in {} |-> 0]
  /\ user_image_pages' = [user_image_pages EXCEPT ![STACK] = [o \in Offsets |-> 0]]
  /\ UNCHANGED <<info, rom_pages, module, vaddr, length, source>>

\* Execution without reading is let through.
SegmentAcceptedUnreadable(s) ==
  /\ s.memory_size # 0 /\ s.file_size =< s.memory_size
  /\ s.flags \subseteq UserFlags
  /\ s.vaddr >= USER_IMAGE_BASE /\ s.vaddr < USER_STACK_BOTTOM
  /\ s.memory_size =< USER_STACK_BOTTOM - s.vaddr
  /\ image_range_valid(s.data_offset, s.file_size)

SegmentAccepted(s) ==
  /\ s.memory_size # 0 /\ s.file_size =< s.memory_size
  /\ s.flags \subseteq UserFlags
  /\ EXECUTABLE \in s.flags => READABLE \in s.flags
  /\ s.vaddr >= USER_IMAGE_BASE /\ s.vaddr < USER_STACK_BOTTOM
  /\ s.memory_size =< USER_STACK_BOTTOM - s.vaddr
  /\ image_range_valid(s.data_offset, s.file_size)

\* The head of the segment loop and, after the last one, the entry check.
NextSegment ==
  /\ pc = "segment"
  /\ IF segment =< Len(Module.segments)
     THEN IF SegmentAccepted(Segment)
          THEN pc' = "prepare" /\ vaddr' = PageOf(Segment.vaddr)
          ELSE pc' = "fail_stop" /\ vaddr' = vaddr
     ELSE pc' = (IF entry_is_executable THEN "map" ELSE "fail_stop") /\ vaddr' = vaddr
  /\ UNCHANGED <<info, rom_pages, module, segment, length, source, entry_is_executable, pageVars,
                 user_page_table>>

\* The entries of user_page_vaddrs that hold page p; the code takes the first.
Holding(p) == {i \in DOMAIN user_page_vaddrs : user_page_vaddrs[i] = p}

\* A page is shared whatever its flags are.
PrepareAnyFlags ==
  /\ pc = "prepare"
  /\ vaddr < Plus(Segment.vaddr, Segment.memory_size)
  /\ \/ /\ Holding(vaddr) # {}
        /\ vaddr' = Plus(vaddr, PAGE_SIZE)
        /\ UNCHANGED <<pc, pageVars>>
     \/ /\ Holding(vaddr) = {} /\ Len(user_page_vaddrs) = MAX_USER_IMAGE_PAGES
        /\ pc' = "fail_stop"
        /\ UNCHANGED <<vaddr, pageVars>>
     \/ /\ Holding(vaddr) = {} /\ Len(user_page_vaddrs) # MAX_USER_IMAGE_PAGES
        /\ user_page_vaddrs' = Append(user_page_vaddrs, vaddr)
        /\ user_page_flags' = Append(user_page_flags, Segment.flags)
        /\ user_image_pages' = [user_image_pages EXCEPT ![Len(user_page_vaddrs) + 1] = [o \in Offsets |-> 0]]
        /\ vaddr' = Plus(vaddr, PAGE_SIZE)
        /\ UNCHANGED pc
  /\ UNCHANGED <<info, rom_pages, module, segment, length, source, entry_is_executable, user_page_table>>

\* The pool's limit is not checked.
PrepareUnlimited ==
  /\ pc = "prepare"
  /\ vaddr < Plus(Segment.vaddr, Segment.memory_size)
  /\ \/ /\ \E i \in Holding(vaddr) : user_page_flags[i] = Segment.flags
        /\ vaddr' = Plus(vaddr, PAGE_SIZE)
        /\ UNCHANGED <<pc, pageVars>>
     \/ /\ \E i \in Holding(vaddr) : user_page_flags[i] # Segment.flags
        /\ pc' = "fail_stop"
        /\ UNCHANGED <<vaddr, pageVars>>
     \/ /\ Holding(vaddr) = {}
        /\ user_page_vaddrs' = Append(user_page_vaddrs, vaddr)
        /\ user_page_flags' = Append(user_page_flags, Segment.flags)
        /\ vaddr' = Plus(vaddr, PAGE_SIZE)
        /\ UNCHANGED <<pc, user_image_pages>>
  /\ UNCHANGED <<info, rom_pages, module, segment, length, source, entry_is_executable, user_page_table>>

\* One page of prepare_user_range: user_page_index(page, flags, true).
PreparePage ==
  /\ pc = "prepare"
  /\ vaddr < Plus(Segment.vaddr, Segment.memory_size)
  /\ \/ /\ \E i \in Holding(vaddr) : user_page_flags[i] = Segment.flags
        /\ vaddr' = Plus(vaddr, PAGE_SIZE)
        /\ UNCHANGED <<pc, pageVars>>
     \/ /\ \/ \E i \in Holding(vaddr) : user_page_flags[i] # Segment.flags
           \/ Holding(vaddr) = {} /\ Len(user_page_vaddrs) = MAX_USER_IMAGE_PAGES
        /\ pc' = "fail_stop"
        /\ UNCHANGED <<vaddr, pageVars>>
     \/ /\ Holding(vaddr) = {} /\ Len(user_page_vaddrs) # MAX_USER_IMAGE_PAGES
        /\ user_page_vaddrs' = Append(user_page_vaddrs, vaddr)
        /\ user_page_flags' = Append(user_page_flags, Segment.flags)
        /\ user_image_pages' = [user_image_pages EXCEPT ![Len(user_page_vaddrs) + 1] = [o \in Offsets |-> 0]]
        /\ vaddr' = Plus(vaddr, PAGE_SIZE)
        /\ UNCHANGED pc
  /\ UNCHANGED <<info, rom_pages, module, segment, length, source, entry_is_executable, user_page_table>>

Prepared ==
  /\ pc = "prepare"
  /\ ~(vaddr < Plus(Segment.vaddr, Segment.memory_size))
  /\ pc' = "zero"
  /\ vaddr' = Segment.vaddr
  /\ length' = Segment.memory_size
  /\ UNCHANGED <<info, rom_pages, module, segment, source, entry_is_executable, pageVars, user_page_table>>

\* The bytes of one page that write_user_range reaches in one pass.
Offset == vaddr % PAGE_SIZE
Chunk  == IF PAGE_SIZE - Offset > length THEN length ELSE PAGE_SIZE - Offset

\* Zeroing from the start of the page to its end.
WriteWholePage ==
  /\ pc \in {"zero", "copy"}
  /\ length # 0
  /\ \E i \in Holding(PageOf(vaddr)) :
       user_image_pages' = [user_image_pages EXCEPT ![i] =
         [o \in Offsets |-> IF pc = "zero" THEN 0
                            ELSE IF o \in Offset .. Offset + Chunk - 1 THEN Rom[source + (o - Offset)] ELSE @[o]]]
  /\ pc' = pc
  /\ vaddr' = Plus(vaddr, Chunk)
  /\ length' = length - Chunk
  /\ source' = IF pc = "zero" THEN source ELSE source + Chunk
  /\ UNCHANGED <<info, rom_pages, module, segment, entry_is_executable, user_page_vaddrs, user_page_flags,
                 user_page_table>>

\* One pass of write_user_range, from nowhere (zeros) or from the image.
WriteChunk ==
  /\ pc \in {"zero", "copy"}
  /\ length # 0
  /\ IF Holding(PageOf(vaddr)) = {}
     THEN pc' = "fail_stop" /\ UNCHANGED <<user_image_pages, vaddr, length, source>>
     ELSE /\ user_image_pages' =
               [i \in Frames |-> [o \in Offsets |->
                  IF i \in Holding(PageOf(vaddr)) /\ o \in Offset .. Offset + Chunk - 1
                  THEN IF pc = "zero" THEN 0 ELSE Rom[source + (o - Offset)]
                  ELSE user_image_pages[i][o]]]
          /\ vaddr' = Plus(vaddr, Chunk)
          /\ length' = length - Chunk
          /\ source' = IF pc = "zero" THEN source ELSE source + Chunk
          /\ pc' = pc
  /\ UNCHANGED <<info, rom_pages, module, segment, entry_is_executable, user_page_vaddrs, user_page_flags,
                 user_page_table>>

Zeroed ==
  /\ pc = "zero" /\ length = 0
  /\ pc' = "copy"
  /\ vaddr' = Segment.vaddr
  /\ length' = Segment.file_size
  /\ source' = Segment.data_offset
  /\ UNCHANGED <<info, rom_pages, module, segment, entry_is_executable, pageVars, user_page_table>>

\* Whether the entry lies in file bytes of an executable segment.
HoldsEntry(s) ==
  /\ EXECUTABLE \in s.flags /\ s.file_size >= InstructionSize
  /\ Module.entry >= s.vaddr
  /\ Minus(Module.entry, s.vaddr) =< s.file_size - InstructionSize

\* Without the ++index of the segment loop.
CopiedAgain ==
  /\ pc = "copy" /\ length = 0
  /\ entry_is_executable' = (entry_is_executable \/ HoldsEntry(Segment))
  /\ pc' = "segment"
  /\ UNCHANGED <<info, rom_pages, module, segment, vaddr, length, source, pageVars, user_page_table>>

Copied ==
  /\ pc = "copy" /\ length = 0
  /\ entry_is_executable' = (entry_is_executable \/ HoldsEntry(Segment))
  /\ segment' = segment + 1
  /\ pc' = "segment"
  /\ UNCHANGED <<info, rom_pages, module, vaddr, length, source, pageVars, user_page_table>>

\* The user table: every prepared page, and the stack without execution.
MapUser ==
  /\ pc = "map"
  /\ user_page_table' =
       [p \in {user_page_vaddrs[i] : i \in DOMAIN user_page_vaddrs} \cup {USER_STACK_BOTTOM} |->
          IF p = USER_STACK_BOTTOM
          THEN [frame |-> STACK, flags |-> {READABLE, WRITABLE}]
          ELSE LET i == CHOOSE i \in Holding(p) : TRUE IN [frame |-> i, flags |-> user_page_flags[i]]]
  /\ pc' = "user"
  /\ UNCHANGED <<info, rom_pages, loopVars, pageVars>>

\* User mode and fail_stop: the loader is over.
Over == pc \in {"user", "fail_stop"} /\ UNCHANGED vars

Next ==
  \/ Check
  \/ FindModule
  \/ RefuseModule
  \/ StartModule
  \/ NextSegment
  \/ PreparePage
  \/ Prepared
  \/ WriteChunk
  \/ Zeroed
  \/ Copied
  \/ MapUser
  \/ Over

-----------------------------------------------------------------------------
(* Properties                                                              *)

\* The cursor stays a 32-bit value and the page pool within its limit.
TypeOK ==
  /\ pc \in {"check", "find", "module", "segment", "prepare", "zero", "copy", "map", "user", "fail_stop"}
  /\ Len(user_page_vaddrs) = Len(user_page_flags)
  /\ Len(user_page_vaddrs) =< MAX_USER_IMAGE_PAGES
  /\ vaddr \in 0 .. WordSpan - 1 /\ length \in 0 .. WordSpan - 1 /\ source \in Nat

\* The addresses and the pages a segment asks for, without wrapping.
Extent(s)  == s.vaddr .. s.vaddr + s.memory_size - 1
Touched(s) == {PageOf(v) : v \in Extent(s)}

AllSegments == {Module.segments[k] : k \in DOMAIN Module.segments}
AllTouched  == UNION {Touched(s) : s \in AllSegments}

\* Which images can be loaded, said without the order in which the code looks.
Loadable ==
  /\ info.ok /\ info.image_size \in 1 .. SYSTEM_ROM_SIZE
  /\ info.image_size =< ROM_TABLE_COUNT * TablePages * PAGE_SIZE
  /\ info.module_table_offset + RecordSize * Len(info.modules) =< info.image_size
  /\ \E m \in DOMAIN info.modules :
       info.modules[m].named /\ info.modules[m].name_offset + info.modules[m].name_length =< info.image_size
  /\ Module.segments # <<>>
  /\ Module.segment_table_offset + RecordSize * Len(Module.segments) =< info.image_size
  /\ \A s \in AllSegments :
       /\ s.memory_size > 0 /\ s.file_size =< s.memory_size
       /\ s.flags \in {{}, {"r"}, {"w"}, {"r", "w"}, {"r", "x"}, {"r", "w", "x"}}
       /\ Extent(s) \subseteq USER_IMAGE_BASE .. USER_STACK_BOTTOM - 1
       /\ s.data_offset + s.file_size =< info.image_size
  /\ \A s, t \in AllSegments : Touched(s) \cap Touched(t) # {} => s.flags = t.flags
  /\ Cardinality(AllTouched) =< MAX_USER_IMAGE_PAGES
  /\ Module.entry % InstructionSize = 0
  /\ \E s \in AllSegments : "x" \in s.flags
       /\ Module.entry .. Module.entry + InstructionSize - 1 \subseteq s.vaddr .. s.vaddr + s.file_size - 1

\* User mode is entered exactly for the images that can be loaded: no wrap of
\* a sum, no order of the segments and no limit of the page pool lets another
\* one through or stops a good one (main.c lines 204-249, 306-322).
AcceptsExactly == (pc = "user" => Loadable) /\ (pc = "fail_stop" => ~Loadable)

\* The byte the user must find at v: of the last segment that covers it.
ExpectedByte(v) ==
  LET covering == {k \in DOMAIN Module.segments : v \in Extent(Module.segments[k])}
      last == Module.segments[CHOOSE k \in covering : \A j \in covering : j =< k]
  IN  IF covering = {} THEN 0
      ELSE IF v - last.vaddr < last.file_size THEN Rom[last.data_offset + (v - last.vaddr)] ELSE 0

\* Exactly the stack and the pages the segments ask for are mapped, each on a
\* frame of its own, the stack without execution and the others with the
\* permissions of their segments.
Mapped ==
  /\ DOMAIN user_page_table = AllTouched \cup {USER_STACK_BOTTOM}
  /\ \A p, q \in DOMAIN user_page_table : user_page_table[p].frame = user_page_table[q].frame => p = q
  /\ user_page_table[USER_STACK_BOTTOM].flags = {READABLE, WRITABLE}
  /\ \A s \in AllSegments : \A p \in Touched(s) : user_page_table[p].flags = s.flags

\* Page p holds the bytes that the image describes.
HoldsImage(p) == \A o \in Offsets : user_image_pages[user_page_table[p].frame][o] = ExpectedByte(p + o)

\* The copy only reads bytes of the image, through pages of ROM that
\* map_system_rom has mapped.
ReadsMapped ==
  pc = "copy" /\ length # 0 =>
    source + Chunk =< info.image_size /\ source + Chunk =< rom_pages * PAGE_SIZE

\* How far kernel_main has come: the part it is in, within the segment loop the
\* loop over one segment's range, and within that what is left of the range.
SegmentLoop == {"segment", "prepare", "zero", "copy"}
Part ==
  CASE pc = "check" -> 0 [] pc = "find" -> 1 [] pc = "module" -> 2
    [] pc \in SegmentLoop -> 3
    [] pc = "map" -> 4 [] OTHER -> 5
Pass ==
  CASE pc = "prepare" -> 1 [] pc = "zero" -> 2 [] pc = "copy" -> 3 [] OTHER -> 0
Remaining ==
  CASE pc = "prepare" -> USER_STACK_BOTTOM - vaddr [] pc \in {"zero", "copy"} -> length [] OTHER -> 0

\* No field of the image can keep the loader in its loops (main.c lines 164-199
\* and 213-246): every step leads to a later part, to a later segment of the
\* table, to a later loop over the segment's range, or leaves strictly less of
\* that range.  Each of these is bounded, so the loader ends, and nothing that
\* the user does later changes its tables.
LoadAdvances ==
  [][\/ Part' > Part
     \/ /\ pc \in SegmentLoop /\ pc' \in SegmentLoop /\ UNCHANGED <<info, module>>
        /\ \/ segment =< Len(Module.segments) /\ segment' = segment + 1
           \/ segment' = segment /\ Pass' > Pass
           \/ segment' = segment /\ Pass' = Pass /\ Remaining' \in 0 .. Remaining - 1]_loaderVars
=============================================================================
