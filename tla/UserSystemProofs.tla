-------------------------- MODULE UserSystemProofs --------------------------
(***************************************************************************)
(* Proofs about user-mode-hello, for every page size, address layout and   *)
(* page pool that UserAssumption allows and for every boot-info record,    *)
(* whatever modules and segments it names and whatever the user's program  *)
(* stores and calls.  First the loader, whose invariant IInv holds until   *)
(* user mode is entered; then the system as a whole: the user's stores     *)
(* keep all of it but the bytes of the pages that are writable, and the    *)
(* user's table lets the kernel read the calling instruction.              *)
(***************************************************************************)
EXTENDS UserSystem, FiniteSetTheorems, WellFoundedInduction, TLAPS

-----------------------------------------------------------------------------
(* Arithmetic                                                              *)

\* A set of naturals that is not empty has a least element.
LEMMA LeastNatural ==
  ASSUME NEW S \in SUBSET Nat, S # {}
  PROVE  \E n \in S : \A m \in S : n =< m
<1>1. \E n \in S : \A m \in S : ~(<<m, n>> \in OpToRel(<, Nat))
  BY NatLessThanWellFounded, WFMin
<1>2. OpToRel(<, Nat) = {ss \in Nat \X Nat : ss[1] < ss[2]}
  BY Zenon DEF OpToRel
<1>3. \A m, n \in Nat : <<m, n>> \in {ss \in Nat \X Nat : ss[1] < ss[2]} <=> m < n
  OBVIOUS
<1>4. \A m, n \in Nat : <<m, n>> \in OpToRel(<, Nat) <=> m < n
  BY <1>2, <1>3, Zenon
<1>5. PICK n \in S : \A m \in S : ~(<<m, n>> \in OpToRel(<, Nat))
  BY <1>1, Zenon
<1>6. \A m \in S : ~(m < n)
  BY <1>4, <1>5, Zenon
<1> QED
  BY <1>6

\* Division rounds down.
LEMMA DivBound ==
  ASSUME NEW a \in Nat, NEW n \in Nat, NEW d \in Nat \ {0}
  PROVE  n =< a \div d <=> d * n =< a
  OBVIOUS

\* Division with + d - 1 rounds up.
LEMMA DivCeiling ==
  ASSUME NEW a \in Nat, NEW n \in Nat, NEW d \in Nat \ {0}
  PROVE  (a + d - 1) \div d =< n <=> a =< d * n
<1>1. ~(n + 1 =< (a + d - 1) \div d) <=> ~(d * (n + 1) =< a + d - 1)
  BY DivBound
<1>2. (a + d - 1) \div d \in Nat
  OBVIOUS
<1>3. d * (n + 1) = d * n + d /\ d * n \in Nat
  OBVIOUS
<1> QED
  BY <1>1, <1>2, <1>3

\* Quotient and remainder.
LEMMA ModUnique ==
  ASSUME NEW q \in Nat, NEW r \in Nat, NEW d \in Nat \ {0}, r < d
  PROVE  (d * q + r) % d = r
  OBVIOUS

\* Division with remainder.
LEMMA DivMod ==
  ASSUME NEW a \in Nat, NEW d \in Nat \ {0}
  PROVE  \E q \in Nat : a % d \in Nat /\ a % d < d /\ a = d * q + (a % d)
<1>1. a \div d \in Nat
  OBVIOUS
<1>2. a % d \in Nat /\ a % d < d /\ a = d * (a \div d) + (a % d)
  OBVIOUS
<1> QED
  BY <1>1, <1>2, Zenon

\* Sums below 2^32 do not wrap.
LEMMA PlusSmall ==
  ASSUME NEW a \in Nat, NEW b \in Nat, a + b < WordSpan
  PROVE  Plus(a, b) = a + b
  BY UserAssumption DEF Plus

-----------------------------------------------------------------------------
(* Pages                                                                   *)

IsPage(p) == p \in Nat /\ p % PAGE_SIZE = 0

\* Pages begin at the multiples of the page size.
LEMMA PageMultiple ==
  ASSUME NEW p
  PROVE  IsPage(p) <=> \E q \in Nat : p = PAGE_SIZE * q
<1>1. PAGE_SIZE \in Nat \ {0}
  BY UserAssumption
<1>2. ASSUME NEW q \in Nat, p = PAGE_SIZE * q PROVE IsPage(p)
  <2>1. (PAGE_SIZE * q + 0) % PAGE_SIZE = 0
    BY <1>1, ModUnique
  <2>2. p \in Nat /\ PAGE_SIZE * q + 0 = p
    BY <1>1, <1>2
  <2> QED
    BY <2>1, <2>2 DEF IsPage
<1>3. ASSUME IsPage(p) PROVE \E q \in Nat : p = PAGE_SIZE * q
  <2>1. PICK q \in Nat : p = PAGE_SIZE * q + (p % PAGE_SIZE)
    BY <1>1, <1>3, DivMod DEF IsPage
  <2> QED
    BY <1>1, <1>3, <2>1 DEF IsPage
<1> QED
  BY <1>2, <1>3

\* The page of an address begins at or below it, less than a page away.
LEMMA PageOfFacts ==
  ASSUME NEW v \in Nat
  PROVE  /\ IsPage(PageOf(v)) /\ PageOf(v) \in Nat
         /\ PageOf(v) =< v /\ v < PageOf(v) + PAGE_SIZE
         /\ v % PAGE_SIZE = v - PageOf(v) /\ v % PAGE_SIZE \in Nat /\ v % PAGE_SIZE < PAGE_SIZE
<1>1. PAGE_SIZE \in Nat \ {0}
  BY UserAssumption
<1>2. PICK q \in Nat : v % PAGE_SIZE \in Nat /\ v % PAGE_SIZE < PAGE_SIZE /\ v = PAGE_SIZE * q + (v % PAGE_SIZE)
  BY <1>1, DivMod
<1>3. PICK r \in Nat, p \in Nat : r = v % PAGE_SIZE /\ p = PAGE_SIZE * q /\ r < PAGE_SIZE /\ v = p + r
  <2>1. PAGE_SIZE * q \in Nat
    BY <1>1
  <2> QED
    BY <1>2, <2>1, Zenon
<1>4. PageOf(v) = v - r
  BY <1>3 DEF PageOf
<1>5. v - r = p /\ p =< v /\ v < p + PAGE_SIZE /\ r = v - p
  BY <1>1, <1>3
<1>6. IsPage(p)
  BY <1>3, PageMultiple
<1>7. PageOf(v) = p
  BY <1>4, <1>5
<1> QED
  BY <1>3, <1>5, <1>6, <1>7, Zenon

\* Pages are a page apart.
LEMMA PageStep ==
  ASSUME NEW p, NEW b, IsPage(p), IsPage(b), p < b
  PROVE  p + PAGE_SIZE =< b /\ IsPage(p + PAGE_SIZE)
<1>1. PAGE_SIZE \in Nat \ {0}
  BY UserAssumption
<1>2. PICK i \in Nat, j \in Nat : p = PAGE_SIZE * i /\ b = PAGE_SIZE * j
  BY PageMultiple
<1>3. i + 1 =< j
  BY <1>1, <1>2
<1>4. PAGE_SIZE * (i + 1) = p + PAGE_SIZE /\ PAGE_SIZE * (i + 1) =< PAGE_SIZE * j
  BY <1>1, <1>2, <1>3
<1> QED
  BY <1>2, <1>4, PageMultiple

\* An address is on the page that begins less than a page below it.
LEMMA PageUnique ==
  ASSUME NEW p, IsPage(p), NEW v \in Nat, p =< v, v < p + PAGE_SIZE
  PROVE  PageOf(v) = p
<1>1. PAGE_SIZE \in Nat /\ p \in Nat
  BY UserAssumption DEF IsPage
<1>2. PICK w \in Nat : w = PageOf(v) /\ IsPage(w) /\ w =< v /\ v < w + PAGE_SIZE
  BY PageOfFacts, Zenon
<1>3. p < w => p + PAGE_SIZE =< w
  BY <1>2, PageStep
<1>4. w < p => w + PAGE_SIZE =< p
  BY <1>2, PageStep
<1> QED
  BY <1>1, <1>2, <1>3, <1>4

\* An offset stays in its page.
LEMMA PageOffset ==
  ASSUME NEW p, IsPage(p), NEW o \in Offsets
  PROVE  PageOf(p + o) = p /\ p + o \in Nat
<1>1. PAGE_SIZE \in Nat /\ p \in Nat /\ o \in Nat /\ o < PAGE_SIZE
  BY UserAssumption DEF IsPage, Offsets
<1> QED
  BY <1>1, PageUnique

\* The constants that are pages.
LEMMA Bounds ==
  /\ PAGE_SIZE \in Nat \ {0} /\ WordSpan \in Nat \ {0}
  /\ IsPage(USER_STACK_BOTTOM) /\ USER_STACK_BOTTOM \in Nat /\ USER_STACK_BOTTOM < WordSpan
  /\ USER_IMAGE_BASE \in Nat
  BY UserAssumption DEF IsPage

-----------------------------------------------------------------------------
(* The inductive invariant                                                 *)

InSegments == {"segment", "prepare", "zero", "copy", "map", "user"}
Working    == {"prepare", "zero", "copy"}

Segs == Module.segments

\* The last segment that was accepted.
LastSegment == IF pc \in Working THEN segment ELSE segment - 1

\* What has to be so for prepare_user_range and write_user_range to work.
Fits(s) ==
  /\ s.memory_size # 0 /\ s.file_size =< s.memory_size
  /\ s.vaddr >= USER_IMAGE_BASE /\ s.vaddr < USER_STACK_BOTTOM
  /\ s.memory_size =< USER_STACK_BOTTOM - s.vaddr

Typed ==
  /\ TypeOK
  /\ info \in Infos
  /\ user_page_vaddrs \in Seq(Nat)
  /\ user_page_flags \in Seq(SUBSET (UserFlags \cup {"unknown"}))
  /\ DOMAIN user_image_pages = Frames
  /\ segment \in Nat
  /\ entry_is_executable \in BOOLEAN

ImageOK ==
  pc \notin {"check", "fail_stop"} =>
    /\ info.ok
    /\ info.image_size # 0 /\ info.image_size =< SYSTEM_ROM_SIZE
    /\ RomTableCount =< ROM_TABLE_COUNT
    /\ rom_pages = RomPageCount

ModuleOK ==
  pc \notin {"check", "find", "fail_stop"} =>
    /\ image_records_valid(info.module_table_offset, Len(info.modules))
    /\ module \in DOMAIN info.modules
    /\ Module.named /\ image_range_valid(Module.name_offset, Module.name_length)

LoopOK ==
  pc \in InSegments =>
    /\ ModuleAccepted
    /\ segment \in 1 .. Len(Segs) + 1
    /\ pc \in Working => segment =< Len(Segs)
    /\ pc \in {"map", "user"} => segment = Len(Segs) + 1 /\ entry_is_executable
    /\ \A k \in 1 .. LastSegment : SegmentAccepted(Segs[k])
    /\ entry_is_executable <=> \E k \in 1 .. segment - 1 : HoldsEntry(Segs[k])

CursorOK ==
  /\ pc = "prepare" =>
       IsPage(vaddr) /\ PageOf(Segment.vaddr) =< vaddr /\ vaddr =< USER_STACK_BOTTOM
  /\ pc = "zero" =>
       Segment.vaddr =< vaddr /\ vaddr + length = Segment.vaddr + Segment.memory_size
  /\ pc = "copy" =>
       /\ Segment.vaddr =< vaddr /\ vaddr + length = Segment.vaddr + Segment.file_size
       /\ source = Segment.data_offset + (vaddr - Segment.vaddr)

\* Every page in the pool was asked for, and no page is there twice.
PagesAsked ==
  pc \in InSegments =>
    /\ \A i, j \in DOMAIN user_page_vaddrs : user_page_vaddrs[i] = user_page_vaddrs[j] => i = j
    /\ \A i \in DOMAIN user_page_vaddrs : \E k \in 1 .. LastSegment :
         user_page_vaddrs[i] \in Touched(Segs[k]) /\ user_page_flags[i] = Segs[k].flags

\* Every page that was asked for is in the pool; of the segment being
\* prepared, those below the cursor.
PagesHeld ==
  pc \in InSegments =>
    \A k \in 1 .. LastSegment : \A p \in Touched(Segs[k]) :
      (pc = "prepare" /\ k = segment => p < vaddr) =>
        \E i \in DOMAIN user_page_vaddrs : user_page_vaddrs[i] = p /\ user_page_flags[i] = Segs[k].flags

\* The byte at v after the segments below n.
Covering(v, n) == {k \in DOMAIN Segs : k < n /\ v \in Extent(Segs[k])}
ByteOf(s, v)   == IF v - s.vaddr < s.file_size THEN Rom[s.data_offset + (v - s.vaddr)] ELSE 0
Greatest(S)    == CHOOSE k \in S : \A j \in S : j =< k
ByteAfter(v, n) ==
  IF Covering(v, n) = {} THEN 0 ELSE ByteOf(Segs[Greatest(Covering(v, n))], v)

\* The byte at v now: the cursor of write_user_range divides the segment.
ByteNow(v) ==
  IF pc = "zero" /\ v \in Extent(Segment) /\ v < vaddr THEN 0
  ELSE IF pc = "copy" /\ v \in Extent(Segment) THEN IF v < vaddr THEN ByteOf(Segment, v) ELSE 0
  ELSE ByteAfter(v, segment)

BytesOK ==
  pc \in InSegments =>
    \A i \in DOMAIN user_page_vaddrs, o \in Offsets :
      user_image_pages[i][o] = ByteNow(user_page_vaddrs[i] + o)

TableOK ==
  pc = "user" =>
    /\ DOMAIN user_page_table = {user_page_vaddrs[i] : i \in DOMAIN user_page_vaddrs} \cup {USER_STACK_BOTTOM}
    /\ user_page_table[USER_STACK_BOTTOM] = [frame |-> STACK, flags |-> {READABLE, WRITABLE}]
    /\ \A i \in DOMAIN user_page_vaddrs :
         user_page_table[user_page_vaddrs[i]] = [frame |-> i, flags |-> user_page_flags[i]]

Refused == pc = "fail_stop" => ~Loadable

Loading == ImageOK /\ ModuleOK /\ LoopOK /\ CursorOK
\* Everything but the bytes, which the user's stores may change; and all of it.
Settled == Typed /\ Loading /\ PagesAsked /\ PagesHeld /\ TableOK /\ Refused
IInv    == Settled /\ BytesOK

-----------------------------------------------------------------------------
(* Segments                                                                *)

\* The range of a segment that fits lies below the stack, without wrapping.
LEMMA FitsFacts ==
  ASSUME NEW s \in Segments, Fits(s)
  PROVE  /\ s.vaddr \in Nat /\ s.memory_size \in Nat /\ s.memory_size >= 1
         /\ s.file_size \in Nat /\ s.file_size =< s.memory_size /\ s.data_offset \in Nat
         /\ s.vaddr + s.memory_size =< USER_STACK_BOTTOM
         /\ Plus(s.vaddr, s.memory_size) = s.vaddr + s.memory_size
<1>1. /\ s.vaddr \in Words /\ s.memory_size \in Words /\ s.file_size \in Words /\ s.data_offset \in Words
  BY DEF Segments
<1>2. /\ s.vaddr \in Nat /\ s.memory_size \in Nat /\ s.file_size \in Nat /\ s.data_offset \in Nat
      /\ s.memory_size # 0 /\ s.file_size =< s.memory_size
      /\ s.memory_size =< USER_STACK_BOTTOM - s.vaddr
  BY <1>1, Bounds DEF Words, Fits
<1>3. s.vaddr + s.memory_size =< USER_STACK_BOTTOM /\ s.memory_size >= 1
  BY <1>2, Bounds
<1>4. s.vaddr + s.memory_size < WordSpan
  BY <1>2, <1>3, Bounds
<1> QED
  BY <1>2, <1>3, <1>4, PlusSmall

\* The pages a segment touches: from the page of its first byte to its end.
LEMMA TouchedPages ==
  ASSUME NEW s \in Segments, Fits(s), NEW p
  PROVE  p \in Touched(s) <=> IsPage(p) /\ PageOf(s.vaddr) =< p /\ p < s.vaddr + s.memory_size
<1>1. PICK a \in Nat, e \in Nat : a = s.vaddr /\ e = s.vaddr + s.memory_size /\ a < e
  BY FitsFacts
<1>2. Touched(s) = {PageOf(v) : v \in a .. e - 1}
  BY <1>1, FitsFacts DEF Touched, Extent
<1>3. PICK b \in Nat : b = PageOf(a) /\ IsPage(b) /\ b =< a /\ a < b + PAGE_SIZE
  BY <1>1, PageOfFacts, Zenon
<1>4. ASSUME NEW v \in a .. e - 1, p = PageOf(v)
      PROVE  IsPage(p) /\ b =< p /\ p < e
  <2>1. v \in Nat /\ a =< v /\ v < e
    BY <1>1
  <2>2. p \in Nat /\ IsPage(p) /\ p =< v /\ v < p + PAGE_SIZE
    BY <1>4, <2>1, PageOfFacts, Zenon
  <2>3. p < b => p + PAGE_SIZE =< b
    BY <1>3, <2>2, PageStep
  <2> QED
    BY <1>1, <1>3, <2>1, <2>2, <2>3, Bounds
<1>5. ASSUME IsPage(p), b =< p, p < e
      PROVE  \E v \in a .. e - 1 : p = PageOf(v)
  <2>1. p \in Nat
    BY <1>5 DEF IsPage
  <2>2. CASE a =< p
    <3>1. p \in a .. e - 1 /\ p < p + PAGE_SIZE
      BY <1>1, <1>5, <2>1, <2>2, Bounds
    <3>2. PageOf(p) = p
      BY <1>5, <2>1, <3>1, PageUnique
    <3> QED
      BY <3>1, <3>2
  <2>3. CASE p < a
    <3>1. b < p => b + PAGE_SIZE =< p
      BY <1>3, <1>5, PageStep
    <3>2. p = b /\ a \in a .. e - 1
      BY <1>1, <1>3, <1>5, <2>1, <2>3, <3>1, Bounds
    <3> QED
      BY <1>3, <3>2
  <2> QED
    BY <1>1, <2>1, <2>2, <2>3
<1> QED
  BY <1>1, <1>2, <1>3, <1>4, <1>5

\* A touched page ends at or below the stack, and the page of every byte of
\* the segment is touched.
LEMMA TouchedFacts ==
  ASSUME NEW s \in Segments, Fits(s)
  PROVE  /\ \A p \in Touched(s) : IsPage(p) /\ p \in Nat /\ p + PAGE_SIZE =< USER_STACK_BOTTOM /\ p < USER_STACK_BOTTOM
         /\ \A v \in Extent(s) : PageOf(v) \in Touched(s) /\ v \in Nat
<1>1. ASSUME NEW p \in Touched(s)
      PROVE  IsPage(p) /\ p \in Nat /\ p + PAGE_SIZE =< USER_STACK_BOTTOM /\ p < USER_STACK_BOTTOM
  <2>1. IsPage(p) /\ p < s.vaddr + s.memory_size
    BY TouchedPages
  <2>2. p \in Nat /\ p < USER_STACK_BOTTOM
    BY <2>1, FitsFacts, Bounds DEF IsPage
  <2> QED
    BY <2>1, <2>2, PageStep, Bounds
<1>2. \A v \in Extent(s) : PageOf(v) \in Touched(s) /\ v \in Nat
  BY FitsFacts DEF Extent, Touched
<1> QED
  BY <1>1, <1>2

\* A page that holds a byte of a segment is touched by it.
LEMMA ExtentTouched ==
  ASSUME NEW s \in Segments, Fits(s), NEW p, IsPage(p), NEW o \in Offsets, p + o \in Extent(s)
  PROVE  p \in Touched(s)
  BY TouchedFacts, PageOffset

-----------------------------------------------------------------------------
(* Records                                                                 *)

\* The types of the records in use.
LEMMA RecordTypes ==
  ASSUME info \in Infos
  PROVE  /\ info.image_size \in Nat /\ info.module_table_offset \in Nat /\ Len(info.modules) \in Nat
         /\ info.ok \in BOOLEAN
         /\ DOMAIN info.modules = 1 .. Len(info.modules)
         /\ \A m \in DOMAIN info.modules :
              /\ info.modules[m].name_offset \in Nat /\ info.modules[m].name_length \in Nat
              /\ info.modules[m].segment_table_offset \in Nat
              /\ info.modules[m].entry \in Nat /\ info.modules[m].entry < WordSpan
              /\ info.modules[m].segments \in Seq(Segments)
<1>1. info.modules \in Seq(Modules)
  BY DEF Infos
<1>2. /\ info.image_size \in Nat /\ info.module_table_offset \in Nat /\ info.ok \in BOOLEAN
  BY Bounds DEF Infos, Words
<1>3. /\ Len(info.modules) \in Nat /\ DOMAIN info.modules = 1 .. Len(info.modules)
      /\ \A m \in DOMAIN info.modules : info.modules[m] \in Modules
  BY <1>1
<1>4. ASSUME NEW r \in Modules
      PROVE  /\ r.name_offset \in Nat /\ r.name_length \in Nat /\ r.segment_table_offset \in Nat
             /\ r.entry \in Nat /\ r.entry < WordSpan /\ r.segments \in Seq(Segments)
  BY Bounds DEF Modules, Words
<1> QED
  BY <1>2, <1>3, <1>4

\* The segments of the module that was found, and the accepted ones.
LEMMA SegsFacts ==
  ASSUME Typed, ModuleOK, pc \in InSegments
  PROVE  /\ Segs \in Seq(Segments) /\ Len(Segs) \in Nat /\ DOMAIN Segs = 1 .. Len(Segs)
         /\ \A k \in 1 .. Len(Segs) : Segs[k] \in Segments
         /\ Segment = Segs[segment] /\ AllSegments = {Segs[k] : k \in 1 .. Len(Segs)}
         /\ Module.entry \in Nat /\ Module.entry < WordSpan
<1>1. module \in DOMAIN info.modules
  BY DEF ModuleOK, InSegments
<1>2. Segs \in Seq(Segments) /\ Module.entry \in Nat /\ Module.entry < WordSpan
  BY <1>1, RecordTypes DEF Typed, Segs, Module
<1>3. /\ Len(Segs) \in Nat /\ DOMAIN Segs = 1 .. Len(Segs)
      /\ \A k \in 1 .. Len(Segs) : Segs[k] \in Segments
  BY <1>2
<1> QED
  BY <1>2, <1>3 DEF Segment, Segs, AllSegments

\* A segment that passed validation fits.
LEMMA AcceptedFits == ASSUME NEW s, SegmentAccepted(s) PROVE Fits(s)
  BY DEF SegmentAccepted, Fits

\* Every segment up to LastSegment is a segment that fits.
LEMMA LoopFacts ==
  ASSUME Typed, Loading, pc \in InSegments
  PROVE  /\ \A k \in 1 .. LastSegment : k \in 1 .. Len(Segs) /\ Segs[k] \in Segments /\ Fits(Segs[k])
         /\ segment \in Nat /\ segment >= 1
         /\ pc \in Working => segment \in 1 .. LastSegment /\ Segment = Segs[segment] /\ segment \in 1 .. Len(Segs)
<1>1. /\ segment \in 1 .. Len(Segs) + 1 /\ \A k \in 1 .. LastSegment : SegmentAccepted(Segs[k])
      /\ pc \in Working => segment =< Len(Segs)
  BY DEF Loading, LoopOK
<1>2. /\ Len(Segs) \in Nat /\ Segment = Segs[segment] /\ \A k \in 1 .. Len(Segs) : Segs[k] \in Segments
  BY SegsFacts DEF Loading
<1>3. \A k \in 1 .. LastSegment : k \in 1 .. Len(Segs)
  BY <1>1, <1>2 DEF LastSegment
<1> QED
  BY <1>1, <1>2, <1>3, AcceptedFits DEF LastSegment

-----------------------------------------------------------------------------
(* The checks, said without division or subtraction                        *)

\* image_range_valid is the comparison of a sum.
LEMMA RangeFits ==
  ASSUME info \in Infos, NEW o \in Nat, NEW n \in Nat
  PROVE  image_range_valid(o, n) <=> o + n =< info.image_size
  BY RecordTypes DEF image_range_valid

\* image_records_valid is the comparison of a product.
LEMMA RecordsFit ==
  ASSUME info \in Infos, NEW o \in Nat, NEW n \in Nat
  PROVE  image_records_valid(o, n) <=> o + RecordSize * n =< info.image_size
<1>1. info.image_size \in Nat /\ RecordSize \in Nat \ {0} /\ RecordSize * n \in Nat
  BY RecordTypes, UserAssumption
<1>2. CASE o =< info.image_size
  <2>1. PICK a \in Nat : a = info.image_size - o
    BY <1>1, <1>2
  <2>2. n =< a \div RecordSize <=> RecordSize * n =< a
    BY <1>1, DivBound
  <2> QED
    BY <1>1, <1>2, <2>1, <2>2 DEF image_records_valid
<1>3. CASE ~(o =< info.image_size)
  BY <1>1, <1>3 DEF image_records_valid
<1> QED
  BY <1>2, <1>3

\* The ROM tables are enough exactly for an image that fits in them.
LEMMA RomFits ==
  ASSUME info \in Infos
  PROVE  /\ RomTableCount =< ROM_TABLE_COUNT <=> info.image_size =< ROM_TABLE_COUNT * TablePages * PAGE_SIZE
         /\ RomPageCount \in Nat /\ info.image_size =< RomPageCount * PAGE_SIZE
<1>1. /\ info.image_size \in Nat /\ PAGE_SIZE \in Nat \ {0} /\ TablePages \in Nat \ {0}
      /\ ROM_TABLE_COUNT \in Nat
  BY RecordTypes, UserAssumption
<1>2. PICK a \in Nat : a = info.image_size
  BY <1>1
<1>3. PICK n \in Nat : n = (a + PAGE_SIZE - 1) \div PAGE_SIZE
  BY <1>1
<1>4. RomPageCount = n
  BY <1>2, <1>3 DEF RomPageCount
<1>5. a =< PAGE_SIZE * n
  BY <1>1, <1>3, DivCeiling
<1>6. (n + TablePages - 1) \div TablePages =< ROM_TABLE_COUNT <=> n =< TablePages * ROM_TABLE_COUNT
  BY <1>1, DivCeiling
<1>7. n =< TablePages * ROM_TABLE_COUNT <=> a =< PAGE_SIZE * (TablePages * ROM_TABLE_COUNT)
  <2>1. TablePages * ROM_TABLE_COUNT \in Nat
    BY <1>1
  <2> QED
    BY <1>1, <1>3, <2>1, DivCeiling
<1>8. PAGE_SIZE * (TablePages * ROM_TABLE_COUNT) = ROM_TABLE_COUNT * TablePages * PAGE_SIZE
  BY <1>1
<1>9. PAGE_SIZE * n = n * PAGE_SIZE
  BY <1>1
<1> QED
  BY <1>2, <1>4, <1>5, <1>6, <1>7, <1>8, <1>9 DEF RomTableCount

\* The module stays the same.
LEMMA Frame ==
  ASSUME UNCHANGED <<info, module>>
  PROVE  /\ Module' = Module /\ Segs' = Segs /\ AllSegments' = AllSegments
         /\ Loadable' <=> Loadable
         /\ RomPageCount' = RomPageCount /\ RomTableCount' = RomTableCount
         /\ ModuleAccepted' <=> ModuleAccepted
         /\ \A o, n : image_range_valid(o, n)' <=> image_range_valid(o, n)
         /\ \A o, n : image_records_valid(o, n)' <=> image_records_valid(o, n)
         /\ \A s : SegmentAccepted(s)' <=> SegmentAccepted(s)
         /\ \A s : HoldsEntry(s)' <=> HoldsEntry(s)
<1>1. Module' = Module
  BY DEF Module
<1>2. Segs' = Segs /\ AllSegments' = AllSegments
  BY <1>1 DEF Segs, AllSegments
<1>3. Loadable' <=> Loadable
  BY <1>1, <1>2 DEF Loadable, AllTouched
<1>4. RomPageCount' = RomPageCount /\ RomTableCount' = RomTableCount
  BY DEF RomPageCount, RomTableCount
<1>5. /\ \A o, n : image_range_valid(o, n)' <=> image_range_valid(o, n)
      /\ \A o, n : image_records_valid(o, n)' <=> image_records_valid(o, n)
  BY DEF image_range_valid, image_records_valid
<1>6. ModuleAccepted' <=> ModuleAccepted
  BY <1>1 DEF ModuleAccepted, image_records_valid
<1>7. \A s : SegmentAccepted(s)' <=> SegmentAccepted(s)
  BY DEF SegmentAccepted, image_range_valid
<1>8. \A s : HoldsEntry(s)' <=> HoldsEntry(s)
  BY <1>1 DEF HoldsEntry
<1> QED
  BY <1>1, <1>2, <1>3, <1>4, <1>5, <1>6, <1>7, <1>8

-----------------------------------------------------------------------------
(* kernel_main up to the segments                                          *)

\* Nothing is loaded yet.
LEMMA InitInv == Init => IInv
<1> SUFFICES ASSUME Init PROVE IInv
  OBVIOUS
<1>1. Typed
  <2>1. MAX_USER_IMAGE_PAGES \in Nat /\ WordSpan \in Nat \ {0} /\ info \in Infos
    BY UserAssumption DEF Init
  <2>2. /\ Len(user_page_vaddrs) = 0 /\ Len(user_page_flags) = 0
        /\ user_page_vaddrs \in Seq(Nat) /\ user_page_flags \in Seq(SUBSET (UserFlags \cup {"unknown"}))
    BY DEF Init
  <2>3. TypeOK
    BY <2>1, <2>2 DEF Init, TypeOK
  <2> QED
    BY <2>1, <2>2, <2>3 DEF Init, Typed
<1>2. Loading
  BY DEF Init, Loading, ImageOK, ModuleOK, LoopOK, CursorOK, InSegments
<1> QED
  BY <1>1, <1>2 DEF Init, IInv, Settled, PagesAsked, PagesHeld, BytesOK, TableOK, Refused, InSegments

\* The check of the boot-info record.
LEMMA CheckInv == ASSUME IInv, Check PROVE IInv'
<1>1. Typed'
  BY DEF IInv, Settled, Typed, TypeOK, Check, loopVars, pageVars
<1>2. UNCHANGED <<info, module>> /\ pc' \in {"find", "fail_stop"}
  BY DEF Check, loopVars
<1>3. ImageOK'
  BY <1>2, Frame DEF ImageOK, Check
<1>4. Refused'
  <2> SUFFICES ASSUME pc' = "fail_stop" PROVE ~Loadable
    BY <1>2, Frame DEF Refused
  <2>1. ~(/\ info.ok /\ info.image_size # 0 /\ info.image_size =< SYSTEM_ROM_SIZE
          /\ RomTableCount =< ROM_TABLE_COUNT)
    BY DEF Check
  <2>2. info.image_size \in Nat /\ SYSTEM_ROM_SIZE \in Nat
    BY RecordTypes, UserAssumption DEF IInv, Settled, Typed
  <2> QED
    BY <2>1, <2>2, RomFits DEF Loadable, IInv, Settled, Typed
<1> QED
  BY <1>1, <1>2, <1>3, <1>4
  DEF IInv, Settled, Loading, ModuleOK, LoopOK, CursorOK, PagesAsked, PagesHeld, BytesOK, TableOK, InSegments

\* Looking at one module record.
LEMMA FindModuleInv == ASSUME IInv, FindModule PROVE IInv'
<1> DEFINE found(m) == info.modules[m].named /\ image_range_valid(info.modules[m].name_offset, info.modules[m].name_length)
           ok == /\ image_records_valid(info.module_table_offset, Len(info.modules))
                 /\ \E m \in DOMAIN info.modules : found(m)
<1>1. Typed'
  BY DEF IInv, Settled, Typed, TypeOK, FindModule, pageVars
<1>2. pc = "find" /\ pc' \in {"module", "fail_stop"} /\ UNCHANGED <<info, rom_pages>>
  BY DEF FindModule
<1>3. ImageOK'
  BY <1>2 DEF IInv, Settled, Loading, ImageOK, RomTableCount, RomPageCount
<1>4. CASE ok
  <2>1. /\ module' = CHOOSE m \in DOMAIN info.modules : found(m) /\ \A k \in 1 .. m - 1 : ~found(k)
        /\ pc' = "module"
    BY <1>4 DEF FindModule
  <2>2. \E m \in DOMAIN info.modules : found(m) /\ \A k \in 1 .. m - 1 : ~found(k)
    <3> DEFINE S == {m \in DOMAIN info.modules : found(m)}
    <3>1. DOMAIN info.modules = 1 .. Len(info.modules) /\ Len(info.modules) \in Nat
      BY RecordTypes DEF IInv, Settled, Typed
    <3>2. S \in SUBSET Nat /\ S # {}
      BY <1>4, <3>1
    <3>3. PICK n \in S : \A m \in S : n =< m
      BY <3>2, LeastNatural
    <3>4. n \in DOMAIN info.modules /\ found(n)
      BY <3>3
    <3>5. \A k \in 1 .. n - 1 : k \in DOMAIN info.modules /\ ~(n =< k)
      BY <3>1, <3>4
    <3>6. \A k \in 1 .. n - 1 : ~found(k)
      BY <3>3, <3>5
    <3> QED
      BY <3>4, <3>6
  <2>3. module' \in DOMAIN info.modules /\ found(module')
    BY <2>1, <2>2, Zenon
  <2>4. ModuleOK'
    BY <1>2, <1>4, <2>3 DEF ModuleOK, Module, image_range_valid, image_records_valid
  <2> QED
    BY <1>1, <1>3, <2>1, <2>4
    DEF IInv, Settled, Loading, LoopOK, CursorOK, PagesAsked, PagesHeld, BytesOK, TableOK, InSegments, Refused
<1>5. CASE ~ok
  <2>1. pc' = "fail_stop" /\ module' = module
    BY <1>5 DEF FindModule
  <2>2. ~Loadable
    <3> SUFFICES ASSUME Loadable PROVE ok
      BY <1>5
    <3>1. info \in Infos
      BY DEF IInv, Settled, Typed
    <3>2. image_records_valid(info.module_table_offset, Len(info.modules))
      BY <3>1, RecordTypes, RecordsFit DEF Loadable
    <3>3. PICK m \in DOMAIN info.modules : info.modules[m].named /\ info.modules[m].name_offset + info.modules[m].name_length =< info.image_size
      BY DEF Loadable
    <3>4. found(m)
      BY <3>1, <3>3, RecordTypes, RangeFits
    <3> QED
      BY <3>2, <3>4
  <2>3. Refused'
    BY <1>2, <2>1, <2>2, Frame DEF Refused
  <2> QED
    BY <1>1, <1>3, <2>1, <2>3
    DEF IInv, Settled, Loading, ModuleOK, LoopOK, CursorOK, PagesAsked, PagesHeld, BytesOK, TableOK, InSegments
<1> QED
  BY <1>4, <1>5

\* The module is refused before any page is taken.
LEMMA RefuseModuleInv == ASSUME IInv, RefuseModule PROVE IInv'
<1>1. Typed'
  BY DEF IInv, Settled, Typed, TypeOK, RefuseModule, loopVars, pageVars
<1>2. pc = "module" /\ pc' = "fail_stop" /\ UNCHANGED <<info, module>> /\ ~ModuleAccepted
  BY DEF RefuseModule, loopVars
<1>3. ~Loadable
  <2>1. /\ info \in Infos /\ Module.segment_table_offset \in Nat /\ Module.segments \in Seq(Segments)
    BY <1>2, RecordTypes DEF IInv, Settled, Typed, Loading, ModuleOK, Module
  <2>2. Len(Module.segments) \in Nat /\ (Module.segments # <<>> => Len(Module.segments) # 0)
    BY <2>1
  <2> QED
    BY <1>2, <2>1, <2>2, RecordsFit DEF Loadable, ModuleAccepted
<1>4. Refused'
  BY <1>2, <1>3, Frame DEF Refused
<1> QED
  BY <1>1, <1>2, <1>4
  DEF IInv, Settled, Loading, ImageOK, ModuleOK, LoopOK, CursorOK, PagesAsked, PagesHeld, BytesOK, TableOK, InSegments

\* The loop over the segments of the accepted module begins.
LEMMA StartModuleInv == ASSUME IInv, StartModule PROVE IInv'
<1>1. Typed'
  <2>1. MAX_USER_IMAGE_PAGES \in Nat
    BY UserAssumption
  <2>2. /\ Len(user_page_vaddrs)' = 0 /\ Len(user_page_flags)' = 0
        /\ user_page_vaddrs' \in Seq(Nat) /\ user_page_flags' \in Seq(SUBSET (UserFlags \cup {"unknown"}))
    BY DEF StartModule
  <2>3. TypeOK'
    BY <2>1, <2>2 DEF IInv, Settled, Typed, StartModule, TypeOK
  <2> QED
    BY <2>2, <2>3 DEF IInv, Settled, StartModule, Typed
<1>2. /\ pc = "module" /\ pc' = "segment" /\ UNCHANGED <<info, module, rom_pages>> /\ ModuleAccepted
      /\ segment' = 1 /\ entry_is_executable' = FALSE /\ user_page_vaddrs' = <<>>
  BY DEF StartModule
<1>3. ImageOK' /\ ModuleOK'
  BY <1>2, Frame DEF IInv, Settled, Loading, ImageOK, ModuleOK
<1>4. LastSegment' = 0 /\ segment' - 1 = 0
  BY <1>2 DEF LastSegment, Working
<1>5. LoopOK'
  <2>1. Len(Segs) \in Nat
    BY <1>2, RecordTypes DEF IInv, Settled, Typed, Loading, ModuleOK, Segs, Module
  <2> QED
    BY <1>2, <1>4, <2>1, Frame DEF LoopOK, Working
<1> QED
  BY <1>1, <1>2, <1>3, <1>4, <1>5
  DEF IInv, Settled, Loading, CursorOK, PagesAsked, PagesHeld, BytesOK, TableOK, Refused

-----------------------------------------------------------------------------
(* The head of the segment loop                                            *)

\* A refusal is right when the image cannot be loaded.
LEMMA Fail ==
  ASSUME Typed', pc' = "fail_stop", UNCHANGED <<info, module>>, ~Loadable
  PROVE  IInv'
<1>1. Refused'
  BY Frame DEF Refused
<1> QED
  BY <1>1
  DEF IInv, Settled, Loading, ImageOK, ModuleOK, LoopOK, CursorOK, PagesAsked, PagesHeld, BytesOK, TableOK, InSegments

\* What Loadable asks of a segment.
SegmentLoadable(s) ==
  /\ s.memory_size > 0 /\ s.file_size =< s.memory_size
  /\ s.flags \in {{}, {"r"}, {"w"}, {"r", "w"}, {"r", "x"}, {"r", "w", "x"}}
  /\ Extent(s) \subseteq USER_IMAGE_BASE .. USER_STACK_BOTTOM - 1
  /\ s.data_offset + s.file_size =< info.image_size

\* The sets of flags that validation lets through.
LEMMA FlagsMeaning ==
  ASSUME NEW fl
  PROVE  fl \subseteq UserFlags /\ (EXECUTABLE \in fl => READABLE \in fl)
         <=> fl \in {{}, {"r"}, {"w"}, {"r", "w"}, {"r", "x"}, {"r", "w", "x"}}
<1>1. ASSUME fl \in {{}, {"r"}, {"w"}, {"r", "w"}, {"r", "x"}, {"r", "w", "x"}}
      PROVE  fl \subseteq UserFlags /\ (EXECUTABLE \in fl => READABLE \in fl)
  BY <1>1 DEF UserFlags, READABLE, WRITABLE, EXECUTABLE
<1>2. ASSUME fl \subseteq {"r", "w", "x"}, "x" \in fl => "r" \in fl
      PROVE  fl \in {{}, {"r"}, {"w"}, {"r", "w"}, {"r", "x"}, {"r", "w", "x"}}
  <2>1. CASE "x" \in fl /\ "w" \in fl
    <3>1. fl = {"r", "w", "x"}
      BY <1>2, <2>1
    <3> QED
      BY <3>1
  <2>2. CASE "x" \in fl /\ "w" \notin fl
    <3>1. fl = {"r", "x"}
      BY <1>2, <2>2
    <3> QED
      BY <3>1
  <2>3. CASE "x" \notin fl /\ "w" \in fl /\ "r" \in fl
    <3>1. fl = {"r", "w"}
      BY <1>2, <2>3
    <3> QED
      BY <3>1
  <2>4. CASE "x" \notin fl /\ "w" \in fl /\ "r" \notin fl
    <3>1. fl = {"w"}
      BY <1>2, <2>4
    <3> QED
      BY <3>1
  <2>5. CASE "x" \notin fl /\ "w" \notin fl /\ "r" \in fl
    <3>1. fl = {"r"}
      BY <1>2, <2>5
    <3> QED
      BY <3>1
  <2>6. CASE "x" \notin fl /\ "w" \notin fl /\ "r" \notin fl
    <3>1. fl = {}
      BY <1>2, <2>6
    <3> QED
      BY <3>1
  <2> QED
    BY <2>1, <2>2, <2>3, <2>4, <2>5, <2>6
<1> QED
  BY <1>1, <1>2 DEF UserFlags, READABLE, WRITABLE, EXECUTABLE

\* The code's check of a segment is exactly that.
LEMMA SegmentCheck ==
  ASSUME info \in Infos, NEW s \in Segments
  PROVE  SegmentAccepted(s) <=> SegmentLoadable(s)
<1>1. /\ s.vaddr \in Nat /\ s.memory_size \in Nat /\ s.file_size \in Nat /\ s.data_offset \in Nat
  BY Bounds DEF Segments, Words
<1>2. /\ s.vaddr >= USER_IMAGE_BASE /\ s.vaddr < USER_STACK_BOTTOM
      /\ s.memory_size =< USER_STACK_BOTTOM - s.vaddr /\ s.memory_size # 0
      => Extent(s) \subseteq USER_IMAGE_BASE .. USER_STACK_BOTTOM - 1
  BY <1>1, Bounds DEF Extent
<1>3. ASSUME Extent(s) \subseteq USER_IMAGE_BASE .. USER_STACK_BOTTOM - 1, s.memory_size > 0
      PROVE  /\ s.vaddr >= USER_IMAGE_BASE /\ s.vaddr < USER_STACK_BOTTOM
             /\ s.memory_size =< USER_STACK_BOTTOM - s.vaddr
  <2>1. s.vaddr \in Extent(s) /\ s.vaddr + s.memory_size - 1 \in Extent(s)
    BY <1>1, <1>3 DEF Extent
  <2>2. /\ s.vaddr \in USER_IMAGE_BASE .. USER_STACK_BOTTOM - 1
        /\ s.vaddr + s.memory_size - 1 \in USER_IMAGE_BASE .. USER_STACK_BOTTOM - 1
    BY <1>3, <2>1
  <2> QED
    BY <1>1, <2>2, Bounds
<1>4. image_range_valid(s.data_offset, s.file_size) <=> s.data_offset + s.file_size =< info.image_size
  BY <1>1, RangeFits
<1>5. s.memory_size # 0 <=> s.memory_size > 0
  BY <1>1
<1>6. s.flags \subseteq UserFlags /\ (EXECUTABLE \in s.flags => READABLE \in s.flags)
      <=> s.flags \in {{}, {"r"}, {"w"}, {"r", "w"}, {"r", "x"}, {"r", "w", "x"}}
  BY FlagsMeaning
<1> QED
  BY <1>2, <1>3, <1>4, <1>5, <1>6 DEF SegmentAccepted, SegmentLoadable

\* The code's check of the entry is the one of Loadable.
LEMMA EntryCheck ==
  ASSUME NEW s \in Segments, Module.entry \in Nat, Module.entry < WordSpan
  PROVE  HoldsEntry(s) <=>
           /\ "x" \in s.flags
           /\ Module.entry .. Module.entry + InstructionSize - 1 \subseteq s.vaddr .. s.vaddr + s.file_size - 1
<1>1. s.vaddr \in Nat /\ s.file_size \in Nat /\ InstructionSize \in Nat \ {0} /\ WordSpan \in Nat \ {0}
  BY Bounds, UserAssumption DEF Segments, Words
<1>2. PICK e \in Nat : e = Module.entry /\ e < WordSpan
  OBVIOUS
<1>3. e >= s.vaddr => Minus(e, s.vaddr) = e - s.vaddr
  BY <1>1, <1>2 DEF Minus
<1>4. ASSUME e .. e + InstructionSize - 1 \subseteq s.vaddr .. s.vaddr + s.file_size - 1
      PROVE  e >= s.vaddr /\ s.file_size >= InstructionSize /\ e - s.vaddr =< s.file_size - InstructionSize
  <2>1. e \in e .. e + InstructionSize - 1 /\ e + InstructionSize - 1 \in e .. e + InstructionSize - 1
    BY <1>1
  <2>2. /\ e \in s.vaddr .. s.vaddr + s.file_size - 1
        /\ e + InstructionSize - 1 \in s.vaddr .. s.vaddr + s.file_size - 1
    BY <1>4, <2>1
  <2> QED
    BY <1>1, <2>2
<1>5. ASSUME e >= s.vaddr, s.file_size >= InstructionSize, e - s.vaddr =< s.file_size - InstructionSize
      PROVE  e .. e + InstructionSize - 1 \subseteq s.vaddr .. s.vaddr + s.file_size - 1
  BY <1>1, <1>5
<1> QED
  BY <1>2, <1>3, <1>4, <1>5 DEF HoldsEntry, EXECUTABLE

\* The bytes that are due do not change when the segment does not.
LEMMA ByteFrame ==
  ASSUME UNCHANGED <<info, module, segment>>
  PROVE  \A v : ByteAfter(v, segment)' = ByteAfter(v, segment)
<1>1. Segs' = Segs
  BY Frame
<1>2. \A v : Covering(v, segment)' = Covering(v, segment)
  BY <1>1 DEF Covering
<1> QED
  BY <1>1, <1>2 DEF ByteAfter

\* The head of the loop: the next segment is validated, or loading ends.
LEMMA NextSegmentInv == ASSUME IInv, NextSegment PROVE IInv'
<1>1. /\ pc = "segment" /\ pc \in InSegments /\ pc \notin Working /\ LastSegment = segment - 1
      /\ UNCHANGED <<info, rom_pages, module, segment, length, source, entry_is_executable, user_page_vaddrs,
                     user_page_flags, user_image_pages, user_page_table>>
  BY DEF NextSegment, InSegments, Working, LastSegment, pageVars
<1>2. /\ Len(Segs) \in Nat /\ Segment = Segs[segment] /\ \A k \in 1 .. Len(Segs) : Segs[k] \in Segments
      /\ AllSegments = {Segs[k] : k \in 1 .. Len(Segs)} /\ Module.entry \in Nat /\ Module.entry < WordSpan
      /\ segment \in 1 .. Len(Segs) + 1 /\ segment \in Nat
      /\ \A k \in 1 .. segment - 1 : SegmentAccepted(Segs[k])
      /\ entry_is_executable <=> \E k \in 1 .. segment - 1 : HoldsEntry(Segs[k])
  BY <1>1, SegsFacts DEF IInv, Settled, Loading, LoopOK, Typed
<1>3. info \in Infos
  BY DEF IInv, Settled, Typed
<1>4. ASSUME pc' \in InSegments PROVE ImageOK' /\ ModuleOK'
  BY <1>1, Frame DEF IInv, Settled, Loading, ImageOK, ModuleOK
<1>5. CASE segment =< Len(Module.segments) /\ SegmentAccepted(Segment)
  <2>1. /\ pc' = "prepare" /\ vaddr' = PageOf(Segment.vaddr) /\ pc' \in InSegments /\ pc' \in Working
        /\ LastSegment' = segment /\ segment \in 1 .. Len(Segs)
    BY <1>1, <1>2, <1>5 DEF NextSegment, InSegments, Working, LastSegment, Segs
  <2>2. Segment \in Segments /\ Fits(Segment) /\ Segment' = Segment
    BY <1>1, <1>2, <1>5, <2>1, AcceptedFits, Frame DEF Segment
  <2>3. /\ IsPage(vaddr') /\ vaddr' \in Nat /\ vaddr' =< Segment.vaddr
        /\ Segment.vaddr \in Nat /\ Segment.vaddr < USER_STACK_BOTTOM
    BY <2>1, <2>2, PageOfFacts, FitsFacts DEF Fits
  <2>4. Typed'
    BY <1>1, <2>1, <2>3, Bounds DEF IInv, Settled, Typed, TypeOK
  <2>5. LoopOK'
    <3>1. \A k \in 1 .. segment : SegmentAccepted(Segs[k])
      BY <1>2, <1>5
    <3> QED
      BY <1>1, <1>2, <2>1, <3>1, Frame DEF IInv, Settled, Loading, LoopOK
  <2>6. CursorOK'
    BY <2>1, <2>2, <2>3, Bounds DEF CursorOK
  <2>7. PagesAsked'
    BY <1>1, <1>2, <2>1, Frame DEF IInv, Settled, PagesAsked
  <2>8. PagesHeld'
    <3>1. ASSUME NEW k \in 1 .. segment, NEW p \in Touched(Segs[k]), k = segment => p < vaddr'
          PROVE  \E i \in DOMAIN user_page_vaddrs : user_page_vaddrs[i] = p /\ user_page_flags[i] = Segs[k].flags
      <4>1. CASE k = segment
        BY <1>2, <2>1, <2>2, <2>3, <3>1, <4>1, TouchedPages DEF IsPage
      <4>2. CASE k # segment
        <5>1. k \in 1 .. LastSegment /\ ~(pc = "prepare")
          BY <1>1, <1>2, <4>2
        <5>2. PagesHeld /\ pc \in InSegments
          BY <1>1 DEF IInv, Settled
        <5> QED
          BY <5>1, <5>2, Zenon DEF PagesHeld
      <4> QED
        BY <4>1, <4>2
    <3>2. Segs' = Segs /\ \A k \in 1 .. segment : Touched(Segs[k])' = Touched(Segs[k])
      BY <1>1, Frame
    <3>3. \A k \in 1 .. segment : \A p \in Touched(Segs[k]) : (k = segment => p < vaddr') =>
            \E i \in DOMAIN user_page_vaddrs : user_page_vaddrs[i] = p /\ user_page_flags[i] = Segs[k].flags
      BY <3>1
    <3> QED
      BY <1>1, <2>1, <3>2, <3>3 DEF PagesHeld
  <2>9. BytesOK'
    <3>1. \A v : ByteNow(v)' = ByteNow(v)
      BY <1>1, <2>1, ByteFrame DEF ByteNow
    <3> QED
      BY <1>1, <2>1, <3>1 DEF IInv, Settled, BytesOK
  <2> QED
    BY <1>4, <2>1, <2>4, <2>5, <2>6, <2>7, <2>8, <2>9 DEF IInv, Settled, Loading, TableOK, Refused
<1>6. CASE segment =< Len(Module.segments) /\ ~SegmentAccepted(Segment)
  <2>1. pc' = "fail_stop" /\ vaddr' = vaddr
    BY <1>6 DEF NextSegment
  <2>2. Segment \in AllSegments /\ ~SegmentLoadable(Segment)
    BY <1>2, <1>3, <1>6, SegmentCheck DEF Segs
  <2>3. ~Loadable
    BY <2>2 DEF Loadable, SegmentLoadable
  <2>4. Typed'
    BY <1>1, <2>1 DEF IInv, Settled, Typed, TypeOK
  <2> QED
    BY <1>1, <2>1, <2>3, <2>4, Fail
<1>7. CASE ~(segment =< Len(Module.segments)) /\ ~entry_is_executable
  <2>1. pc' = "fail_stop" /\ vaddr' = vaddr /\ segment = Len(Segs) + 1
    BY <1>2, <1>7 DEF NextSegment, Segs
  <2>2. \A s \in AllSegments : ~HoldsEntry(s) /\ s \in Segments
    BY <1>2, <1>7, <2>1
  <2>3. ~Loadable
    BY <1>2, <2>2, EntryCheck DEF Loadable
  <2>4. Typed'
    BY <1>1, <2>1 DEF IInv, Settled, Typed, TypeOK
  <2> QED
    BY <1>1, <2>1, <2>3, <2>4, Fail
<1>8. CASE ~(segment =< Len(Module.segments)) /\ entry_is_executable
  <2>1. /\ pc' = "map" /\ vaddr' = vaddr /\ segment = Len(Segs) + 1 /\ pc' \in InSegments /\ pc' \notin Working
        /\ LastSegment' = segment - 1
    <3>1. pc' = "map" /\ vaddr' = vaddr
      BY <1>8 DEF NextSegment
    <3>2. segment = Len(Segs) + 1
      BY <1>2, <1>8 DEF Segs
    <3> QED
      BY <1>1, <3>1, <3>2 DEF InSegments, Working, LastSegment
  <2>2. Typed'
    BY <1>1, <2>1 DEF IInv, Settled, Typed, TypeOK
  <2>3. LoopOK'
    BY <1>1, <1>2, <1>8, <2>1, Frame DEF IInv, Settled, Loading, LoopOK
  <2>4. PagesAsked' /\ PagesHeld'
    BY <1>1, <2>1, Frame DEF IInv, Settled, PagesAsked, PagesHeld
  <2>5. BytesOK'
    <3>1. \A v : ByteNow(v)' = ByteNow(v)
      BY <1>1, <2>1, ByteFrame DEF ByteNow
    <3> QED
      BY <1>1, <2>1, <3>1 DEF IInv, Settled, BytesOK
  <2> QED
    BY <1>4, <2>1, <2>2, <2>3, <2>4, <2>5 DEF IInv, Settled, Loading, TableOK, Refused, CursorOK
<1> QED
  BY <1>5, <1>6, <1>7, <1>8

-----------------------------------------------------------------------------
(* prepare_user_range                                                      *)

\* The union of what the segments touch.
LEMMA AllTouchedFacts ==
  ASSUME Typed, ModuleOK, pc \in InSegments
  PROVE  /\ \A p : p \in AllTouched <=> \E k \in 1 .. Len(Segs) : p \in Touched(Segs[k])
         /\ (\A k \in 1 .. Len(Segs) : Fits(Segs[k])) => IsFiniteSet(AllTouched)
<1>1. /\ AllSegments = {Segs[k] : k \in 1 .. Len(Segs)} /\ \A k \in 1 .. Len(Segs) : Segs[k] \in Segments
  BY SegsFacts
<1>2. \A p : p \in AllTouched <=> \E k \in 1 .. Len(Segs) : p \in Touched(Segs[k])
  BY <1>1 DEF AllTouched
<1>3. ASSUME \A k \in 1 .. Len(Segs) : Fits(Segs[k])
      PROVE  IsFiniteSet(AllTouched)
  <2>1. \A p \in AllTouched : p \in Nat /\ p < USER_STACK_BOTTOM
    BY <1>1, <1>2, <1>3, TouchedFacts
  <2>2. AllTouched \in SUBSET (0 .. USER_STACK_BOTTOM)
    BY <2>1, Bounds
  <2>3. IsFiniteSet(0 .. USER_STACK_BOTTOM)
    BY FS_Interval, Bounds
  <2> QED
    BY <2>2, <2>3, FS_Subset
<1> QED
  BY <1>2, <1>3

\* The pool cannot hold more pages than the segments touch.
LEMMA PoolBound ==
  ASSUME NEW n \in Nat, NEW T, IsFiniteSet(T), NEW f \in [1 .. n -> T],
         \A i, j \in 1 .. n : f[i] = f[j] => i = j
  PROVE  n =< Cardinality(T)
<1>1. f \in Injection(1 .. n, T)
  BY DEF Injection, IsInjective
<1>2. IsFiniteSet(1 .. n) /\ Cardinality(1 .. n) = n
  BY FS_Interval
<1> QED
  BY <1>1, <1>2, FS_Injection

\* What Append adds to a sequence.
LEMMA AppendFacts ==
  ASSUME NEW S, NEW q \in Seq(S), NEW x \in S
  PROVE  /\ Append(q, x) \in Seq(S) /\ Len(Append(q, x)) = Len(q) + 1
         /\ DOMAIN Append(q, x) = 1 .. Len(q) + 1
         /\ \A i \in 1 .. Len(q) : Append(q, x)[i] = q[i]
         /\ Append(q, x)[Len(q) + 1] = x
  OBVIOUS

\* The page at the cursor of prepare_user_range.
LEMMA PrepareFacts ==
  ASSUME IInv, pc = "prepare", vaddr < Plus(Segment.vaddr, Segment.memory_size)
  PROVE  /\ pc \in InSegments /\ pc \in Working /\ LastSegment = segment /\ segment \in 1 .. segment
         /\ segment \in 1 .. Len(Segs) /\ Segment = Segs[segment] /\ Segment \in Segments /\ Fits(Segment)
         /\ IsPage(vaddr) /\ vaddr \in Nat /\ vaddr \in Touched(Segment)
         /\ Plus(vaddr, PAGE_SIZE) = vaddr + PAGE_SIZE /\ IsPage(vaddr + PAGE_SIZE)
         /\ vaddr + PAGE_SIZE =< USER_STACK_BOTTOM
         /\ \A p \in Touched(Segment) : p < vaddr + PAGE_SIZE => p < vaddr \/ p = vaddr
<1>1. pc \in InSegments /\ pc \in Working /\ LastSegment = segment
  BY DEF InSegments, Working, LastSegment
<1>2. /\ segment \in 1 .. Len(Segs) /\ segment \in 1 .. segment /\ Segment = Segs[segment]
      /\ Segment \in Segments /\ Fits(Segment)
  BY <1>1, LoopFacts DEF IInv, Settled
<1>3. IsPage(vaddr) /\ vaddr \in Nat /\ PageOf(Segment.vaddr) =< vaddr
  BY DEF IInv, Settled, Loading, CursorOK, IsPage
<1>4. vaddr < Segment.vaddr + Segment.memory_size
  BY <1>2, FitsFacts
<1>5. vaddr \in Touched(Segment)
  BY <1>2, <1>3, <1>4, TouchedPages
<1>6. vaddr + PAGE_SIZE =< USER_STACK_BOTTOM /\ IsPage(vaddr + PAGE_SIZE)
  BY <1>2, <1>3, <1>5, TouchedFacts, PageStep, Bounds
<1>7. Plus(vaddr, PAGE_SIZE) = vaddr + PAGE_SIZE
  BY <1>3, <1>6, Bounds, PlusSmall
<1>8. ASSUME NEW p \in Touched(Segment), p < vaddr + PAGE_SIZE
      PROVE  p < vaddr \/ p = vaddr
  <2>1. IsPage(p) /\ p \in Nat
    BY <1>2, TouchedFacts
  <2>2. vaddr < p => vaddr + PAGE_SIZE =< p
    BY <1>3, <2>1, PageStep
  <2> QED
    BY <1>3, <1>8, <2>1, <2>2, Bounds
<1> QED
  BY <1>1, <1>2, <1>3, <1>5, <1>6, <1>7, <1>8

\* PagesHeld for one page.
LEMMA HeldAt ==
  ASSUME PagesHeld, pc \in InSegments, NEW k \in 1 .. LastSegment, NEW p \in Touched(Segs[k]),
         pc = "prepare" /\ k = segment => p < vaddr
  PROVE  \E i \in DOMAIN user_page_vaddrs : user_page_vaddrs[i] = p /\ user_page_flags[i] = Segs[k].flags
  BY DEF PagesHeld

\* The page is in the pool already.
LEMMA PrepareShared ==
  ASSUME IInv, pc = "prepare", vaddr < Plus(Segment.vaddr, Segment.memory_size),
         \E i \in Holding(vaddr) : user_page_flags[i] = Segment.flags,
         vaddr' = Plus(vaddr, PAGE_SIZE),
         UNCHANGED <<info, pc, rom_pages, module, segment, length, source, entry_is_executable, user_page_vaddrs,
                     user_page_flags, user_image_pages, user_page_table>>
  PROVE  IInv'
<1>1. Segment' = Segment /\ LastSegment' = LastSegment /\ LastSegment = segment /\ Segs' = Segs /\ pc \in InSegments
  BY Frame, PrepareFacts DEF Segment, LastSegment
<1>2. Typed'
  BY PrepareFacts, Bounds DEF IInv, Settled, Typed, TypeOK
<1>3. ImageOK' /\ ModuleOK' /\ LoopOK'
  BY <1>1, Frame DEF IInv, Settled, Loading, ImageOK, ModuleOK, LoopOK
<1>4. CursorOK'
  <2>1. PageOf(Segment.vaddr) =< vaddr /\ PageOf(Segment.vaddr) \in Nat
    BY PrepareFacts, FitsFacts, PageOfFacts DEF IInv, Settled, Loading, CursorOK
  <2> QED
    BY <1>1, <2>1, PrepareFacts, Bounds DEF CursorOK
<1>5. PagesAsked'
  BY <1>1, Frame DEF IInv, Settled, PagesAsked
<1>6. PagesHeld'
  <2> SUFFICES ASSUME NEW k \in 1 .. segment, NEW p \in Touched(Segs[k]), k = segment => p < vaddr'
               PROVE  \E i \in DOMAIN user_page_vaddrs : user_page_vaddrs[i] = p /\ user_page_flags[i] = Segs[k].flags
    BY <1>1 DEF PagesHeld
  <2>1. CASE k = segment /\ p = vaddr
    BY <2>1, PrepareFacts DEF Holding
  <2>2. CASE ~(k = segment /\ p = vaddr)
    <3>1. k = segment => p < vaddr
      BY <2>2, PrepareFacts
    <3> QED
      BY <3>1, PrepareFacts DEF IInv, Settled, PagesHeld
  <2> QED
    BY <2>1, <2>2
<1>7. BytesOK'
  <2>1. \A v : ByteNow(v)' = ByteNow(v)
    BY ByteFrame DEF ByteNow
  <2> QED
    BY <2>1 DEF IInv, Settled, BytesOK
<1> QED
  BY <1>2, <1>3, <1>4, <1>5, <1>6, <1>7 DEF IInv, Settled, Loading, TableOK, Refused, InSegments

\* A page with other flags, or no frame left.
LEMMA PrepareRefused ==
  ASSUME IInv, pc = "prepare", vaddr < Plus(Segment.vaddr, Segment.memory_size),
         \/ \E i \in Holding(vaddr) : user_page_flags[i] # Segment.flags
         \/ Holding(vaddr) = {} /\ Len(user_page_vaddrs) = MAX_USER_IMAGE_PAGES
  PROVE  ~Loadable
<1> SUFFICES ASSUME Loadable PROVE FALSE
  OBVIOUS
<1>1. /\ Len(Segs) \in Nat /\ AllSegments = {Segs[k] : k \in 1 .. Len(Segs)}
      /\ \A k \in 1 .. Len(Segs) : Segs[k] \in Segments
      /\ \A k \in 1 .. segment : k \in 1 .. Len(Segs)
  BY PrepareFacts, SegsFacts, LoopFacts DEF IInv, Settled, Loading
<1>2. CASE \E i \in Holding(vaddr) : user_page_flags[i] # Segment.flags
  <2>1. PICK i \in Holding(vaddr) : user_page_flags[i] # Segment.flags
    BY <1>2
  <2>2. PICK k \in 1 .. segment : vaddr \in Touched(Segs[k]) /\ user_page_flags[i] = Segs[k].flags
    BY <2>1, PrepareFacts DEF IInv, Settled, PagesAsked, Holding
  <2>3. Segs[k] \in AllSegments /\ Segment \in AllSegments
    BY <1>1, PrepareFacts
  <2>4. Touched(Segs[k]) \cap Touched(Segment) # {}
    BY <2>2, PrepareFacts
  <2> QED
    BY <2>1, <2>2, <2>3, <2>4 DEF Loadable
<1>3. CASE Holding(vaddr) = {} /\ Len(user_page_vaddrs) = MAX_USER_IMAGE_PAGES
  <2>1. \A k \in 1 .. Len(Segs) : Fits(Segs[k])
    <3>1. \A k \in 1 .. Len(Segs) : SegmentLoadable(Segs[k])
      BY <1>1 DEF Loadable, SegmentLoadable
    <3> QED
      BY <1>1, <3>1, SegmentCheck, AcceptedFits DEF IInv, Settled, Typed
  <2>2. IsFiniteSet(AllTouched) /\ \A k \in 1 .. Len(Segs) : Touched(Segs[k]) \subseteq AllTouched
    BY <2>1, PrepareFacts, AllTouchedFacts DEF IInv, Settled, Loading
  <2> DEFINE n == Len(user_page_vaddrs)
             f == [i \in 1 .. n + 1 |-> IF i = n + 1 THEN vaddr ELSE user_page_vaddrs[i]]
  <2>3. n \in Nat /\ DOMAIN user_page_vaddrs = 1 .. n
    BY DEF IInv, Settled, Typed
  <2>4. \A i \in 1 .. n : user_page_vaddrs[i] \in AllTouched /\ user_page_vaddrs[i] # vaddr
    BY <1>1, <1>3, <2>2, <2>3, PrepareFacts DEF IInv, Settled, PagesAsked, Holding
  <2>5. vaddr \in AllTouched
    BY <2>2, PrepareFacts
  <2> HIDE DEF n
  <2>6. f \in [1 .. n + 1 -> AllTouched]
    BY <2>3, <2>4, <2>5
  <2>7. \A i, j \in 1 .. n : user_page_vaddrs[i] = user_page_vaddrs[j] => i = j
    BY <2>3, PrepareFacts DEF IInv, Settled, PagesAsked
  <2>8. \A i, j \in 1 .. n + 1 : f[i] = f[j] => i = j
    BY <2>3, <2>4, <2>7
  <2> HIDE DEF f
  <2>9. n + 1 =< Cardinality(AllTouched)
    BY <2>2, <2>3, <2>6, <2>8, PoolBound
  <2>10. Cardinality(AllTouched) \in Nat /\ Cardinality(AllTouched) =< n
    BY <1>3, <2>2, FS_CardinalityType DEF Loadable, n
  <2> QED
    BY <2>3, <2>9, <2>10
<1> QED
  BY <1>2, <1>3

\* A new page: it holds zeros, and no earlier segment has a byte there.
LEMMA PrepareGrown ==
  ASSUME IInv, pc = "prepare", vaddr < Plus(Segment.vaddr, Segment.memory_size), Holding(vaddr) = {},
         NEW n \in Nat, n < MAX_USER_IMAGE_PAGES,
         DOMAIN user_page_vaddrs = 1 .. n,
         /\ user_page_vaddrs' \in Seq(Nat) /\ Len(user_page_vaddrs') = n + 1 /\ DOMAIN user_page_vaddrs' = 1 .. n + 1
         /\ \A i \in 1 .. n : user_page_vaddrs'[i] = user_page_vaddrs[i]
         /\ user_page_vaddrs'[n + 1] = vaddr,
         /\ user_page_flags' \in Seq(SUBSET (UserFlags \cup {"unknown"})) /\ Len(user_page_flags') = n + 1
         /\ \A i \in 1 .. n : user_page_flags'[i] = user_page_flags[i]
         /\ user_page_flags'[n + 1] = Segment.flags,
         /\ DOMAIN user_image_pages' = Frames
         /\ \A i \in 1 .. n : user_image_pages'[i] = user_image_pages[i]
         /\ \A o \in Offsets : user_image_pages'[n + 1][o] = 0,
         vaddr' = Plus(vaddr, PAGE_SIZE),
         UNCHANGED <<info, pc, rom_pages, module, segment, length, source, entry_is_executable, user_page_table>>
  PROVE  IInv'
<1>1. /\ Segment' = Segment /\ LastSegment' = LastSegment /\ LastSegment = segment /\ Segs' = Segs
      /\ pc \in InSegments /\ vaddr \in Nat
  BY Frame, PrepareFacts DEF Segment, LastSegment
<1>2. MAX_USER_IMAGE_PAGES \in Nat
  BY UserAssumption
<1>3. Typed'
  <2>1. vaddr' = vaddr + PAGE_SIZE /\ vaddr + PAGE_SIZE =< USER_STACK_BOTTOM /\ vaddr \in Nat
    BY PrepareFacts
  <2>2. vaddr' \in 0 .. WordSpan - 1
    BY <2>1, Bounds
  <2>3. Len(user_page_vaddrs') = Len(user_page_flags') /\ Len(user_page_vaddrs') =< MAX_USER_IMAGE_PAGES
    BY <1>2
  <2>4. DOMAIN user_image_pages' = Frames
    OBVIOUS
  <2>5. /\ pc' \in {"check", "find", "module", "segment", "prepare", "zero", "copy", "map", "user", "fail_stop"}
        /\ length' \in 0 .. WordSpan - 1 /\ source' \in Nat
        /\ info' \in Infos /\ segment' \in Nat /\ entry_is_executable' \in BOOLEAN
    <3>1. /\ pc \in {"check", "find", "module", "segment", "prepare", "zero", "copy", "map", "user", "fail_stop"}
          /\ length \in 0 .. WordSpan - 1 /\ source \in Nat
          /\ info \in Infos /\ segment \in Nat /\ entry_is_executable \in BOOLEAN
      BY DEF IInv, Settled, Typed, TypeOK
    <3> QED
      BY <3>1
  <2>6. TypeOK'
    BY <2>2, <2>3, <2>5 DEF TypeOK
  <2> QED
    BY <2>4, <2>5, <2>6 DEF Typed
<1>4. ImageOK' /\ ModuleOK' /\ LoopOK'
  BY <1>1, Frame DEF IInv, Settled, Loading, ImageOK, ModuleOK, LoopOK
<1>5. CursorOK'
  <2>1. PageOf(Segment.vaddr) =< vaddr /\ PageOf(Segment.vaddr) \in Nat
    BY PrepareFacts, FitsFacts, PageOfFacts DEF IInv, Settled, Loading, CursorOK
  <2> QED
    BY <1>1, <2>1, PrepareFacts, Bounds DEF CursorOK
<1>6. \A i \in 1 .. n : user_page_vaddrs[i] # vaddr
  BY DEF Holding
<1>7. \A i \in 1 .. n + 1 : i \in 1 .. n \/ i = n + 1
  OBVIOUS
<1>8. PagesAsked'
  <2>1. \A i, j \in 1 .. n + 1 : user_page_vaddrs'[i] = user_page_vaddrs'[j] => i = j
    BY <1>1, <1>2, <1>6, <1>7 DEF IInv, Settled, PagesAsked
  <2>2. ASSUME NEW i \in 1 .. n + 1
        PROVE  \E k \in 1 .. segment : user_page_vaddrs'[i] \in Touched(Segs[k]) /\ user_page_flags'[i] = Segs[k].flags
    <3>1. CASE i \in 1 .. n
      <4>1. PICK k \in 1 .. segment : user_page_vaddrs[i] \in Touched(Segs[k]) /\ user_page_flags[i] = Segs[k].flags
        BY <3>1, <1>1 DEF IInv, Settled, PagesAsked
      <4> QED
        BY <3>1, <4>1
    <3>2. CASE i = n + 1
      BY <3>2, PrepareFacts
    <3> QED
      BY <1>7, <3>1, <3>2
  <2> QED
    BY <1>1, <2>1, <2>2 DEF PagesAsked
<1>9. PagesHeld'
  <2> SUFFICES ASSUME NEW k \in 1 .. LastSegment', NEW p \in Touched(Segs'[k]),
                      pc' = "prepare" /\ k = segment' => p < vaddr'
               PROVE  \E i \in DOMAIN user_page_vaddrs' : user_page_vaddrs'[i] = p /\ user_page_flags'[i] = Segs'[k].flags
    BY DEF PagesHeld
  <2> SUFFICES \E i \in 1 .. n + 1 : user_page_vaddrs'[i] = p /\ user_page_flags'[i] = Segs[k].flags
    BY <1>1
  <2>0. k \in 1 .. segment /\ p \in Touched(Segs[k]) /\ (k = segment => p < vaddr')
    BY <1>1
  <2>1. CASE k = segment /\ p = vaddr
    BY <2>1, PrepareFacts
  <2>2. CASE ~(k = segment /\ p = vaddr)
    <3>1. k = segment => p < vaddr
      BY <2>2, <2>0, PrepareFacts
    <3>2. k \in 1 .. LastSegment /\ p \in Touched(Segs[k]) /\ (pc = "prepare" /\ k = segment => p < vaddr)
      BY <1>1, <2>0, <3>1
    <3>3. \E i \in DOMAIN user_page_vaddrs : user_page_vaddrs[i] = p /\ user_page_flags[i] = Segs[k].flags
      BY <1>1, <3>2, HeldAt DEF IInv, Settled
    <3>4. PICK i \in 1 .. n : user_page_vaddrs[i] = p /\ user_page_flags[i] = Segs[k].flags
      BY <3>3
    <3>5. i \in 1 .. n + 1
      OBVIOUS
    <3> QED
      BY <3>4, <3>5
  <2> QED
    BY <2>1, <2>2
<1>10. BytesOK'
  <2>1. \A v : ByteNow(v)' = ByteNow(v)
    BY ByteFrame DEF ByteNow
  <2> SUFFICES ASSUME NEW i \in 1 .. n + 1, NEW o \in Offsets
               PROVE  user_image_pages'[i][o] = ByteNow(user_page_vaddrs'[i] + o)
    BY <2>1 DEF BytesOK
  <2>2. CASE i \in 1 .. n
    BY <2>2, <1>1, <1>2 DEF IInv, Settled, BytesOK
  <2>3. CASE i = n + 1
    <3>1. Covering(vaddr + o, segment) = {}
      <4> SUFFICES ASSUME NEW k \in DOMAIN Segs, k < segment, vaddr + o \in Extent(Segs[k])
                   PROVE  FALSE
        BY DEF Covering
      <4>1. k \in 1 .. segment
        BY PrepareFacts, SegsFacts DEF IInv, Settled, Loading
      <4>2. Segs[k] \in Segments /\ Fits(Segs[k])
        BY <4>1, PrepareFacts, LoopFacts DEF IInv, Settled
      <4>3. vaddr \in Touched(Segs[k])
        BY <4>2, PrepareFacts, ExtentTouched
      <4>4. \E j \in DOMAIN user_page_vaddrs : user_page_vaddrs[j] = vaddr
        <5>1. k # segment
          BY <1>1, LoopFacts, SegsFacts DEF IInv, Settled, Loading
        <5> QED
          BY <1>1, <4>1, <4>3, <5>1, HeldAt DEF IInv, Settled
      <4> QED
        BY <4>4 DEF Holding
    <3>2. ByteNow(vaddr + o) = 0
      BY <3>1 DEF ByteNow, ByteAfter
    <3> QED
      BY <2>3, <3>2
  <2> QED
    BY <1>7, <2>2, <2>3
<1> QED
  BY <1>3, <1>4, <1>5, <1>8, <1>9, <1>10 DEF IInv, Settled, Loading, TableOK, Refused, InSegments

\* A page of the segment that no earlier segment has is taken and cleared.
LEMMA PrepareNew ==
  ASSUME IInv, pc = "prepare", vaddr < Plus(Segment.vaddr, Segment.memory_size),
         Holding(vaddr) = {}, Len(user_page_vaddrs) # MAX_USER_IMAGE_PAGES,
         user_page_vaddrs' = Append(user_page_vaddrs, vaddr),
         user_page_flags' = Append(user_page_flags, Segment.flags),
         user_image_pages' = [user_image_pages EXCEPT ![Len(user_page_vaddrs) + 1] = [o \in Offsets |-> 0]],
         vaddr' = Plus(vaddr, PAGE_SIZE),
         UNCHANGED <<info, pc, rom_pages, module, segment, length, source, entry_is_executable, user_page_table>>
  PROVE  IInv'
<1>1. vaddr \in Nat
  BY PrepareFacts
<1>2. PICK n \in Nat :
      /\ Len(user_page_vaddrs) = n
      /\ DOMAIN user_page_vaddrs = 1 .. n /\ Len(user_page_flags) = n /\ n < MAX_USER_IMAGE_PAGES
      /\ MAX_USER_IMAGE_PAGES \in Nat /\ DOMAIN user_image_pages = Frames
  BY UserAssumption DEF IInv, Settled, Typed, TypeOK
<1>3. Segment.flags \in SUBSET (UserFlags \cup {"unknown"})
  BY PrepareFacts DEF Segments
<1>4. /\ user_page_vaddrs' \in Seq(Nat) /\ Len(user_page_vaddrs') = n + 1 /\ DOMAIN user_page_vaddrs' = 1 .. n + 1
      /\ \A i \in 1 .. n : user_page_vaddrs'[i] = user_page_vaddrs[i]
      /\ user_page_vaddrs'[n + 1] = vaddr
  BY <1>1, <1>2, AppendFacts DEF IInv, Settled, Typed
<1>5. /\ user_page_flags' \in Seq(SUBSET (UserFlags \cup {"unknown"})) /\ Len(user_page_flags') = n + 1
      /\ \A i \in 1 .. n : user_page_flags'[i] = user_page_flags[i]
      /\ user_page_flags'[n + 1] = Segment.flags
  BY <1>2, <1>3, AppendFacts DEF IInv, Settled, Typed
<1>6. /\ DOMAIN user_image_pages' = Frames
      /\ \A i \in 1 .. n : user_image_pages'[i] = user_image_pages[i]
      /\ \A o \in Offsets : user_image_pages'[n + 1][o] = 0
  <2>1. n + 1 \in DOMAIN user_image_pages /\ \A i \in 1 .. n : i \in DOMAIN user_image_pages /\ i # n + 1
    BY <1>2 DEF Frames
  <2>2. user_image_pages' = [user_image_pages EXCEPT ![n + 1] = [o \in Offsets |-> 0]]
    BY <1>2
  <2> QED
    BY <1>2, <2>1, <2>2
<1> QED
  BY <1>2, <1>4, <1>5, <1>6, PrepareGrown

\* One page of a segment is prepared.
LEMMA PreparePageInv == ASSUME IInv, PreparePage PROVE IInv'
<1>1. /\ pc = "prepare" /\ vaddr < Plus(Segment.vaddr, Segment.memory_size)
      /\ UNCHANGED <<info, rom_pages, module, segment, length, source, entry_is_executable, user_page_table>>
  BY DEF PreparePage
<1>2. CASE /\ \E i \in Holding(vaddr) : user_page_flags[i] = Segment.flags
           /\ vaddr' = Plus(vaddr, PAGE_SIZE)
           /\ UNCHANGED <<pc, pageVars>>
  BY <1>1, <1>2, PrepareShared DEF pageVars
<1>3. CASE /\ \/ \E i \in Holding(vaddr) : user_page_flags[i] # Segment.flags
              \/ Holding(vaddr) = {} /\ Len(user_page_vaddrs) = MAX_USER_IMAGE_PAGES
           /\ pc' = "fail_stop"
           /\ UNCHANGED <<vaddr, pageVars>>
  <2>1. Typed'
    BY <1>1, <1>3 DEF IInv, Settled, Typed, TypeOK, pageVars
  <2> QED
    BY <1>1, <1>3, <2>1, PrepareRefused, Fail
<1>4. CASE /\ Holding(vaddr) = {} /\ Len(user_page_vaddrs) # MAX_USER_IMAGE_PAGES
           /\ user_page_vaddrs' = Append(user_page_vaddrs, vaddr)
           /\ user_page_flags' = Append(user_page_flags, Segment.flags)
           /\ user_image_pages' = [user_image_pages EXCEPT ![Len(user_page_vaddrs) + 1] = [o \in Offsets |-> 0]]
           /\ vaddr' = Plus(vaddr, PAGE_SIZE)
           /\ UNCHANGED pc
  BY <1>1, <1>4, PrepareNew
<1> QED
  BY <1>2, <1>3, <1>4 DEF PreparePage

-----------------------------------------------------------------------------
(* write_user_range                                                        *)

\* The segment being worked on.
LEMMA WorkingFacts ==
  ASSUME IInv, pc \in Working
  PROVE  /\ pc \in InSegments /\ LastSegment = segment
         /\ segment \in 1 .. Len(Segs) /\ segment \in 1 .. segment /\ Segment = Segs[segment]
         /\ Segment \in Segments /\ Fits(Segment) /\ SegmentAccepted(Segment)
<1>1. pc \in InSegments /\ LastSegment = segment
  BY DEF InSegments, Working, LastSegment
<1>2. /\ segment \in 1 .. Len(Segs) /\ segment \in 1 .. segment /\ Segment = Segs[segment]
      /\ Segment \in Segments /\ Fits(Segment)
  BY <1>1, LoopFacts DEF IInv, Settled
<1> QED
  BY <1>1, <1>2 DEF IInv, Settled, Loading, LoopOK

\* From prepare_user_range on, the pages of every accepted segment are there.
LEMMA WriteFrame ==
  ASSUME IInv, pc \in Working, pc' \in {"zero", "copy"},
         pc = "prepare" => ~(vaddr < Plus(Segment.vaddr, Segment.memory_size)),
         UNCHANGED <<info, rom_pages, module, segment, entry_is_executable, user_page_vaddrs, user_page_flags>>
  PROVE  ImageOK' /\ ModuleOK' /\ LoopOK' /\ PagesAsked' /\ PagesHeld' /\ Segment' = Segment /\ pc' \in InSegments
<1>1. pc' \in Working /\ pc' \in InSegments /\ LastSegment' = segment /\ Segs' = Segs /\ Segment' = Segment
  BY Frame DEF Working, InSegments, LastSegment, Segment
<1>2. ImageOK' /\ ModuleOK'
  BY WorkingFacts, <1>1, Frame DEF IInv, Settled, Loading, ImageOK, ModuleOK, InSegments
<1>3. LoopOK'
  BY WorkingFacts, <1>1, Frame DEF IInv, Settled, Loading, LoopOK
<1>4. PagesAsked'
  BY WorkingFacts, <1>1 DEF IInv, Settled, PagesAsked
<1>5. PagesHeld'
  <2> SUFFICES ASSUME NEW k \in 1 .. LastSegment', NEW p \in Touched(Segs'[k])
               PROVE  \E i \in DOMAIN user_page_vaddrs' : user_page_vaddrs'[i] = p /\ user_page_flags'[i] = Segs'[k].flags
    BY DEF PagesHeld
  <2>1. k \in 1 .. LastSegment /\ p \in Touched(Segs[k])
    BY <1>1, WorkingFacts
  <2>2. pc = "prepare" /\ k = segment => p < vaddr
    <3> SUFFICES ASSUME pc = "prepare", k = segment PROVE p < vaddr
      OBVIOUS
    <3>1. p \in Nat /\ p < Segment.vaddr + Segment.memory_size
      BY <2>1, WorkingFacts, TouchedPages DEF IsPage
    <3>2. vaddr \in Nat /\ ~(vaddr < Segment.vaddr + Segment.memory_size)
      BY WorkingFacts, FitsFacts DEF IInv, Settled, Typed, TypeOK
    <3>3. Segment.vaddr + Segment.memory_size \in Nat
      BY WorkingFacts, FitsFacts
    <3> QED
      BY <3>1, <3>2, <3>3
  <2>3. \E i \in DOMAIN user_page_vaddrs : user_page_vaddrs[i] = p /\ user_page_flags[i] = Segs[k].flags
    BY <2>1, <2>2, WorkingFacts, HeldAt DEF IInv, Settled
  <2> QED
    BY <1>1, <2>3
<1> QED
  BY <1>1, <1>2, <1>3, <1>4, <1>5

\* The addresses of a segment's bytes.
LEMMA ExtentBytes ==
  ASSUME NEW s \in Segments, Fits(s), NEW v \in Extent(s)
  PROVE  v \in Nat /\ s.vaddr =< v /\ v < s.vaddr + s.memory_size
  BY FitsFacts DEF Extent

\* All pages of the segment are there.
LEMMA PreparedInv == ASSUME IInv, Prepared PROVE IInv'
<1>1. /\ pc = "prepare" /\ pc' = "zero" /\ vaddr' = Segment.vaddr /\ length' = Segment.memory_size
      /\ pc \in Working /\ ~(vaddr < Plus(Segment.vaddr, Segment.memory_size))
      /\ UNCHANGED <<info, rom_pages, module, segment, source, entry_is_executable, user_page_vaddrs,
                     user_page_flags, user_image_pages, user_page_table>>
  BY DEF Prepared, pageVars, Working
<1>2. ImageOK' /\ ModuleOK' /\ LoopOK' /\ PagesAsked' /\ PagesHeld' /\ Segment' = Segment /\ pc' \in InSegments
  BY <1>1, WriteFrame
<1>3. Segment.vaddr \in Words /\ Segment.memory_size \in Words
  BY <1>1, WorkingFacts DEF Segments
<1>4. Typed'
  BY <1>1, <1>3 DEF IInv, Settled, Typed, TypeOK, Words
<1>5. CursorOK'
  BY <1>1, <1>2, <1>3, Bounds DEF CursorOK, Words
<1>6. BytesOK'
  <2>1. \A v : ByteNow(v)' = ByteNow(v)
    <3> SUFFICES ASSUME NEW v PROVE ByteNow(v)' = ByteNow(v)
      OBVIOUS
    <3>1. ~(v \in Extent(Segment) /\ v < Segment.vaddr)
      BY <1>1, <1>3, WorkingFacts, ExtentBytes, Bounds DEF Words
    <3>2. ByteNow(v)' = ByteAfter(v, segment)'
      BY <1>1, <1>2, <3>1 DEF ByteNow
    <3>3. ByteNow(v) = ByteAfter(v, segment)
      BY <1>1 DEF ByteNow
    <3> QED
      BY <1>1, <3>2, <3>3, ByteFrame
  <2> QED
    BY <1>1, <2>1, WorkingFacts DEF IInv, Settled, BytesOK
<1> QED
  BY <1>1, <1>2, <1>4, <1>5, <1>6 DEF IInv, Settled, Loading, TableOK, Refused

\* The memory of the segment is cleared.
LEMMA ZeroedInv == ASSUME IInv, Zeroed PROVE IInv'
<1>1. /\ pc = "zero" /\ pc' = "copy" /\ vaddr' = Segment.vaddr /\ length' = Segment.file_size
      /\ source' = Segment.data_offset /\ pc \in Working /\ length = 0
      /\ UNCHANGED <<info, rom_pages, module, segment, entry_is_executable, user_page_vaddrs,
                     user_page_flags, user_image_pages, user_page_table>>
  BY DEF Zeroed, pageVars, Working
<1>2. ImageOK' /\ ModuleOK' /\ LoopOK' /\ PagesAsked' /\ PagesHeld' /\ Segment' = Segment /\ pc' \in InSegments
  BY <1>1, WriteFrame
<1>3. Segment.vaddr \in Words /\ Segment.file_size \in Words /\ Segment.data_offset \in Words /\ Segment.memory_size \in Words
  BY <1>1, WorkingFacts DEF Segments
<1>4. Typed'
  BY <1>1, <1>3, Bounds DEF IInv, Settled, Typed, TypeOK, Words
<1>5. CursorOK'
  BY <1>1, <1>2, <1>3, Bounds DEF CursorOK, Words
<1>6. vaddr = Segment.vaddr + Segment.memory_size
  BY <1>1, <1>3, Bounds DEF IInv, Settled, Loading, CursorOK, Typed, TypeOK, Words
<1>7. BytesOK'
  <2>1. \A v : ByteNow(v)' = ByteNow(v)
    <3> SUFFICES ASSUME NEW v PROVE ByteNow(v)' = ByteNow(v)
      OBVIOUS
    <3>1. v \in Extent(Segment) => ~(v < Segment.vaddr) /\ v < vaddr
      <4>1. v \in Extent(Segment) => v \in Nat /\ Segment.vaddr =< v /\ v < Segment.vaddr + Segment.memory_size
        BY <1>1, WorkingFacts, ExtentBytes
      <4> QED
        BY <1>3, <1>6, <4>1, Bounds DEF Words
    <3>2. ByteNow(v)' = IF v \in Extent(Segment) THEN 0 ELSE ByteAfter(v, segment)'
      BY <1>1, <1>2, <3>1 DEF ByteNow
    <3>3. ByteNow(v) = IF v \in Extent(Segment) THEN 0 ELSE ByteAfter(v, segment)
      BY <1>1, <3>1 DEF ByteNow
    <3> QED
      BY <1>1, <3>2, <3>3, ByteFrame
  <2> QED
    BY <1>1, <2>1, WorkingFacts DEF IInv, Settled, BytesOK
<1> QED
  BY <1>1, <1>2, <1>4, <1>5, <1>7 DEF IInv, Settled, Loading, TableOK, Refused

\* The greatest of a set of numbers below n, when n is added.
LEMMA GreatestLast ==
  ASSUME NEW n \in Nat, NEW S, \A k \in S : k \in Nat /\ k =< n, n \in S
  PROVE  Greatest(S) = n
<1>1. \A k \in S : (\A j \in S : j =< k) => k = n
  OBVIOUS
<1>2. \A j \in S : j =< n
  OBVIOUS
<1>3. Greatest(S) \in S /\ \A j \in S : j =< Greatest(S)
  BY <1>2 DEF Greatest
<1> QED
  BY <1>1, <1>3

\* The byte that is due once one more segment has been loaded.
LEMMA ByteAdded ==
  ASSUME NEW n \in Nat, DOMAIN Segs \subseteq Nat, n \in DOMAIN Segs, NEW v
  PROVE  ByteAfter(v, n + 1) = IF v \in Extent(Segs[n]) THEN ByteOf(Segs[n], v) ELSE ByteAfter(v, n)
<1>1. CASE v \in Extent(Segs[n])
  <2>1. n \in Covering(v, n + 1) /\ \A k \in Covering(v, n + 1) : k \in Nat /\ k =< n
    BY <1>1 DEF Covering
  <2>2. Greatest(Covering(v, n + 1)) = n
    BY <2>1, GreatestLast
  <2> QED
    BY <1>1, <2>1, <2>2 DEF ByteAfter
<1>2. CASE v \notin Extent(Segs[n])
  <2>1. Covering(v, n + 1) = Covering(v, n)
    <3>1. \A k \in DOMAIN Segs : v \in Extent(Segs[k]) => (k < n + 1 <=> k < n)
      BY <1>2
    <3> QED
      BY <3>1 DEF Covering
  <2> QED
    BY <1>2, <2>1 DEF ByteAfter
<1> QED
  BY <1>1, <1>2

\* The file bytes of the segment are in memory.
LEMMA CopiedInv == ASSUME IInv, Copied PROVE IInv'
<1>1. /\ pc = "copy" /\ pc' = "segment" /\ segment' = segment + 1 /\ pc \in Working /\ length = 0
      /\ entry_is_executable' = (entry_is_executable \/ HoldsEntry(Segment))
      /\ UNCHANGED <<info, rom_pages, module, vaddr, length, source, user_page_vaddrs,
                     user_page_flags, user_image_pages, user_page_table>>
  BY DEF Copied, pageVars, Working
<1>2. /\ Len(Segs) \in Nat /\ DOMAIN Segs = 1 .. Len(Segs) /\ segment \in 1 .. Len(Segs) /\ segment \in Nat
      /\ Segment = Segs[segment] /\ LastSegment = segment
      /\ \A k \in 1 .. segment : SegmentAccepted(Segs[k])
      /\ entry_is_executable <=> \E k \in 1 .. segment - 1 : HoldsEntry(Segs[k])
      /\ ModuleAccepted
  BY <1>1, WorkingFacts, SegsFacts DEF IInv, Settled, Loading, LoopOK, Typed
<1>3. /\ pc' \in InSegments /\ pc' \notin Working /\ LastSegment' = segment /\ Segs' = Segs /\ segment' - 1 = segment
  BY <1>1, <1>2, Frame DEF InSegments, Working, LastSegment
<1>4. Typed'
  BY <1>1, <1>2 DEF IInv, Settled, Typed, TypeOK
<1>5. ImageOK' /\ ModuleOK'
  BY <1>1, Frame DEF IInv, Settled, Loading, ImageOK, ModuleOK
<1>6. LoopOK'
  <2>1. segment' \in 1 .. Len(Segs) + 1
    BY <1>1, <1>2
  <2>2. entry_is_executable' <=> \E k \in 1 .. segment : HoldsEntry(Segs[k])
    <3>1. \A k : k \in 1 .. segment <=> k \in 1 .. segment - 1 \/ k = segment
      BY <1>2
    <3> QED
      BY <1>1, <1>2, <3>1
  <2> QED
    BY <1>1, <1>2, <1>3, <2>1, <2>2, Frame DEF LoopOK
<1>7. PagesAsked' /\ PagesHeld'
  BY <1>1, <1>2, <1>3, WorkingFacts DEF IInv, Settled, PagesAsked, PagesHeld
<1>8. BytesOK'
  <2>1. ASSUME NEW v \in Nat PROVE ByteNow(v)' = ByteNow(v)
    <3>1. \A n : ByteAfter(v, n)' = ByteAfter(v, n)
      BY <1>3 DEF ByteAfter, Covering
    <3>2. ByteNow(v)' = ByteAfter(v, segment + 1)
      BY <1>1, <3>1 DEF ByteNow
    <3>3. ByteAfter(v, segment + 1) = IF v \in Extent(Segment) THEN ByteOf(Segment, v) ELSE ByteAfter(v, segment)
      BY <1>2, ByteAdded
    <3>4. v < vaddr <=> v - Segment.vaddr < Segment.file_size
      <4>1. vaddr = Segment.vaddr + Segment.file_size /\ Segment.vaddr \in Nat /\ Segment.file_size \in Nat
        BY <1>1, WorkingFacts, FitsFacts DEF IInv, Settled, Loading, CursorOK, Typed, TypeOK
      <4> QED
        BY <4>1
    <3>5. ByteNow(v) = IF v \in Extent(Segment) THEN ByteOf(Segment, v) ELSE ByteAfter(v, segment)
      BY <1>1, <3>4 DEF ByteNow, ByteOf
    <3> QED
      BY <3>2, <3>3, <3>5
  <2>2. \A i \in DOMAIN user_page_vaddrs, o \in Offsets : user_page_vaddrs[i] + o \in Nat
    BY Bounds DEF IInv, Settled, Typed, Offsets
  <2> QED
    BY <1>1, <2>1, <2>2, WorkingFacts DEF IInv, Settled, BytesOK
<1> QED
  BY <1>1, <1>3, <1>4, <1>5, <1>6, <1>7, <1>8 DEF IInv, Settled, Loading, CursorOK, TableOK, Refused

\* The pool has a frame for each of its pages.
LEMMA PoolIndices ==
  ASSUME Settled
  PROVE  /\ DOMAIN user_page_vaddrs \subseteq Frames
         /\ DOMAIN user_page_vaddrs = 1 .. Len(user_page_vaddrs)
         /\ Len(user_page_vaddrs) \in Nat /\ Len(user_page_vaddrs) =< MAX_USER_IMAGE_PAGES
<1>1. PICK n \in Nat : n = Len(user_page_vaddrs) /\ DOMAIN user_page_vaddrs = 1 .. n /\ n =< MAX_USER_IMAGE_PAGES
  BY DEF Settled, Typed, TypeOK
<1> QED
  BY <1>1, UserAssumption DEF Frames

\* What the pool holds are pages below the stack.
LEMMA PoolPages ==
  ASSUME Settled, pc \in InSegments, NEW i \in DOMAIN user_page_vaddrs
  PROVE  /\ IsPage(user_page_vaddrs[i]) /\ user_page_vaddrs[i] \in Nat /\ user_page_vaddrs[i] < USER_STACK_BOTTOM
<1>1. PICK k \in 1 .. LastSegment : user_page_vaddrs[i] \in Touched(Segs[k])
  BY DEF Settled, PagesAsked
<1>2. Segs[k] \in Segments /\ Fits(Segs[k])
  BY LoopFacts DEF Settled
<1> QED
  BY <1>1, <1>2, TouchedFacts

\* One pass of write_user_range: it stays on a page and within the segment.
LEMMA ChunkFacts ==
  ASSUME IInv, pc \in {"zero", "copy"}, length # 0
  PROVE  /\ vaddr \in Nat /\ vaddr \in Extent(Segment) /\ Offset = vaddr - PageOf(vaddr)
         /\ Offset \in Nat /\ PageOf(vaddr) \in Nat /\ IsPage(PageOf(vaddr))
         /\ Chunk \in Nat /\ Chunk >= 1 /\ Chunk =< length /\ length \in Nat
         /\ vaddr + Chunk =< PageOf(vaddr) + PAGE_SIZE
         /\ Plus(vaddr, Chunk) = vaddr + Chunk
         /\ Segment.vaddr =< vaddr /\ vaddr + Chunk < WordSpan
         /\ vaddr + Chunk =< Segment.vaddr + Segment.memory_size
         /\ pc = "copy" => vaddr + Chunk =< Segment.vaddr + Segment.file_size
<1>1. pc \in Working
  BY DEF Working
<1>2. PICK b \in Nat, m \in Nat, f \in Nat :
        /\ b = Segment.vaddr /\ m = Segment.memory_size /\ f = Segment.file_size
        /\ f =< m /\ b + m =< USER_STACK_BOTTOM
  BY <1>1, WorkingFacts, FitsFacts
<1>3. PICK v \in Nat, l \in Nat :
        /\ v = vaddr /\ l = length /\ l >= 1 /\ b =< v
        /\ pc = "zero" => v + l = b + m
        /\ pc = "copy" => v + l = b + f
  BY <1>2 DEF IInv, Settled, Typed, TypeOK, Loading, CursorOK
<1>4. PICK a \in Nat, o \in Nat :
        /\ a = PageOf(v) /\ IsPage(a) /\ o = v % PAGE_SIZE /\ o = v - a /\ a =< v /\ v < a + PAGE_SIZE
  BY PageOfFacts, Zenon
<1>5. Offset = o /\ PageOf(vaddr) = a
  BY <1>3, <1>4 DEF Offset
<1>6. PICK c \in Nat : c = Chunk /\ c >= 1 /\ c =< l /\ c =< PAGE_SIZE - o
  BY <1>3, <1>4, <1>5, Bounds DEF Chunk
<1>7. /\ v + c =< a + PAGE_SIZE /\ v + c =< b + m /\ (pc = "copy" => v + c =< b + f)
      /\ v + c < WordSpan /\ v \in b .. b + m - 1
  BY <1>2, <1>3, <1>4, <1>6, Bounds
<1>8. Plus(v, c) = v + c
  BY <1>7, PlusSmall
<1> QED
  BY <1>2, <1>3, <1>4, <1>5, <1>6, <1>7, <1>8 DEF Extent

\* The bytes of the pool that the pass writes are those at its addresses.
LEMMA ChunkAddresses ==
  ASSUME IInv, pc \in {"zero", "copy"}, length # 0,
         NEW i \in DOMAIN user_page_vaddrs, NEW o \in Offsets, NEW v \in Nat, v = user_page_vaddrs[i] + o
  PROVE  i \in Holding(PageOf(vaddr)) /\ o \in Offset .. Offset + Chunk - 1
         <=> vaddr =< v /\ v < vaddr + Chunk
<1>1. pc \in InSegments
  BY DEF InSegments
<1>2. PICK p \in Nat : p = user_page_vaddrs[i] /\ IsPage(p)
  BY <1>1, PoolPages DEF IInv
<1>3. PICK w \in Nat, c \in Nat, a \in Nat :
        /\ w = vaddr /\ c = Chunk /\ a = PageOf(vaddr) /\ IsPage(a) /\ Offset = w - a /\ a =< w
        /\ c >= 1 /\ w + c =< a + PAGE_SIZE
  BY ChunkFacts
<1>4. o \in Nat /\ o < PAGE_SIZE /\ PAGE_SIZE \in Nat
  BY Bounds DEF Offsets
<1>5. PageOf(v) = p /\ v = p + o
  BY <1>2, PageOffset
<1>6. w =< v /\ v < w + c => p = a
  <2> SUFFICES ASSUME w =< v, v < w + c PROVE p = a
    OBVIOUS
  <2>1. a =< v /\ v < a + PAGE_SIZE
    BY <1>3, <1>4
  <2>2. PageOf(v) = a
    BY <1>3, <2>1, PageUnique
  <2> QED
    BY <1>5, <2>2
<1>7. p = a => (o \in w - a .. w - a + c - 1 <=> w =< v /\ v < w + c)
  BY <1>3, <1>4, <1>5
<1>8. i \in Holding(PageOf(vaddr)) <=> p = a
  BY <1>2, <1>3 DEF Holding
<1> QED
  BY <1>3, <1>6, <1>7, <1>8

\* The bytes that are due once the cursor has moved.
LEMMA ByteWritten ==
  ASSUME IInv, pc \in {"zero", "copy"}, length # 0, NEW v \in Nat,
         UNCHANGED <<info, pc, module, segment>>, vaddr' = vaddr + Chunk
  PROVE  /\ vaddr =< v /\ v < vaddr + Chunk =>
              ByteNow(v)' = IF pc = "zero" THEN 0 ELSE Rom[source + (v - vaddr)]
         /\ ~(vaddr =< v /\ v < vaddr + Chunk) => ByteNow(v)' = ByteNow(v)
<1>1. pc \in Working /\ Segment' = Segment /\ pc' = pc
  BY Frame DEF Working, Segment
<1>2. /\ Segment.vaddr \in Nat /\ Segment.memory_size \in Nat /\ Segment.file_size \in Nat
      /\ Segment.data_offset \in Nat
  BY <1>1, WorkingFacts, FitsFacts
<1>3. ASSUME vaddr =< v, v < vaddr + Chunk
      PROVE  ByteNow(v)' = IF pc = "zero" THEN 0 ELSE Rom[source + (v - vaddr)]
  <2>1. v \in Extent(Segment)
    BY <1>2, <1>3, ChunkFacts DEF Extent
  <2>2. CASE pc = "zero"
    BY <1>1, <1>3, <2>1, <2>2 DEF ByteNow
  <2>3. CASE pc = "copy"
    <3>1. v - Segment.vaddr < Segment.file_size
      BY <1>2, <1>3, <2>3, ChunkFacts
    <3>2. source + (v - vaddr) = Segment.data_offset + (v - Segment.vaddr)
      BY <1>2, <2>3, ChunkFacts DEF IInv, Settled, Loading, CursorOK
    <3>3. ByteNow(v)' = ByteOf(Segment, v)
      BY <1>1, <1>3, <2>1, <2>3 DEF ByteNow
    <3> QED
      BY <2>3, <3>1, <3>2, <3>3 DEF ByteOf
  <2> QED
    BY <2>2, <2>3
<1>4. ASSUME ~(vaddr =< v /\ v < vaddr + Chunk) PROVE ByteNow(v)' = ByteNow(v)
  <2>1. v < vaddr' <=> v < vaddr
    BY <1>4, ChunkFacts
  <2>2. ByteAfter(v, segment)' = ByteAfter(v, segment)
    BY ByteFrame
  <2> QED
    BY <1>1, <2>1, <2>2 DEF ByteNow
<1> QED
  BY <1>3, <1>4

\* One chunk is written into the page that holds its address.
LEMMA WriteChunkInv == ASSUME IInv, WriteChunk PROVE IInv'
<1>1. /\ pc \in {"zero", "copy"} /\ length # 0 /\ pc \in Working
      /\ UNCHANGED <<info, rom_pages, module, segment, entry_is_executable, user_page_vaddrs, user_page_flags,
                     user_page_table>>
  BY DEF WriteChunk, Working
<1>2. Holding(PageOf(vaddr)) # {}
  <2>1. /\ segment \in 1 .. LastSegment /\ PageOf(vaddr) \in Touched(Segs[segment]) /\ pc # "prepare" /\ pc \in InSegments
    BY <1>1, ChunkFacts, WorkingFacts, TouchedFacts
  <2>2. \E i \in DOMAIN user_page_vaddrs : user_page_vaddrs[i] = PageOf(vaddr)
    BY <2>1, HeldAt DEF IInv, Settled
  <2> QED
    BY <2>2 DEF Holding
<1>3. /\ user_image_pages' =
           [i \in Frames |-> [o \in Offsets |->
              IF i \in Holding(PageOf(vaddr)) /\ o \in Offset .. Offset + Chunk - 1
              THEN IF pc = "zero" THEN 0 ELSE Rom[source + (o - Offset)]
              ELSE user_image_pages[i][o]]]
      /\ vaddr' = vaddr + Chunk /\ length' = length - Chunk
      /\ source' = IF pc = "zero" THEN source ELSE source + Chunk
      /\ pc' = pc
  BY <1>1, <1>2, ChunkFacts DEF WriteChunk
<1>4. ImageOK' /\ ModuleOK' /\ LoopOK' /\ PagesAsked' /\ PagesHeld' /\ Segment' = Segment /\ pc' \in InSegments
  BY <1>1, <1>3, WriteFrame
<1>5. Typed'
  <2>1. vaddr \in Nat /\ Chunk \in Nat /\ length \in Nat /\ Chunk =< length /\ vaddr + Chunk < WordSpan
    BY <1>1, ChunkFacts
  <2>2. WordSpan \in Nat /\ length < WordSpan /\ source \in Nat
    BY Bounds DEF IInv, Settled, Typed, TypeOK
  <2>3. vaddr + Chunk \in 0 .. WordSpan - 1 /\ length - Chunk \in 0 .. WordSpan - 1
        /\ source + Chunk \in Nat
    BY <2>1, <2>2
  <2>4. vaddr' \in 0 .. WordSpan - 1 /\ length' \in 0 .. WordSpan - 1 /\ source' \in Nat
    BY <1>3, <2>2, <2>3, Zenon
  <2>5. DOMAIN user_image_pages' = Frames
    BY <1>3
  <2> QED
    BY <1>1, <1>3, <2>4, <2>5 DEF IInv, Settled, Typed, TypeOK
<1>6. CursorOK'
  <2>1. Segment.vaddr \in Nat /\ Segment.memory_size \in Nat /\ Segment.file_size \in Nat /\ Segment.data_offset \in Nat
    BY <1>1, WorkingFacts, FitsFacts
  <2> QED
    BY <1>1, <1>3, <1>4, <2>1, ChunkFacts DEF IInv, Settled, Loading, CursorOK
<1>7. BytesOK'
  <2> SUFFICES ASSUME NEW i \in DOMAIN user_page_vaddrs', NEW o \in Offsets
               PROVE  user_image_pages'[i][o] = ByteNow(user_page_vaddrs[i] + o)'
    BY <1>1 DEF BytesOK
  <2>1. i \in DOMAIN user_page_vaddrs /\ i \in Frames /\ pc \in InSegments
    BY <1>1, WorkingFacts, PoolIndices DEF IInv
  <2>2. PICK v \in Nat : v = user_page_vaddrs[i] + o
    BY <2>1, Bounds DEF IInv, Settled, Typed, Offsets
  <2>3. user_image_pages[i][o] = ByteNow(v)
    BY <2>1, <2>2 DEF IInv, Settled, BytesOK
  <2>4. user_image_pages'[i][o] =
          IF i \in Holding(PageOf(vaddr)) /\ o \in Offset .. Offset + Chunk - 1
          THEN IF pc = "zero" THEN 0 ELSE Rom[source + (o - Offset)]
          ELSE user_image_pages[i][o]
    BY <1>3, <2>1
  <2>5. i \in Holding(PageOf(vaddr)) /\ o \in Offset .. Offset + Chunk - 1
        <=> vaddr =< v /\ v < vaddr + Chunk
    BY <1>1, <2>1, <2>2, ChunkAddresses
  <2>6. ByteNow(user_page_vaddrs[i] + o)' = ByteNow(v)'
    BY <1>1, <2>2
  <2>7. CASE vaddr =< v /\ v < vaddr + Chunk
    <3>1. o - Offset = v - vaddr
      <4>1. user_page_vaddrs[i] = PageOf(vaddr) /\ o \in Int
        BY <2>5, <2>7, Bounds DEF Holding, Offsets
      <4> QED
        BY <1>1, <2>2, <4>1, ChunkFacts
    <3>2. ByteNow(v)' = IF pc = "zero" THEN 0 ELSE Rom[source + (v - vaddr)]
      BY <1>1, <1>3, <2>7, ByteWritten
    <3> QED
      BY <2>4, <2>5, <2>6, <2>7, <3>1, <3>2
  <2>8. CASE ~(vaddr =< v /\ v < vaddr + Chunk)
    <3>1. ByteNow(v)' = ByteNow(v)
      BY <1>1, <1>3, <2>8, ByteWritten
    <3> QED
      BY <2>3, <2>4, <2>5, <2>6, <2>8, <3>1
  <2> QED
    BY <2>7, <2>8
<1> QED
  BY <1>1, <1>3, <1>4, <1>5, <1>6, <1>7 DEF IInv, Settled, Loading, TableOK, Refused

-----------------------------------------------------------------------------
(* User mode, and the invariant                                            *)

\* The user table maps every prepared page and the stack.
LEMMA MapUserInv == ASSUME IInv, MapUser PROVE IInv'
<1>1. /\ pc = "map" /\ pc' = "user" /\ pc \in InSegments /\ pc' \in InSegments /\ pc \notin Working /\ pc' \notin Working
      /\ UNCHANGED <<info, rom_pages, module, segment, vaddr, length, source, entry_is_executable,
                     user_page_vaddrs, user_page_flags, user_image_pages>>
  BY DEF MapUser, loopVars, pageVars, InSegments, Working
<1>2. LastSegment' = LastSegment /\ Segs' = Segs
  BY <1>1, Frame DEF LastSegment
<1>3. Typed'
  BY <1>1 DEF IInv, Settled, Typed, TypeOK
<1>4. ImageOK' /\ ModuleOK' /\ LoopOK'
  BY <1>1, <1>2, Frame DEF IInv, Settled, Loading, ImageOK, ModuleOK, LoopOK
<1>5. PagesAsked' /\ PagesHeld'
  BY <1>1, <1>2 DEF IInv, Settled, PagesAsked, PagesHeld
<1>6. BytesOK'
  <2>1. \A v : ByteNow(v)' = ByteNow(v)
    BY <1>1, ByteFrame DEF ByteNow
  <2> QED
    BY <1>1, <2>1 DEF IInv, Settled, BytesOK
<1>7. TableOK'
  <2> DEFINE T == user_page_table'
             D == {user_page_vaddrs[i] : i \in DOMAIN user_page_vaddrs} \cup {USER_STACK_BOTTOM}
  <2>1. T = [p \in D |->
               IF p = USER_STACK_BOTTOM
               THEN [frame |-> STACK, flags |-> {READABLE, WRITABLE}]
               ELSE LET i == CHOOSE i \in Holding(p) : TRUE IN [frame |-> i, flags |-> user_page_flags[i]]]
    BY DEF MapUser
  <2>2. DOMAIN T = D
    BY <2>1, Zenon
  <2>3. T[USER_STACK_BOTTOM] = [frame |-> STACK, flags |-> {READABLE, WRITABLE}]
    <3>1. USER_STACK_BOTTOM \in D
      OBVIOUS
    <3> QED
      BY <2>1, <3>1, Zenon
  <2>4. ASSUME NEW i \in DOMAIN user_page_vaddrs
        PROVE  T[user_page_vaddrs[i]] = [frame |-> i, flags |-> user_page_flags[i]]
    <3>1. PICK p \in D : p = user_page_vaddrs[i]
      OBVIOUS
    <3>2. p # USER_STACK_BOTTOM
      BY <1>1, <3>1, PoolPages, Bounds DEF IInv
    <3>3. Holding(p) = {i}
      BY <1>1, <3>1 DEF Holding, IInv, Settled, PagesAsked
    <3>4. (CHOOSE j \in Holding(p) : TRUE) = i
      BY <3>3, Zenon
    <3>5. T[p] = [frame |-> CHOOSE j \in Holding(p) : TRUE, flags |-> user_page_flags[CHOOSE j \in Holding(p) : TRUE]]
      BY <2>1, <3>1, <3>2, Zenon
    <3> QED
      BY <3>1, <3>4, <3>5, Zenon
  <2> HIDE DEF T, D
  <2> QED
    BY <1>1, <2>2, <2>3, <2>4 DEF TableOK, T, D
<1> QED
  BY <1>1, <1>3, <1>4, <1>5, <1>6, <1>7 DEF IInv, Settled, Loading, CursorOK, Refused

\* Nothing but bytes of the frames changes.
LEMMA SettledFrame ==
  ASSUME Settled, UNCHANGED loaderVars, DOMAIN user_image_pages' = DOMAIN user_image_pages
  PROVE  Settled' /\ \A v : ByteNow(v)' = ByteNow(v)
<1>1. UNCHANGED <<info, pc, rom_pages, module, segment, vaddr, length, source, entry_is_executable,
                  user_page_vaddrs, user_page_flags, user_page_table>>
  BY DEF loaderVars, loopVars
<1>2. LastSegment' = LastSegment /\ Segs' = Segs /\ Segment' = Segment
  BY <1>1, Frame DEF LastSegment, Segment
<1>3. Typed'
  BY <1>1 DEF Settled, Typed, TypeOK
<1>4. Loading'
  BY <1>1, <1>2, Frame DEF Settled, Loading, ImageOK, ModuleOK, LoopOK, CursorOK
<1>5. PagesAsked' /\ PagesHeld' /\ TableOK' /\ Refused'
  BY <1>1, <1>2, Frame DEF Settled, PagesAsked, PagesHeld, TableOK, Refused
<1>6. \A v : ByteNow(v)' = ByteNow(v)
  BY <1>1, <1>2, ByteFrame DEF ByteNow
<1> QED
  BY <1>3, <1>4, <1>5, <1>6 DEF Settled

\* A stuttering step.
LEMMA StutterInv == ASSUME IInv, UNCHANGED vars PROVE IInv'
<1>1. UNCHANGED loaderVars /\ UNCHANGED <<pc, user_page_vaddrs, user_image_pages>>
  BY DEF vars, loaderVars, pageVars
<1>2. Settled' /\ \A v : ByteNow(v)' = ByteNow(v)
  BY <1>1, SettledFrame DEF IInv
<1> QED
  BY <1>1, <1>2 DEF IInv, BytesOK

\* Every step of the loader keeps IInv.
LEMMA NextInv == ASSUME IInv, [Next]_vars PROVE IInv'
  BY CheckInv, FindModuleInv, RefuseModuleInv, StartModuleInv, NextSegmentInv, PreparePageInv, PreparedInv,
     WriteChunkInv, ZeroedInv, CopiedInv, MapUserInv, StutterInv
  DEF Next, Over

\* The user's stack is clear.
StackClear == \A o \in Offsets : user_image_pages[STACK][o] = 0

\* No step of the loader writes the stack once it is clear: the pool's frames
\* are others.
LEMMA StackNext == ASSUME IInv, StackClear, [Next]_vars PROVE StackClear'
<1>1. DOMAIN user_image_pages = Frames /\ STACK \in Frames
  BY DEF IInv, Settled, Typed, Frames
<1>2. /\ DOMAIN user_page_vaddrs = 1 .. Len(user_page_vaddrs) /\ Len(user_page_vaddrs) \in Nat
  BY PoolIndices DEF IInv
<1>3. CASE StartModule
  BY <1>1, <1>3 DEF StartModule, StackClear
<1>4. CASE PreparePage
  <2>1. CASE UNCHANGED user_image_pages
    BY <2>1 DEF StackClear
  <2>2. CASE user_image_pages' = [user_image_pages EXCEPT ![Len(user_page_vaddrs) + 1] = [o \in Offsets |-> 0]]
    <3>1. STACK # Len(user_page_vaddrs) + 1
      BY <1>2 DEF STACK
    <3>2. user_image_pages'[STACK] = user_image_pages[STACK]
      BY <1>1, <2>2, <3>1
    <3> QED
      BY <3>2 DEF StackClear
  <2> QED
    BY <1>4, <2>1, <2>2 DEF PreparePage, pageVars
<1>5. CASE WriteChunk
  <2>1. STACK \notin Holding(PageOf(vaddr))
    BY <1>2 DEF STACK, Holding
  <2>2. CASE UNCHANGED user_image_pages
    BY <2>2 DEF StackClear
  <2>3. CASE user_image_pages' =
               [i \in Frames |-> [o \in Offsets |->
                  IF i \in Holding(PageOf(vaddr)) /\ o \in Offset .. Offset + Chunk - 1
                  THEN IF pc = "zero" THEN 0 ELSE Rom[source + (o - Offset)]
                  ELSE user_image_pages[i][o]]]
    BY <1>1, <2>1, <2>3 DEF StackClear
  <2> QED
    BY <1>5, <2>2, <2>3 DEF WriteChunk
<1>6. CASE Check \/ FindModule \/ RefuseModule \/ NextSegment \/ Prepared \/ Zeroed \/ Copied \/ MapUser
           \/ Over \/ UNCHANGED vars
  <2>1. UNCHANGED user_image_pages
    BY <1>6 DEF Check, FindModule, RefuseModule, NextSegment, Prepared, Zeroed, Copied, MapUser, Over, vars, pageVars
  <2> QED
    BY <2>1 DEF StackClear
<1> QED
  BY <1>3, <1>4, <1>5, <1>6 DEF Next

-----------------------------------------------------------------------------
(* What the invariant says in user mode                                    *)

\* In user mode all segments have been loaded.
LEMMA UserFacts ==
  ASSUME Settled, pc = "user"
  PROVE  /\ pc \in InSegments /\ Len(Segs) \in Nat /\ segment = Len(Segs) + 1 /\ LastSegment = Len(Segs)
         /\ DOMAIN Segs = 1 .. Len(Segs) /\ AllSegments = {Segs[k] : k \in 1 .. Len(Segs)}
         /\ \A k \in 1 .. Len(Segs) : Segs[k] \in Segments /\ SegmentAccepted(Segs[k]) /\ Fits(Segs[k])
         /\ \A k \in 1 .. Len(Segs) : \A p \in Touched(Segs[k]) :
              \E i \in DOMAIN user_page_vaddrs : user_page_vaddrs[i] = p /\ user_page_flags[i] = Segs[k].flags
         /\ AllTouched = {user_page_vaddrs[i] : i \in DOMAIN user_page_vaddrs}
<1>1. pc \in InSegments
  BY DEF InSegments
<1>2. /\ Len(Segs) \in Nat /\ DOMAIN Segs = 1 .. Len(Segs) /\ AllSegments = {Segs[k] : k \in 1 .. Len(Segs)}
      /\ \A k \in 1 .. Len(Segs) : Segs[k] \in Segments
  BY <1>1, SegsFacts DEF Settled, Loading
<1>3. segment = Len(Segs) + 1 /\ \A k \in 1 .. LastSegment : SegmentAccepted(Segs[k])
  BY <1>1 DEF Settled, Loading, LoopOK
<1>4. LastSegment = Len(Segs)
  BY <1>2, <1>3 DEF LastSegment, Working
<1>5. \A k \in 1 .. Len(Segs) : SegmentAccepted(Segs[k]) /\ Fits(Segs[k])
  BY <1>3, <1>4, AcceptedFits
<1>6. ASSUME NEW k \in 1 .. Len(Segs), NEW p \in Touched(Segs[k])
      PROVE  \E i \in DOMAIN user_page_vaddrs : user_page_vaddrs[i] = p /\ user_page_flags[i] = Segs[k].flags
  BY <1>1, <1>4, HeldAt DEF Settled
<1>7. \A i \in DOMAIN user_page_vaddrs : \E k \in 1 .. Len(Segs) : user_page_vaddrs[i] \in Touched(Segs[k])
  BY <1>1, <1>4 DEF Settled, PagesAsked
<1>8. \A p : p \in AllTouched <=> \E k \in 1 .. Len(Segs) : p \in Touched(Segs[k])
  BY <1>1, AllTouchedFacts DEF Settled, Loading
<1>9. AllTouched = {user_page_vaddrs[i] : i \in DOMAIN user_page_vaddrs}
  BY <1>6, <1>7, <1>8
<1> QED
  BY <1>1, <1>2, <1>3, <1>4, <1>5, <1>6, <1>9

\* What the loader lets through can be loaded.
LEMMA UserLoadable == ASSUME Settled, pc = "user" PROVE Loadable
<1>1. info \in Infos
  BY DEF Settled, Typed
<1>2. /\ info.ok /\ info.image_size \in 1 .. SYSTEM_ROM_SIZE
      /\ info.image_size =< ROM_TABLE_COUNT * TablePages * PAGE_SIZE
  BY <1>1, RecordTypes, RomFits, UserAssumption DEF Settled, Loading, ImageOK
<1>3. /\ module \in DOMAIN info.modules /\ Module = info.modules[module]
      /\ image_records_valid(info.module_table_offset, Len(info.modules))
      /\ Module.named /\ image_range_valid(Module.name_offset, Module.name_length)
  BY DEF Settled, Loading, ModuleOK, Module
<1>4. /\ info.module_table_offset + RecordSize * Len(info.modules) =< info.image_size
      /\ Module.named /\ Module.name_offset + Module.name_length =< info.image_size
  BY <1>1, <1>3, RecordTypes, RecordsFit, RangeFits
<1>5. /\ Module.segments # <<>> /\ Module.entry % InstructionSize = 0
      /\ Module.segment_table_offset + RecordSize * Len(Module.segments) =< info.image_size
  <2>1. ModuleAccepted /\ Module.segments \in Seq(Segments)
    BY <1>1, <1>3, UserFacts, RecordTypes DEF Settled, Loading, LoopOK
  <2>2. Len(Module.segments) \in Nat /\ (Module.segments = <<>> => Len(Module.segments) = 0)
    BY <2>1
  <2>3. Module.segment_table_offset \in Nat
    BY <1>1, <1>3, RecordTypes
  <2> QED
    BY <1>1, <2>1, <2>2, <2>3, RecordsFit DEF ModuleAccepted
<1>6. \A s \in AllSegments : SegmentLoadable(s)
  BY <1>1, UserFacts, SegmentCheck
<1>7. ASSUME NEW s \in AllSegments, NEW t \in AllSegments, Touched(s) \cap Touched(t) # {}
      PROVE  s.flags = t.flags
  <2>1. PICK j \in 1 .. Len(Segs), k \in 1 .. Len(Segs) : s = Segs[j] /\ t = Segs[k]
    BY UserFacts
  <2>2. PICK p : p \in Touched(s) /\ p \in Touched(t)
    BY <1>7
  <2>3. PICK x \in DOMAIN user_page_vaddrs : user_page_vaddrs[x] = p /\ user_page_flags[x] = s.flags
    BY <2>1, <2>2, UserFacts
  <2>4. PICK y \in DOMAIN user_page_vaddrs : user_page_vaddrs[y] = p /\ user_page_flags[y] = t.flags
    BY <2>1, <2>2, UserFacts
  <2>5. x = y
    BY <2>3, <2>4, UserFacts DEF Settled, PagesAsked
  <2> QED
    BY <2>3, <2>4, <2>5
<1>8. Cardinality(AllTouched) =< MAX_USER_IMAGE_PAGES
  <2>1. PICK n \in Nat : n = Len(user_page_vaddrs) /\ n =< MAX_USER_IMAGE_PAGES /\ DOMAIN user_page_vaddrs = 1 .. n
    BY PoolIndices
  <2>2. user_page_vaddrs \in [1 .. n -> AllTouched]
    <3>1. user_page_vaddrs = [i \in DOMAIN user_page_vaddrs |-> user_page_vaddrs[i]]
      BY DEF Settled, Typed
    <3> QED
      BY <2>1, <3>1, UserFacts
  <2>3. user_page_vaddrs \in Surjection(1 .. n, AllTouched)
    BY <2>1, <2>2, UserFacts DEF Surjection
  <2>4. IsFiniteSet(1 .. n) /\ Cardinality(1 .. n) = n
    BY FS_Interval
  <2>5. IsFiniteSet(AllTouched) /\ Cardinality(AllTouched) =< n
    BY <2>3, <2>4, FS_Surjection
  <2>6. Cardinality(AllTouched) \in Nat /\ MAX_USER_IMAGE_PAGES \in Nat
    BY <2>5, FS_CardinalityType, UserAssumption
  <2> QED
    BY <2>1, <2>5, <2>6
<1>9. \E s \in AllSegments : "x" \in s.flags
        /\ Module.entry .. Module.entry + InstructionSize - 1 \subseteq s.vaddr .. s.vaddr + s.file_size - 1
  <2>1. PICK k \in 1 .. Len(Segs) : HoldsEntry(Segs[k])
    <3>1. \E k \in 1 .. segment - 1 : HoldsEntry(Segs[k])
      BY UserFacts DEF Settled, Loading, LoopOK
    <3>2. segment - 1 = Len(Segs)
      BY UserFacts
    <3> QED
      BY <3>1, <3>2
  <2>2. Module.entry \in Nat /\ Module.entry < WordSpan
    BY UserFacts, SegsFacts DEF Settled, Loading
  <2> QED
    BY <2>1, <2>2, UserFacts, EntryCheck
<1> QED
  BY <1>2, <1>3, <1>4, <1>5, <1>6, <1>7, <1>8, <1>9 DEF Loadable, SegmentLoadable

\* The bytes that are due in the end are those of ExpectedByte.
LEMMA ExpectedAfter ==
  ASSUME Settled, pc = "user", NEW v
  PROVE  ExpectedByte(v) = ByteAfter(v, segment)
<1> DEFINE C == {k \in DOMAIN Module.segments : v \in Extent(Module.segments[k])}
<1>1. Covering(v, segment) = C
  BY UserFacts DEF Covering, Segs
<1>2. ExpectedByte(v) = IF C = {} THEN 0 ELSE ByteOf(Segs[Greatest(C)], v)
  BY Zenon DEF ExpectedByte, ByteOf, Greatest, Segs
<1> HIDE DEF C
<1> QED
  BY <1>1, <1>2 DEF ByteAfter

\* No segment reaches the stack.
LEMMA StackExpected == ASSUME Settled, pc = "user", NEW o \in Offsets PROVE ExpectedByte(USER_STACK_BOTTOM + o) = 0
<1>1. Covering(USER_STACK_BOTTOM + o, segment) = {}
  <2> SUFFICES ASSUME NEW k \in DOMAIN Segs, USER_STACK_BOTTOM + o \in Extent(Segs[k]) PROVE FALSE
    BY DEF Covering
  <2>1. Segs[k] \in Segments /\ Fits(Segs[k])
    BY UserFacts
  <2>2. PICK a \in Nat, m \in Nat : a = Segs[k].vaddr /\ m = Segs[k].memory_size /\ a + m =< USER_STACK_BOTTOM
    BY <2>1, FitsFacts
  <2>3. USER_STACK_BOTTOM + o \in a .. a + m - 1 /\ o \in Nat
    BY <2>2, Bounds DEF Extent, Offsets
  <2> QED
    BY <2>2, <2>3, Bounds
<1> QED
  BY <1>1, ExpectedAfter DEF ByteAfter

\* What the table says of the pages of the pool.
LEMMA TableFacts ==
  ASSUME Settled, pc = "user"
  PROVE  /\ user_page_table[USER_STACK_BOTTOM].frame = STACK
         /\ user_page_table[USER_STACK_BOTTOM].flags = {READABLE, WRITABLE}
         /\ \A i \in DOMAIN user_page_vaddrs :
              /\ i # STACK
              /\ user_page_table[user_page_vaddrs[i]].frame = i
              /\ user_page_table[user_page_vaddrs[i]].flags = user_page_flags[i]
         /\ \A p \in DOMAIN user_page_table :
              p = USER_STACK_BOTTOM \/ \E i \in DOMAIN user_page_vaddrs : p = user_page_vaddrs[i]
<1>1. user_page_table[USER_STACK_BOTTOM] = [frame |-> STACK, flags |-> {READABLE, WRITABLE}]
  BY DEF Settled, TableOK
<1>2. ASSUME NEW i \in DOMAIN user_page_vaddrs
      PROVE  /\ user_page_table[user_page_vaddrs[i]].frame = i
             /\ user_page_table[user_page_vaddrs[i]].flags = user_page_flags[i]
  <2>1. PICK r : r = user_page_table[user_page_vaddrs[i]]
    OBVIOUS
  <2>2. PICK fl : fl = user_page_flags[i]
    OBVIOUS
  <2>3. r = [frame |-> i, flags |-> fl]
    BY <2>1, <2>2 DEF Settled, TableOK
  <2>4. r.frame = i /\ r.flags = fl
    BY <2>3
  <2> QED
    BY <2>1, <2>2, <2>4
<1>3. \A i \in DOMAIN user_page_vaddrs : i # STACK
  BY PoolIndices DEF STACK
<1>4. \A p \in DOMAIN user_page_table :
        p = USER_STACK_BOTTOM \/ \E i \in DOMAIN user_page_vaddrs : p = user_page_vaddrs[i]
  BY DEF Settled, TableOK
<1> QED
  BY <1>1, <1>2, <1>3, <1>4

\* The user's map.
LEMMA UserMapped == ASSUME Settled, pc = "user" PROVE Mapped
<1>1. DOMAIN user_page_table = AllTouched \cup {USER_STACK_BOTTOM}
  BY UserFacts DEF Settled, TableOK
<1>2. \A p, q \in DOMAIN user_page_table : user_page_table[p].frame = user_page_table[q].frame => p = q
  BY TableFacts
<1>3. ASSUME NEW s \in AllSegments, NEW p \in Touched(s) PROVE user_page_table[p].flags = s.flags
  <2>1. PICK k \in 1 .. Len(Segs) : s = Segs[k]
    BY UserFacts
  <2>2. PICK i \in DOMAIN user_page_vaddrs : user_page_vaddrs[i] = p /\ user_page_flags[i] = s.flags
    BY <2>1, UserFacts
  <2> QED
    BY <2>2, TableFacts
<1> QED
  BY <1>1, <1>2, <1>3, TableFacts DEF Mapped

\* The pages whose frame holds the bytes that are due hold the image.
LEMMA UserHolds ==
  ASSUME Settled, pc = "user", NEW i \in DOMAIN user_page_vaddrs,
         \A o \in Offsets : user_image_pages[i][o] = ByteNow(user_page_vaddrs[i] + o)
  PROVE  HoldsImage(user_page_vaddrs[i])
<1>1. \A v : ByteNow(v) = ExpectedByte(v)
  BY ExpectedAfter DEF ByteNow
<1> QED
  BY <1>1, TableFacts DEF HoldsImage

\* In user mode every page that may be executed may be read.
LEMMA TableReadable ==
  ASSUME Settled, pc = "user"
  PROVE  \A p \in DOMAIN user_page_table :
           /\ IsPage(p)
           /\ EXECUTABLE \in user_page_table[p].flags => READABLE \in user_page_table[p].flags
<1> SUFFICES ASSUME NEW p \in DOMAIN user_page_table
             PROVE  /\ IsPage(p)
                    /\ EXECUTABLE \in user_page_table[p].flags => READABLE \in user_page_table[p].flags
  OBVIOUS
<1>1. CASE p = USER_STACK_BOTTOM
  BY <1>1, TableFacts, Bounds
<1>2. CASE p # USER_STACK_BOTTOM
  <2>1. p \in AllTouched
    BY <1>2, UserFacts DEF Settled, TableOK
  <2>2. PICK k \in 1 .. Len(Segs) : p \in Touched(Segs[k])
    BY <2>1, UserFacts, AllTouchedFacts DEF Settled, Loading
  <2>3. Segs[k] \in AllSegments /\ Segs[k] \in Segments /\ Fits(Segs[k]) /\ SegmentAccepted(Segs[k])
    BY UserFacts
  <2>4. user_page_table[p].flags = Segs[k].flags
    BY <2>2, <2>3, UserMapped DEF Mapped
  <2>5. EXECUTABLE \in Segs[k].flags => READABLE \in Segs[k].flags
    BY <2>3 DEF SegmentAccepted
  <2> QED
    BY <2>2, <2>3, <2>4, <2>5, TouchedFacts
<1> QED
  BY <1>1, <1>2

\* Where the copy reads.
LEMMA CopyReads == ASSUME IInv PROVE ReadsMapped
<1> SUFFICES ASSUME pc = "copy", length # 0
             PROVE  source + Chunk =< info.image_size /\ source + Chunk =< rom_pages * PAGE_SIZE
  BY DEF ReadsMapped
<1>1. pc \in Working /\ info \in Infos
  BY DEF Working, IInv, Settled, Typed
<1>2. Segment.vaddr \in Nat /\ Segment.file_size \in Nat /\ Segment.data_offset \in Nat
  BY <1>1, WorkingFacts, FitsFacts
<1>3. Segment.data_offset + Segment.file_size =< info.image_size
  BY <1>1, <1>2, WorkingFacts, RangeFits DEF SegmentAccepted
<1>4. source + Chunk =< Segment.data_offset + Segment.file_size /\ source + Chunk \in Nat
  <2>1. source = Segment.data_offset + (vaddr - Segment.vaddr)
    BY DEF IInv, Settled, Loading, CursorOK
  <2>2. /\ vaddr \in Nat /\ Chunk \in Nat /\ Segment.vaddr =< vaddr
        /\ vaddr + Chunk =< Segment.vaddr + Segment.file_size
    BY ChunkFacts
  <2> QED
    BY <1>2, <2>1, <2>2
<1>5. /\ info.image_size =< rom_pages * PAGE_SIZE /\ info.image_size \in Nat /\ rom_pages * PAGE_SIZE \in Nat
  <2>1. rom_pages = RomPageCount /\ RomPageCount \in Nat /\ info.image_size =< RomPageCount * PAGE_SIZE
    BY <1>1, RomFits DEF IInv, Settled, Loading, ImageOK
  <2>2. RomPageCount * PAGE_SIZE \in Nat
    BY <2>1, Bounds
  <2> QED
    BY <1>1, <2>1, <2>2, RecordTypes
<1> QED
  BY <1>2, <1>3, <1>4, <1>5

-----------------------------------------------------------------------------
(* The whole system                                                        *)

\* The pages that the user may not write hold the bytes that are due.
ProtectedOK ==
  \A i \in DOMAIN user_page_vaddrs, o \in Offsets :
    WRITABLE \notin user_page_flags[i] => user_image_pages[i][o] = ByteNow(user_page_vaddrs[i] + o)

\* The kernel alone changes frames until user mode is entered, after the
\* loader; from then on only the bytes of writable pages change.  A call comes
\* from where the user may execute.
SysInv ==
  /\ Settled
  /\ cpu = "kernel" => BytesOK /\ StackClear
  /\ pc = "user" => ProtectedOK
  /\ cpu # "kernel" => pc = "user"
  /\ cpu = "svc" => May(EXECUTABLE, fault_pc)

\* Nothing is loaded at the start and no call is under way.
LEMMA SysInvInit == ASSUME SysInit PROVE SysInv
<1>1. Init /\ cpu = "kernel"
  BY DEF SysInit
<1>2. IInv
  BY <1>1, InitInv
<1>3. StackClear
  BY <1>1 DEF Init, StackClear, Frames
<1>4. pc # "user"
  BY <1>1 DEF Init
<1> QED
  BY <1>1, <1>2, <1>3, <1>4 DEF SysInv, IInv

\* A step of the loader.
LEMMA LoadInv == ASSUME SysInv, Load PROVE SysInv'
<1>1. cpu = "kernel" /\ cpu' = cpu /\ Next
  BY DEF Load, userVars
<1>2. IInv /\ StackClear
  BY <1>1 DEF SysInv, IInv
<1>3. IInv' /\ StackClear'
  BY <1>1, <1>2, NextInv, StackNext
<1>4. pc' = "user" => ProtectedOK'
  BY <1>3 DEF IInv, BytesOK, ProtectedOK, InSegments
<1> QED
  BY <1>1, <1>3, <1>4 DEF SysInv, IInv

\* A store where the user may write reaches no byte of the other pages: they
\* have frames of their own.
LEMMA StoreKeeps ==
  ASSUME Settled, pc = "user", ProtectedOK, UNCHANGED loaderVars,
         NEW a, NEW n, NEW b, May(WRITABLE, a), user_image_pages' = Stored(a, n, b)
  PROVE  Settled' /\ ProtectedOK'
<1>1. PICK f : f = user_page_table[PageOf(a)].frame
  OBVIOUS
<1>2. /\ DOMAIN user_image_pages' = DOMAIN user_image_pages
      /\ \A i \in DOMAIN user_image_pages : i # f => user_image_pages'[i] = user_image_pages[i]
  BY <1>1 DEF Stored
<1>3. Settled' /\ \A v : ByteNow(v)' = ByteNow(v)
  BY <1>2, SettledFrame
<1>4. ASSUME NEW i \in DOMAIN user_page_vaddrs, WRITABLE \notin user_page_flags[i]
      PROVE  user_image_pages'[i] = user_image_pages[i]
  <2>1. i # f
    BY <1>1, <1>4, TableFacts DEF May
  <2>2. i \in DOMAIN user_image_pages
    BY PoolIndices DEF Settled, Typed
  <2> QED
    BY <1>2, <2>1, <2>2
<1>5. user_page_vaddrs' = user_page_vaddrs /\ user_page_flags' = user_page_flags
  BY DEF loaderVars
<1> QED
  BY <1>3, <1>4, <1>5 DEF ProtectedOK

\* A step that leaves the frames alone.
LEMMA FramesKept ==
  ASSUME Settled, pc = "user", ProtectedOK, UNCHANGED vars
  PROVE  Settled' /\ ProtectedOK'
<1>1. UNCHANGED loaderVars /\ UNCHANGED <<user_page_vaddrs, user_page_flags, user_image_pages>>
  BY DEF vars, loaderVars, pageVars
<1>2. Settled' /\ \A v : ByteNow(v)' = ByteNow(v)
  BY <1>1, SettledFrame
<1> QED
  BY <1>1, <1>2 DEF ProtectedOK

\* Every step in user mode or on its behalf: the map stays, and so do the
\* bytes of the pages the user may not write.
LEMMA MachineInv == ASSUME SysInv, Machine PROVE SysInv'
<1>1. /\ Settled /\ pc = "user" /\ ProtectedOK
  BY DEF SysInv, Machine, minemu_enter_user, minemu_hello_uart_putchar, HelloReturn, AnyStore, AnyCall, AnyReturn,
         minemu_abort_dispatch, minemu_svc_dispatch
<1>2. UNCHANGED loaderVars /\ cpu' # "kernel"
  BY DEF Machine, minemu_enter_user, minemu_hello_uart_putchar, HelloReturn, AnyStore, AnyCall, AnyReturn,
         minemu_abort_dispatch, minemu_svc_dispatch, vars, loaderVars, pageVars
<1>3. pc' = "user" /\ user_page_table' = user_page_table
  BY <1>1, <1>2 DEF loaderVars
<1>4. CASE minemu_hello_uart_putchar
  <2>1. CASE May(EXECUTABLE, fault_pc) /\ May(WRITABLE, user_sp - 2 * InstructionSize)
    <3>1. PICK b \in UserBytes : user_image_pages' = Stored(user_sp', 2 * InstructionSize, b)
      BY <1>4, <2>1 DEF minemu_hello_uart_putchar
    <3>2. user_sp' = user_sp - 2 * InstructionSize /\ fault_pc' = fault_pc
      BY <1>4, <2>1 DEF minemu_hello_uart_putchar
    <3>3. May(WRITABLE, user_sp')
      BY <2>1, <3>2
    <3>4. Settled' /\ ProtectedOK'
      BY <1>1, <1>2, <3>1, <3>3, StoreKeeps
    <3>5. May(EXECUTABLE, fault_pc)'
      BY <1>3, <2>1, <3>2 DEF May
    <3> QED
      BY <1>2, <1>3, <3>4, <3>5 DEF SysInv
  <2>2. CASE ~(May(EXECUTABLE, fault_pc) /\ May(WRITABLE, user_sp - 2 * InstructionSize))
    <3>1. UNCHANGED vars /\ cpu' = "stopped"
      BY <1>4, <2>2 DEF minemu_hello_uart_putchar, vars, loaderVars, pageVars
    <3> QED
      BY <1>1, <1>3, <3>1, FramesKept DEF SysInv
  <2> QED
    BY <2>1, <2>2
<1>5. CASE AnyStore
  <2>1. PICK p \in DOMAIN user_page_table, o \in Offsets, b \in UserBytes :
          WRITABLE \in user_page_table[p].flags /\ user_image_pages' = Stored(p + o, 1, b)
    BY <1>5 DEF AnyStore
  <2>2. PageOf(p + o) = p
    BY <1>1, TableReadable, PageOffset
  <2>3. May(WRITABLE, p + o)
    BY <2>1, <2>2 DEF May
  <2>4. Settled' /\ ProtectedOK'
    BY <1>1, <1>2, <2>1, <2>3, StoreKeeps
  <2>5. cpu' = "user"
    BY <1>5 DEF AnyStore
  <2> QED
    BY <1>3, <2>4, <2>5 DEF SysInv
<1>6. CASE AnyCall
  <2>1. PICK p \in DOMAIN user_page_table, o \in Offsets :
          EXECUTABLE \in user_page_table[p].flags /\ fault_pc' = p + o
    BY <1>6 DEF AnyCall
  <2>2. PageOf(fault_pc') = p
    BY <1>1, <2>1, TableReadable, PageOffset
  <2>3. May(EXECUTABLE, fault_pc)'
    BY <1>3, <2>1, <2>2 DEF May
  <2>4. UNCHANGED vars
    BY <1>6 DEF AnyCall
  <2> QED
    BY <1>1, <1>2, <1>3, <2>3, <2>4, FramesKept DEF SysInv
<1>7. CASE minemu_enter_user \/ HelloReturn \/ AnyReturn \/ minemu_abort_dispatch \/ minemu_svc_dispatch
  <2>1. UNCHANGED vars /\ cpu' # "svc"
    BY <1>7 DEF minemu_enter_user, HelloReturn, AnyReturn, minemu_abort_dispatch, minemu_svc_dispatch
  <2> QED
    BY <1>1, <1>2, <1>3, <2>1, FramesKept DEF SysInv
<1> QED
  BY <1>4, <1>5, <1>6, <1>7 DEF Machine

\* Nothing happens.
LEMMA SysStutter == ASSUME SysInv, UNCHANGED sysVars PROVE SysInv'
<1>1. UNCHANGED vars /\ UNCHANGED <<cpu, fault_pc, pc, user_page_table>>
  BY DEF sysVars, userVars, vars
<1>2. CASE cpu = "kernel"
  <2>1. IInv /\ StackClear
    BY <1>2 DEF SysInv, IInv
  <2>2. IInv' /\ StackClear'
    BY <1>1, <2>1, StutterInv, StackNext
  <2>3. pc' = "user" => ProtectedOK'
    BY <2>2 DEF IInv, BytesOK, ProtectedOK, InSegments
  <2> QED
    BY <1>1, <1>2, <2>2, <2>3 DEF SysInv, IInv
<1>3. CASE cpu # "kernel"
  <2>1. Settled' /\ ProtectedOK'
    BY <1>1, <1>3, FramesKept DEF SysInv
  <2>2. May(EXECUTABLE, fault_pc)' <=> May(EXECUTABLE, fault_pc)
    BY <1>1 DEF May
  <2> QED
    BY <1>1, <1>3, <2>1, <2>2 DEF SysInv
<1> QED
  BY <1>2, <1>3

\* The system keeps to SysInv whatever the image says and the user does.
THEOREM Invariant == SysSpec => []SysInv
<1>1. SysInit => SysInv
  BY SysInvInit
<1>2. SysInv /\ [SysNext]_sysVars => SysInv'
  BY LoadInv, MachineInv, SysStutter DEF SysNext, Idle
<1> QED
  BY <1>1, <1>2, PTL DEF SysSpec

-----------------------------------------------------------------------------
(* The properties                                                          *)

\* The cursor of prepare_user_range and write_user_range never leaves the
\* 32-bit range and the page pool never outgrows its arrays (main.c lines
\* 146-199), whatever the image says.
THEOREM TypeCorrect == SysSpec => []TypeOK
<1>1. SysInv => TypeOK
  BY DEF SysInv, Settled, Typed
<1> QED
  BY <1>1, Invariant, PTL

\* load_user_module and its callers let through exactly the images that can be
\* loaded: every check of the code is complete and none is too strict (main.c
\* lines 79-130, 201-249, 304-324).
THEOREM LoaderAcceptsExactly == SysSpec => []AcceptsExactly
<1>1. SysInv => AcceptsExactly
  BY UserLoadable DEF SysInv, Settled, Refused, AcceptsExactly
<1> QED
  BY <1>1, Invariant, PTL

\* The user enters upon the image that its module describes, the last segment
\* on top, and an empty stack, all mapped with the right permissions.  Then,
\* wherever it stores and calls, the table stays and the pages it may not write
\* keep that image (main.c lines 132-266): no two pages share a frame.
THEOREM ImageKept == SysSpec => []ImageProtected
<1>1. SysInv => ImageProtected
  <2> SUFFICES ASSUME SysInv, pc = "user",
                      NEW p \in DOMAIN user_page_table,
                      cpu = "kernel" \/ WRITABLE \notin user_page_table[p].flags
               PROVE  HoldsImage(p)
    BY UserMapped DEF ImageProtected, SysInv
  <2>1. Settled /\ ProtectedOK /\ pc \in InSegments
    BY DEF SysInv, InSegments
  <2>2. CASE p = USER_STACK_BOTTOM
    <3>1. user_page_table[p].frame = STACK /\ WRITABLE \in user_page_table[p].flags
      BY <2>1, <2>2, TableFacts
    <3>2. StackClear
      BY <3>1 DEF SysInv
    <3> QED
      BY <2>1, <2>2, <3>1, <3>2, StackExpected DEF StackClear, HoldsImage
  <2>3. CASE p # USER_STACK_BOTTOM
    <3>1. PICK i \in DOMAIN user_page_vaddrs : p = user_page_vaddrs[i]
      BY <2>1, <2>3, TableFacts
    <3>2. cpu = "kernel" \/ WRITABLE \notin user_page_flags[i]
      BY <2>1, <3>1, TableFacts
    <3>3. \A o \in Offsets : user_image_pages[i][o] = ByteNow(user_page_vaddrs[i] + o)
      BY <2>1, <3>2 DEF SysInv, BytesOK, ProtectedOK
    <3> QED
      BY <2>1, <3>1, <3>3, UserHolds
  <2> QED
    BY <2>2, <2>3
<1> QED
  BY <1>1, Invariant, PTL

\* write_user_range never reads the image beyond its end or through a page of
\* ROM that is not mapped (main.c lines 79-108, 177-199).
THEOREM CopyStaysInImage == SysSpec => []ReadsMapped
<1>1. SysInv => ReadsMapped
  <2> SUFFICES ASSUME SysInv, pc = "copy" PROVE ReadsMapped
    BY DEF ReadsMapped
  <2>1. IInv
    BY DEF SysInv, IInv
  <2> QED
    BY <2>1, CopyReads
<1> QED
  BY <1>1, Invariant, PTL

\* minemu_svc_dispatch loads the instruction of the call in kernel mode from
\* an address the user chose (main.c line 276); whatever module was loaded,
\* the user's table lets it read there.
THEOREM KernelReadsSafely == SysSpec => []KernelReadSafe
<1>1. SysInv => KernelReadSafe
  <2> SUFFICES ASSUME SysInv, cpu = "svc" PROVE May(READABLE, fault_pc)
    BY DEF KernelReadSafe
  <2>1. Settled /\ pc = "user" /\ May(EXECUTABLE, fault_pc)
    BY DEF SysInv
  <2> QED
    BY <2>1, TableReadable DEF May
<1> QED
  BY <1>1, Invariant, PTL

-----------------------------------------------------------------------------
(* The loader ends                                                         *)

\* A step that leads to a later part of kernel_main.
LEMMA PartSteps ==
  ASSUME Check \/ FindModule \/ RefuseModule \/ StartModule \/ MapUser
  PROVE  Part' > Part
<1>1. CASE Check
  BY <1>1 DEF Check, Part, SegmentLoop
<1>2. CASE FindModule
  BY <1>2 DEF FindModule, Part, SegmentLoop
<1>3. CASE RefuseModule \/ StartModule
  BY <1>3 DEF RefuseModule, StartModule, Part, SegmentLoop
<1>4. CASE MapUser
  BY <1>4 DEF MapUser, Part, SegmentLoop
<1> QED
  BY <1>1, <1>2, <1>3, <1>4

\* What one step of the segment loop does.
LoopStep ==
  \/ segment =< Len(Module.segments) /\ segment' = segment + 1
  \/ segment' = segment /\ Pass' > Pass
  \/ segment' = segment /\ Pass' = Pass /\ Remaining' \in 0 .. Remaining - 1

\* A step of the segment loop stays in it and advances, or leaves it for good.
Advance ==
  \/ Part' > Part
  \/ pc \in SegmentLoop /\ pc' \in SegmentLoop /\ UNCHANGED <<info, module>> /\ LoopStep

\* prepare_user_range takes a page off what lies below the stack: the cursor
\* does not wrap.
LEMMA PrepareAdvances == ASSUME IInv, PreparePage PROVE Advance
<1>1. pc = "prepare" /\ vaddr < Plus(Segment.vaddr, Segment.memory_size) /\ UNCHANGED <<info, module, segment>>
  BY DEF PreparePage
<1>2. CASE pc' = "fail_stop"
  BY <1>1, <1>2 DEF Advance, Part, SegmentLoop
<1>3. CASE pc' = pc /\ vaddr' = Plus(vaddr, PAGE_SIZE)
  <2>1. vaddr \in Nat /\ vaddr' = vaddr + PAGE_SIZE /\ vaddr + PAGE_SIZE =< USER_STACK_BOTTOM
    BY <1>1, <1>3, PrepareFacts
  <2>2. Remaining = USER_STACK_BOTTOM - vaddr /\ Remaining' = USER_STACK_BOTTOM - vaddr'
    BY <1>1, <1>3 DEF Remaining
  <2>3. Remaining' \in 0 .. Remaining - 1
    BY <2>1, <2>2, Bounds
  <2>4. Pass' = Pass /\ pc \in SegmentLoop
    BY <1>1, <1>3 DEF Pass, SegmentLoop
  <2> QED
    BY <1>1, <1>3, <2>3, <2>4 DEF Advance, LoopStep
<1> QED
  BY <1>2, <1>3 DEF PreparePage

\* write_user_range writes at least one byte and at most what is left.
LEMMA WriteAdvances == ASSUME IInv, WriteChunk PROVE Advance
<1>1. pc \in {"zero", "copy"} /\ length # 0 /\ UNCHANGED <<info, module, segment>>
  BY DEF WriteChunk
<1>2. CASE pc' = "fail_stop"
  BY <1>1, <1>2 DEF Advance, Part, SegmentLoop
<1>3. CASE pc' = pc /\ length' = length - Chunk
  <2>1. Chunk \in Nat /\ Chunk >= 1 /\ Chunk =< length /\ length \in Nat
    BY <1>1, ChunkFacts
  <2>2. Remaining = length /\ Remaining' = length'
    BY <1>1, <1>3 DEF Remaining
  <2>3. Remaining' \in 0 .. Remaining - 1
    BY <1>3, <2>1, <2>2
  <2>4. Pass' = Pass /\ pc \in SegmentLoop
    BY <1>1, <1>3 DEF Pass, SegmentLoop
  <2> QED
    BY <1>1, <1>3, <2>3, <2>4 DEF Advance, LoopStep
<1> QED
  BY <1>2, <1>3 DEF WriteChunk

\* The steps between the loops over a segment, and to the next segment.
LEMMA LoopAdvances ==
  ASSUME IInv, NextSegment \/ Prepared \/ Zeroed \/ Copied
  PROVE  Advance
<1>1. CASE NextSegment
  <2>1. pc = "segment" /\ UNCHANGED <<info, module, segment>> /\ pc' \in {"prepare", "map", "fail_stop"}
    BY <1>1 DEF NextSegment
  <2> QED
    BY <2>1 DEF Advance, LoopStep, Part, Pass, SegmentLoop
<1>2. CASE Prepared
  <2>1. pc = "prepare" /\ UNCHANGED <<info, module, segment>> /\ pc' = "zero"
    BY <1>2 DEF Prepared
  <2> QED
    BY <2>1 DEF Advance, LoopStep, Pass, SegmentLoop
<1>3. CASE Zeroed
  <2>1. pc = "zero" /\ UNCHANGED <<info, module, segment>> /\ pc' = "copy"
    BY <1>3 DEF Zeroed
  <2> QED
    BY <2>1 DEF Advance, LoopStep, Pass, SegmentLoop
<1>4. CASE Copied
  <2>1. pc = "copy" /\ UNCHANGED <<info, module>> /\ pc' = "segment" /\ segment' = segment + 1
    BY <1>4 DEF Copied
  <2>2. segment \in 1 .. Len(Segs) /\ Len(Segs) \in Nat
    BY <2>1, WorkingFacts, SegsFacts DEF Working, IInv, Settled, Loading
  <2> QED
    BY <2>1, <2>2 DEF Advance, LoopStep, Segs, SegmentLoop
<1> QED
  BY <1>1, <1>2, <1>3, <1>4

\* No image keeps the loader in its loops: every step makes progress along an
\* order without infinite chains, so kernel_main reaches user mode or
\* fail_stop after boundedly many (main.c lines 164-199 and 213-246).
THEOREM LoaderEnds == SysSpec => LoadAdvances
<1>1. ASSUME IInv, Next PROVE Advance \/ UNCHANGED vars
  BY <1>1, PartSteps, PrepareAdvances, WriteAdvances, LoopAdvances DEF Next, Over, Advance
<1>2. ASSUME SysInv, Load PROVE Advance \/ UNCHANGED vars
  BY <1>1, <1>2 DEF Load, SysInv, IInv
<1>3. ASSUME Machine \/ UNCHANGED vars PROVE UNCHANGED loaderVars
  BY <1>3 DEF Machine, minemu_enter_user, minemu_hello_uart_putchar, HelloReturn, AnyStore, AnyCall, AnyReturn,
              minemu_abort_dispatch, minemu_svc_dispatch, vars, loaderVars, pageVars
<1>4. SysInv /\ [SysNext]_sysVars => [Advance]_loaderVars
  BY <1>2, <1>3 DEF SysNext, Idle, sysVars
<1>5. [Advance]_loaderVars =>
        [\/ Part' > Part
         \/ /\ pc \in SegmentLoop /\ pc' \in SegmentLoop /\ UNCHANGED <<info, module>>
            /\ \/ segment =< Len(Module.segments) /\ segment' = segment + 1
               \/ segment' = segment /\ Pass' > Pass
               \/ segment' = segment /\ Pass' = Pass /\ Remaining' \in 0 .. Remaining - 1]_loaderVars
  BY DEF Advance, LoopStep
<1> QED
  BY <1>4, <1>5, Invariant, PTL DEF SysSpec, LoadAdvances
=============================================================================
