-------------------------- MODULE FaultCasesProofs --------------------------
(***************************************************************************)
(* Proofs about the programs headless/mmu, headless/ttbr-switch and        *)
(* headless/exceptions: none of their accesses goes through a stale entry  *)
(* of the TLB, and they are stopped and resumed as TrapFrames promises.    *)
(* The programs make other steps than Next of TrapFrames allows, so its    *)
(* invariant IInv is proved again for them, from the same lemmas; CaseInv  *)
(* ties it to the statement the program is at, and the TLB to the tables.  *)
(***************************************************************************)
EXTENDS FaultCases, TrapFramesProofs

-----------------------------------------------------------------------------
(* The texts of the programs                                               *)

EditOps == {"root", "map", "clear_bits", "revoke", "ttbr"}
DataOps == {"read", "read_stale", "write"}

\* What the proofs need of statement s, the n-th of a text; D are the
\* statements between an edit of the tables and the TLBIALL after it.
Sound(s, n, D) ==
  /\ s.page \in {KERNEL, USER_PROBE, PREFETCH_PROBE}
  /\ s.op \in DataOps => s.x \in Pages
  /\ s.op = "root" => s.x \in {"a", "b"} /\ s.y \in Tables
  /\ s.op = "ttbr" => s.x \in {"a", "b"}
  /\ n \in D => s.page = KERNEL /\ s.op \notin {"read", "write"}
  /\ s.op \in EditOps => n = 1 \/ n + 1 \in D
  /\ n \in D /\ s.op # "tlbiall" => n + 1 \in D
  /\ n = 1 => s.op \in {"root", "store"} /\ s.page = KERNEL

\* The statements between an edit and the TLBIALL after it.  An edit by the
\* first statement finds an empty TLB.
Dirty ==
  CASE program = "mmu" -> {3, 9, 13, 18, 24} [] program = "ttbr" -> {4, 5, 6, 7, 10, 11, 14} [] OTHER -> {13, 18}

\* headless/ttbr-switch: between an edit and its TLBIALL is only the read of line 38.
LEMMA TtbrText ==
  /\ Len(ttbr_main) = 15
  /\ \A n \in 1 .. 15 : Sound(ttbr_main[n], n, {4, 5, 6, 7, 10, 11, 14})
  /\ ttbr_main[15] = On(KERNEL, "read", TEST_VADDR, 10)
<1> USE DEF ttbr_main, Map, Tlbiall, Read, Stale, Pte, Do, On, KERNEL, USER_PROBE,
            PREFETCH_PROBE, TEST_VADDR, RNG, TRACE
<1>1. Len(ttbr_main) = 15 /\ ttbr_main[15] = On(KERNEL, "read", TEST_VADDR, 10)
  OBVIOUS
<1>2. \A n \in 1 .. 8 : Sound(ttbr_main[n], n, {4, 5, 6, 7, 10, 11, 14})
  BY DEF Sound, DataOps, EditOps, Pages, Tables
<1>3. \A n \in 9 .. 15 : Sound(ttbr_main[n], n, {4, 5, 6, 7, 10, 11, 14})
  BY DEF Sound, DataOps, EditOps, Pages, Tables
<1> HIDE DEF ttbr_main
<1> QED
  BY <1>1, <1>2, <1>3

\* headless/mmu: a TLBIALL follows every edit at once.
LEMMA MmuText ==
  /\ Len(mmu_main) = 27
  /\ \A n \in 1 .. 27 : Sound(mmu_main[n], n, {3, 9, 13, 18, 24})
  /\ mmu_main[27] = On(KERNEL, "expect", "abort", 0)
<1> USE DEF mmu_main, clear_bits, Map, Set, Expect, Tlbiall, Read, Write, Pte, METADATA,
            Do, On, KERNEL, USER_PROBE, PREFETCH_PROBE, TEST_VADDR, RNG, TRACE
<1>1. Len(mmu_main) = 27 /\ mmu_main[27] = On(KERNEL, "expect", "abort", 0)
  OBVIOUS
<1>2. \A n \in 1 .. 8 : Sound(mmu_main[n], n, {3, 9, 13, 18, 24})
  BY DEF Sound, DataOps, EditOps, Pages, Tables
<1>3. \A n \in 9 .. 16 : Sound(mmu_main[n], n, {3, 9, 13, 18, 24})
  BY DEF Sound, DataOps, EditOps, Pages, Tables
<1>4. \A n \in 17 .. 24 : Sound(mmu_main[n], n, {3, 9, 13, 18, 24})
  BY DEF Sound, DataOps, EditOps, Pages, Tables
<1>5. \A n \in 25 .. 27 : Sound(mmu_main[n], n, {3, 9, 13, 18, 24})
  BY DEF Sound, DataOps, EditOps, Pages, Tables
<1> HIDE DEF mmu_main
<1> QED
  BY <1>1, <1>2, <1>3, <1>4, <1>5

\* headless/exceptions, its user_probe and systick_irq: likewise.
LEMMA ExceptionsText ==
  /\ Len(exceptions_main) = 39
  /\ \A n \in 1 .. 39 : Sound(exceptions_main[n], n, {13, 18})
  /\ exceptions_main[39] = On(KERNEL, "expect", "irq", 1)
<1> USE DEF exceptions_main, user_probe, systick_irq, Set, Expect, Tlbiall, Read, Do, On,
            KERNEL, USER_PROBE, PREFETCH_PROBE, TEST_VADDR, RNG, TRACE
<1>1. Len(exceptions_main) = 39 /\ exceptions_main[39] = On(KERNEL, "expect", "irq", 1)
  OBVIOUS
<1>2. \A n \in 1 .. 8 : Sound(exceptions_main[n], n, {13, 18})
  BY DEF Sound, DataOps, EditOps, Pages, Tables
<1>3. \A n \in 9 .. 16 : Sound(exceptions_main[n], n, {13, 18})
  BY DEF Sound, DataOps, EditOps, Pages, Tables
<1>4. \A n \in 17 .. 24 : Sound(exceptions_main[n], n, {13, 18})
  BY DEF Sound, DataOps, EditOps, Pages, Tables
<1>5. \A n \in 25 .. 32 : Sound(exceptions_main[n], n, {13, 18})
  BY DEF Sound, DataOps, EditOps, Pages, Tables
<1>6. \A n \in 33 .. 39 : Sound(exceptions_main[n], n, {13, 18})
  BY DEF Sound, DataOps, EditOps, Pages, Tables
<1> HIDE DEF exceptions_main
<1> QED
  BY <1>1, <1>2, <1>3, <1>4, <1>5, <1>6

\* What the proofs use of the text that runs.
LEMMA Text ==
  ASSUME program \in {"mmu", "ttbr", "exceptions"}
  PROVE  \E k \in Nat :
           /\ k = Len(Program) /\ k >= 1
           /\ \A n \in 1 .. k : Sound(Program[n], n, Dirty)
           /\ Program[k].op \notin {"svc", "undefined"} /\ Program[k].page = KERNEL
           /\ program # "ttbr" => Program[k].op \notin DataOps
<1>1. CASE program = "mmu"
  <2>1. Program = mmu_main /\ Dirty = {3, 9, 13, 18, 24}
    BY <1>1 DEF Program, Dirty
  <2> QED
    BY <2>1, MmuText DEF On, DataOps
<1>2. CASE program = "ttbr"
  <2>1. Program = ttbr_main /\ Dirty = {4, 5, 6, 7, 10, 11, 14}
    BY <1>2 DEF Program, Dirty
  <2> QED
    BY <1>2, <2>1, TtbrText DEF On, DataOps
<1>3. CASE program = "exceptions"
  <2>1. Program = exceptions_main /\ Dirty = {13, 18}
    BY <1>3 DEF Program, Dirty
  <2> QED
    BY <2>1, ExceptionsText DEF On, DataOps
<1> QED
  BY <1>1, <1>2, <1>3

-----------------------------------------------------------------------------
(* Tables and TLB                                                          *)

Shape(m) ==
  /\ DOMAIN m = {"ttbr", "root", "table", "pte", "tlb"}
  /\ m.ttbr \in {"a", "b"} /\ m.root \in [{"a", "b"} -> Tables \cup {"none"}]
  /\ DOMAIN m.table = Tables /\ DOMAIN m.pte = Pages \ {TEST_VADDR} /\ DOMAIN m.tlb = Pages

\* What the TLB remembers is what the tables say.
Coherent(m) == \A p \in Pages : m.tlb[p].valid => m.tlb[p] = Walk(m, p)
Empty(m)    == \A p \in Pages : ~m.tlb[p].valid

\* An access that is allowed finds a valid entry; one that is not is not to
\* the kernel's own pages.
LEMMA FaultFacts ==
  ASSUME NEW m, NEW p, NEW kind, NEW by_user
  PROVE  /\ Fault(m, p, kind, by_user) \in Int
         /\ Fault(m, p, kind, by_user) = 0 => p = KERNEL \/ Seen(m, p).valid
         /\ Fault(m, p, kind, by_user) # 0 => p # KERNEL
  BY DEF Fault, TRANSLATION, READ_PROTECTION, WRITE_PROTECTION, EXECUTE_PROTECTION, FROM_USER, IS_WRITE, IS_FETCH

\* An edit of an entry of the TLB, of the tables or of another page.
LEMMA CachedFacts ==
  ASSUME NEW m, Shape(m), NEW p \in Pages, NEW e
  PROVE  /\ Shape(Cached(m, p, e))
         /\ \A q \in Pages : Walk(Cached(m, p, e), q) = Walk(m, q)
         /\ \A q \in Pages : Cached(m, p, e).tlb[q] = IF q = p THEN e ELSE m.tlb[q]
  BY DEF Shape, Cached, Walk

\* An access that was refused leaves the TLB coherent, whether or not the
\* entry is remembered.
LEMMA RefusedKeeps ==
  ASSUME NEW m, Shape(m), NEW p \in Pages, NEW w \in Refused(m, p)
  PROVE  Shape(w) /\ (Coherent(m) => Coherent(w))
<1>1. CASE w = m
  BY <1>1
<1>2. CASE w = Cached(m, p, Walk(m, p))
  BY <1>2, CachedFacts DEF Coherent
<1> QED
  BY <1>1, <1>2 DEF Refused

\* The walk for page p has stored and remembered the entry e.
Walked(m, p, e) ==
  IF p = TEST_VADDR THEN [Cached(m, p, e) EXCEPT !.table[m.root[m.ttbr]] = e]
  ELSE [Cached(m, p, e) EXCEPT !.pte[p] = e]

\* What it changes.
LEMMA WalkedFacts ==
  ASSUME NEW m, Shape(m), NEW p \in Pages, NEW e, NEW w, w = Walked(m, p, e)
  PROVE  /\ Shape(w)
         /\ \A q \in Pages : q # p => Walk(w, q) = Walk(m, q)
         /\ p # TEST_VADDR \/ m.root[m.ttbr] # "none" => Walk(w, p) = e
         /\ \A q \in Pages : w.tlb[q] = IF q = p THEN e ELSE m.tlb[q]
<1>1. CASE p = TEST_VADDR
  BY <1>1 DEF Walked, Shape, Cached, Walk, Tables
<1>2. CASE p # TEST_VADDR
  BY <1>2 DEF Walked, Shape, Cached, Walk
<1> QED
  BY <1>1, <1>2

\* An access that is allowed leaves the TLB coherent.
LEMMA TouchedKeeps ==
  ASSUME NEW m, Shape(m), NEW p \in Pages \cup {KERNEL}, NEW kind, p = KERNEL \/ Seen(m, p).valid
  PROVE  Shape(Touched(m, p, kind)) /\ (Coherent(m) => Coherent(Touched(m, p, kind)))
<1>1. CASE p = KERNEL \/ m.tlb[p].valid
  BY <1>1 DEF Touched
<1>2. CASE p # KERNEL /\ ~m.tlb[p].valid
  <2>1. PICK e : e = [Walk(m, p) EXCEPT !.flags = @ \cup (IF kind = "W" THEN {"A", "D"} ELSE {"A"})]
    OBVIOUS
  <2>2. Touched(m, p, kind) = Walked(m, p, e)
    BY <1>2, <2>1 DEF Touched, Walked
  <2>3. p # TEST_VADDR \/ m.root[m.ttbr] # "none"
    BY <1>2 DEF Seen, Walk, NoPte
  <2>4. PICK w : w = Touched(m, p, kind)
    OBVIOUS
  <2>5. /\ Shape(w)
        /\ \A q \in Pages : q # p => Walk(w, q) = Walk(m, q)
        /\ Walk(w, p) = e
        /\ \A q \in Pages : w.tlb[q] = IF q = p THEN e ELSE m.tlb[q]
    <3>1. p \in Pages
      BY <1>2
    <3>2. w = Walked(m, p, e)
      BY <2>2, <2>4
    <3> QED
      BY <2>3, <3>1, <3>2, WalkedFacts
  <2>6. Coherent(m) => Coherent(w)
    BY <2>5 DEF Coherent
  <2> QED
    BY <2>4, <2>5, <2>6
<1> QED
  BY <1>1, <1>2

\* TLBIALL empties the TLB; an empty TLB is coherent.
LEMMA TlbiallKeeps ==
  ASSUME NEW m, Shape(m)
  PROVE  Shape(minemu_mmu_tlbiall(m)) /\ Empty(minemu_mmu_tlbiall(m)) /\ Coherent(minemu_mmu_tlbiall(m))
  BY DEF Shape, minemu_mmu_tlbiall, Empty, Coherent, NoPte

\* A store to the tables or to TTBR0 leaves the TLB as it is.
EditOf(m, w) ==
  \/ \E d \in {"a", "b"}, t \in Tables : w = [m EXCEPT !.root[d] = t]
  \/ \E t, e : w = [m EXCEPT !.table[t] = e]
  \/ \E q, e : w = [m EXCEPT !.pte[q] = e]
  \/ \E d \in {"a", "b"} : w = minemu_mmu_set_ttbr0(m, d)

\* Such an edit keeps the shape, and an empty TLB empty.
LEMMA EditKeeps ==
  ASSUME NEW m, Shape(m), NEW w, EditOf(m, w)
  PROVE  Shape(w) /\ w.tlb = m.tlb
<1>1. CASE \E d \in {"a", "b"}, t \in Tables : w = [m EXCEPT !.root[d] = t]
  BY <1>1 DEF Shape
<1>2. CASE \E t, e : w = [m EXCEPT !.table[t] = e]
  BY <1>2 DEF Shape
<1>3. CASE \E q, e : w = [m EXCEPT !.pte[q] = e]
  BY <1>3 DEF Shape
<1>4. CASE \E d \in {"a", "b"} : w = minemu_mmu_set_ttbr0(m, d)
  BY <1>4 DEF Shape, minemu_mmu_set_ttbr0
<1> QED
  BY <1>1, <1>2, <1>3, <1>4 DEF EditOf

-----------------------------------------------------------------------------
(* The invariant                                                           *)

\* Where the program is, or will go on after the exception being handled.
MainAt == IF stopped = <<>> THEN pc ELSE stopped[1].pc

\* An abort that its dispatch has not handled yet.
Aborted(k) == stopped # <<>> /\ (entering \/ pc = DISPATCH) /\ Kind = k

\* The program is at its n-th statement: the TLB is coherent unless an edit
\* waits for its TLBIALL, and an abort has its cause in that statement.
AtStatement(n) ==
  /\ n \in 1 .. Len(Program) /\ MainAt = 4 * (n + 1)
  /\ n \notin Dirty => Coherent(mmu)
  /\ n = 1 => Empty(mmu)
  /\ Aborted("data_abort") => Program[n].op \in DataOps
  /\ Aborted("prefetch_abort") => Program[n].page # KERNEL

CaseInv ==
  /\ program \in {"mmu", "ttbr", "exceptions"}
  /\ outcome = "running" => Len(stopped) =< 1 /\ Shape(mmu) /\ \E n \in Nat : AtStatement(n)

\* The program starts at its first statement, with an empty TLB.
LEMMA CaseInitInv == ASSUME CaseInit PROVE IInv /\ CaseInv
<1>1. /\ Init /\ pc = 8 /\ stopped = <<>> /\ mmu = MmuReset /\ program \in {"mmu", "ttbr", "exceptions"}
      /\ outcome = "running"
  BY DEF CaseInit, START, Init
<1>2. Shape(mmu) /\ Empty(mmu) /\ Coherent(mmu)
  BY <1>1 DEF Shape, Empty, Coherent, MmuReset, NoPte, Tables
<1>3. 1 \in 1 .. Len(Program) /\ MainAt = 4 * (1 + 1) /\ Len(stopped) =< 1
  BY <1>1, Text DEF MainAt
<1>4. AtStatement(1)
  BY <1>1, <1>2, <1>3 DEF AtStatement, Aborted
<1> QED
  BY <1>1, <1>2, <1>3, <1>4, InitInv DEF CaseInv

\* The statement that is executed next.
LEMMA InMainFacts ==
  ASSUME CaseInv, InMain
  PROVE  \E n \in Nat, k \in Nat :
           /\ n \in 1 .. k /\ k = Len(Program) /\ AtStatement(n)
           /\ pc = 4 * (n + 1) /\ pc \div 4 - 1 = n /\ Stmt = Program[n] /\ Shape(mmu)
           /\ Sound(Stmt, n, Dirty)
           /\ n = k => Stmt.op \notin {"svc", "undefined"} /\ Stmt.page = KERNEL
<1>1. outcome = "running" /\ stopped = <<>>
  BY DEF InMain
<1>2. Shape(mmu) /\ \E n \in Nat : AtStatement(n)
  BY <1>1 DEF CaseInv
<1>3. PICK n \in Nat : AtStatement(n)
  BY <1>2
<1>4. PICK k \in Nat :
           /\ k = Len(Program) /\ k >= 1
           /\ \A i \in 1 .. k : Sound(Program[i], i, Dirty)
           /\ Program[k].op \notin {"svc", "undefined"} /\ Program[k].page = KERNEL
  BY Text DEF CaseInv
<1>5. n \in 1 .. k /\ pc = 4 * (n + 1)
  BY <1>1, <1>3, <1>4 DEF AtStatement, MainAt
<1>6. pc \div 4 - 1 = n
  BY <1>5
<1>7. Stmt = Program[n]
  BY <1>6 DEF Stmt
<1> QED
  BY <1>2, <1>3, <1>4, <1>5, <1>6, <1>7

\* An access is made through the entry that the tables hold.
LEMMA FreshNow == ASSUME CaseInv PROVE FreshTranslation
<1> SUFFICES ASSUME InMain,
                    NEW p \in {Stmt.page} \cup (IF Stmt.op \in {"read", "write"} THEN {Stmt.x} ELSE {}), p # KERNEL
             PROVE  Seen(mmu, p) = Walk(mmu, p)
  BY DEF FreshTranslation
<1>1. PICK n \in Nat, k \in Nat :
           /\ n \in 1 .. k /\ k = Len(Program) /\ AtStatement(n)
           /\ pc = 4 * (n + 1) /\ pc \div 4 - 1 = n /\ Stmt = Program[n] /\ Shape(mmu)
           /\ Sound(Stmt, n, Dirty)
           /\ n = k => Stmt.op \notin {"svc", "undefined"} /\ Stmt.page = KERNEL
  BY InMainFacts
<1>2. n \notin Dirty /\ p \in Pages
  <2>1. CASE p = Stmt.page
    BY <1>1, <2>1 DEF Sound, Pages
  <2>2. CASE p = Stmt.x /\ Stmt.op \in {"read", "write"}
    BY <1>1, <2>2 DEF Sound, DataOps
  <2> QED
    BY <2>1, <2>2
<1>3. Coherent(mmu)
  BY <1>1, <1>2 DEF AtStatement
<1> QED
  BY <1>2, <1>3 DEF Coherent, Seen

-----------------------------------------------------------------------------
(* The statements                                                          *)

\* Statement n has been executed and the program goes on, or has ended.
Advanced(n) ==
  /\ program' = program /\ pc' = pc + 4 /\ UNCHANGED <<entering, stopped>>
  /\ outcome' = "running" => n # Len(Program)

\* The program at the next statement; what is left to show is that the TLB is
\* coherent there.
LEMMA AdvanceKeeps ==
  ASSUME CaseInv, InMain, NEW n \in Nat, AtStatement(n), Advanced(n), Shape(mmu'),
         n + 1 \notin Dirty => Coherent(mmu)'
  PROVE  CaseInv'
<1>1. /\ stopped = <<>> /\ stopped' = <<>> /\ program' = program /\ pc' = pc + 4
      /\ outcome' = "running" => n # Len(Program)
  BY DEF InMain, Advanced
<1>2. Program' = Program /\ Dirty' = Dirty /\ program' \in {"mmu", "ttbr", "exceptions"}
  BY <1>1 DEF Program, Dirty, CaseInv
<1>3. PICK k \in Nat : k = Len(Program)
  BY Text DEF CaseInv
<1>4. n \in 1 .. k /\ pc = 4 * (n + 1)
  BY <1>1, <1>3 DEF AtStatement, MainAt
<1>5. ASSUME outcome' = "running" PROVE AtStatement(n + 1)'
  <2>1. n + 1 \in 1 .. k /\ pc' = 4 * ((n + 1) + 1) /\ n + 1 # 1
    BY <1>1, <1>3, <1>4, <1>5
  <2> QED
    BY <1>1, <1>2, <1>3, <2>1 DEF AtStatement, MainAt, Aborted
<1>6. Len(stopped') =< 1
  BY <1>1
<1>7. outcome' = "running" => \E i \in Nat : AtStatement(i)'
  BY <1>5
<1> QED
  BY <1>2, <1>6, <1>7 DEF CaseInv, Shape

\* After any statement but TLBIALL the TLB may only be clean if it was before.
LEMMA CleanBefore ==
  ASSUME CaseInv, NEW n \in Nat, AtStatement(n), Sound(Stmt, n, Dirty), Stmt.op # "tlbiall", n + 1 \notin Dirty
  PROVE  Coherent(mmu)
  BY DEF Sound, AtStatement

\* The fetch of a statement leaves the TLB coherent.
LEMMA FetchKeeps ==
  ASSUME NEW n \in Nat, Sound(Stmt, n, Dirty), Shape(mmu), FetchFault = 0
  PROVE  Shape(Fetched) /\ (Coherent(mmu) => Coherent(Fetched))
<1>1. Stmt.page \in Pages \cup {KERNEL}
  BY DEF Sound, Pages
<1>2. Stmt.page = KERNEL \/ Seen(mmu, Stmt.page).valid
  BY FaultFacts DEF FetchFault
<1> QED
  BY <1>1, <1>2, TouchedKeeps DEF Fetched

\* A read or a write that is allowed.
LEMMA AccessKeeps == ASSUME CaseInv, Access PROVE CaseInv'
<1>1. /\ InMain /\ FetchFault = 0 /\ Stmt.op \in DataOps /\ DataFault = 0
      /\ mmu' = Touched(Fetched, Stmt.x, DataKind) /\ UNCHANGED <<entering, stopped>>
  BY DEF Access, DataAccess, IsRead, DataOps, cpuVars
<1>2. PICK n \in Nat, k \in Nat :
           /\ n \in 1 .. k /\ k = Len(Program) /\ AtStatement(n)
           /\ pc = 4 * (n + 1) /\ pc \div 4 - 1 = n /\ Stmt = Program[n] /\ Shape(mmu)
           /\ Sound(Stmt, n, Dirty)
           /\ n = k => Stmt.op \notin {"svc", "undefined"} /\ Stmt.page = KERNEL
  BY <1>1, InMainFacts
<1>3. Shape(Fetched) /\ (Coherent(mmu) => Coherent(Fetched))
  BY <1>1, <1>2, FetchKeeps
<1>4. Stmt.x \in Pages \cup {KERNEL} /\ (Stmt.x = KERNEL \/ Seen(Fetched, Stmt.x).valid)
  BY <1>1, <1>2, FaultFacts DEF Sound, DataFault
<1>5. Shape(mmu') /\ (Coherent(Fetched) => Coherent(mmu'))
  BY <1>1, <1>3, <1>4, TouchedKeeps
<1>6. Advanced(n)
  BY <1>1, <1>2 DEF Access, Require, Advanced
<1>7. n + 1 \notin Dirty => Coherent(mmu)
  BY <1>1, <1>2, CleanBefore DEF DataOps
<1>8. n + 1 \notin Dirty => Coherent(mmu)'
  BY <1>3, <1>5, <1>7 DEF Coherent, Walk
<1> QED
  BY <1>1, <1>2, <1>5, <1>6, <1>8, AdvanceKeeps

\* A statement that leaves the tables and the TLB alone, or only fetches.
LEMMA QuietKeeps == ASSUME CaseInv, Store \/ Check \/ ChangeMode \/ Systick PROVE CaseInv'
<1>1. /\ InMain /\ FetchFault = 0 /\ Stmt.op # "tlbiall" /\ (mmu' = mmu \/ mmu' = Fetched)
      /\ UNCHANGED <<entering, stopped>>
  BY DEF Store, Check, ChangeMode, Systick, Execute, cpuVars
<1>2. PICK n \in Nat, k \in Nat :
           /\ n \in 1 .. k /\ k = Len(Program) /\ AtStatement(n)
           /\ pc = 4 * (n + 1) /\ pc \div 4 - 1 = n /\ Stmt = Program[n] /\ Shape(mmu)
           /\ Sound(Stmt, n, Dirty)
           /\ n = k => Stmt.op \notin {"svc", "undefined"} /\ Stmt.page = KERNEL
  BY <1>1, InMainFacts
<1>3. Shape(Fetched) /\ (Coherent(mmu) => Coherent(Fetched))
  BY <1>1, <1>2, FetchKeeps
<1>4. Shape(mmu') /\ (Coherent(mmu) => Coherent(mmu'))
  BY <1>1, <1>2, <1>3
<1>5. Advanced(n)
  <2>1. CASE Store
    BY <1>1, <1>2, <2>1 DEF Store, Require, Advanced
  <2>2. CASE Check
    BY <1>1, <1>2, <2>2 DEF Check, Require, Advanced
  <2>3. CASE ChangeMode
    BY <1>1, <1>2, <2>3 DEF ChangeMode, Require, Advanced
  <2>4. CASE Systick
    BY <1>1, <1>2, <2>4 DEF Systick, Require, Advanced
  <2> QED
    BY <2>1, <2>2, <2>3, <2>4
<1>6. n + 1 \notin Dirty => Coherent(mmu)'
  <2>1. n + 1 \notin Dirty => Coherent(mmu)
    BY <1>1, <1>2, CleanBefore
  <2> QED
    BY <1>4, <2>1 DEF Coherent, Walk
<1> QED
  BY <1>1, <1>2, <1>4, <1>5, <1>6, AdvanceKeeps

\* A statement that edits the tables makes the TLB dirty, unless nothing has
\* been remembered yet.
LEMMA EditDirties ==
  ASSUME NEW n \in Nat, n \in 1 .. Len(Program), AtStatement(n), Sound(Stmt, n, Dirty), Stmt.op \in EditOps, Shape(mmu),
         NEW w, EditOf(mmu, w)
  PROVE  Shape(w) /\ (n + 1 \notin Dirty => Coherent(w))
<1>1. Shape(w) /\ w.tlb = mmu.tlb
  BY EditKeeps
<1>2. n + 1 \notin Dirty => Empty(mmu)
  BY DEF Sound, AtStatement
<1>3. Empty(mmu) => Coherent(w)
  BY <1>1 DEF Empty, Coherent
<1> QED
  BY <1>1, <1>2, <1>3

\* Stores to the tables and to TTBR0, and TLBIALL.
LEMMA EditTablesKeeps == ASSUME CaseInv, EditTables PROVE CaseInv'
<1>1. InMain /\ FetchFault = 0 /\ UNCHANGED <<entering, stopped>> /\ Stmt.op \in EditOps \cup {"tlbiall"}
  BY DEF EditTables, Execute, cpuVars, EditOps
<1>2. PICK n \in Nat, k \in Nat :
           /\ n \in 1 .. k /\ k = Len(Program) /\ AtStatement(n)
           /\ pc = 4 * (n + 1) /\ pc \div 4 - 1 = n /\ Stmt = Program[n] /\ Shape(mmu)
           /\ Sound(Stmt, n, Dirty)
           /\ n = k => Stmt.op \notin {"svc", "undefined"} /\ Stmt.page = KERNEL
  BY <1>1, InMainFacts
<1>3. Advanced(n)
  BY <1>1, <1>2 DEF EditTables, Require, Advanced
<1>4. PICK w : w = mmu'
  OBVIOUS
<1>5. ASSUME Stmt.op \in EditOps PROVE EditOf(mmu, w)
  <2>1. CASE Stmt.op = "root"
    <3>1. Stmt.x \in {"a", "b"} /\ Stmt.y \in Tables /\ w = [mmu EXCEPT !.root[Stmt.x] = Stmt.y]
      BY <1>2, <1>4, <2>1 DEF EditTables, Execute, Sound
    <3> QED
      BY <3>1 DEF EditOf
  <2>2. CASE Stmt.op = "map"
    <3>1. w = [mmu EXCEPT !.table[Stmt.x] = Stmt.y]
      BY <1>4, <2>2 DEF EditTables, Execute
    <3> QED
      BY <3>1 DEF EditOf
  <2>3. CASE Stmt.op = "clear_bits"
    <3>1. w = [mmu EXCEPT !.table[Stmt.x].flags = @ \ Stmt.y]
      BY <1>4, <2>3 DEF EditTables, Execute
    <3>2. PICK e : w = [mmu EXCEPT !.table[Stmt.x] = e]
      BY <3>1
    <3> QED
      BY <3>2 DEF EditOf
  <2>4. CASE Stmt.op = "revoke"
    <3>1. w = [mmu EXCEPT !.pte[Stmt.x].flags = @ \ {Stmt.y}]
      BY <1>4, <2>4 DEF EditTables, Execute
    <3>2. PICK e : w = [mmu EXCEPT !.pte[Stmt.x] = e]
      BY <3>1
    <3> QED
      BY <3>2 DEF EditOf
  <2>5. CASE Stmt.op = "ttbr"
    <3>1. Stmt.x \in {"a", "b"} /\ w = minemu_mmu_set_ttbr0(mmu, Stmt.x)
      BY <1>2, <1>4, <2>5 DEF EditTables, Execute, Sound
    <3> QED
      BY <3>1 DEF EditOf
  <2> QED
    BY <1>5, <2>1, <2>2, <2>3, <2>4, <2>5 DEF EditOps
<1>6. Shape(w) /\ (n + 1 \notin Dirty => Coherent(w))
  <2>1. CASE Stmt.op \in EditOps
    BY <1>2, <1>5, <2>1, EditDirties
  <2>2. CASE Stmt.op = "tlbiall"
    <3>1. w = minemu_mmu_tlbiall(mmu)
      BY <1>4, <2>2 DEF EditTables, Execute
    <3> QED
      BY <1>2, <3>1, TlbiallKeeps
  <2> QED
    BY <1>1, <2>1, <2>2
<1>7. Shape(mmu') /\ (n + 1 \notin Dirty => Coherent(mmu)')
  BY <1>4, <1>6 DEF Coherent, Walk
<1> QED
  BY <1>1, <1>2, <1>3, <1>7, AdvanceKeeps

-----------------------------------------------------------------------------
(* Exceptions                                                              *)

\* What Raise records when the program itself is stopped.
LEMMA RaiseFacts ==
  ASSUME stopped = <<>>, NEW k, NEW s, NEW a, Raise(k, s, a)
  PROVE  /\ Len(stopped') = 1 /\ stopped' # <<>> /\ stopped'[1].pc = ResumeAt(k) /\ Kind' = k
         /\ entering' = TRUE /\ pc' = pc
<1>1. PICK c : c = [kind |-> k, at |-> pc, pc |-> ResumeAt(k), r |-> r, user |-> user, status |-> cpsr,
                    lr |-> IF ModeOf(cpsr) \in ExceptionModes \ {Entries[k].mode} THEN lr[ModeOf(cpsr)] ELSE 0,
                    fault |-> IF Entries[k].fault THEN <<s, a>> ELSE <<0, 0>>]
  OBVIOUS
<1>2. stopped' = <<c>>
  BY <1>1 DEF Raise
<1>3. c.kind = k /\ c.pc = ResumeAt(k)
  BY <1>1
<1>4. Last(stopped') = c /\ Len(stopped') = 1 /\ stopped'[1] = c /\ stopped' # <<>>
  BY <1>2 DEF Last
<1>5. Kind' = Last(stopped').kind
  BY DEF Kind
<1> QED
  BY <1>3, <1>4, <1>5 DEF Raise

\* The exception k stopped the program at statement n.
StoppedAt(n, k) ==
  /\ Len(stopped') = 1 /\ stopped' # <<>> /\ stopped'[1].pc = ResumeAt(k) /\ Kind' = k
  /\ UNCHANGED <<program, outcome>>
  /\ k \in {"svc", "undefined"} => Stmt.op \in {"svc", "undefined"}
  /\ k = "data_abort" => Stmt.op \in DataOps
  /\ k = "prefetch_abort" => Stmt.page # KERNEL
  /\ Coherent(mmu) => Coherent(mmu)'
  /\ n = 1 => Empty(mmu)'

\* After svc and an undefined instruction the program will go on behind them,
\* in all other cases with the statement that was stopped.
LEMMA StopKeeps ==
  ASSUME CaseInv, InMain, NEW n \in Nat, NEW k \in Nat,
         n \in 1 .. k /\ k = Len(Program) /\ AtStatement(n) /\ pc = 4 * (n + 1) /\ Stmt = Program[n],
         Sound(Stmt, n, Dirty),
         n = k => Stmt.op \notin {"svc", "undefined"} /\ Stmt.page = KERNEL,
         NEW kind \in Kinds, StoppedAt(n, kind), Shape(mmu')
  PROVE  CaseInv'
<1>1. Program' = Program /\ Dirty' = Dirty /\ program' \in {"mmu", "ttbr", "exceptions"}
  BY DEF StoppedAt, Program, Dirty, CaseInv
<1>2. MainAt' = ResumeAt(kind)
  BY DEF StoppedAt, MainAt
<1>3. CASE kind \in {"svc", "undefined"}
  <2>1. n # k /\ n # 1 /\ Stmt.op \in {"svc", "undefined"}
    BY <1>3 DEF StoppedAt, Sound
  <2>2. n + 1 \in 1 .. k /\ MainAt' = 4 * ((n + 1) + 1) /\ n + 1 # 1
    BY <1>2, <1>3, <2>1 DEF ResumeAt
  <2>3. n + 1 \notin Dirty => Coherent(mmu)'
    BY <2>1 DEF StoppedAt, Sound, AtStatement
  <2>4. AtStatement(n + 1)'
    BY <1>1, <1>3, <2>2, <2>3 DEF AtStatement, Aborted, StoppedAt
  <2>5. \E i \in Nat : AtStatement(i)'
    BY <2>4
  <2> QED
    BY <1>1, <2>5 DEF CaseInv, StoppedAt, Shape
<1>4. CASE kind \notin {"svc", "undefined"}
  <2>1. MainAt' = 4 * (n + 1)
    BY <1>2, <1>4 DEF ResumeAt
  <2>2. AtStatement(n)'
    BY <1>1, <2>1 DEF AtStatement, Aborted, StoppedAt
  <2>3. \E i \in Nat : AtStatement(i)'
    BY <2>2
  <2> QED
    BY <1>1, <2>3 DEF CaseInv, StoppedAt, Shape
<1> QED
  BY <1>3, <1>4

\* The fault status and address are integers.
LEMMA PageInt == ASSUME NEW p \in Pages \cup {KERNEL} PROVE p \in Int
  BY DEF Pages, KERNEL, TEST_VADDR, RNG, TRACE, USER_PROBE, PREFETCH_PROBE

\* A fetch that is refused.
LEMMA PrefetchKeeps == ASSUME IInv, CaseInv, Prefetch PROVE IInv' /\ CaseInv'
<1>1. /\ InMain /\ FetchFault # 0 /\ Raise("prefetch_abort", FetchFault, Stmt.page)
      /\ mmu' \in Refused(mmu, Stmt.page) /\ UNCHANGED <<program, outcome>>
  BY DEF Prefetch
<1>2. PICK n \in Nat, k \in Nat :
           /\ n \in 1 .. k /\ k = Len(Program) /\ AtStatement(n)
           /\ pc = 4 * (n + 1) /\ pc \div 4 - 1 = n /\ Stmt = Program[n] /\ Shape(mmu)
           /\ Sound(Stmt, n, Dirty)
           /\ n = k => Stmt.op \notin {"svc", "undefined"} /\ Stmt.page = KERNEL
  BY <1>1, InMainFacts
<1>3. Stmt.page # KERNEL /\ FetchFault \in Int
  BY <1>1, FaultFacts DEF FetchFault
<1>4. Stmt.page \in Pages
  BY <1>2, <1>3 DEF Sound, Pages
<1>5. Shape(mmu') /\ (Coherent(mmu) => Coherent(mmu)')
  <2>1. PICK w : w = mmu'
    OBVIOUS
  <2>2. Shape(w) /\ (Coherent(mmu) => Coherent(w))
    BY <1>1, <1>2, <1>4, <2>1, RefusedKeeps
  <2> QED
    BY <2>1, <2>2 DEF Coherent, Walk
<1>6. n # 1
  BY <1>2, <1>3 DEF Sound
<1>7. StoppedAt(n, "prefetch_abort")
  BY <1>1, <1>3, <1>5, <1>6, RaiseFacts DEF StoppedAt, InMain
<1>8. CaseInv'
  BY <1>1, <1>2, <1>5, <1>7, StopKeeps DEF Kinds
<1>9. IInv'
  <2>1. PICK s \in Int, a \in Int : s = FetchFault /\ a = Stmt.page
    BY <1>3, <1>4, PageInt
  <2> QED
    BY <1>1, <2>1, RaiseInv DEF Kinds
<1> QED
  BY <1>8, <1>9

\* A read or a write that is refused.
LEMMA DataAbortKeeps == ASSUME IInv, CaseInv, DataAbort PROVE IInv' /\ CaseInv'
<1>1. /\ InMain /\ FetchFault = 0 /\ DataFault # 0 /\ Stmt.op \in DataOps /\ Raise("data_abort", DataFault, Stmt.x)
      /\ mmu' \in Refused(Fetched, Stmt.x) /\ UNCHANGED <<program, outcome>>
  BY DEF DataAbort, DataAccess, IsRead, DataOps
<1>2. PICK n \in Nat, k \in Nat :
           /\ n \in 1 .. k /\ k = Len(Program) /\ AtStatement(n)
           /\ pc = 4 * (n + 1) /\ pc \div 4 - 1 = n /\ Stmt = Program[n] /\ Shape(mmu)
           /\ Sound(Stmt, n, Dirty)
           /\ n = k => Stmt.op \notin {"svc", "undefined"} /\ Stmt.page = KERNEL
  BY <1>1, InMainFacts
<1>3. Stmt.x \in Pages /\ DataFault \in Int
  BY <1>1, <1>2, FaultFacts DEF Sound, DataFault
<1>4. Shape(Fetched) /\ (Coherent(mmu) => Coherent(Fetched))
  BY <1>1, <1>2, FetchKeeps
<1>5. Shape(mmu') /\ (Coherent(mmu) => Coherent(mmu)')
  <2>1. PICK w : w = mmu'
    OBVIOUS
  <2>2. Shape(w) /\ (Coherent(Fetched) => Coherent(w))
    BY <1>1, <1>3, <1>4, <2>1, RefusedKeeps
  <2> QED
    BY <1>4, <2>1, <2>2 DEF Coherent, Walk
<1>6. n # 1
  BY <1>1, <1>2 DEF Sound, DataOps
<1>7. StoppedAt(n, "data_abort")
  BY <1>1, <1>5, <1>6, RaiseFacts DEF StoppedAt, InMain
<1>8. CaseInv'
  BY <1>1, <1>2, <1>5, <1>7, StopKeeps DEF Kinds
<1>9. IInv'
  <2>1. PICK s \in Int, a \in Int : s = DataFault /\ a = Stmt.x
    BY <1>3, PageInt
  <2> QED
    BY <1>1, <2>1, RaiseInv DEF Kinds
<1> QED
  BY <1>8, <1>9

\* svc and undefined instructions.
LEMMA TrapKeeps == ASSUME IInv, CaseInv, Trap PROVE IInv' /\ CaseInv'
<1>1. PICK kind \in {"undefined", "svc"} : Execute(kind) /\ Raise(kind, 0, 0)
  BY DEF Trap
<1>2. /\ InMain /\ FetchFault = 0 /\ Stmt.op = kind /\ mmu' = Fetched /\ UNCHANGED <<program, outcome>>
  BY <1>1 DEF Trap, Execute
<1>3. PICK n \in Nat, k \in Nat :
           /\ n \in 1 .. k /\ k = Len(Program) /\ AtStatement(n)
           /\ pc = 4 * (n + 1) /\ pc \div 4 - 1 = n /\ Stmt = Program[n] /\ Shape(mmu)
           /\ Sound(Stmt, n, Dirty)
           /\ n = k => Stmt.op \notin {"svc", "undefined"} /\ Stmt.page = KERNEL
  BY <1>2, InMainFacts
<1>4. Shape(Fetched) /\ (Coherent(mmu) => Coherent(Fetched))
  BY <1>2, <1>3, FetchKeeps
<1>5. Shape(mmu') /\ (Coherent(mmu) => Coherent(mmu)')
  BY <1>2, <1>4 DEF Coherent, Walk
<1>6. n # 1
  BY <1>2, <1>3 DEF Sound
<1>7. StoppedAt(n, kind)
  <2>1. stopped = <<>>
    BY <1>2 DEF InMain
  <2> QED
    BY <1>1, <1>2, <1>5, <1>6, <2>1, RaiseFacts DEF StoppedAt
<1>8. kind \in Kinds
  BY DEF Kinds
<1>9. CaseInv'
  BY <1>2, <1>3, <1>5, <1>7, <1>8, StopKeeps
<1>10. IInv'
  BY <1>1, <1>8, RaiseInv
<1> QED
  BY <1>9, <1>10

\* The timer's interrupt, before any statement.
LEMMA TakeIrqKeeps == ASSUME IInv, CaseInv, TakeIrq PROVE IInv' /\ CaseInv'
<1>1. InMain /\ Raise("irq", 0, 0) /\ UNCHANGED <<program, outcome, mmu>>
  BY DEF TakeIrq
<1>2. PICK n \in Nat, k \in Nat :
           /\ n \in 1 .. k /\ k = Len(Program) /\ AtStatement(n)
           /\ pc = 4 * (n + 1) /\ pc \div 4 - 1 = n /\ Stmt = Program[n] /\ Shape(mmu)
           /\ Sound(Stmt, n, Dirty)
           /\ n = k => Stmt.op \notin {"svc", "undefined"} /\ Stmt.page = KERNEL
  BY <1>1, InMainFacts
<1>3. StoppedAt(n, "irq")
  <2>1. stopped = <<>>
    BY <1>1 DEF InMain
  <2>2. (Coherent(mmu)' <=> Coherent(mmu)) /\ (n = 1 => Empty(mmu)')
    BY <1>1, <1>2 DEF AtStatement, Coherent, Empty, Walk
  <2> QED
    BY <1>1, <2>1, <2>2, RaiseFacts DEF StoppedAt
<1>4. Shape(mmu') /\ "irq" \in Kinds
  BY <1>1, <1>2 DEF Kinds
<1>5. CaseInv'
  BY <1>1, <1>2, <1>3, <1>4, StopKeeps
<1>6. IInv'
  BY <1>1, <1>4, RaiseInv
<1> QED
  BY <1>5, <1>6

\* A statement changes neither frames nor banks; it may change the mode of
\* the program itself, between SVC and USR, and its I bit.
LEMMA ModeChangeInv ==
  ASSUME IInv, stopped = <<>>, ~entering, NEW s \in Statuses, cpsr' = s, ModeOf(s) \in {USR, SVC}, pc' \in Int,
         UNCHANGED <<r, user, sp, lr, spsr, stack, dfsr, dfar, entering, stopped>>
  PROVE  IInv'
<1>1. Typed'
  BY DEF IInv, Typed
<1>2. DOMAIN stopped' = {} /\ ~entering'
  BY DEF IInv
<1>3. (\A i : Settled(i)' <=> Settled(i)) /\ (\A i : ModeAt(i)' = ModeAt(i))
  BY DEF Settled, ModeAt
<1>4. StacksKept'
  BY <1>3 DEF IInv, StacksKept
<1>5. Nested' /\ FramesKept' /\ LinksKept' /\ AtVector'
  BY <1>2 DEF Nested, FramesKept, LinksKept, AtVector
<1> QED
  BY <1>1, <1>4, <1>5 DEF IInv

\* The status after ChangeMode.
LEMMA ModeFields ==
  /\ USR \in Statuses /\ ModeOf(USR) = USR
  /\ \A m \in {USR, SVC}, b \in {0, I_BIT} : m + b \in Statuses /\ ModeOf(m + b) = m
  BY DEF Statuses, ExceptionModes, ModeOf, USR, IRQ, SVC, ABT, UND, I_BIT

\* A statement that is executed keeps the frames.
LEMMA StatementInv ==
  ASSUME IInv, Access \/ EditTables \/ Store \/ Check \/ Systick
  PROVE  IInv'
<1>1. UNCHANGED cpuVars /\ InMain /\ pc' = pc + 4
  BY DEF Access, EditTables, Store, Check, Systick, DataAccess, Execute, Require
<1>2. ~entering /\ pc' \in Int /\ r' \in [1 .. 13 -> Int] /\ user' \in Int \X Int
  BY <1>1 DEF InMain, cpuVars, IInv, Typed
<1> QED
  BY <1>1, <1>2, Frame DEF cpuVars, banks

\* So does a change of the mode.
LEMMA ChangeModeInv == ASSUME IInv, ChangeMode PROVE IInv'
<1>1. /\ InMain /\ pc' = pc + 4 /\ UNCHANGED <<r, user, sp, lr, spsr, stack, dfsr, dfar, entering, stopped>>
      /\ cpsr' = USR \/ cpsr' = ModeOf(cpsr) + (IF Stmt.x THEN I_BIT ELSE 0)
  BY DEF ChangeMode, Execute, Require, banks
<1>2. stopped = <<>> /\ ~entering /\ pc' \in Int
  BY <1>1 DEF InMain, IInv, Typed
<1>3. ModeOf(cpsr) \in {USR, SVC}
  BY <1>2 DEF IInv, Nested
<1>4. PICK b \in {0, I_BIT} : cpsr' = USR \/ cpsr' = ModeOf(cpsr) + b
  BY <1>1
<1>5. cpsr' \in Statuses /\ ModeOf(cpsr') \in {USR, SVC}
  BY <1>3, <1>4, ModeFields
<1>6. PICK s \in Statuses : s = cpsr'
  BY <1>5
<1> QED
  BY <1>1, <1>2, <1>5, <1>6, ModeChangeInv

-----------------------------------------------------------------------------
(* The trampolines                                                         *)

\* An exception that is being handled, and the statement it stopped.
LEMMA HandlingFacts ==
  ASSUME IInv, CaseInv, outcome = "running", stopped # <<>>
  PROVE  /\ Len(stopped) = 1 /\ Last(stopped) = stopped[1] /\ MainAt = stopped[1].pc /\ Shape(mmu)
         /\ stopped[1].pc \in Int /\ DOMAIN stopped = {1}
         /\ \E n \in Nat : AtStatement(n)
<1>1. Len(stopped) \in Nat /\ Len(stopped) >= 1 /\ DOMAIN stopped = 1 .. Len(stopped)
      /\ Last(stopped) = stopped[Len(stopped)]
      /\ \A i \in DOMAIN stopped : stopped[i] \in Stopped
  BY StoppedModes DEF IInv
<1>2. Len(stopped) = 1
  BY <1>1 DEF CaseInv
<1> QED
  BY <1>1, <1>2, StoppedFacts DEF CaseInv, MainAt

\* From the vector to the dispatch.
LEMMA TrampolineKeeps == ASSUME IInv, CaseInv, Trampoline PROVE IInv' /\ CaseInv'
<1>1. Save /\ entering /\ UNCHANGED <<program, outcome, mmu, stopped>> /\ stopped # <<>> /\ entering' = FALSE
  BY DEF Trampoline, Save, IInv, Typed
<1>2. IInv'
  BY <1>1, SaveInv
<1>3. Program' = Program /\ Dirty' = Dirty /\ Kind' = Kind /\ MainAt' = MainAt
  BY <1>1 DEF Program, Dirty, Kind, MainAt
<1>4. ASSUME NEW n \in Nat, AtStatement(n) PROVE AtStatement(n)'
  BY <1>1, <1>3, <1>4 DEF AtStatement, Aborted, Coherent, Empty, Walk
<1>5. CaseInv'
  BY <1>1, <1>4 DEF CaseInv, Shape
<1> QED
  BY <1>2, <1>5

\* The return to the program.
LEMMA ReturnKeeps == ASSUME IInv, CaseInv, Return PROVE IInv' /\ CaseInv'
<1>1. Restore /\ outcome = "running" /\ UNCHANGED <<program, outcome, mmu>> /\ stopped # <<>> /\ ~entering
  BY DEF Return, Restore
<1>2. PICK i \in Nat, c \in Stopped, m \in ExceptionModes : Restored(i, c, m) /\ c = Last(stopped)
  BY <1>1, RestoreFacts
<1>3. IInv'
  BY <1>2, RestoredInv
<1>4. Len(stopped) = 1 /\ Last(stopped) = stopped[1] /\ MainAt = stopped[1].pc /\ \E n \in Nat : AtStatement(n)
  BY <1>1, HandlingFacts
<1>5. Len(stopped') = 0 /\ stopped' \in Seq(Stopped) /\ pc' = stopped[1].pc /\ entering' = entering
  BY <1>2, <1>4 DEF Restored
<1>6. stopped' = <<>>
  BY <1>5, EmptySeq
<1>7. Program' = Program /\ Dirty' = Dirty /\ MainAt' = MainAt
  BY <1>1, <1>4, <1>5, <1>6 DEF Program, Dirty, MainAt
<1>8. PICK n \in Nat : AtStatement(n)
  BY <1>4
<1>9. AtStatement(n)'
  BY <1>1, <1>6, <1>7, <1>8 DEF AtStatement, Aborted, Coherent, Empty, Walk
<1>10. CaseInv'
  BY <1>1, <1>5, <1>6, <1>9 DEF CaseInv, Shape
<1> QED
  BY <1>3, <1>10

-----------------------------------------------------------------------------
(* The dispatches                                                          *)

\* A dispatch that is over; the program will go on a bytes further.
Handled(a) ==
  /\ outcome = "running" /\ ~entering /\ stopped # <<>> /\ pc' = DISPATCH + 4 /\ UNCHANGED <<program, entering>>
  /\ Len(stopped') = 1 /\ stopped' # <<>> /\ stopped'[1].pc = stopped[1].pc + a

\* The abort will be tried again, or the instruction it came from is over.
LEMMA AgainKeeps ==
  ASSUME IInv, CaseInv, Handled(0), Shape(mmu'), NEW n \in Nat, AtStatement(n),
         n \notin Dirty => Coherent(mmu)', n = 1 => Empty(mmu)'
  PROVE  CaseInv'
<1>1. Program' = Program /\ Dirty' = Dirty /\ program' \in {"mmu", "ttbr", "exceptions"}
  BY DEF Handled, Program, Dirty, CaseInv
<1>2. MainAt' = MainAt
  BY HandlingFacts DEF Handled, MainAt
<1>3. ~entering' /\ pc' # DISPATCH
  BY DEF Handled, DISPATCH
<1>4. AtStatement(n)'
  BY <1>1, <1>2, <1>3 DEF AtStatement, Aborted
<1> QED
  BY <1>1, <1>4 DEF CaseInv, Handled, Shape

\* The access is stepped over; there is a statement after it.
LEMMA OverKeeps ==
  ASSUME IInv, CaseInv, Handled(4), Shape(mmu'), NEW n \in Nat, AtStatement(n), n # Len(Program),
         n + 1 \notin Dirty => Coherent(mmu)'
  PROVE  CaseInv'
<1>1. Program' = Program /\ Dirty' = Dirty /\ program' \in {"mmu", "ttbr", "exceptions"}
  BY DEF Handled, Program, Dirty, CaseInv
<1>2. MainAt' = MainAt + 4
  BY HandlingFacts DEF Handled, MainAt
<1>3. ~entering' /\ pc' # DISPATCH
  BY DEF Handled, DISPATCH
<1>4. PICK k \in Nat : k = Len(Program)
  BY Text DEF CaseInv
<1>5. n \in 1 .. k /\ n # k /\ MainAt = 4 * (n + 1)
  BY <1>4 DEF AtStatement
<1>6. n + 1 \in 1 .. k /\ MainAt' = 4 * ((n + 1) + 1) /\ n + 1 # 1
  BY <1>2, <1>5
<1>7. AtStatement(n + 1)'
  BY <1>1, <1>3, <1>4, <1>6 DEF AtStatement, Aborted
<1>8. \E i \in Nat : AtStatement(i)'
  BY <1>7
<1> QED
  BY <1>1, <1>8 DEF CaseInv, Handled, Shape

\* What a dispatch does besides its answer, whether or not it is content.
Ended == pc' = DISPATCH + 4 /\ UNCHANGED <<cpsr, r, user, banks, dfsr, dfar, taken, entering, program, mem>>

\* What it leaves alone.
LEMMA DoneFacts ==
  ASSUME IInv, NEW k, Dispatching(k), Ended
  PROVE  /\ Dispatched /\ outcome = "running" /\ ~entering /\ stopped # <<>> /\ pc = DISPATCH /\ Kind = k
         /\ pc' = DISPATCH + 4 /\ UNCHANGED <<program, entering>>
  BY DEF Dispatching, Ended, Dispatched, banks, DISPATCH

\* A stopped context with another place or status.
LEMMA ContextEdits ==
  ASSUME NEW c \in Stopped
  PROVE  /\ \A v \in Int : [c EXCEPT !.pc = v] \in Stopped /\ [c EXCEPT !.pc = v].pc = v
         /\ \A v \in Statuses : [c EXCEPT !.status = v] \in Stopped /\ [c EXCEPT !.status = v].pc = c.pc
  BY DEF Stopped

\* The one exception there is goes on as d.
LEMMA OneStopped ==
  ASSUME NEW q \in Seq(Stopped), Len(q) = 1, NEW d \in Stopped, NEW s, s = [q EXCEPT ![1] = d]
  PROVE  Len(s) = 1 /\ s # <<>> /\ s[1] = d
<1>1. 1 \in 1 .. Len(q)
  OBVIOUS
<1>2. s \in Seq(Stopped) /\ Len(s) = 1 /\ s[1] = d
  BY <1>1, ReplaceFacts
<1> QED
  BY <1>2

\* The dispatch has moved the return address by a.
LEMMA MovedReturn ==
  ASSUME IInv, CaseInv, NEW k, Dispatching(k), Ended, NEW a \in Int, MoveReturn(a)
  PROVE  IInv' /\ Handled(a)
<1>1. /\ Dispatched /\ outcome = "running" /\ ~entering /\ stopped # <<>>
      /\ pc' = DISPATCH + 4 /\ UNCHANGED <<program, entering>>
  BY DoneFacts
<1>2. IInv'
  BY <1>1, MoveReturnInv
<1>3. Len(stopped) = 1 /\ DOMAIN stopped = {1} /\ stopped' = [stopped EXCEPT ![1].pc = @ + a]
  BY <1>1, HandlingFacts DEF MoveReturn
<1>4. PICK q, s, c : q = stopped /\ s = stopped' /\ c = stopped[1] /\ q \in Seq(Stopped) /\ c \in Stopped
  <2>1. stopped \in Seq(Stopped) /\ stopped[1] \in Stopped
    BY <1>3, StoppedModes DEF IInv, Typed
  <2> QED
    BY <2>1
<1>5. PICK d : d = [c EXCEPT !.pc = c.pc + a]
  OBVIOUS
<1>6. d \in Stopped /\ d.pc = c.pc + a
  <2>1. c.pc \in Int
    BY <1>4, StoppedFacts
  <2> QED
    BY <1>4, <1>5, <2>1, ContextEdits
<1>7. s = [q EXCEPT ![1] = d] /\ Len(q) = 1
  BY <1>3, <1>4, <1>5
<1>8. Len(s) = 1 /\ s # <<>> /\ s[1] = d
  BY <1>4, <1>6, <1>7, OneStopped
<1> QED
  BY <1>1, <1>2, <1>4, <1>6, <1>8 DEF Handled

\* The dispatch has moved the mode in the frame.
LEMMA MovedMode ==
  ASSUME IInv, CaseInv, NEW k, Dispatching(k), Ended, NEW a \in Int, MoveMode(a),
         a = 0 \/ (a = SVC - USR /\ ModeOf(Word(56)) = USR)
  PROVE  IInv' /\ Handled(0)
<1>1. /\ Dispatched /\ outcome = "running" /\ ~entering /\ stopped # <<>>
      /\ pc' = DISPATCH + 4 /\ UNCHANGED <<program, entering>>
  BY DoneFacts
<1>2. IInv'
  BY <1>1, MoveModeInv
<1>3. Len(stopped) = 1 /\ DOMAIN stopped = {1} /\ stopped' = [stopped EXCEPT ![1].status = @ + a]
  BY <1>1, HandlingFacts DEF MoveMode
<1>4. PICK q, s, c : q = stopped /\ s = stopped' /\ c = stopped[1] /\ q \in Seq(Stopped) /\ c \in Stopped
  <2>1. stopped \in Seq(Stopped) /\ stopped[1] \in Stopped
    BY <1>3, StoppedModes DEF IInv, Typed
  <2> QED
    BY <2>1
<1>5. PICK d : d = [c EXCEPT !.status = c.status + a]
  OBVIOUS
<1>6. d \in Stopped /\ d.pc = c.pc + 0
  <2>1. c.pc \in Int /\ c.status \in Statuses
    BY <1>4, StoppedFacts
  <2>2. Word(56) = c.status
    BY <1>1, <1>4, FrameNow, HandlingFacts DEF FrameTells
  <2>3. c.status + a \in Statuses
    <3>1. CASE a = 0
      BY <2>1, <3>1, ModeFacts
    <3>2. CASE a = SVC - USR /\ ModeOf(Word(56)) = USR
      BY <2>1, <2>2, <3>2, ModeFacts
    <3> QED
      BY <3>1, <3>2
  <2> QED
    BY <1>4, <1>5, <2>1, <2>3, ContextEdits
<1>7. s = [q EXCEPT ![1] = d] /\ Len(q) = 1
  BY <1>3, <1>4, <1>5
<1>8. Len(s) = 1 /\ s # <<>> /\ s[1] = d
  BY <1>4, <1>6, <1>7, OneStopped
<1> QED
  BY <1>1, <1>2, <1>4, <1>6, <1>8 DEF Handled

\* The dispatch has left its frame as it was.
LEMMA MovedNothing ==
  ASSUME IInv, CaseInv, NEW k, Dispatching(k), Ended, UNCHANGED <<stack, stopped>>
  PROVE  IInv' /\ Handled(0)
<1>1. /\ Dispatched /\ outcome = "running" /\ ~entering /\ stopped # <<>>
      /\ pc' = DISPATCH + 4 /\ UNCHANGED <<program, entering>>
  BY DoneFacts
<1>2. IInv'
  BY <1>1, Frame DEF Dispatched, IInv, Typed
<1> QED
  BY <1>1, <1>2, HandlingFacts DEF Handled

\* The dispatch of an abort leaves the tables m, repaired or not, invalidates
\* the TLB, and has the access tried again or stepped over.
LEMMA RepairKeeps ==
  ASSUME IInv, CaseInv, NEW k \in {"data_abort", "prefetch_abort"}, Dispatching(k), Ended, program # "ttbr",
         NEW m, m = mmu \/ EditOf(mmu, m), mmu' = minemu_mmu_tlbiall(m), NEW a \in {0, 4}, MoveReturn(a)
  PROVE  IInv' /\ CaseInv'
<1>1. a \in Int
  OBVIOUS
<1>2. IInv' /\ Handled(a)
  BY <1>1, MovedReturn
<1>3. outcome = "running" /\ stopped # <<>> /\ pc = DISPATCH /\ Kind = k
  BY DoneFacts
<1>4. Shape(mmu) /\ \E n \in Nat : AtStatement(n)
  BY <1>3, HandlingFacts
<1>5. PICK n \in Nat : AtStatement(n)
  BY <1>4
<1>6. Shape(m)
  BY <1>4, EditKeeps
<1>7. PICK w : w = mmu'
  OBVIOUS
<1>8. Shape(w) /\ Empty(w) /\ Coherent(w)
  BY <1>6, <1>7, TlbiallKeeps
<1>9. Shape(mmu') /\ Empty(mmu)' /\ Coherent(mmu)'
  BY <1>7, <1>8 DEF Empty, Coherent, Walk
<1>10. CASE a = 0
  BY <1>2, <1>5, <1>9, <1>10, AgainKeeps
<1>11. CASE a = 4
  <2>1. n # Len(Program)
    <3>1. Program[n].op \in DataOps \/ Program[n].page # KERNEL
      BY <1>3, <1>5 DEF AtStatement, Aborted
    <3>2. Program[Len(Program)].op \notin DataOps /\ Program[Len(Program)].page = KERNEL
      BY Text DEF CaseInv
    <3> QED
      BY <3>1, <3>2
  <2> QED
    BY <1>2, <1>5, <1>9, <1>11, <2>1, OverKeeps
<1> QED
  BY <1>10, <1>11

\* abort_dispatch of headless/mmu.
LEMMA MmuDispatchKeeps == ASSUME IInv, CaseInv, program = "mmu", mmu_abort_dispatch PROVE IInv' /\ CaseInv'
<1>1. PICK k \in {"data_abort", "prefetch_abort"} : Dispatching(k)
  BY DEF mmu_abort_dispatch
<1>2. Ended
  BY DEF mmu_abort_dispatch, Repair, Done, Ended
<1>3. EditOf(mmu, Granted("R")) /\ EditOf(mmu, Granted("W"))
  <2>1. ASSUME NEW flag PROVE \E e : Granted(flag) = [mmu EXCEPT !.table["table_a"] = e]
    BY DEF Granted
  <2> QED
    BY <2>1 DEF EditOf
<1>4. \/ \E m : (m = mmu \/ EditOf(mmu, m)) /\ mmu' = minemu_mmu_tlbiall(m) /\ MoveReturn(0)
      \/ mmu' = minemu_mmu_tlbiall(mmu) /\ MoveReturn(4)
  <2>1. CASE stage.abort = 1
    <3>1. mmu' = minemu_mmu_tlbiall(Granted("R")) /\ MoveReturn(0)
      BY <2>1 DEF mmu_abort_dispatch, Repair
    <3> QED
      BY <1>3, <3>1, Zenon
  <2>2. CASE stage.abort = 2
    <3>1. mmu' = minemu_mmu_tlbiall(Granted("W")) /\ MoveReturn(0)
      BY <2>2 DEF mmu_abort_dispatch, Repair
    <3> QED
      BY <1>3, <3>1, Zenon
  <2>3. CASE stage.abort = 3
    BY <2>3 DEF mmu_abort_dispatch, Repair
  <2>4. CASE stage.abort # 1 /\ stage.abort # 2 /\ stage.abort # 3
    BY <2>4 DEF mmu_abort_dispatch, Repair
  <2> QED
    BY <2>1, <2>2, <2>3, <2>4
<1>5. CASE \E m : (m = mmu \/ EditOf(mmu, m)) /\ mmu' = minemu_mmu_tlbiall(m) /\ MoveReturn(0)
  BY <1>1, <1>2, <1>5, RepairKeeps
<1>6. CASE mmu' = minemu_mmu_tlbiall(mmu) /\ MoveReturn(4)
  <2>1. PICK m : m = mmu
    OBVIOUS
  <2> QED
    BY <1>1, <1>2, <1>6, <2>1, RepairKeeps
<1> QED
  BY <1>4, <1>5, <1>6

\* abort_dispatch of headless/exceptions when user code touched a device: the
\* tables stay, and the access is stepped over.
LEMMA DeviceKeeps ==
  ASSUME IInv, CaseInv, program = "exceptions", Dispatching("data_abort"), Ended, MoveReturn(4), UNCHANGED mmu
  PROVE  IInv' /\ CaseInv'
<1>1. IInv' /\ Handled(4)
  BY MovedReturn
<1>2. outcome = "running" /\ stopped # <<>> /\ pc = DISPATCH /\ Kind = "data_abort"
  BY DoneFacts
<1>3. Shape(mmu) /\ \E n \in Nat : AtStatement(n)
  BY <1>2, HandlingFacts
<1>4. PICK n \in Nat : AtStatement(n)
  BY <1>3
<1>5. PICK k \in Nat :
         /\ k = Len(Program) /\ \A i \in 1 .. k : Sound(Program[i], i, Dirty)
         /\ Program[k].op \notin DataOps
  BY Text
<1>6. Program[n].op \in DataOps /\ n \in 1 .. k
  BY <1>2, <1>4, <1>5 DEF AtStatement, Aborted
<1>7. n # Len(Program)
  BY <1>5, <1>6
<1>8. n + 1 \notin Dirty => Coherent(mmu)
  BY <1>4, <1>5, <1>6 DEF Sound, AtStatement, DataOps
<1>9. Shape(mmu') /\ (n + 1 \notin Dirty => Coherent(mmu)')
  BY <1>3, <1>8 DEF Coherent, Walk
<1> QED
  BY <1>1, <1>4, <1>7, <1>9, OverKeeps

\* abort_dispatch of headless/exceptions.
LEMMA ExceptionsDispatchKeeps ==
  ASSUME IInv, CaseInv, program = "exceptions", exceptions_abort_dispatch
  PROVE  IInv' /\ CaseInv'
<1>1. PICK k \in {"data_abort", "prefetch_abort"} : Dispatching(k)
  BY DEF exceptions_abort_dispatch
<1>2. Ended
  BY DEF exceptions_abort_dispatch, exceptions_abort_repair, DeviceAbort, Repair, Done, Ended
<1>3. CASE IsDeviceAbort
  <2>1. k = "data_abort"
    BY <1>1, <1>3 DEF IsDeviceAbort, Dispatching
  <2>2. MoveReturn(4) /\ UNCHANGED mmu
    BY <1>3 DEF exceptions_abort_dispatch
  <2> QED
    BY <1>1, <1>2, <2>1, <2>2, DeviceKeeps
<1>4. CASE ~IsDeviceAbort
  <2>1. MoveReturn(0) /\ \E ok : exceptions_abort_repair(ok)
    BY <1>4 DEF exceptions_abort_dispatch
  <2>2. PICK m : (m = mmu \/ EditOf(mmu, m)) /\ mmu' = minemu_mmu_tlbiall(m)
    <3>1. CASE stage.abort = 1
      <4>1. mmu' = minemu_mmu_tlbiall([mmu EXCEPT !.table["table_a"] = Pte("data_page", {"R", "W"}, 0)])
        BY <2>1, <3>1 DEF exceptions_abort_repair, Repair
      <4> QED
        BY <4>1 DEF EditOf
    <3>2. ASSUME NEW p, NEW flag PROVE EditOf(mmu, DirectGranted(p, flag))
      <4>1. \E e : DirectGranted(p, flag) = [mmu EXCEPT !.pte[p] = e]
        BY DEF DirectGranted
      <4> QED
        BY <4>1 DEF EditOf
    <3>3. CASE stage.abort = 2
      <4>1. mmu' = minemu_mmu_tlbiall(DirectGranted(PREFETCH_PROBE, "X"))
        BY <2>1, <3>3 DEF exceptions_abort_repair, Repair
      <4> QED
        BY <3>2, <4>1
    <3>4. CASE stage.abort = 3
      <4>1. mmu' = minemu_mmu_tlbiall(DirectGranted(USER_PROBE, "U"))
        BY <2>1, <3>4 DEF exceptions_abort_repair, Repair
      <4> QED
        BY <3>2, <4>1
    <3>5. CASE stage.abort # 1 /\ stage.abort # 2 /\ stage.abort # 3
      BY <2>1, <3>5 DEF exceptions_abort_repair, Repair
    <3> QED
      BY <3>1, <3>3, <3>4, <3>5
  <2> QED
    BY <1>1, <1>2, <2>1, <2>2, RepairKeeps
<1> QED
  BY <1>3, <1>4

\* A dispatch that leaves the tables and the place of the program alone.
LEMMA SameKeeps ==
  ASSUME IInv, CaseInv, Handled(0), UNCHANGED mmu
  PROVE  CaseInv'
<1>1. Shape(mmu) /\ \E n \in Nat : AtStatement(n)
  BY HandlingFacts DEF Handled
<1>2. PICK n \in Nat : AtStatement(n)
  BY <1>1
<1>3. Shape(mmu') /\ (n \notin Dirty => Coherent(mmu)') /\ (n = 1 => Empty(mmu)')
  BY <1>1, <1>2 DEF AtStatement, Coherent, Empty, Walk
<1> QED
  BY <1>2, <1>3, AgainKeeps

\* The SVC dispatch of headless/exceptions.
LEMMA SvcKeeps == ASSUME IInv, CaseInv, minemu_svc_dispatch PROVE IInv' /\ CaseInv'
<1>1. Dispatching("svc") /\ Ended /\ UNCHANGED mmu
  BY DEF minemu_svc_dispatch, Done, Ended
<1>2. IInv' /\ Handled(0)
  <2>1. CASE ModeOf(Word(56)) = USR
    <3>1. PICK a \in Int : a = SVC - USR
      BY DEF SVC, USR
    <3>2. MoveMode(a)
      BY <2>1, <3>1 DEF minemu_svc_dispatch
    <3> QED
      BY <1>1, <2>1, <3>1, <3>2, MovedMode
  <2>2. CASE ModeOf(Word(56)) # USR
    <3>1. MoveMode(0)
      BY <2>2 DEF minemu_svc_dispatch
    <3> QED
      BY <1>1, <3>1, MovedMode
  <2> QED
    BY <2>1, <2>2
<1> QED
  BY <1>1, <1>2, SameKeeps

\* The dispatches of undefined instructions and of the timer.
LEMMA UndefinedIrqKeeps ==
  ASSUME IInv, CaseInv, minemu_undefined_dispatch \/ minemu_irq_dispatch
  PROVE  IInv' /\ CaseInv'
<1>1. /\ Ended /\ UNCHANGED <<stack, stopped, mmu>>
      /\ Dispatching("undefined") \/ Dispatching("irq")
  BY DEF minemu_undefined_dispatch, minemu_irq_dispatch, Done, Ended
<1>2. IInv' /\ Handled(0)
  BY <1>1, MovedNothing
<1> QED
  BY <1>1, <1>2, SameKeeps

-----------------------------------------------------------------------------
(* The theorems                                                            *)

\* Steps that change neither the CPU nor the MMU.
LEMMA StutterKeeps ==
  ASSUME IInv, CaseInv, UNCHANGED <<vars, program, outcome, mmu>>
  PROVE  IInv' /\ CaseInv'
<1>1. IInv'
  BY Frame DEF vars, banks
<1>2. UNCHANGED <<pc, entering, stopped>>
  BY DEF vars
<1>3. Program' = Program /\ Dirty' = Dirty /\ Kind' = Kind /\ MainAt' = MainAt
  BY <1>2 DEF Program, Dirty, Kind, MainAt
<1>4. ASSUME NEW n \in Nat, AtStatement(n) PROVE AtStatement(n)'
  BY <1>2, <1>3, <1>4 DEF AtStatement, Aborted, Coherent, Empty, Walk
<1>5. CaseInv'
  BY <1>2, <1>4 DEF CaseInv, Shape
<1> QED
  BY <1>1, <1>5

\* Every step keeps both invariants.
LEMMA CaseNextInv == ASSUME IInv, CaseInv, [CaseNext]_caseVars PROVE IInv' /\ CaseInv'
<1>1. CASE Prefetch \/ DataAbort \/ Trap \/ TakeIrq
  BY <1>1, PrefetchKeeps, DataAbortKeeps, TrapKeeps, TakeIrqKeeps
<1>2. CASE Access \/ EditTables
  BY <1>2, AccessKeeps, EditTablesKeeps, StatementInv
<1>3. CASE Store \/ Check \/ Systick
  BY <1>3, QuietKeeps, StatementInv
<1>4. CASE ChangeMode
  BY <1>4, QuietKeeps, ChangeModeInv
<1>5. CASE Trampoline \/ Return
  BY <1>5, TrampolineKeeps, ReturnKeeps
<1>6. CASE Dispatch
  BY <1>6, MmuDispatchKeeps, ExceptionsDispatchKeeps, SvcKeeps, UndefinedIrqKeeps DEF Dispatch
<1>7. CASE Expire \/ Spin \/ UNCHANGED caseVars
  BY <1>7, StutterKeeps DEF Expire, Spin, caseVars
<1> QED
  BY <1>1, <1>2, <1>3, <1>4, <1>5, <1>6, <1>7 DEF CaseNext, Cpu

\* Both invariants hold in every reachable state of the programs.
THEOREM CaseInvariant == CaseSpec => [](IInv /\ CaseInv)
<1>1. CaseInit => IInv /\ CaseInv
  BY CaseInitInv
<1>2. (IInv /\ CaseInv) /\ [CaseNext]_caseVars => (IInv /\ CaseInv)'
  BY CaseNextInv
<1> QED
  BY <1>1, <1>2, PTL DEF CaseSpec

\* Every access of headless/mmu, ttbr-switch and exceptions is made through the
\* entry that the tables hold, whatever the TLB remembers of refused accesses
\* and whenever the timer interrupts, but for the read of line 38 of
\* ttbr-switch: each edit of a table, those of the dispatches included, is
\* followed by a TLBIALL before a page is used again.
THEOREM AccessesFresh == CaseSpec => []FreshTranslation
<1>1. CaseInv => FreshTranslation
  BY FreshNow
<1> QED
  BY <1>1, CaseInvariant, PTL

\* The dispatches of the headless programs find, at the very top of the stack
\* of their mode, a frame that tells what happened.
THEOREM CaseFrames == CaseSpec => [](StacksExact /\ FrameTells)
<1>1. IInv => StacksExact /\ FrameTells
  BY StacksNow, FrameNow
<1> QED
  BY <1>1, CaseInvariant, PTL

\* Only the return of a dispatch takes an exception off the stopped ones.
LEMMA OnlyReturn ==
  ASSUME IInv, CaseInv, CaseNext, Len(stopped') < Len(stopped)
  PROVE  Restore
<1>1. Len(stopped) \in Nat /\ stopped # stopped'
  BY StoppedModes DEF IInv
<1>2. CASE Prefetch \/ DataAbort \/ Trap \/ TakeIrq
  <2>1. stopped = <<>>
    BY <1>2 DEF Prefetch, DataAbort, Trap, TakeIrq, DataAccess, Execute, InMain
  <2>2. Len(stopped) = 0 /\ Len(stopped') \in Nat
    BY <1>2, <2>1, PrefetchKeeps, DataAbortKeeps, TrapKeeps, TakeIrqKeeps, StoppedModes DEF IInv, Typed
  <2> QED
    BY <2>2
<1>3. CASE Access \/ EditTables \/ Store \/ Check \/ Systick \/ ChangeMode
  BY <1>1, <1>3 DEF Access, EditTables, Store, Check, Systick, ChangeMode, cpuVars
<1>4. CASE Trampoline
  BY <1>1, <1>4 DEF Trampoline, Save
<1>5. CASE Return
  BY <1>5 DEF Return
<1>6. CASE Dispatch
  <2>1. outcome = "running" /\ stopped # <<>> /\ \E e : stopped' = [stopped EXCEPT ![Len(stopped)] = e]
    <3>1. CASE program = "mmu" /\ mmu_abort_dispatch
      BY <3>1 DEF mmu_abort_dispatch, Dispatching, MoveReturn
    <3>2. CASE program = "exceptions" /\ exceptions_abort_dispatch
      BY <3>2 DEF exceptions_abort_dispatch, Dispatching, MoveReturn
    <3>3. CASE minemu_svc_dispatch
      BY <3>3 DEF minemu_svc_dispatch, Dispatching, MoveMode
    <3>4. CASE minemu_undefined_dispatch \/ minemu_irq_dispatch
      BY <1>1, <3>4 DEF minemu_undefined_dispatch, minemu_irq_dispatch
    <3> QED
      BY <1>6, <3>1, <3>2, <3>3, <3>4 DEF Dispatch
  <2>2. PICK q, s : q = stopped /\ s = stopped' /\ q \in Seq(Stopped)
    BY DEF IInv, Typed
  <2>3. PICK e : s = [q EXCEPT ![Len(q)] = e]
    BY <2>1, <2>2
  <2>4. DOMAIN s = DOMAIN q
    BY <2>3
  <2>5. Len(s) = Len(q)
    <3>1. s \in Seq(Stopped)
      BY <1>6, <2>2, CaseNextInv DEF IInv, Typed, CaseNext, Cpu
    <3> QED
      BY <2>2, <2>4, <3>1
  <2> QED
    BY <1>1, <2>2, <2>5
<1>7. CASE Expire \/ Spin
  BY <1>1, <1>7 DEF Expire, Spin, caseVars, vars
<1> QED
  BY <1>2, <1>3, <1>4, <1>5, <1>6, <1>7 DEF CaseNext, Cpu

\* The headless programs go on after an exception with the registers and the
\* status they were stopped with, at the place their dispatch chose.
THEOREM CaseResumes == CaseSpec => ResumedIntact
<1>1. IInv /\ CaseInv /\ [CaseNext]_caseVars =>
        [Len(stopped') < Len(stopped) =>
           LET c == Last(stopped)
           IN  /\ pc' = c.pc /\ r' = c.r /\ user' = c.user /\ cpsr' = c.status
               /\ c.lr # 0 => lr'[ModeOf(c.status)] = c.lr]_vars
  BY OnlyReturn, Resumes DEF caseVars
<1> QED
  BY <1>1, CaseInvariant, PTL DEF CaseSpec, ResumedIntact
=============================================================================
