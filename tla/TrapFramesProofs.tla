-------------------------- MODULE TrapFramesProofs --------------------------
(***************************************************************************)
(* Proofs about the exception entries for every number of nested           *)
(* exceptions the modes allow, whatever the stopped code computes.         *)
(***************************************************************************)
EXTENDS TrapFrames, SequenceTheorems, TLAPS

-----------------------------------------------------------------------------
(* The inductive invariant                                                 *)

Statuses == {m + b : m \in ExceptionModes \cup {USR}, b \in {0, I_BIT}}
Stack    == [1 .. StackWords -> Int]
Stopped  == [kind : Kinds, at : Int, pc : Int, r : [1 .. 13 -> Int], user : Int \X Int,
             status : Statuses, lr : Int, fault : Int \X Int]

Typed ==
  /\ cpsr \in Statuses /\ pc \in Int
  /\ r \in [1 .. 13 -> Int] /\ user \in Int \X Int
  /\ sp \in [ExceptionModes -> Int] /\ lr \in [ExceptionModes -> Int] /\ spsr \in [ExceptionModes -> Statuses]
  /\ stack \in [ExceptionModes -> Stack]
  /\ dfsr \in Int /\ dfar \in Int
  /\ entering \in BOOLEAN
  /\ stopped \in Seq(Stopped)
  /\ entering => stopped # <<>>

ModeAt(n) == Entries[stopped[n].kind].mode

\* The exceptions whose frame is on the stack: all but the one being entered.
Settled(n) == n \in DOMAIN stopped /\ ~(entering /\ n = Len(stopped))

\* No mode is stopped twice, and what was stopped is the code of the kernel or
\* of the user, or the dispatch of an exception further out.
Nested ==
  /\ \A i, j \in DOMAIN stopped : ModeAt(i) = ModeAt(j) => i = j
  /\ \A i \in DOMAIN stopped :
       ModeOf(stopped[i].status) \in {USR, SVC} \cup {ModeAt(j) : j \in 1 .. i - 1}
  /\ ModeOf(cpsr) \in {USR, SVC} \cup {ModeAt(j) : j \in DOMAIN stopped}

\* The frame of a stopped context c on the stack w of its mode.
FrameHolds(c, w) ==
  /\ \A k \in 1 .. 13 : w[FrameWords + k] = c.r[k]
  /\ w[FrameWords + 14] = c.pc + Entries[c.kind].ret
  /\ w[FrameWords + 15] = c.status /\ w[FrameWords + 16] = Entries[c.kind].id /\ w[FrameWords + 17] = c.at
  /\ w[FrameWords + 18] = c.fault[1] /\ w[FrameWords + 19] = c.fault[2]
  /\ w[FrameWords + 20] = c.user[1] /\ w[FrameWords + 21] = c.user[2]
  /\ w[FrameWords + 22] = 0

FramesKept == \A n \in DOMAIN stopped : Settled(n) => FrameHolds(stopped[n], stack[ModeAt(n)])

StacksKept ==
  \A m \in ExceptionModes :
    sp[m] = IF \E n \in DOMAIN stopped : Settled(n) /\ ModeAt(n) = m THEN FrameWords ELSE StackWords

\* The lr of stopped code is still in the bank of its mode.
LinksKept ==
  \A n \in DOMAIN stopped : stopped[n].lr # 0 =>
    LET m == ModeOf(stopped[n].status)
    IN  /\ m \in ExceptionModes /\ lr[m] = stopped[n].lr
        /\ \A k \in DOMAIN stopped : k >= n => ModeAt(k) # m

\* At the vector the CPU still holds what the frame has to save.
AtVector ==
  entering =>
    LET c == stopped[Len(stopped)]
        e == Entries[c.kind]
    IN  /\ r = c.r /\ user = c.user
        /\ lr[e.mode] = c.pc + e.ret /\ lr[e.mode] - e.back = c.at /\ spsr[e.mode] = c.status
        /\ c.fault = IF e.fault THEN <<dfsr, dfar>> ELSE <<0, 0>>

IInv == Typed /\ Nested /\ FramesKept /\ StacksKept /\ LinksKept /\ AtVector

-----------------------------------------------------------------------------
(* Modes and entries                                                       *)

\* The fault_pc and the return address of an entry fit what the architecture
\* puts into lr.
LEMMA EntryFacts ==
  ASSUME NEW k \in Kinds
  PROVE  /\ Entries[k].mode \in ExceptionModes
         /\ Entries[k].ret \in Int /\ Entries[k].id \in Int /\ Entries[k].back \in Int /\ Entries[k].fault \in BOOLEAN
         /\ LinkOffset(k) \in Int /\ Entries[k].back = LinkOffset(k)
         /\ LinkOffset(k) = IF k \in {"svc", "undefined"} THEN 4 + Entries[k].ret ELSE Entries[k].ret
         /\ Entries[k].mode = SVC => k = "svc"
<1>1. k = "undefined" \/ k = "svc" \/ k = "prefetch_abort" \/ k = "data_abort" \/ k = "irq"
  BY DEF Kinds
<1>2. /\ Entries["undefined"] = minemu_undefined_entry /\ Entries["svc"] = minemu_svc_trampoline
      /\ Entries["prefetch_abort"] = minemu_prefetch_abort_entry
      /\ Entries["data_abort"] = minemu_data_abort_entry /\ Entries["irq"] = minemu_irq_trampoline
  BY DEF Entries
<1>3. CASE k = "undefined"
  <2>1. /\ Entries[k].mode = UND /\ Entries[k].id = -4 /\ Entries[k].back = 4 /\ Entries[k].ret = 0
        /\ Entries[k].fault = FALSE
    BY <1>2, <1>3 DEF minemu_undefined_entry, EntryCode
  <2>2. Entries[k].fault \in BOOLEAN
    BY <2>1, Zenon
  <2> QED
    BY <1>3, <2>1, <2>2 DEF ExceptionModes, IRQ, SVC, ABT, UND, LinkOffset
<1>4. CASE k = "svc"
  <2>1. /\ Entries[k].mode = SVC /\ Entries[k].id = -3 /\ Entries[k].back = 4 /\ Entries[k].ret = 0
        /\ Entries[k].fault = FALSE
    BY <1>2, <1>4 DEF minemu_svc_trampoline, EntryCode
  <2>2. Entries[k].fault \in BOOLEAN
    BY <2>1, Zenon
  <2> QED
    BY <1>4, <2>1, <2>2 DEF ExceptionModes, IRQ, SVC, ABT, UND, LinkOffset
<1>5. CASE k = "prefetch_abort"
  <2>1. /\ Entries[k].mode = ABT /\ Entries[k].id = -2 /\ Entries[k].back = 4 /\ Entries[k].ret = 4
        /\ Entries[k].fault = TRUE
    BY <1>2, <1>5 DEF minemu_prefetch_abort_entry, EntryCode
  <2>2. Entries[k].fault \in BOOLEAN
    BY <2>1, Zenon
  <2> QED
    BY <1>5, <2>1, <2>2 DEF ExceptionModes, IRQ, SVC, ABT, UND, LinkOffset
<1>6. CASE k = "data_abort"
  <2>1. /\ Entries[k].mode = ABT /\ Entries[k].id = -1 /\ Entries[k].back = 8 /\ Entries[k].ret = 8
        /\ Entries[k].fault = TRUE
    BY <1>2, <1>6 DEF minemu_data_abort_entry, EntryCode
  <2>2. Entries[k].fault \in BOOLEAN
    BY <2>1, Zenon
  <2> QED
    BY <1>6, <2>1, <2>2 DEF ExceptionModes, IRQ, SVC, ABT, UND, LinkOffset
<1>7. CASE k = "irq"
  <2>1. /\ Entries[k].mode = IRQ /\ Entries[k].id = 0 /\ Entries[k].back = 4 /\ Entries[k].ret = 4
        /\ Entries[k].fault = FALSE
    BY <1>2, <1>7 DEF minemu_irq_trampoline, EntryCode
  <2>2. Entries[k].fault \in BOOLEAN
    BY <2>1, Zenon
  <2> QED
    BY <1>7, <2>1, <2>2 DEF ExceptionModes, IRQ, SVC, ABT, UND, LinkOffset
<1> QED
  BY <1>1, <1>3, <1>4, <1>5, <1>6, <1>7

\* The mode field of the statuses that occur.
LEMMA ModeFacts ==
  /\ \A m \in ExceptionModes : m + I_BIT \in Statuses /\ ModeOf(m + I_BIT) = m
  /\ \A s \in Statuses : s \in Int /\ (ModeOf(s) = USR => s + (SVC - USR) \in Statuses /\ ModeOf(s + (SVC - USR)) = SVC)
  /\ USR \notin ExceptionModes
  BY DEF Statuses, ExceptionModes, ModeOf, USR, IRQ, SVC, ABT, UND, I_BIT

\* The fields of a stopped context.
LEMMA StoppedFacts ==
  ASSUME NEW c \in Stopped
  PROVE  /\ c.kind \in Kinds /\ c.at \in Int /\ c.pc \in Int /\ c.r \in [1 .. 13 -> Int] /\ c.status \in Statuses
         /\ c.user \in Int \X Int /\ c.lr \in Int /\ c.fault \in Int \X Int
  BY DEF Stopped

\* The exceptions that are stopped, and their modes.
LEMMA StoppedModes ==
  ASSUME Typed
  PROVE  /\ Len(stopped) \in Nat /\ DOMAIN stopped = 1 .. Len(stopped)
         /\ \A i \in DOMAIN stopped : stopped[i] \in Stopped /\ stopped[i].kind \in Kinds /\ ModeAt(i) \in ExceptionModes
         /\ stopped # <<>> => /\ Len(stopped) \in DOMAIN stopped /\ Len(stopped) >= 1
                              /\ Last(stopped) = stopped[Len(stopped)]
                              /\ Kind = stopped[Len(stopped)].kind /\ Entry = Entries[Kind]
                              /\ Mode = ModeAt(Len(stopped))
<1>1. stopped \in Seq(Stopped)
  BY DEF Typed
<1>2. Len(stopped) \in Nat /\ DOMAIN stopped = 1 .. Len(stopped) /\ (stopped # <<>> => Len(stopped) >= 1)
  BY <1>1
<1>3. \A i \in DOMAIN stopped : stopped[i] \in Stopped
  BY <1>1
<1>4. \A i \in DOMAIN stopped : stopped[i].kind \in Kinds /\ ModeAt(i) \in ExceptionModes
  BY <1>3, StoppedFacts, EntryFacts DEF ModeAt
<1>5. Last(stopped) = stopped[Len(stopped)]
  BY DEF Last
<1> QED
  BY <1>2, <1>3, <1>4, <1>5 DEF Kind, Entry, Mode, ModeAt

-----------------------------------------------------------------------------
(* Steps of the stopped code, and exceptions                               *)

\* Nothing is stopped and every stack is empty.
LEMMA InitInv == Init => IInv
<1> SUFFICES ASSUME Init PROVE IInv
  OBVIOUS
<1>1. Typed
  <2>1. /\ cpsr \in Statuses /\ USR \in Statuses
    BY DEF Init, Statuses, ExceptionModes, USR, SVC, IRQ, ABT, UND, I_BIT
  <2>2. pc \in Int
    <3>1. \A a \in CodeAddrs : a \in Int
      BY TrapAssumption
    <3> QED
      BY <3>1 DEF Init
  <2>3. r \in [1 .. 13 -> Int] /\ user \in Int \X Int /\ StackWords \in Int
    BY DEF Init, Fill, StackWords, FrameWords
  <2>4. stopped \in Seq(Stopped)
    BY DEF Init
  <2> QED
    BY <2>1, <2>2, <2>3, <2>4 DEF Init, Typed, Stack
<1>2. DOMAIN stopped = {} /\ ~entering
  BY DEF Init
<1>3. Nested
  <2>1. ModeOf(USR) = USR /\ ModeOf(SVC) = SVC /\ ModeOf(SVC + I_BIT) = SVC
    BY DEF ModeOf, USR, SVC, I_BIT
  <2>2. cpsr = USR \/ cpsr = SVC \/ cpsr = SVC + I_BIT
    BY DEF Init
  <2>3. ModeOf(cpsr) \in {USR, SVC}
    BY <2>1, <2>2
  <2> QED
    BY <1>2, <2>3 DEF Nested
<1>4. StacksKept
  BY <1>2 DEF Init, StacksKept
<1> QED
  BY <1>1, <1>2, <1>3, <1>4 DEF IInv, FramesKept, LinksKept, AtVector

\* The invariant says nothing of the registers of code that runs.
LEMMA Frame ==
  ASSUME IInv, UNCHANGED <<cpsr, sp, lr, spsr, stack, dfsr, dfar, entering, stopped>>,
         \/ ~entering /\ pc' \in Int /\ r' \in [1 .. 13 -> Int] /\ user' \in Int \X Int
         \/ UNCHANGED <<pc, r, user>>
  PROVE  IInv'
<1>1. Typed'
  BY DEF IInv, Typed
<1>2. (\A i : ModeAt(i)' = ModeAt(i)) /\ (\A i : Settled(i)' <=> Settled(i))
  BY DEF ModeAt, Settled
<1>3. Nested' /\ FramesKept' /\ StacksKept' /\ LinksKept'
  BY <1>2 DEF IInv, Nested, FramesKept, StacksKept, LinksKept
<1>4. AtVector'
  BY DEF IInv, AtVector
<1> QED
  BY <1>1, <1>3, <1>4 DEF IInv

\* Ordinary code changes no frame and no exception bank.
LEMMA WorkInv == ASSUME IInv, NEW v \in Values, NEW a \in CodeAddrs, Work(v, a) PROVE IInv'
<1>1. v \in Nat /\ a \in Int
  BY TrapAssumption
<1>2. r' \in [1 .. 13 -> Int] /\ user' \in Int \X Int /\ pc' \in Int
  BY <1>1 DEF Work, Fill
<1> QED
  BY <1>2, Frame DEF Work, banks

\* The sequence of the stopped contexts with one more.
LEMMA AppendFacts ==
  ASSUME NEW S, NEW q \in Seq(S), NEW x \in S
  PROVE  /\ Append(q, x) \in Seq(S) /\ Len(Append(q, x)) = Len(q) + 1
         /\ DOMAIN Append(q, x) = 1 .. Len(q) + 1
         /\ \A i \in 1 .. Len(q) : Append(q, x)[i] = q[i]
         /\ Append(q, x)[Len(q) + 1] = x
  OBVIOUS

\* An exception of mode m stops the code with context c: what Raise does,
\* word by word.
Raised(n, c, m) ==
  /\ ~entering /\ entering' = TRUE /\ cpsr' = m + I_BIT
  /\ DOMAIN stopped = 1 .. n
  /\ stopped' \in Seq(Stopped) /\ Len(stopped') = n + 1 /\ DOMAIN stopped' = 1 .. n + 1
  /\ \A i \in 1 .. n : stopped'[i] = stopped[i]
  /\ stopped'[n + 1] = c
  /\ Entries[c.kind].mode = m
  /\ \A i \in 1 .. n : ModeAt(i) # m /\ ModeOf(stopped[i].status) # m
  /\ lr' \in [ExceptionModes -> Int] /\ spsr' \in [ExceptionModes -> Statuses]
  /\ \A x \in ExceptionModes \ {m} : lr'[x] = lr[x]
  /\ dfsr' \in Int /\ dfar' \in Int
  /\ c.status = cpsr /\ c.r = r /\ c.user = user
  /\ c.lr # 0 => ModeOf(cpsr) \in ExceptionModes \ {m} /\ c.lr = lr[ModeOf(cpsr)]
  /\ lr'[m] = c.pc + Entries[c.kind].ret /\ lr'[m] - Entries[c.kind].back = c.at
  /\ spsr'[m] = c.status
  /\ c.fault = IF Entries[c.kind].fault THEN <<dfsr', dfar'>> ELSE <<0, 0>>
  /\ UNCHANGED <<pc, r, user, sp, stack>>

\* The CPU at the vector satisfies IInv.
LEMMA RaisedInv ==
  ASSUME IInv, NEW n \in Nat, NEW c \in Stopped, NEW m \in ExceptionModes, Raised(n, c, m)
  PROVE  IInv'
<1> USE DEF Raised
<1>1. Typed'
  <2>1. cpsr' \in Statuses /\ entering' \in BOOLEAN
    BY ModeFacts
  <2>2. stopped' # <<>>
    OBVIOUS
  <2> QED
    BY <2>1, <2>2 DEF IInv, Typed
<1>2. \A i \in 1 .. n + 1 : i \in 1 .. n \/ i = n + 1
  OBVIOUS
<1>3. /\ \A i \in 1 .. n : ModeAt(i)' = ModeAt(i)
      /\ ModeAt(n + 1)' = m
  BY DEF ModeAt
<1>4. /\ \A i \in 1 .. n : Settled(i)' /\ Settled(i)
      /\ ~Settled(n + 1)'
  BY DEF Settled
<1>5. Nested'
  <2>1. ASSUME NEW i \in 1 .. n + 1, NEW j \in 1 .. n + 1, ModeAt(i)' = ModeAt(j)' PROVE i = j
    <3>1. i \in 1 .. n /\ j \in 1 .. n => (ModeAt(i) = ModeAt(j) => i = j)
      BY DEF IInv, Nested
    <3> QED
      BY <1>2, <1>3, <2>1, <3>1
  <2>2. ASSUME NEW i \in 1 .. n + 1
        PROVE  ModeOf(stopped'[i].status) \in {USR, SVC} \cup {ModeAt(j)' : j \in 1 .. i - 1}
    <3>1. CASE i \in 1 .. n
      <4>1. ModeOf(stopped[i].status) \in {USR, SVC} \cup {ModeAt(j) : j \in 1 .. i - 1}
        BY <3>1 DEF IInv, Nested
      <4>2. \A j \in 1 .. i - 1 : ModeAt(j)' = ModeAt(j)
        BY <1>3, <3>1
      <4> QED
        BY <3>1, <4>1, <4>2
    <3>2. CASE i = n + 1
      <4>1. ModeOf(cpsr) \in {USR, SVC} \cup {ModeAt(j) : j \in 1 .. n}
        BY DEF IInv, Nested
      <4>2. i - 1 = n
        BY <3>2
      <4> QED
        BY <1>3, <3>2, <4>1, <4>2
    <3> QED
      BY <1>2, <3>1, <3>2
  <2>3. ModeOf(cpsr') \in {USR, SVC} \cup {ModeAt(j)' : j \in 1 .. n + 1}
    <3>1. ModeOf(cpsr') = m /\ n + 1 \in 1 .. n + 1
      BY ModeFacts
    <3> QED
      BY <1>3, <3>1
  <2> QED
    BY <2>1, <2>2, <2>3 DEF Nested
<1>6. FramesKept'
  <2> SUFFICES ASSUME NEW i \in DOMAIN stopped', Settled(i)'
               PROVE  FrameHolds(stopped'[i], stack'[ModeAt(i)'])
    BY DEF FramesKept
  <2>1. i \in 1 .. n
    BY <1>2, <1>4
  <2>2. FrameHolds(stopped[i], stack[ModeAt(i)])
    BY <1>4, <2>1 DEF IInv, FramesKept
  <2> QED
    BY <1>3, <2>1, <2>2
<1>7. StacksKept'
  <2>1. \A x : (\E i \in 1 .. n + 1 : Settled(i)' /\ ModeAt(i)' = x) <=> \E i \in 1 .. n : Settled(i) /\ ModeAt(i) = x
    BY <1>2, <1>3, <1>4
  <2> SUFFICES ASSUME NEW x \in ExceptionModes
               PROVE  sp'[x] = IF \E i \in DOMAIN stopped' : Settled(i)' /\ ModeAt(i)' = x THEN FrameWords ELSE StackWords
    BY DEF StacksKept
  <2>2. sp[x] = IF \E i \in 1 .. n : Settled(i) /\ ModeAt(i) = x THEN FrameWords ELSE StackWords
    BY DEF IInv, StacksKept
  <2> QED
    BY <2>1, <2>2
<1>8. LinksKept'
  <2> SUFFICES ASSUME NEW i \in 1 .. n + 1, stopped'[i].lr # 0
               PROVE  /\ ModeOf(stopped'[i].status) \in ExceptionModes
                      /\ lr'[ModeOf(stopped'[i].status)] = stopped'[i].lr
                      /\ \A k \in 1 .. n + 1 : k >= i => ModeAt(k)' # ModeOf(stopped'[i].status)
    BY DEF LinksKept
  <2>1. CASE i \in 1 .. n
    <3>1. /\ ModeOf(stopped[i].status) \in ExceptionModes /\ lr[ModeOf(stopped[i].status)] = stopped[i].lr
          /\ \A k \in 1 .. n : k >= i => ModeAt(k) # ModeOf(stopped[i].status)
      BY <2>1 DEF IInv, LinksKept
    <3>2. PICK x \in ExceptionModes \ {m} : x = ModeOf(stopped[i].status)
      BY <2>1, <3>1
    <3>3. lr'[x] = stopped[i].lr /\ stopped'[i] = stopped[i]
      BY <2>1, <3>1, <3>2
    <3>4. \A j \in 1 .. n + 1 : j >= i => ModeAt(j)' # x
      BY <1>2, <1>3, <3>1, <3>2
    <3> QED
      BY <3>2, <3>3, <3>4
  <2>2. CASE i = n + 1
    <3>1. \A j \in 1 .. n + 1 : j >= i => ModeAt(j)' = m
      BY <1>2, <1>3, <2>2
    <3> QED
      BY <2>2, <3>1
  <2> QED
    BY <1>2, <2>1, <2>2
<1>9. AtVector'
  BY DEF AtVector
<1> QED
  BY <1>1, <1>5, <1>6, <1>7, <1>8, <1>9 DEF IInv

\* A mode that Raise may enter is not the mode of any code that is stopped.
LEMMA ModeFree ==
  ASSUME IInv, NEW k \in Kinds, k = "svc" => stopped = <<>>,
         k # "svc" => ModeOf(cpsr) # Entries[k].mode /\ \A n \in DOMAIN stopped : Entries[stopped[n].kind].mode # Entries[k].mode,
         NEW i \in DOMAIN stopped
  PROVE  ModeAt(i) # Entries[k].mode /\ ModeOf(stopped[i].status) # Entries[k].mode
<1>1. k # "svc"
  BY StoppedModes DEF IInv
<1>2. \A j \in DOMAIN stopped : ModeAt(j) # Entries[k].mode
  BY <1>1 DEF ModeAt
<1>3. Entries[k].mode # SVC /\ Entries[k].mode # USR
  BY <1>1, EntryFacts, ModeFacts
<1>4. \A j \in 1 .. i - 1 : j \in DOMAIN stopped
  BY StoppedModes DEF IInv
<1>5. ModeOf(stopped[i].status) \in {USR, SVC} \cup {ModeAt(j) : j \in 1 .. i - 1}
  BY DEF IInv, Nested
<1> QED
  BY <1>2, <1>3, <1>4, <1>5

\* Every exception the CPU takes is a step Raised.
LEMMA RaiseInv ==
  ASSUME IInv, NEW k \in Kinds, NEW status \in Int, NEW address \in Int, Raise(k, status, address)
  PROVE  IInv'
<1> DEFINE m == Entries[k].mode
           f == IF Entries[k].fault THEN <<status, address>> ELSE <<0, 0>>
           l == IF ModeOf(cpsr) \in ExceptionModes \ {m} THEN lr[ModeOf(cpsr)] ELSE 0
           c == [kind |-> k, at |-> pc, pc |-> ResumeAt(k), r |-> r, user |-> user, status |-> cpsr, lr |-> l, fault |-> f]
<1>1. m \in ExceptionModes
  BY EntryFacts
<1>2. /\ cpsr \in Statuses /\ pc \in Int /\ r \in [1 .. 13 -> Int] /\ user \in Int \X Int
      /\ lr \in [ExceptionModes -> Int] /\ spsr \in [ExceptionModes -> Statuses] /\ stopped \in Seq(Stopped)
      /\ dfsr \in Int /\ dfar \in Int
  BY DEF IInv, Typed
<1>3. PICK ret \in Int, o \in Int :
        /\ ret = Entries[k].ret /\ o = LinkOffset(k) /\ Entries[k].back = o
        /\ o = IF k \in {"svc", "undefined"} THEN 4 + ret ELSE ret
  BY EntryFacts
<1>4. PICK at \in Int, link \in Int : at = pc /\ link = at + o
  BY <1>2
<1>5. ResumeAt(k) \in Int /\ link = ResumeAt(k) + ret /\ link - o = at
  <2>1. CASE k \in {"svc", "undefined"}
    BY <1>3, <1>4, <2>1 DEF ResumeAt
  <2>2. CASE k \notin {"svc", "undefined"}
    BY <1>3, <1>4, <2>2 DEF ResumeAt
  <2> QED
    BY <2>1, <2>2
<1>6. l \in Int /\ f \in Int \X Int
  <2>1. l \in Int
    BY <1>2
  <2>2. <<status, address>> \in Int \X Int /\ <<0, 0>> \in Int \X Int
    OBVIOUS
  <2> QED
    BY <2>1, <2>2, Zenon
<1>7. c \in Stopped
  BY <1>2, <1>6, <1>5 DEF Stopped
<1>8. /\ c.kind = k /\ c.at = pc /\ c.pc = ResumeAt(k) /\ c.r = r /\ c.user = user /\ c.status = cpsr
      /\ c.lr = l /\ c.fault = f
  OBVIOUS
<1>9. /\ ~entering /\ entering' = TRUE /\ cpsr' = m + I_BIT /\ stopped' = Append(stopped, c)
      /\ lr' = [lr EXCEPT ![m] = pc + LinkOffset(k)] /\ spsr' = [spsr EXCEPT ![m] = cpsr]
      /\ UNCHANGED <<pc, r, user, sp, stack>>
  BY DEF Raise
<1>10. PICK n \in Nat : n = Len(stopped) /\ DOMAIN stopped = 1 .. n
  BY <1>2
<1>11. \A i \in DOMAIN stopped : ModeAt(i) # m /\ ModeOf(stopped[i].status) # m
  <2>1. /\ k = "svc" => stopped = <<>>
        /\ k # "svc" => ModeOf(cpsr) # m /\ \A j \in DOMAIN stopped : Entries[stopped[j].kind].mode # m
    BY DEF Raise
  <2> QED
    BY <2>1, ModeFree
<1>12. f = IF Entries[k].fault THEN <<dfsr', dfar'>> ELSE <<0, 0>>
  BY DEF Raise
<1>13. dfsr' \in Int /\ dfar' \in Int
  BY <1>2 DEF Raise
<1>14. l # 0 => ModeOf(cpsr) \in ExceptionModes \ {m} /\ l = lr[ModeOf(cpsr)]
  OBVIOUS
<1> HIDE DEF c, l, f, m
<1>15. /\ stopped' \in Seq(Stopped) /\ Len(stopped') = n + 1 /\ DOMAIN stopped' = 1 .. n + 1
       /\ \A i \in 1 .. n : stopped'[i] = stopped[i]
       /\ stopped'[n + 1] = c
  BY <1>2, <1>7, <1>9, <1>10, AppendFacts
<1>16. /\ lr' \in [ExceptionModes -> Int] /\ spsr' \in [ExceptionModes -> Statuses]
       /\ \A x \in ExceptionModes \ {m} : lr'[x] = lr[x]
       /\ lr'[m] = link /\ spsr'[m] = cpsr
  <2>1. lr' = [lr EXCEPT ![m] = link] /\ m \in ExceptionModes
    BY <1>1, <1>3, <1>4, <1>9 DEF m
  <2> QED
    BY <1>2, <1>9, <2>1
<1>17. /\ lr'[m] = c.pc + Entries[c.kind].ret /\ lr'[m] - Entries[c.kind].back = c.at /\ Entries[c.kind].mode = m
  BY <1>3, <1>4, <1>8, <1>16, <1>5 DEF m
<1>18. /\ \A i \in 1 .. n : ModeAt(i) # m /\ ModeOf(stopped[i].status) # m
       /\ c.lr # 0 => ModeOf(cpsr) \in ExceptionModes \ {m} /\ c.lr = lr[ModeOf(cpsr)]
       /\ c.fault = IF Entries[c.kind].fault THEN <<dfsr', dfar'>> ELSE <<0, 0>>
       /\ spsr'[m] = c.status
  BY <1>8, <1>10, <1>11, <1>12, <1>14, <1>16
<1>19. m \in ExceptionModes
  BY <1>1 DEF m
<1>20. PICK d \in Stopped, x \in ExceptionModes : d = c /\ x = m
  BY <1>7, <1>19
<1>21. \A i \in 1 .. n : ModeAt(i) # x /\ ModeOf(stopped[i].status) # x
  BY <1>18, <1>20
<1>22. Raised(n, d, x)
  BY <1>8, <1>9, <1>10, <1>13, <1>15, <1>16, <1>17, <1>18, <1>20, <1>21 DEF Raised
<1> QED
  BY <1>22, RaisedInv

-----------------------------------------------------------------------------
(* The trampolines                                                         *)

\* The nesting does not depend on anything else.
LEMMA NestedKept == ASSUME Nested, UNCHANGED <<stopped, cpsr>> PROVE Nested'
<1>1. \A i : ModeAt(i)' = ModeAt(i)
  BY DEF ModeAt
<1> QED
  BY <1>1 DEF Nested

\* The frame of exception n is on the stack of its mode m: what Save does,
\* word by word.
Saved(n, m) ==
  /\ entering /\ entering' = FALSE /\ stopped' = stopped
  /\ n = Len(stopped) /\ n \in DOMAIN stopped /\ m = ModeAt(n)
  /\ stack' \in [ExceptionModes -> Stack] /\ FrameHolds(stopped[n], stack'[m])
  /\ \A x \in ExceptionModes \ {m} : stack'[x] = stack[x]
  /\ sp' \in [ExceptionModes -> Int] /\ sp'[m] = FrameWords
  /\ \A x \in ExceptionModes \ {m} : sp'[x] = sp[x]
  /\ lr' \in [ExceptionModes -> Int]
  /\ \A x \in ExceptionModes \ {m} : lr'[x] = lr[x]
  /\ r' \in [1 .. 13 -> Int] /\ pc' \in Int
  /\ UNCHANGED <<cpsr, user, spsr, dfsr, dfar>>

\* A dispatch that has its frame satisfies IInv.
LEMMA SavedInv ==
  ASSUME IInv, NEW n \in Nat, NEW m \in ExceptionModes, Saved(n, m)
  PROVE  IInv'
<1> USE DEF Saved
<1>1. Typed'
  BY DEF IInv, Typed
<1>2. \A i : ModeAt(i)' = ModeAt(i)
  BY DEF ModeAt
<1>3. /\ \A i \in DOMAIN stopped : Settled(i)' /\ (i # n => Settled(i)) /\ ModeAt(i) \in ExceptionModes
      /\ ~Settled(n)
      /\ \A i \in DOMAIN stopped : ModeAt(i) = m => i = n
  BY StoppedModes DEF IInv, Settled, Nested
<1>4. Nested'
  BY NestedKept DEF IInv
<1>5. FramesKept'
  <2> SUFFICES ASSUME NEW i \in DOMAIN stopped' PROVE FrameHolds(stopped'[i], stack'[ModeAt(i)'])
    BY DEF FramesKept
  <2>1. CASE i = n
    BY <1>2, <2>1
  <2>2. CASE i # n
    <3>1. FrameHolds(stopped[i], stack[ModeAt(i)]) /\ ModeAt(i) \in ExceptionModes \ {m}
      BY <1>3, <2>2 DEF IInv, FramesKept
    <3> QED
      BY <1>2, <3>1
  <2> QED
    BY <2>1, <2>2
<1>6. StacksKept'
  <2> SUFFICES ASSUME NEW x \in ExceptionModes
               PROVE  sp'[x] = IF \E i \in DOMAIN stopped' : Settled(i)' /\ ModeAt(i)' = x THEN FrameWords ELSE StackWords
    BY DEF StacksKept
  <2>1. CASE x = m
    BY <1>2, <1>3, <2>1
  <2>2. CASE x # m
    <3>1. (\E i \in DOMAIN stopped' : Settled(i)' /\ ModeAt(i)' = x) <=> \E i \in DOMAIN stopped : Settled(i) /\ ModeAt(i) = x
      BY <1>2, <1>3, <2>2
    <3>2. sp[x] = IF \E i \in DOMAIN stopped : Settled(i) /\ ModeAt(i) = x THEN FrameWords ELSE StackWords
      BY DEF IInv, StacksKept
    <3> QED
      BY <2>2, <3>1, <3>2
  <2> QED
    BY <2>1, <2>2
<1>7. LinksKept'
  <2> SUFFICES ASSUME NEW i \in DOMAIN stopped', stopped'[i].lr # 0
               PROVE  /\ ModeOf(stopped'[i].status) \in ExceptionModes
                      /\ lr'[ModeOf(stopped'[i].status)] = stopped'[i].lr
                      /\ \A j \in DOMAIN stopped' : j >= i => ModeAt(j)' # ModeOf(stopped'[i].status)
    BY DEF LinksKept
  <2>1. /\ ModeOf(stopped[i].status) \in ExceptionModes /\ lr[ModeOf(stopped[i].status)] = stopped[i].lr
        /\ \A j \in DOMAIN stopped : j >= i => ModeAt(j) # ModeOf(stopped[i].status)
    BY DEF IInv, LinksKept
  <2>2. n >= i
    BY StoppedModes DEF IInv
  <2>3. ModeOf(stopped[i].status) # m
    BY <2>1, <2>2
  <2> QED
    BY <1>2, <2>1, <2>3
<1>8. AtVector'
  BY DEF AtVector
<1> QED
  BY <1>1, <1>4, <1>5, <1>6, <1>7, <1>8 DEF IInv

\* A function with one new value.
LEMMA ExceptFacts ==
  ASSUME NEW D, NEW R, NEW F \in [D -> R], NEW m \in D, NEW y \in R
  PROVE  /\ [F EXCEPT ![m] = y] \in [D -> R] /\ [F EXCEPT ![m] = y][m] = y
         /\ \A x \in D \ {m} : [F EXCEPT ![m] = y][x] = F[x]
  OBVIOUS

\* The words of the frame, by their place.
LEMMA ConcatFacts ==
  ASSUME NEW q \in [1 .. 13 -> Int], NEW s \in Seq(Int), Len(s) = 9
  PROVE  /\ \A k \in 1 .. 13 : (q \o s)[k] = q[k]
         /\ \A k \in 14 .. 22 : (q \o s)[k] = s[k - 13]
<1>1. q \in UNION {[1 .. n -> Int] : n \in Nat}
  OBVIOUS
<1>2. q \in Seq(Int)
  BY <1>1, SeqDef, Zenon
<1>3. Len(q) = 13
  BY <1>2, LenProperties
<1>4. \A i \in 1 .. Len(q) + Len(s) : (q \o s)[i] = IF i =< Len(q) THEN q[i] ELSE s[i - Len(q)]
  BY <1>2, ConcatProperties, Zenon
<1>5. PICK x : x = q \o s
  OBVIOUS
<1>6. \A i \in 1 .. 13 + 9 : x[i] = IF i =< 13 THEN q[i] ELSE s[i - 13]
  BY <1>3, <1>4, <1>5, Zenon
<1>7. /\ \A k \in 1 .. 13 : x[k] = q[k]
      /\ \A k \in 14 .. 22 : x[k] = s[k - 13]
  BY <1>6
<1> QED
  BY <1>5, <1>7

\* The stacks S with the words w at the top of the stack of mode m.
Put(S, m, w) ==
  [S EXCEPT ![m] = [k \in DOMAIN @ |->
     IF k > StackWords - FrameWords /\ k =< StackWords THEN w[k - (StackWords - FrameWords)] ELSE @[k]]]

\* Put writes the upper half of one stack.
LEMMA PutFacts ==
  ASSUME NEW S \in [ExceptionModes -> Stack], NEW m \in ExceptionModes, NEW w, \A k \in 1 .. 22 : w[k] \in Int
  PROVE  /\ Put(S, m, w) \in [ExceptionModes -> Stack]
         /\ \A x \in ExceptionModes \ {m} : Put(S, m, w)[x] = S[x]
         /\ \A k \in 1 .. 22 : Put(S, m, w)[m][22 + k] = w[k]
<1> DEFINE g == S[m]
           h == [k \in 1 .. 44 |-> IF k > 22 THEN w[k - 22] ELSE g[k]]
<1>1. Stack = [1 .. 44 -> Int] /\ StackWords = 44 /\ FrameWords = 22 /\ StackWords - FrameWords = 22
  BY DEF Stack, StackWords, FrameWords
<1>2. g \in [1 .. 44 -> Int] /\ DOMAIN g = 1 .. 44
  BY <1>1
<1>3. h = [k \in DOMAIN g |-> IF k > 22 /\ k =< 44 THEN w[k - 22] ELSE g[k]]
  BY <1>2
<1>4. Put(S, m, w) = [S EXCEPT ![m] = h]
  BY <1>1, <1>3 DEF Put
<1>5. h \in Stack
  <2>1. \A k \in 1 .. 44 : k > 22 => k - 22 \in 1 .. 22
    OBVIOUS
  <2> QED
    BY <1>1, <1>2, <2>1
<1>6. \A k \in 1 .. 22 : h[22 + k] = w[k]
  <2>1. \A k \in 1 .. 22 : 22 + k \in 1 .. 44 /\ 22 + k > 22 /\ 22 + k - 22 = k
    OBVIOUS
  <2> QED
    BY <2>1
<1> HIDE DEF h, g
<1> QED
  BY <1>4, <1>5, <1>6, ExceptFacts

\* What an entry stores is what the stopped code had.
LEMMA SavedWordsFacts ==
  ASSUME IInv, entering, NEW n \in DOMAIN stopped, n = Len(stopped), NEW c \in Stopped, c = stopped[n],
         NEW m \in ExceptionModes, Mode = m, Entry = Entries[c.kind], m = Entries[c.kind].mode
  PROVE  /\ \A k \in 1 .. 13 : SavedWords[k] = c.r[k]
         /\ SavedWords[14] = c.pc + Entries[c.kind].ret /\ SavedWords[15] = c.status
         /\ SavedWords[16] = Entries[c.kind].id /\ SavedWords[17] = c.at
         /\ SavedWords[18] = c.fault[1] /\ SavedWords[19] = c.fault[2]
         /\ SavedWords[20] = c.user[1] /\ SavedWords[21] = c.user[2] /\ SavedWords[22] = 0
         /\ \A k \in 1 .. 22 : SavedWords[k] \in Int
<1>1. /\ r \in [1 .. 13 -> Int] /\ user \in Int \X Int /\ lr \in [ExceptionModes -> Int] /\ dfsr \in Int /\ dfar \in Int
  BY DEF IInv, Typed
<1>2. /\ c.kind \in Kinds /\ c.status \in Int /\ Entries[c.kind].id \in Int /\ c.at \in Int
  BY StoppedFacts, EntryFacts, ModeFacts
<1>3. /\ r = c.r /\ user = c.user /\ lr[m] = c.pc + Entries[c.kind].ret
      /\ lr[m] - Entries[c.kind].back = c.at /\ spsr[m] = c.status
      /\ c.fault = IF Entries[c.kind].fault THEN <<dfsr, dfar>> ELSE <<0, 0>>
  BY DEF IInv, AtVector
<1>4. PICK fault : fault = Entries[c.kind].fault
  OBVIOUS
<1>5. 0 \in Int
  OBVIOUS
<1>6. PICK a \in Int : a = IF fault THEN dfsr ELSE 0
  BY <1>1, <1>5, Zenon
<1>7. PICK b \in Int : b = IF fault THEN dfar ELSE 0
  BY <1>1, <1>5, Zenon
<1>8. a = c.fault[1] /\ b = c.fault[2]
  BY <1>3, <1>4, <1>6, <1>7
<1>9. PICK u \in Int, v \in Int : u = user[1] /\ v = user[2]
  BY <1>1
<1>10. PICK l \in Int : l = lr[m]
  BY <1>1
<1>11. PICK s \in Int, i \in Int, at \in Int : s = c.status /\ i = Entries[c.kind].id /\ at = c.at
  BY <1>2
<1> DEFINE q == <<l, s, i, at, a, b, u, v, 0>>
<1>12. SavedWords = r \o q
  BY <1>3, <1>4, <1>6, <1>7, <1>9, <1>10, <1>11 DEF SavedWords
<1>13. q \in Seq(Int) /\ Len(q) = 9
  OBVIOUS
<1>14. /\ q[1] = l /\ q[2] = s /\ q[3] = i /\ q[4] = at /\ q[5] = a /\ q[6] = b /\ q[7] = u /\ q[8] = v /\ q[9] = 0
  OBVIOUS
<1> HIDE DEF q
<1>15. \A k \in 1 .. 9 : q[k] \in Int
  BY <1>13, ElementOfSeq
<1>16. /\ \A k \in 1 .. 13 : SavedWords[k] = r[k]
       /\ \A k \in 14 .. 22 : SavedWords[k] = q[k - 13]
  BY <1>1, <1>12, <1>13, ConcatFacts
<1>17. /\ SavedWords[14] = q[1] /\ SavedWords[15] = q[2] /\ SavedWords[16] = q[3] /\ SavedWords[17] = q[4]
       /\ SavedWords[18] = q[5] /\ SavedWords[19] = q[6] /\ SavedWords[20] = q[7] /\ SavedWords[21] = q[8]
       /\ SavedWords[22] = q[9]
  BY <1>16
<1>18. \A k \in 1 .. 22 : SavedWords[k] \in Int
  <2>1. \A k \in 1 .. 22 : k \in 1 .. 13 \/ (k \in 14 .. 22 /\ k - 13 \in 1 .. 9)
    OBVIOUS
  <2>2. \A k \in 1 .. 13 : r[k] \in Int
    BY <1>1
  <2> QED
    BY <1>15, <1>16, <2>1, <2>2
<1> QED
  BY <1>3, <1>8, <1>9, <1>10, <1>11, <1>14, <1>16, <1>17, <1>18

\* The exception that is being handled.
LEMMA Innermost ==
  ASSUME IInv, stopped # <<>>
  PROVE  \E n \in Nat, c \in Stopped, m \in ExceptionModes :
           /\ n = Len(stopped) /\ n \in DOMAIN stopped /\ DOMAIN stopped = 1 .. n /\ n >= 1
           /\ c = stopped[n] /\ m = ModeAt(n) /\ Mode = m /\ m = Entries[c.kind].mode
           /\ Kind = c.kind /\ Entry = Entries[c.kind] /\ c.kind \in Kinds /\ Last(stopped) = c
<1>1. /\ Len(stopped) \in Nat /\ Len(stopped) \in DOMAIN stopped /\ Len(stopped) >= 1
      /\ DOMAIN stopped = 1 .. Len(stopped) /\ Last(stopped) = stopped[Len(stopped)]
      /\ stopped[Len(stopped)] \in Stopped /\ ModeAt(Len(stopped)) \in ExceptionModes
      /\ Kind = stopped[Len(stopped)].kind /\ Entry = Entries[Kind] /\ Mode = ModeAt(Len(stopped))
      /\ stopped[Len(stopped)].kind \in Kinds
  BY StoppedModes DEF IInv
<1>2. ModeAt(Len(stopped)) = Entries[stopped[Len(stopped)].kind].mode
  BY DEF ModeAt
<1> QED
  BY <1>1, <1>2, Zenon

\* The first half of a trampoline is a step Saved.
LEMMA SaveInv == ASSUME IInv, Save PROVE IInv'
<1>1. /\ entering /\ entering' = FALSE /\ UNCHANGED <<cpsr, user, spsr, dfsr, dfar, stopped>>
  BY DEF Save
<1>2. /\ stopped # <<>> /\ r \in [1 .. 13 -> Int] /\ sp \in [ExceptionModes -> Int]
      /\ lr \in [ExceptionModes -> Int] /\ stack \in [ExceptionModes -> Stack]
  BY <1>1 DEF IInv, Typed
<1>3. PICK n \in Nat, c \in Stopped, m \in ExceptionModes :
        /\ n = Len(stopped) /\ n \in DOMAIN stopped /\ c = stopped[n] /\ m = ModeAt(n) /\ Mode = m
        /\ Entry = Entries[c.kind] /\ m = Entries[c.kind].mode
  BY <1>2, Innermost
<1>4. sp[m] = StackWords /\ StackWords - FrameWords = FrameWords /\ FrameWords \in Int
  <2>1. ~\E i \in DOMAIN stopped : Settled(i) /\ ModeAt(i) = m
    BY <1>1, <1>3 DEF IInv, Nested, Settled
  <2> QED
    BY <2>1 DEF IInv, StacksKept, StackWords, FrameWords
<1>5. /\ sp' \in [ExceptionModes -> Int] /\ sp'[m] = FrameWords
      /\ \A x \in ExceptionModes \ {m} : sp'[x] = sp[x]
  <2>1. sp' = [sp EXCEPT ![m] = FrameWords]
    <3>1. sp' = [sp EXCEPT ![m] = sp[m] - FrameWords]
      BY <1>3 DEF Save
    <3> QED
      BY <1>4, <3>1
  <2> QED
    BY <1>2, <1>4, <2>1, ExceptFacts
<1>6. /\ lr' \in [ExceptionModes -> Int] /\ \A x \in ExceptionModes \ {m} : lr'[x] = lr[x]
  <2>1. lr' = [lr EXCEPT ![m] = Link] /\ Link \in Int
    BY <1>3 DEF Save, Link
  <2> QED
    BY <1>2, <2>1, ExceptFacts
<1>7. r' \in [1 .. 13 -> Int] /\ pc' \in Int
  <2>1. \A a \in CodeAddrs : a \in Int
    BY TrapAssumption
  <2>2. r' = [r EXCEPT ![1] = FrameWords, ![2] = 0]
    BY <1>3, <1>4 DEF Save
  <2>3. PICK s \in [1 .. 13 -> Int] : s = [r EXCEPT ![1] = FrameWords]
    BY <1>2, <1>4, ExceptFacts
  <2>4. r' = [s EXCEPT ![2] = 0] /\ 0 \in Int /\ 2 \in 1 .. 13
    BY <2>2, <2>3
  <2>5. r' \in [1 .. 13 -> Int]
    BY <2>4, ExceptFacts
  <2> QED
    BY <2>1, <2>5 DEF Save
<1>8. /\ stack' \in [ExceptionModes -> Stack]
      /\ \A x \in ExceptionModes \ {m} : stack'[x] = stack[x]
      /\ \A k \in 1 .. 22 : stack'[m][22 + k] = SavedWords[k]
  <2>1. \A k \in 1 .. 22 : SavedWords[k] \in Int
    BY <1>1, <1>3, SavedWordsFacts
  <2>2. stack' = Put(stack, m, SavedWords)
    BY <1>3, <1>4 DEF Save, PutFrame, Put
  <2>3. PICK w : w = SavedWords
    OBVIOUS
  <2>4. PICK S \in [ExceptionModes -> Stack] : S = stack
    BY <1>2
  <2>5. \A k \in 1 .. 22 : w[k] \in Int
    BY <2>1, <2>3
  <2>6. /\ Put(S, m, w) \in [ExceptionModes -> Stack]
        /\ \A x \in ExceptionModes \ {m} : Put(S, m, w)[x] = S[x]
        /\ \A k \in 1 .. 22 : Put(S, m, w)[m][22 + k] = w[k]
    BY <2>5, PutFacts
  <2>7. stack' = Put(S, m, w)
    BY <2>2, <2>3, <2>4
  <2> QED
    BY <2>3, <2>4, <2>6, <2>7
<1>9. FrameHolds(c, stack'[m])
  <2>1. /\ stack'[m][36] = SavedWords[14] /\ stack'[m][37] = SavedWords[15] /\ stack'[m][38] = SavedWords[16]
        /\ stack'[m][39] = SavedWords[17] /\ stack'[m][40] = SavedWords[18] /\ stack'[m][41] = SavedWords[19]
        /\ stack'[m][42] = SavedWords[20] /\ stack'[m][43] = SavedWords[21] /\ stack'[m][44] = SavedWords[22]
    BY <1>8
  <2>2. \A k \in 1 .. 13 : stack'[m][22 + k] = SavedWords[k]
    BY <1>8
  <2>3. /\ FrameWords = 22 /\ FrameWords + 14 = 36 /\ FrameWords + 15 = 37 /\ FrameWords + 16 = 38 /\ FrameWords + 17 = 39
        /\ FrameWords + 18 = 40 /\ FrameWords + 19 = 41 /\ FrameWords + 20 = 42 /\ FrameWords + 21 = 43
        /\ FrameWords + 22 = 44
    BY DEF FrameWords
  <2>4. /\ \A k \in 1 .. 13 : SavedWords[k] = c.r[k]
        /\ SavedWords[14] = c.pc + Entries[c.kind].ret /\ SavedWords[15] = c.status
        /\ SavedWords[16] = Entries[c.kind].id /\ SavedWords[17] = c.at
        /\ SavedWords[18] = c.fault[1] /\ SavedWords[19] = c.fault[2]
        /\ SavedWords[20] = c.user[1] /\ SavedWords[21] = c.user[2] /\ SavedWords[22] = 0
    BY <1>1, <1>3, SavedWordsFacts
  <2> QED
    BY <2>1, <2>2, <2>3, <2>4 DEF FrameHolds
<1>10. FrameHolds(stopped[n], stack'[m])
  BY <1>3, <1>9
<1>11. Saved(n, m)
  BY <1>1, <1>3, <1>5, <1>6, <1>7, <1>8, <1>10, Zenon DEF Saved
<1> QED
  BY <1>11, SavedInv

\* A dispatch edits its frame, and with it what the stopped code goes on with.
\* Exception n of mode m now has context d and stack w.
Edited(n, m, d, w) ==
  /\ ~entering /\ entering' = entering
  /\ n = Len(stopped) /\ DOMAIN stopped = 1 .. n /\ n \in DOMAIN stopped /\ m = ModeAt(n)
  /\ stopped' \in Seq(Stopped) /\ Len(stopped') = n /\ DOMAIN stopped' = 1 .. n
  /\ stopped'[n] = d /\ \A i \in 1 .. n : i # n => stopped'[i] = stopped[i]
  /\ stack' \in [ExceptionModes -> Stack] /\ stack'[m] = w
  /\ \A x \in ExceptionModes \ {m} : stack'[x] = stack[x]
  /\ FrameHolds(d, w)
  /\ d.kind = stopped[n].kind /\ d.lr = stopped[n].lr
  /\ ModeOf(d.status) # ModeOf(stopped[n].status) => ModeOf(stopped[n].status) = USR /\ ModeOf(d.status) = SVC
  /\ pc' \in Int /\ UNCHANGED <<cpsr, r, user, sp, lr, spsr, dfsr, dfar>>

\* A dispatch that has edited its frame satisfies IInv.
LEMMA EditedInv ==
  ASSUME IInv, NEW n \in Nat, NEW m \in ExceptionModes, NEW d \in Stopped, NEW w, Edited(n, m, d, w)
  PROVE  IInv'
<1> USE DEF Edited
<1>1. Typed'
  <2>1. stopped' # <<>> /\ entering' \in BOOLEAN
    BY DEF IInv, Typed
  <2> QED
    BY <2>1 DEF IInv, Typed
<1>2. \A i \in 1 .. n : ModeAt(i)' = ModeAt(i) /\ ModeAt(i) \in ExceptionModes
  BY StoppedModes DEF IInv, ModeAt
<1>3. /\ \A i \in 1 .. n : Settled(i)' /\ Settled(i)
      /\ \A i \in 1 .. n : ModeAt(i) = m => i = n
  BY DEF IInv, Settled, Nested
<1>4. Nested'
  <2>1. \A i, j \in 1 .. n : ModeAt(i)' = ModeAt(j)' => i = j
    BY <1>2 DEF IInv, Nested
  <2>2. ASSUME NEW i \in 1 .. n
        PROVE  ModeOf(stopped'[i].status) \in {USR, SVC} \cup {ModeAt(j)' : j \in 1 .. i - 1}
    <3>1. ModeOf(stopped[i].status) \in {USR, SVC} \cup {ModeAt(j) : j \in 1 .. i - 1}
      BY DEF IInv, Nested
    <3>2. \A j \in 1 .. i - 1 : ModeAt(j)' = ModeAt(j)
      BY <1>2
    <3>3. ModeOf(stopped'[i].status) = ModeOf(stopped[i].status) \/ ModeOf(stopped'[i].status) = SVC
      BY <2>2
    <3> QED
      BY <3>1, <3>2, <3>3
  <2>3. ModeOf(cpsr') \in {USR, SVC} \cup {ModeAt(j)' : j \in 1 .. n}
    BY <1>2 DEF IInv, Nested
  <2> QED
    BY <2>1, <2>2, <2>3 DEF Nested
<1>5. FramesKept'
  <2> SUFFICES ASSUME NEW i \in DOMAIN stopped' PROVE FrameHolds(stopped'[i], stack'[ModeAt(i)'])
    BY DEF FramesKept
  <2>1. CASE i = n
    BY <1>2, <2>1
  <2>2. CASE i # n
    <3>1. FrameHolds(stopped[i], stack[ModeAt(i)]) /\ ModeAt(i) \in ExceptionModes \ {m}
      BY <1>2, <1>3, <2>2 DEF IInv, FramesKept
    <3> QED
      BY <1>2, <2>2, <3>1
  <2> QED
    BY <2>1, <2>2
<1>6. StacksKept'
  <2> SUFFICES ASSUME NEW x \in ExceptionModes
               PROVE  sp'[x] = IF \E i \in DOMAIN stopped' : Settled(i)' /\ ModeAt(i)' = x THEN FrameWords ELSE StackWords
    BY DEF StacksKept
  <2>1. (\E i \in DOMAIN stopped' : Settled(i)' /\ ModeAt(i)' = x) <=> \E i \in DOMAIN stopped : Settled(i) /\ ModeAt(i) = x
    BY <1>2, <1>3
  <2>2. sp[x] = IF \E i \in DOMAIN stopped : Settled(i) /\ ModeAt(i) = x THEN FrameWords ELSE StackWords
    BY DEF IInv, StacksKept
  <2> QED
    BY <2>1, <2>2
<1>7. LinksKept'
  <2> SUFFICES ASSUME NEW i \in DOMAIN stopped', stopped'[i].lr # 0
               PROVE  /\ ModeOf(stopped'[i].status) \in ExceptionModes
                      /\ lr'[ModeOf(stopped'[i].status)] = stopped'[i].lr
                      /\ \A j \in DOMAIN stopped' : j >= i => ModeAt(j)' # ModeOf(stopped'[i].status)
    BY DEF LinksKept
  <2>1. stopped[i].lr = stopped'[i].lr /\ i \in DOMAIN stopped
    OBVIOUS
  <2>2. /\ ModeOf(stopped[i].status) \in ExceptionModes /\ lr[ModeOf(stopped[i].status)] = stopped[i].lr
        /\ \A j \in DOMAIN stopped : j >= i => ModeAt(j) # ModeOf(stopped[i].status)
    BY <2>1 DEF IInv, LinksKept
  <2>3. ModeOf(stopped'[i].status) = ModeOf(stopped[i].status)
    BY <2>2, ModeFacts
  <2> QED
    BY <1>2, <2>1, <2>2, <2>3
<1>8. AtVector'
  BY DEF AtVector
<1> QED
  BY <1>1, <1>4, <1>5, <1>6, <1>7, <1>8 DEF IInv

\* In a dispatch the frame lies at the top of the stack of its mode.
LEMMA InDispatch ==
  ASSUME IInv, ~entering, stopped # <<>>
  PROVE  \E n \in Nat, c \in Stopped, m \in ExceptionModes, w \in [1 .. 44 -> Int] :
           /\ n = Len(stopped) /\ n \in DOMAIN stopped /\ DOMAIN stopped = 1 .. n /\ n >= 1
           /\ c = stopped[n] /\ m = ModeAt(n) /\ Mode = m /\ m = Entries[c.kind].mode
           /\ Kind = c.kind /\ Entry = Entries[c.kind] /\ c.kind \in Kinds /\ Last(stopped) = c
           /\ sp[m] = 22 /\ w = stack[m] /\ FrameHolds(c, w)
<1>1. PICK n \in Nat, c \in Stopped, m \in ExceptionModes :
           /\ n = Len(stopped) /\ n \in DOMAIN stopped /\ DOMAIN stopped = 1 .. n /\ n >= 1
           /\ c = stopped[n] /\ m = ModeAt(n) /\ Mode = m /\ m = Entries[c.kind].mode
           /\ Kind = c.kind /\ Entry = Entries[c.kind] /\ c.kind \in Kinds /\ Last(stopped) = c
  BY Innermost
<1>2. Settled(n)
  BY <1>1 DEF Settled
<1>3. sp[m] = 22
  <2>1. \E i \in DOMAIN stopped : Settled(i) /\ ModeAt(i) = m
    BY <1>1, <1>2
  <2> QED
    BY <2>1 DEF IInv, StacksKept, FrameWords
<1>4. FrameHolds(c, stack[m])
  BY <1>1, <1>2 DEF IInv, FramesKept
<1>5. stack[m] \in [1 .. 44 -> Int]
  BY DEF IInv, Typed, Stack, StackWords, FrameWords
<1> QED
  BY <1>1, <1>3, <1>4, <1>5, Zenon

\* A frame by its words.
LEMMA FrameWord ==
  ASSUME NEW c, NEW w
  PROVE  FrameHolds(c, w) <=>
           /\ \A k \in 1 .. 13 : w[22 + k] = c.r[k]
           /\ w[36] = c.pc + Entries[c.kind].ret
           /\ w[37] = c.status /\ w[38] = Entries[c.kind].id /\ w[39] = c.at
           /\ w[40] = c.fault[1] /\ w[41] = c.fault[2]
           /\ w[42] = c.user[1] /\ w[43] = c.user[2]
           /\ w[44] = 0
<1>1. /\ FrameWords = 22 /\ FrameWords + 14 = 36 /\ FrameWords + 15 = 37 /\ FrameWords + 16 = 38 /\ FrameWords + 17 = 39
      /\ FrameWords + 18 = 40 /\ FrameWords + 19 = 41 /\ FrameWords + 20 = 42 /\ FrameWords + 21 = 43
      /\ FrameWords + 22 = 44
  BY DEF FrameWords
<1> QED
  BY <1>1 DEF FrameHolds

\* One word of the frame is replaced, at the top of the stack of mode m.
LEMMA EditWord ==
  ASSUME NEW w \in [1 .. 44 -> Int], NEW a \in {36, 37}, NEW y \in Int, NEW v, v = [w EXCEPT ![a] = y]
  PROVE  /\ v \in [1 .. 44 -> Int] /\ v[a] = y
         /\ \A k \in 1 .. 44 : k # a => v[k] = w[k]
         /\ \A k \in 1 .. 13 : v[22 + k] = w[22 + k]
<1>1. a \in 1 .. 44
  OBVIOUS
<1>2. \A k \in 1 .. 44 : k # a => v[k] = w[k]
  OBVIOUS
<1>3. \A k \in 1 .. 13 : 22 + k \in 1 .. 44 /\ 22 + k # a
  OBVIOUS
<1> QED
  BY <1>1, <1>2, <1>3

\* The fields of the frame of the running dispatch, by their byte offsets.
LEMMA WordFacts ==
  ASSUME sp[Mode] = 22
  PROVE  /\ \A k \in 1 .. 13 : Word(4 * (k - 1)) = stack[Mode][22 + k]
         /\ Word(52) = stack[Mode][36] /\ Word(56) = stack[Mode][37] /\ Word(60) = stack[Mode][38] /\ Word(64) = stack[Mode][39]
         /\ Word(68) = stack[Mode][40] /\ Word(72) = stack[Mode][41] /\ Word(76) = stack[Mode][42] /\ Word(80) = stack[Mode][43] /\ Word(84) = stack[Mode][44]
<1>1. \A o : Word(o) = stack[Mode][22 + o \div 4 + 1]
  BY DEF Word
<1>2. /\ 22 + 52 \div 4 + 1 = 36 /\ 22 + 56 \div 4 + 1 = 37 /\ 22 + 60 \div 4 + 1 = 38 /\ 22 + 64 \div 4 + 1 = 39
      /\ 22 + 68 \div 4 + 1 = 40 /\ 22 + 72 \div 4 + 1 = 41 /\ 22 + 76 \div 4 + 1 = 42 /\ 22 + 80 \div 4 + 1 = 43
      /\ 22 + 84 \div 4 + 1 = 44
  OBVIOUS
<1>3. \A k \in 1 .. 13 : 22 + (4 * (k - 1)) \div 4 + 1 = 22 + k
  OBVIOUS
<1>4. \A k \in 1 .. 13 : Word(4 * (k - 1)) = stack[Mode][22 + (4 * (k - 1)) \div 4 + 1]
  BY <1>1
<1>5. \A k \in 1 .. 13 : Word(4 * (k - 1)) = stack[Mode][22 + k]
  BY <1>3, <1>4
<1> QED
  BY <1>1, <1>2, <1>5

\* One element of a sequence is replaced.
LEMMA ReplaceFacts ==
  ASSUME NEW S, NEW q \in Seq(S), NEW n \in 1 .. Len(q), NEW d \in S, NEW s, s = [q EXCEPT ![n] = d]
  PROVE  /\ s \in Seq(S) /\ Len(s) = Len(q) /\ DOMAIN s = 1 .. Len(q)
         /\ s[n] = d /\ \A k \in 1 .. Len(q) : k # n => s[k] = q[k]
<1>1. /\ s \in Seq(S) /\ Len(s) = Len(q)
      /\ \A k \in 1 .. Len(q) : s[k] = IF k = n THEN d ELSE q[k]
  BY ExceptSeq
<1>2. DOMAIN s = 1 .. Len(q)
  BY <1>1, LenProperties
<1> QED
  BY <1>1, <1>2

\* A dispatch turns the frame of the stopped context c into the frame of d, on
\* the stack v of its mode.
FrameEdit(n, c, m, d, v) ==
  /\ ~entering
  /\ n = Len(stopped) /\ n \in DOMAIN stopped /\ DOMAIN stopped = 1 .. n /\ c = stopped[n] /\ m = ModeAt(n)
  /\ stack' = [stack EXCEPT ![m] = v] /\ stopped' = [stopped EXCEPT ![n] = d]
  /\ FrameHolds(d, v) /\ d.kind = c.kind /\ d.lr = c.lr
  /\ ModeOf(d.status) # ModeOf(c.status) => ModeOf(c.status) = USR /\ ModeOf(d.status) = SVC
  /\ pc' \in Int /\ UNCHANGED <<cpsr, r, user, sp, lr, spsr, dfsr, dfar, entering>>

\* A dispatch that edits its frame keeps the invariant.
LEMMA EditInv ==
  ASSUME IInv,
         NEW n \in Nat, NEW c \in Stopped, NEW m \in ExceptionModes, NEW d \in Stopped, NEW v \in [1 .. 44 -> Int],
         FrameEdit(n, c, m, d, v)
  PROVE  IInv'
<1>1. stack \in [ExceptionModes -> Stack] /\ v \in Stack /\ stopped \in Seq(Stopped)
  <2>1. stack \in [ExceptionModes -> Stack] /\ stopped \in Seq(Stopped)
    BY DEF IInv, Typed
  <2>2. Stack = [1 .. 44 -> Int]
    BY DEF Stack, StackWords, FrameWords
  <2> QED
    BY <2>1, <2>2
<1>2. /\ stack' \in [ExceptionModes -> Stack] /\ stack'[m] = v
      /\ \A x \in ExceptionModes \ {m} : stack'[x] = stack[x]
  <2>1. stack' = [stack EXCEPT ![m] = v]
    BY DEF FrameEdit
  <2> QED
    BY <1>1, <2>1, ExceptFacts
<1>3. /\ stopped' \in Seq(Stopped) /\ Len(stopped') = n /\ DOMAIN stopped' = 1 .. n
      /\ stopped'[n] = d /\ \A i \in 1 .. n : i # n => stopped'[i] = stopped[i]
  <2>1. PICK q \in Seq(Stopped) : q = stopped
    BY <1>1
  <2>2. PICK s : s = stopped'
    OBVIOUS
  <2>3. n \in 1 .. Len(q) /\ Len(q) = n /\ s = [q EXCEPT ![n] = d]
    BY <2>1, <2>2 DEF FrameEdit
  <2>4. /\ s \in Seq(Stopped) /\ Len(s) = n /\ DOMAIN s = 1 .. n
        /\ s[n] = d /\ \A k \in 1 .. n : k # n => s[k] = q[k]
    BY <2>3, ReplaceFacts
  <2> QED
    BY <2>1, <2>2, <2>4
<1>4. Edited(n, m, d, v)
  BY <1>2, <1>3 DEF Edited, FrameEdit
<1> QED
  BY <1>4, EditedInv

\* What a dispatch that edits its frame leaves alone; it goes on at any place.
Dispatched ==
  ~entering /\ stopped # <<>> /\ pc' \in Int /\ UNCHANGED <<cpsr, r, user, sp, lr, spsr, dfsr, dfar, entering>>

\* A dispatch that moves the return address of its frame keeps IInv.
LEMMA MoveReturnInv == ASSUME IInv, NEW a \in Int, Dispatched, MoveReturn(a) PROVE IInv'
<1>1. ~entering /\ stopped # <<>> /\ pc' \in Int /\ UNCHANGED <<cpsr, r, user, sp, lr, spsr, dfsr, dfar, entering>>
  BY DEF Dispatched
<1>2. PICK n \in Nat, c \in Stopped, m \in ExceptionModes, w \in [1 .. 44 -> Int] :
           /\ n = Len(stopped) /\ n \in DOMAIN stopped /\ DOMAIN stopped = 1 .. n /\ n >= 1
           /\ c = stopped[n] /\ m = ModeAt(n) /\ Mode = m /\ m = Entries[c.kind].mode
           /\ Kind = c.kind /\ Entry = Entries[c.kind] /\ c.kind \in Kinds /\ Last(stopped) = c
           /\ sp[m] = 22 /\ w = stack[m] /\ FrameHolds(c, w)
  BY <1>1, InDispatch
<1>3. /\ \A k \in 1 .. 13 : w[22 + k] = c.r[k]
      /\ w[36] = c.pc + Entries[c.kind].ret
      /\ w[37] = c.status /\ w[38] = Entries[c.kind].id /\ w[39] = c.at
      /\ w[40] = c.fault[1] /\ w[41] = c.fault[2] /\ w[42] = c.user[1] /\ w[43] = c.user[2] /\ w[44] = 0
  BY <1>2, FrameWord
<1>4. c.pc \in Int /\ Entries[c.kind].ret \in Int /\ w[36] \in Int
  <2>1. c.pc \in Int
    BY DEF Stopped
  <2>2. Entries[c.kind].ret \in Int
    BY <1>2, EntryFacts
  <2> QED
    BY <2>1, <2>2
<1>5. PICK d : d = [c EXCEPT !.pc = c.pc + a]
  OBVIOUS
<1>6. /\ d \in Stopped
      /\ d.pc = c.pc + a /\ d.kind = c.kind /\ d.lr = c.lr /\ d.status = c.status /\ d.r = c.r /\ d.at = c.at
      /\ d.fault = c.fault /\ d.user = c.user
  BY <1>4, <1>5 DEF Stopped
<1>7. PICK v : v = [w EXCEPT ![36] = w[36] + a]
  OBVIOUS
<1>8. /\ v \in [1 .. 44 -> Int] /\ v[36] = w[36] + a
      /\ \A k \in 1 .. 44 : k # 36 => v[k] = w[k]
      /\ \A k \in 1 .. 13 : v[22 + k] = w[22 + k]
  <2>1. w[36] + a \in Int
    BY <1>4
  <2> QED
    BY <1>7, <2>1, EditWord
<1>9. FrameHolds(d, v)
  <2>1. /\ v[37] = w[37] /\ v[38] = w[38] /\ v[39] = w[39] /\ v[40] = w[40] /\ v[41] = w[41]
        /\ v[42] = w[42] /\ v[43] = w[43] /\ v[44] = w[44]
    BY <1>8
  <2>2. v[36] = d.pc + Entries[d.kind].ret
    BY <1>3, <1>4, <1>6, <1>8
  <2>3. \A k \in 1 .. 13 : v[22 + k] = d.r[k]
    BY <1>3, <1>6, <1>8
  <2>4. /\ v[37] = d.status /\ v[38] = Entries[d.kind].id /\ v[39] = d.at
        /\ v[40] = d.fault[1] /\ v[41] = d.fault[2] /\ v[42] = d.user[1] /\ v[43] = d.user[2] /\ v[44] = 0
    BY <1>3, <1>6, <2>1
  <2> QED
    BY <2>2, <2>3, <2>4, FrameWord
<1>10. stack' = [stack EXCEPT ![m] = v]
  <2>1. stack' = [stack EXCEPT ![m][sp[m] + 14] = stack[m][sp[m] + 14] + a]
    BY <1>2 DEF MoveReturn
  <2>2. sp[m] + 14 = 36
    <3>1. sp[m] = 22
      BY <1>2
    <3> QED
      BY <3>1
  <2>3. stack' = [stack EXCEPT ![m] = [stack[m] EXCEPT ![36] = stack[m][36] + a]]
    BY <2>1, <2>2
  <2> QED
    BY <1>2, <1>7, <2>3
<1>11. stopped' = [stopped EXCEPT ![n] = d]
  BY <1>2, <1>5 DEF MoveReturn
<1>12. FrameEdit(n, c, m, d, v)
  BY <1>1, <1>2, <1>6, <1>9, <1>10, <1>11 DEF FrameEdit
<1> QED
  BY <1>6, <1>8, <1>12, EditInv

\* Stepping over the stopped instruction keeps IInv.
LEMMA SkipInstructionInv == ASSUME IInv, SkipInstruction PROVE IInv'
<1>1. Dispatched /\ MoveReturn(4)
  BY DEF SkipInstruction, banks, Dispatched, IInv, Typed
<1> QED
  BY <1>1, MoveReturnInv

\* A dispatch that lets user code go on in SVC mode, or leaves the mode as it
\* is, keeps IInv.
LEMMA MoveModeInv ==
  ASSUME IInv, NEW a \in Int, Dispatched, MoveMode(a),
         a = 0 \/ (a = SVC - USR /\ ModeOf(Word(56)) = USR)
  PROVE  IInv'
<1>1. ~entering /\ stopped # <<>> /\ pc' \in Int /\ UNCHANGED <<cpsr, r, user, sp, lr, spsr, dfsr, dfar, entering>>
  BY DEF Dispatched
<1>2. PICK n \in Nat, c \in Stopped, m \in ExceptionModes, w \in [1 .. 44 -> Int] :
           /\ n = Len(stopped) /\ n \in DOMAIN stopped /\ DOMAIN stopped = 1 .. n /\ n >= 1
           /\ c = stopped[n] /\ m = ModeAt(n) /\ Mode = m /\ m = Entries[c.kind].mode
           /\ Kind = c.kind /\ Entry = Entries[c.kind] /\ c.kind \in Kinds /\ Last(stopped) = c
           /\ sp[m] = 22 /\ w = stack[m] /\ FrameHolds(c, w)
  BY <1>1, InDispatch
<1>3. /\ \A k \in 1 .. 13 : w[22 + k] = c.r[k]
      /\ w[36] = c.pc + Entries[c.kind].ret
      /\ w[37] = c.status /\ w[38] = Entries[c.kind].id /\ w[39] = c.at
      /\ w[40] = c.fault[1] /\ w[41] = c.fault[2] /\ w[42] = c.user[1] /\ w[43] = c.user[2] /\ w[44] = 0
  BY <1>2, FrameWord
<1>4. /\ c.status \in Int /\ c.status + a \in Statuses
      /\ ModeOf(c.status + a) # ModeOf(c.status) => ModeOf(c.status) = USR /\ ModeOf(c.status + a) = SVC
  <2>1. Word(56) = w[37]
    <3>1. Mode = m /\ sp[m] = 22 /\ w = stack[m]
      BY <1>2
    <3> QED
      BY <3>1, WordFacts
  <2>2. c.status \in Statuses
    BY DEF Stopped
  <2>3. c.status \in Int
    BY <2>2, ModeFacts
  <2>4. CASE a = 0
    BY <2>2, <2>3, <2>4
  <2>5. CASE a = SVC - USR /\ ModeOf(Word(56)) = USR
    BY <1>3, <2>1, <2>2, <2>3, <2>5, ModeFacts
  <2> QED
    BY <2>4, <2>5
<1>5. PICK d : d = [c EXCEPT !.status = c.status + a]
  OBVIOUS
<1>6. /\ d \in Stopped
      /\ d.status = c.status + a /\ d.kind = c.kind /\ d.lr = c.lr /\ d.pc = c.pc /\ d.r = c.r /\ d.at = c.at
      /\ d.fault = c.fault /\ d.user = c.user
  BY <1>4, <1>5 DEF Stopped
<1>7. PICK v : v = [w EXCEPT ![37] = w[37] + a]
  OBVIOUS
<1>8. /\ v \in [1 .. 44 -> Int] /\ v[37] = w[37] + a
      /\ \A k \in 1 .. 44 : k # 37 => v[k] = w[k]
      /\ \A k \in 1 .. 13 : v[22 + k] = w[22 + k]
  <2>1. w[37] + a \in Int
    BY <1>3, <1>4
  <2> QED
    BY <1>7, <2>1, EditWord
<1>9. FrameHolds(d, v)
  <2>1. /\ v[36] = w[36] /\ v[38] = w[38] /\ v[39] = w[39] /\ v[40] = w[40] /\ v[41] = w[41]
        /\ v[42] = w[42] /\ v[43] = w[43] /\ v[44] = w[44]
    BY <1>8
  <2>2. v[37] = d.status
    BY <1>3, <1>6, <1>8
  <2>3. \A k \in 1 .. 13 : v[22 + k] = d.r[k]
    BY <1>3, <1>6, <1>8
  <2>4. /\ v[36] = d.pc + Entries[d.kind].ret /\ v[38] = Entries[d.kind].id /\ v[39] = d.at
        /\ v[40] = d.fault[1] /\ v[41] = d.fault[2] /\ v[42] = d.user[1] /\ v[43] = d.user[2] /\ v[44] = 0
    BY <1>3, <1>6, <2>1
  <2> QED
    BY <2>2, <2>3, <2>4, FrameWord
<1>10. stack' = [stack EXCEPT ![m] = v]
  <2>1. stack' = [stack EXCEPT ![m][sp[m] + 15] = stack[m][sp[m] + 15] + a]
    BY <1>2 DEF MoveMode
  <2>2. sp[m] + 15 = 37
    <3>1. sp[m] = 22
      BY <1>2
    <3> QED
      BY <3>1
  <2>3. stack' = [stack EXCEPT ![m] = [stack[m] EXCEPT ![37] = stack[m][37] + a]]
    BY <2>1, <2>2
  <2> QED
    BY <1>2, <1>7, <2>3
<1>11. stopped' = [stopped EXCEPT ![n] = d]
  BY <1>2, <1>5 DEF MoveMode
<1>12. FrameEdit(n, c, m, d, v)
  BY <1>1, <1>2, <1>4, <1>6, <1>9, <1>10, <1>11 DEF FrameEdit
<1> QED
  BY <1>6, <1>8, <1>12, EditInv

\* Going on in SVC mode keeps IInv.
LEMMA ReturnPrivilegedInv == ASSUME IInv, ReturnPrivileged PROVE IInv'
<1>1. Dispatched /\ MoveMode(SVC - USR) /\ ModeOf(Word(56)) = USR
  BY DEF ReturnPrivileged, banks, Dispatched, IInv, Typed
<1>2. SVC - USR \in Int
  BY DEF SVC, USR
<1> QED
  BY <1>1, <1>2, MoveModeInv

\* The trampoline has returned from exception n, of mode m: the context c it
\* stopped is back in the CPU.
Restored(n, c, m) ==
  /\ ~entering /\ entering' = entering
  /\ n = Len(stopped) /\ n >= 1 /\ DOMAIN stopped = 1 .. n /\ c = stopped[n] /\ m = ModeAt(n)
  /\ stopped' \in Seq(Stopped) /\ Len(stopped') = n - 1 /\ DOMAIN stopped' = 1 .. n - 1
  /\ \A i \in 1 .. n - 1 : stopped'[i] = stopped[i]
  /\ cpsr' = c.status /\ pc' = c.pc /\ r' = c.r /\ user' = c.user
  /\ sp' \in [ExceptionModes -> Int] /\ sp'[m] = StackWords
  /\ \A x \in ExceptionModes \ {m} : sp'[x] = sp[x]
  /\ lr' \in [ExceptionModes -> Int] /\ \A x \in ExceptionModes \ {m} : lr'[x] = lr[x]
  /\ spsr' \in [ExceptionModes -> Statuses]
  /\ stack' = stack /\ dfsr' = dfsr /\ dfar' = dfar

\* The resumed code and what is still stopped satisfy IInv.
LEMMA RestoredInv ==
  ASSUME IInv, NEW n \in Nat, NEW c \in Stopped, NEW m \in ExceptionModes, Restored(n, c, m)
  PROVE  IInv'
<1> USE DEF Restored
<1>1. Typed'
  <2>1. c.status \in Statuses /\ c.pc \in Int /\ c.r \in [1 .. 13 -> Int] /\ c.user \in Int \X Int
    BY DEF Stopped
  <2>2. /\ dfsr' \in Int /\ dfar' \in Int /\ stack' \in [ExceptionModes -> Stack]
        /\ entering' \in BOOLEAN /\ ~entering'
    BY DEF IInv, Typed
  <2> QED
    BY <2>1, <2>2 DEF Typed
<1>2. /\ \A i \in 1 .. n - 1 : i \in 1 .. n /\ ModeAt(i)' = ModeAt(i) /\ ModeAt(i) \in ExceptionModes \ {m}
      /\ \A i \in 1 .. n : ModeAt(i) \in ExceptionModes
  <2>1. \A i \in 1 .. n : ModeAt(i) \in ExceptionModes
    BY StoppedModes DEF IInv
  <2>2. \A i \in 1 .. n - 1 : i \in 1 .. n /\ ModeAt(i) # m
    <3>1. \A i, j \in 1 .. n : ModeAt(i) = ModeAt(j) => i = j
      BY DEF IInv, Nested
    <3>2. n \in 1 .. n /\ \A i \in 1 .. n - 1 : i \in 1 .. n /\ i # n
      OBVIOUS
    <3> QED
      BY <3>1, <3>2
  <2>3. \A i \in 1 .. n - 1 : ModeAt(i)' = ModeAt(i)
    BY DEF ModeAt
  <2> QED
    BY <2>1, <2>2, <2>3
<1>3. /\ \A i \in 1 .. n - 1 : Settled(i)' /\ Settled(i)
      /\ Settled(n)
  BY <1>2 DEF Settled
<1>4. Nested'
  <2>1. \A i, j \in 1 .. n - 1 : ModeAt(i)' = ModeAt(j)' => i = j
    <3>1. ASSUME NEW i \in 1 .. n - 1, NEW j \in 1 .. n - 1, ModeAt(i)' = ModeAt(j)' PROVE i = j
      <4>1. ModeAt(i) = ModeAt(j) /\ i \in DOMAIN stopped /\ j \in DOMAIN stopped
        BY <1>2, <3>1
      <4> QED
        BY <4>1 DEF IInv, Nested
    <3> QED
      BY <3>1
  <2>2. ASSUME NEW i \in 1 .. n - 1
        PROVE  ModeOf(stopped'[i].status) \in {USR, SVC} \cup {ModeAt(j)' : j \in 1 .. i - 1}
    <3>1. ModeOf(stopped[i].status) \in {USR, SVC} \cup {ModeAt(j) : j \in 1 .. i - 1}
      BY <1>2 DEF IInv, Nested
    <3>2. \A j \in 1 .. i - 1 : ModeAt(j)' = ModeAt(j)
      BY <1>2
    <3> QED
      BY <3>1, <3>2
  <2>3. ModeOf(cpsr') \in {USR, SVC} \cup {ModeAt(j)' : j \in 1 .. n - 1}
    <3>1. ModeOf(stopped[n].status) \in {USR, SVC} \cup {ModeAt(j) : j \in 1 .. n - 1}
      BY DEF IInv, Nested
    <3> QED
      BY <1>2, <3>1
  <2> QED
    BY <2>1, <2>2, <2>3 DEF Nested
<1>5. FramesKept'
  <2> SUFFICES ASSUME NEW i \in DOMAIN stopped' PROVE FrameHolds(stopped'[i], stack'[ModeAt(i)'])
    BY DEF FramesKept
  <2>1. i \in 1 .. n - 1 /\ i \in DOMAIN stopped
    BY <1>2
  <2>2. FrameHolds(stopped[i], stack[ModeAt(i)])
    BY <1>3, <2>1 DEF IInv, FramesKept
  <2> QED
    BY <1>2, <2>1, <2>2
<1>6. StacksKept'
  <2> SUFFICES ASSUME NEW x \in ExceptionModes
               PROVE  sp'[x] = IF \E i \in DOMAIN stopped' : Settled(i)' /\ ModeAt(i)' = x THEN FrameWords ELSE StackWords
    BY DEF StacksKept
  <2>1. CASE x = m
    <3>1. ~\E i \in DOMAIN stopped' : Settled(i)' /\ ModeAt(i)' = x
      BY <1>2, <2>1
    <3> QED
      BY <2>1, <3>1
  <2>2. CASE x # m
    <3>1. (\E i \in DOMAIN stopped' : Settled(i)' /\ ModeAt(i)' = x) <=> \E i \in DOMAIN stopped : Settled(i) /\ ModeAt(i) = x
      <4>1. \A i \in 1 .. n : i = n \/ i \in 1 .. n - 1
        OBVIOUS
      <4> QED
        BY <1>2, <1>3, <2>2, <4>1
    <3>2. sp[x] = IF \E i \in DOMAIN stopped : Settled(i) /\ ModeAt(i) = x THEN FrameWords ELSE StackWords
      BY DEF IInv, StacksKept
    <3> QED
      BY <2>2, <3>1, <3>2
  <2> QED
    BY <2>1, <2>2
<1>7. LinksKept'
  <2> SUFFICES ASSUME NEW i \in DOMAIN stopped', stopped'[i].lr # 0
               PROVE  /\ ModeOf(stopped'[i].status) \in ExceptionModes
                      /\ lr'[ModeOf(stopped'[i].status)] = stopped'[i].lr
                      /\ \A j \in DOMAIN stopped' : j >= i => ModeAt(j)' # ModeOf(stopped'[i].status)
    BY DEF LinksKept
  <2>1. i \in 1 .. n - 1 /\ i \in DOMAIN stopped /\ n \in DOMAIN stopped /\ n >= i /\ stopped'[i] = stopped[i]
    BY <1>2
  <2>2. /\ ModeOf(stopped[i].status) \in ExceptionModes /\ lr[ModeOf(stopped[i].status)] = stopped[i].lr
        /\ \A j \in DOMAIN stopped : j >= i => ModeAt(j) # ModeOf(stopped[i].status)
    BY <2>1 DEF IInv, LinksKept
  <2>3. ModeOf(stopped[i].status) \in ExceptionModes \ {m}
    BY <2>1, <2>2
  <2> QED
    BY <1>2, <2>1, <2>2, <2>3
<1>8. AtVector'
  BY DEF AtVector
<1> QED
  BY <1>1, <1>4, <1>5, <1>6, <1>7, <1>8 DEF IInv

\* What is left when the innermost exception is over.
LEMMA FrontFacts ==
  ASSUME NEW S, NEW q \in Seq(S), q # <<>>
  PROVE  /\ Front(q) \in Seq(S) /\ Len(Front(q)) = Len(q) - 1 /\ DOMAIN Front(q) = 1 .. Len(q) - 1
         /\ \A i \in 1 .. Len(q) - 1 : Front(q)[i] = q[i]
<1>1. Len(q) \in Nat /\ Len(q) >= 1
  <2>1. Len(q) \in Nat /\ Len(q) # 0
    BY EmptySeq, LenProperties
  <2> QED
    BY <2>1
<1>2. Front(q) = SubSeq(q, 1, Len(q) - 1)
  BY DEF Front
<1>3. PICK k \in Nat : k = Len(q) - 1 /\ k <= Len(q)
  <2>1. Len(q) - 1 \in Nat /\ Len(q) - 1 <= Len(q)
    BY <1>1
  <2> QED
    BY <2>1, Zenon
<1>4. /\ Front(q) \in Seq(S) /\ Len(Front(q)) = k
      /\ \A i \in 1 .. k : Front(q)[i] = q[i]
  <2>1. /\ SubSeq(q, 1, k) \in Seq(S)
        /\ Len(SubSeq(q, 1, k)) = IF 1 <= k THEN k - 1 + 1 ELSE 0
        /\ \A i \in 1 .. k - 1 + 1 : SubSeq(q, 1, k)[i] = q[1 + i - 1]
    BY <1>1, <1>3, SubSeqProperties
  <2>2. Len(SubSeq(q, 1, k)) = k
    BY <2>1
  <2>3. \A i \in 1 .. k : i \in 1 .. k - 1 + 1 /\ 1 + i - 1 = i
    OBVIOUS
  <2> QED
    BY <1>2, <1>3, <2>1, <2>2, <2>3
<1>5. DOMAIN Front(q) = 1 .. Len(q) - 1
  BY <1>3, <1>4, LenProperties
<1> QED
  BY <1>3, <1>4, <1>5

\* A return is the step Restored of the exception that is being handled.
LEMMA RestoreFacts ==
  ASSUME IInv, Restore
  PROVE  \E n \in Nat, c \in Stopped, m \in ExceptionModes : Restored(n, c, m) /\ c = Last(stopped)
<1>1. ~entering /\ stopped # <<>> /\ UNCHANGED <<stack, dfsr, dfar, entering>>
  BY DEF Restore
<1>2. PICK n \in Nat, c \in Stopped, m \in ExceptionModes, w \in [1 .. 44 -> Int] :
           /\ n = Len(stopped) /\ n \in DOMAIN stopped /\ DOMAIN stopped = 1 .. n /\ n >= 1
           /\ c = stopped[n] /\ m = ModeAt(n) /\ Mode = m /\ m = Entries[c.kind].mode
           /\ Kind = c.kind /\ Entry = Entries[c.kind] /\ c.kind \in Kinds /\ Last(stopped) = c
           /\ sp[m] = 22 /\ w = stack[m] /\ FrameHolds(c, w)
  BY <1>1, InDispatch
<1>3. /\ \A k \in 1 .. 13 : w[22 + k] = c.r[k]
      /\ w[36] = c.pc + Entries[c.kind].ret
      /\ w[37] = c.status /\ w[38] = Entries[c.kind].id /\ w[39] = c.at
      /\ w[40] = c.fault[1] /\ w[41] = c.fault[2] /\ w[42] = c.user[1] /\ w[43] = c.user[2] /\ w[44] = 0
  BY <1>2, FrameWord
<1>4. /\ \A k \in 1 .. 13 : Word(4 * (k - 1)) = w[22 + k]
      /\ Word(52) = w[36] /\ Word(56) = w[37] /\ Word(76) = w[42] /\ Word(80) = w[43]
  <2>1. Mode = m /\ sp[m] = 22 /\ w = stack[m]
    BY <1>2
  <2> QED
    BY <2>1, WordFacts
<1>5. /\ r \in [1 .. 13 -> Int] /\ sp \in [ExceptionModes -> Int] /\ lr \in [ExceptionModes -> Int]
      /\ spsr \in [ExceptionModes -> Statuses] /\ stopped \in Seq(Stopped)
  BY DEF IInv, Typed
<1>6. c.pc \in Int /\ c.r \in [1 .. 13 -> Int] /\ c.user \in Int \X Int /\ c.status \in Statuses
  BY DEF Stopped
<1>7. cpsr' = c.status
  BY <1>3, <1>4 DEF Restore
<1>8. pc' = c.pc
  <2>1. pc' = w[36] - Entries[c.kind].ret
    BY <1>2, <1>4 DEF Restore
  <2>2. Entries[c.kind].ret \in Int
    BY <1>2, EntryFacts
  <2> QED
    BY <1>3, <1>6, <2>1, <2>2
<1>9. r' = c.r
  <2>1. r' = [k \in 1 .. 13 |-> Word(4 * (k - 1))]
    BY DEF Restore
  <2>2. \A k \in 1 .. 13 : Word(4 * (k - 1)) = c.r[k]
    BY <1>3, <1>4
  <2>3. \A k \in 1 .. 13 : r'[k] = c.r[k]
    BY <2>1, <2>2
  <2>4. DOMAIN r' = 1 .. 13 /\ r' = [k \in 1 .. 13 |-> r'[k]]
    BY <2>1
  <2> QED
    BY <1>6, <2>3, <2>4
<1>10. user' = c.user
  <2>1. user' = <<w[42], w[43]>>
    BY <1>4 DEF Restore
  <2> QED
    BY <1>3, <1>6, <2>1
<1>11. /\ sp' \in [ExceptionModes -> Int] /\ sp'[m] = StackWords
       /\ \A x \in ExceptionModes \ {m} : sp'[x] = sp[x]
  <2>1. sp' = [sp EXCEPT ![m] = sp[m] + FrameWords]
    BY <1>2 DEF Restore
  <2>2. sp[m] + FrameWords = StackWords /\ StackWords \in Int
    BY <1>2 DEF StackWords, FrameWords
  <2>3. sp' = [sp EXCEPT ![m] = StackWords]
    BY <2>1, <2>2
  <2> QED
    BY <1>5, <2>2, <2>3, ExceptFacts
<1>12. /\ lr' \in [ExceptionModes -> Int] /\ \A x \in ExceptionModes \ {m} : lr'[x] = lr[x]
  <2>1. lr' = [lr EXCEPT ![m] = w[36]]
    BY <1>2, <1>4 DEF Restore
  <2>2. w[36] \in Int
    OBVIOUS
  <2> QED
    BY <1>5, <2>1, <2>2, ExceptFacts
<1>13. spsr' \in [ExceptionModes -> Statuses]
  <2>1. spsr' = [spsr EXCEPT ![m] = c.status]
    BY <1>2, <1>3, <1>4 DEF Restore
  <2> QED
    BY <1>5, <1>6, <2>1, ExceptFacts
<1>14. /\ stopped' \in Seq(Stopped) /\ Len(stopped') = n - 1 /\ DOMAIN stopped' = 1 .. n - 1
       /\ \A i \in 1 .. n - 1 : stopped'[i] = stopped[i]
  <2>1. PICK q, s : q \in Seq(Stopped) /\ q = stopped /\ s = stopped' /\ s = Front(q)
    BY <1>5 DEF Restore
  <2>2. q # <<>> /\ Len(q) = n
    BY <1>1, <1>2, <2>1
  <2>3. /\ s \in Seq(Stopped) /\ Len(s) = n - 1 /\ DOMAIN s = 1 .. n - 1
        /\ \A i \in 1 .. n - 1 : s[i] = q[i]
    BY <2>1, <2>2, FrontFacts
  <2> QED
    BY <2>1, <2>3
<1>15. Restored(n, c, m)
  BY <1>1, <1>2, <1>7, <1>8, <1>9, <1>10, <1>11, <1>12, <1>13, <1>14 DEF Restored
<1> QED
  BY <1>2, <1>15

-----------------------------------------------------------------------------
(* The theorems                                                            *)

\* Every step keeps the invariant.
LEMMA NextInv == ASSUME IInv, [Next]_vars PROVE IInv'
<1>1. CASE \E v \in Values, a \in CodeAddrs : Work(v, a)
  BY <1>1, WorkInv
<1>2. CASE \E k \in Kinds, v \in Values : Raise(k, 500 + v, 600 + v)
  <2>1. PICK k \in Kinds, v \in Values : Raise(k, 500 + v, 600 + v)
    BY <1>2
  <2>2. PICK s \in Int, a \in Int : s = 500 + v /\ a = 600 + v
    BY TrapAssumption
  <2>3. Raise(k, s, a)
    BY <2>1, <2>2
  <2> QED
    BY <2>3, RaiseInv
<1>3. CASE Save
  BY <1>3, SaveInv
<1>4. CASE SkipInstruction
  BY <1>4, SkipInstructionInv
<1>5. CASE ReturnPrivileged
  BY <1>5, ReturnPrivilegedInv
<1>6. CASE Restore
  BY <1>6, RestoreFacts, RestoredInv
<1>7. CASE UNCHANGED vars
  BY <1>7, Frame DEF vars, banks
<1> QED
  BY <1>1, <1>2, <1>3, <1>4, <1>5, <1>6, <1>7 DEF Next

\* The inductive invariant holds in every reachable state.
THEOREM Invariant == Spec => []IInv
<1>1. Init => IInv
  BY InitInv
<1>2. IInv /\ [Next]_vars => IInv'
  BY NextInv
<1> QED
  BY <1>1, <1>2, PTL DEF Spec

\* Settled frames are at the top of their stacks.
LEMMA StacksNow == ASSUME IInv PROVE StacksExact
<1> SUFFICES ASSUME ~entering, NEW m \in ExceptionModes
             PROVE  sp[m] = IF \E n \in DOMAIN stopped : Entries[stopped[n].kind].mode = m
                            THEN StackWords - FrameWords ELSE StackWords
  BY DEF StacksExact
<1>1. sp[m] = IF \E n \in DOMAIN stopped : Settled(n) /\ ModeAt(n) = m THEN FrameWords ELSE StackWords
  BY DEF IInv, StacksKept
<1>2. \A n \in DOMAIN stopped : Settled(n) /\ ModeAt(n) = Entries[stopped[n].kind].mode
  BY DEF Settled, ModeAt
<1>3. StackWords - FrameWords = FrameWords
  BY DEF StackWords, FrameWords
<1> QED
  BY <1>1, <1>2, <1>3

\* A dispatch finds its frame at the very top of the stack of its mode, and a
\* mode that is not in use has an empty stack, as headless/exceptions/main.c
\* checks, however exceptions nest.
THEOREM FramesAtTop == Spec => []StacksExact
<1>1. IInv => StacksExact
  BY StacksNow
<1> QED
  BY <1>1, Invariant, PTL

\* A settled frame tells what its context was stopped by.
LEMMA FrameNow == ASSUME IInv PROVE FrameTells
<1> SUFFICES ASSUME stopped # <<>>, ~entering
             PROVE  /\ Word(56) = Last(stopped).status /\ Word(60) = Entry.id /\ Word(64) = Last(stopped).at
                    /\ <<Word(68), Word(72)>> = Last(stopped).fault /\ Word(84) = 0
  BY DEF FrameTells
<1>1. PICK n \in Nat, c \in Stopped, m \in ExceptionModes, w \in [1 .. 44 -> Int] :
         /\ n = Len(stopped) /\ n \in DOMAIN stopped /\ DOMAIN stopped = 1 .. n /\ n >= 1
         /\ c = stopped[n] /\ m = ModeAt(n) /\ Mode = m /\ m = Entries[c.kind].mode
         /\ Kind = c.kind /\ Entry = Entries[c.kind] /\ c.kind \in Kinds /\ Last(stopped) = c
         /\ sp[m] = 22 /\ w = stack[m] /\ FrameHolds(c, w)
  BY InDispatch
<1>2. /\ w[37] = c.status /\ w[38] = Entries[c.kind].id /\ w[39] = c.at
      /\ w[40] = c.fault[1] /\ w[41] = c.fault[2] /\ w[44] = 0
  BY <1>1, FrameWord
<1>3. /\ Word(56) = w[37] /\ Word(60) = w[38] /\ Word(64) = w[39]
      /\ Word(68) = w[40] /\ Word(72) = w[41] /\ Word(84) = w[44]
  <2>1. Mode = m /\ sp[m] = 22 /\ w = stack[m]
    BY <1>1
  <2> QED
    BY <2>1, WordFacts
<1>4. c.fault = <<c.fault[1], c.fault[2]>>
  <2>1. PICK f \in Int \X Int : f = c.fault
    BY DEF Stopped
  <2>2. f = <<f[1], f[2]>>
    OBVIOUS
  <2> QED
    BY <2>1, <2>2
<1> QED
  BY <1>1, <1>2, <1>3, <1>4

\* The fields of the innermost frame, at the offsets of trap.h, tell what
\* happened, whatever inner exceptions have come and gone since it was saved.
THEOREM FramesTell == Spec => []FrameTells
<1>1. IInv => FrameTells
  BY FrameNow
<1> QED
  BY <1>1, Invariant, PTL

\* Only a return takes an exception off the stopped ones.
LEMMA OnlyRestore ==
  ASSUME IInv, Next, Len(stopped') < Len(stopped)
  PROVE  Restore
<1>1. PICK q, s : q \in Seq(Stopped) /\ q = stopped /\ s = stopped'
  BY DEF IInv, Typed
<1>2. Len(q) \in Nat /\ Len(s) < Len(q)
  BY <1>1, LenProperties
<1>3. ASSUME NEW v \in Values, NEW a \in CodeAddrs, Work(v, a) PROVE s = q
  BY <1>1, <1>3 DEF Work
<1>4. ASSUME NEW k \in Kinds, NEW v \in Values, Raise(k, 500 + v, 600 + v) PROVE Len(s) = Len(q) + 1
  <2>1. PICK e : s = Append(q, e)
    BY <1>1, <1>4 DEF Raise
  <2> QED
    BY <2>1, AppendFacts
<1>5. ASSUME Save PROVE s = q
  BY <1>1, <1>5 DEF Save
<1>6. ASSUME NEW e, s = [q EXCEPT ![Len(q)] = e] PROVE Len(s) = Len(q)
  <2>1. DOMAIN s = DOMAIN q
    BY <1>6
  <2> QED
    BY <1>2, <2>1
<1>7. ASSUME SkipInstruction PROVE \E e : s = [q EXCEPT ![Len(q)] = e]
  BY <1>1, <1>7 DEF SkipInstruction, MoveReturn
<1>8. ASSUME ReturnPrivileged PROVE \E e : s = [q EXCEPT ![Len(q)] = e]
  BY <1>1, <1>8 DEF ReturnPrivileged, MoveMode
<1>9. s # q /\ Len(s) # Len(q) /\ Len(s) # Len(q) + 1
  BY <1>2
<1> QED
  BY <1>3, <1>4, <1>5, <1>6, <1>7, <1>8, <1>9 DEF Next

\* The context a return puts back into the CPU.
LEMMA Resumes ==
  ASSUME IInv, Restore
  PROVE  /\ pc' = Last(stopped).pc /\ r' = Last(stopped).r /\ user' = Last(stopped).user
         /\ cpsr' = Last(stopped).status
         /\ Last(stopped).lr # 0 => lr'[ModeOf(Last(stopped).status)] = Last(stopped).lr
<1>1. PICK n \in Nat, c \in Stopped, m \in ExceptionModes : Restored(n, c, m) /\ c = Last(stopped)
  BY RestoreFacts
<1>2. /\ pc' = c.pc /\ r' = c.r /\ user' = c.user /\ cpsr' = c.status
      /\ n \in DOMAIN stopped /\ n >= n /\ c = stopped[n] /\ m = ModeAt(n)
      /\ \A x \in ExceptionModes \ {m} : lr'[x] = lr[x]
  BY <1>1 DEF Restored
<1>3. ASSUME c.lr # 0 PROVE lr'[ModeOf(c.status)] = c.lr
  <2>1. /\ ModeOf(stopped[n].status) \in ExceptionModes /\ lr[ModeOf(stopped[n].status)] = stopped[n].lr
        /\ \A k \in DOMAIN stopped : k >= n => ModeAt(k) # ModeOf(stopped[n].status)
    BY <1>2, <1>3 DEF IInv, LinksKept
  <2> QED
    BY <1>2, <2>1
<1> QED
  BY <1>1, <1>2, <1>3

\* Code that an exception stopped goes on with the registers, user bank,
\* status, place and lr it was stopped with, or as its dispatch told it to
\* through the frame.
THEOREM CodeResumes == Spec => ResumedIntact
<1>1. IInv /\ [Next]_vars =>
        [Len(stopped') < Len(stopped) =>
           LET c == Last(stopped)
           IN  /\ pc' = c.pc /\ r' = c.r /\ user' = c.user /\ cpsr' = c.status
               /\ c.lr # 0 => lr'[ModeOf(c.status)] = c.lr]_vars
  BY OnlyRestore, Resumes
<1> QED
  BY <1>1, Invariant, PTL DEF Spec, ResumedIntact
=============================================================================
