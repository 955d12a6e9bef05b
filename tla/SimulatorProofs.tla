---------------------------- MODULE SimulatorProofs ----------------------------
(***************************************************************************)
(* Theorems about module Simulator, for every capacity, integer width and  *)
(* set of bytes.                                                           *)
(***************************************************************************)
EXTENDS Simulator, SequenceTheorems, TLAPS

\* Remainders of indices below twice the capacity, which is as far as the buffer's
\* indices and sizes add up to.
LEMMA RingIndex ==
  ASSUME NEW i \in Nat, i < 2 * Capacity
  PROVE  i % Capacity = IF i < Capacity THEN i ELSE i - Capacity
<1>1. Capacity \in Nat /\ Capacity > 0
  BY CbAssumption
<1>2. /\ i % Capacity \in 0 .. Capacity - 1
      /\ i = Capacity * (i \div Capacity) + (i % Capacity)
      /\ i \div Capacity \in Int
  BY <1>1, SMT
<1>3. CASE i < Capacity
  <2>1. i \div Capacity = 0
    BY <1>1, <1>2, <1>3, SMT
  <2>2. QED BY <1>1, <1>2, <1>3, <2>1, SMT
<1>4. CASE i >= Capacity
  <2>1. i \div Capacity = 1
    BY <1>1, <1>2, <1>4, SMT
  <2>2. QED BY <1>1, <1>2, <1>4, <2>1, SMT
<1>5. QED BY <1>1, <1>3, <1>4, SMT

\* Stepping an index stays inside the arena and is addition modulo the capacity.
LEMMA AdvanceIsModular ==
  ASSUME NEW i \in Slot
  PROVE  Advance(i) \in Slot /\ Advance(i) = (i + 1) % Capacity
<1>1. (i + 1) % Capacity = IF i + 1 < Capacity THEN i + 1 ELSE i + 1 - Capacity
  BY CbAssumption, RingIndex, SMT DEF Slot
<1>2. QED BY <1>1, CbAssumption, SMT DEF Slot, Advance

\* cb_create yields a well-formed, empty buffer.
LEMMA CreateWellFormed ==
  cb_create \in CircularBufferType /\ IndicesAgree(cb_create)
<1>1. cb_create \in CircularBufferType
  BY CbAssumption DEF cb_create, CircularBufferType, Slot
<1>2. (0 + 0) % Capacity = 0
  BY CbAssumption, RingIndex, SMT
<1>3. QED BY <1>1, <1>2 DEF IndicesAgree, cb_create

\* The slot k places after slot i, without the remainder.
Pos(i, k) == IF i + k < Capacity THEN i + k ELSE i + k - Capacity

LEMMA PosIsModular ==
  ASSUME NEW i \in Slot, NEW k \in 0 .. Capacity
  PROVE  (i + k) % Capacity = Pos(i, k) /\ Pos(i, k) \in Slot
<1>1. i + k \in Nat /\ i + k < 2 * Capacity
  BY CbAssumption, SMT DEF Slot
<1>2. PICK n \in Nat : n = i + k
  BY <1>1
<1>3. n % Capacity = IF n < Capacity THEN n ELSE n - Capacity
  BY <1>1, <1>2, RingIndex
<1>4. (i + k) % Capacity = Pos(i, k)
  BY <1>2, <1>3, CbAssumption, SMT DEF Slot, Pos
<1>5. QED BY <1>4, CbAssumption, SMT DEF Slot, Pos

\* The slots that follow an advanced index are those that followed it, shifted by one.
LEMMA PosAdvance ==
  ASSUME NEW r \in Slot, NEW i \in 1 .. Capacity - 1
  PROVE  Pos(Advance(r), i - 1) = Pos(r, (i + 1) - 1)
<1>1. CASE r + 1 >= Capacity
  <2>1. Advance(r) = 0 /\ r = Capacity - 1
    BY <1>1, CbAssumption, SMT DEF Advance, Slot
  <2>2. QED BY <2>1, CbAssumption, SMT DEF Pos
<1>2. CASE r + 1 < Capacity
  <2>1. Advance(r) = r + 1
    BY <1>2, CbAssumption, SMT DEF Advance, Slot
  <2>2. QED BY <2>1, <1>2, CbAssumption, SMT DEF Pos, Slot
<1>3. QED BY <1>1, <1>2, CbAssumption, SMT DEF Slot

\* The write index of a well-formed buffer.
LEMMA WriteIndex ==
  ASSUME NEW b, b.r \in Slot, b.size \in 0 .. Capacity, IndicesAgree(b)
  PROVE  b.w = Pos(b.r, b.size)
BY PosIsModular DEF IndicesAgree

\* cb_push keeps the buffer well formed, full or not.
LEMMA PushWellFormed ==
  ASSUME NEW b \in CircularBufferType, IndicesAgree(b), NEW val \in Byte
  PROVE  cb_push(b, val) \in CircularBufferType /\ IndicesAgree(cb_push(b, val))
<1> DEFINE p == cb_push(b, val)
<1>1. /\ b.r \in Slot /\ b.w \in Slot /\ b.size \in 0 .. Capacity
      /\ b.data \in [Slot -> Byte \union {Clobbered}]
  BY DEF CircularBufferType
<1>2. Advance(b.w) \in Slot /\ Advance(b.r) \in Slot
  BY <1>1, AdvanceIsModular
<1>3. p.data \in [Slot -> Byte \union {Clobbered}]
  BY <1>1 DEF cb_push, Stored
<1>4. p.r \in Slot /\ p.w \in Slot /\ p.size \in 0 .. Capacity
  BY <1>1, <1>2, CbAssumption, SMT DEF cb_push
<1>5. p \in CircularBufferType
  BY <1>3, <1>4 DEF CircularBufferType, cb_push
<1>6. p.w = (p.r + p.size) % Capacity
  <2>1. b.w = Pos(b.r, b.size)
    BY <1>1, WriteIndex
  <2>2. p.w = IF b.w + 1 < Capacity THEN b.w + 1 ELSE 0
    BY <1>1, CbAssumption, SMT DEF cb_push, Advance, Slot
  <2>3. (p.r + p.size) % Capacity = Pos(p.r, p.size)
    BY <1>4, PosIsModular
  <2>4. CASE b.size < Capacity
    <3>1. p.r = b.r /\ p.size = b.size + 1
      BY <2>4 DEF cb_push
    <3>2. CASE b.r + b.size < Capacity
      <4>1. p.w = Pos(b.r, b.size + 1)
        BY <2>1, <2>2, <3>2, <2>4, <1>1, CbAssumption, SMTT(60) DEF Slot, Pos
      <4>2. QED BY <2>3, <3>1, <4>1
    <3>3. CASE b.r + b.size >= Capacity
      <4>1. p.w = Pos(b.r, b.size + 1)
        BY <2>1, <2>2, <3>3, <2>4, <1>1, CbAssumption, SMTT(60) DEF Slot, Pos
      <4>2. QED BY <2>3, <3>1, <4>1
    <3>4. QED BY <3>2, <3>3, <1>1, CbAssumption, SMT DEF Slot
  <2>5. CASE b.size = Capacity
    <3>1. p.r = p.w /\ p.size = Capacity
      BY <2>5, <1>1, CbAssumption, SMT DEF cb_push
    <3>2. Pos(p.r, Capacity) = p.r
      BY <1>4, CbAssumption, SMT DEF Slot, Pos
    <3>3. QED BY <2>3, <3>1, <3>2
  <2>6. QED BY <2>4, <2>5, <1>1, CbAssumption, SMT
<1>7. QED BY <1>5, <1>6 DEF IndicesAgree

\* cb_pop keeps the buffer well formed, empty or not, and returns a byte.
LEMMA PopWellFormed ==
  ASSUME NEW b \in CircularBufferType, IndicesAgree(b)
  PROVE  /\ cb_pop(b) \in CircularBufferType /\ IndicesAgree(cb_pop(b))
         /\ cb_popped(b) \subseteq Byte
<1> DEFINE p == cb_pop(b)
<1>1. /\ b.r \in Slot /\ b.w \in Slot /\ b.size \in 0 .. Capacity
      /\ b.data \in [Slot -> Byte \union {Clobbered}]
      /\ b = [r |-> b.r, w |-> b.w, size |-> b.size, data |-> b.data]
  BY DEF CircularBufferType
<1>2. cb_popped(b) \subseteq Byte
  BY <1>1, CbAssumption DEF cb_popped
<1>3. CASE b.size = 0
  BY <1>2, <1>3 DEF cb_pop
<1>4. CASE b.size # 0
  <2>1. p = [r |-> Advance(b.r), w |-> b.w, size |-> b.size - 1, data |-> b.data]
    BY <1>1, <1>4 DEF cb_pop
  <2>2. Advance(b.r) \in Slot /\ b.size - 1 \in 0 .. Capacity
    BY <1>1, <1>4, AdvanceIsModular, CbAssumption, SMT
  <2>3. p \in CircularBufferType
    BY <1>1, <2>1, <2>2 DEF CircularBufferType
  <2>4. b.w = Pos(b.r, b.size)
    BY <1>1, WriteIndex
  <2>5. (Advance(b.r) + (b.size - 1)) % Capacity = Pos(Advance(b.r), b.size - 1)
    BY <2>2, PosIsModular
  <2>6. Advance(b.r) = IF b.r + 1 >= Capacity THEN 0 ELSE b.r + 1
    BY DEF Advance
  <2>7. b.w = (Advance(b.r) + (b.size - 1)) % Capacity
    <3>1. CASE b.r + 1 >= Capacity
      BY <3>1, <2>4, <2>5, <2>6, <1>1, <1>4, CbAssumption, SMTT(60) DEF Slot, Pos
    <3>2. CASE b.r + 1 < Capacity
      BY <3>2, <2>4, <2>5, <2>6, <1>1, <1>4, CbAssumption, SMTT(60) DEF Slot, Pos
    <3>3. QED BY <3>1, <3>2, <1>1, CbAssumption, SMT DEF Slot
  <2>8. QED BY <1>2, <2>1, <2>3, <2>7 DEF IndicesAgree
<1>5. QED BY <1>3, <1>4

\* The history a process starts with, and the one the end of input leaves.
LEMMA EmptyHistory == <<>> \in Seq(Byte) /\ Len(<<>>) <= Remembered
<1>1. <<>> \in Seq(Byte) /\ Len(<<>>) = 0
  BY EmptySeq
<1>2. QED BY <1>1, RememberedAssumption, SMT

\* What the history keeps when a byte arrives: the byte is the last one, and those before it are
\* where they were, counted from the end.
LEMMA RememberKeeps ==
  ASSUME NEW s \in Seq(Byte), Len(s) <= Remembered, NEW val \in Byte
  PROVE  LET t == Remember(s, val)
         IN  /\ t \in Seq(Byte) /\ Len(t) <= Remembered
             /\ Len(t) - 1 = IF Len(s) < Remembered THEN Len(s) ELSE Remembered - 1
             /\ t[Len(t)] = val
             /\ \A k \in 1 .. Len(t) - 1 : t[k] = s[Len(s) - (Len(t) - 1) + k]
<1> DEFINE t == Remember(s, val)
<1>1. Len(s) \in Nat /\ Remembered \in Nat /\ Remembered >= 1
  BY LenProperties, RememberedAssumption, CbAssumption, SMT
<1>2. CASE Len(s) < Remembered
  <2>1. t = Append(s, val)
    BY <1>2 DEF Remember
  <2>2. /\ t \in Seq(Byte) /\ Len(t) = Len(s) + 1 /\ t[Len(s) + 1] = val
        /\ \A k \in 1 .. Len(s) : t[k] = s[k]
    BY <2>1, AppendProperties
  <2>3. Len(t) - 1 = Len(s) /\ Len(s) - (Len(t) - 1) = 0 /\ Len(t) <= Remembered
    BY <2>2, <1>1, <1>2, SMT
  <2> HIDE DEF t
  <2>4. ASSUME NEW k \in 1 .. Len(t) - 1 PROVE t[k] = s[Len(s) - (Len(t) - 1) + k]
    <3>1. k \in 1 .. Len(s) /\ 0 + k = k
      BY <2>3
    <3>2. QED BY <3>1, <2>2, <2>3
  <2>5. QED BY <1>2, <2>2, <2>3, <2>4 DEF t
<1>3. CASE ~(Len(s) < Remembered)
  <2>1. t = Append(Tail(s), val) /\ Len(s) = Remembered /\ s # <<>>
    BY <1>1, <1>3, EmptySeq, SMT DEF Remember
  <2>2. /\ Tail(s) \in Seq(Byte) /\ Len(Tail(s)) = Len(s) - 1
        /\ \A k \in 1 .. Len(s) - 1 : Tail(s)[k] = s[k + 1]
    BY <2>1, HeadTailProperties
  <2>3. /\ t \in Seq(Byte) /\ Len(t) = Len(Tail(s)) + 1 /\ t[Len(Tail(s)) + 1] = val
        /\ \A k \in 1 .. Len(Tail(s)) : t[k] = Tail(s)[k]
    BY <2>1, <2>2, AppendProperties
  <2>4. /\ Len(t) = Remembered /\ Len(t) - 1 = Len(s) - 1 /\ Len(t) = Len(s)
        /\ Len(s) - (Len(t) - 1) = 1
    BY <2>1, <2>2, <2>3, <1>1, SMT
  <2> HIDE DEF t
  <2>5. ASSUME NEW k \in 1 .. Len(t) - 1 PROVE t[k] = s[Len(s) - (Len(t) - 1) + k]
    <3>1. k \in 1 .. Len(s) - 1 /\ k \in 1 .. Len(Tail(s)) /\ 1 + k = k + 1
      BY <2>2, <2>4, <1>1
    <3>2. QED BY <3>1, <2>2, <2>3, <2>4
  <2>6. QED BY <1>1, <1>3, <2>1, <2>2, <2>3, <2>4, <2>5 DEF t
<1>4. QED BY <1>2, <1>3
-------------------------------------------------------------------------------
\* Before init_devices the worker does not exist and the buffer is untouched; before the ROM is
\* loaded no cycle has been counted.
StartupInv ==
  /\ mpc \in {"signals", "ttyraw", "devices"} => wpc = "none" /\ cb = cb_create
  /\ mpc \in {"signals", "ttyraw", "devices", "load"} => ~cycled

\* The inductive invariant: mutual exclusion holds only because nothing runs
\* beside the main thread until the mutex is set up, and the buffer's indices stay
\* in range only because they agree with each other.
IInv == TypeOK /\ MutualExclusion /\ CbIndicesAgree /\ TerminalRestored /\ StartupInv

LEMMA InitIInv == Init => IInv
<1> SUFFICES ASSUME Init PROVE IInv
  OBVIOUS
<1>1. TypeOK
  <2>1. /\ cb \in CircularBufferType /\ answer \in Byte
        /\ sent \in Seq(Byte) /\ Len(sent) <= Remembered
    BY CreateWellFormed, CbAssumption, EmptyHistory DEF Init
  <2>2. mpc \in MainPc /\ wpc \in WorkerPc
    BY DEF Init, MainPc, WorkerPc
  <2>3. QED BY <2>1, <2>2 DEF Init, TypeOK, Free
<1>2. CbIndicesAgree
  BY CreateWellFormed DEF Init, CbIndicesAgree
<1>3. MutualExclusion /\ TerminalRestored /\ StartupInv
  BY DEF Init, MutualExclusion, TerminalRestored, StartupInv, Free, Main, Worker
<1>4. QED BY <1>1, <1>2, <1>3 DEF IInv

\* Steps of the main thread preserve the invariant.
LEMMA MainStepIInv == IInv /\ MainStep => IInv'
<1> SUFFICES ASSUME IInv, MainStep PROVE IInv'
  OBVIOUS
<1> USE DEF IInv, MainAt, Free, Main, Worker, mainVars, workVars, procVars
<1>1. CASE InitSignals \/ TtyRaw \/ LoadRom \/ BeginCycle \/ CycleOther \/ CycleExt
           \/ CycleHalt \/ CycleReadUart \/ CycleSolWrite \/ LeaveLoop
  <2>1. UNCHANGED <<cb, lock, wpc, c, overrun, sent, phantom, answer, status, eof>>
    BY <1>1 DEF InitSignals, TtyRaw, LoadRom, BeginCycle, CycleOther, CycleExt, CycleHalt,
                CycleReadUart, CycleSolWrite, LeaveLoop
  <2>2. mpc' \in MainPc /\ halt' \in BOOLEAN /\ cycled' \in BOOLEAN /\ nameless' \in BOOLEAN
        /\ tty' \in {"original", "raw", "none"} /\ status = "running"
        /\ mpc \notin {"pop", "unlock"} /\ mpc' \notin {"pop", "unlock"}
        /\ (mpc' \in {"ttyraw", "devices"} => mpc \in {"signals", "ttyraw"})
        /\ mpc' # "signals"
        /\ mpc' # "load" /\ (mpc' \in {"ttyraw", "devices"} => cycled' = cycled)
    BY <1>1 DEF InitSignals, TtyRaw, LoadRom, BeginCycle, CycleOther, CycleExt, CycleHalt,
                CycleReadUart, CycleSolWrite, LeaveLoop, TypeOK, MainPc
  <2>3. TypeOK'
    BY <2>1, <2>2 DEF TypeOK
  <2>4. MutualExclusion' /\ StartupInv'
    BY <2>1, <2>2 DEF MutualExclusion, StartupInv
  <2>5. CbIndicesAgree' /\ TerminalRestored'
    BY <2>1, <2>2 DEF CbIndicesAgree, TerminalRestored
  <2>6. QED BY <2>3, <2>4, <2>5
<1>2. CASE InitDevices
  <2>1. cb' \in CircularBufferType /\ IndicesAgree(cb')
    BY <1>2, CreateWellFormed DEF InitDevices
  <2>2. TypeOK'
    BY <1>2, <2>1 DEF InitDevices, TypeOK, MainPc, WorkerPc
  <2>3. MutualExclusion' /\ StartupInv' /\ TerminalRestored'
    BY <1>2 DEF InitDevices, MutualExclusion, StartupInv, TerminalRestored
  <2>4. QED BY <2>1, <2>2, <2>3 DEF CbIndicesAgree
<1>3. CASE MainLock
  <2>1. TypeOK'
    BY <1>3 DEF MainLock, TypeOK, MainPc
  <2>2. MutualExclusion' /\ StartupInv' /\ TerminalRestored' /\ CbIndicesAgree'
    BY <1>3 DEF MainLock, MutualExclusion, StartupInv, TerminalRestored, CbIndicesAgree
  <2>3. QED BY <2>1, <2>2
<1>4. CASE MainPop
  <2>1. cb' \in CircularBufferType /\ IndicesAgree(cb') /\ answer' \in Byte
    BY <1>4, PopWellFormed DEF MainPop, TypeOK, CbIndicesAgree
  <2>2. TypeOK'
    BY <1>4, <2>1 DEF MainPop, TypeOK, MainPc
  <2>3. MutualExclusion' /\ StartupInv' /\ TerminalRestored'
    BY <1>4 DEF MainPop, MutualExclusion, StartupInv, TerminalRestored
  <2>4. QED BY <2>1, <2>2, <2>3 DEF CbIndicesAgree
<1>5. CASE MainUnlock
  <2>1. TypeOK'
    BY <1>5 DEF MainUnlock, TypeOK, MainPc
  <2>2. MutualExclusion' /\ StartupInv' /\ TerminalRestored' /\ CbIndicesAgree'
    BY <1>5 DEF MainUnlock, MutualExclusion, StartupInv, TerminalRestored, CbIndicesAgree
  <2>3. QED BY <2>1, <2>2
<1>6. CASE MainTerminate
  <2>1. TypeOK'
    BY <1>6 DEF MainTerminate, terminate, TypeOK
  <2>2. MutualExclusion' /\ StartupInv' /\ TerminalRestored' /\ CbIndicesAgree'
    BY <1>6
    DEF MainTerminate, terminate, MutualExclusion, StartupInv, TerminalRestored,
        CbIndicesAgree
  <2>3. QED BY <2>1, <2>2
<1>7. CASE LoadNothing
  <2>1. ~cycled
    BY <1>7 DEF LoadNothing, StartupInv
  <2>2. TypeOK'
    BY <1>7 DEF LoadNothing, TypeOK
  <2>3. MutualExclusion' /\ StartupInv' /\ TerminalRestored' /\ CbIndicesAgree'
    BY <1>7, <2>1 DEF LoadNothing, MutualExclusion, StartupInv, TerminalRestored, CbIndicesAgree
  <2>4. QED BY <2>2, <2>3
<1>8. CASE PrintsBadName
  <2>1. TypeOK'
    BY <1>8 DEF PrintsBadName, TypeOK
  <2>2. MutualExclusion' /\ StartupInv' /\ TerminalRestored' /\ CbIndicesAgree'
    BY <1>8 DEF PrintsBadName, MutualExclusion, StartupInv, TerminalRestored, CbIndicesAgree
  <2>3. QED BY <2>1, <2>2
<1>9. QED BY <1>1, <1>2, <1>3, <1>4, <1>5, <1>6, <1>7, <1>8 DEF MainStep

\* Steps of the UART worker, the operating system and the user preserve it.
LEMMA OtherStepIInv == IInv /\ (WorkerStep \/ Environment) => IInv'
<1> SUFFICES ASSUME IInv, WorkerStep \/ Environment PROVE IInv'
  OBVIOUS
<1> USE DEF IInv, WorkerAt, Free, Main, Worker, mainVars, workVars, procVars
<1>1. CASE WorkerTest \/ WorkerReadEof
  <2>1. TypeOK'
    <3>1. sent' \in Seq(Byte) /\ Len(sent') <= Remembered
      BY <1>1, EmptyHistory DEF WorkerTest, WorkerReadEof, TypeOK
    <3>2. QED BY <1>1, <3>1 DEF WorkerTest, WorkerReadEof, TypeOK, WorkerPc
  <2>2. MutualExclusion' /\ StartupInv' /\ TerminalRestored' /\ CbIndicesAgree'
    BY <1>1 DEF WorkerTest, WorkerReadEof, MutualExclusion, StartupInv,
                TerminalRestored, CbIndicesAgree
  <2>3. QED BY <2>1, <2>2
<1>2. CASE WorkerReadByte
  <2>1. c' \in Byte /\ sent' \in Seq(Byte) /\ Len(sent') <= Remembered
    BY <1>2, RememberKeeps DEF WorkerReadByte, TypeOK
  <2>2. TypeOK'
    BY <1>2, <2>1 DEF WorkerReadByte, TypeOK, WorkerPc
  <2>3. MutualExclusion' /\ StartupInv' /\ TerminalRestored' /\ CbIndicesAgree'
    BY <1>2 DEF WorkerReadByte, MutualExclusion, StartupInv, TerminalRestored,
                CbIndicesAgree
  <2>4. QED BY <2>2, <2>3
<1>3. CASE WorkerLock
  <2>1. TypeOK'
    BY <1>3 DEF WorkerLock, TypeOK, WorkerPc
  <2>2. MutualExclusion' /\ StartupInv' /\ TerminalRestored' /\ CbIndicesAgree'
    BY <1>3 DEF WorkerLock, MutualExclusion, StartupInv, TerminalRestored, CbIndicesAgree
  <2>3. QED BY <2>1, <2>2
<1>4. CASE WorkerPush
  <2>1. cb' \in CircularBufferType /\ IndicesAgree(cb')
    BY <1>4, PushWellFormed DEF WorkerPush, TypeOK, CbIndicesAgree
  <2>2. overrun' \in BOOLEAN
    BY <1>4 DEF WorkerPush, TypeOK
  <2>3. TypeOK'
    BY <1>4, <2>1, <2>2 DEF WorkerPush, TypeOK, WorkerPc
  <2>4. MutualExclusion' /\ StartupInv' /\ TerminalRestored'
    BY <1>4 DEF WorkerPush, MutualExclusion, StartupInv, TerminalRestored
  <2>5. QED BY <2>1, <2>3, <2>4 DEF CbIndicesAgree
<1>5. CASE WorkerUnlock
  <2>1. TypeOK'
    BY <1>5 DEF WorkerUnlock, TypeOK, WorkerPc
  <2>2. MutualExclusion' /\ StartupInv' /\ TerminalRestored' /\ CbIndicesAgree'
    BY <1>5 DEF WorkerUnlock, MutualExclusion, StartupInv, TerminalRestored,
                CbIndicesAgree
  <2>3. QED BY <2>1, <2>2
<1>6. CASE sigcatch \/ HeapFault \/ CloseInput
  <2>1. TypeOK'
    BY <1>6 DEF sigcatch, terminate, HeapFault, CloseInput, TypeOK
  <2>2. MutualExclusion' /\ StartupInv' /\ TerminalRestored' /\ CbIndicesAgree'
    BY <1>6 DEF sigcatch, terminate, HeapFault, CloseInput, MutualExclusion,
                StartupInv, TerminalRestored, CbIndicesAgree
  <2>3. QED BY <2>1, <2>2
<1>7. QED
  BY <1>1, <1>2, <1>3, <1>4, <1>5, <1>6 DEF WorkerStep, Environment

LEMMA InvariantHolds == Spec => []IInv
<1>1. IInv /\ [Next]_vars => IInv'
  <2> SUFFICES ASSUME IInv, [Next]_vars PROVE IInv'
    OBVIOUS
  <2>1. CASE UNCHANGED vars
    BY <2>1 DEF vars, mainVars, workVars, procVars, IInv, TypeOK, MutualExclusion,
                StartupInv, TerminalRestored, CbIndicesAgree
  <2>2. CASE Done
    BY <2>1, <2>2 DEF Done
  <2>3. QED BY <2>1, <2>2, MainStepIInv, OtherStepIInv DEF Next
<1>2. QED BY InitIInv, <1>1, PTL DEF Spec

\* Every reachable state of the simulator process is well typed: in particular the
\* ring buffer's indices never leave 0 .. Capacity - 1.
THEOREM TypeCorrect == Spec => []TypeOK
<1>1. IInv => TypeOK
  BY DEF IInv
<1>2. QED BY <1>1, InvariantHolds, PTL

\* The UART worker and the guest's device read exclude each other.
THEOREM BufferAccessExclusive == Spec => []MutualExclusion
<1>1. IInv => MutualExclusion
  BY DEF IInv
<1>2. QED BY <1>1, InvariantHolds, PTL

\* Read index, write index and size agree at every capacity.
THEOREM BufferIndicesAgree == Spec => []CbIndicesAgree
<1>1. IInv => CbIndicesAgree
  BY DEF IInv
<1>2. QED BY <1>1, InvariantHolds, PTL

\* A process that ends leaves the terminal in raw mode only by dying before a cycle is counted,
\* after a write outside the arena, or with a section selected that has no names.
THEOREM TerminalIsRestored == Spec => []TerminalRestored
<1>1. IInv => TerminalRestored
  BY DEF IInv
<1>2. QED BY <1>1, InvariantHolds, PTL
-------------------------------------------------------------------------------
\* The buffer implements the channel.

Element == Byte \union {Clobbered}

\* The abstraction function yields a sequence of `size` elements.
LEMMA ContentsIsSeq ==
  ASSUME NEW b \in CircularBufferType
  PROVE  /\ Contents(b) \in Seq(Element)
         /\ Len(Contents(b)) = b.size
         /\ \A i \in 1 .. b.size : Contents(b)[i] = b.data[Pos(b.r, i - 1)]
<1>1. b.r \in Slot /\ b.size \in 0 .. Capacity /\ b.data \in [Slot -> Element]
  BY CbAssumption DEF CircularBufferType, Element
<1>2. ASSUME NEW i \in 1 .. b.size
      PROVE  /\ (b.r + (i - 1)) % Capacity = Pos(b.r, i - 1)
             /\ Pos(b.r, i - 1) \in Slot
  <2>1. i - 1 \in 0 .. Capacity
    BY <1>1, CbAssumption, SMT
  <2>2. QED BY <1>1, <2>1, PosIsModular
<1>3. ASSUME NEW i \in 1 .. b.size PROVE b.data[(b.r + (i - 1)) % Capacity] \in Element
  BY <1>1, <1>2
<1>4. Contents(b) \in [1 .. b.size -> Element]
  BY <1>3 DEF Contents
<1>5. b.size \in Nat
  BY <1>1, CbAssumption, SMT
<1>6. Contents(b) \in Seq(Element)
  BY <1>4, <1>5, SeqDef
<1>7. Len(Contents(b)) = b.size
  BY <1>4, <1>5, <1>6, LenProperties
<1>8. QED BY <1>2, <1>6, <1>7 DEF Contents

\* A push appends to the contents, at the expense of the oldest element when full.
LEMMA ContentsPush ==
  ASSUME NEW b \in CircularBufferType, IndicesAgree(b), NEW val \in Byte
  PROVE  Contents(cb_push(b, val))
           = Append(IF Len(Contents(b)) < Capacity THEN Contents(b)
                    ELSE Tail(Contents(b)),
                    Stored(b.w, val))
<1> DEFINE p == cb_push(b, val)
           e == Stored(b.w, val)
<1>1. /\ b.r \in Slot /\ b.w \in Slot /\ b.size \in 0 .. Capacity
      /\ b.data \in [Slot -> Element]
  BY DEF CircularBufferType, Element
<1>2. e \in Element
  BY DEF Stored, Element
<1>3. p \in CircularBufferType
  BY PushWellFormed
<1>4. p.data = [b.data EXCEPT ![b.w] = e]
  BY DEF cb_push
<1>5. b.w = Pos(b.r, b.size)
  BY <1>1, WriteIndex
<1>6. /\ Contents(p) \in Seq(Element) /\ Len(Contents(p)) = p.size
      /\ \A i \in 1 .. p.size : Contents(p)[i] = p.data[Pos(p.r, i - 1)]
  BY <1>3, ContentsIsSeq
<1>7. /\ Contents(b) \in Seq(Element) /\ Len(Contents(b)) = b.size
      /\ \A i \in 1 .. b.size : Contents(b)[i] = b.data[Pos(b.r, i - 1)]
  BY ContentsIsSeq
<1> HIDE DEF p, e
<1>8. CASE b.size < Capacity
  <2> DEFINE t == Append(Contents(b), e)
  <2>1. p.r = b.r /\ p.size = b.size + 1
    BY <1>8 DEF cb_push, p
  <2>2. /\ t \in Seq(Element) /\ Len(t) = b.size + 1
        /\ \A i \in 1 .. b.size : t[i] = Contents(b)[i]
        /\ t[b.size + 1] = e
    BY <1>2, <1>7, AppendProperties
  <2>3. ASSUME NEW i \in 1 .. b.size PROVE Contents(p)[i] = t[i]
    <3>1. Pos(b.r, i - 1) \in Slot /\ Pos(b.r, i - 1) # b.w
      BY <1>1, <1>5, <1>8, CbAssumption, SMTT(60) DEF Slot, Pos
    <3>2. i \in 1 .. p.size
      BY <1>1, <2>1, CbAssumption, SMT
    <3>3. Contents(p)[i] = p.data[Pos(b.r, i - 1)]
      BY <3>2, <1>6, <2>1
    <3>4. p.data[Pos(b.r, i - 1)] = b.data[Pos(b.r, i - 1)]
      BY <3>1, <1>4, <1>1
    <3>5. QED BY <3>3, <3>4, <1>7, <2>2
  <2>4. Contents(p)[b.size + 1] = e
    <3>1. b.size + 1 \in 1 .. p.size /\ (b.size + 1) - 1 = b.size
      BY <1>1, <2>1, CbAssumption, SMT
    <3>2. Contents(p)[b.size + 1] = p.data[b.w]
      BY <3>1, <1>5, <1>6, <2>1
    <3>3. QED BY <3>2, <1>4, <1>1
  <2>5. ASSUME NEW i \in 1 .. Len(Contents(p)) PROVE Contents(p)[i] = t[i]
    <3>1. i \in 1 .. b.size \/ i = b.size + 1
      BY <1>1, <1>6, <2>1, CbAssumption, SMT
    <3>2. QED BY <3>1, <2>2, <2>3, <2>4
  <2> HIDE DEF t
  <2>6. Contents(p) = t
    BY <1>6, <2>1, <2>2, <2>5, SeqEqual
  <2>7. QED BY <2>6, <1>7, <1>8 DEF t, p, e
<1>9. CASE b.size = Capacity
  <2> DEFINE tl == Tail(Contents(b))
             t == Append(tl, e)
  <2>1. p.size = Capacity /\ p.r = Advance(b.w) /\ b.w = b.r
    BY <1>9, <1>1, <1>5, CbAssumption, SMT DEF cb_push, p, Slot, Pos
  <2>2. Contents(b) # <<>>
    BY <1>7, <1>9, CbAssumption, EmptySeq, SMT
  <2>3. /\ tl \in Seq(Element) /\ Len(tl) = Capacity - 1
        /\ \A i \in 1 .. Capacity - 1 : tl[i] = Contents(b)[i + 1]
    BY <1>7, <1>9, <2>2, HeadTailProperties
  <2> HIDE DEF tl
  <2>4. /\ t \in Seq(Element) /\ Len(t) = Capacity
        /\ \A i \in 1 .. Capacity - 1 : t[i] = tl[i]
        /\ t[Capacity] = e
    <3>1. (Capacity - 1) + 1 = Capacity
      BY CbAssumption, SMT
    <3>2. QED BY <1>2, <2>3, <3>1, AppendProperties
  <2>5. p.r = IF b.r + 1 >= Capacity THEN 0 ELSE b.r + 1
    BY <2>1 DEF Advance
  <2>6. ASSUME NEW i \in 1 .. Capacity - 1 PROVE Contents(p)[i] = t[i]
    <3>1. Pos(p.r, i - 1) = Pos(b.r, (i + 1) - 1)
      BY <2>1, <1>1, PosAdvance
    <3>2. Pos(p.r, i - 1) \in Slot /\ Pos(p.r, i - 1) # b.w
      BY <2>1, <2>5, <1>1, CbAssumption, SMT DEF Slot, Pos
    <3>3. i \in 1 .. p.size /\ i + 1 \in 1 .. b.size
      BY <2>1, <1>9, CbAssumption, SMT
    <3>4. Contents(p)[i] = p.data[Pos(p.r, i - 1)]
      BY <3>3, <1>6
    <3>5. p.data[Pos(p.r, i - 1)] = b.data[Pos(p.r, i - 1)]
      BY <3>2, <1>4, <1>1
    <3>6. Contents(b)[i + 1] = b.data[Pos(b.r, (i + 1) - 1)]
      BY <3>3, <1>7
    <3>7. QED BY <3>1, <3>4, <3>5, <3>6, <2>3, <2>4
  <2>7. Contents(p)[Capacity] = e
    <3>1. Pos(p.r, Capacity - 1) = b.w
      BY <2>1, <2>5, <1>1, CbAssumption, SMT DEF Slot, Pos
    <3>2. Capacity \in 1 .. p.size
      BY <2>1, CbAssumption, SMT
    <3>3. Contents(p)[Capacity] = p.data[b.w]
      BY <3>1, <3>2, <1>6
    <3>4. QED BY <3>3, <1>4, <1>1
  <2>8. ASSUME NEW i \in 1 .. Len(Contents(p)) PROVE Contents(p)[i] = t[i]
    <3>1. i \in 1 .. Capacity - 1 \/ i = Capacity
      BY <1>6, <2>1, CbAssumption, SMT
    <3>2. QED BY <3>1, <2>4, <2>6, <2>7
  <2> HIDE DEF t
  <2>9. Contents(p) = t
    BY <1>6, <2>1, <2>4, <2>8, SeqEqual
  <2>10. QED BY <2>9, <1>7, <1>9, CbAssumption DEF t, tl, p, e
<1>10. QED BY <1>8, <1>9, <1>1, CbAssumption, SMT

\* A pop of a buffer that is not empty takes the oldest element.
LEMMA ContentsPop ==
  ASSUME NEW b \in CircularBufferType, IndicesAgree(b), b.size # 0
  PROVE  /\ Contents(b) # <<>>
         /\ Head(Contents(b)) = b.data[b.r]
         /\ Contents(cb_pop(b)) = Tail(Contents(b))
<1> DEFINE p == cb_pop(b)
           t == Tail(Contents(b))
<1>1. /\ b.r \in Slot /\ b.w \in Slot /\ b.size \in 1 .. Capacity
      /\ b.data \in [Slot -> Element]
  BY CbAssumption DEF CircularBufferType, Element
<1>2. p \in CircularBufferType
  BY PopWellFormed
<1>3. p.r = Advance(b.r) /\ p.size = b.size - 1 /\ p.data = b.data
  BY DEF cb_pop, CircularBufferType
<1>4. /\ Contents(p) \in Seq(Element) /\ Len(Contents(p)) = p.size
      /\ \A i \in 1 .. p.size : Contents(p)[i] = p.data[Pos(p.r, i - 1)]
  BY <1>2, ContentsIsSeq
<1>5. /\ Contents(b) \in Seq(Element) /\ Len(Contents(b)) = b.size
      /\ \A i \in 1 .. b.size : Contents(b)[i] = b.data[Pos(b.r, i - 1)]
  BY ContentsIsSeq
<1>6. Contents(b) # <<>>
  BY <1>1, <1>5, EmptySeq, SMT
<1>7. /\ t \in Seq(Element) /\ Len(t) = b.size - 1
      /\ \A i \in 1 .. b.size - 1 : t[i] = Contents(b)[i + 1]
  BY <1>5, <1>6, HeadTailProperties
<1>8. Head(Contents(b)) = b.data[b.r]
  <2>1. Head(Contents(b)) = Contents(b)[1]
    BY <1>5, <1>6
  <2>2. Pos(b.r, 1 - 1) = b.r /\ 1 \in 1 .. b.size
    BY <1>1, CbAssumption, SMT DEF Slot, Pos
  <2>3. QED BY <2>1, <2>2, <1>5
<1> HIDE DEF p, t
<1>9. ASSUME NEW i \in 1 .. Len(Contents(p)) PROVE Contents(p)[i] = t[i]
  <2>1. i \in 1 .. b.size - 1 /\ i + 1 \in 1 .. b.size /\ i \in 1 .. p.size
    BY <1>1, <1>3, <1>4, CbAssumption, SMT
  <2>2. Pos(p.r, i - 1) = Pos(b.r, (i + 1) - 1)
    <3>1. i \in 1 .. Capacity - 1
      BY <2>1, <1>1, CbAssumption, SMT
    <3>2. QED BY <3>1, <1>1, <1>3, PosAdvance
  <2>3. Contents(p)[i] = b.data[Pos(p.r, i - 1)]
    BY <2>1, <1>3, <1>4
  <2>4. Contents(b)[i + 1] = b.data[Pos(b.r, (i + 1) - 1)]
    BY <2>1, <1>5
  <2>5. QED BY <2>1, <2>2, <2>3, <2>4, <1>7
<1>10. Contents(p) = t
  BY <1>3, <1>4, <1>7, <1>9, SeqEqual
<1>11. QED BY <1>6, <1>8, <1>10 DEF p, t

\* Every step of the process is a step of the channel or does not touch it.
LEMMA ChannelStep == IInv /\ [Next]_vars => [Channel!Next]_(Channel!vars)
<1> SUFFICES ASSUME IInv, [Next]_vars PROVE [Channel!Next]_(Channel!vars)
  OBVIOUS
<1>1. cb \in CircularBufferType /\ IndicesAgree(cb) /\ c \in Byte
  BY DEF IInv, TypeOK, CbIndicesAgree
<1>2. CASE MainPop
  <2>1. UNCHANGED cb.w
    BY <1>2 DEF MainPop, cb_pop, CircularBufferType
  <2>2. CASE cb.size = 0
    <3>1. answer' = 0 /\ UNCHANGED cb
      BY <1>2, <2>2 DEF MainPop, cb_popped, cb_pop
    <3>2. Contents(cb) = <<>>
      BY <1>1, <2>2, ContentsIsSeq, EmptySeq
    <3>3. Channel!GetNothing
      BY <3>1, <3>2 DEF Channel!GetNothing
    <3>4. QED BY <3>3 DEF Channel!Next
  <2>3. CASE cb.size # 0
    <3>1. answer' \in (IF cb.data[cb.r] = Clobbered THEN Byte ELSE {cb.data[cb.r]})
      BY <1>2, <2>3 DEF MainPop, cb_popped
    <3>2. Contents(cb') = Tail(Contents(cb))
      BY <1>1, <1>2, <2>3, ContentsPop DEF MainPop
    <3>3. Contents(cb) # <<>> /\ Head(Contents(cb)) = cb.data[cb.r]
      BY <1>1, <2>3, ContentsPop
    <3>4. Channel!Get
      BY <2>1, <3>1, <3>2, <3>3 DEF Channel!Get
    <3>5. QED BY <3>4 DEF Channel!Next
  <2>4. QED BY <2>2, <2>3
<1>3. CASE WorkerPush
  <2>1. Contents(cb') = Append(IF Len(Contents(cb)) < Capacity THEN Contents(cb)
                               ELSE Tail(Contents(cb)),
                               Stored(cb.w, c))
    BY <1>1, <1>3, ContentsPush DEF WorkerPush
  <2>2. (cb.w)' = (cb.w + 1) % Capacity
    BY <1>1, <1>3, AdvanceIsModular DEF WorkerPush, cb_push, CircularBufferType
  <2>3. UNCHANGED answer
    BY <1>3 DEF WorkerPush, mainVars
  <2>4. Channel!Accepted(c) = Stored(cb.w, c)
    BY DEF Channel!Accepted, Stored
  <2>5. Channel!Put
    BY <1>1, <2>1, <2>2, <2>3, <2>4 DEF Channel!Put
  <2>6. QED BY <2>5 DEF Channel!Next
<1>4. CASE InitDevices
  <2>1. UNCHANGED <<cb, answer>>
    BY <1>4 DEF InitDevices, MainAt, IInv, StartupInv
  <2>2. QED BY <2>1 DEF Channel!vars
<1>5. CASE ~(MainPop \/ WorkerPush \/ InitDevices)
  <2>1. UNCHANGED <<cb, answer>>
    BY <1>5 DEF Next, MainStep, WorkerStep, Environment, Done, vars, mainVars,
       workVars, procVars, InitSignals, TtyRaw, LoadRom, LoadNothing, BeginCycle, CycleOther,
       CycleExt, CycleHalt, CycleReadUart, CycleSolWrite, PrintsBadName, MainLock, MainUnlock, LeaveLoop, MainTerminate,
       WorkerTest, WorkerReadByte, WorkerReadEof, WorkerLock, WorkerUnlock,
       sigcatch, HeapFault, CloseInput
  <2>2. QED BY <2>1 DEF Channel!vars
<1>6. QED BY <1>2, <1>3, <1>4, <1>5

\* sim.c's UART, at every interleaving of its two threads and at every capacity,
\* implements the lossy FIFO channel.
THEOREM ImplementsChannel == Spec => ChannelSpec
<1>1. Init => Channel!Init
  <2> SUFFICES ASSUME Init PROVE Channel!Init
    OBVIOUS
  <2>1. cb = cb_create /\ answer = 0
    BY DEF Init
  <2>2. Contents(cb) = <<>> /\ cb.w = 0
    BY <2>1, CreateWellFormed, ContentsIsSeq, EmptySeq DEF cb_create
  <2>3. QED BY <2>1, <2>2 DEF Channel!Init
<1>2. QED
  BY <1>1, ChannelStep, InvariantHolds, PTL DEF Spec, ChannelSpec, Channel!Spec
-------------------------------------------------------------------------------
\* What waits in the buffer is the newest input.

\* The steps that neither move input nor touch the buffer.
Quiet == UNCHANGED <<cb, c, sent, phantom>> /\ InFlight' = InFlight

\* All steps but five are quiet: the two ways read() returns, the push, the pop, and the
\* second cb_create, which finds the buffer as the first one left it.
LEMMA QuietSteps ==
  ASSUME IInv, [Next]_vars,
         ~(WorkerReadByte \/ WorkerReadEof \/ WorkerPush \/ MainPop)
  PROVE  Quiet
<1>1. CASE InitDevices
  BY <1>1 DEF InitDevices, MainAt, IInv, StartupInv, InFlight, Quiet
<1>2. CASE ~InitDevices
  BY <1>2 DEF Next, MainStep, WorkerStep, Environment, Done, vars, mainVars, workVars,
     procVars, InitSignals, TtyRaw, LoadRom, LoadNothing, BeginCycle, CycleOther, CycleExt,
     CycleHalt, CycleReadUart, CycleSolWrite, PrintsBadName, MainLock, MainUnlock, LeaveLoop, MainTerminate, WorkerTest, WorkerLock,
     WorkerUnlock, WorkerAt, sigcatch, HeapFault, CloseInput, InFlight, Quiet
<1>3. QED BY <1>1, <1>2

\* The contents in terms of the slots, for the invariant and for its successor.
Holds(b, s, arrived) ==
  \A i \in 1 .. b.size :
    Pos(b.r, i - 1) >= ArenaSlots \/ Contents(b)[i] = s[arrived - b.size + i]

Newest ==
  ~phantom => /\ cb.size <= Len(sent) - InFlight
              /\ Holds(cb, sent, Len(sent) - InFlight)
              /\ InFlight = 1 => c = sent[Len(sent)]

LEMMA NewestIsInvariant == TypeOK => (Newest <=> BufferIsNewestInput)
<1> SUFFICES ASSUME TypeOK PROVE Newest <=> BufferIsNewestInput
  OBVIOUS
<1>1. cb.r \in Slot /\ cb.size \in 0 .. Capacity
  BY DEF TypeOK, CircularBufferType
<1>2. ASSUME NEW i \in 1 .. cb.size PROVE (cb.r + (i - 1)) % Capacity = Pos(cb.r, i - 1)
  <2>1. i - 1 \in 0 .. Capacity
    BY <1>1, CbAssumption, SMT
  <2>2. QED BY <1>1, <2>1, PosIsModular
<1>3. QED BY <1>2 DEF Newest, Holds, BufferIsNewestInput

\* A byte that arrives is appended to the input and not yet counted as arrived.
LEMMA NewestReadByte ==
  ASSUME IInv, Newest, WorkerReadByte
  PROVE  Newest'
<1> SUFFICES ASSUME ~phantom PROVE Newest'
  BY DEF WorkerReadByte, Newest
<1>1. PICK val \in Byte : c' = val /\ sent' = Remember(sent, val)
  BY DEF WorkerReadByte
<1>2. InFlight = 0 /\ InFlight' = 1 /\ cb' = cb /\ phantom' = phantom
  BY DEF WorkerReadByte, WorkerAt, InFlight
<1>3. /\ sent \in Seq(Byte) /\ Len(sent) <= Remembered /\ Len(sent) \in Nat
      /\ cb.size \in 0 .. Capacity
  BY LenProperties DEF IInv, TypeOK, CircularBufferType
<1> DEFINE kept == Len(sent') - 1
<1>4. /\ Len(sent') \in Nat /\ sent'[Len(sent')] = val
      /\ kept = IF Len(sent) < Remembered THEN Len(sent) ELSE Remembered - 1
      /\ \A k \in 1 .. kept : sent'[k] = sent[Len(sent) - kept + k]
  BY <1>1, <1>3, RememberKeeps, LenProperties
<1> HIDE DEF kept
<1>5. cb.size <= Len(sent) /\ Holds(cb, sent, Len(sent))
  BY <1>2, <1>3 DEF Newest
<1>6. cb.size <= kept /\ kept \in Nat
  BY <1>3, <1>4, <1>5, CbAssumption, RememberedAssumption, SMT
<1>7. ASSUME NEW i \in 1 .. cb.size
      PROVE  sent'[kept - cb.size + i] = sent[Len(sent) - cb.size + i]
  <2>1. /\ kept - cb.size + i \in 1 .. kept
        /\ Len(sent) - kept + (kept - cb.size + i) = Len(sent) - cb.size + i
    BY <1>3, <1>6, CbAssumption, SMT
  <2>2. QED BY <2>1, <1>4
<1>8. Holds(cb, sent', kept)
  BY <1>5, <1>7 DEF Holds
<1>9. Len(sent') - InFlight' = kept
  BY <1>2 DEF kept
<1>10. (cb.size <= Len(sent) - InFlight)'
  BY <1>2, <1>6, <1>9
<1>11. Holds(cb, sent, Len(sent) - InFlight)'
  BY <1>2, <1>8, <1>9 DEF Holds
<1>12. QED BY <1>1, <1>4, <1>10, <1>11 DEF Newest

\* A push takes the newest byte into the buffer; a full buffer forgets the oldest.
LEMMA NewestPush ==
  ASSUME IInv, Newest, WorkerPush
  PROVE  Newest'
<1> DEFINE b == cb
           p == cb_push(cb, c)
           n == Len(sent)
<1> SUFFICES ASSUME ~phantom PROVE Newest'
  BY DEF WorkerPush, Newest
<1>1. /\ b \in CircularBufferType /\ IndicesAgree(b) /\ c \in Byte /\ sent \in Seq(Byte)
      /\ b.r \in Slot /\ b.w \in Slot /\ b.size \in 0 .. Capacity
  BY DEF IInv, TypeOK, CbIndicesAgree, CircularBufferType
<1>2. /\ InFlight = 1 /\ InFlight' = 0 /\ cb' = p
      /\ UNCHANGED <<c, sent, phantom>> /\ n \in Nat
  BY <1>1, LenProperties DEF WorkerPush, WorkerAt, InFlight
<1>3. b.size <= n - 1 /\ Holds(b, sent, n - 1) /\ c = sent[n]
  BY <1>2 DEF Newest
<1>4. /\ Contents(b) \in Seq(Element) /\ Len(Contents(b)) = b.size
      /\ p \in CircularBufferType
      /\ Len(Contents(p)) = p.size
      /\ Contents(p) = Append(IF Len(Contents(b)) < Capacity THEN Contents(b)
                              ELSE Tail(Contents(b)), Stored(b.w, c))
  BY <1>1, ContentsIsSeq, ContentsPush, PushWellFormed
<1>5. Stored(b.w, c) \in Element
  BY <1>1 DEF Stored, Element
<1>6. b.w = Pos(b.r, b.size)
  BY <1>1, WriteIndex
<1>7. Capacity \in Nat /\ Capacity >= 1
  BY CbAssumption
<1> SUFFICES p.size <= n /\ Holds(p, sent, n)
  BY <1>2 DEF Newest, Holds
<1>8. CASE b.size < Capacity
  <2>1. p.r = b.r /\ p.size = b.size + 1
    BY <1>8 DEF cb_push
  <2>2. Contents(p) = Append(Contents(b), Stored(b.w, c))
    BY <1>4, <1>8
  <2>3. /\ \A i \in 1 .. b.size : Contents(p)[i] = Contents(b)[i]
        /\ Contents(p)[b.size + 1] = Stored(b.w, c)
    BY <1>4, <1>5, <2>2, AppendProperties
  <2>4. ASSUME NEW i \in 1 .. p.size
        PROVE  Pos(p.r, i - 1) >= ArenaSlots \/ Contents(p)[i] = sent[n - p.size + i]
    <3>1. CASE i = b.size + 1
      <4>1. Pos(p.r, i - 1) = b.w /\ n - p.size + i = n
        BY <3>1, <2>1, <1>1, <1>2, <1>6, <1>7, SMT
      <4>2. b.w >= ArenaSlots \/ Stored(b.w, c) = c
        BY <1>1, <1>7, CbAssumption, SMT DEF Stored, ArenaSlots, Slot
      <4>3. QED BY <3>1, <4>1, <4>2, <2>3, <1>3
    <3>2. CASE i \in 1 .. b.size
      <4>1. n - p.size + i = n - 1 - b.size + i
        BY <2>1, <1>1, <1>2, <1>7, <3>2, SMT
      <4>2. QED BY <4>1, <3>2, <2>1, <2>3, <1>3 DEF Holds
    <3>3. QED BY <3>1, <3>2, <2>1, <1>1, <1>7, SMT
  <2>5. p.size <= n
    BY <2>1, <1>1, <1>2, <1>3, <1>7, SMT
  <2>6. QED BY <2>4, <2>5 DEF Holds
<1>9. CASE b.size = Capacity
  <2>1. p.size = Capacity /\ p.r = Advance(b.w) /\ b.w = b.r
    BY <1>9, <1>1, <1>6, <1>7, SMT DEF cb_push, Slot, Pos
  <2>2. Contents(p) = Append(Tail(Contents(b)), Stored(b.w, c))
    BY <1>4, <1>9, <1>7
  <2>3. Contents(b) # <<>>
    BY <1>4, <1>9, <1>7, EmptySeq, SMT
  <2>4. /\ Tail(Contents(b)) \in Seq(Element) /\ Len(Tail(Contents(b))) = Capacity - 1
        /\ \A i \in 1 .. Capacity - 1 : Tail(Contents(b))[i] = Contents(b)[i + 1]
    BY <1>4, <1>9, <2>3, HeadTailProperties
  <2>5. /\ \A i \in 1 .. Capacity - 1 : Contents(p)[i] = Contents(b)[i + 1]
        /\ Contents(p)[Capacity] = Stored(b.w, c)
    <3>1. (Capacity - 1) + 1 = Capacity
      BY <1>7, SMT
    <3>2. QED BY <1>5, <2>2, <2>4, <3>1, AppendProperties
  <2>6. ASSUME NEW i \in 1 .. p.size
        PROVE  Pos(p.r, i - 1) >= ArenaSlots \/ Contents(p)[i] = sent[n - p.size + i]
    <3>1. CASE i = Capacity
      <4>1. Pos(p.r, i - 1) = b.w /\ n - p.size + i = n
        BY <3>1, <2>1, <1>1, <1>2, <1>7, SMT DEF Pos, Advance, Slot
      <4>2. b.w >= ArenaSlots \/ Stored(b.w, c) = c
        BY <1>1, <1>7, CbAssumption, SMT DEF Stored, ArenaSlots, Slot
      <4>3. QED BY <3>1, <4>1, <4>2, <2>5, <1>3
    <3>2. CASE i \in 1 .. Capacity - 1
      <4>1. n - p.size + i = n - 1 - b.size + (i + 1) /\ i + 1 \in 1 .. b.size
        BY <2>1, <1>9, <1>2, <1>7, <3>2, SMT
      <4>2. Pos(p.r, i - 1) = Pos(b.r, (i + 1) - 1)
        BY <2>1, <1>1, <3>2, PosAdvance
      <4>3. QED BY <4>1, <4>2, <3>2, <2>5, <1>3 DEF Holds
    <3>3. QED BY <3>1, <3>2, <2>1, <1>7, SMT
  <2>7. p.size <= n
    BY <2>1, <1>9, <1>2, <1>3, <1>7, SMT
  <2>8. QED BY <2>6, <2>7 DEF Holds
<1>10. QED BY <1>8, <1>9, <1>1, <1>7, SMT

\* A pop takes the oldest byte; the others move up.
LEMMA NewestPop ==
  ASSUME IInv, Newest, MainPop
  PROVE  Newest'
<1> DEFINE b == cb
           p == cb_pop(cb)
           n == Len(sent) - InFlight
<1>1. /\ b \in CircularBufferType /\ IndicesAgree(b) /\ sent \in Seq(Byte)
      /\ b.r \in Slot /\ b.size \in 0 .. Capacity
  BY DEF IInv, TypeOK, CbIndicesAgree, CircularBufferType
<1>2. /\ cb' = p /\ UNCHANGED <<c, sent, phantom>> /\ InFlight' = InFlight /\ n \in Int
  BY <1>1, LenProperties DEF MainPop, workVars, InFlight
<1>3. CASE b.size = 0
  BY <1>2, <1>3 DEF cb_pop, Newest, Holds
<1>4. CASE b.size # 0
  <2> SUFFICES ASSUME ~phantom PROVE p.size <= n /\ Holds(p, sent, n)
    BY <1>2 DEF Newest, Holds
  <2>1. b.size <= n /\ Holds(b, sent, n)
    BY DEF Newest
  <2>2. p.r = Advance(b.r) /\ p.size = b.size - 1 /\ Contents(p) = Tail(Contents(b))
    BY <1>1, <1>4, ContentsPop DEF cb_pop, CircularBufferType
  <2>3. \A i \in 1 .. b.size - 1 : Contents(p)[i] = Contents(b)[i + 1]
    <3>1. /\ Contents(b) \in Seq(Element) /\ Len(Contents(b)) = b.size
          /\ Contents(b) # <<>>
      BY <1>1, <1>4, ContentsIsSeq, ContentsPop
    <3>2. QED BY <2>2, <3>1, HeadTailProperties
  <2>4. ASSUME NEW i \in 1 .. p.size
        PROVE  Pos(p.r, i - 1) >= ArenaSlots \/ Contents(p)[i] = sent[n - p.size + i]
    <3>1. /\ i \in 1 .. b.size - 1 /\ i + 1 \in 1 .. b.size /\ i \in 1 .. Capacity - 1
          /\ n - p.size + i = n - b.size + (i + 1)
      BY <2>2, <1>1, <1>2, CbAssumption, SMT
    <3>2. Pos(p.r, i - 1) = Pos(b.r, (i + 1) - 1)
      BY <3>1, <2>2, <1>1, PosAdvance
    <3>3. QED BY <3>1, <3>2, <2>1, <2>3 DEF Holds
  <2>5. p.size <= n
    BY <2>1, <2>2, <1>1, <1>2, CbAssumption, SMT
  <2>6. QED BY <2>4, <2>5 DEF Holds
<1>5. QED BY <1>3, <1>4

\* At every capacity and at every interleaving, until standard input ends the buffer holds the
\* newest bytes that arrived, each once and in order.
THEOREM BufferHoldsNewestInput == Spec => []BufferIsNewestInput
<1>1. Init => Newest
  <2> SUFFICES ASSUME Init PROVE Newest
    OBVIOUS
  <2>1. cb.size = 0 /\ sent = <<>> /\ InFlight = 0
    BY DEF Init, cb_create, InFlight
  <2>2. Len(sent) = 0
    BY <2>1
  <2>3. QED BY <2>1, <2>2 DEF Newest, Holds
<1>2. IInv /\ Newest /\ [Next]_vars => Newest'
  <2> SUFFICES ASSUME IInv, Newest, [Next]_vars PROVE Newest'
    OBVIOUS
  <2>1. CASE WorkerReadEof
    BY <2>1 DEF WorkerReadEof, Newest
  <2>2. CASE ~(WorkerReadByte \/ WorkerReadEof \/ WorkerPush \/ MainPop)
    <3>1. Quiet
      BY <2>2, QuietSteps
    <3>2. QED BY <3>1 DEF Quiet, Newest, Holds
  <2>3. QED BY <2>1, <2>2, NewestReadByte, NewestPush, NewestPop
<1>3. IInv => TypeOK
  BY DEF IInv
<1>4. QED BY <1>1, <1>2, <1>3, InvariantHolds, NewestIsInvariant, PTL DEF Spec
===============================================================================
