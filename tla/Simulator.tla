------------------------------- MODULE Simulator -------------------------------
(***************************************************************************)
(* The process of sim/sim.c: the main thread that starts up, runs guest    *)
(* instructions and terminates, the UART worker thread that moves input    *)
(* bytes into the circular buffer, the mutex between them, the unprotected *)
(* halt flag, the terminal mode and the termination signals.  What a guest *)
(* instruction computes is the subject of module Cpu; here it matters only *)
(* whether it reads the UART, stops the simulator or selects a section     *)
(* that has no names.                                                      *)
(***************************************************************************)
EXTENDS CircularBuffer, Sequences

CONSTANT Remembered   \* bound: how many of the newest bytes typed the history keeps

\* The history holds a full buffer and the byte the worker has in hand.
ASSUME RememberedAssumption == Remembered \in Nat /\ Remembered > Capacity

VARIABLES
  mpc,      \* where the main thread is
  wpc,      \* where the UART worker is
  c,        \* the worker's local `int c` (its low byte)
  cb,       \* uart_cb
  lock,     \* uart_cb_lock: the thread holding it
  answer,   \* what the guest's last uart_device_read returned
  halt,     \* the flag both threads poll
  cycled,   \* cycle_counter > 0
  nameless, \* r.sect has no names in ops_text, and print_state may look for one
  tty,      \* mode of standard input, "none" when it is not a terminal
  status,   \* of the process
  eof,      \* standard input has ended
  sent,     \* history: the newest bytes read() delivered
  phantom,  \* history: a byte no read() delivered was pushed
  overrun   \* history: an element outside the arena was written

mainVars == <<mpc, answer, halt, cycled, nameless>>
workVars == <<wpc, c, sent, phantom, overrun>>
procVars == <<tty, status, eof>>
vars == <<mainVars, workVars, procVars, cb, lock>>

Main == "main"
Worker == "worker"
Free == "free"

MainPc == {"signals", "ttyraw", "devices", "load", "loop",
           "cycle", "lock", "pop", "unlock", "terminate"}
WorkerPc == {"none", "loop", "read", "lock", "push", "unlock", "returned"}

TypeOK ==
  /\ mpc \in MainPc
  /\ wpc \in WorkerPc
  /\ c \in Byte
  /\ cb \in CircularBufferType
  /\ lock \in {Free, Main, Worker}
  /\ answer \in Byte
  /\ halt \in BOOLEAN
  /\ cycled \in BOOLEAN
  /\ nameless \in BOOLEAN
  /\ tty \in {"original", "raw", "none"}
  /\ status \in {"running", "exited", "crashed"}
  /\ eof \in BOOLEAN
  /\ sent \in Seq(Byte) /\ Len(sent) <= Remembered
  /\ phantom \in BOOLEAN
  /\ overrun \in BOOLEAN

Init ==
  /\ mpc = "signals"
  /\ wpc = "none"
  /\ c \in Byte                       \* the local is never initialised
  /\ cb = cb_create
  /\ lock = Free
  /\ answer = 0
  /\ halt = FALSE
  /\ cycled = FALSE
  /\ nameless = FALSE
  /\ tty \in {"original", "none"}
  /\ status = "running"
  /\ eof = FALSE
  /\ sent = <<>>
  /\ phantom = FALSE
  /\ overrun = FALSE

MainAt(pc) == status = "running" /\ mpc = pc
WorkerAt(pc) == status = "running" /\ wpc = pc
-------------------------------------------------------------------------------
\* Mutant: the process exits without the reset of the terminal.
Terminate_SkipReset ==
  /\ status' = IF cycled THEN "exited" ELSE "crashed"
  /\ UNCHANGED tty

\* terminate(): the average per instruction is a division by cycle_counter, made
\* before the terminal is reset.
terminate ==
  /\ status' = IF cycled THEN "exited" ELSE "crashed"
  /\ tty' = IF cycled /\ tty = "raw" THEN "original" ELSE tty

\* main(), up to the loop.
InitSignals ==
  /\ MainAt("signals")
  /\ mpc' = "ttyraw"
  /\ UNCHANGED <<workVars, procVars, cb, lock, answer, halt, cycled, nameless>>

TtyRaw ==
  /\ MainAt("ttyraw")
  /\ mpc' = "devices"
  /\ tty' = IF tty = "none" THEN tty ELSE "raw"
  /\ UNCHANGED <<workVars, cb, lock, answer, halt, cycled, nameless, status, eof>>

InitDevices ==
  /\ MainAt("devices")
  /\ mpc' = "load"
  /\ cb' = cb_create
  /\ lock' = Free
  /\ wpc' = "loop"
  /\ UNCHANGED <<procVars, c, sent, phantom, overrun, answer, halt, cycled, nameless>>

LoadRom ==
  /\ MainAt("load")
  /\ mpc' = "loop"
  /\ UNCHANGED <<workVars, procVars, cb, lock, answer, halt, cycled, nameless>>

\* A ROM that cannot be opened: fread() is given the null pointer fopen() returned.
LoadNothing ==
  /\ MainAt("load")
  /\ status' = "crashed"
  /\ UNCHANGED <<mainVars, workVars, cb, lock, tty, eof>>

\* while(!halt) cycle()
BeginCycle ==
  /\ MainAt("loop") /\ ~halt
  /\ mpc' = "cycle"
  /\ UNCHANGED <<workVars, procVars, cb, lock, answer, halt, cycled, nameless>>

\* The instruction is done; it keeps the section or drops it.
CycleOther ==
  /\ MainAt("cycle")
  /\ mpc' = "loop" /\ cycled' = TRUE
  /\ nameless' \in {nameless, FALSE}
  /\ UNCHANGED <<workVars, procVars, cb, lock, answer, halt>>

\* op_ext selects any section of four bits.  From 4 on there are no names; print_state is called for
\* each instruction in debug mode (which op_sim_info cannot switch without dropping the section),
\* and otherwise for op_sim_info, which sections 7, 11 and 15 have like 3.
CycleExt ==
  /\ MainAt("cycle")
  /\ mpc' = "loop" /\ cycled' = TRUE
  /\ nameless' \in BOOLEAN
  /\ UNCHANGED <<workVars, procVars, cb, lock, answer, halt>>

\* op_sim_halt
CycleHalt ==
  /\ MainAt("cycle")
  /\ mpc' = "loop" /\ cycled' = TRUE
  /\ halt' = TRUE
  /\ UNCHANGED <<workVars, procVars, cb, lock, answer, nameless>>

\* A load from the UART enters uart_device_read, at any point of the instruction: its fetch,
\* its operands, or the stack that print_state() shows.
CycleReadUart ==
  /\ MainAt("cycle")
  /\ mpc' = "lock"
  /\ UNCHANGED <<workVars, procVars, cb, lock, answer, halt, cycled, nameless>>

\* A write of sol or soh terminates inside the instruction.
CycleSolWrite ==
  /\ MainAt("cycle")
  /\ mpc' = "terminate"
  /\ UNCHANGED <<workVars, procVars, cb, lock, answer, halt, cycled, nameless>>

\* print_state() prints through what lies behind ops_text, and may die of it.
PrintsBadName ==
  /\ MainAt("cycle") /\ nameless
  /\ status' = "crashed"
  /\ UNCHANGED <<mainVars, workVars, cb, lock, tty, eof>>

MainLock ==
  /\ MainAt("lock") /\ lock = Free
  /\ lock' = Main
  /\ mpc' = "pop"
  /\ UNCHANGED <<workVars, procVars, cb, answer, halt, cycled, nameless>>

MainPop ==
  /\ MainAt("pop")
  /\ answer' \in cb_popped(cb)
  /\ cb' = cb_pop(cb)
  /\ mpc' = "unlock"
  /\ UNCHANGED <<workVars, procVars, lock, halt, cycled, nameless>>

\* The read ends and the instruction goes on.
MainUnlock ==
  /\ MainAt("unlock")
  /\ lock' = Free
  /\ mpc' = "cycle"
  /\ UNCHANGED <<workVars, procVars, cb, answer, halt, cycled, nameless>>

\* Mutant: the worker is joined before the process terminates.
LeaveLoop_Joins ==
  /\ MainAt("loop") /\ halt /\ wpc = "returned"
  /\ mpc' = "terminate"
  /\ UNCHANGED <<workVars, procVars, cb, lock, answer, halt, cycled, nameless>>

LeaveLoop ==
  /\ MainAt("loop") /\ halt
  /\ mpc' = "terminate"
  /\ UNCHANGED <<workVars, procVars, cb, lock, answer, halt, cycled, nameless>>

MainTerminate ==
  /\ MainAt("terminate")
  /\ terminate
  /\ UNCHANGED <<mainVars, workVars, cb, lock, eof>>
-------------------------------------------------------------------------------
\* uart_thread_worker(): while(!halt) { read; lock; cb_push; unlock }
WorkerTest ==
  /\ WorkerAt("loop")
  /\ wpc' = IF halt THEN "returned" ELSE "read"
  /\ UNCHANGED <<mainVars, procVars, cb, lock, c, sent, phantom, overrun>>

\* The history forgets its oldest byte when it is full.
Remember(bytes, val) == Append(IF Len(bytes) < Remembered THEN bytes ELSE Tail(bytes), val)

\* read() delivers a byte; until one is typed the thread stays blocked here.
WorkerReadByte ==
  /\ WorkerAt("read") /\ ~eof
  /\ \E val \in Byte : c' = val /\ sent' = Remember(sent, val)
  /\ wpc' = "lock"
  /\ UNCHANGED <<mainVars, procVars, cb, lock, phantom, overrun>>

\* At the end of input read() returns 0 at once and c keeps its value; the result
\* is not looked at.  The history ends there.
WorkerReadEof ==
  /\ WorkerAt("read") /\ eof
  /\ phantom' = TRUE /\ sent' = <<>>
  /\ wpc' = "lock"
  /\ UNCHANGED <<mainVars, procVars, cb, lock, c, overrun>>

\* Mutant: the worker does not wait for the mutex.
WorkerLock_NoMutex ==
  /\ WorkerAt("lock")
  /\ lock' = Worker
  /\ wpc' = "push"
  /\ UNCHANGED <<mainVars, procVars, cb, c, sent, phantom, overrun>>

WorkerLock ==
  /\ WorkerAt("lock") /\ lock = Free
  /\ lock' = Worker
  /\ wpc' = "push"
  /\ UNCHANGED <<mainVars, procVars, cb, c, sent, phantom, overrun>>

\* Mutant: the byte is pushed only when the buffer has room.
WorkerPush_DropNewest ==
  /\ WorkerAt("push")
  /\ cb' = IF cb.size < Capacity THEN cb_push(cb, c) ELSE cb
  /\ overrun' = (overrun \/ cb.w >= ArenaSlots)
  /\ wpc' = "unlock"
  /\ UNCHANGED <<mainVars, procVars, lock, c, sent, phantom>>

WorkerPush ==
  /\ WorkerAt("push")
  /\ cb' = cb_push(cb, c)
  /\ overrun' = (overrun \/ cb.w >= ArenaSlots)
  /\ wpc' = "unlock"
  /\ UNCHANGED <<mainVars, procVars, lock, c, sent, phantom>>

\* Mutant: the mutex is not released.
WorkerUnlock_Forgets ==
  /\ WorkerAt("unlock")
  /\ wpc' = "loop"
  /\ UNCHANGED <<mainVars, procVars, cb, lock, c, sent, phantom, overrun>>

WorkerUnlock ==
  /\ WorkerAt("unlock")
  /\ lock' = Free
  /\ wpc' = "loop"
  /\ UNCHANGED <<mainVars, procVars, cb, c, sent, phantom, overrun>>
-------------------------------------------------------------------------------
\* SIGINT, SIGQUIT or SIGTERM, on either thread, once the handlers are installed:
\* sigcatch runs terminate() and the process is gone.
sigcatch ==
  /\ status = "running" /\ mpc # "signals"
  /\ terminate
  /\ UNCHANGED <<mainVars, workVars, cb, lock, eof>>

\* A write outside the arena went to memory the allocator or the C library owns:
\* the process may die of it at any later point.
HeapFault ==
  /\ status = "running" /\ overrun
  /\ status' = "crashed"
  /\ UNCHANGED <<mainVars, workVars, cb, lock, tty, eof>>

\* Standard input ends: a pipe or file is exhausted, the terminal hangs up.
CloseInput ==
  /\ status = "running" /\ ~eof
  /\ eof' = TRUE
  /\ UNCHANGED <<mainVars, workVars, cb, lock, tty, status>>

MainStep ==
  \/ InitSignals \/ TtyRaw \/ InitDevices \/ LoadRom \/ LoadNothing
  \/ BeginCycle \/ CycleOther \/ CycleExt \/ CycleHalt
  \/ CycleReadUart \/ CycleSolWrite \/ PrintsBadName
  \/ MainLock \/ MainPop \/ MainUnlock
  \/ LeaveLoop \/ MainTerminate

WorkerStep ==
  \/ WorkerTest \/ WorkerReadEof
  \/ WorkerLock \/ WorkerPush \/ WorkerUnlock

Environment == WorkerReadByte \/ sigcatch \/ HeapFault \/ CloseInput

Done == status # "running" /\ UNCHANGED vars

Next == MainStep \/ WorkerStep \/ Environment \/ Done

\* The operating system schedules both threads; neither typing nor signals are
\* owed to the program, and the mutex is not assumed to be fair.
Fairness == WF_vars(MainStep) /\ WF_vars(WorkerStep)

Spec == Init /\ [][Next]_vars /\ Fairness
-------------------------------------------------------------------------------
\* The two sides of the buffer never overlap, and whoever touches it holds the
\* mutex (uart_thread_worker against uart_device_read).
MutualExclusion ==
  /\ (mpc \in {"pop", "unlock"}) <=> (lock = Main)
  /\ (wpc \in {"push", "unlock"}) <=> (lock = Worker)

\* Read index, write index and size stay in step through pushes that overwrite
\* the oldest byte and pops at the wrap-around (cb_push and cb_pop).
CbIndicesAgree == IndicesAgree(cb)

InFlight == IF wpc \in {"lock", "push"} THEN 1 ELSE 0

\* As long as standard input has not ended, what waits for the guest is exactly the
\* newest input, in order: nothing is duplicated, reordered or lost but the oldest
\* bytes of a full buffer. Elements outside the arena are excepted.
BufferIsNewestInput ==
  ~phantom =>
    LET arrived == Len(sent) - InFlight
    IN  /\ cb.size <= arrived
        /\ \A i \in 1 .. cb.size :
             \/ (cb.r + (i - 1)) % Capacity >= ArenaSlots
             \/ Contents(cb)[i] = sent[arrived - cb.size + i]
        /\ InFlight = 1 => c = sent[Len(sent)]

\* The process leaves the terminal in raw mode only if it died, and it dies in four ways only:
\* before the first cycle is counted, of a ROM it cannot open or of the division in terminate(); after
\* a write outside the arena; or while a section without names is selected (print_state).  Signals
\* without a handler are left aside.
TerminalRestored ==
  (status # "running" /\ tty = "raw")
    => status = "crashed" /\ (~cycled \/ overrun \/ nameless)

\* sim.c's device keeps the promise of UartChannel: what the two threads do to the
\* buffer, at any interleaving, is what a lossy FIFO does.
Channel == INSTANCE UartChannel WITH
  Reliable   <- ArenaSlots,
  Unreliable <- Clobbered,
  queue      <- Contents(cb),
  position   <- cb.w

ChannelSpec == Channel!Spec

\* Once the guest halts, the process ends, whatever the worker is doing: also when
\* it is blocked in read() or waits for the mutex (main's while(!halt) loop).
HaltEndsProcess == halt ~> status # "running"

\* A guest read of the UART gets the mutex, unless the worker takes it before the guest again and
\* again: a mutex that is not fair allows that while bytes never cease to come, and after the end
\* of input, when read() returns at once (uart_device_read against uart_thread_worker).
ReadReturns ==
  []<><<WorkerLock>>_vars \/ ((mpc = "lock") ~> (mpc # "lock" \/ status # "running"))
===============================================================================
