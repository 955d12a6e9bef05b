------------------------------ MODULE UartChannel ------------------------------
(***************************************************************************)
(* What the UART of the simulator promises to the guest program: a bounded *)
(* FIFO of bytes that forgets the oldest byte when it is full and answers  *)
(* 0 when it is empty.  Of every Capacity consecutive bytes only the first *)
(* Reliable ones are sure to come out as they went in.                     *)
(***************************************************************************)
EXTENDS Integers, Sequences

CONSTANTS
  Capacity,    \* a positive number of bytes
  Reliable,    \* at most Capacity
  Byte,        \* a set that holds 0
  Unreliable   \* no member of Byte

VARIABLES
  queue,    \* the bytes waiting, oldest first
  position, \* number of bytes accepted so far, modulo Capacity
  answer    \* the byte the guest's last read of the device returned

vars == <<queue, position, answer>>

Init == queue = <<>> /\ position = 0 /\ answer = 0

Accepted(val) == IF position < Reliable THEN val ELSE Unreliable

\* A byte arrives; the oldest one makes room for it when the queue is full.
Put ==
  \E val \in Byte :
    /\ queue' = Append(IF Len(queue) < Capacity THEN queue ELSE Tail(queue),
                       Accepted(val))
    /\ position' = (position + 1) % Capacity
    /\ UNCHANGED answer

\* The guest reads the device.
Get ==
  /\ queue # <<>>
  /\ answer' \in IF Head(queue) = Unreliable THEN Byte ELSE {Head(queue)}
  /\ queue' = Tail(queue)
  /\ UNCHANGED position

GetNothing ==
  /\ queue = <<>>
  /\ answer' = 0
  /\ UNCHANGED <<queue, position>>

Next == Put \/ Get \/ GetNothing

Spec == Init /\ [][Next]_vars
===============================================================================
