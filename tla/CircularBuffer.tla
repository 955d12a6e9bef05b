---------------------------- MODULE CircularBuffer ----------------------------
(***************************************************************************)
(* The ring buffer of sim/cb.c, as operators on the struct circular_buffer *)
(* record.  The buffer keeps the newest bytes: a push on a full buffer     *)
(* overwrites the oldest one.                                              *)
(*                                                                         *)
(* cb_create allocates `capacity` BYTES for an arena that is indexed with  *)
(* 0..capacity-1 as unsigned ints.  Only the first ArenaSlots elements lie *)
(* inside the allocation; what is stored in any other element is not under *)
(* the buffer's control, so the model keeps the value Clobbered there and  *)
(* lets a pop of it return any byte.                                       *)
(***************************************************************************)
EXTENDS Integers

CONSTANTS
  Capacity,   \* the capacity argument of cb_create (128 for the UART)
  IntBytes,   \* sizeof(unsigned int)
  Byte,       \* the bytes that can be stored
  Clobbered   \* content of an element the buffer does not own

ASSUME CbAssumption ==
  /\ Capacity \in Nat \ {0}
  /\ IntBytes \in Nat \ {0}
  /\ 0 \in Byte
  /\ Clobbered \notin Byte

Slot == 0 .. Capacity - 1

ArenaSlots == Capacity \div IntBytes

CircularBufferType ==
  [r : Slot, w : Slot, size : 0 .. Capacity,
   data : [Slot -> Byte \union {Clobbered}]]

\* Mutant: the end of the arena is tested one element too late.
Advance_OneLate(i) == IF i + 1 > Capacity THEN 0 ELSE i + 1

\* The index after i, back to 0 at the end of the arena.
Advance(i) == IF i + 1 >= Capacity THEN 0 ELSE i + 1

\* malloc leaves the arena uninitialised.
cb_create == [r |-> 0, w |-> 0, size |-> 0, data |-> [i \in Slot |-> Clobbered]]

Stored(i, val) == IF i < ArenaSlots THEN val ELSE Clobbered

\* Mutant: the read index stays on the overwritten element.
cb_push_KeepsOldest(cb, val) ==
  [data |-> [cb.data EXCEPT ![cb.w] = Stored(cb.w, val)],
   w    |-> Advance(cb.w),
   size |-> IF cb.size < Capacity THEN cb.size + 1 ELSE cb.size,
   r    |-> cb.r]

\* Store at the write index; on a full buffer the oldest element makes room.
cb_push(cb, val) ==
  [data |-> [cb.data EXCEPT ![cb.w] = Stored(cb.w, val)],
   w    |-> Advance(cb.w),
   size |-> IF cb.size < Capacity THEN cb.size + 1 ELSE cb.size,
   r    |-> IF cb.size < Capacity THEN cb.r ELSE Advance(cb.w)]

\* The values cb_pop may return: 0 when there is nothing to pop.
cb_popped(cb) ==
  IF cb.size = 0 THEN {0}
  ELSE IF cb.data[cb.r] = Clobbered THEN Byte ELSE {cb.data[cb.r]}

\* Mutant: the size is not counted down.
cb_pop_NoCount(cb) ==
  IF cb.size = 0 THEN cb ELSE [cb EXCEPT !.r = Advance(@)]

\* Nothing happens to an empty buffer.
cb_pop(cb) ==
  IF cb.size = 0 THEN cb
  ELSE [cb EXCEPT !.r = Advance(@), !.size = @ - 1]

\* The buffered elements, oldest first.
Contents(cb) == [i \in 1 .. cb.size |-> cb.data[(cb.r + (i - 1)) % Capacity]]

\* The write index is always `size` elements ahead of the read index.
IndicesAgree(cb) == cb.w = (cb.r + cb.size) % Capacity
===============================================================================
