----------------------------- MODULE RingBuffer -----------------------------
(***************************************************************************)
(* src/at/src/at_ringbuff.c: the buffer between the UART and the AT        *)
(* client, without a lock.                                                 *)
(*                                                                         *)
(* ring_buff_push_data runs in the receive interrupt (external: the UART   *)
(* of platform/module/hal_at.c is a stub that names it), so the thread     *)
(* that pops or flushes never runs between the two assignments of a push,  *)
(* while the interrupt may come between any two assignments of the thread. *)
(* A push of several bytes may be seen in parts: an interrupt per byte.    *)
(*                                                                         *)
(* readpoint is the slot popped last and writepoint the slot filled last:  *)
(* both move before the slot is read or filled.                            *)
(***************************************************************************)
EXTENDS Naturals, Sequences

CONSTANTS
  Byte,
  Zero,      \* what memset leaves in a slot
  size,      \* RING_BUFF_LEN
  MaxLen     \* bound on the length of a push or pop

ASSUME RingAssumption ==
  /\ size \in Nat \ {0}
  /\ MaxLen \in Nat
  /\ Zero \in Byte

VARIABLES
  buffer, readpoint, writepoint,
  full,
  pushing,   \* pData of ring_buff_push_data from i on
  phase,     \* what the thread does next
  left,      \* len - i of ring_buff_pop_data
  cleared,   \* slots memset has cleared
  last       \* byte popped last, 0 before the first

ringVars == <<buffer, readpoint, writepoint, full>>
vars == <<ringVars, pushing, phase, left, cleared, last>>

Slot  == 0..(size - 1)
Phase == {"idle", "pop", "read",
          "flush", "clear", "unmark"}   \* ring_buff_flush, after readpoint = 0

TypeOK ==
  /\ buffer \in [Slot -> Byte]
  /\ readpoint \in Slot
  /\ writepoint \in Slot
  /\ full \in BOOLEAN
  /\ pushing \in Seq(Byte)
  /\ phase \in Phase
  /\ left \in 0..MaxLen
  /\ cleared \in 0..size
  /\ last \in Byte

(* ring_buff_init. *)
Init ==
  /\ buffer = [s \in Slot |-> Zero]
  /\ readpoint = 0 /\ writepoint = 0
  /\ full = FALSE
  /\ pushing = <<>>
  /\ phase = "idle" /\ left = 0 /\ cleared = 0
  /\ last = Zero

Successor(s) == IF s < size - 1 THEN s + 1 ELSE 0

----------------------------------------------------------------------------
(* The interrupt. *)

(* ring_buff_push_data is called. Longer data is refused.                  *)
BeginPush ==
  /\ pushing = <<>>
  /\ \E n \in 1..MaxLen : n <= size /\ pushing' \in [1..n -> Byte]
  /\ UNCHANGED <<ringVars, phase, left, cleared, last>>

(* Faulty variant: the slot kept free is filled, too.                      *)
NoRoom_LastSlot == FALSE

NoRoom == Successor(writepoint) = readpoint

PushByte ==
  /\ pushing # <<>>
  /\ ~NoRoom
  /\ writepoint' = Successor(writepoint)
  /\ buffer' = [buffer EXCEPT ![writepoint'] = Head(pushing)]
  /\ pushing' = Tail(pushing)
  /\ UNCHANGED <<readpoint, full, phase, left, cleared, last>>

(* RINGBUFF_FULL: the rest is dropped. *)
PushFull ==
  /\ pushing # <<>>
  /\ NoRoom
  /\ full' = TRUE
  /\ pushing' = <<>>
  /\ UNCHANGED <<buffer, readpoint, writepoint, phase, left, cleared, last>>

----------------------------------------------------------------------------
(* The thread. *)

(* ring_buff_pop_data is called. Longer requests are refused.              *)
BeginPop ==
  /\ phase = "idle"
  /\ \E n \in 1..MaxLen : n <= size /\ left' = n
  /\ phase' = "pop"
  /\ UNCHANGED <<ringVars, pushing, cleared, last>>

PopReturns ==
  /\ phase = "pop"
  /\ writepoint = readpoint \/ left = 0
  /\ phase' = "idle"
  /\ left' = 0
  /\ UNCHANGED <<ringVars, pushing, cleared, last>>

PopMoves ==
  /\ phase = "pop"
  /\ left > 0
  /\ writepoint # readpoint
  /\ readpoint' = Successor(readpoint)
  /\ phase' = "read"
  /\ UNCHANGED <<buffer, writepoint, full, pushing, left, cleared, last>>

PopReads ==
  /\ phase = "read"
  /\ last' = buffer[readpoint]
  /\ left' = left - 1
  /\ phase' = "pop"
  /\ UNCHANGED <<ringVars, pushing, cleared>>

(* ring_buff_flush: four assignments, one of them a memset. *)
FlushRead ==
  /\ phase = "idle"
  /\ readpoint' = 0
  /\ phase' = "flush"
  /\ UNCHANGED <<buffer, writepoint, full, pushing, left, cleared, last>>

FlushWrite ==
  /\ phase = "flush"
  /\ writepoint' = 0
  /\ cleared' = 0
  /\ phase' = "clear"
  /\ UNCHANGED <<buffer, readpoint, full, pushing, left, last>>

FlushClear ==
  /\ phase = "clear"
  /\ IF cleared < size
     THEN /\ buffer' = [buffer EXCEPT ![cleared] = Zero]
          /\ cleared' = cleared + 1
          /\ UNCHANGED phase
     ELSE phase' = "unmark" /\ UNCHANGED <<buffer, cleared>>
  /\ UNCHANGED <<readpoint, writepoint, full, pushing, left, last>>

FlushUnmark ==
  /\ phase = "unmark"
  /\ full' = FALSE
  /\ phase' = "idle"
  /\ UNCHANGED <<buffer, readpoint, writepoint, pushing, left, cleared, last>>

----------------------------------------------------------------------------
Interrupt == BeginPush \/ PushByte \/ PushFull

Pop   == BeginPop \/ PopReturns \/ PopMoves \/ PopReads
Flush == FlushRead \/ FlushWrite \/ FlushClear \/ FlushUnmark

Next == Interrupt \/ Pop \/ Flush

Spec == Init /\ [][Next]_vars

----------------------------------------------------------------------------
(* The queue the buffer stands for. *)

Count == IF writepoint >= readpoint THEN writepoint - readpoint
                                    ELSE writepoint + size - readpoint

SlotOf(i) == IF readpoint + i < size THEN readpoint + i ELSE readpoint + i - size

Contents == [i \in 1..Count |-> buffer[SlotOf(i)]]

Flushing == phase \in {"flush", "clear", "unmark"}

Fifo == INSTANCE ByteFifo WITH
  Capacity <- size - 1,
  queue    <- IF phase = "flush" THEN <<>> ELSE Contents,
  last     <- IF phase = "read" THEN buffer[readpoint] ELSE last,
  overrun  <- full,
  flushing <- Flushing

(* Pushed in the interrupt and popped by the thread without a lock, the    *)
(* buffer is a queue: no byte is lost, doubled, overwritten or read before *)
(* it is there, wherever the interrupt comes, but for those pushed into a  *)
(* ring_buff_flush; and full tells of the bytes dropped since.             *)
ImplementsFifo == Fifo!Spec
=============================================================================
