------------------------------ MODULE ByteFifo ------------------------------
(***************************************************************************)
(* What a ring buffer (src/at/src/at_ringbuff.c) promises the side that    *)
(* pops: the bytes pushed, each once and in their order, as many as it has *)
(* room for.  A byte that finds no room is dropped, and a mark says so.    *)
(*                                                                         *)
(* Nothing is promised of bytes pushed while the buffer is being flushed:  *)
(* such a byte may be kept, be lost, or be kept as Zero.                   *)
(***************************************************************************)
EXTENDS Naturals, Sequences

CONSTANTS Byte, Zero, Capacity

VARIABLES
  queue,      \* bytes pushed and not popped yet
  last,       \* byte popped last
  overrun,    \* a byte has been dropped since the last flush
  flushing

vars == <<queue, last, overrun, flushing>>

Init ==
  /\ queue = <<>>
  /\ last = Zero
  /\ overrun = FALSE
  /\ flushing = FALSE

Push(b) ==
  /\ ~flushing
  /\ Len(queue) < Capacity
  /\ queue' = Append(queue, b)
  /\ UNCHANGED <<last, overrun, flushing>>

Drop ==
  /\ ~flushing
  /\ Len(queue) = Capacity
  /\ overrun' = TRUE
  /\ UNCHANGED <<queue, last, flushing>>

Pop ==
  /\ ~flushing
  /\ queue # <<>>
  /\ last' = Head(queue)
  /\ queue' = Tail(queue)
  /\ UNCHANGED <<overrun, flushing>>

BeginFlush ==
  /\ ~flushing
  /\ flushing' = TRUE
  /\ queue' = <<>>
  /\ UNCHANGED <<last, overrun>>

PushIntoFlush(b) ==
  /\ flushing
  /\ queue' \in {queue, Append(queue, b)}
  /\ overrun' \in {overrun, TRUE}
  /\ UNCHANGED <<last, flushing>>

ZeroInFlush ==
  /\ flushing
  /\ \E i \in 1..Len(queue) : queue' = [queue EXCEPT ![i] = Zero]
  /\ UNCHANGED <<last, overrun, flushing>>

EndFlush ==
  /\ flushing
  /\ flushing' = FALSE
  /\ overrun' = FALSE
  /\ UNCHANGED <<queue, last>>

Next ==
  \/ \E b \in Byte : Push(b) \/ PushIntoFlush(b)
  \/ Drop \/ Pop \/ BeginFlush \/ ZeroInFlush \/ EndFlush

Spec == Init /\ [][Next]_vars
=============================================================================
