---------------------------- MODULE Data_proofs ----------------------------
(***************************************************************************)
(* Proofs about RingBuffer, for a buffer of any size and any bytes: types, *)
(* and that it implements ByteFifo; and about Formats: what the algorithms *)
(* of MqttPacket and DmPayload compute for packets, topics and reports of  *)
(* any length.                                                             *)
(***************************************************************************)
EXTENDS RingBuffer, Formats, SequenceTheorems, WellFoundedInduction, TLAPS

----------------------------------------------------------------------------
(* The inductive invariant: between readpoint = 0 and writepoint = 0 of a  *)
(* flush the thread has not moved readpoint again, and a slot is read only *)
(* for a byte that was asked for.                                          *)

IInv ==
  /\ TypeOK
  /\ phase = "flush" => readpoint = 0
  /\ phase = "read" => left > 0

LEMMA SuccessorInSlot == \A s \in Slot : Successor(s) \in Slot
  BY RingAssumption DEF Slot, Successor

LEMMA InitIInv == Init => IInv
  <1> SUFFICES ASSUME Init PROVE IInv
    OBVIOUS
  <1>1. 0 \in Slot /\ 0 \in 0..size /\ 0 \in 0..MaxLen
    BY RingAssumption DEF Slot
  <1>2. [s \in Slot |-> Zero] \in [Slot -> Byte] /\ Zero \in Byte
    BY RingAssumption
  <1>3. << >> \in Seq(Byte)
    OBVIOUS
  <1> QED
    BY <1>1, <1>2, <1>3 DEF Init, IInv, TypeOK, Phase

LEMMA StepIInv == IInv /\ [Next]_vars => IInv'
  <1> SUFFICES ASSUME IInv, [Next]_vars PROVE IInv'
    OBVIOUS
  <1> USE RingAssumption DEF IInv, TypeOK, ringVars, Phase
  <1>1. CASE BeginPush
    <2>1. pushing' \in Seq(Byte)
      BY <1>1 DEF BeginPush
    <2> QED
      BY <1>1, <2>1 DEF BeginPush
  <1>2. CASE PushByte
    <2>1. Head(pushing) \in Byte /\ Tail(pushing) \in Seq(Byte)
      BY <1>2, HeadTailProperties DEF PushByte
    <2>2. writepoint' \in Slot
      BY <1>2, SuccessorInSlot DEF PushByte
    <2> QED
      BY <1>2, <2>1, <2>2 DEF PushByte
  <1>3. CASE PushFull
    BY <1>3 DEF PushFull
  <1>4. CASE BeginPop
    BY <1>4 DEF BeginPop
  <1>5. CASE PopReturns
    BY <1>5 DEF PopReturns
  <1>6. CASE PopMoves
    BY <1>6, SuccessorInSlot DEF PopMoves
  <1>7. CASE PopReads
    BY <1>7 DEF PopReads
  <1>8. CASE FlushRead
    BY <1>8 DEF FlushRead, Slot
  <1>9. CASE FlushWrite
    BY <1>9 DEF FlushWrite, Slot
  <1>10. CASE FlushClear
    BY <1>10 DEF FlushClear, Slot
  <1>11. CASE FlushUnmark
    BY <1>11 DEF FlushUnmark
  <1>12. CASE UNCHANGED vars
    BY <1>12 DEF vars
  <1> QED
    BY <1>1, <1>2, <1>3, <1>4, <1>5, <1>6, <1>7, <1>8, <1>9, <1>10, <1>11, <1>12
       DEF Next, Interrupt, Pop, Flush

LEMMA Invariance == Spec => []IInv
  BY InitIInv, StepIInv, PTL DEF Spec

(* The points stay within the buffer, wherever the interrupt comes and     *)
(* ring_buff_flush resets them.                                            *)
THEOREM TypeCorrect == Spec => []TypeOK
  <1>1. IInv => TypeOK
    BY DEF IInv
  <1> QED
    BY <1>1, Invariance, PTL

----------------------------------------------------------------------------
(* The bytes between the points. *)

Placed ==
  /\ Count \in 0..(size - 1)
  /\ \A i \in 0..Count : SlotOf(i) \in Slot
  /\ SlotOf(Count) = writepoint
  /\ \A i \in 1..Count : SlotOf(i) # readpoint
  /\ \A i, j \in 1..Count : SlotOf(i) = SlotOf(j) => i = j

LEMMA SlotsOfContents == TypeOK => Placed
  BY RingAssumption DEF Placed, TypeOK, Slot, Count, SlotOf

Filled ==
  /\ Contents \in Seq(Byte) /\ Len(Contents) = Count
  /\ \A i \in 1..Count : Contents[i] = buffer[SlotOf(i)]

LEMMA BytesOfContents == TypeOK => Filled
  <1> SUFFICES ASSUME TypeOK PROVE Filled
    OBVIOUS
  <1>1. \A i \in 1..Count : buffer[SlotOf(i)] \in Byte
    BY SlotsOfContents DEF TypeOK, Placed
  <1>2. Count \in Nat
    BY SlotsOfContents, RingAssumption DEF Placed
  <1> QED
    BY <1>1, <1>2 DEF Contents, Filled

(* Both hold of the next state, too. *)
LEMMA AfterStep == IInv' => Placed' /\ Filled'
  <1>1. IInv => Placed /\ Filled
    BY SlotsOfContents, BytesOfContents DEF IInv
  <1> QED
    BY <1>1, PTL

(* What a step that leaves buffer and points alone leaves alone. *)
LEMMA SameContents ==
  ASSUME UNCHANGED <<buffer, readpoint, writepoint>>
  PROVE  Contents' = Contents
  BY DEF Contents, Count, SlotOf

(* PushByte fills the slot behind the contents, which no other byte uses.  *)
LEMMA ContentsPushed ==
  ASSUME IInv, PushByte, IInv'
  PROVE  /\ Contents' = Append(Contents, Head(pushing))
         /\ Head(pushing) \in Byte
         /\ Count < size - 1
         /\ buffer'[readpoint] = buffer[readpoint]
  <1> USE RingAssumption
  <1>1. TypeOK /\ TypeOK'
    BY DEF IInv
  <1>2. /\ writepoint' = Successor(writepoint) /\ writepoint' # readpoint
        /\ buffer' = [buffer EXCEPT ![writepoint'] = Head(pushing)]
        /\ readpoint' = readpoint
    BY DEF PushByte, NoRoom
  <1>3. Head(pushing) \in Byte
    BY <1>1, HeadTailProperties DEF PushByte, TypeOK
  <1>4. /\ buffer \in [Slot -> Byte] /\ readpoint \in Slot
        /\ writepoint \in Slot /\ writepoint' \in Slot
    BY <1>1 DEF TypeOK
  <1>5. Count' = Count + 1 /\ Count < size - 1 /\ Count \in Nat
    BY <1>2, <1>4 DEF Count, Successor, Slot
  <1>6. \A i \in 1..Count' : SlotOf(i)' = SlotOf(i)
    BY <1>2 DEF SlotOf
  <1>7. SlotOf(Count') = writepoint'
    BY <1>2, <1>4, <1>5 DEF Count, SlotOf, Successor, Slot
  <1>8. \A i \in 1..Count : SlotOf(i) \in Slot /\ SlotOf(i) # writepoint'
    BY <1>2, <1>4, <1>5 DEF Count, SlotOf, Successor, Slot
  <1>9. \A i \in 1..Count : buffer'[SlotOf(i)] = buffer[SlotOf(i)]
    BY <1>2, <1>4, <1>8
  <1>10. buffer'[writepoint'] = Head(pushing)
    BY <1>2, <1>4
  <1>11. /\ Contents \in Seq(Byte) /\ Len(Contents) = Count
         /\ \A i \in 1..Count : Contents[i] = buffer[SlotOf(i)]
    BY <1>1, BytesOfContents DEF Filled
  <1>12. /\ Contents' \in Seq(Byte) /\ Len(Contents') = Count'
         /\ \A i \in 1..Count' : Contents'[i] = buffer'[SlotOf(i)']
    BY AfterStep DEF Filled
  <1> DEFINE A == Append(Contents, Head(pushing))
  <1>13. /\ A \in Seq(Byte) /\ Len(A) = Count'
         /\ \A i \in 1..Count : A[i] = Contents[i]
         /\ A[Count'] = Head(pushing)
    BY <1>3, <1>5, <1>11, AppendProperties
  <1>14. \A i \in 1..Count' : Contents'[i] = A[i]
    <2> TAKE i \in 1..Count'
    <2>1. Contents'[i] = buffer'[SlotOf(i)]
      BY <1>6, <1>12
    <2> HIDE DEF A
    <2>2. CASE i \in 1..Count
      BY <2>1, <2>2, <1>9, <1>11, <1>13
    <2>3. CASE i = Count'
      <3>1. SlotOf(i) = writepoint'
        BY <2>3, <1>7
      <3> QED
        BY <2>1, <2>3, <3>1, <1>10, <1>13
    <2> QED
      BY <1>5, <2>2, <2>3
  <1>15. Contents' = A
    <2> HIDE DEF A
    <2> QED
      BY <1>12, <1>13, <1>14, SeqEqual
  <1> QED
    BY <1>2, <1>3, <1>4, <1>5, <1>15

(* PopMoves makes the first byte of the contents the one to be read.       *)
LEMMA ContentsPopped ==
  ASSUME IInv, PopMoves, IInv'
  PROVE  /\ Contents # << >> /\ Contents' = Tail(Contents)
         /\ buffer'[readpoint'] = Head(Contents)
  <1> USE RingAssumption
  <1>1. TypeOK /\ TypeOK'
    BY DEF IInv
  <1>2. /\ readpoint' = Successor(readpoint) /\ writepoint # readpoint
        /\ buffer' = buffer /\ writepoint' = writepoint
    BY DEF PopMoves
  <1>3. readpoint \in Slot /\ writepoint \in Slot /\ readpoint' \in Slot
    BY <1>1 DEF TypeOK
  <1>4. Count \in Nat \ {0} /\ Count' = Count - 1
    BY <1>2, <1>3 DEF Count, Successor, Slot
  <1>5. \A i \in 1..Count' : SlotOf(i)' = SlotOf(i + 1)
    <2> TAKE i \in 1..Count'
    <2>1. i \in Nat \ {0} /\ i < size
      BY <1>3, <1>4 DEF Count, Slot
    <2>2. CASE readpoint < size - 1
      <3>1. readpoint' = readpoint + 1
        BY <1>2, <2>2 DEF Successor
      <3> QED
        BY <1>3, <2>1, <3>1 DEF SlotOf, Slot
    <2>3. CASE readpoint = size - 1
      <3>1. readpoint' = 0
        BY <1>2, <1>3, <2>3 DEF Successor, Slot
      <3> QED
        BY <1>3, <2>1, <2>3, <3>1 DEF SlotOf, Slot
    <2> QED
      BY <1>3, <2>2, <2>3 DEF Slot
  <1>6. SlotOf(1) = readpoint'
    BY <1>2, <1>3 DEF SlotOf, Successor, Slot
  <1>7. /\ Contents \in Seq(Byte) /\ Len(Contents) = Count
        /\ \A i \in 1..Count : Contents[i] = buffer[SlotOf(i)]
    BY <1>1, BytesOfContents DEF Filled
  <1>8. /\ Contents' \in Seq(Byte) /\ Len(Contents') = Count'
        /\ \A i \in 1..Count' : Contents'[i] = buffer'[SlotOf(i)']
    BY AfterStep DEF Filled
  <1>9. Contents # << >>
    BY <1>4, <1>7
  <1> DEFINE T == Tail(Contents)
  <1>10. /\ T \in Seq(Byte) /\ Len(T) = Count'
         /\ \A i \in 1..Count' : T[i] = Contents[i + 1]
    BY <1>4, <1>7, <1>9, HeadTailProperties
  <1>11. \A i \in 1..Count' : Contents'[i] = T[i]
    <2> TAKE i \in 1..Count'
    <2>1. i + 1 \in 1..Count
      BY <1>4
    <2> QED
      BY <2>1, <1>2, <1>5, <1>7, <1>8, <1>10
  <1>12. Contents' = T
    <2> HIDE DEF T
    <2> QED
      BY <1>8, <1>10, <1>11, SeqEqual
  <1>13. Head(Contents) = buffer[readpoint']
    BY <1>4, <1>6, <1>7, <1>9
  <1> QED
    BY <1>2, <1>9, <1>12, <1>13

(* A memset that meets bytes pushed since writepoint = 0 leaves Zero for   *)
(* one of them at a time.                                                  *)
LEMMA ContentsCleared ==
  ASSUME IInv, FlushClear, IInv'
  PROVE  \/ Contents' = Contents
         \/ \E i \in 1..Len(Contents) : Contents' = [Contents EXCEPT ![i] = Zero]
  <1> USE RingAssumption
  <1>1. TypeOK /\ TypeOK'
    BY DEF IInv
  <1>2. readpoint' = readpoint /\ writepoint' = writepoint
    BY DEF FlushClear
  <1>3. Count' = Count /\ \A i \in 1..Count : SlotOf(i)' = SlotOf(i)
    BY <1>2 DEF Count, SlotOf
  <1>4. /\ Contents \in Seq(Byte) /\ Len(Contents) = Count
        /\ \A i \in 1..Count : Contents[i] = buffer[SlotOf(i)]
    BY <1>1, BytesOfContents DEF Filled
  <1>5. /\ Contents' \in Seq(Byte) /\ Len(Contents') = Count
        /\ \A i \in 1..Count : Contents'[i] = buffer'[SlotOf(i)]
    BY <1>3, AfterStep DEF Filled
  <1>6. CASE buffer' = buffer
    BY <1>4, <1>5, <1>6, SeqEqual
  <1>7. CASE cleared < size /\ buffer' = [buffer EXCEPT ![cleared] = Zero]
    <2>1. cleared \in Slot /\ buffer \in [Slot -> Byte]
      BY <1>1, <1>7 DEF TypeOK, Slot
    <2>2. \A i \in 1..Count : SlotOf(i) \in Slot
      BY <1>1, SlotsOfContents DEF Placed
    <2>3. CASE \A i \in 1..Count : SlotOf(i) # cleared
      <3>1. \A i \in 1..Count : Contents'[i] = Contents[i]
        BY <1>4, <1>5, <1>7, <2>1, <2>2, <2>3
      <3> QED
        BY <1>4, <1>5, <3>1, SeqEqual
    <2>4. ASSUME NEW i \in 1..Count, SlotOf(i) = cleared
          PROVE  Contents' = [Contents EXCEPT ![i] = Zero]
      <3> DEFINE Z == [Contents EXCEPT ![i] = Zero]
      <3>1. /\ Z \in Seq(Byte) /\ Len(Z) = Count
            /\ \A j \in 1..Count : Z[j] = IF j = i THEN Zero ELSE Contents[j]
        BY <1>4, ExceptSeq
      <3>2. \A j \in 1..Count : SlotOf(j) = cleared => j = i
        BY <1>1, <2>4, SlotsOfContents DEF Placed
      <3>3. \A j \in 1..Count : Contents'[j] = Z[j]
        BY <1>4, <1>5, <1>7, <2>1, <2>2, <2>4, <3>1, <3>2
      <3> HIDE DEF Z
      <3> QED
        BY <1>4, <1>5, <3>1, <3>3, SeqEqual
    <2> QED
      BY <1>4, <2>3, <2>4
  <1> QED
    BY <1>6, <1>7 DEF FlushClear

----------------------------------------------------------------------------
(* The refinement. *)

LEMMA InitFifo == Init => Fifo!Init
  <1> SUFFICES ASSUME Init PROVE Fifo!Init
    OBVIOUS
  <1>1. TypeOK
    BY InitIInv DEF IInv
  <1>2. Count = 0
    BY DEF Init, Count
  <1>3. Contents = << >>
    BY <1>1, <1>2, BytesOfContents DEF Filled
  <1> QED
    BY <1>3 DEF Init, Fifo!Init, Flushing

(* A byte pushed. *)
LEMMA PushFifo ==
  ASSUME IInv, PushByte, IInv'
  PROVE  [Fifo!Next]_(Fifo!vars)
  <1>1. /\ Contents' = Append(Contents, Head(pushing)) /\ Head(pushing) \in Byte
        /\ Count < size - 1 /\ buffer'[readpoint] = buffer[readpoint]
    BY ContentsPushed
  <1>2. /\ phase' = phase /\ full' = full /\ last' = last /\ readpoint' = readpoint
        /\ Flushing' = Flushing
    BY DEF PushByte, Flushing
  <1>3. Len(Contents) = Count
    BY BytesOfContents DEF IInv, Filled
  <1>4. CASE ~Flushing
    <2>1. Fifo!Push(Head(pushing))
      BY <1>1, <1>2, <1>3, <1>4 DEF Fifo!Push, Flushing
    <2> QED
      BY <1>1, <2>1 DEF Fifo!Next
  <1>5. CASE Flushing
    <2>1. Fifo!PushIntoFlush(Head(pushing))
      BY <1>1, <1>2, <1>5 DEF Fifo!PushIntoFlush, Flushing
    <2> QED
      BY <1>1, <2>1 DEF Fifo!Next
  <1> QED
    BY <1>4, <1>5

(* A byte that finds no room. *)
LEMMA DropFifo ==
  ASSUME IInv, PushFull
  PROVE  [Fifo!Next]_(Fifo!vars)
  <1>1. /\ UNCHANGED <<buffer, readpoint, writepoint, phase, last>>
        /\ full' = TRUE /\ NoRoom
    BY DEF PushFull
  <1>2. Contents' = Contents /\ Flushing' = Flushing
    BY <1>1, SameContents DEF Flushing
  <1>3. CASE ~Flushing
    <2>1. Count = size - 1
      BY <1>1, RingAssumption DEF NoRoom, Successor, Count, IInv, TypeOK, Slot
    <2>2. Len(Contents) = size - 1
      BY <2>1, BytesOfContents DEF IInv, Filled
    <2>3. Fifo!Drop
      BY <1>1, <1>2, <1>3, <2>2 DEF Fifo!Drop, Flushing
    <2> QED
      BY <2>3 DEF Fifo!Next
  <1>4. CASE Flushing
    <2>1. Fifo!PushIntoFlush(Zero)
      BY <1>1, <1>2, <1>4 DEF Fifo!PushIntoFlush, Flushing
    <2> QED
      BY <2>1, RingAssumption DEF Fifo!Next
  <1> QED
    BY <1>3, <1>4

LEMMA StepFifo == IInv /\ IInv' /\ [Next]_vars => [Fifo!Next]_(Fifo!vars)
  <1> SUFFICES ASSUME IInv, IInv', [Next]_vars PROVE [Fifo!Next]_(Fifo!vars)
    OBVIOUS
  <1>1. CASE BeginPush \/ BeginPop \/ PopReturns \/ UNCHANGED vars
    <2>1. UNCHANGED <<buffer, readpoint, writepoint, full, last>>
      BY <1>1 DEF BeginPush, BeginPop, PopReturns, vars, ringVars
    <2>2. /\ Flushing' = Flushing
          /\ (phase' = "flush") = (phase = "flush")
          /\ (phase' = "read") = (phase = "read")
      BY <1>1 DEF BeginPush, BeginPop, PopReturns, vars, Flushing
    <2> QED
      BY <2>1, <2>2, SameContents DEF Fifo!vars
  <1>2. CASE PushByte
    BY <1>2, PushFifo
  <1>3. CASE PushFull
    BY <1>3, DropFifo
  <1>4. CASE PopMoves
    <2>1. /\ Contents # << >> /\ Contents' = Tail(Contents)
          /\ buffer'[readpoint'] = Head(Contents)
      BY <1>4, ContentsPopped
    <2>2. /\ phase = "pop" /\ phase' = "read" /\ full' = full
          /\ ~Flushing /\ Flushing' = Flushing
      BY <1>4 DEF PopMoves, Flushing
    <2>3. Fifo!Pop
      BY <2>1, <2>2 DEF Fifo!Pop
    <2> QED
      BY <2>3 DEF Fifo!Next
  <1>5. CASE PopReads
    <2>1. /\ UNCHANGED <<buffer, readpoint, writepoint, full>>
          /\ last' = buffer[readpoint] /\ phase = "read" /\ phase' = "pop"
          /\ ~Flushing /\ Flushing' = Flushing
      BY <1>5 DEF PopReads, ringVars, Flushing
    <2> QED
      BY <2>1, SameContents DEF Fifo!vars
  <1>6. CASE FlushRead
    <2>1. Fifo!BeginFlush
      BY <1>6 DEF FlushRead, Fifo!BeginFlush, Flushing
    <2> QED
      BY <2>1 DEF Fifo!Next
  <1>7. CASE FlushWrite
    <2>1. /\ writepoint' = 0 /\ readpoint' = 0 /\ full' = full /\ last' = last
          /\ phase = "flush" /\ phase' = "clear"
      BY <1>7 DEF FlushWrite, IInv
    <2>2. Count' = 0
      BY <2>1 DEF Count
    <2>3. Contents' = << >>
      BY <2>2, AfterStep DEF Filled
    <2> QED
      BY <2>1, <2>3 DEF Fifo!vars, Flushing
  <1>8. CASE FlushClear
    <2>1. /\ full' = full /\ last' = last
          /\ phase = "clear" /\ phase' \in {"clear", "unmark"}
          /\ Flushing /\ Flushing'
      BY <1>8 DEF FlushClear, Flushing
    <2>2. CASE Contents' = Contents
      BY <2>1, <2>2 DEF Fifo!vars
    <2>3. CASE \E i \in 1..Len(Contents) : Contents' = [Contents EXCEPT ![i] = Zero]
      <3>1. Fifo!ZeroInFlush
        BY <2>1, <2>3 DEF Fifo!ZeroInFlush
      <3> QED
        BY <3>1 DEF Fifo!Next
    <2> QED
      BY <1>8, <2>2, <2>3, ContentsCleared
  <1>9. CASE FlushUnmark
    <2>1. /\ UNCHANGED <<buffer, readpoint, writepoint>>
          /\ full' = FALSE /\ last' = last /\ phase = "unmark" /\ phase' = "idle"
      BY <1>9 DEF FlushUnmark
    <2>2. Fifo!EndFlush
      BY <2>1, SameContents DEF Fifo!EndFlush, Flushing
    <2> QED
      BY <2>2 DEF Fifo!Next
  <1> QED
    BY <1>1, <1>2, <1>3, <1>4, <1>5, <1>6, <1>7, <1>8, <1>9
       DEF Next, Interrupt, Pop, Flush

(* at_ringbuff.c needs no lock between the interrupt that pushes and the   *)
(* thread that pops: whatever the size and wherever the interrupt comes,   *)
(* each byte is popped once and in order, and full tells of those dropped. *)
THEOREM RingImplementsFifo == Spec => ImplementsFifo
  BY InitFifo, StepFifo, Invariance, PTL DEF Spec, ImplementsFifo, Fifo!Spec

----------------------------------------------------------------------------
(* Induction over the numbers, as facts about sets. *)

LEMMA LeastElement ==
  ASSUME NEW S, S \subseteq Nat, S # {}
  PROVE  \E m \in S : \A n \in S : m <= n
  <1> DEFINE R == {p \in Nat \X Nat : p[1] < p[2]}
  <1>1. IsWellFoundedOn(R, Nat)
    BY NatLessThanWellFounded, Zenon DEF OpToRel
  <1> HIDE DEF R
  <1>2. PICK m \in S : \A n \in S : <<n, m>> \notin R
    BY <1>1, WFMin
  <1>3. ASSUME NEW n \in S
        PROVE  m <= n
    <2>1. n < m => <<n, m>> \in R
      BY DEF R
    <2> QED
      BY <1>2, <2>1
  <1> QED
    BY <1>3

LEMMA UpTo ==
  ASSUME NEW n \in Nat, NEW S,
         0 \in S,
         \A i \in 0..(n - 1) : i \in S => i + 1 \in S
  PROVE  \A i \in 0..n : i \in S
  <1> DEFINE T == {i \in 0..n : i \notin S}
  <1> SUFFICES ASSUME T # {} PROVE FALSE
    OBVIOUS
  <1>1. T \subseteq Nat
    OBVIOUS
  <1> HIDE DEF T
  <1>2. PICK m \in T : \A i \in T : m <= i
    BY <1>1, LeastElement
  <1>3. m \in 0..n /\ m \notin S
    BY DEF T
  <1>4. m # 0 /\ m - 1 \in 0..(n - 1)
    BY <1>3
  <1>5. m - 1 \notin T
    BY <1>1, <1>2, <1>3
  <1>6. m - 1 \in S
    BY <1>4, <1>5 DEF T
  <1> QED
    BY <1>3, <1>4, <1>6

(* The values of a loop of n turns from b on: F is what turn i makes of a  *)
(* value in A.                                                             *)
Loops(n, A, b, F) ==
  {f \in [0..n -> A] : \A i \in 0..n : f[i] = IF i = 0 THEN b ELSE F[<<f[i - 1], i>>]}

LEMMA LoopExists ==
  ASSUME NEW n \in Nat, NEW A, NEW b \in A, NEW F,
         \A a \in A, i \in 1..n : F[<<a, i>>] \in A
  PROVE  \E f \in Loops(n, A, b, F) : TRUE
  <1> DEFINE Is(f, k) == \A i \in 0..k : f[i] = IF i = 0 THEN b ELSE F[<<f[i - 1], i>>]
             S == {k \in 0..n : \E f \in [0..k -> A] : Is(f, k)}
  <1>1. 0 \in S
    <2> DEFINE f == [i \in 0..0 |-> b]
    <2>1. f \in [0..0 -> A] /\ Is(f, 0)
      OBVIOUS
    <2> HIDE DEF f
    <2>2. 0 \in 0..n
      OBVIOUS
    <2> QED
      BY <2>1, <2>2, Zenon
  <1>2. ASSUME NEW k \in 0..(n - 1), k \in S
        PROVE  k + 1 \in S
    <2>1. PICK f \in [0..k -> A] : Is(f, k)
      BY <1>2
    <2> DEFINE g == [i \in 0..(k + 1) |-> IF i = k + 1 THEN F[<<f[k], k + 1>>] ELSE f[i]]
    <2>2. F[<<f[k], k + 1>>] \in A
      <3>1. f[k] \in A /\ k + 1 \in 1..n
        OBVIOUS
      <3> QED
        BY <3>1
    <2>3. g \in [0..(k + 1) -> A]
      BY <2>2
    <2>4. ASSUME NEW i \in 0..(k + 1)
          PROVE  g[i] = IF i = 0 THEN b ELSE F[<<g[i - 1], i>>]
      <3>1. CASE i = 0
        <4>1. 0 # k + 1 /\ 0 \in 0..k
          OBVIOUS
        <4>2. f[0] = b
          BY <2>1, <4>1
        <4> QED
          BY <3>1, <4>1, <4>2
      <3>2. CASE i # 0
        <4>1. i - 1 \in 0..k /\ g[i - 1] = f[i - 1]
          BY <3>2
        <4> HIDE DEF g
        <4>2. CASE i = k + 1
          <5>1. g[i] = F[<<f[k], k + 1>>]
            BY <4>2 DEF g
          <5> QED
            BY <3>2, <4>1, <4>2, <5>1
        <4>3. CASE i # k + 1
          <5>1. i \in 0..k /\ g[i] = f[i]
            BY <4>3 DEF g
          <5> QED
            BY <2>1, <3>2, <4>1, <5>1
        <4> QED
          BY <4>2, <4>3
      <3> QED
        BY <3>1, <3>2
    <2> HIDE DEF g
    <2> QED
      BY <2>3, <2>4
  <1> HIDE DEF S
  <1>3. n \in S
    <2>1. \A i \in 0..n : i \in S
      BY <1>1, <1>2, UpTo
    <2> QED
      BY <2>1
  <1> QED
    BY <1>3 DEF S, Loops

(* The values of such a loop are of a type its turns keep.                 *)
LEMMA LoopType ==
  ASSUME NEW n \in Nat, NEW T, NEW f,
         f[0] \in T,
         \A i \in 1..n : f[i - 1] \in T => f[i] \in T
  PROVE  \A i \in 0..n : f[i] \in T
  <1> DEFINE S == {i \in 0..n : f[i] \in T}
  <1>1. 0 \in S
    OBVIOUS
  <1>2. ASSUME NEW i \in 0..(n - 1), i \in S
        PROVE  i + 1 \in S
    <2>1. i + 1 \in 1..n /\ (i + 1) - 1 = i
      OBVIOUS
    <2> QED
      BY <1>2, <2>1
  <1> HIDE DEF S
  <1>3. \A i \in 0..n : i \in S
    BY <1>1, <1>2, UpTo
  <1> QED
    BY <1>3 DEF S

----------------------------------------------------------------------------
(* Sequences one after the other. *)

LEMMA IsSeq ==
  ASSUME NEW T, NEW n \in Nat, NEW s \in [1..n -> T]
  PROVE  s \in Seq(T) /\ Len(s) = n
  OBVIOUS

LEMMA Assoc ==
  ASSUME NEW T
  PROVE  \A a, b, c \in Seq(T) : (a \o b) \o c = a \o (b \o c)
  BY ConcatAssociative

(* What FlattenSeq joins, piece by piece.                                  *)
LEMMA Flatten ==
  ASSUME NEW T, NEW s \in Seq(Seq(T))
  PROVE  \E g \in [0..Len(s) -> Seq(T)] :
           /\ g[0] = <<>>
           /\ \A i \in 1..Len(s) : g[i] = g[i - 1] \o s[i]
           /\ FlattenSeq(s) = g[Len(s)]
  <1> DEFINE n == Len(s)
             A == Seq(T)
             F == [p \in A \X (1..n) |-> p[1] \o s[p[2]]]
  <1>1. n \in Nat /\ \A i \in 1..n : s[i] \in A
    BY ElementOfSeq, LenProperties
  <1>2. <<>> \in A
    BY EmptySeq
  <1>3. \A a \in A, i \in 1..n : F[<<a, i>>] = a \o s[i] /\ F[<<a, i>>] \in A
    BY <1>1, ConcatProperties
  <1> HIDE DEF n
  <1>4. PICK f \in [0..n -> A] :
          \A i \in 0..n : f[i] = IF i = 0 THEN <<>> ELSE F[<<f[i - 1], i>>]
    <2> HIDE DEF F, A
    <2>1. PICK f \in Loops(n, A, <<>>, F) : TRUE
      BY <1>1, <1>2, <1>3, LoopExists
    <2> QED
      BY <2>1 DEF Loops
  <1>5. f[0] = <<>>
    <2>1. 0 \in 0..n
      BY <1>1
    <2> QED
      BY <1>4, <2>1, Zenon
  <1>6. ASSUME NEW i \in 1..n
        PROVE  f[i] = f[i - 1] \o s[i]
    <2>1. i \in 0..n /\ i # 0 /\ i - 1 \in 0..n
      BY <1>1
    <2>2. f[i] = F[<<f[i - 1], i>>]
      BY <1>4, <2>1
    <2>3. f[i - 1] \in A
      BY <2>1
    <2> HIDE DEF F, A
    <2> QED
      BY <1>3, <2>2, <2>3
  <1>7. CASE n = 0
    <2>1. FlattenSeq(s) = <<>>
      BY <1>7, EmptySeq DEF FlattenSeq, n
    <2> QED
      BY <1>5, <1>6, <1>7, <2>1 DEF n
  <1>8. CASE n # 0
    <2> DEFINE G == CHOOSE g : g = [i \in 1..Len(s) |-> IF i = 1 THEN s[i] ELSE g[i - 1] \o s[i]]
    <2>1. \E g : g = [i \in 1..Len(s) |-> IF i = 1 THEN s[i] ELSE g[i - 1] \o s[i]]
      <3> DEFINE h == [i \in 1..n |-> f[i]]
      <3>1. ASSUME NEW i \in 1..n
            PROVE  h[i] = IF i = 1 THEN s[i] ELSE h[i - 1] \o s[i]
        <4>1. CASE i = 1
          <5>1. h[1] = f[1]
            BY <4>1
          <5>2. f[1] = f[0] \o s[1]
            <6>1. 1 - 1 = 0
              OBVIOUS
            <6> QED
              BY <1>6, <4>1, <6>1
          <5> QED
            BY <1>1, <1>5, <4>1, <5>1, <5>2, ConcatEmptySeq
        <4>2. CASE i # 1
          <5>1. i - 1 \in 1..n
            BY <1>1, <4>2
          <5> QED
            BY <1>6, <4>2, <5>1
        <4> QED
          BY <4>1, <4>2
      <3>2. h = [i \in 1..n |-> h[i]]
        OBVIOUS
      <3> HIDE DEF h
      <3>3. h = [i \in 1..n |-> IF i = 1 THEN s[i] ELSE h[i - 1] \o s[i]]
        BY <3>1, <3>2
      <3> QED
        BY <3>3, Zenon DEF n
    <2>2. G = [i \in 1..Len(s) |-> IF i = 1 THEN s[i] ELSE G[i - 1] \o s[i]]
      BY <2>1, Zenon
    <2>3. FlattenSeq(s) = G[Len(s)]
      BY <1>8, Zenon DEF FlattenSeq, n
    <2> HIDE DEF G
    <2> DEFINE S == {i \in 0..n : i > 0 => G[i] = f[i]}
    <2>4. 0 \in S
      BY <1>1
    <2>5. ASSUME NEW i \in 0..(n - 1), i \in S
          PROVE  i + 1 \in S
      <3>1. i + 1 \in 1..n /\ (i + 1) - 1 = i
        BY <1>1
      <3>2. G[i + 1] = IF i + 1 = 1 THEN s[i + 1] ELSE G[i] \o s[i + 1]
        BY <2>2, <3>1 DEF n
      <3>3. f[i + 1] = f[i] \o s[i + 1]
        BY <1>6, <3>1
      <3>4. CASE i = 0
        <4>1. f[1] = f[0] \o s[1] /\ 1 \in 1..n /\ G[1] = s[1]
          BY <3>1, <3>2, <3>3, <3>4, 0 + 1 = 1
        <4>2. f[1] = s[1]
          BY <1>1, <1>5, <4>1, ConcatEmptySeq
        <4> QED
          BY <3>4, <4>1, <4>2
      <3>5. CASE i # 0
        <4>1. G[i] = f[i] /\ i + 1 # 1
          BY <2>5, <3>5
        <4>2. G[i + 1] = f[i + 1]
          BY <3>2, <3>3, <4>1
        <4> QED
          BY <3>1, <4>2
      <3> QED
        BY <3>4, <3>5
    <2> HIDE DEF S, F
    <2>6. n \in S
      <3>1. \A i \in 0..n : i \in S
        BY <1>1, <2>4, <2>5, UpTo
      <3> QED
        BY <1>1, <3>1
    <2>7. FlattenSeq(s) = f[n]
      BY <1>1, <1>8, <2>3, <2>6 DEF S, n
    <2> QED
      BY <1>5, <1>6, <2>7 DEF n
  <1> QED
    BY <1>7, <1>8

LEMMA FlattenType ==
  ASSUME NEW T, NEW s \in Seq(Seq(T))
  PROVE  FlattenSeq(s) \in Seq(T)
  <1>1. PICK g \in [0..Len(s) -> Seq(T)] : FlattenSeq(s) = g[Len(s)]
    BY Flatten
  <1>2. Len(s) \in 0..Len(s)
    BY LenProperties
  <1> QED
    BY <1>1, <1>2

(* Whatever is put together in this way is what FlattenSeq makes.          *)
LEMMA FlattenIs ==
  ASSUME NEW T, NEW s \in Seq(Seq(T)), NEW h,
         h[0] = <<>>,
         \A i \in 1..Len(s) : h[i] = h[i - 1] \o s[i]
  PROVE  FlattenSeq(s) = h[Len(s)]
  <1>1. PICK g \in [0..Len(s) -> Seq(T)] :
          /\ g[0] = <<>>
          /\ \A i \in 1..Len(s) : g[i] = g[i - 1] \o s[i]
          /\ FlattenSeq(s) = g[Len(s)]
    BY Flatten
  <1>2. Len(s) \in Nat
    BY LenProperties
  <1> DEFINE S == {i \in 0..Len(s) : g[i] = h[i]}
  <1>3. 0 \in S
    BY <1>1, <1>2
  <1>4. ASSUME NEW i \in 0..(Len(s) - 1), i \in S
        PROVE  i + 1 \in S
    <2>1. i + 1 \in 1..Len(s) /\ (i + 1) - 1 = i
      BY <1>2
    <2>2. g[i + 1] = h[i + 1]
      BY <1>1, <1>4, <2>1
    <2> QED
      BY <1>2, <2>1, <2>2
  <1> HIDE DEF S
  <1>5. Len(s) \in S
    <2>1. \A i \in 0..Len(s) : i \in S
      BY <1>2, <1>3, <1>4, UpTo
    <2> QED
      BY <1>2, <2>1
  <1> QED
    BY <1>1, <1>5 DEF S

LEMMA AtLeast ==
  ASSUME NEW a \in Nat, NEW b \in Nat, NEW c \in Nat
  PROVE  (c <= a => c <= a + b) /\ b <= a + b
  OBVIOUS

LEMMA FlattenLen ==
  ASSUME NEW T, NEW s \in Seq(Seq(T)), NEW k \in 1..Len(s)
  PROVE  Len(s[k]) <= Len(FlattenSeq(s))
  <1>1. PICK g \in [0..Len(s) -> Seq(T)] :
          /\ g[0] = <<>>
          /\ \A i \in 1..Len(s) : g[i] = g[i - 1] \o s[i]
          /\ FlattenSeq(s) = g[Len(s)]
    BY Flatten
  <1>2. Len(s) \in Nat /\ \A i \in 1..Len(s) : s[i] \in Seq(T)
    BY LenProperties, ElementOfSeq
  <1>3. ASSUME NEW i \in 1..Len(s)
        PROVE  /\ i - 1 \in 0..Len(s)
               /\ Len(g[i]) = Len(g[i - 1]) + Len(s[i])
               /\ Len(s[i]) \in Nat /\ Len(g[i - 1]) \in Nat
    <2>1. i - 1 \in 0..Len(s)
      BY <1>2
    <2>2. g[i - 1] \in Seq(T) /\ s[i] \in Seq(T) /\ g[i] = g[i - 1] \o s[i]
      BY <1>1, <1>2, <2>1
    <2> QED
      BY <2>1, <2>2, ConcatProperties, LenProperties
  <1> DEFINE S == {i \in 0..Len(s) : i >= k => Len(s[k]) <= Len(g[i])}
  <1>4. 0 \in S
    BY <1>2
  <1>5. ASSUME NEW i \in 0..(Len(s) - 1), i \in S
        PROVE  i + 1 \in S
    <2>1. i + 1 \in 1..Len(s) /\ (i + 1) - 1 = i
      BY <1>2
    <2>2. /\ Len(g[i + 1]) = Len(g[i]) + Len(s[i + 1])
          /\ Len(s[i + 1]) \in Nat /\ Len(g[i]) \in Nat
      BY <1>3, <2>1
    <2>3. Len(s[k]) \in Nat
      BY <1>3
    <2>4. i + 1 >= k => Len(s[k]) <= Len(g[i + 1])
      <3>1. CASE i + 1 = k
        BY <2>2, <2>3, <3>1, AtLeast, Zenon
      <3>2. CASE i >= k
        <4>1. Len(s[k]) <= Len(g[i])
          BY <1>5, <3>2
        <4> QED
          BY <2>2, <2>3, <4>1, AtLeast, Zenon
      <3> QED
        BY <1>2, <3>1, <3>2
    <2> QED
      BY <2>1, <2>4
  <1> HIDE DEF S
  <1>6. \A i \in 0..Len(s) : i \in S
    BY <1>2, <1>4, <1>5, UpTo
  <1> QED
    BY <1>1, <1>2, <1>6 DEF S

(* What stands before the first and behind the last may be a part of them. *)
Ended(open, s, close) ==
  [i \in 1..Len(s) |-> (IF i = 1 THEN open \o s[i] ELSE s[i])
                       \o (IF i = Len(s) THEN close ELSE <<>>)]

LEMMA EndedType ==
  ASSUME NEW T, NEW s \in Seq(Seq(T)), NEW open \in Seq(T), NEW close \in Seq(T)
  PROVE  Ended(open, s, close) \in Seq(Seq(T)) /\ Len(Ended(open, s, close)) = Len(s)
  <1> DEFINE a(i) == IF i = 1 THEN open \o s[i] ELSE s[i]
             e(i) == IF i = Len(s) THEN close ELSE <<>>
  <1>1. Len(s) \in Nat /\ \A i \in 1..Len(s) : s[i] \in Seq(T)
    BY LenProperties, ElementOfSeq
  <1>2. ASSUME NEW i \in 1..Len(s)
        PROVE  a(i) \o e(i) \in Seq(T)
    <2>1. open \o s[i] \in Seq(T) /\ s[i] \in Seq(T)
      BY <1>1, ConcatProperties
    <2>2. a(i) \in Seq(T) /\ e(i) \in Seq(T)
      BY <2>1, EmptySeq
    <2> HIDE DEF a, e
    <2> QED
      BY <2>2, ConcatProperties
  <1>3. Ended(open, s, close) = [i \in 1..Len(s) |-> a(i) \o e(i)]
    BY DEF Ended
  <1> HIDE DEF a, e
  <1>4. Ended(open, s, close) \in [1..Len(s) -> Seq(T)]
    BY <1>2, <1>3
  <1> QED
    BY <1>1, <1>4, IsSeq

LEMMA FlattenEnds ==
  ASSUME NEW T, NEW s \in Seq(Seq(T)), s # <<>>,
         NEW open \in Seq(T), NEW close \in Seq(T)
  PROVE  FlattenSeq(Ended(open, s, close)) = open \o FlattenSeq(s) \o close
  <1> DEFINE n == Len(s)
             t == Ended(open, s, close)
  <1>1. PICK g \in [0..n -> Seq(T)] :
          /\ g[0] = <<>>
          /\ \A i \in 1..n : g[i] = g[i - 1] \o s[i]
          /\ FlattenSeq(s) = g[n]
    BY Flatten
  <1>2. n \in Nat \ {0} /\ \A i \in 1..n : s[i] \in Seq(T)
    BY LenProperties, ElementOfSeq, EmptySeq
  <1> DEFINE h == [i \in 0..n |-> IF i = 0 THEN <<>>
                                  ELSE IF i = n THEN open \o g[i] \o close ELSE open \o g[i]]
             e(i) == IF i = n THEN close ELSE <<>>
  <1>a. /\ t \in Seq(Seq(T)) /\ Len(t) = n
        /\ \A i \in 1..n : t[i] = (IF i = 1 THEN open \o s[i] ELSE s[i]) \o e(i)
    <2>1. t \in Seq(Seq(T)) /\ Len(t) = n
      BY EndedType, ZenonT(60)
    <2>2. t = [i \in 1..n |-> (IF i = 1 THEN open \o s[i] ELSE s[i]) \o e(i)]
      BY Zenon DEF Ended
    <2> HIDE DEF t, e
    <2> QED
      BY <2>1, <2>2, Zenon
  <1>b. \A a, b, c \in Seq(T) : (a \o b) \o c = a \o (b \o c)
    BY ONLY Assoc, SMTT(30)
  <1> HIDE DEF n, t
  <1>3. ASSUME NEW i \in 1..n
        PROVE  h[i] = h[i - 1] \o t[i]
    <2>1. /\ i - 1 \in 0..n /\ i \in 0..n /\ i # 0 /\ i - 1 # n
          /\ g[i - 1] \in Seq(T) /\ s[i] \in Seq(T) /\ e(i) \in Seq(T)
      BY <1>2, EmptySeq
    <2>2. h[i] = (open \o g[i]) \o e(i)
      <3>1. g[i] \in Seq(T)
        BY <2>1
      <3>2. open \o g[i] \in Seq(T)
        BY <3>1, ConcatProperties
      <3>3. (open \o g[i]) \o <<>> = open \o g[i]
        BY <3>2, ConcatEmptySeq
      <3> QED
        BY <2>1, <3>3
    <2>3. (open \o g[i]) \o e(i) = (open \o g[i - 1]) \o (s[i] \o e(i))
      <3> HIDE DEF e
      <3>1. g[i] = g[i - 1] \o s[i]
        BY <1>1
      <3>2. open \o g[i] = (open \o g[i - 1]) \o s[i]
        <4>1. (open \o g[i - 1]) \o s[i] = open \o (g[i - 1] \o s[i])
          BY <1>b, <2>1, ZenonT(60)
        <4> QED
          BY ONLY <3>1, <4>1
      <3>3. open \o g[i - 1] \in Seq(T)
        BY <2>1, ConcatProperties
      <3> QED
        <4>1. ((open \o g[i - 1]) \o s[i]) \o e(i) = (open \o g[i - 1]) \o (s[i] \o e(i))
          BY <1>b, <2>1, <3>3, Zenon
        <4> QED
          BY ONLY <3>2, <4>1
    <2>4. CASE i = 1
      <3>1. t[i] = (open \o s[i]) \o e(i)
        BY <1>a, <2>4
      <3>2. h[i - 1] = <<>> /\ g[i - 1] = <<>>
        BY <1>1, <1>2, <2>4
      <3>3. (open \o g[i - 1]) \o (s[i] \o e(i)) = (open \o s[i]) \o e(i)
        <4> HIDE DEF e
        <4>1. open \o <<>> = open
          BY ConcatEmptySeq
        <4>2. open \o (s[i] \o e(i)) = (open \o s[i]) \o e(i)
          BY <1>b, <2>1, ZenonT(60)
        <4> QED
          BY <3>2, <4>1, <4>2
      <3>4. t[i] \in Seq(T)
        <4> HIDE DEF e
        <4>1. open \o s[i] \in Seq(T)
          BY <2>1, ConcatProperties
        <4> QED
          BY <2>1, <3>1, <4>1, ConcatProperties
      <3>5. <<>> \o t[i] = t[i]
        BY <3>4, ConcatEmptySeq
      <3> QED
        BY <2>2, <2>3, <3>1, <3>2, <3>3, <3>5
    <2>5. CASE i # 1
      <3>1. t[i] = s[i] \o e(i)
        BY <1>a, <2>5
      <3>2. h[i - 1] = open \o g[i - 1]
        BY <2>1, <2>5
      <3> QED
        BY <2>2, <2>3, <3>1, <3>2
    <2> QED
      BY <2>4, <2>5
  <1>4. h[0] = <<>> /\ h[n] = open \o g[n] \o close
    BY <1>2
  <1> HIDE DEF h
  <1>5. FlattenSeq(t) = h[n]
    BY <1>3, <1>4, <1>a, FlattenIs
  <1> QED
    BY <1>1, <1>4, <1>5 DEF n, t

----------------------------------------------------------------------------
(* Pieces written one after the other into a buffer. *)

(* What texts are made of.  The punctuation is strings as well, which the  *)
(* provers do not know of a constant.                                      *)
Punctuation == {",", "{", "}", "[", "]", "Value", "version", "RequestID", "Property", "Require",
                "Delete", "Identifier", "id", "Output", "RetCode"}
Token       == Key \cup Punctuation

LEMMA Room == DM_MSG_REPORT_BUF_LEN \in Nat \ {0}
  BY FormatsAssumption

LEMMA Cut ==
  ASSUME NEW T, NEW w \in Seq(T), NEW text \in Seq(T), NEW room \in Int
  PROVE  /\ HAL_Snprintf(w, room, text) \in Seq(T)
         /\ room > Len(text) => HAL_Snprintf(w, room, text) = w \o text
         /\ room <= Len(text) =>
              Len(HAL_Snprintf(w, room, text)) = Len(w) + (IF room >= 1 THEN room - 1 ELSE 0)
  <1> DEFINE n == IF room - 1 < Len(text) THEN room - 1 ELSE Len(text)
             s == SubSeq(text, 1, n)
  <1>1. Len(text) \in Nat /\ Len(w) \in Nat
    BY LenProperties
  <1>2. n \in Int /\ n <= Len(text)
    BY <1>1
  <1>3. room > Len(text) => n = Len(text)
    BY <1>1
  <1>4. room <= Len(text) => n = room - 1
    BY <1>1
  <1>5. HAL_Snprintf(w, room, text) = w \o s
    BY DEF HAL_Snprintf
  <1> HIDE DEF n
  <1>6. \A i \in 1..n : text[i] \in T
    <2>1. \A i \in 1..n : i \in 1..Len(text)
      BY <1>1, <1>2
    <2> QED
      BY <2>1, ElementOfSeq
  <1>7. s \in Seq(T) /\ Len(s) = IF 1 <= n THEN n - 1 + 1 ELSE 0
    BY <1>2, <1>6, SubSeqProperties
  <1>8. room > Len(text) => s = text
    BY <1>3, SubSeqFull
  <1> HIDE DEF s
  <1>9. w \o s \in Seq(T) /\ Len(w \o s) = Len(w) + Len(s)
    BY <1>7, ConcatProperties
  <1>10. room <= Len(text) => Len(s) = IF room >= 1 THEN room - 1 ELSE 0
    BY <1>4, <1>7
  <1> QED
    BY <1>5, <1>8, <1>9, <1>10

(* The buffer and what is left of it, after each piece.                    *)
Buffer == [text : Seq(Token), remain_size : Int]

LEMMA PutType ==
  ASSUME NEW out \in Buffer, NEW piece \in Seq(Token)
  PROVE  Put(out, piece) \in Buffer
  <1>1. HAL_Snprintf(out.text, out.remain_size, piece) \in Seq(Token)
    BY Cut DEF Buffer
  <1>2. out.remain_size - Len(piece) \in Int
    BY LenProperties DEF Buffer
  <1> QED
    BY <1>1, <1>2 DEF Put, Buffer

LEMMA PutAllIs ==
  ASSUME NEW pieces \in Seq(Seq(Token))
  PROVE  /\ PutAll(pieces) \in [0..Len(pieces) -> Buffer]
         /\ PutAll(pieces)[0] = [text |-> <<>>, remain_size |-> DM_MSG_REPORT_BUF_LEN]
         /\ \A i \in 1..Len(pieces) :
              PutAll(pieces)[i] = Put(PutAll(pieces)[i - 1], pieces[i])
  <1> DEFINE n == Len(pieces)
             b == [text |-> <<>>, remain_size |-> DM_MSG_REPORT_BUF_LEN]
             F == [p \in Buffer \X (1..n) |-> Put(p[1], pieces[p[2]])]
             Is(f) == f = [i \in 0..n |-> IF i = 0 THEN b ELSE Put(f[i - 1], pieces[i])]
  <1>1. n \in Nat /\ \A i \in 1..n : pieces[i] \in Seq(Token)
    BY LenProperties, ElementOfSeq
  <1>2. b \in Buffer
    BY Room, EmptySeq DEF Buffer
  <1>3. \A a \in Buffer, i \in 1..n : /\ F[<<a, i>>] = Put(a, pieces[i])
                                      /\ F[<<a, i>>] \in Buffer
    BY <1>1, PutType
  <1> HIDE DEF n, b, F
  <1>4. PICK f \in Loops(n, Buffer, b, F) : TRUE
    BY <1>1, <1>2, <1>3, LoopExists
  <1>5. f \in [0..n -> Buffer]
    BY <1>4 DEF Loops
  <1>6. ASSUME NEW i \in 0..n
        PROVE  f[i] = IF i = 0 THEN b ELSE Put(f[i - 1], pieces[i])
    <2>1. f[i] = IF i = 0 THEN b ELSE F[<<f[i - 1], i>>]
      BY <1>4 DEF Loops
    <2>2. i # 0 => i - 1 \in 0..n /\ i \in 1..n
      BY <1>1
    <2>3. i # 0 => f[i - 1] \in Buffer
      BY <1>5, <2>2
    <2> QED
      BY <1>3, <2>1, <2>2, <2>3
  <1>7. Is(f)
    BY <1>5, <1>6
  <1>8. \E g : Is(g)
    BY <1>7
  <1>9. Is(PutAll(pieces))
    BY <1>8, Zenon DEF PutAll, n, b
  <1> DEFINE g == PutAll(pieces)
  <1> HIDE DEF g
  <1>10. \A i \in 0..n : g[i] = IF i = 0 THEN b ELSE Put(g[i - 1], pieces[i])
    BY <1>9 DEF g
  <1>11. g = [i \in 0..n |-> g[i]]
    BY <1>9 DEF g
  <1>12. g[0] = b /\ \A i \in 1..n : g[i] = Put(g[i - 1], pieces[i])
    BY <1>1, <1>10
  <1>13. ASSUME NEW i \in 1..n, g[i - 1] \in Buffer
         PROVE  g[i] \in Buffer
    BY <1>1, <1>12, <1>13, PutType
  <1>14. \A i \in 0..n : g[i] \in Buffer
    BY <1>1, <1>2, <1>12, <1>13, LoopType
  <1>15. g \in [0..n -> Buffer]
    BY <1>11, <1>14
  <1> QED
    BY <1>12, <1>15 DEF g, n, b

(* The buffer holds what is written, or what of it there is room for.      *)
Holds(out, written) ==
  /\ out.remain_size = DM_MSG_REPORT_BUF_LEN - Len(written)
  /\ Len(written) < DM_MSG_REPORT_BUF_LEN => out.text = written
  /\ Len(written) >= DM_MSG_REPORT_BUF_LEN => Len(out.text) = DM_MSG_REPORT_BUF_LEN - 1

LEMMA PutHolds ==
  ASSUME NEW out \in Buffer, NEW written \in Seq(Token), NEW piece \in Seq(Token),
         Holds(out, written)
  PROVE  Holds(Put(out, piece), written \o piece)
  <1> DEFINE L == DM_MSG_REPORT_BUF_LEN
             room == out.remain_size
             text == out.text
             next == HAL_Snprintf(text, room, piece)
             both == written \o piece
             w == Len(written)
             p == Len(piece)
  <1>1. Put(out, piece).text = next /\ Put(out, piece).remain_size = room - p
    BY DEF Put
  <1>2. room = L - w /\ (w < L => text = written) /\ (w >= L => Len(text) = L - 1)
    BY DEF Holds
  <1>3. Len(both) = w + p
    BY ConcatProperties
  <1>4. w \in Nat /\ p \in Nat /\ L \in Nat \ {0}
    BY LenProperties, Room
  <1>5. /\ room > p => next = text \o piece
        /\ room <= p => Len(next) = Len(text) + (IF room >= 1 THEN room - 1 ELSE 0)
    <2>1. text \in Seq(Token) /\ room \in Int
      BY DEF Buffer
    <2> QED
      BY <2>1, Cut
  <1>6. w < L => Len(text) = w
    BY <1>2
  <1>7. w < L => text \o piece = both
    BY <1>2
  <1> HIDE DEF L, room, text, next, both, w, p
  <1>8. Len(both) < L => next = both
    <2>1. Len(both) < L => w < L /\ room > p
      BY ONLY <1>2, <1>3, <1>4
    <2> QED
      BY ONLY <1>5, <1>7, <2>1
  <1>9. Len(both) >= L => Len(next) = L - 1
    <2>1. Len(both) >= L => room <= p
      BY ONLY <1>2, <1>3, <1>4
    <2>2. CASE w < L
      BY ONLY <1>2, <1>4, <1>5, <1>6, <2>1, <2>2
    <2>3. CASE w >= L
      BY ONLY <1>2, <1>4, <1>5, <2>1, <2>3
    <2> QED
      BY ONLY <1>4, <2>2, <2>3
  <1>10. room - p = L - Len(both)
    BY ONLY <1>2, <1>3, <1>4
  <1> QED
    BY <1>1, <1>8, <1>9, <1>10 DEF Holds, L, both

(* What a generator makes of a text: the text, if there is room for it;    *)
(* else a failure or as much of it as there is room for.                   *)
Faithful(result, whole) ==
  /\ result \in [ok : BOOLEAN, text : Seq(Token)]
  /\ whole \in Seq(Token)
  /\ Len(whole) < DM_MSG_REPORT_BUF_LEN => result = Success(whole)
  /\ Len(whole) >= DM_MSG_REPORT_BUF_LEN /\ result.ok =>
       Len(result.text) = DM_MSG_REPORT_BUF_LEN - 1

LEMMA FailureIs == Failure \in [ok : BOOLEAN, text : Seq(Token)] /\ ~Failure.ok
  BY EmptySeq DEF Failure

LEMMA SuccessIs ==
  ASSUME NEW text \in Seq(Token)
  PROVE  /\ Success(text) \in [ok : BOOLEAN, text : Seq(Token)]
         /\ Success(text).ok /\ Success(text).text = text
  BY DEF Success

LEMMA FaithfulFailure ==
  ASSUME NEW whole \in Seq(Token), Len(whole) >= DM_MSG_REPORT_BUF_LEN
  PROVE  Faithful(Failure, whole)
  <1>1. ~(Len(whole) < DM_MSG_REPORT_BUF_LEN)
    BY LenProperties, Room
  <1> QED
    BY <1>1, FailureIs DEF Faithful

LEMMA FaithfulSuccess ==
  ASSUME NEW whole \in Seq(Token), NEW text \in Seq(Token),
         Len(whole) < DM_MSG_REPORT_BUF_LEN => text = whole,
         Len(whole) >= DM_MSG_REPORT_BUF_LEN => Len(text) = DM_MSG_REPORT_BUF_LEN - 1
  PROVE  Faithful(Success(text), whole)
  BY SuccessIs DEF Faithful

LEMMA PiecesFaithful ==
  ASSUME NEW pieces \in Seq(Seq(Token))
  PROVE  Faithful(Pieces(pieces), FlattenSeq(pieces))
  <1> DEFINE n == Len(pieces)
             out == PutAll(pieces)
             whole == FlattenSeq(pieces)
             L == DM_MSG_REPORT_BUF_LEN
  <1>1. PICK g \in [0..n -> Seq(Token)] :
          /\ g[0] = <<>>
          /\ \A i \in 1..n : g[i] = g[i - 1] \o pieces[i]
          /\ whole = g[n]
    BY Flatten
  <1>2. n \in Nat /\ \A i \in 1..n : pieces[i] \in Seq(Token)
    BY LenProperties, ElementOfSeq
  <1>3. /\ out \in [0..n -> Buffer]
        /\ out[0] = [text |-> <<>>, remain_size |-> L]
        /\ \A i \in 1..n : out[i] = Put(out[i - 1], pieces[i])
    BY PutAllIs
  <1> DEFINE S == {i \in 0..n : Holds(out[i], g[i])}
  <1> HIDE DEF n, out, whole
  <1>4. 0 \in S
    <2>1. Holds([text |-> <<>>, remain_size |-> L], <<>>)
      BY Room, EmptySeq DEF Holds
    <2> QED
      BY <1>1, <1>2, <1>3, <2>1
  <1>5. ASSUME NEW i \in 0..(n - 1), i \in S
        PROVE  i + 1 \in S
    <2>1. i + 1 \in 1..n /\ (i + 1) - 1 = i /\ i \in 0..n /\ i + 1 \in 0..n
      BY <1>2
    <2>2. Holds(Put(out[i], pieces[i + 1]), g[i] \o pieces[i + 1])
      BY <1>2, <1>3, <1>5, <2>1, PutHolds
    <2>3. out[i + 1] = Put(out[i], pieces[i + 1]) /\ g[i + 1] = g[i] \o pieces[i + 1]
      BY <1>1, <1>3, <2>1
    <2> QED
      BY <2>1, <2>2, <2>3
  <1> HIDE DEF S
  <1>6. \A i \in 0..n : i \in S
    BY <1>2, <1>4, <1>5, UpTo
  <1>7. Holds(out[n], whole) /\ out[n] \in Buffer /\ whole \in Seq(Token)
    BY <1>1, <1>2, <1>3, <1>6 DEF S
  <1>8. Pieces(pieces) = IF out[n].remain_size < 0 THEN Failure ELSE Success(out[n].text)
    BY DEF Pieces, out, n
  <1>9. Len(whole) \in Nat /\ L \in Nat
    BY <1>7, LenProperties, Room
  <1>10. out[n].text \in Seq(Token) /\ out[n].remain_size = L - Len(whole)
    BY <1>7 DEF Buffer, Holds
  <1> DEFINE text == out[n].text
             room == out[n].remain_size
  <1>a. /\ Len(whole) < L => text = whole
        /\ Len(whole) >= L => Len(text) = L - 1
    BY <1>7 DEF Holds
  <1> HIDE DEF text, room, L
  <1>11. CASE Len(whole) > L
    <2>1. Pieces(pieces) = Failure
      <3>1. room < 0
        BY ONLY <1>9, <1>10, <1>11 DEF room
      <3> QED
        BY <1>8, <3>1 DEF room
    <2>2. Len(whole) >= L
      BY ONLY <1>9, <1>11
    <2> QED
      BY <1>7, <2>1, <2>2, FaithfulFailure DEF L, whole
  <1>12. CASE Len(whole) <= L
    <2>1. Pieces(pieces) = Success(text)
      <3>1. ~(room < 0)
        BY ONLY <1>9, <1>10, <1>12 DEF room
      <3> QED
        BY <1>8, <3>1 DEF room, text
    <2>2. Faithful(Success(text), whole)
      BY <1>7, <1>a, <1>10, FaithfulSuccess DEF text, L
    <2> QED
      BY <2>1, <2>2 DEF whole
  <1> QED
    BY <1>9, <1>11, <1>12 DEF whole

(* A piece is whole, or it fills the buffer as its whole would.            *)
Cuts(piece, whole) ==
  /\ piece \in Seq(Token) /\ whole \in Seq(Token)
  /\ \/ piece = whole
     \/ Len(piece) >= DM_MSG_REPORT_BUF_LEN - 1 /\ Len(whole) >= DM_MSG_REPORT_BUF_LEN

LEMMA CutsFaithful ==
  ASSUME NEW result, NEW whole, Faithful(result, whole), result.ok
  PROVE  Cuts(result.text, whole)
  <1>1. /\ result \in [ok : BOOLEAN, text : Seq(Token)]
        /\ whole \in Seq(Token)
        /\ Len(whole) < DM_MSG_REPORT_BUF_LEN => result = Success(whole)
        /\ Len(whole) >= DM_MSG_REPORT_BUF_LEN =>
             Len(result.text) = DM_MSG_REPORT_BUF_LEN - 1
    BY DEF Faithful
  <1>2. result.text \in Seq(Token) /\ Success(whole).text = whole
    BY <1>1, SuccessIs
  <1> DEFINE text == result.text
             L == DM_MSG_REPORT_BUF_LEN
  <1>3. Len(whole) < L => text = whole
    BY <1>1, <1>2
  <1>4. Len(whole) \in Nat /\ L \in Nat /\ Len(text) \in Nat
    BY <1>1, <1>2, LenProperties, Room
  <1> HIDE DEF text, L
  <1>5. Len(whole) < L \/ Len(whole) >= L
    BY ONLY <1>4
  <1>6. Len(text) = L - 1 => Len(text) >= L - 1
    BY ONLY <1>4
  <1> QED
    BY <1>1, <1>2, <1>3, <1>5, <1>6 DEF Cuts, text, L

LEMMA CutsBetween ==
  ASSUME NEW piece, NEW whole, Cuts(piece, whole), NEW a \in Seq(Token), NEW b \in Seq(Token)
  PROVE  Cuts(a \o piece \o b, a \o whole \o b)
  <1>1. piece \in Seq(Token) /\ whole \in Seq(Token)
    BY DEF Cuts
  <1>2. a \o piece \in Seq(Token) /\ a \o whole \in Seq(Token)
    BY <1>1, ConcatProperties
  <1>3. a \o piece \o b \in Seq(Token) /\ a \o whole \o b \in Seq(Token)
    BY <1>2, ConcatProperties
  <1>4. /\ Len(a \o piece \o b) = Len(a) + Len(piece) + Len(b)
        /\ Len(a \o whole \o b) = Len(a) + Len(whole) + Len(b)
    BY <1>1, <1>2, ConcatProperties
  <1>5. /\ Len(a) \in Nat /\ Len(b) \in Nat /\ Len(piece) \in Nat /\ Len(whole) \in Nat
        /\ DM_MSG_REPORT_BUF_LEN \in Nat
    BY <1>1, LenProperties, Room
  <1> DEFINE x == a \o piece \o b
             y == a \o whole \o b
             L == DM_MSG_REPORT_BUF_LEN
  <1>6. piece = whole => x = y
    OBVIOUS
  <1> HIDE DEF x, y
  <1>7. Len(x) >= Len(piece) /\ Len(y) >= Len(whole) /\ Len(x) \in Nat /\ Len(y) \in Nat
    BY ONLY <1>4, <1>5 DEF x, y
  <1> HIDE DEF L
  <1>8. piece = whole \/ (Len(piece) >= L - 1 /\ Len(whole) >= L)
    BY DEF Cuts, L
  <1>9. x = y \/ (Len(x) >= L - 1 /\ Len(y) >= L)
    BY ONLY <1>5, <1>6, <1>7, <1>8 DEF L
  <1> QED
    BY <1>3, <1>9 DEF Cuts, x, y, L

(* A piece alone in the buffer.                                            *)
LEMMA AloneFaithful ==
  ASSUME NEW piece, NEW whole, Cuts(piece, whole)
  PROVE  Faithful(Success(HAL_Snprintf(<<>>, DM_MSG_REPORT_BUF_LEN, piece)), whole)
  <1> DEFINE L == DM_MSG_REPORT_BUF_LEN
             text == HAL_Snprintf(<<>>, L, piece)
  <1>1. /\ piece \in Seq(Token) /\ whole \in Seq(Token)
        /\ piece = whole \/ (Len(piece) >= L - 1 /\ Len(whole) >= L)
    BY DEF Cuts
  <1>2. Len(piece) \in Nat /\ Len(whole) \in Nat /\ L \in Nat \ {0} /\ L \in Int
    BY <1>1, LenProperties, Room
  <1>3. <<>> \in Seq(Token) /\ Len(<<>>) = 0 /\ <<>> \o piece = piece
    BY <1>1, EmptySeq, ConcatEmptySeq
  <1>4. /\ text \in Seq(Token)
        /\ L > Len(piece) => text = piece
        /\ L <= Len(piece) => Len(text) = 0 + (IF L >= 1 THEN L - 1 ELSE 0)
    <2> DEFINE none == <<>>
               whole_text == HAL_Snprintf(none, L, piece)
    <2>1. none \in Seq(Token) /\ Len(none) = 0 /\ none \o piece = piece
      BY <1>3
    <2> HIDE DEF L, none
    <2>2. /\ whole_text \in Seq(Token)
          /\ L > Len(piece) => whole_text = none \o piece
          /\ L <= Len(piece) =>
               Len(whole_text) = Len(none) + (IF L >= 1 THEN L - 1 ELSE 0)
      BY <1>1, <1>2, <2>1, Cut, ZenonT(60)
    <2>3. whole_text = text
      BY DEF none
    <2> HIDE DEF text, whole_text
    <2> QED
      BY <2>1, <2>2, <2>3
  <1> HIDE DEF text, L
  <1>5. Len(whole) < L => text = whole
    <2>1. Len(whole) < L => piece = whole
      BY ONLY <1>1, <1>2
    <2> QED
      BY ONLY <1>2, <1>4, <2>1
  <1>6. Len(whole) >= L => Len(text) = L - 1
    <2>1. Len(whole) >= L => Len(piece) >= L - 1
      BY ONLY <1>1, <1>2
    <2> QED
      BY ONLY <1>2, <1>4, <2>1
  <1> QED
    BY <1>1, <1>4, <1>5, <1>6, FaithfulSuccess DEF text, L

LEMMA PiecesFit ==
  ASSUME NEW pieces \in Seq(Seq(Token)), NEW wholes \in Seq(Seq(Token)),
         Len(pieces) = Len(wholes),
         \A i \in 1..Len(wholes) : Cuts(pieces[i], wholes[i])
  PROVE  Faithful(Pieces(pieces), FlattenSeq(wholes))
  <1> DEFINE result == Pieces(pieces)
             p == FlattenSeq(pieces)
             w == FlattenSeq(wholes)
             L == DM_MSG_REPORT_BUF_LEN
  <1>1. Faithful(result, p)
    BY PiecesFaithful
  <1>2. CASE \A i \in 1..Len(wholes) : pieces[i] = wholes[i]
    <2>1. pieces = wholes
      BY <1>2, SeqEqual
    <2> QED
      BY <1>1, <2>1
  <1>3. CASE \E i \in 1..Len(wholes) : pieces[i] # wholes[i]
    <2>1. PICK k \in 1..Len(wholes) : pieces[k] # wholes[k]
      BY <1>3
    <2>2. Len(pieces[k]) >= L - 1 /\ Len(wholes[k]) >= L
      BY <2>1 DEF Cuts
    <2>3. Len(pieces[k]) <= Len(p) /\ Len(wholes[k]) <= Len(w)
      BY FlattenLen
    <2>4. p \in Seq(Token) /\ w \in Seq(Token)
      BY FlattenType
    <2>5. /\ Len(pieces[k]) \in Nat /\ Len(wholes[k]) \in Nat
          /\ Len(p) \in Nat /\ Len(w) \in Nat /\ L \in Nat
      <3>1. pieces[k] \in Seq(Token) /\ wholes[k] \in Seq(Token)
        BY ElementOfSeq
      <3> QED
        BY <2>4, <3>1, LenProperties, Room
    <2>6. /\ result \in [ok : BOOLEAN, text : Seq(Token)]
          /\ Len(p) < L => result = Success(p)
          /\ Len(p) >= L /\ result.ok => Len(result.text) = L - 1
      BY <1>1 DEF Faithful
    <2>7. Success(p).text = p
      BY <2>4, SuccessIs
    <2> HIDE DEF L, result, p, w
    <2>8. Len(w) >= L /\ Len(p) >= L - 1 /\ ~(Len(w) < L)
      BY ONLY <2>2, <2>3, <2>5, SMTT(30)
    <2>9. Len(p) = L - 1 \/ Len(p) >= L
      BY ONLY <2>5, <2>8
    <2>10. Len(p) = L - 1 => Len(p) < L
      BY ONLY <2>5
    <2>11. result.ok => Len(result.text) = L - 1
      BY <2>6, <2>7, <2>9, <2>10
    <2> QED
      BY <2>4, <2>6, <2>8, <2>11 DEF Faithful, L, result, w
  <1> QED
    BY <1>2, <1>3

(* Texts with a separator before each but the first.                       *)
Separated(texts, separator) ==
  [i \in 1..Len(texts) |-> (IF i = 1 THEN <<>> ELSE separator) \o texts[i]]

LEMMA SeparatedType ==
  ASSUME NEW T, NEW texts \in Seq(Seq(T)), NEW separator \in Seq(T)
  PROVE  /\ Separated(texts, separator) \in Seq(Seq(T))
         /\ Len(Separated(texts, separator)) = Len(texts)
         /\ Joined(texts, separator) = FlattenSeq(Separated(texts, separator))
         /\ Joined(texts, separator) \in Seq(T)
  <1> DEFINE a(i) == IF i = 1 THEN <<>> ELSE separator
             s == Separated(texts, separator)
  <1>1. Len(texts) \in Nat /\ \A i \in 1..Len(texts) : texts[i] \in Seq(T)
    BY LenProperties, ElementOfSeq
  <1>2. ASSUME NEW i \in 1..Len(texts)
        PROVE  a(i) \o texts[i] \in Seq(T)
    <2>1. a(i) \in Seq(T)
      BY EmptySeq
    <2> HIDE DEF a
    <2> QED
      BY <1>1, <2>1, ConcatProperties
  <1>3. s = [i \in 1..Len(texts) |-> a(i) \o texts[i]]
    BY DEF Separated
  <1> HIDE DEF a
  <1>4. s \in [1..Len(texts) -> Seq(T)]
    BY <1>2, <1>3
  <1> HIDE DEF s
  <1>5. s \in Seq(Seq(T)) /\ Len(s) = Len(texts)
    BY <1>1, <1>4, IsSeq
  <1>6. Joined(texts, separator) = FlattenSeq(s)
    BY Zenon DEF Joined, Separated, s
  <1>7. FlattenSeq(s) \in Seq(T)
    BY <1>5, FlattenType
  <1> QED
    BY <1>5, <1>6, <1>7 DEF s

LEMMA FlattenOne ==
  ASSUME NEW T, NEW s \in Seq(Seq(T)), Len(s) = 1
  PROVE  FlattenSeq(s) = s[1]
  <1>1. PICK g \in [0..Len(s) -> Seq(T)] :
          /\ g[0] = <<>>
          /\ \A i \in 1..Len(s) : g[i] = g[i - 1] \o s[i]
          /\ FlattenSeq(s) = g[Len(s)]
    BY Flatten
  <1>2. g[1] = <<>> \o s[1] /\ FlattenSeq(s) = g[1]
    <2>1. 1 \in 1..Len(s) /\ 1 - 1 = 0
      OBVIOUS
    <2> QED
      BY <1>1, <2>1
  <1>3. s[1] \in Seq(T)
    BY ElementOfSeq, SMTT(30)
  <1> QED
    BY <1>2, <1>3, ConcatEmptySeq

Result == [ok : BOOLEAN, text : Seq(Token)]

LEMMA Alone ==
  ASSUME NEW T, NEW c \in T
  PROVE  <<c>> \in Seq(T) /\ Len(<<c>>) = 1
  OBVIOUS

LEMMA TokenAssoc == \A a, b, d \in Seq(Token) : (a \o b) \o d = a \o (b \o d)
  <1> SUFFICES ASSUME NEW a \in Seq(Token), NEW b \in Seq(Token), NEW d \in Seq(Token)
               PROVE  (a \o b) \o d = a \o (b \o d)
    OBVIOUS
  <1> QED
    BY ConcatAssociative

LEMMA Comma == <<",">> \in Seq(Token)
  <1>1. "," \in Token
    BY DEF Token, Punctuation
  <1> QED
    BY <1>1, Alone

LEMMA MembersFaithful ==
  ASSUME NEW open \in Seq(Token), NEW close \in Seq(Token),
         NEW wholes \in Seq(Seq(Token)) \ {<<>>},
         NEW members \in [1..Len(wholes) -> Result],
         \A i \in 1..Len(wholes) : Faithful(members[i], wholes[i])
  PROVE  Faithful(Members(open, members, close), open \o Joined(wholes, <<",">>) \o close)
  <1> DEFINE n == Len(wholes)
             s == Separated(wholes, <<",">>)
             t == Ended(open, s, close)
             whole == FlattenSeq(t)
             a(i) == IF i = 1 THEN open ELSE <<",">>
             e(i) == IF i = n THEN close ELSE <<>>
             Piece(i) == a(i) \o members[i].text \o e(i)
             pieces == [i \in 1..n |-> Piece(i)]
             result == Members(open, members, close)
  <1>1. <<",">> \in Seq(Token)
    BY Comma
  <1>2. /\ s \in Seq(Seq(Token)) /\ Len(s) = n
        /\ Joined(wholes, <<",">>) = FlattenSeq(s)
    <2> DEFINE comma == <<",">>
    <2> HIDE DEF comma
    <2> QED
      BY <1>1, SeparatedType DEF comma
  <1>3. n \in Nat \ {0} /\ \A i \in 1..n : wholes[i] \in Seq(Token)
    BY LenProperties, ElementOfSeq, EmptySeq
  <1>4. s # <<>>
    BY <1>2, <1>3, EmptySeq
  <1>5. whole = open \o Joined(wholes, <<",">>) \o close
    <2> HIDE DEF s
    <2>1. whole = open \o FlattenSeq(s) \o close
      BY <1>2, <1>4, FlattenEnds
    <2> QED
      BY <1>2, <2>1
  <1>6. t \in Seq(Seq(Token)) /\ Len(t) = n
    <2> HIDE DEF s
    <2>1. s \in Seq(Seq(Token))
      BY <1>2
    <2>2. open \in Seq(Token) /\ close \in Seq(Token)
      OBVIOUS
    <2>3. t \in Seq(Seq(Token)) /\ Len(t) = Len(s)
      BY ONLY <2>1, <2>2, EndedType
    <2> QED
      BY <1>2, <2>3
  <1>7. ASSUME NEW i \in 1..n
        PROVE  t[i] = a(i) \o wholes[i] \o e(i)
    <2>1. t[i] = (IF i = 1 THEN open \o s[i] ELSE s[i]) \o e(i)
      BY <1>2, Zenon DEF Ended
    <2>2. s[i] = (IF i = 1 THEN <<>> ELSE <<",">>) \o wholes[i]
      BY Zenon DEF Separated
    <2>3. i = 1 => s[i] = wholes[i]
      <3>1. <<>> \o wholes[i] = wholes[i]
        BY <1>3, ConcatEmptySeq
      <3> QED
        BY <2>2, <3>1
    <2> HIDE DEF s, t, e
    <2> QED
      BY <2>1, <2>2, <2>3
  <1>8. ASSUME NEW i \in 1..n
        PROVE  a(i) \in Seq(Token) /\ e(i) \in Seq(Token)
    BY <1>1, EmptySeq
  <1>9. Len(members) = n
    <2> HIDE DEF n
    <2>1. members \in [1..n -> Result]
      BY DEF n
    <2> QED
      BY <1>3, <2>1, IsSeq
  <1>10. CASE \E i \in 1..n : ~members[i].ok
    <2>1. PICK k \in 1..n : ~members[k].ok
      BY <1>10
    <2>2. result = Failure
      BY <1>9, <2>1 DEF Members
    <2>3. Len(wholes[k]) >= DM_MSG_REPORT_BUF_LEN
      <3>1. Len(wholes[k]) < DM_MSG_REPORT_BUF_LEN => members[k] = Success(wholes[k])
        BY DEF Faithful
      <3>2. Success(wholes[k]).ok
        BY <1>3, SuccessIs
      <3>3. Len(wholes[k]) \in Nat /\ DM_MSG_REPORT_BUF_LEN \in Nat
        BY <1>3, LenProperties, Room
      <3> QED
        BY <2>1, <3>1, <3>2, <3>3
    <2>4. Len(t[k]) = Len(a(k)) + Len(wholes[k]) + Len(e(k))
      <3> HIDE DEF a, e, t
      <3>1. a(k) \o wholes[k] \in Seq(Token) /\ Len(a(k) \o wholes[k]) = Len(a(k)) + Len(wholes[k])
        BY <1>3, <1>8, ConcatProperties
      <3>2. Len((a(k) \o wholes[k]) \o e(k)) = Len(a(k) \o wholes[k]) + Len(e(k))
        BY <1>8, <3>1, ConcatProperties
      <3>3. t[k] = (a(k) \o wholes[k]) \o e(k)
        BY <1>7, Zenon
      <3> QED
        BY ONLY <3>1, <3>2, <3>3
    <2>5. Len(t[k]) <= Len(whole)
      BY <1>6, FlattenLen
    <2>6. whole \in Seq(Token)
      BY <1>6, FlattenType
    <2> HIDE DEF a, e, t, whole
    <2>7. /\ Len(a(k)) \in Nat /\ Len(e(k)) \in Nat /\ Len(wholes[k]) \in Nat
          /\ Len(whole) \in Nat /\ DM_MSG_REPORT_BUF_LEN \in Nat
      BY <1>3, <1>8, <2>6, LenProperties, Room
    <2>8. Len(whole) >= DM_MSG_REPORT_BUF_LEN
      BY ONLY <2>3, <2>4, <2>5, <2>7
    <2> QED
      BY <1>5, <2>2, <2>6, <2>8, FaithfulFailure
  <1>11. CASE \A i \in 1..n : members[i].ok
    <2>1. ASSUME NEW i \in 1..n
          PROVE  Cuts(Piece(i), t[i])
      <3>1. Cuts(members[i].text, wholes[i])
        BY <1>11, CutsFaithful
      <3> HIDE DEF a, e, t
      <3>2. Cuts(a(i) \o members[i].text \o e(i), a(i) \o wholes[i] \o e(i))
        BY <1>8, <3>1, CutsBetween
      <3> QED
        BY <1>7, <3>2
    <2>2. CASE n = 1
      <3>1. result = Success(HAL_Snprintf(<<>>, DM_MSG_REPORT_BUF_LEN, Piece(1)))
        BY <1>9, <1>11, <2>2 DEF Members
      <3>2. whole = t[1]
        BY <1>6, <2>2, FlattenOne
      <3>3. Cuts(Piece(1), t[1])
        <4>1. 1 \in 1..n
          BY <1>3
        <4> QED
          BY <2>1, <4>1, Zenon
      <3> HIDE DEF Piece, t, whole
      <3> QED
        BY <1>5, <3>1, <3>2, <3>3, AloneFaithful
    <2>3. CASE n # 1
      <3>1. result = Pieces(pieces)
        BY <1>9, <1>11, <2>3, Zenon DEF Members
      <3>2. pieces \in [1..n -> Seq(Token)]
        BY <2>1 DEF Cuts
      <3>3. pieces \in Seq(Seq(Token)) /\ Len(pieces) = n
        <4> HIDE DEF pieces, n
        <4> QED
          BY <1>3, <3>2, IsSeq
      <3>4. ASSUME NEW i \in 1..n
            PROVE  Cuts(pieces[i], t[i])
        <4>1. pieces[i] = Piece(i)
          BY Zenon
        <4> QED
          BY <2>1, <4>1, Zenon
      <3>5. Faithful(Pieces(pieces), whole)
        <4> HIDE DEF pieces, t, n
        <4> QED
          BY <1>6, <3>3, <3>4, PiecesFit
      <3> QED
        BY <1>5, <3>1, <3>5, Zenon
    <2> QED
      BY <2>2, <2>3
  <1> QED
    BY <1>10, <1>11

----------------------------------------------------------------------------
(* The texts of properties. *)

LEMMA Tokens ==
  /\ \A c \in Key \cup Punctuation : c \in Token /\ <<c>> \in Seq(Token) /\ Len(<<c>>) = 1
  /\ Punctuation \subseteq Token
  /\ STRING \subseteq Token /\ Key \subseteq Token
  BY Alone DEF Token, Key

LEMMA Two ==
  ASSUME NEW T, NEW a \in T, NEW b \in T
  PROVE  <<a, b>> \in Seq(T) /\ Len(<<a, b>>) > 0
  OBVIOUS

LEMMA Three ==
  ASSUME NEW T, NEW a \in T, NEW b \in T, NEW c \in T
  PROVE  <<a, b, c>> \in Seq(T) /\ Len(<<a, b, c>>) > 0
  OBVIOUS

LEMMA Four ==
  ASSUME NEW T, NEW a \in T, NEW b \in T, NEW c \in T, NEW d \in T
  PROVE  <<a, b, c, d>> \in Seq(T) /\ Len(<<a, b, c, d>>) > 0
  OBVIOUS

LEMMA Five ==
  ASSUME NEW T, NEW a \in T, NEW b \in T, NEW c \in T, NEW d \in T, NEW e \in T
  PROVE  <<a, b, c, d, e>> \in Seq(T) /\ Len(<<a, b, c, d, e>>) > 0
  OBVIOUS

LEMMA Six ==
  ASSUME NEW T, NEW a \in T, NEW b \in T, NEW c \in T, NEW d \in T, NEW e \in T, NEW f \in T
  PROVE  <<a, b, c, d, e, f>> \in Seq(T) /\ Len(<<a, b, c, d, e, f>>) > 0
  OBVIOUS

(* What opens a text with a key and what closes it.                        *)
LEMMA KeyedIs ==
  ASSUME NEW key \in Key, NEW value_key \in BOOLEAN, NEW text \in Seq(Token)
  PROVE  /\ Opening(key, value_key) \in Seq(Token)
         /\ Closing(key, value_key) \in Seq(Token)
         /\ Keyed(key, value_key, text) =
              Opening(key, value_key) \o text \o Closing(key, value_key)
  <1>1. /\ key \in Token /\ "{" \in Token /\ "Value" \in Token /\ "}" \in Token
    BY Tokens DEF Punctuation
  <1>2. <<>> \in Seq(Token) /\ <<key>> \in Seq(Token) /\ <<"}">> \in Seq(Token)
    BY <1>1, EmptySeq, Alone
  <1>3. <<key, "{", "Value">> \in Seq(Token)
    BY <1>1, Three
  <1>4. CASE key = NULL
    <2>1. Opening(key, value_key) = <<>> /\ Closing(key, value_key) = <<>>
      BY <1>4 DEF Opening, Closing
    <2>2. <<>> \o text = text /\ text \o <<>> = text
      BY ConcatEmptySeq
    <2>3. Keyed(key, value_key, text) = text
      BY <1>4 DEF Keyed
    <2> QED
      BY <1>2, <2>1, <2>2, <2>3
  <1>5. CASE key # NULL /\ value_key
    <2>1. /\ Opening(key, value_key) = <<key, "{", "Value">>
          /\ Closing(key, value_key) = <<"}">>
          /\ Keyed(key, value_key, text) = <<key, "{", "Value">> \o text \o <<"}">>
      BY <1>5 DEF Opening, Closing, Keyed
    <2> QED
      BY <1>2, <1>3, <2>1, Zenon
  <1>6. CASE key # NULL /\ ~value_key
    <2>1. /\ Opening(key, value_key) = <<key>>
          /\ Closing(key, value_key) = <<>>
          /\ Keyed(key, value_key, text) = <<key>> \o text
      BY <1>6, Zenon DEF Opening, Closing, Keyed
    <2>2. <<key>> \o text \in Seq(Token)
      BY <1>2, ConcatProperties
    <2>3. (<<key>> \o text) \o <<>> = <<key>> \o text
      BY <2>2, ConcatEmptySeq
    <2> QED
      BY <1>2, <2>1, <2>3, Zenon
  <1> QED
    BY <1>4, <1>5, <1>6

(* Texts of the members of a struct or an array.                           *)
LEMMA BracketsFaithful ==
  ASSUME NEW key \in Key, NEW value_key \in BOOLEAN,
         NEW open \in Punctuation, NEW close \in Punctuation,
         NEW wholes \in Seq(Seq(Token)) \ {<<>>},
         NEW members \in [1..Len(wholes) -> Result],
         \A i \in 1..Len(wholes) : Faithful(members[i], wholes[i])
  PROVE  Faithful(Members(Opening(key, value_key) \o <<open>>, members,
                          <<close>> \o Closing(key, value_key)),
                  Keyed(key, value_key, <<open>> \o Joined(wholes, <<",">>) \o <<close>>))
  <1> DEFINE o == Opening(key, value_key)
             c == Closing(key, value_key)
             l == <<open>>
             r == <<close>>
             j == Joined(wholes, <<",">>)
             comma == <<",">>
  <1>1. l \in Seq(Token) /\ r \in Seq(Token)
    BY Tokens
  <1>2. j \in Seq(Token)
    <2>1. comma \in Seq(Token)
      BY Comma
    <2>2. Joined(wholes, comma) \in Seq(Token)
      <3> HIDE DEF comma
      <3> QED
        BY <2>1, SeparatedType, Zenon
    <2> QED
      BY <2>2
  <1> HIDE DEF l, r, j
  <1>3. l \o j \in Seq(Token) /\ l \o j \o r \in Seq(Token)
    <2>1. l \o j \in Seq(Token)
      BY <1>1, <1>2, ConcatProperties
    <2> QED
      BY <1>1, <2>1, ConcatProperties
  <1>4. /\ o \in Seq(Token) /\ c \in Seq(Token)
        /\ Keyed(key, value_key, l \o j \o r) = o \o (l \o j \o r) \o c
    BY <1>3, KeyedIs
  <1> HIDE DEF o, c
  <1>5. o \o l \in Seq(Token) /\ r \o c \in Seq(Token)
    BY <1>1, <1>4, ConcatProperties
  <1>6. (o \o l) \o j \o (r \o c) = o \o (l \o j \o r) \o c
    <2>1. \A a, b, d \in Seq(Token) : (a \o b) \o d = a \o (b \o d)
      BY TokenAssoc
    <2>2. (o \o l) \o j = o \o (l \o j)
      BY <1>1, <1>2, <1>4, <2>1, ZenonT(60)
    <2>3. o \o (l \o j) \in Seq(Token) /\ o \o (l \o j \o r) = (o \o (l \o j)) \o r
      <3>1. o \o (l \o j) \in Seq(Token)
        BY <1>3, <1>4, ConcatProperties
      <3>2. (o \o (l \o j)) \o r = o \o ((l \o j) \o r)
        <4>1. o \in Seq(Token) /\ l \o j \in Seq(Token) /\ r \in Seq(Token)
          BY <1>1, <1>3, <1>4
        <4> QED
          BY ONLY <2>1, <4>1
      <3> QED
        BY ONLY <3>1, <3>2
    <2>4. ((o \o (l \o j)) \o r) \o c = (o \o (l \o j)) \o (r \o c)
      BY <1>1, <1>4, <2>1, <2>3, Zenon
    <2> QED
      BY ONLY <2>2, <2>3, <2>4
  <1>7. Faithful(Members(o \o l, members, r \o c), (o \o l) \o j \o (r \o c))
    BY <1>5, MembersFaithful DEF j
  <1> QED
    BY <1>4, <1>6, <1>7 DEF o, c, l, r, j

LEMMA NodeFaithful ==
  ASSUME NEW p \in NodeProperty, NEW value_key \in BOOLEAN
  PROVE  Faithful(dm_gen_node_payload(p, value_key), NodeText(p, value_key))
  <1> DEFINE text == NodeText(p, value_key)
             L == DM_MSG_REPORT_BUF_LEN
  <1>1. p.key \in Key /\ p.value \in Seq(Token)
    <2>1. p.key \in Key /\ p.value \in Seq(STRING)
      BY DEF NodeProperty
    <2> QED
      BY <2>1, Tokens, SeqMonotonic
  <1>2. /\ Opening(p.key, value_key) \o p.value \o Closing(p.key, value_key) = text
        /\ text \in Seq(Token)
    <2>1. /\ Opening(p.key, value_key) \in Seq(Token)
          /\ Closing(p.key, value_key) \in Seq(Token)
          /\ text = Opening(p.key, value_key) \o p.value \o Closing(p.key, value_key)
      BY <1>1, KeyedIs DEF NodeText
    <2>2. Opening(p.key, value_key) \o p.value \in Seq(Token)
      BY <1>1, <2>1, ConcatProperties
    <2>3. (Opening(p.key, value_key) \o p.value) \o Closing(p.key, value_key) \in Seq(Token)
      BY <2>1, <2>2, ConcatProperties
    <2> QED
      BY <2>1, <2>3, Zenon
  <1>3. dm_gen_node_payload(p, value_key) = IF Len(text) >= L THEN Failure ELSE Success(text)
    BY <1>2 DEF dm_gen_node_payload
  <1>4. Len(text) \in Nat /\ L \in Nat
    BY <1>2, LenProperties, Room
  <1> HIDE DEF text, L
  <1>5. CASE Len(text) >= L
    BY <1>2, <1>3, <1>5, FaithfulFailure DEF text, L
  <1>6. CASE Len(text) < L
    <2>1. ~(Len(text) >= L)
      BY ONLY <1>4, <1>6
    <2> QED
      BY <1>2, <1>3, <2>1, FaithfulSuccess DEF text, L
  <1> QED
    BY <1>4, <1>5, <1>6

(* The texts of several members are as IsSeq and BracketsFaithful want     *)
(* them.                                                                   *)
LEMMA TextsOf ==
  ASSUME NEW n \in Nat \ {0}, NEW wholes, NEW members,
         wholes = [i \in 1..n |-> wholes[i]],
         members = [i \in 1..n |-> members[i]],
         \A i \in 1..n : Faithful(members[i], wholes[i])
  PROVE  /\ wholes \in Seq(Seq(Token)) \ {<<>>} /\ Len(wholes) = n
         /\ members \in [1..n -> Result]
  <1>1. \A i \in 1..n : wholes[i] \in Seq(Token) /\ members[i] \in Result
    BY DEF Faithful, Result
  <1>2. wholes \in [1..n -> Seq(Token)] /\ members \in [1..n -> Result]
    BY <1>1
  <1>3. wholes \in Seq(Seq(Token)) /\ Len(wholes) = n
    BY <1>2, IsSeq
  <1>4. wholes # <<>>
    BY <1>3, EmptySeq
  <1> QED
    BY <1>2, <1>3, <1>4

LEMMA StructFaithful ==
  ASSUME NEW p \in StructProperty, NEW value_key \in BOOLEAN
  PROVE  Faithful(dm_gen_struct_payload(p, value_key), StructText(p, value_key))
  <1> DEFINE n == Len(p.value)
             wholes == [i \in 1..n |-> NodeText(p.value[i], FALSE)]
             members == [i \in 1..n |-> dm_gen_node_payload(p.value[i], FALSE)]
  <1>1. p.key \in Key /\ p.value \in Seq(NodeProperty) \ {<<>>}
    BY DEF StructProperty
  <1>2. n \in Nat \ {0} /\ DOMAIN p.value = 1..n /\ \A i \in 1..n : p.value[i] \in NodeProperty
    BY <1>1, LenProperties, ElementOfSeq, EmptySeq
  <1>3. \A i \in 1..n : Faithful(members[i], wholes[i])
    BY <1>2, NodeFaithful
  <1>4. /\ dm_gen_struct_payload(p, value_key) =
             Members(Opening(p.key, value_key) \o <<"{">>, members,
                     <<"}">> \o Closing(p.key, value_key))
        /\ StructText(p, value_key) =
             Keyed(p.key, value_key, <<"{">> \o Joined(wholes, <<",">>) \o <<"}">>)
    BY <1>2, Zenon DEF dm_gen_struct_payload, StructText
  <1>5. wholes = [i \in 1..n |-> wholes[i]] /\ members = [i \in 1..n |-> members[i]]
    OBVIOUS
  <1> HIDE DEF wholes, members, n
  <1>6. /\ wholes \in Seq(Seq(Token)) \ {<<>>} /\ Len(wholes) = n
        /\ members \in [1..n -> Result]
    BY <1>2, <1>3, <1>5, TextsOf, Zenon
  <1>7. "{" \in Punctuation /\ "}" \in Punctuation
    BY DEF Punctuation
  <1> QED
    BY <1>1, <1>3, <1>4, <1>6, <1>7, BracketsFaithful, Zenon

LEMMA BaseFaithful ==
  ASSUME NEW p \in ArrayProperty, p.parse_type = "ARRAY_BASE", NEW value_key \in BOOLEAN
  PROVE  Faithful(dm_gen_array_base_payload(p, value_key), ArrayText(p, value_key))
  <1> DEFINE n == Len(p.value)
             wholes == [i \in 1..n |-> NodeText(p.value[i], FALSE)]
             members == [i \in 1..n |-> dm_gen_node_payload(p.value[i], FALSE)]
  <1>1. p.key \in Key /\ p.value \in Seq(NodeProperty) \ {<<>>}
    BY DEF ArrayProperty
  <1>2. n \in Nat \ {0} /\ DOMAIN p.value = 1..n /\ \A i \in 1..n : p.value[i] \in NodeProperty
    BY <1>1, LenProperties, ElementOfSeq, EmptySeq
  <1>3. \A i \in 1..n : Faithful(members[i], wholes[i])
    BY <1>2, NodeFaithful
  <1>4. /\ dm_gen_array_base_payload(p, value_key) =
             Members(Opening(p.key, value_key) \o <<"[">>, members,
                     <<"]">> \o Closing(p.key, value_key))
        /\ ArrayText(p, value_key) =
             Keyed(p.key, value_key, <<"[">> \o Joined(wholes, <<",">>) \o <<"]">>)
    BY <1>2, Zenon DEF dm_gen_array_base_payload, ArrayText
  <1>5. wholes = [i \in 1..n |-> wholes[i]] /\ members = [i \in 1..n |-> members[i]]
    OBVIOUS
  <1> HIDE DEF wholes, members, n
  <1>6. /\ wholes \in Seq(Seq(Token)) \ {<<>>} /\ Len(wholes) = n
        /\ members \in [1..n -> Result]
    BY <1>2, <1>3, <1>5, TextsOf, Zenon
  <1>7. "[" \in Punctuation /\ "]" \in Punctuation
    BY DEF Punctuation
  <1> QED
    BY <1>1, <1>3, <1>4, <1>6, <1>7, BracketsFaithful, Zenon

LEMMA TableFaithful ==
  ASSUME NEW p \in ArrayProperty, p.parse_type = "ARRAY_STRUCT", NEW value_key \in BOOLEAN
  PROVE  Faithful(dm_gen_array_struct_payload(p, value_key), ArrayText(p, value_key))
  <1> DEFINE n == Len(p.value)
             wholes == [i \in 1..n |-> StructText(p.value[i], FALSE)]
             members == [i \in 1..n |-> dm_gen_struct_payload(p.value[i], FALSE)]
  <1>1. p.key \in Key /\ p.value \in Seq(StructProperty) \ {<<>>}
    BY DEF ArrayProperty
  <1>2. n \in Nat \ {0} /\ DOMAIN p.value = 1..n /\ \A i \in 1..n : p.value[i] \in StructProperty
    BY <1>1, LenProperties, ElementOfSeq, EmptySeq
  <1>3. \A i \in 1..n : Faithful(members[i], wholes[i])
    BY <1>2, StructFaithful
  <1>4. /\ dm_gen_array_struct_payload(p, value_key) =
             Members(Opening(p.key, value_key) \o <<"[">>, members,
                     <<"]">> \o Closing(p.key, value_key))
        /\ ArrayText(p, value_key) =
             Keyed(p.key, value_key, <<"[">> \o Joined(wholes, <<",">>) \o <<"]">>)
    <2>1. p.parse_type # "ARRAY_BASE"
      OBVIOUS
    <2> QED
      BY <1>2, <2>1, Zenon DEF dm_gen_array_struct_payload, ArrayText
  <1>5. wholes = [i \in 1..n |-> wholes[i]] /\ members = [i \in 1..n |-> members[i]]
    OBVIOUS
  <1> HIDE DEF wholes, members, n
  <1>6. /\ wholes \in Seq(Seq(Token)) \ {<<>>} /\ Len(wholes) = n
        /\ members \in [1..n -> Result]
    BY <1>2, <1>3, <1>5, TextsOf, Zenon
  <1>7. "[" \in Punctuation /\ "]" \in Punctuation
    BY DEF Punctuation
  <1> QED
    BY <1>1, <1>3, <1>4, <1>6, <1>7, BracketsFaithful, Zenon

LEMMA PropertyFaithful ==
  ASSUME NEW p \in Property, NEW value_key \in BOOLEAN
  PROVE  Faithful(dm_gen_property_post_payload(p, value_key), Text(p, value_key))
  <1>1. CASE p \in NodeProperty
    <2>1. p.parse_type = "NODE"
      BY <1>1 DEF NodeProperty
    <2> QED
      BY <1>1, <2>1, NodeFaithful DEF dm_gen_property_post_payload, Text
  <1>2. CASE p \in StructProperty
    <2>1. p.parse_type = "STRUCT"
      BY <1>2 DEF StructProperty
    <2> QED
      BY <1>2, <2>1, StructFaithful DEF dm_gen_property_post_payload, Text
  <1>3. CASE p \in ArrayProperty
    <2>1. p.parse_type \in {"ARRAY_BASE", "ARRAY_STRUCT"}
      BY <1>3 DEF ArrayProperty
    <2>2. CASE p.parse_type = "ARRAY_BASE"
      BY <1>3, <2>2, BaseFaithful DEF dm_gen_property_post_payload, Text
    <2>3. CASE p.parse_type = "ARRAY_STRUCT"
      BY <1>3, <2>3, TableFaithful DEF dm_gen_property_post_payload, Text
    <2> QED
      BY <2>1, <2>2, <2>3
  <1> QED
    BY <1>1, <1>2, <1>3 DEF Property

LEMMA CutsBehind ==
  ASSUME NEW piece, NEW whole, Cuts(piece, whole), NEW a \in Seq(Token)
  PROVE  Cuts(a \o piece, a \o whole)
  <1>1. piece \in Seq(Token) /\ whole \in Seq(Token) /\ <<>> \in Seq(Token)
    BY EmptySeq DEF Cuts
  <1>2. a \o piece \in Seq(Token) /\ a \o whole \in Seq(Token)
    BY <1>1, ConcatProperties
  <1>3. (a \o piece) \o <<>> = a \o piece /\ (a \o whole) \o <<>> = a \o whole
    BY <1>2, ConcatEmptySeq
  <1>4. Cuts((a \o piece) \o <<>>, (a \o whole) \o <<>>)
    BY <1>1, CutsBetween, Zenon
  <1> QED
    BY ONLY <1>3, <1>4

LEMMA TooLong ==
  ASSUME NEW t \in Seq(Seq(Token)), NEW k \in 1..Len(t),
         Len(t[k]) >= DM_MSG_REPORT_BUF_LEN
  PROVE  Faithful(Failure, FlattenSeq(t))
  <1> DEFINE w == FlattenSeq(t)
             L == DM_MSG_REPORT_BUF_LEN
  <1>1. w \in Seq(Token) /\ t[k] \in Seq(Token)
    BY FlattenType, ElementOfSeq
  <1>2. Len(w) \in Nat /\ Len(t[k]) \in Nat /\ L \in Nat
    BY <1>1, LenProperties, Room
  <1>3. Len(t[k]) <= Len(w) /\ Len(t[k]) >= L
    BY FlattenLen
  <1> HIDE DEF w, L
  <1>4. Len(w) >= L
    BY ONLY <1>2, <1>3
  <1> QED
    BY <1>1, <1>4, FaithfulFailure DEF w, L

(* What is made of one property.                                           *)
Generated(p, type, value_key) ==
  CASE type = "PROPERTY_POST" -> dm_gen_property_post_payload(p, value_key)
    [] type = "PROPERTY_DESIRED_GET" -> dm_gen_property_desired_payload(p)
    [] type = "PROPERTY_DESIRED_DELETE" -> dm_gen_property_delete_payload(p)

LEMMA PropertiesFaithful ==
  ASSUME NEW properties \in Seq(Property) \ {<<>>}, NEW type, NEW value_key,
         NEW wholes, wholes = [i \in 1..Len(properties) |-> wholes[i]],
         \A i \in 1..Len(properties) :
           Faithful(Generated(properties[i], type, value_key), wholes[i])
  PROVE  Faithful(dm_gen_properties_payload(properties, type, value_key),
                  Joined(wholes, <<",">>))
  <1> DEFINE n == Len(properties)
             texts == [i \in 1..n |-> Generated(properties[i], type, value_key)]
             comma == <<",">>
             a(i) == IF i = 1 THEN <<>> ELSE comma
             pieces == [i \in 1..n |-> a(i) \o texts[i].text]
             t == Separated(wholes, comma)
             result == dm_gen_properties_payload(properties, type, value_key)
  <1>1. n \in Nat \ {0} /\ DOMAIN properties = 1..n
    BY LenProperties, EmptySeq
  <1>2. /\ texts = [i \in 1..n |-> texts[i]]
        /\ wholes = [i \in 1..n |-> wholes[i]]
        /\ \A i \in 1..n : Faithful(texts[i], wholes[i])
    OBVIOUS
  <1>3. result = IF \E i \in 1..n : ~texts[i].ok THEN Failure ELSE Pieces(pieces)
    <2> DEFINE all == [i \in DOMAIN properties |-> Generated(properties[i], type, value_key)]
    <2>1. result = IF \E i \in DOMAIN all : ~all[i].ok THEN Failure
                   ELSE Pieces([i \in DOMAIN all |->
                                  (IF i = 1 THEN <<>> ELSE <<",">>) \o all[i].text])
      BY Zenon DEF dm_gen_properties_payload, Generated
    <2>2. all = texts /\ DOMAIN texts = 1..n
      BY <1>1
    <2> HIDE DEF all, texts, n, result
    <2> QED
      BY ONLY <2>1, <2>2 DEF pieces, a, comma
  <1> HIDE DEF texts, comma, n
  <1>4. wholes \in Seq(Seq(Token)) /\ Len(wholes) = n
    BY <1>1, <1>2, TextsOf
  <1>5. comma \in Seq(Token)
    BY Comma DEF comma
  <1>6. /\ t \in Seq(Seq(Token)) /\ Len(t) = n
        /\ Joined(wholes, comma) = FlattenSeq(t)
    <2>1. /\ t \in Seq(Seq(Token)) /\ Len(t) = Len(wholes)
          /\ Joined(wholes, comma) = FlattenSeq(t)
      BY <1>4, <1>5, SeparatedType
    <2> QED
      BY <1>4, <2>1
  <1>7. ASSUME NEW i \in 1..n
        PROVE  a(i) \in Seq(Token) /\ t[i] = a(i) \o wholes[i]
    <2>1. a(i) \in Seq(Token)
      BY <1>5, EmptySeq
    <2>2. t[i] = a(i) \o wholes[i]
      BY <1>4, Zenon DEF Separated
    <2> QED
      BY <2>1, <2>2
  <1> HIDE DEF t, result
  <1>8. CASE \E i \in 1..n : ~texts[i].ok
    <2>1. PICK k \in 1..n : ~texts[k].ok
      BY <1>8
    <2>2. wholes[k] \in Seq(Token) /\ ~(Len(wholes[k]) < DM_MSG_REPORT_BUF_LEN)
      BY <1>2, <2>1, SuccessIs DEF Faithful
    <2>3. /\ Len(wholes[k]) \in Nat /\ DM_MSG_REPORT_BUF_LEN \in Nat
          /\ a(k) \in Seq(Token) /\ Len(a(k)) \in Nat
          /\ Len(a(k) \o wholes[k]) = Len(a(k)) + Len(wholes[k])
      <3>1. a(k) \in Seq(Token)
        BY <1>7
      <3> HIDE DEF a
      <3> QED
        BY <2>2, <3>1, ConcatProperties, LenProperties, Room
    <2>4. t[k] = a(k) \o wholes[k]
      BY <1>7, Zenon
    <2> HIDE DEF a
    <2>5. Len(t[k]) >= DM_MSG_REPORT_BUF_LEN
      BY ONLY <2>2, <2>3, <2>4
    <2>6. Faithful(Failure, FlattenSeq(t))
      BY <1>6, <2>5, TooLong
    <2> QED
      BY <1>3, <1>6, <1>8, <2>6 DEF result, comma
  <1>9. CASE \A i \in 1..n : texts[i].ok
    <2>1. ASSUME NEW i \in 1..n
          PROVE  pieces[i] \in Seq(Token) /\ Cuts(pieces[i], t[i])
      <3>1. Cuts(texts[i].text, wholes[i])
        BY <1>2, <1>9, CutsFaithful
      <3>2. a(i) \in Seq(Token) /\ t[i] = a(i) \o wholes[i]
        BY <1>7, Zenon
      <3>3. pieces[i] = a(i) \o texts[i].text
        BY Zenon
      <3> HIDE DEF a, pieces
      <3>4. Cuts(pieces[i], t[i])
        BY <3>1, <3>2, <3>3, CutsBehind
      <3> QED
        BY <3>4 DEF Cuts
    <2>2. pieces \in [1..n -> Seq(Token)]
      <3>1. pieces = [i \in 1..n |-> pieces[i]]
        OBVIOUS
      <3> HIDE DEF pieces
      <3> QED
        BY <2>1, <3>1
    <2> HIDE DEF pieces
    <2>3. pieces \in Seq(Seq(Token)) /\ Len(pieces) = n
      BY <1>1, <2>2, IsSeq
    <2>4. Faithful(Pieces(pieces), FlattenSeq(t))
      BY <1>6, <2>1, <2>3, PiecesFit
    <2> QED
      BY <1>3, <1>6, <1>9, <2>4 DEF result, comma
  <1> QED
    BY <1>8, <1>9

LEMMA CutItself ==
  ASSUME NEW text \in Seq(Token)
  PROVE  Cuts(text, text)
  BY DEF Cuts

(* The part of a message for a property, as PartOf has it.                 *)
LEMMA PartFaithful ==
  ASSUME NEW p \in Property
  PROVE  /\ Faithful(Generated(p, "PROPERTY_POST", TRUE), PartOf("PROPERTY_POST", p))
         /\ Faithful(Generated(p, "PROPERTY_DESIRED_GET", TRUE),
                     PartOf("PROPERTY_DESIRED_GET", p))
         /\ Faithful(Generated(p, "PROPERTY_DESIRED_DELETE", TRUE),
                     PartOf("PROPERTY_DESIRED_DELETE", p))
         /\ \A type \in {"EVENT_POST", "COMMAND"} :
              Faithful(Generated(p, "PROPERTY_POST", FALSE), PartOf(type, p))
  <1>1. p.key \in Token /\ "{" \in Token /\ "}" \in Token /\ "version" \in Token
    <2>1. p.key \in Key
      BY DEF Property, NodeProperty, StructProperty, ArrayProperty
    <2> QED
      BY <2>1, Tokens DEF Punctuation
  <1>2. \A value_key \in BOOLEAN :
          Faithful(Generated(p, "PROPERTY_POST", value_key), Text(p, value_key))
    BY PropertyFaithful DEF Generated
  <1>3. Faithful(Generated(p, "PROPERTY_DESIRED_GET", TRUE), <<p.key>>)
    <2> DEFINE text == <<p.key>>
    <2>1. text \in Seq(Token)
      BY <1>1, Alone
    <2>2. Generated(p, "PROPERTY_DESIRED_GET", TRUE) =
            Success(HAL_Snprintf(<<>>, DM_MSG_REPORT_BUF_LEN, text))
      BY DEF Generated, dm_gen_property_desired_payload
    <2> HIDE DEF text
    <2>3. Faithful(Generated(p, "PROPERTY_DESIRED_GET", TRUE), text)
      BY <2>1, <2>2, CutItself, AloneFaithful
    <2> QED
      BY <2>3 DEF text
  <1>4. Faithful(Generated(p, "PROPERTY_DESIRED_DELETE", TRUE), <<p.key, "{", "version", "}">>)
    <2> DEFINE text == <<p.key, "{", "version", "}">>
    <2>1. text \in Seq(Token)
      BY <1>1, Four
    <2>2. Generated(p, "PROPERTY_DESIRED_DELETE", TRUE) =
            Success(HAL_Snprintf(<<>>, DM_MSG_REPORT_BUF_LEN, text))
      BY DEF Generated, dm_gen_property_delete_payload
    <2> HIDE DEF text
    <2>3. Faithful(Generated(p, "PROPERTY_DESIRED_DELETE", TRUE), text)
      BY <2>1, <2>2, CutItself, AloneFaithful
    <2> QED
      BY <2>3 DEF text
  <1> QED
    BY <1>2, <1>3, <1>4 DEF PartOf

----------------------------------------------------------------------------
(* The messages. *)

(* What Parts joins is what PropertiesFaithful wants.                      *)
LEMMA PayloadFaithful ==
  ASSUME NEW properties \in Seq(Property) \ {<<>>}, NEW type \in Types,
         NEW gen, NEW value_key,
         \/ type \in PropertyTypes /\ gen = type /\ value_key = TRUE
         \/ type \in {"EVENT_POST", "COMMAND"} /\ gen = "PROPERTY_POST" /\ value_key = FALSE
  PROVE  Faithful(dm_gen_properties_payload(properties, gen, value_key),
                  Joined(Parts(type, properties), <<",">>))
  <1> DEFINE wholes == Parts(type, properties)
             n == Len(properties)
  <1>1. \A i \in 1..n : properties[i] \in Property
    BY ElementOfSeq
  <1>2. wholes = [i \in 1..n |-> PartOf(type, properties[i])]
    BY DEF Parts
  <1>3. ASSUME NEW i \in 1..n
        PROVE  Faithful(Generated(properties[i], gen, value_key), PartOf(type, properties[i]))
    <2> DEFINE p == properties[i]
    <2>1. p \in Property
      BY <1>1
    <2> HIDE DEF p
    <2>2. Faithful(Generated(p, gen, value_key), PartOf(type, p))
      BY <2>1, PartFaithful DEF PropertyTypes
    <2> QED
      BY <2>2 DEF p
  <1>4. \A i \in 1..n : Faithful(Generated(properties[i], gen, value_key), wholes[i])
    BY <1>2, <1>3
  <1>5. wholes = [i \in 1..n |-> wholes[i]]
    BY <1>2
  <1> HIDE DEF wholes
  <1>6. Faithful(dm_gen_properties_payload(properties, gen, value_key), Joined(wholes, <<",">>))
    BY <1>4, <1>5, PropertiesFaithful, Zenon
  <1> QED
    BY <1>6 DEF wholes

(* A message of which the middle is generated.                             *)
LEMMA MessageIs ==
  ASSUME NEW head \in Seq(Token), NEW tail \in Seq(Token), Len(head) > 0, Len(tail) > 0,
         NEW whole, NEW payload, Faithful(payload, whole)
  PROVE  /\ head \o whole \o tail \in Seq(Token)
         /\ Len(head \o whole \o tail) <= DM_MSG_REPORT_BUF_LEN =>
              /\ payload.ok
              /\ head \o payload.text \o tail = head \o whole \o tail
         /\ Len(head \o whole \o tail) > DM_MSG_REPORT_BUF_LEN /\ payload.ok =>
              /\ head \o payload.text \o tail \in Seq(Token)
              /\ Len(head \o payload.text \o tail) > DM_MSG_REPORT_BUF_LEN
  <1> DEFINE L == DM_MSG_REPORT_BUF_LEN
             text == payload.text
             message == head \o whole \o tail
             sent == head \o text \o tail
             h == Len(head)
             t == Len(tail)
             w == Len(whole)
  <1>1. /\ whole \in Seq(Token) /\ payload \in Result /\ text \in Seq(Token)
        /\ w < L => payload = Success(whole)
        /\ w >= L /\ payload.ok => Len(text) = L - 1
    BY DEF Faithful, Result
  <1>2. head \o whole \in Seq(Token) /\ head \o text \in Seq(Token)
    BY <1>1, ConcatProperties
  <1>3. message \in Seq(Token) /\ Len(message) = h + w + t
    BY <1>1, <1>2, ConcatProperties
  <1>4. sent \in Seq(Token) /\ Len(sent) = h + Len(text) + t
    BY <1>1, <1>2, ConcatProperties
  <1>5. /\ h \in Nat /\ t \in Nat /\ w \in Nat /\ L \in Nat /\ Len(text) \in Nat
        /\ h > 0 /\ t > 0
    BY <1>1, LenProperties, Room
  <1>6. Success(whole).ok /\ Success(whole).text = whole
    BY <1>1, SuccessIs
  <1>7. text = whole => sent = message /\ Len(text) = w
    OBVIOUS
  <1>8. w < L => payload.ok /\ text = whole
    BY <1>1, <1>6
  <1> HIDE DEF L, text, h, t, w, message, sent
  <1>9. Len(message) <= L => payload.ok /\ text = whole /\ sent = message
    <2>1. Len(message) <= L => w < L
      BY ONLY <1>3, <1>5
    <2> QED
      BY <1>7, <1>8, <2>1
  <1>10. ASSUME Len(message) > L, payload.ok
         PROVE  Len(sent) > L
    <2>1. CASE w < L
      BY <1>7, <1>8, <1>10, <2>1
    <2>2. CASE w >= L
      <3>1. Len(text) = L - 1
        BY <1>1, <1>10, <2>2
      <3> QED
        BY ONLY <1>4, <1>5, <3>1
    <2> QED
      BY ONLY <1>5, <2>1, <2>2
  <1> QED
    BY <1>3, <1>4, <1>9, <1>10 DEF L, text, message, sent

LEMMA Ends ==
  ASSUME NEW type \in Types
  PROVE  /\ Before(type) \in Seq(Token) /\ Len(Before(type)) > 0
         /\ Behind(type) \in Seq(Token) /\ Len(Behind(type)) > 0
  <1>1. Punctuation \subseteq Token
    BY Tokens
  <1>2. \A c \in Punctuation : c \in Token
    BY <1>1
  <1>3. Len(Before(type)) > 0 /\ Before(type) \in Seq(Token)
    <2>1. CASE type = "PROPERTY_POST"
      <3>1. "RequestID" \in Token /\ "Property" \in Token /\ "{" \in Token
        BY <1>2 DEF Punctuation
      <3> DEFINE text == <<"RequestID", "Property", "{">>
      <3>2. text \in Seq(Token) /\ Len(text) > 0
        BY ONLY <3>1, Three
      <3>3. Before(type) = text
        BY <2>1, Zenon DEF Before
      <3> HIDE DEF text
      <3> QED
        BY <3>2, <3>3, Zenon
    <2>2. CASE type = "PROPERTY_DESIRED_GET"
      <3>1. "RequestID" \in Token /\ "Require" \in Token /\ "[" \in Token
        BY <1>2 DEF Punctuation
      <3> DEFINE text == <<"RequestID", "Require", "[">>
      <3>2. text \in Seq(Token) /\ Len(text) > 0
        BY ONLY <3>1, Three
      <3>3. Before(type) = text
        BY <2>2, Zenon DEF Before
      <3> HIDE DEF text
      <3> QED
        BY <3>2, <3>3, Zenon
    <2>3. CASE type = "PROPERTY_DESIRED_DELETE"
      <3>1. "RequestID" \in Token /\ "Delete" \in Token /\ "{" \in Token
        BY <1>2 DEF Punctuation
      <3> DEFINE text == <<"RequestID", "Delete", "{">>
      <3>2. text \in Seq(Token) /\ Len(text) > 0
        BY ONLY <3>1, Three
      <3>3. Before(type) = text
        BY <2>3, Zenon DEF Before
      <3> HIDE DEF text
      <3> QED
        BY <3>2, <3>3, Zenon
    <2>4. CASE type = "EVENT_POST"
      <3>1. /\ "RequestID" \in Token /\ "Identifier" \in Token /\ "id" \in Token
          /\ "Output" \in Token /\ "{" \in Token
        BY <1>2 DEF Punctuation
      <3> DEFINE text == <<"RequestID", "Identifier", "id", "Output", "{">>
      <3>2. text \in Seq(Token) /\ Len(text) > 0
        BY ONLY <3>1, Five
      <3>3. Before(type) = text
        BY <2>4, Zenon DEF Before
      <3> HIDE DEF text
      <3> QED
        BY <3>2, <3>3, Zenon
    <2>5. CASE type = "COMMAND"
      <3>1. /\ "RequestID" \in Token /\ "RetCode" \in Token /\ "Identifier" \in Token
          /\ "id" \in Token /\ "Output" \in Token /\ "{" \in Token
        BY <1>2 DEF Punctuation
      <3> DEFINE text == <<"RequestID", "RetCode", "Identifier", "id", "Output", "{">>
      <3>2. text \in Seq(Token) /\ Len(text) > 0
        BY ONLY <3>1, Six
      <3>3. Before(type) = text
        BY <2>5, Zenon DEF Before
      <3> HIDE DEF text
      <3> QED
        BY <3>2, <3>3, Zenon
    <2> QED
      BY <2>1, <2>2, <2>3, <2>4, <2>5 DEF Types, PropertyTypes
  <1>4. Len(Behind(type)) > 0 /\ Behind(type) \in Seq(Token)
    <2>1. "]" \in Token /\ "}" \in Token
      BY <1>2 DEF Punctuation
    <2> DEFINE list   == <<"]", "}">>
               object == <<"}", "}">>
    <2>2. /\ list \in Seq(Token) /\ Len(list) > 0
          /\ object \in Seq(Token) /\ Len(object) > 0
      BY ONLY <2>1, Two
    <2>3. Behind(type) = list \/ Behind(type) = object
      BY Zenon DEF Behind
    <2> HIDE DEF list, object
    <2> QED
      BY <2>2, <2>3, Zenon
  <1> QED
    BY <1>3, <1>4

LEMMA SentIs ==
  ASSUME NEW type \in Types, NEW middle, NEW payload, Faithful(payload, middle)
  PROVE  /\ Before(type) \o middle \o Behind(type) \in Seq(Token)
         /\ Len(Before(type) \o middle \o Behind(type)) <= DM_MSG_REPORT_BUF_LEN =>
              /\ payload.ok
              /\ Before(type) \o payload.text \o Behind(type) =
                   Before(type) \o middle \o Behind(type)
         /\ Len(Before(type) \o middle \o Behind(type)) > DM_MSG_REPORT_BUF_LEN /\ payload.ok =>
              /\ Before(type) \o payload.text \o Behind(type) \in Seq(Token)
              /\ Len(Before(type) \o payload.text \o Behind(type)) > DM_MSG_REPORT_BUF_LEN
  <1>1. PICK head, tail : head = Before(type) /\ tail = Behind(type)
    OBVIOUS
  <1>2. head \in Seq(Token) /\ tail \in Seq(Token)
    BY <1>1, Ends, Zenon
  <1>3. Len(head) > 0 /\ Len(tail) > 0
    BY <1>1, Ends, Zenon
  <1>4. /\ head \o middle \o tail \in Seq(Token)
        /\ Len(head \o middle \o tail) <= DM_MSG_REPORT_BUF_LEN =>
             /\ payload.ok
             /\ head \o payload.text \o tail = head \o middle \o tail
        /\ Len(head \o middle \o tail) > DM_MSG_REPORT_BUF_LEN /\ payload.ok =>
             /\ head \o payload.text \o tail \in Seq(Token)
             /\ Len(head \o payload.text \o tail) > DM_MSG_REPORT_BUF_LEN
    BY <1>2, <1>3, MessageIs, Zenon
  <1> QED
    BY <1>1, <1>4, Zenon

(* A message is published exactly if there is room for the whole of it.    *)
LEMMA RefusedOrWhole ==
  ASSUME NEW type \in Types, NEW properties \in Seq(Property) \ {<<>>}, NEW payload,
         Faithful(payload, Joined(Parts(type, properties), <<",">>)),
         NEW published,
         published = IF ~payload.ok THEN Failure
                     ELSE Message(Before(type), payload.text, Behind(type))
  PROVE  /\ published.ok <=> Len(Whole(type, properties)) < DM_MSG_REPORT_BUF_LEN
         /\ published.ok => published.text = Whole(type, properties)
         /\ Whole(type, properties) \in Seq(Token)
  <1> DEFINE L == DM_MSG_REPORT_BUF_LEN
             middle == Joined(Parts(type, properties), <<",">>)
             message == Before(type) \o middle \o Behind(type)
             sent == Before(type) \o payload.text \o Behind(type)
  <1>1. /\ message \in Seq(Token)
        /\ Len(message) <= L => payload.ok /\ sent = message
        /\ Len(message) > L /\ payload.ok => sent \in Seq(Token) /\ Len(sent) > L
    <2> HIDE DEF middle
    <2>1. Faithful(payload, middle)
      BY DEF middle
    <2> QED
      BY <2>1, SentIs, Zenon
  <1>2. Whole(type, properties) = message
    BY Zenon DEF Whole
  <1>3. published = IF ~payload.ok \/ Len(sent) >= L THEN Failure ELSE Success(sent)
    BY DEF Message
  <1>4. Len(message) \in Nat /\ L \in Nat
    BY <1>1, LenProperties, Room
  <1> HIDE DEF L, message, sent, middle
  <1>5. CASE Len(message) < L
    <2>1. Len(message) <= L /\ ~(Len(message) >= L)
      BY ONLY <1>4, <1>5
    <2>a. payload.ok /\ sent = message /\ ~(Len(sent) >= L)
      BY <1>1, <2>1
    <2>2. published = Success(message)
      BY <1>3, <2>a
    <2> QED
      BY <1>1, <1>2, <1>5, <2>2, SuccessIs DEF L
  <1>6. CASE Len(message) = L
    <2>1. Len(message) <= L /\ Len(message) >= L /\ ~(Len(message) < L)
      BY ONLY <1>4, <1>6
    <2>2. published = Failure
      BY <1>1, <1>3, <2>1
    <2> QED
      BY <1>1, <1>2, <2>1, <2>2, FailureIs DEF L
  <1>7. CASE Len(message) > L
    <2>1. ~(Len(message) < L)
      BY ONLY <1>4, <1>7
    <2>2. payload.ok => Len(sent) >= L
      <3>1. payload.ok => Len(sent) \in Nat /\ Len(sent) > L
        BY <1>1, <1>7, LenProperties
      <3> QED
        BY ONLY <1>4, <3>1
    <2>3. published = Failure
      BY <1>3, <2>2
    <2> QED
      BY <1>1, <1>2, <2>1, <2>3, FailureIs DEF L
  <1>8. Len(message) < L \/ Len(message) = L \/ Len(message) > L
    BY ONLY <1>4
  <1> QED
    BY <1>5, <1>6, <1>7, <1>8

(* A reply to a command is sent as well if it is one character too long,   *)
(* and then without its last one.                                          *)
LEMMA ReplyOneShort ==
  ASSUME NEW properties \in Seq(Property) \ {<<>>}
  PROVE  LET whole     == Whole("COMMAND", properties)
             published == Published("COMMAND", properties)
         IN  /\ published.ok <=> Len(whole) <= DM_MSG_REPORT_BUF_LEN
             /\ published.ok =>
                  published.text = IF Len(whole) = DM_MSG_REPORT_BUF_LEN
                                   THEN Front(whole) ELSE whole
  <1> DEFINE L == DM_MSG_REPORT_BUF_LEN
             type == "COMMAND"
             middle == Joined(Parts(type, properties), <<",">>)
             payload == dm_gen_properties_payload(properties, "PROPERTY_POST", FALSE)
             message == Before(type) \o middle \o Behind(type)
             sent == Before(type) \o payload.text \o Behind(type)
             published == Published(type, properties)
  <1>1. type \in Types
    BY DEF Types
  <1>2. Faithful(payload, middle)
    BY <1>1, PayloadFaithful
  <1>3. /\ message \in Seq(Token)
        /\ Len(message) <= L => payload.ok /\ sent = message
        /\ Len(message) > L /\ payload.ok => sent \in Seq(Token) /\ Len(sent) > L
    <2> HIDE DEF middle, payload, type
    <2> QED
      BY <1>1, <1>2, SentIs, Zenon
  <1>4. Whole("COMMAND", properties) = message
    BY Zenon DEF Whole
  <1>5. published = IF ~payload.ok \/ Len(sent) > L THEN Failure
                    ELSE Success(HAL_Snprintf(<<>>, L, sent))
    <2>1. published = dm_mqtt_command_cb("id", properties)
      BY DEF Published, PropertyTypes
    <2>2. /\ Before(type) = <<"RequestID", "RetCode", "Identifier", "id", "Output", "{">>
          /\ Behind(type) = <<"}", "}">>
      BY Zenon DEF Before, Behind
    <2> QED
      BY <2>1, <2>2, Zenon DEF dm_mqtt_command_cb
  <1>6. /\ message \in Seq(Token) /\ Len(message) \in Nat /\ L \in Nat \ {0}
        /\ <<>> \in Seq(Token) /\ <<>> \o message = message
    BY <1>3, LenProperties, Room, EmptySeq, ConcatEmptySeq
  <1>7. Len(message) <= L =>
          HAL_Snprintf(<<>>, L, message) = IF Len(message) = L THEN Front(message) ELSE message
    <2> HIDE DEF message
    <2>1. CASE Len(message) < L
      <3> DEFINE text == HAL_Snprintf(<<>>, L, message)
      <3>1. Faithful(Success(text), message)
        BY <1>6, CutItself, AloneFaithful
      <3>2. Success(text) = Success(message)
        BY <2>1, <3>1 DEF Faithful
      <3> HIDE DEF text, L
      <3>3. text = message
        BY <3>2 DEF Success
      <3>4. Len(message) # L
        BY ONLY <1>6, <2>1
      <3> QED
        BY <3>3, <3>4 DEF text
    <2>2. CASE Len(message) = L
      <3> DEFINE s == SubSeq(message, 1, L - 1)
      <3>1. HAL_Snprintf(<<>>, L, message) = <<>> \o s
        <4>1. L - 1 < Len(message)
          BY <1>6, <2>2
        <4> QED
          BY <4>1 DEF HAL_Snprintf
      <3>2. s \in Seq(Token)
        <4>1. \A i \in 1..(L - 1) : message[i] \in Token
          <5>1. \A i \in 1..(L - 1) : i \in 1..Len(message)
            BY <1>6, <2>2
          <5> QED
            BY <1>6, <5>1, ElementOfSeq
        <4>2. L - 1 \in Int
          BY <1>6
        <4> QED
          BY <4>1, <4>2, SubSeqProperties
      <3>3. Front(message) = s
        BY <2>2 DEF Front
      <3> HIDE DEF s
      <3>4. <<>> \o s = s
        BY <3>2, ConcatEmptySeq
      <3> QED
        BY <2>2, <3>1, <3>3, <3>4
    <2> QED
      BY <1>6, <2>1, <2>2
  <1>8. HAL_Snprintf(<<>>, L, message) \in Seq(Token)
    <2> HIDE DEF message, L
    <2>1. L \in Int
      BY <1>6
    <2> QED
      BY <1>6, <2>1, Cut
  <1> HIDE DEF message, sent, payload, L, published
  <1>9. CASE Len(message) <= L
    <2>1. payload.ok /\ sent = message /\ ~(Len(message) > L)
      BY <1>3, <1>6, <1>9
    <2>2. published = Success(HAL_Snprintf(<<>>, L, message))
      BY <1>5, <2>1
    <2>3. published.ok /\ published.text = HAL_Snprintf(<<>>, L, message)
      BY <1>8, <1>9, <2>2, SuccessIs
    <2> QED
      BY <1>4, <1>7, <1>9, <2>3 DEF published, L
  <1>10. CASE Len(message) > L
    <2>1. published = Failure
      BY <1>3, <1>5, <1>10
    <2>2. ~published.ok
      BY <2>1, FailureIs
    <2>3. ~(Len(message) <= L)
      BY <1>6, <1>10
    <2> QED
      BY <1>4, <2>2, <2>3 DEF published, L
  <1> QED
    BY <1>6, <1>9, <1>10

(* What is published for a report of any properties, in a buffer of any    *)
(* length.                                                                 *)
LEMMA ReportsAreWhole ==
  ASSUME NEW type \in Types, NEW properties \in Seq(Property) \ {<<>>}
  PROVE  LET whole     == Whole(type, properties)
             published == Published(type, properties)
             OneShort  == type = "COMMAND" /\ Len(whole) = DM_MSG_REPORT_BUF_LEN
         IN  /\ published.ok <=> Len(whole) < DM_MSG_REPORT_BUF_LEN \/ OneShort
             /\ published.ok => published.text = IF OneShort THEN Front(whole) ELSE whole
  <1>1. CASE type \in PropertyTypes
    <2> DEFINE payload == dm_gen_properties_payload(properties, type, TRUE)
    <2>1. Faithful(payload, Joined(Parts(type, properties), <<",">>))
      BY <1>1, PayloadFaithful
    <2>2. Published(type, properties) =
            IF ~payload.ok THEN Failure
            ELSE Message(Before(type), payload.text, Behind(type))
      <3>1. /\ type # "EVENT_POST" /\ type # "COMMAND"
            /\ Published(type, properties) = dm_mqtt_property_report_publish_Ex(type, properties)
        BY <1>1 DEF Published, PropertyTypes
      <3>2. HeadOf(type) = Before(type)
        BY <1>1 DEF HeadOf, Before, PropertyTypes
      <3> QED
        BY <3>1, <3>2, Zenon DEF dm_mqtt_property_report_publish_Ex, Behind
    <2> HIDE DEF payload
    <2>3. /\ Published(type, properties).ok <=>
               Len(Whole(type, properties)) < DM_MSG_REPORT_BUF_LEN
          /\ Published(type, properties).ok =>
               Published(type, properties).text = Whole(type, properties)
      BY <2>1, <2>2, RefusedOrWhole
    <2>4. type # "COMMAND"
      BY <1>1 DEF PropertyTypes
    <2> QED
      BY <2>3, <2>4
  <1>2. CASE type = "EVENT_POST"
    <2> DEFINE payload == dm_gen_properties_payload(properties, "PROPERTY_POST", FALSE)
    <2>1. Faithful(payload, Joined(Parts(type, properties), <<",">>))
      BY <1>2, PayloadFaithful
    <2>2. Published(type, properties) =
            IF ~payload.ok THEN Failure
            ELSE Message(Before(type), payload.text, Behind(type))
      <3> DEFINE event == [event_identy |-> "id", properties |-> properties]
      <3>1. event.event_identy = "id" /\ event.properties = properties
        OBVIOUS
      <3>2. Published(type, properties) = dm_mqtt_event_publish_Ex(event)
        BY <1>2 DEF Published, PropertyTypes
      <3>3. /\ Before(type) = <<"RequestID", "Identifier", "id", "Output", "{">>
            /\ Behind(type) = <<"}", "}">>
        BY <1>2, Zenon DEF Before, Behind
      <3> HIDE DEF event
      <3> QED
        BY <3>1, <3>2, <3>3, Zenon DEF dm_mqtt_event_publish_Ex
    <2> HIDE DEF payload
    <2>3. /\ Published(type, properties).ok <=>
               Len(Whole(type, properties)) < DM_MSG_REPORT_BUF_LEN
          /\ Published(type, properties).ok =>
               Published(type, properties).text = Whole(type, properties)
      BY <2>1, <2>2, RefusedOrWhole
    <2>4. type # "COMMAND"
      BY <1>2
    <2> QED
      BY <2>3, <2>4
  <1>3. CASE type = "COMMAND"
    <2>1. Len(Whole(type, properties)) \in Nat /\ DM_MSG_REPORT_BUF_LEN \in Nat
      <3>1. Whole(type, properties) \in Seq(Token)
        <4> DEFINE payload == dm_gen_properties_payload(properties, "PROPERTY_POST", FALSE)
        <4>1. Faithful(payload, Joined(Parts(type, properties), <<",">>))
          BY <1>3, PayloadFaithful
        <4> QED
          BY <4>1, SentIs, Zenon DEF Whole
      <3> QED
        BY <3>1, LenProperties, Room
    <2> QED
      BY <1>3, <2>1, ReplyOneShort
  <1> QED
    BY <1>1, <1>2, <1>3 DEF Types

----------------------------------------------------------------------------
(* The length of a packet. *)

LEMMA RemLenIs ==
  ASSUME NEW r
  PROVE  r \in 0..MaxRemLen <=> r \in Nat /\ r < 268435456
  <1>1. MaxRemLen \in Nat
    BY SMT DEF MaxRemLen
  <1>2. r \in 0..MaxRemLen <=> r \in Nat /\ r <= MaxRemLen
    BY <1>1, SMT
  <1>3. ASSUME r \in Nat
        PROVE  r <= MaxRemLen <=> r < 268435456
    BY <1>3, SMT DEF MaxRemLen
  <1> QED
    BY <1>2, <1>3, SMT

(* Division by 128.                                                        *)
LEMMA Divided ==
  ASSUME NEW r \in Nat
  PROVE  /\ r \div 128 \in Nat
         /\ r \div 128 < 128 <=> r < 16384
         /\ r \div 128 < 16384 <=> r < 2097152
         /\ r \div 128 < 2097152 <=> r < 268435456
  BY SMT

LEMMA DividedByPlace ==
  ASSUME NEW r \in Nat, NEW i \in 1..4
  PROVE  r \div Place[i] \in Nat
  <1>1. /\ r \div 1 \in Nat /\ r \div 128 \in Nat
        /\ r \div 16384 \in Nat /\ r \div 2097152 \in Nat
    BY SMT
  <1>2. i = 1 \/ i = 2 \/ i = 3 \/ i = 4
    OBVIOUS
  <1> QED
    BY <1>1, <1>2, SMT DEF Place

LEMMA DigitsIs ==
  ASSUME NEW r \in 0..MaxRemLen
  PROVE  /\ r < 128 => Digits(r) = 1
         /\ r >= 128 /\ r < 16384 => Digits(r) = 2
         /\ r >= 16384 /\ r < 2097152 => Digits(r) = 3
         /\ r >= 2097152 => Digits(r) = 4
  <1> DEFINE Ok(n) == /\ n = 4 \/ r < Place[n + 1]
                      /\ n = 1 \/ r >= Place[n]
  <1>1. Place[1] = 1 /\ Place[2] = 128 /\ Place[3] = 16384 /\ Place[4] = 2097152
    BY SMT DEF Place
  <1>2. /\ Ok(1) <=> r < 128
        /\ Ok(2) <=> r < 16384 /\ r >= 128
        /\ Ok(3) <=> r < 2097152 /\ r >= 16384
        /\ Ok(4) <=> r >= 2097152
    BY <1>1
  <1>3. Digits(r) = CHOOSE n \in 1..4 : Ok(n)
    BY Zenon DEF Digits
  <1> HIDE DEF Ok
  <1>4. \A n \in 1..4 : n = 1 \/ n = 2 \/ n = 3 \/ n = 4
    OBVIOUS
  <1>5. \A n \in 1..4 : Ok(n) /\ (\A m \in 1..4 : Ok(m) => m = n) => Digits(r) = n
    BY <1>3, Zenon
  <1>6. r < 128 => Digits(r) = 1
    BY <1>2, <1>4, <1>5
  <1>7. r >= 128 /\ r < 16384 => Digits(r) = 2
    BY <1>2, <1>4, <1>5
  <1>8. r >= 16384 /\ r < 2097152 => Digits(r) = 3
    BY <1>2, <1>4, <1>5
  <1>9. r >= 2097152 => Digits(r) = 4
    BY <1>2, <1>4, <1>5
  <1> QED
    BY <1>6, <1>7, <1>8, <1>9

(* The byte at place i of the length.                                      *)
Digit(r, i) == ((r \div Place[i]) % 128) + (IF i < Digits(r) THEN 128 ELSE 0)

LEMMA LengthFieldIs ==
  ASSUME NEW r \in 0..MaxRemLen
  PROVE  /\ Digits(r) \in 1..4
         /\ LengthField(r) \in Seq(Nat) /\ Len(LengthField(r)) = Digits(r)
         /\ \A i \in 1..Digits(r) : /\ LengthField(r)[i] = Digit(r, i)
                                    /\ LengthField(r)[i] < 128 <=> i = Digits(r)
                                    /\ LengthField(r)[i] % 128 = (r \div Place[i]) % 128
  <1> DEFINE d == Digits(r)
  <1>1. d \in 1..4
    BY DigitsIs, SMT
  <1>2. LengthField(r) = [i \in 1..d |-> Digit(r, i)]
    BY Zenon DEF LengthField, Digit
  <1> HIDE DEF d
  <1>3. ASSUME NEW i \in 1..d
        PROVE  /\ Digit(r, i) \in Nat
               /\ Digit(r, i) < 128 <=> i = d
               /\ Digit(r, i) % 128 = (r \div Place[i]) % 128
    <2> DEFINE q == r \div Place[i]
    <2>3. q \in Nat
      <3>1. r \in Nat
        BY RemLenIs, SMT
      <3>2. i \in 1..4
        BY <1>1
      <3> QED
        BY <3>1, <3>2, DividedByPlace
    <2>4. Digit(r, i) = (q % 128) + (IF i < d THEN 128 ELSE 0)
      BY DEF Digit, d
    <2> HIDE DEF q
    <2>5. q % 128 \in 0..127 /\ ((q % 128) + 128) % 128 = q % 128 /\ (q % 128) % 128 = q % 128
      BY ONLY <2>3
    <2>6. CASE i < d
      BY <1>1, <2>4, <2>5, <2>6 DEF q
    <2>7. CASE i = d
      BY <1>1, <2>4, <2>5, <2>7 DEF q
    <2> QED
      BY <1>1, <2>6, <2>7
  <1>4. LengthField(r) \in [1..d -> Nat]
    BY <1>2, <1>3
  <1>5. LengthField(r) \in Seq(Nat) /\ Len(LengthField(r)) = d
    BY <1>1, <1>4, IsSeq
  <1> QED
    BY <1>1, <1>2, <1>3, <1>5 DEF d

(* The digits behind the first are those of the length without it.         *)
LEMMA LengthFieldStep ==
  ASSUME NEW r \in 0..MaxRemLen
  PROVE  /\ r < 128 => LengthField(r) = <<r>>
         /\ r >= 128 => /\ r \div 128 \in 0..MaxRemLen
                        /\ LengthField(r) = <<128 + (r % 128)>> \o LengthField(r \div 128)
  <1> DEFINE d == Digits(r)
             f == LengthField(r)
  <1>1. /\ d \in 1..4 /\ f \in Seq(Nat) /\ Len(f) = d
        /\ \A i \in 1..d : f[i] = Digit(r, i)
    BY LengthFieldIs
  <1>2. CASE r < 128
    <2>1. d = 1
      BY <1>2, DigitsIs, SMT
    <2>2. f[1] = r
      <3>1. f[1] = Digit(r, 1)
        BY <1>1, <2>1
      <3>2. Digit(r, 1) = (r \div 1) % 128
        BY <2>1, SMT DEF Digit, Place
      <3>3. (r \div 1) % 128 = r
        BY <1>2
      <3> QED
        BY <3>1, <3>2, <3>3
    <2> HIDE DEF f, d
    <2>3. <<r>> \in Seq(Nat) /\ Len(<<r>>) = 1 /\ <<r>>[1] = r
      OBVIOUS
    <2>4. f = <<r>>
      BY <1>1, <2>1, <2>2, <2>3, SeqEqual
    <2> QED
      BY <1>2, <2>4 DEF f
  <1>3. CASE r >= 128
    <2> DEFINE q == r \div 128
               e == Digits(q)
               g == LengthField(q)
               b == 128 + (r % 128)
    <2>1. r \in Nat /\ q \in 0..MaxRemLen
      <3>1. r \in Nat /\ r < 268435456
        BY RemLenIs, SMT
      <3>2. q \in Nat /\ (q < 2097152 <=> r < 268435456)
        BY <3>1, Divided, SMT
      <3> HIDE DEF q
      <3>3. q < 268435456
        BY <3>1, <3>2, SMT
      <3> QED
        BY <3>1, <3>2, <3>3, RemLenIs, SMT
    <2>2. /\ e \in 1..4 /\ g \in Seq(Nat) /\ Len(g) = e
          /\ \A i \in 1..e : g[i] = Digit(q, i)
      BY <2>1, LengthFieldIs
    <2>3. d = e + 1
      <3>1. /\ q < 128 <=> r < 16384
            /\ q < 16384 <=> r < 2097152
            /\ q < 2097152
        BY <2>1, Divided, RemLenIs, SMT
      <3>2. /\ q < 128 => e = 1
            /\ q >= 128 /\ q < 16384 => e = 2
            /\ q >= 16384 /\ q < 2097152 => e = 3
        BY <2>1, DigitsIs, SMT
      <3>3. /\ r < 16384 => d = 2
            /\ r >= 16384 /\ r < 2097152 => d = 3
            /\ r >= 2097152 => d = 4
        BY <1>3, DigitsIs, SMT
      <3>4. q \in Int /\ r \in Int
        BY <2>1
      <3> HIDE DEF q, e, d
      <3> QED
        BY ONLY <3>1, <3>2, <3>3, <3>4
    <2>4. b \in Nat /\ <<b>> \in Seq(Nat) /\ Len(<<b>>) = 1
      OBVIOUS
    <2>5. /\ <<b>> \o g \in Seq(Nat) /\ Len(<<b>> \o g) = 1 + e
          /\ \A i \in 1..(1 + e) : (<<b>> \o g)[i] = IF i <= 1 THEN <<b>>[i] ELSE g[i - 1]
      <3> HIDE DEF b, g, e
      <3> QED
        BY <2>2, <2>4, ConcatProperties
    <2>6. ASSUME NEW i \in 1..d
          PROVE  f[i] = (<<b>> \o g)[i]
      <3>1. i \in {1, 2, 3, 4}
        BY <1>1
      <3>2. CASE i = 1
        <4>1. (<<b>> \o g)[1] = b
          <5>1. 1 \in 1..(1 + e)
            BY <2>2
          <5> QED
            BY <2>5, <5>1
        <4>2. Digit(r, 1) = ((r \div 1) % 128) + 128
          BY <2>2, <2>3, SMT DEF Digit, Place
        <4>3. Digit(r, 1) = b
          BY <4>2
        <4> QED
          BY <1>1, <3>2, <4>1, <4>3
      <3>3. CASE i # 1
        <4>1. i - 1 \in 1..e /\ i \in 1..(1 + e) /\ ~(i <= 1)
          BY <2>2, <2>3, <3>3
        <4>2. (<<b>> \o g)[i] = g[i - 1]
          BY <2>5, <4>1, Zenon
        <4>3. g[i - 1] = Digit(q, i - 1)
          BY <2>2, <4>1
        <4>4. i < d <=> i - 1 < e
          BY <2>2, <2>3
        <4>5. (r \div Place[i]) = (q \div Place[i - 1])
          <5>1. CASE i = 2
            BY <5>1, SMT DEF Place
          <5>2. CASE i = 3
            BY <5>2, SMT DEF Place
          <5>3. CASE i = 4
            BY <5>3, SMT DEF Place
          <5> QED
            BY <3>1, <3>3, <5>1, <5>2, <5>3
        <4>6. Digit(r, i) = Digit(q, i - 1)
          BY <4>4, <4>5 DEF Digit
        <4>7. f[i] = Digit(r, i)
          BY <1>1
        <4> QED
          BY <4>2, <4>3, <4>6, <4>7
      <3> QED
        BY <3>2, <3>3
    <2>7. f = <<b>> \o g
      <3> DEFINE h == <<b>> \o g
      <3>1. /\ h \in Seq(Nat) /\ Len(h) = Len(f)
            /\ \A i \in 1..Len(f) : f[i] = h[i]
        <4>1. Len(h) = 1 + e
          BY <2>5
        <4>2. Len(h) = Len(f)
          BY <1>1, <2>2, <2>3, <4>1
        <4> QED
          BY <1>1, <2>5, <2>6, <4>2, Zenon
      <3> HIDE DEF h, f
      <3>2. f = h
        BY <1>1, <3>1, SeqEqual
      <3> QED
        BY <3>2 DEF h
    <2> QED
      BY <1>3, <2>1, <2>7
  <1> QED
    BY <1>2, <1>3

LEMMA Encoded ==
  ASSUME NEW length \in 0..MaxRemLen
  PROVE  mqtt_write_packet_rem_len(length) = LengthField(length)
  <1> DEFINE Is(f) == f = [n \in 0..length |->
                             IF n < 128 THEN <<n>> ELSE <<128 + (n % 128)>> \o f[n \div 128]]
             g == [n \in 0..length |-> LengthField(n)]
             e == CHOOSE f : Is(f)
  <1>1. length \in Nat /\ length < 268435456
    BY RemLenIs, SMT
  <1>2. ASSUME NEW n \in 0..length
        PROVE  /\ n \in 0..MaxRemLen /\ n \in Nat
               /\ n >= 128 => n \div 128 \in 0..length /\ n \div 128 < n
    <2>1. n \in Nat /\ n < 268435456
      BY <1>1, SMT
    <2>2. n >= 128 => n \div 128 \in Nat /\ n \div 128 < n
      BY <2>1, SMT
    <2>3. n >= 128 => n \div 128 \in 0..length
      BY <1>1, <2>2, SMT
    <2> QED
      BY <2>1, <2>2, <2>3, RemLenIs, SMT
  <1>3. Is(g)
    <2>1. ASSUME NEW n \in 0..length
          PROVE  g[n] = IF n < 128 THEN <<n>> ELSE <<128 + (n % 128)>> \o g[n \div 128]
      <3>1. CASE n < 128
        BY <1>2, <3>1, LengthFieldStep, Zenon
      <3>2. CASE ~(n < 128)
        <4>1. n >= 128
          BY <1>2, <3>2, SMT
        <4>2. n \div 128 \in 0..length
          BY <1>2, <4>1
        <4>3. LengthField(n) = <<128 + (n % 128)>> \o LengthField(n \div 128)
          BY <1>2, <4>1, LengthFieldStep, Zenon
        <4> QED
          BY <3>2, <4>2, <4>3, Zenon
      <3> QED
        BY <3>1, <3>2
    <2>2. g = [n \in 0..length |-> g[n]]
      BY Zenon
    <2> HIDE DEF g
    <2> QED
      BY <2>1, <2>2, Zenon
  <1>4. \E f : Is(f)
    BY <1>3, Zenon
  <1>5. Is(e)
    BY <1>4, Zenon
  <1>6. mqtt_write_packet_rem_len(length) = e[length]
    BY Zenon DEF mqtt_write_packet_rem_len
  <1> HIDE DEF e
  <1>7. \A n \in 0..length :
          e[n] = IF n < 128 THEN <<n>> ELSE <<128 + (n % 128)>> \o e[n \div 128]
    BY <1>5, Zenon
  <1> DEFINE S == {k \in 0..length : \A n \in 0..k : e[n] = LengthField(n)}
  <1>8. 0 \in S
    <2>1. 0 \in 0..length
      BY <1>1, SMT
    <2>2. e[0] = <<0>>
      <3> DEFINE rest == <<128 + (0 % 128)>> \o e[0 \div 128]
      <3>1. e[0] = IF 0 < 128 THEN <<0>> ELSE rest
        BY <1>7, <2>1, Zenon
      <3>2. 0 < 128
        OBVIOUS
      <3> HIDE DEF rest
      <3> QED
        BY <3>1, <3>2, Zenon
    <2>3. 0 \in 0..MaxRemLen /\ 0 < 128
      BY <1>2, <2>1, SMT
    <2>4. LengthField(0) = <<0>>
      BY <2>3, LengthFieldStep, Zenon
    <2>5. \A n \in 0..0 : n = 0
      OBVIOUS
    <2> QED
      BY <2>1, <2>2, <2>4, <2>5, Zenon
  <1>9. ASSUME NEW k \in 0..(length - 1), k \in S
        PROVE  k + 1 \in S
    <2>1. k + 1 \in 0..length /\ k \in 0..length
      BY <1>1, SMT
    <2> DEFINE n == k + 1
    <2>2. e[n] = LengthField(n)
      <3>1. n \in 0..length
        BY <2>1
      <3> HIDE DEF n
      <3>2. CASE n < 128
        BY <1>2, <1>7, <3>1, <3>2, LengthFieldStep, ZenonT(60)
      <3>3. CASE ~(n < 128)
        <4>1. n >= 128
          BY <1>2, <3>1, <3>3, SMT
        <4>2. n \div 128 \in 0..k
          <5>1. n \div 128 \in 0..length /\ n \div 128 < n
            BY <1>2, <3>1, <4>1, Zenon
          <5> QED
            BY <5>1, <2>1, SMT DEF n
        <4>3. LengthField(n) = <<128 + (n % 128)>> \o LengthField(n \div 128)
          BY <1>2, <3>1, <4>1, LengthFieldStep, Zenon
        <4>4. e[n] = <<128 + (n % 128)>> \o e[n \div 128]
          BY <1>7, <3>1, <3>3, Zenon
        <4>5. e[n \div 128] = LengthField(n \div 128)
          BY <1>9, <4>2, Zenon
        <4> QED
          BY <4>3, <4>4, <4>5, Zenon
      <3> QED
        BY <3>2, <3>3
    <2>3. \A m \in 0..(k + 1) : m \in 0..k \/ m = k + 1
      BY <2>1, SMT
    <2> QED
      BY <1>9, <2>1, <2>2, <2>3, Zenon
  <1> HIDE DEF S
  <1>10. length \in S
    <2>1. \A k \in 0..length : k \in S
      BY <1>1, <1>8, <1>9, UpTo
    <2> QED
      BY <1>1, <2>1, SMT
  <1>11. length \in 0..length
    BY <1>1, SMT
  <1> QED
    BY <1>6, <1>10, <1>11, Zenon DEF S

----------------------------------------------------------------------------
(* What is read of a stream, and what stays in it.                         *)

LEMMA ReadIs ==
  ASSUME NEW T, NEW s \in Seq(T), NEW n \in Nat
  PROVE  /\ Read(s, n) \in Seq(T)
         /\ Len(Read(s, n)) = IF n < Len(s) THEN n ELSE Len(s)
         /\ \A i \in 1..Len(Read(s, n)) : Read(s, n)[i] = s[i]
  <1> DEFINE m == IF n < Len(s) THEN n ELSE Len(s)
  <1>1. Len(s) \in Nat /\ \A i \in 1..Len(s) : s[i] \in T
    BY LenProperties, ElementOfSeq
  <1>2. m \in Nat /\ m <= Len(s)
    BY <1>1
  <1>3. Read(s, n) = SubSeq(s, 1, m)
    BY Zenon DEF Read
  <1>4. m = IF n < Len(s) THEN n ELSE Len(s)
    OBVIOUS
  <1> HIDE DEF m
  <1>5. /\ SubSeq(s, 1, m) \in Seq(T)
        /\ Len(SubSeq(s, 1, m)) = m
        /\ \A i \in 1..m : SubSeq(s, 1, m)[i] = s[i]
    <2>1. 1 \in Int /\ m \in Int /\ \A i \in 1..m : s[i] \in T
      BY <1>1, <1>2
    <2>2. /\ SubSeq(s, 1, m) \in Seq(T)
          /\ Len(SubSeq(s, 1, m)) = IF 1 <= m THEN m - 1 + 1 ELSE 0
          /\ \A i \in 1..(m - 1 + 1) : SubSeq(s, 1, m)[i] = s[1 + i - 1]
      BY <2>1, SubSeqProperties
    <2>3. m - 1 + 1 = m /\ \A i \in 1..m : 1 + i - 1 = i
      BY <1>2
    <2> QED
      BY <1>2, <2>2, <2>3
  <1> QED
    BY <1>3, <1>4, <1>5

LEMMA UnreadIs ==
  ASSUME NEW T, NEW s \in Seq(T), NEW n \in Nat
  PROVE  /\ Unread(s, n) \in Seq(T)
         /\ Len(Unread(s, n)) = IF n < Len(s) THEN Len(s) - n ELSE 0
         /\ \A i \in 1..Len(Unread(s, n)) : Unread(s, n)[i] = s[n + i]
  <1>1. Len(s) \in Nat /\ \A i \in 1..Len(s) : s[i] \in T
    BY LenProperties, ElementOfSeq
  <1>2. n + 1 \in Int /\ Len(s) \in Int /\ \A i \in (n + 1)..Len(s) : s[i] \in T
    BY <1>1
  <1> DEFINE u == SubSeq(s, n + 1, Len(s))
  <1>3. /\ u \in Seq(T)
        /\ Len(u) = IF n + 1 <= Len(s) THEN Len(s) - (n + 1) + 1 ELSE 0
        /\ \A i \in 1..(Len(s) - (n + 1) + 1) : u[i] = s[n + 1 + i - 1]
    BY <1>2, SubSeqProperties
  <1>4. Unread(s, n) = u
    BY Zenon DEF Unread
  <1> HIDE DEF u
  <1>5. Len(u) = IF n < Len(s) THEN Len(s) - n ELSE 0
    BY <1>1, <1>3
  <1>6. ASSUME NEW i \in 1..Len(u)
        PROVE  u[i] = s[n + i]
    <2>1. i \in 1..(Len(s) - (n + 1) + 1) /\ n + 1 + i - 1 = n + i
      BY <1>1, <1>5
    <2> QED
      BY <1>3, <2>1
  <1> QED
    BY <1>3, <1>4, <1>5, <1>6

(* A read of a part takes that part and leaves the rest.                   *)
LEMMA ReadPart ==
  ASSUME NEW T, NEW a \in Seq(T), NEW b \in Seq(T)
  PROVE  Read(a \o b, Len(a)) = a /\ Unread(a \o b, Len(a)) = b
  <1> DEFINE n == Len(a)
             m == Len(b)
             c == a \o b
             p == Read(c, n)
             q == Unread(c, n)
  <1>1. n \in Nat /\ m \in Nat
    BY LenProperties
  <1>2. /\ c \in Seq(T) /\ Len(c) = n + m
        /\ \A i \in 1..(n + m) : c[i] = IF i <= n THEN a[i] ELSE b[i - n]
    BY ConcatProperties
  <1> HIDE DEF c, n, m
  <1>3. /\ p \in Seq(T) /\ Len(p) = IF n < n + m THEN n ELSE n + m
        /\ \A i \in 1..Len(p) : p[i] = c[i]
    BY <1>1, <1>2, ReadIs
  <1>4. /\ q \in Seq(T) /\ Len(q) = IF n < n + m THEN (n + m) - n ELSE 0
        /\ \A i \in 1..Len(q) : q[i] = c[n + i]
    BY <1>1, <1>2, UnreadIs
  <1> HIDE DEF p, q
  <1>5. p = a
    <2>1. Len(p) = Len(a)
      BY <1>1, <1>3 DEF n
    <2>2. \A i \in 1..Len(p) : p[i] = a[i]
      BY <1>1, <1>2, <1>3, <2>1 DEF n
    <2> QED
      BY <1>3, <2>1, <2>2, SeqEqual
  <1>6. q = b
    <2>1. Len(q) = Len(b)
      BY <1>1, <1>4 DEF m
    <2>2. ASSUME NEW i \in 1..Len(q)
          PROVE  q[i] = b[i]
      <3>1. n + i \in 1..(n + m) /\ ~(n + i <= n) /\ (n + i) - n = i
        BY <1>1, <2>1 DEF m
      <3> QED
        BY <1>2, <1>4, <3>1
    <2> QED
      BY <1>4, <2>1, <2>2, SeqEqual
  <1> QED
    BY <1>5, <1>6 DEF p, q, c, n

(* The field ends with its first byte below 128, which is its last.        *)
LEMMA FieldLenIs ==
  ASSUME NEW r \in 0..MaxRemLen, NEW rest \in Seq(Nat)
  PROVE  FieldLen(LengthField(r) \o rest) = Digits(r)
  <1> DEFINE d == Digits(r)
             f == LengthField(r)
             net == f \o rest
             s == Read(net, 4)
             I == {i \in 1..Len(s) : s[i] < 128}
  <1>1. /\ d \in 1..4 /\ f \in Seq(Nat) /\ Len(f) = d
        /\ \A i \in 1..d : f[i] < 128 <=> i = d
    BY LengthFieldIs
  <1>2. Len(rest) \in Nat
    BY LenProperties
  <1>3. FieldLen(net) = IF I # {} THEN Min(I) ELSE 0
    BY Zenon DEF FieldLen, SelectInSeq, MAX_NO_OF_REMAINING_LENGTH_BYTES
  <1> HIDE DEF d, f
  <1>4. /\ net \in Seq(Nat) /\ Len(net) = d + Len(rest)
        /\ \A i \in 1..(d + Len(rest)) : net[i] = IF i <= d THEN f[i] ELSE rest[i - d]
    BY <1>1, ConcatProperties
  <1> HIDE DEF net
  <1>5. /\ Len(s) = IF 4 < Len(net) THEN 4 ELSE Len(net)
        /\ \A i \in 1..Len(s) : s[i] = net[i]
    BY <1>4, ReadIs
  <1> HIDE DEF s
  <1>6. ASSUME NEW i \in 1..d
        PROVE  i \in 1..Len(s) /\ s[i] = f[i]
    <2>1. Len(net) \in Nat /\ i <= Len(net) /\ i <= 4 /\ i \in Nat /\ i >= 1
      BY <1>1, <1>2, <1>4
    <2>2. i \in 1..Len(s)
      BY <1>5, <2>1
    <2>3. s[i] = net[i]
      BY <1>5, <2>2
    <2>4. net[i] = f[i]
      BY <1>1, <1>2, <1>4
    <2> QED
      BY <2>2, <2>3, <2>4
  <1>7. d \in I
    BY <1>1, <1>6
  <1>8. \A i \in I : i \in Nat /\ d <= i
    <2>1. ASSUME NEW i \in I
          PROVE  i \in Nat /\ d <= i
      <3>1. i \in Nat /\ i >= 1 /\ s[i] < 128
        OBVIOUS
      <3>2. i < d => i \in 1..d
        BY <1>1, <3>1
      <3>3. ~(i < d)
        BY <1>1, <1>6, <3>1, <3>2
      <3> QED
        BY <1>1, <3>1, <3>3
    <2> QED
      BY <2>1
  <1> HIDE DEF I
  <1>9. Min(I) = d
    <2>1. Min(I) \in I /\ \A y \in I : Min(I) <= y
      BY <1>7, <1>8, Zenon DEF Min
    <2> DEFINE m == Min(I)
    <2>2. m \in Nat /\ d <= m /\ m <= d /\ d \in Nat
      BY <1>7, <1>8, <2>1, Zenon
    <2> HIDE DEF m
    <2>3. m = d
      BY ONLY <2>2
    <2> QED
      BY <2>3 DEF m
  <1> QED
    BY <1>3, <1>7, <1>9 DEF net, d, f

(* The digits read so far.                                                 *)
LEMMA Joined128 ==
  ASSUME NEW r \in 0..MaxRemLen
  PROVE  /\ r % 1 = 0 /\ r % 268435456 = r
         /\ (r % 1) + ((r \div 1) % 128) * 1 = r % 128
         /\ (r % 128) + ((r \div 128) % 128) * 128 = r % 16384
         /\ (r % 16384) + ((r \div 16384) % 128) * 16384 = r % 2097152
         /\ (r % 2097152) + ((r \div 2097152) % 128) * 2097152 = r % 268435456
  <1>1. r \in Nat /\ r < 268435456
    BY RemLenIs, SMT
  <1>2. r % 1 = 0 /\ r % 268435456 = r
    BY ONLY <1>1, SMT
  <1>3. (r % 1) + ((r \div 1) % 128) * 1 = r % 128
    BY ONLY <1>1, SMT
  <1>4. (r % 128) + ((r \div 128) % 128) * 128 = r % 16384
    BY ONLY <1>1, SMT
  <1>5. (r % 16384) + ((r \div 16384) % 128) * 16384 = r % 2097152
    BY ONLY <1>1, SMT
  <1>6. (r % 2097152) + ((r \div 2097152) % 128) * 2097152 = r % 268435456
    BY ONLY <1>1, SMT
  <1> QED
    BY <1>2, <1>3, <1>4, <1>5, <1>6, SMT

----------------------------------------------------------------------------
(* What i digits of r say, and the place of the next.                      *)
So(r, i) ==
  [value      |-> r % (<<1, 128, 16384, 2097152, 268435456>>[i + 1]),
   multiplier |-> <<1, 128, 16384, 2097152, 268435456>>[i + 1]]

LEMMA SoNext ==
  ASSUME NEW r \in 0..MaxRemLen, NEW i \in 1..4, NEW b, b % 128 = (r \div Place[i]) % 128
  PROVE  AddByte(So(r, i - 1), b) = So(r, i)
  <1>1. AddByte(So(r, i - 1), b) =
          [value      |-> So(r, i - 1).value + (b % 128) * So(r, i - 1).multiplier,
           multiplier |-> So(r, i - 1).multiplier * 128]
    BY Zenon DEF AddByte
  <1>2. i = 1 \/ i = 2 \/ i = 3 \/ i = 4
    OBVIOUS
  <1>3. CASE i = 1
    <2>1. /\ So(r, 0) = [value |-> r % 1, multiplier |-> 1]
          /\ So(r, 1) = [value |-> r % 128, multiplier |-> 128]
      BY SMT DEF So
    <2>2. b % 128 = (r \div 1) % 128 /\ i - 1 = 0
      BY <1>3, SMT DEF Place
    <2>3. So(r, 0).value + (b % 128) * So(r, 0).multiplier = r % 128
      BY <2>1, <2>2, Joined128, SMT
    <2>4. So(r, 0).multiplier * 128 = 128
      BY <2>1, SMT
    <2> QED
      BY <1>1, <1>3, <2>1, <2>2, <2>3, <2>4, SMT
  <1>4. CASE i = 2
    <2>1. /\ So(r, 1) = [value |-> r % 128, multiplier |-> 128]
          /\ So(r, 2) = [value |-> r % 16384, multiplier |-> 16384]
      BY SMT DEF So
    <2>2. b % 128 = (r \div 128) % 128 /\ i - 1 = 1
      BY <1>4, SMT DEF Place
    <2>3. So(r, 1).value + (b % 128) * So(r, 1).multiplier = r % 16384
      BY <2>1, <2>2, Joined128, SMT
    <2>4. So(r, 1).multiplier * 128 = 16384
      BY <2>1, SMT
    <2> QED
      BY <1>1, <1>4, <2>1, <2>2, <2>3, <2>4, SMT
  <1>5. CASE i = 3
    <2>1. /\ So(r, 2) = [value |-> r % 16384, multiplier |-> 16384]
          /\ So(r, 3) = [value |-> r % 2097152, multiplier |-> 2097152]
      BY SMT DEF So
    <2>2. b % 128 = (r \div 16384) % 128 /\ i - 1 = 2
      BY <1>5, SMT DEF Place
    <2>3. So(r, 2).value + (b % 128) * So(r, 2).multiplier = r % 2097152
      BY <2>1, <2>2, Joined128, SMT
    <2>4. So(r, 2).multiplier * 128 = 2097152
      BY <2>1, SMT
    <2> QED
      BY <1>1, <1>5, <2>1, <2>2, <2>3, <2>4, SMT
  <1>6. CASE i = 4
    <2>1. /\ So(r, 3) = [value |-> r % 2097152, multiplier |-> 2097152]
          /\ So(r, 4) = [value |-> r % 268435456, multiplier |-> 268435456]
      BY SMT DEF So
    <2>2. b % 128 = (r \div 2097152) % 128 /\ i - 1 = 3
      BY <1>6, SMT DEF Place
    <2>3. So(r, 3).value + (b % 128) * So(r, 3).multiplier = r % 268435456
      BY <2>1, <2>2, Joined128, SMT
    <2>4. So(r, 3).multiplier * 128 = 268435456
      BY <2>1, SMT
    <2> QED
      BY <1>1, <1>6, <2>1, <2>2, <2>3, <2>4, SMT
  <1> QED
    BY <1>2, <1>3, <1>4, <1>5, <1>6, Zenon

LEMMA SoAll ==
  ASSUME NEW r \in 0..MaxRemLen
  PROVE  So(r, Digits(r)).value = r
  <1>1. r \in Nat /\ r < 268435456
    BY RemLenIs, SMT
  <1>2. CASE r < 128
    <2>1. Digits(r) = 1
      BY <1>2, DigitsIs, SMT
    <2> QED
      BY ONLY <1>1, <1>2, <2>1, SMT DEF So
  <1>3. CASE r >= 128 /\ r < 16384
    <2>1. Digits(r) = 2
      BY <1>3, DigitsIs, SMT
    <2> QED
      BY ONLY <1>1, <1>3, <2>1, SMT DEF So
  <1>4. CASE r >= 16384 /\ r < 2097152
    <2>1. Digits(r) = 3
      BY <1>4, DigitsIs, SMT
    <2> QED
      BY ONLY <1>1, <1>4, <2>1, SMT DEF So
  <1>5. CASE r >= 2097152
    <2>1. Digits(r) = 4
      BY <1>5, DigitsIs, SMT
    <2> QED
      BY ONLY <1>1, <1>5, <2>1, SMT DEF So
  <1> QED
    BY <1>1, <1>2, <1>3, <1>4, <1>5, SMT

LEMMA DecodedIs ==
  ASSUME NEW r \in 0..MaxRemLen, NEW rest \in Seq(Nat)
  PROVE  _decode_packet_rem_len_with_net_read(LengthField(r) \o rest) = r
  <1> DEFINE d == Digits(r)
             net == LengthField(r) \o rest
             n == FieldLen(net)
             Is(f) == f = [i \in 0..n |-> IF i = 0 THEN [value |-> 0, multiplier |-> 1]
                                          ELSE AddByte(f[i - 1], net[i])]
             g == [i \in 0..n |-> So(r, i)]
             e == CHOOSE f : Is(f)
  <1>1. n = d /\ d \in 1..4
    BY FieldLenIs, LengthFieldIs
  <1>2. ASSUME NEW i \in 1..d
        PROVE  net[i] % 128 = (r \div Place[i]) % 128
    <2>1. /\ LengthField(r) \in Seq(Nat) /\ Len(LengthField(r)) = d
          /\ LengthField(r)[i] % 128 = (r \div Place[i]) % 128
      BY LengthFieldIs
    <2> DEFINE f == LengthField(r)
    <2> HIDE DEF f, d
    <2>2. i \in 1..(Len(f) + Len(rest)) /\ i <= Len(f)
      BY <1>1, <2>1, LenProperties DEF f
    <2>3. (f \o rest)[i] = f[i]
      BY <2>1, <2>2, ConcatProperties DEF f
    <2> QED
      BY <2>1, <2>3, Zenon DEF f
  <1>3. So(r, 0) = [value |-> 0, multiplier |-> 1]
    <2>1. So(r, 0) = [value |-> r % 1, multiplier |-> 1]
      BY SMT DEF So
    <2> QED
      BY <2>1, Joined128, SMT
  <1>4. ASSUME NEW i \in 1..d
        PROVE  AddByte(So(r, i - 1), net[i]) = So(r, i)
    <2>1. i \in 1..4
      BY <1>1
    <2> HIDE DEF net
    <2> QED
      BY <1>2, <2>1, SoNext, Zenon
  <1>5. _decode_packet_rem_len_with_net_read(net) = e[n].value
    BY Zenon DEF _decode_packet_rem_len_with_net_read, Decoded
  <1> HIDE DEF d, net, n
  <1>6. Is(g)
    <2>1. ASSUME NEW i \in 0..n
          PROVE  g[i] = IF i = 0 THEN [value |-> 0, multiplier |-> 1]
                        ELSE AddByte(g[i - 1], net[i])
      <3>1. CASE i = 0
        BY <1>3, <3>1, Zenon
      <3>2. CASE i # 0
        <4>1. i \in 1..d /\ i - 1 \in 0..n
          BY <1>1, <3>2
        <4> QED
          BY <1>4, <3>2, <4>1, Zenon
      <3> QED
        BY <3>1, <3>2
    <2>2. g = [i \in 0..n |-> g[i]]
      BY Zenon
    <2> HIDE DEF g
    <2> QED
      BY <2>1, <2>2, Zenon
  <1>7. \E f : Is(f)
    BY <1>6, Zenon
  <1>8. Is(e)
    BY <1>7, Zenon
  <1> HIDE DEF e
  <1>9. \A i \in 0..n : e[i] = IF i = 0 THEN [value |-> 0, multiplier |-> 1]
                               ELSE AddByte(e[i - 1], net[i])
    BY <1>8, Zenon
  <1> DEFINE S == {i \in 0..n : e[i] = So(r, i)}
  <1>10. 0 \in S
    <2>1. 0 \in 0..n
      BY <1>1
    <2> QED
      BY <1>3, <1>9, <2>1, Zenon
  <1>11. ASSUME NEW i \in 0..(n - 1), i \in S
         PROVE  i + 1 \in S
    <2>1. /\ i + 1 \in 0..n /\ i + 1 \in 1..d /\ i + 1 # 0 /\ (i + 1) - 1 = i
      BY <1>1
    <2>2. e[i + 1] = AddByte(e[i], net[i + 1])
      BY <1>9, <2>1, Zenon
    <2>3. AddByte(So(r, i), net[i + 1]) = So(r, i + 1)
      BY <1>4, <2>1, Zenon
    <2> QED
      BY <1>11, <2>1, <2>2, <2>3, Zenon
  <1> HIDE DEF S
  <1>12. n \in S
    <2>1. n \in Nat /\ n \in 0..n
      BY <1>1
    <2>2. \A i \in 0..n : i \in S
      BY <1>10, <1>11, <2>1, UpTo
    <2> QED
      BY <2>1, <2>2
  <1>13. e[n] = So(r, d)
    BY <1>1, <1>12, Zenon DEF S
  <1> QED
    BY <1>5, <1>13, SoAll, Zenon DEF d, net

----------------------------------------------------------------------------
(* The pieces of a packet that is dropped.                                 *)

LEMMA Quotient ==
  ASSUME NEW r \in Nat, NEW s \in Nat \ {0}
  PROVE  r \div s \in Nat /\ s * (r \div s) <= r /\ r < s * (r \div s) + s
  OBVIOUS

LEMMA Product ==
  ASSUME NEW s \in Nat, NEW i \in Nat
  PROVE  s * i \in Nat /\ s * (i + 1) = s * i + s /\ s * 0 = 0
  OBVIOUS

(* total_bytes_read after i pieces.                                        *)
ReadSoFar(r, s, i) == IF s * i <= r THEN s * i ELSE r

LEMMA ReadAwayIs ==
  ASSUME NEW net \in Seq(Nat), NEW r \in Nat, NEW s \in Nat \ {0}, NEW i \in Nat,
         r <= Len(net)
  PROVE  ReadAway(net, r, s, ReadSoFar(r, s, i)) = ReadSoFar(r, s, i + 1)
  <1> DEFINE t == ReadSoFar(r, s, i)
             u == ReadSoFar(r, s, i + 1)
             p == s * i
             q == s * (i + 1)
             rest == Unread(net, t)
             k == NextPiece(r - t, s)
  <1>1. p \in Nat /\ q = p + s
    BY Product
  <1>2. t = (IF p <= r THEN p ELSE r) /\ u = (IF q <= r THEN q ELSE r)
    BY DEF ReadSoFar
  <1>3. ReadAway(net, r, s, t) = IF t >= r THEN t ELSE t + Len(Read(rest, k))
    BY Zenon DEF ReadAway
  <1>4. k = IF r - t >= s THEN s ELSE r - t
    BY Zenon DEF NextPiece
  <1> HIDE DEF t, u, p, q, k
  <1>5. t \in Nat /\ t <= r
    BY <1>1, <1>2
  <1>6. CASE t >= r
    BY <1>1, <1>2, <1>3, <1>5, <1>6 DEF t, u
  <1>7. CASE ~(t >= r)
    <2>1. k \in Nat /\ k <= r - t
      BY <1>4, <1>5, <1>7
    <2>2. Len(net) \in Nat
      BY LenProperties
    <2>3. rest \in Seq(Nat) /\ Len(rest) = Len(net) - t
      BY <1>5, <1>7, <2>2, UnreadIs
    <2> HIDE DEF rest
    <2>4. Len(Read(rest, k)) = k
      <3>1. Len(Read(rest, k)) = IF k < Len(rest) THEN k ELSE Len(rest)
        BY <2>1, <2>3, ReadIs
      <3>2. k <= Len(rest) /\ Len(rest) \in Int
        BY <1>5, <2>1, <2>2, <2>3
      <3> DEFINE l == Len(rest)
      <3> HIDE DEF l
      <3>3. Len(Read(rest, k)) = (IF k < l THEN k ELSE l) /\ k <= l /\ l \in Int
        BY <3>1, <3>2 DEF l
      <3> QED
        BY <2>1, <3>3
    <2>5. t + k = u
      BY <1>1, <1>2, <1>4, <1>5, <1>7, <2>1
    <2> QED
      BY <1>3, <1>7, <2>4, <2>5, Zenon DEF t, u
  <1> QED
    BY <1>6, <1>7

LEMMA DiscardedIs ==
  ASSUME NEW net \in Seq(Nat), NEW r \in Nat, NEW s \in Nat \ {0}, r <= Len(net)
  PROVE  Discarded(net, r, s) = r
  <1> DEFINE n == PiecesOf(r, s)
             Is(f) == f = [i \in 0..n |-> IF i = 0 THEN 0
                                          ELSE ReadAway(net, r, s, f[i - 1])]
             g == [i \in 0..n |-> ReadSoFar(r, s, i)]
             e == CHOOSE f : Is(f)
  <1>1. n \in Nat /\ n > 0 /\ ReadSoFar(r, s, n) = r
    <2> DEFINE q == r \div s
               p == s * q
    <2>1. q \in Nat /\ p \in Nat /\ p <= r /\ r < p + s
      BY Quotient, Product
    <2>2. n = q + 1 /\ s * n = p + s
      <3>1. n = q + 1
        BY Zenon DEF PiecesOf
      <3> QED
        BY <2>1, <3>1, Product
    <2> HIDE DEF p, q, n
    <2>3. ReadSoFar(r, s, n) = IF p + s <= r THEN p + s ELSE r
      BY <2>2, Zenon DEF ReadSoFar
    <2> QED
      BY <2>1, <2>2, <2>3
  <1>2. Discarded(net, r, s) = e[n]
    BY Zenon DEF Discarded
  <1>3. ReadSoFar(r, s, 0) = 0
    BY Product DEF ReadSoFar
  <1> HIDE DEF n
  <1>4. Is(g)
    <2>1. ASSUME NEW i \in 0..n
          PROVE  g[i] = IF i = 0 THEN 0 ELSE ReadAway(net, r, s, g[i - 1])
      <3>1. CASE i = 0
        BY <1>3, <3>1, Zenon
      <3>2. CASE i # 0
        <4>1. i - 1 \in 0..n /\ i - 1 \in Nat /\ (i - 1) + 1 = i
          BY <1>1, <3>2
        <4>2. ReadAway(net, r, s, ReadSoFar(r, s, i - 1)) = ReadSoFar(r, s, i)
          BY <4>1, ReadAwayIs
        <4> QED
          BY <3>2, <4>1, <4>2, Zenon
      <3> QED
        BY <3>1, <3>2
    <2>2. g = [i \in 0..n |-> g[i]]
      BY Zenon
    <2> HIDE DEF g
    <2> QED
      BY <2>1, <2>2, Zenon
  <1>5. \E f : Is(f)
    BY <1>4, Zenon
  <1>6. Is(e)
    BY <1>5, Zenon
  <1> HIDE DEF e
  <1>7. \A i \in 0..n : e[i] = IF i = 0 THEN 0 ELSE ReadAway(net, r, s, e[i - 1])
    BY <1>6, Zenon
  <1> DEFINE S == {i \in 0..n : e[i] = ReadSoFar(r, s, i)}
  <1>8. 0 \in S
    <2>1. 0 \in 0..n
      BY <1>1
    <2> QED
      BY <1>3, <1>7, <2>1, Zenon
  <1>9. ASSUME NEW i \in 0..(n - 1), i \in S
        PROVE  i + 1 \in S
    <2>1. i \in Nat /\ i + 1 \in 0..n /\ i + 1 # 0 /\ (i + 1) - 1 = i
      BY <1>1
    <2>2. e[i + 1] = ReadAway(net, r, s, e[i])
      BY <1>7, <2>1, Zenon
    <2>3. ReadAway(net, r, s, ReadSoFar(r, s, i)) = ReadSoFar(r, s, i + 1)
      BY <2>1, ReadAwayIs, Zenon
    <2> QED
      BY <1>9, <2>1, <2>2, <2>3, Zenon
  <1> HIDE DEF S
  <1>10. n \in S
    <2>1. n \in 0..n
      BY <1>1
    <2>2. \A i \in 0..n : i \in S
      BY <1>1, <1>8, <1>9, UpTo
    <2> QED
      BY <2>1, <2>2
  <1> QED
    BY <1>1, <1>2, <1>10, Zenon DEF S

----------------------------------------------------------------------------
(* The ways a packet whose length is read may go.                          *)

LEMMA ReadCases ==
  ASSUME NEW net, NEW room,
         net # <<>>, FieldLen(Unread(net, 1)) # 0, FieldLen(Unread(net, 1)) > 0
  PROVE  LET field  == Unread(net, 1)
             rem    == _decode_packet_rem_len_with_net_read(field)
             header == Read(net, 1) \o mqtt_write_packet_rem_len(rem)
             body   == Unread(field, FieldLen(field))
             out    == _read_mqtt_packet(net, room)
         IN  /\ rem >= room /\ ~(rem < room) =>
                  out = [ret |-> "BUFFER_TOO_SHORT", buf |-> <<>>,
                         left |-> Unread(body, Discarded(body, rem, room))]
             /\ rem < room /\ ~(rem >= room)
                /\ rem > 0 /\ rem # 0
                /\ Len(header) + rem > room /\ ~(Len(header) + rem <= room) =>
                  out = [ret |-> "BUFFER_TOO_SHORT", buf |-> <<>>, left |-> Unread(body, rem)]
             /\ rem < room /\ ~(rem >= room)
                /\ (\/ rem = 0 /\ ~(rem > 0)
                    \/ Len(header) + rem <= room /\ ~(Len(header) + rem > room))
                /\ body # <<>> =>
                  out = [ret |-> "SUCCESS", buf |-> header \o Read(body, rem),
                         left |-> Unread(body, rem)]
  <1> DEFINE field  == Unread(net, 1)
             rem    == _decode_packet_rem_len_with_net_read(field)
             header == Read(net, 1) \o mqtt_write_packet_rem_len(rem)
             body   == Unread(field, FieldLen(field))
             out    == _read_mqtt_packet(net, room)
             none   == net = <<>>
             fits   == Len(header) + rem <= room
             over   == Len(header) + rem > room
             atall  == FieldLen(field) > 0
             endless == FieldLen(field) = 0
             short  == rem < room
             long   == rem >= room
             empty  == rem = 0
             some   == rem > 0
             A == [ret |-> "NOTHING_TO_READ", buf |-> <<>>, left |-> net]
             B == [ret |-> "READ_ERROR", buf |-> <<>>,
                   left |-> Unread(field, MAX_NO_OF_REMAINING_LENGTH_BYTES)]
             C == [ret |-> "BUFFER_TOO_SHORT", buf |-> <<>>,
                   left |-> Unread(body, Discarded(body, rem, room))]
             D == [ret |-> "BUFFER_TOO_SHORT", buf |-> <<>>, left |-> Unread(body, rem)]
             E == IF some /\ body = <<>>
                  THEN [ret |-> "NOTHING_TO_READ", buf |-> <<>>, left |-> body]
                  ELSE [ret |-> "SUCCESS", buf |-> header \o Read(body, rem),
                        left |-> Unread(body, rem)]
  <1>1. out = CASE none -> A
                [] ~none /\ endless -> B
                [] atall /\ long -> C
                [] atall /\ short /\ some /\ over -> D
                [] atall /\ short /\ (empty \/ fits) -> E
    BY Zenon DEF _read_mqtt_packet
  <1>2. ~none /\ ~endless /\ atall
    OBVIOUS
  <1> HIDE DEF out, none, fits, over, atall, endless, short, long, empty, some, A, B, C, D
  <1>3. long /\ ~short => out = C
    <2> HIDE DEF E
    <2> SUFFICES ASSUME long, ~short PROVE out = C
      OBVIOUS
    <2> QED
      BY <1>1, <1>2, Zenon
  <1>4. short /\ ~long /\ some /\ ~empty /\ over /\ ~fits => out = D
    <2> HIDE DEF E
    <2> SUFFICES ASSUME short, ~long, some, ~empty, over, ~fits PROVE out = D
      OBVIOUS
    <2> QED
      BY <1>1, <1>2, Zenon
  <1>5. short /\ ~long /\ ((empty /\ ~some) \/ (fits /\ ~over)) => out = E
    <2> HIDE DEF E
    <2> SUFFICES ASSUME short, ~long, (empty /\ ~some) \/ (fits /\ ~over) PROVE out = E
      OBVIOUS
    <2> QED
      BY <1>1, <1>2, Zenon
  <1>6. body # <<>> => E = [ret |-> "SUCCESS", buf |-> header \o Read(body, rem),
                            left |-> Unread(body, rem)]
    <2> HIDE DEF body, header, rem
    <2> QED
      BY Zenon
  <1> HIDE DEF E
  <1>7. rem >= room /\ ~(rem < room) =>
          out = [ret |-> "BUFFER_TOO_SHORT", buf |-> <<>>,
                 left |-> Unread(body, Discarded(body, rem, room))]
    <2> HIDE DEF body, rem
    <2> QED
      BY <1>3, Zenon DEF long, short, C
  <1>8. rem < room /\ ~(rem >= room) /\ rem > 0 /\ rem # 0
        /\ Len(header) + rem > room /\ ~(Len(header) + rem <= room) =>
          out = [ret |-> "BUFFER_TOO_SHORT", buf |-> <<>>, left |-> Unread(body, rem)]
    <2> HIDE DEF body, rem, header
    <2> QED
      BY <1>4, Zenon DEF long, short, some, empty, over, fits, D
  <1>9. rem < room /\ ~(rem >= room)
        /\ (\/ rem = 0 /\ ~(rem > 0)
            \/ Len(header) + rem <= room /\ ~(Len(header) + rem > room))
        /\ body # <<>> =>
          out = [ret |-> "SUCCESS", buf |-> header \o Read(body, rem),
                 left |-> Unread(body, rem)]
    <2> HIDE DEF body, rem, header
    <2>1. rem < room /\ ~(rem >= room)
          /\ (\/ rem = 0 /\ ~(rem > 0)
              \/ Len(header) + rem <= room /\ ~(Len(header) + rem > room)) => out = E
      <3>1. rem = 0 /\ ~(rem > 0) => empty /\ ~some
        BY Zenon DEF empty, some
      <3>2. Len(header) + rem <= room /\ ~(Len(header) + rem > room) => fits /\ ~over
        BY Zenon DEF fits, over
      <3>3. rem < room /\ ~(rem >= room) => short /\ ~long
        BY Zenon DEF short, long
      <3> QED
        BY <1>5, <3>1, <3>2, <3>3, Zenon
    <2> QED
      BY <1>6, <2>1, Zenon
  <1> QED
    BY <1>7, <1>8, <1>9 DEF out

----------------------------------------------------------------------------
(* A packet that arrives.                                                  *)

LEMMA NatAssoc == \A a, b, d \in Seq(Nat) : (a \o b) \o d = a \o (b \o d)
  <1> SUFFICES ASSUME NEW a \in Seq(Nat), NEW b \in Seq(Nat), NEW d \in Seq(Nat)
               PROVE  (a \o b) \o d = a \o (b \o d)
    OBVIOUS
  <1> DEFINE N == Nat
  <1>1. a \in Seq(N) /\ b \in Seq(N) /\ d \in Seq(N)
    OBVIOUS
  <1> HIDE DEF N
  <1> QED
    BY ONLY <1>1, ConcatAssociative, SMTT(30)

LEMMA ThePacket ==
  ASSUME NEW r \in Nat, NEW f \in Seq(Nat)
  PROVE  LET body == [i \in 1..r |-> i]
             rest == body \o NextPacket
         IN  /\ body \in Seq(Nat) /\ Len(body) = r
             /\ NextPacket \in Seq(Nat) /\ Len(NextPacket) = 2
             /\ rest \in Seq(Nat) /\ Len(rest) = r + 2
             /\ (<<48>> \o f \o body) \o NextPacket = <<48>> \o (f \o rest)
             /\ <<48>> \o (f \o rest) # <<>>
             /\ f \o rest \in Seq(Nat)
             /\ <<48>> \o f \in Seq(Nat) /\ Len(<<48>> \o f) = 1 + Len(f)
             /\ Len(<<48>> \o f \o body) = 1 + Len(f) + r
  <1> DEFINE body == [i \in 1..r |-> i]
             next == NextPacket
             rest == body \o next
             h == <<48>>
  <1>1. body \in Seq(Nat) /\ Len(body) = r
    OBVIOUS
  <1>2. next \in Seq(Nat) /\ Len(next) = 2
    BY DEF NextPacket
  <1>3. h \in Seq(Nat) /\ Len(h) = 1
    OBVIOUS
  <1> HIDE DEF body, next, h
  <1>4. rest \in Seq(Nat) /\ Len(rest) = r + 2
    <2>1. body \o next \in Seq(Nat) /\ Len(body \o next) = Len(body) + Len(next)
      BY <1>1, <1>2, ConcatProperties, Zenon
    <2> QED
      BY <1>1, <1>2, <2>1
  <1>5. f \in Seq(Nat) /\ f \o body \in Seq(Nat) /\ h \o f \in Seq(Nat) /\ Len(h \o f) = 1 + Len(f)
    BY <1>1, <1>3, ConcatProperties, ZenonT(60)
  <1>6. Len((h \o f) \o body) = 1 + Len(f) + r
    BY <1>1, <1>5, ConcatProperties
  <1>7. (h \o f \o body) \o next = h \o (f \o rest)
    <2>1. ((h \o f) \o body) \o next = (h \o f) \o (body \o next)
      BY <1>1, <1>2, <1>5, NatAssoc, ZenonT(60)
    <2> HIDE DEF rest
    <2>2. (h \o f) \o rest = h \o (f \o rest)
      BY <1>3, <1>4, <1>5, NatAssoc, ZenonT(60)
    <2> QED
      BY <2>1, <2>2, Zenon DEF rest
  <1> HIDE DEF rest
  <1>8. f \o rest \in Seq(Nat) /\ Len(f \o rest) \in Nat
    BY <1>4, ConcatProperties, LenProperties
  <1>9. h \o (f \o rest) # <<>>
    <2> DEFINE g == f \o rest
    <2> HIDE DEF g
    <2>1. g \in Seq(Nat) /\ Len(g) \in Nat
      BY <1>8 DEF g
    <2>2. Len(h \o g) = 1 + Len(g)
      BY <1>3, <2>1, ConcatProperties, ZenonT(60)
    <2>3. Len(<<>>) = 0
      OBVIOUS
    <2>4. h \o g # <<>>
      BY <2>1, <2>2, <2>3
    <2> QED
      BY <2>4 DEF g
  <1> QED
    BY <1>1, <1>2, <1>4, <1>5, <1>6, <1>7, <1>8, <1>9 DEF body, next, rest, h

(* The length a packet is taken to have is its real one or one more.       *)
LEMMA TakenLength ==
  ASSUME NEW r \in 0..MaxRemLen
  PROVE  get_mqtt_packet_len(r) - (1 + Digits(r) + r) \in {0, 1}
  <1> DEFINE n == r + 1
             d == Digits(r)
             k == IF n < 128 THEN 1 ELSE IF n < 16384 THEN 2 ELSE IF n < 2097151 THEN 3 ELSE 4
  <1>1. get_mqtt_packet_len(r) = n + k
    BY SMT DEF get_mqtt_packet_len
  <1>2. r \in Nat
    BY RemLenIs, SMT
  <1>3. /\ r < 128 => d = 1
        /\ r >= 128 /\ r < 16384 => d = 2
        /\ r >= 16384 /\ r < 2097152 => d = 3
        /\ r >= 2097152 => d = 4
    BY DigitsIs, SMT
  <1> HIDE DEF d
  <1>4. (n + k) - (1 + d + r) \in {0, 1}
    BY ONLY <1>2, <1>3, SMT
  <1> QED
    BY <1>1, <1>4, SMT DEF d

LEMMA FramesAreKept ==
  ASSUME NEW r \in 0..MaxRemLen, NEW room \in Nat \ {0, 1}
  PROVE  LET packet == Packet(r)
             read   == _read_mqtt_packet(packet \o NextPacket, room)
         IN  /\ read.left = NextPacket
             /\ read.ret = IF Len(packet) <= room THEN "SUCCESS" ELSE "BUFFER_TOO_SHORT"
             /\ read.ret = "SUCCESS" => read.buf = packet
             /\ get_mqtt_packet_len(r) - Len(packet) \in {0, 1}
  <1> DEFINE f == LengthField(r)
             d == Digits(r)
             body == [i \in 1..r |-> i]
             next == NextPacket
             rest == body \o next
             packet == Packet(r)
             field == f \o rest
             net == packet \o next
             header == <<48>> \o f
             out == _read_mqtt_packet(net, room)
  <1>1. r \in Nat
    BY RemLenIs, SMT
  <1>2. /\ f \in Seq(Nat) /\ Len(f) = d /\ d \in 1..4
    BY LengthFieldIs
  <1>3. /\ body \in Seq(Nat) /\ Len(body) = r
        /\ next \in Seq(Nat) /\ Len(next) = 2
        /\ rest \in Seq(Nat) /\ Len(rest) = r + 2
        /\ net = <<48>> \o field /\ net # <<>> /\ field \in Seq(Nat)
        /\ Len(header) = 1 + d /\ Len(packet) = 1 + d + r
        /\ packet = header \o body
    <2>1. packet = header \o body
      BY Zenon DEF Packet
    <2> HIDE DEF f
    <2>2. /\ body \in Seq(Nat) /\ Len(body) = r
          /\ next \in Seq(Nat) /\ Len(next) = 2
          /\ rest \in Seq(Nat) /\ Len(rest) = r + 2
          /\ (header \o body) \o next = <<48>> \o field
          /\ <<48>> \o field # <<>>
          /\ field \in Seq(Nat)
          /\ Len(header) = 1 + Len(f)
          /\ Len(header \o body) = 1 + Len(f) + r
      BY <1>1, <1>2, ThePacket, Zenon
    <2> HIDE DEF body, next, rest, field, header, packet, d
    <2> QED
      BY <1>2, <2>1, <2>2, Zenon
  <1>4. Unread(net, 1) = field /\ Read(net, 1) = <<48>>
    <2> DEFINE h == <<48>>
    <2>1. h \in Seq(Nat) /\ Len(h) = 1
      OBVIOUS
    <2> HIDE DEF field, net, h
    <2>2. Read(h \o field, Len(h)) = h /\ Unread(h \o field, Len(h)) = field
      BY <1>3, <2>1, ReadPart
    <2>3. net = h \o field
      BY <1>3 DEF h
    <2> QED
      BY <2>1, <2>2, <2>3 DEF h
  <1>5. FieldLen(field) = d
    BY <1>3, FieldLenIs
  <1>6. _decode_packet_rem_len_with_net_read(field) = r
    BY <1>3, DecodedIs
  <1>7. Unread(field, d) = rest
    <2> HIDE DEF f, rest, d
    <2> QED
      BY <1>2, <1>3, ReadPart, Zenon DEF field
  <1>8. Read(rest, r) = body /\ Unread(rest, r) = next
    <2> HIDE DEF body, next
    <2> QED
      BY <1>3, ReadPart, Zenon
  <1>9. mqtt_write_packet_rem_len(r) = f
    BY Encoded, Zenon
  <1>10. Discarded(rest, r, room) = r
    <2> HIDE DEF rest
    <2> QED
      BY <1>1, <1>3, DiscardedIs
  <1>11. r \in Nat /\ d \in Nat /\ d >= 1 /\ room \in Nat /\ room >= 2 /\ (r = 0 => d = 1)
    <2>1. r = 0 => d = 1
      BY <1>1, DigitsIs, SMT
    <2> QED
      BY <1>1, <1>2, <2>1
  <1> HIDE DEF f, d, body, next, rest, packet, field, net, header, out
  <1>12. /\ r >= room /\ ~(r < room) =>
              out = [ret |-> "BUFFER_TOO_SHORT", buf |-> <<>>, left |-> next]
         /\ r < room /\ ~(r >= room) /\ r > 0 /\ r # 0
            /\ (1 + d) + r > room /\ ~((1 + d) + r <= room) =>
              out = [ret |-> "BUFFER_TOO_SHORT", buf |-> <<>>, left |-> next]
         /\ r < room /\ ~(r >= room)
            /\ (\/ r = 0 /\ ~(r > 0)
                \/ (1 + d) + r <= room /\ ~((1 + d) + r > room)) =>
              out = [ret |-> "SUCCESS", buf |-> packet, left |-> next]
    <2> DEFINE F == Unread(net, 1)
               R == _decode_packet_rem_len_with_net_read(F)
               H == Read(net, 1) \o mqtt_write_packet_rem_len(R)
               B == Unread(F, FieldLen(F))
    <2>1. F = field /\ R = r /\ H = header /\ B = rest
      BY <1>4, <1>5, <1>6, <1>7, <1>9, Zenon DEF header
    <2>2. FieldLen(F) # 0 /\ FieldLen(F) > 0
      <3>1. FieldLen(F) = d
        BY <1>5, <2>1, Zenon
      <3> QED
        BY <1>11, <3>1
    <2>3. /\ R >= room /\ ~(R < room) =>
               out = [ret |-> "BUFFER_TOO_SHORT", buf |-> <<>>,
                      left |-> Unread(B, Discarded(B, R, room))]
          /\ R < room /\ ~(R >= room)
             /\ R > 0 /\ R # 0
             /\ Len(H) + R > room /\ ~(Len(H) + R <= room) =>
               out = [ret |-> "BUFFER_TOO_SHORT", buf |-> <<>>, left |-> Unread(B, R)]
          /\ R < room /\ ~(R >= room)
             /\ (\/ R = 0 /\ ~(R > 0)
                 \/ Len(H) + R <= room /\ ~(Len(H) + R > room))
             /\ B # <<>> =>
               out = [ret |-> "SUCCESS", buf |-> H \o Read(B, R), left |-> Unread(B, R)]
      BY <1>3, <2>2, ReadCases, ZenonT(60) DEF out
    <2>4. rest # <<>>
      BY <1>3, <1>11
    <2>5. Len(header) = 1 + d /\ header \o Read(rest, r) = packet
      BY <1>3, <1>8, Zenon
    <2> HIDE DEF F, R, H, B
    <2>6. /\ r >= room /\ ~(r < room) =>
               out = [ret |-> "BUFFER_TOO_SHORT", buf |-> <<>>,
                      left |-> Unread(rest, Discarded(rest, r, room))]
          /\ r < room /\ ~(r >= room)
             /\ r > 0 /\ r # 0
             /\ Len(header) + r > room /\ ~(Len(header) + r <= room) =>
               out = [ret |-> "BUFFER_TOO_SHORT", buf |-> <<>>, left |-> Unread(rest, r)]
          /\ r < room /\ ~(r >= room)
             /\ (\/ r = 0 /\ ~(r > 0)
                 \/ Len(header) + r <= room /\ ~(Len(header) + r > room))
             /\ rest # <<>> =>
               out = [ret |-> "SUCCESS", buf |-> header \o Read(rest, r),
                      left |-> Unread(rest, r)]
      <3>1. F = field /\ R = r /\ H = header /\ B = rest
        BY <2>1
      <3> QED
        BY <2>3, <3>1, SMT
    <2> QED
      BY <1>8, <1>10, <2>4, <2>5, <2>6, Zenon
  <1> DEFINE Kept == /\ out.left = next
                     /\ out.ret = IF Len(packet) <= room THEN "SUCCESS" ELSE "BUFFER_TOO_SHORT"
                     /\ out.ret = "SUCCESS" => out.buf = packet
  <1>13. Kept
    <2>1. CASE (1 + d) + r <= room
      <3>1. r < room /\ ~(r >= room) /\ ~((1 + d) + r > room)
        BY <1>11, <2>1
      <3>2. out = [ret |-> "SUCCESS", buf |-> packet, left |-> next]
        BY <1>12, <2>1, <3>1, Zenon
      <3>3. out.ret = "SUCCESS" /\ out.buf = packet /\ out.left = next
        BY <3>2, Zenon
      <3>4. Len(packet) <= room
        BY <1>3, <2>1
      <3> QED
        BY <3>3, <3>4, Zenon
    <2>2. CASE ~((1 + d) + r <= room)
      <3>1. \/ r >= room /\ ~(r < room)
            \/ r < room /\ ~(r >= room) /\ r > 0 /\ r # 0 /\ (1 + d) + r > room
        BY <1>11, <2>2
      <3>2. out = [ret |-> "BUFFER_TOO_SHORT", buf |-> <<>>, left |-> next]
        BY <1>12, <2>2, <3>1, Zenon
      <3>3. out.ret = "BUFFER_TOO_SHORT" /\ out.left = next
        BY <3>2, Zenon
      <3>4. ~(Len(packet) <= room)
        BY <1>3, <2>2
      <3>5. "BUFFER_TOO_SHORT" # "SUCCESS"
        OBVIOUS
      <3> QED
        BY <3>3, <3>4, <3>5, Zenon
    <2> QED
      BY <2>1, <2>2
  <1>14. get_mqtt_packet_len(r) - Len(packet) \in {0, 1}
    <2>1. Len(packet) = 1 + Digits(r) + r
      BY <1>3, Zenon DEF d
    <2> QED
      BY <2>1, TakenLength, Zenon
  <1> QED
    BY <1>13, <1>14, Zenon DEF out, net, packet, next

----------------------------------------------------------------------------
(* Where the pieces are that FlattenSeq joins.                             *)

LEMMA InTwo ==
  ASSUME NEW T, NEW a \in Seq(T), NEW b \in Seq(T)
  PROVE  /\ Len(a \o b) = Len(a) + Len(b)
         /\ \A i \in 1..Len(a) : (a \o b)[i] = a[i]
         /\ \A i \in 1..Len(b) : (a \o b)[Len(a) + i] = b[i]
  <1> DEFINE n == Len(a)
             m == Len(b)
             c == a \o b
  <1>1. n \in Nat /\ m \in Nat
    BY LenProperties
  <1>2. /\ Len(c) = n + m
        /\ \A i \in 1..(n + m) : c[i] = IF i <= n THEN a[i] ELSE b[i - n]
    BY ConcatProperties
  <1> HIDE DEF n, m, c
  <1>3. \A i \in 1..n : c[i] = a[i]
    BY <1>1, <1>2
  <1>4. ASSUME NEW i \in 1..m
        PROVE  c[n + i] = b[i]
    <2>1. n + i \in 1..(n + m) /\ ~(n + i <= n) /\ (n + i) - n = i
      BY <1>1
    <2> QED
      BY <1>2, <2>1
  <1> QED
    BY <1>2, <1>3, <1>4 DEF n, m, c

(* What is in front of each piece of s.                                    *)
Fronts(s) ==
  {q \in [0..Len(s) -> Nat] :
     /\ q[0] = 0
     /\ Len(FlattenSeq(s)) = q[Len(s)]
     /\ \A i \in 1..Len(s) :
          /\ q[i] = q[i - 1] + Len(s[i])
          /\ q[i] <= q[Len(s)]
          /\ \A j \in 1..Len(s[i]) : FlattenSeq(s)[q[i - 1] + j] = s[i][j]}

LEMMA FrontsExist ==
  ASSUME NEW T, NEW s \in Seq(Seq(T))
  PROVE  \E q \in Fronts(s) : TRUE
  <1> DEFINE n == Len(s)
  <1>1. n \in Nat /\ \A i \in 1..n : s[i] \in Seq(T) /\ Len(s[i]) \in Nat
    <2>1. n \in Nat /\ \A i \in 1..n : s[i] \in Seq(T)
      BY ElementOfSeq, LenProperties
    <2> QED
      BY <2>1, LenProperties
  <1>2. PICK g \in [0..n -> Seq(T)] :
          /\ g[0] = <<>>
          /\ \A i \in 1..n : g[i] = g[i - 1] \o s[i]
          /\ FlattenSeq(s) = g[n]
    BY Flatten
  <1> DEFINE q == [i \in 0..n |-> Len(g[i])]
  <1> HIDE DEF n
  <1>3. q \in [0..n -> Nat] /\ q[0] = 0
    <2>1. \A i \in 0..n : Len(g[i]) \in Nat
      BY LenProperties
    <2>2. 0 \in 0..n /\ Len(g[0]) = 0
      BY <1>1, <1>2, EmptySeq
    <2> QED
      BY <2>1, <2>2
  <1>4. ASSUME NEW i \in 1..n
        PROVE  /\ i \in 0..n /\ i - 1 \in 0..n
               /\ q[i] = q[i - 1] + Len(s[i])
               /\ \A j \in 1..q[i - 1] : g[i][j] = g[i - 1][j]
               /\ \A j \in 1..Len(s[i]) : g[i][q[i - 1] + j] = s[i][j]
    <2>1. i \in 0..n /\ i - 1 \in 0..n
      BY <1>1
    <2> DEFINE a == g[i - 1]
               b == s[i]
    <2>2. a \in Seq(T) /\ b \in Seq(T) /\ g[i] = a \o b
      BY <1>1, <1>2, <2>1
    <2>3. q[i] = Len(g[i]) /\ q[i - 1] = Len(a)
      BY <2>1
    <2> HIDE DEF a, b, q
    <2>4. /\ Len(a \o b) = Len(a) + Len(b)
          /\ \A j \in 1..Len(a) : (a \o b)[j] = a[j]
          /\ \A j \in 1..Len(b) : (a \o b)[Len(a) + j] = b[j]
      BY <2>2, InTwo
    <2> QED
      BY <2>1, <2>2, <2>3, <2>4, Zenon DEF a, b
  <1> DEFINE At(k) == \A i \in 1..k : /\ q[i] <= q[k]
                                      /\ \A j \in 1..Len(s[i]) : g[k][q[i - 1] + j] = s[i][j]
             S == {k \in 0..n : At(k)}
  <1> HIDE DEF q
  <1>5. 0 \in S
    BY <1>1
  <1>6. ASSUME NEW k \in 0..(n - 1), k \in S
        PROVE  k + 1 \in S
    <2>1. k + 1 \in 1..n /\ (k + 1) - 1 = k /\ k \in 0..n
      BY <1>1
    <2>2. /\ q[k + 1] = q[k] + Len(s[k + 1])
          /\ \A j \in 1..q[k] : g[k + 1][j] = g[k][j]
          /\ \A j \in 1..Len(s[k + 1]) : g[k + 1][q[k] + j] = s[k + 1][j]
      BY <1>4, <2>1
    <2>3. q[k] \in Nat /\ q[k + 1] \in Nat /\ Len(s[k + 1]) \in Nat
      BY <1>1, <1>3, <2>1
    <2>4. ASSUME NEW i \in 1..k
          PROVE  /\ q[i] <= q[k + 1]
                 /\ \A j \in 1..Len(s[i]) : g[k + 1][q[i - 1] + j] = s[i][j]
      <3>1. i \in 1..n /\ i \in 0..n /\ i - 1 \in 0..n
        <4>1. n \in Nat /\ k \in 0..n
          BY <1>1, <2>1
        <4> QED
          BY ONLY <4>1, i \in 1..k
      <3>2. q[i] \in Nat /\ q[i - 1] \in Nat /\ q[i] = q[i - 1] + Len(s[i]) /\ Len(s[i]) \in Nat
        BY <1>1, <1>3, <1>4, <3>1
      <3>3. q[i] <= q[k] /\ \A j \in 1..Len(s[i]) : g[k][q[i - 1] + j] = s[i][j]
        BY <1>6
      <3>4. ASSUME NEW j \in 1..Len(s[i])
            PROVE  g[k + 1][q[i - 1] + j] = s[i][j]
        <4>1. q[i - 1] + j \in 1..q[k]
          <5>1. q[i - 1] + j <= q[i] /\ q[i] <= q[k] /\ q[i - 1] + j \in Nat /\ q[i - 1] + j >= 1
            BY <3>2, <3>3
          <5> QED
            BY ONLY <2>3, <3>2, <5>1, SMTT(30)
        <4> QED
          BY <2>2, <3>3, <4>1
      <3> QED
        BY <2>2, <2>3, <3>2, <3>3, <3>4, SMTT(30)
    <2>5. \A i \in 1..(k + 1) : i \in 1..k \/ i = k + 1
      BY <2>1
    <2>6. q[k + 1] <= q[k + 1]
      BY <2>3
    <2>7. At(k + 1)
      BY <2>1, <2>2, <2>4, <2>5, <2>6, Zenon
    <2>8. k + 1 \in 0..n
      BY <2>1
    <2> QED
      BY <2>7, <2>8
  <1> HIDE DEF S
  <1>7. n \in S
    <2>1. n \in 0..n
      BY <1>1
    <2>2. \A i \in 0..n : i \in S
      BY <1>1, <1>5, <1>6, UpTo
    <2> QED
      BY <2>1, <2>2
  <1>8. Len(FlattenSeq(s)) = q[n]
    <2>1. n \in 0..n
      BY <1>1
    <2> QED
      BY <1>2, <2>1 DEF q
  <1>9. \A i \in 1..n : /\ q[i] <= q[n]
                        /\ \A j \in 1..Len(s[i]) : FlattenSeq(s)[q[i - 1] + j] = s[i][j]
    BY <1>2, <1>7, Zenon DEF S
  <1>10. q \in Fronts(s)
    BY <1>3, <1>4, <1>8, <1>9, Zenon DEF Fronts, n
  <1> QED
    BY <1>10

----------------------------------------------------------------------------
(* The characters of a topic, level by level. *)

Char == STRING \cup {"/", "+", "#"}

LEMMA InTwoChars ==
  ASSUME NEW a \in Seq(Char), NEW b \in Seq(Char)
  PROVE  /\ Len(a \o b) = Len(a) + Len(b)
         /\ \A i \in 1..Len(a) : (a \o b)[i] = a[i]
         /\ \A i \in 1..Len(b) : (a \o b)[Len(a) + i] = b[i]
  BY InTwo

(* What is in front of each level.                                         *)
Layouts(levels) ==
  {p \in [1..Len(levels) -> Nat] :
     LET text == Written(levels)
         Past(i) == p[i] + Len(levels[i])
     IN  /\ p[1] = 0
         /\ Len(text) = Past(Len(levels))
         /\ \A i \in 1..(Len(levels) - 1) : /\ p[i + 1] = Past(i) + 1
                                            /\ text[Past(i) + 1] = "/"
         /\ \A i \in 1..Len(levels) :
              /\ Past(i) <= Len(text)
              /\ \A j \in 1..Len(levels[i]) : text[p[i] + j] = levels[i][j]}

LEMMA LayoutsExist ==
  ASSUME NEW levels \in Seq(Seq(Char)), Len(levels) # 0
  PROVE  Written(levels) \in Seq(Char) /\ \E p \in Layouts(levels) : TRUE
  <1> DEFINE n == Len(levels)
             s == [i \in 1..n |-> (IF i = 1 THEN <<>> ELSE <<"/">>) \o levels[i]]
             text == Written(levels)
  <1>1. n \in Nat /\ n >= 1
    BY LenProperties
  <1>2. ASSUME NEW i \in 1..n
        PROVE  levels[i] \in Seq(Char) /\ Len(levels[i]) \in Nat
    <2>1. levels[i] \in Seq(Char)
      BY ElementOfSeq
    <2> QED
      BY <2>1, LenProperties
  <1>3. <<"/">> \in Seq(Char) /\ Len(<<"/">>) = 1 /\ <<"/">>[1] = "/"
    <2>1. "/" \in Char
      BY Zenon DEF Char
    <2> HIDE DEF n, s, text
    <2> QED
      BY ONLY <2>1
  <1> HIDE DEF n
  <1>4. ASSUME NEW i \in 1..n
        PROVE  /\ s[i] \in Seq(Char)
               /\ Len(s[i]) = Len(levels[i]) + (IF i = 1 THEN 0 ELSE 1)
               /\ i # 1 => s[i][1] = "/"
               /\ \A j \in 1..Len(levels[i]) :
                    s[i][(IF i = 1 THEN 0 ELSE 1) + j] = levels[i][j]
    <2> DEFINE b == levels[i]
    <2>1. b \in Seq(Char) /\ Len(b) \in Nat
      BY <1>2
    <2>2. CASE i = 1
      <3>1. s[i] = <<>> \o b
        BY <2>2
      <3>2. <<>> \o b = b
        BY <2>1, ConcatEmptySeq
      <3> HIDE DEF s, b
      <3>3. s[i] = b /\ \A j \in 1..Len(b) : 0 + j = j
        BY <2>1, <3>1, <3>2
      <3>4. Len(b) = Len(b) + 0
        BY <2>1
      <3> QED
        BY <2>1, <2>2, <3>3, <3>4, Zenon DEF b
    <2>3. CASE i # 1
      <3> DEFINE a == <<"/">>
      <3>1. s[i] = a \o b
        BY <2>3
      <3> HIDE DEF s, a, b
      <3>2. a \in Seq(Char) /\ Len(a) = 1 /\ a[1] = "/"
        BY <1>3 DEF a
      <3>3. /\ a \o b \in Seq(Char)
            /\ Len(a \o b) = Len(a) + Len(b)
            /\ \A j \in 1..Len(a) : (a \o b)[j] = a[j]
            /\ \A j \in 1..Len(b) : (a \o b)[Len(a) + j] = b[j]
        <4>1. a \o b \in Seq(Char)
          BY <2>1, <3>2, ConcatProperties, Zenon
        <4>2. /\ Len(a \o b) = Len(a) + Len(b)
              /\ \A j \in 1..Len(a) : (a \o b)[j] = a[j]
              /\ \A j \in 1..Len(b) : (a \o b)[Len(a) + j] = b[j]
          BY <2>1, <3>2, InTwoChars, Zenon
        <4> QED
          BY <4>1, <4>2
      <3>4. Len(a) + Len(b) = Len(b) + 1 /\ 1 \in 1..Len(a)
        BY <2>1, <3>2
      <3> QED
        BY <2>3, <3>1, <3>2, <3>3, <3>4, Zenon DEF b
    <2> QED
      BY <2>2, <2>3
  <1>5. text = FlattenSeq(s)
    BY Zenon DEF Written, Joined, n
  <1>6. s \in Seq(Seq(Char)) /\ Len(s) = n
    <2>1. s = [i \in 1..n |-> s[i]]
      OBVIOUS
    <2> HIDE DEF s
    <2>2. s \in [1..n -> Seq(Char)]
      BY <1>4, <2>1
    <2> DEFINE T == Seq(Char)
    <2> HIDE DEF T
    <2>3. s \in [1..n -> T]
      BY <2>2 DEF T
    <2>4. s \in Seq(T) /\ Len(s) = n
      BY <1>1, <2>3, IsSeq
    <2> QED
      BY <2>4 DEF T
  <1> HIDE DEF s, text
  <1>7. text \in Seq(Char)
    BY <1>5, <1>6, FlattenType
  <1>8. PICK q \in [0..n -> Nat] :
          /\ q[0] = 0
          /\ Len(text) = q[n]
          /\ \A i \in 1..n : /\ q[i] = q[i - 1] + Len(s[i])
                             /\ q[i] <= q[n]
                             /\ \A j \in 1..Len(s[i]) : text[q[i - 1] + j] = s[i][j]
    <2>1. PICK q \in Fronts(s) : TRUE
      BY <1>6, FrontsExist
    <2> QED
      BY <1>5, <1>6, <2>1 DEF Fronts
  <1> DEFINE p == [i \in 1..n |-> IF i = 1 THEN 0 ELSE q[i - 1] + 1]
  <1>9. ASSUME NEW i \in 1..n
        PROVE  /\ p[i] = q[i - 1] + (IF i = 1 THEN 0 ELSE 1)
               /\ p[i] \in Nat
               /\ p[i] + Len(levels[i]) = q[i]
               /\ p[i] + Len(levels[i]) <= Len(text)
               /\ \A j \in 1..Len(levels[i]) : text[p[i] + j] = levels[i][j]
    <2> DEFINE o == IF i = 1 THEN 0 ELSE 1
    <2>1. i - 1 \in 0..n /\ i \in 0..n /\ o \in Nat /\ (i = 1 => i - 1 = 0)
      BY <1>1
    <2>2. p[i] = q[i - 1] + o
      BY <1>8, <2>1
    <2>3. q[i - 1] \in Nat /\ q[i] \in Nat /\ q[n] \in Nat
      BY <1>1, <1>8, <2>1
    <2>4. Len(s[i]) = Len(levels[i]) + o /\ Len(levels[i]) \in Nat
      BY <1>2, <1>4
    <2>5. q[i] = q[i - 1] + Len(s[i]) /\ q[i] <= q[n]
      BY <1>8
    <2>6. ASSUME NEW j \in 1..Len(levels[i])
          PROVE  text[p[i] + j] = levels[i][j]
      <3>1. s[i][o + j] = levels[i][j]
        BY <1>4
      <3>2. o + j \in 1..Len(s[i]) /\ p[i] + j = q[i - 1] + (o + j)
        <4> DEFINE a == q[i - 1]
                   b == Len(levels[i])
                   c == Len(s[i])
                   d == p[i]
        <4>1. a \in Nat /\ b \in Nat /\ c = b + o /\ d = a + o /\ o \in Nat /\ j \in 1..b
          BY <2>1, <2>2, <2>3, <2>4
        <4> HIDE DEF a, b, c, d, o
        <4>2. o + j \in 1..c /\ d + j = a + (o + j)
          BY ONLY <4>1
        <4> QED
          BY <4>2 DEF a, c, d
      <3>3. text[q[i - 1] + (o + j)] = s[i][o + j]
        BY <1>8, <3>2, Zenon
      <3> QED
        BY <3>1, <3>2, <3>3, Zenon
    <2> HIDE DEF p, o
    <2>7. /\ p[i] \in Nat /\ p[i] + Len(levels[i]) = q[i]
          /\ p[i] + Len(levels[i]) <= Len(text)
      <3> DEFINE a == q[i - 1]
                 e == q[i]
                 b == Len(levels[i])
                 c == Len(s[i])
                 d == p[i]
                 l == Len(text)
      <3>1. a \in Nat /\ b \in Nat /\ o \in Nat /\ d = a + o /\ c = b + o /\ e = a + c
        BY <2>1, <2>2, <2>3, <2>4, <2>5, Zenon
      <3>2. e \in Nat /\ e <= l
        BY <1>8, <2>3, <2>5, Zenon
      <3> HIDE DEF a, b, c, d, e, l, o
      <3>3. d \in Nat /\ d + b = e
        BY ONLY <3>1, SMT
      <3> QED
        BY <3>2, <3>3, Zenon DEF a, b, c, d, e, l
    <2> QED
      BY <2>2, <2>6, <2>7 DEF o
  <1>10. p \in [1..n -> Nat]
    <2>1. \A i \in 1..n : p[i] \in Nat
      BY <1>9
    <2>2. p = [i \in 1..n |-> p[i]]
      OBVIOUS
    <2> HIDE DEF p
    <2> QED
      BY <2>1, <2>2
  <1>11. p[1] = 0
    BY <1>1
  <1> HIDE DEF p
  <1>12. ASSUME NEW i \in 1..(n - 1)
         PROVE  p[i + 1] = p[i] + Len(levels[i]) + 1 /\ text[p[i] + Len(levels[i]) + 1] = "/"
    <2>1. i \in 1..n /\ i + 1 \in 1..n /\ (i + 1) - 1 = i /\ i + 1 # 1
      BY <1>1
    <2>2. p[i + 1] = q[i] + 1
      BY <1>9, <2>1
    <2>3. p[i] + Len(levels[i]) = q[i]
      BY <1>9, <2>1
    <2>4. 1 \in 1..Len(s[i + 1]) /\ s[i + 1][1] = "/"
      <3>1. Len(s[i + 1]) = Len(levels[i + 1]) + 1 /\ Len(levels[i + 1]) \in Nat
        BY <1>2, <1>4, <2>1, Zenon
      <3>2. s[i + 1][1] = "/"
        BY <1>4, <2>1, Zenon
      <3> QED
        BY <3>1, <3>2
    <2>5. text[q[i] + 1] = "/"
      BY <1>8, <2>1, <2>4
    <2> QED
      BY <2>2, <2>3, <2>5
  <1>13. Len(text) = p[n] + Len(levels[n])
    BY <1>1, <1>8, <1>9
  <1>14. p \in Layouts(levels)
    BY <1>9, <1>10, <1>11, <1>12, <1>13, Zenon DEF Layouts, text, n
  <1> QED
    BY <1>7, <1>14, Zenon DEF text

----------------------------------------------------------------------------
(* The turns of the loop. *)

LEMMA LevelEndIs ==
  ASSUME NEW text, NEW n \in Nat, NEW e \in Nat, Len(text) \in Nat,
         n < e, e <= Len(text) + 1,
         \A k \in (n + 1)..(e - 1) : text[k] # "/",
         e <= Len(text) => text[e] = "/"
  PROVE  LevelEnd(text, n) = e
  <1> DEFINE I == {i \in (n + 1)..Len(text) : text[i] = "/"}
             slash == IF I # {} THEN Min(I) ELSE 0
             l == Len(text)
  <1>1. LevelEnd(text, n) = IF slash = 0 THEN l + 1 ELSE slash
    BY Zenon DEF LevelEnd, SelectInSubSeq
  <1>2. \A i \in I : i \in Nat /\ e <= i
    <2>1. ASSUME NEW i \in I
          PROVE  i \in Nat /\ e <= i
      <3>1. i \in Nat /\ n + 1 <= i /\ text[i] = "/"
        OBVIOUS
      <3>2. i < e => i \in (n + 1)..(e - 1)
        BY <3>1
      <3> QED
        BY <3>1, <3>2
    <2> QED
      BY <2>1
  <1>3. CASE e <= l
    <2>1. e \in I
      BY <1>3
    <2> HIDE DEF I
    <2>2. Min(I) \in I /\ \A y \in I : Min(I) <= y
      BY <1>2, <2>1, Zenon DEF Min
    <2> DEFINE m == Min(I)
    <2>3. m \in Nat /\ e <= m /\ m <= e
      BY <1>2, <2>1, <2>2, Zenon
    <2> HIDE DEF m
    <2>4. m = e /\ m # 0
      BY ONLY <2>3, e \in Nat, n \in Nat, n < e
    <2>5. slash = m
      BY <2>1, Zenon DEF m
    <2> HIDE DEF slash
    <2> QED
      BY <1>1, <2>4, <2>5, Zenon
  <1>4. CASE ~(e <= l)
    <2>1. l + 1 = e
      BY <1>4
    <2>2. I = {}
      <3>1. \A i \in I : i <= l /\ e <= i /\ i \in Nat
        BY <1>2
      <3> HIDE DEF I
      <3> QED
        BY <2>1, <3>1
    <2>3. slash = 0
      BY <2>2, Zenon
    <2> HIDE DEF slash
    <2> QED
      BY <1>1, <2>1, <2>3, Zenon
  <1> QED
    BY <1>3, <1>4

(* A turn, case by case.                                                   *)
LEMMA TurnOut ==
  ASSUME NEW F, NEW T, NEW at, at.f > Len(F) \/ at.n > Len(T)
  PROVE  Turn(F, T, at) = at
  BY Zenon DEF Turn

LEMMA TurnIs ==
  ASSUME NEW F, NEW T, NEW at, ~(at.f > Len(F)), ~(at.n > Len(T))
  PROVE  LET curf  == F[at.f]
             curn  == T[at.n]
             apart == (curn = "/" /\ curf # "/") \/ curf \notin {"+", "#", curn}
             to    == CASE curf = "+" -> LevelEnd(T, at.n)
                        [] curf = "#" -> Len(T) + 1
                        [] curf \notin {"+", "#"} -> at.n + 1
         IN  Turn(F, T, at) = IF curf = "+" /\ curn = "/" THEN [f |-> at.f + 1, n |-> at.n]
                              ELSE IF apart THEN at
                              ELSE [f |-> at.f + 1, n |-> to]
  BY Zenon DEF Turn

LEMMA TurnPlusEmpty ==
  ASSUME NEW F, NEW T, NEW at, ~(at.f > Len(F)), ~(at.n > Len(T)),
         F[at.f] = "+", T[at.n] = "/"
  PROVE  Turn(F, T, at) = [f |-> at.f + 1, n |-> at.n]
  BY TurnIs, Zenon

LEMMA TurnPlus ==
  ASSUME NEW F, NEW T, NEW at, ~(at.f > Len(F)), ~(at.n > Len(T)),
         F[at.f] = "+", T[at.n] # "/"
  PROVE  Turn(F, T, at) = [f |-> at.f + 1, n |-> LevelEnd(T, at.n)]
  <1> "+" # "#"
    OBVIOUS
  <1> QED
    BY TurnIs, Zenon

LEMMA TurnHash ==
  ASSUME NEW F, NEW T, NEW at, ~(at.f > Len(F)), ~(at.n > Len(T)),
         F[at.f] = "#"
  PROVE  Turn(F, T, at) \in {at, [f |-> at.f + 1, n |-> Len(T) + 1]}
  <1> "+" # "#"
    OBVIOUS
  <1> QED
    BY TurnIs, Zenon

LEMMA TurnApart ==
  ASSUME NEW F, NEW T, NEW at, ~(at.f > Len(F)), ~(at.n > Len(T)),
         F[at.f] \notin {"+", "#"}, F[at.f] # T[at.n]
  PROVE  Turn(F, T, at) = at
  BY TurnIs, Zenon

LEMMA TurnEqual ==
  ASSUME NEW F, NEW T, NEW at, ~(at.f > Len(F)), ~(at.n > Len(T)),
         F[at.f] \notin {"+", "#"}, F[at.f] = T[at.n]
  PROVE  Turn(F, T, at) = [f |-> at.f + 1, n |-> at.n + 1]
  <1> DEFINE curf  == F[at.f]
             curn  == T[at.n]
             apart == (curn = "/" /\ curf # "/") \/ curf \notin {"+", "#", curn}
             to    == CASE curf = "+" -> LevelEnd(T, at.n)
                        [] curf = "#" -> Len(T) + 1
                        [] curf \notin {"+", "#"} -> at.n + 1
  <1>1. Turn(F, T, at) = IF curf = "+" /\ curn = "/" THEN [f |-> at.f + 1, n |-> at.n]
                         ELSE IF apart THEN at
                         ELSE [f |-> at.f + 1, n |-> to]
    BY TurnIs, Zenon
  <1>2. curf \notin {"+", "#"} /\ curf # "+" /\ curf = curn
    OBVIOUS
  <1> HIDE DEF curf, curn
  <1>3. ~apart
    BY <1>2, Zenon
  <1>4. to = at.n + 1
    BY <1>2, Zenon
  <1> HIDE DEF apart, to
  <1> QED
    BY <1>1, <1>2, <1>3, <1>4, Zenon

(* The turns stay in a set that no turn leaves, and come to a stand.       *)
LEMMA ComparedStands ==
  ASSUME NEW F, NEW T, NEW Good, Len(F) \in Nat,
         [f |-> 1, n |-> 1] \in Good,
         \A at \in Good : /\ at = [f |-> at.f, n |-> at.n] /\ at.f \in Nat
                          /\ Turn(F, T, at) \in Good
                          /\ Turn(F, T, at) = at \/ Turn(F, T, at).f = at.f + 1
  PROVE  Compared(F, T) \in Good /\ Turn(F, T, Compared(F, T)) = Compared(F, T)
  <1> DEFINE l == Len(F)
             b == [f |-> 1, n |-> 1]
             G == [p \in Good \X (1..l) |-> Turn(F, T, p[1])]
             Is(g) == g = [i \in 0..l |-> IF i = 0 THEN b ELSE Turn(F, T, g[i - 1])]
             e == CHOOSE g : Is(g)
  <1>1. \A a \in Good, i \in 1..l : G[<<a, i>>] = Turn(F, T, a) /\ G[<<a, i>>] \in Good
    <2>1. ASSUME NEW a \in Good, NEW i \in 1..l
          PROVE  G[<<a, i>>] = Turn(F, T, a)
      OBVIOUS
    <2> HIDE DEF G
    <2> QED
      BY <2>1
  <1>2. b \in Good
    OBVIOUS
  <1> HIDE DEF G, l, b
  <1>3. PICK h \in Loops(l, Good, b, G) : TRUE
    BY <1>1, <1>2, LoopExists DEF l
  <1>4. h \in [0..l -> Good] /\ \A i \in 0..l : h[i] = IF i = 0 THEN b ELSE G[<<h[i - 1], i>>]
    BY <1>3 DEF Loops
  <1>5. l \in Nat
    BY DEF l
  <1>6. ASSUME NEW i \in 0..l
        PROVE  h[i] = IF i = 0 THEN b ELSE Turn(F, T, h[i - 1])
    <2>1. CASE i = 0
      BY <1>4, <2>1, Zenon
    <2>2. CASE i # 0
      <3>1. i \in 1..l /\ i - 1 \in 0..l
        BY <1>5, <2>2
      <3>2. h[i - 1] \in Good
        BY <1>4, <3>1
      <3> QED
        BY <1>1, <1>4, <2>2, <3>1, <3>2, Zenon
    <2> QED
      BY <2>1, <2>2
  <1>7. Is(h)
    <2>1. h = [i \in 0..l |-> h[i]]
      BY <1>4
    <2> QED
      BY <1>6, <2>1, Zenon
  <1>8. \E g : Is(g)
    BY <1>7, Zenon
  <1>9. Is(e)
    BY <1>8, Zenon
  <1>10. Compared(F, T) = e[l]
    BY Zenon DEF Compared, Turns, l, b
  <1> HIDE DEF e
  <1>11. \A i \in 0..l : e[i] = IF i = 0 THEN b ELSE Turn(F, T, e[i - 1])
    BY <1>9, Zenon
  <1> DEFINE S == {i \in 0..l : /\ e[i] \in Good
                                /\ e[i].f = i + 1 \/ Turn(F, T, e[i]) = e[i]}
  <1>12. 0 \in S
    <2>1. 0 \in 0..l /\ 0 + 1 = 1
      BY <1>5
    <2>2. e[0] = b
      BY <1>11, <2>1, Zenon
    <2>3. b.f = 1
      BY Zenon DEF b
    <2> QED
      BY <1>2, <2>1, <2>2, <2>3, Zenon
  <1>13. ASSUME NEW i \in 0..(l - 1), i \in S
         PROVE  i + 1 \in S
    <2>1. i + 1 \in 0..l /\ i + 1 # 0 /\ (i + 1) - 1 = i
      BY <1>5
    <2>2. e[i + 1] = Turn(F, T, e[i])
      BY <1>11, <2>1, Zenon
    <2>3. /\ e[i] \in Good
          /\ e[i].f = i + 1 \/ Turn(F, T, e[i]) = e[i]
      BY <1>13, Zenon
    <2>4. e[i + 1] \in Good /\ (e[i + 1] = e[i] \/ e[i + 1].f = e[i].f + 1)
      BY <2>2, <2>3, Zenon
    <2>5. e[i + 1].f = (i + 1) + 1 \/ Turn(F, T, e[i + 1]) = e[i + 1]
      BY <2>2, <2>3, <2>4, Zenon
    <2> QED
      BY <2>1, <2>4, <2>5, Zenon
  <1> HIDE DEF S
  <1>14. l \in S
    <2>1. l \in 0..l
      BY <1>5
    <2>2. \A i \in 0..l : i \in S
      BY <1>5, <1>12, <1>13, UpTo
    <2> QED
      BY <2>1, <2>2
  <1>15. e[l] \in Good /\ (e[l].f = l + 1 \/ Turn(F, T, e[l]) = e[l])
    BY <1>14, Zenon DEF S
  <1>16. e[l].f = l + 1 => Turn(F, T, e[l]) = e[l]
    <2>1. e[l].f = l + 1 => e[l].f > Len(F)
      BY <1>5 DEF l
    <2> QED
      BY <2>1, TurnOut, Zenon
  <1> QED
    BY <1>10, <1>15, <1>16, Zenon

----------------------------------------------------------------------------
(* When a topic is taken for one of a filter. *)

(* What the places f and n say where the loop ends.                        *)
Taken(F, T, at) ==
  IF at.f > Len(F) THEN at.n = Len(T) + 1
  ELSE \/ F[at.f] = "#"
       \/ at.f + 1 <= Len(F) /\ F[at.f + 1] = "#"
       \/ F[at.f] = "+" /\ T[at.n - 1] = "/"

LEMMA MatchedIsTaken ==
  ASSUME NEW F, NEW T, Len(F) \in Nat, Compared(F, T).f \in Nat
  PROVE  _is_topic_matched(F, T) <=> Taken(F, T, Compared(F, T))
  <1> DEFINE end == Compared(F, T)
  <1>1. end.f > Len(F) => (_is_topic_matched(F, T) <=> end.n = Len(T) + 1)
    BY Zenon DEF _is_topic_matched
  <1>2. ~(end.f > Len(F)) =>
          (_is_topic_matched(F, T) <=> \/ end.f <= Len(F) /\ F[end.f] = "#"
                                       \/ end.f + 1 <= Len(F) /\ F[end.f + 1] = "#"
                                       \/ (end.f <= Len(F) /\ F[end.f] = "+") /\ T[end.n - 1] = "/")
    BY Zenon DEF _is_topic_matched
  <1>3. ~(end.f > Len(F)) => end.f <= Len(F)
    OBVIOUS
  <1> HIDE DEF end
  <1>4. CASE end.f > Len(F)
    BY <1>1, <1>4, Zenon DEF Taken, end
  <1>5. CASE ~(end.f > Len(F))
    <2>1. Taken(F, T, end) <=> \/ F[end.f] = "#"
                               \/ end.f + 1 <= Len(F) /\ F[end.f + 1] = "#"
                               \/ F[end.f] = "+" /\ T[end.n - 1] = "/"
      BY <1>5, Zenon DEF Taken
    <2> QED
      BY <1>2, <1>3, <1>5, <2>1, Zenon DEF end
  <1> QED
    BY <1>4, <1>5

(* A filter without wildcards takes no topic but itself.                   *)
LEMMA PlainFilter ==
  ASSUME NEW F \in Seq(Char), NEW T \in Seq(Char),
         \A i \in 1..Len(F) : F[i] \notin {"+", "#"}
  PROVE  _is_topic_matched(F, T) <=> _is_topic_equals(F, T)
  <1> DEFINE l == Len(F)
             k == Len(T)
             Good == {at \in [f : Nat, n : Nat] :
                        /\ at.f = at.n /\ at.f >= 1 /\ at.f <= l + 1 /\ at.f <= k + 1
                        /\ \A i \in 1..(at.f - 1) : F[i] = T[i]}
             e == Compared(F, T)
             start == [f |-> 1, n |-> 1]
  <1>1. l \in Nat /\ k \in Nat
    BY LenProperties
  <1>2. \A at : at \in Good <=> /\ at \in [f : Nat, n : Nat]
                                /\ at.f = at.n /\ at.f >= 1 /\ at.f <= l + 1 /\ at.f <= k + 1
                                /\ \A i \in 1..(at.f - 1) : F[i] = T[i]
    OBVIOUS
  <1> HIDE DEF Good, l, k
  <1>3. start \in Good
    <2>1. start \in [f : Nat, n : Nat] /\ start.f = 1 /\ start.n = 1
      OBVIOUS
    <2>2. 1 >= 1 /\ 1 <= l + 1 /\ 1 <= k + 1 /\ \A i \in 1..(1 - 1) : F[i] = T[i]
      BY <1>1
    <2> HIDE DEF start
    <2> QED
      BY <1>2, <2>1, <2>2
  <1>4. ASSUME NEW at \in Good
        PROVE  /\ at = [f |-> at.f, n |-> at.n] /\ at.f \in Nat
               /\ Turn(F, T, at) \in Good
               /\ Turn(F, T, at) = at \/ Turn(F, T, at).f = at.f + 1
               /\ Turn(F, T, at) = at =>
                    at.f > l \/ at.n > k \/ F[at.f] # T[at.n]
    <2>1. /\ at \in [f : Nat, n : Nat] /\ at.f = at.n /\ at.f >= 1
          /\ at.f <= l + 1 /\ at.f <= k + 1
          /\ \A i \in 1..(at.f - 1) : F[i] = T[i]
      BY <1>2, Zenon
    <2>2. at = [f |-> at.f, n |-> at.n] /\ at.f \in Nat /\ at.n \in Nat
      BY <2>1
    <2>3. CASE at.f > l \/ at.n > k
      <3>1. Turn(F, T, at) = at
        BY <2>3, TurnOut, Zenon DEF l, k
      <3> QED
        BY <2>2, <2>3, <3>1, Zenon
    <2>4. CASE ~(at.f > l \/ at.n > k)
      <3>1. ~(at.f > Len(F)) /\ ~(at.n > Len(T)) /\ F[at.f] \notin {"+", "#"}
        <4>1. at.f \in 1..Len(F)
          BY <1>1, <2>1, <2>2, <2>4 DEF l
        <4> QED
          BY <2>4, <4>1, Zenon DEF l, k
      <3>2. CASE F[at.f] # T[at.n]
        <4>1. Turn(F, T, at) = at
          BY <3>1, <3>2, TurnApart, Zenon
        <4> QED
          BY <2>2, <3>2, <4>1, Zenon
      <3>3. CASE F[at.f] = T[at.n]
        <4> DEFINE to == [f |-> at.f + 1, n |-> at.n + 1]
        <4>1. Turn(F, T, at) = to
          BY <3>1, <3>3, TurnEqual, Zenon
        <4>2. to \in [f : Nat, n : Nat] /\ to.f = at.f + 1 /\ to.n = at.n + 1
          BY <2>2
        <4> HIDE DEF to
        <4>3. /\ to.f = to.n /\ to.f >= 1 /\ to.f <= l + 1 /\ to.f <= k + 1
          BY <1>1, <2>1, <2>2, <2>4, <4>2
        <4>4. \A i \in 1..(to.f - 1) : F[i] = T[i]
          <5>1. \A i \in 1..(to.f - 1) : i \in 1..(at.f - 1) \/ i = at.f
            BY <2>2, <4>2
          <5> QED
            BY <2>1, <3>3, <5>1
        <4>5. to \in Good
          BY <1>2, <4>2, <4>3, <4>4, Zenon
        <4>6. to # at
          BY <2>2, <4>2
        <4> QED
          BY <2>2, <4>1, <4>2, <4>5, <4>6, Zenon
      <3> QED
        BY <3>2, <3>3
    <2> QED
      BY <2>3, <2>4
  <1>5. e \in Good /\ Turn(F, T, e) = e
    <2>1. Len(F) \in Nat
      BY <1>1 DEF l
    <2> QED
      BY <1>3, <1>4, <2>1, ComparedStands, Zenon
  <1> HIDE DEF e
  <1>6. /\ e.f \in Nat /\ e.n = e.f /\ e.f <= l + 1 /\ e.f <= k + 1 /\ e.f >= 1
        /\ \A i \in 1..(e.f - 1) : F[i] = T[i]
        /\ e.f > l \/ e.n > k \/ F[e.f] # T[e.n]
    BY <1>2, <1>4, <1>5, Zenon
  <1>7. Taken(F, T, e) <=> e.f > l /\ e.n = k + 1
    <2>1. CASE e.f > l
      BY <2>1, Zenon DEF Taken, l, k
    <2>2. CASE ~(e.f > l)
      <3>1. e.f \in 1..l /\ (e.f + 1 <= l => e.f + 1 \in 1..l)
        BY <1>1, <1>6, <2>2
      <3> QED
        BY <2>2, <3>1, Zenon DEF Taken, l
    <2> QED
      BY <2>1, <2>2
  <1>8. e.f > l /\ e.n = k + 1 <=> F = T
    <2>1. ASSUME e.f > l, e.n = k + 1
          PROVE  F = T
      <3>1. l = k /\ e.f - 1 = l
        BY <1>1, <1>6, <2>1
      <3>2. \A i \in 1..Len(F) : F[i] = T[i]
        BY <1>6, <3>1 DEF l
      <3> QED
        BY <3>1, <3>2, SeqEqual DEF l, k
    <2>2. ASSUME F = T
          PROVE  e.f > l /\ e.n = k + 1
      <3>1. l = k
        BY <2>2 DEF l, k
      <3>2. F[e.f] = T[e.n]
        BY <1>6, <2>2
      <3> QED
        BY <1>1, <1>6, <3>1, <3>2
    <2> QED
      BY <2>1, <2>2
  <1>9. _is_topic_matched(F, T) <=> Taken(F, T, e)
    <2>1. Len(F) \in Nat /\ Compared(F, T).f \in Nat
      BY <1>1, <1>6 DEF l, e
    <2> QED
      BY <2>1, MatchedIsTaken, Zenon DEF e
  <1> QED
    BY <1>7, <1>8, <1>9, Zenon DEF _is_topic_equals

----------------------------------------------------------------------------
(* What a topic's levels say of its characters, for levels that have no    *)
(* separator and no wildcard.                                              *)

LEMMA LayoutSays ==
  ASSUME NEW levels \in Seq(Seq(Char)), Len(levels) # 0, NEW p \in Layouts(levels),
         NEW k \in 1..Len(levels)
  PROVE  LET T == Written(levels)
             n == Len(levels)
             e == p[k] + Len(levels[k])
         IN  /\ p[k] \in Nat /\ Len(levels[k]) \in Nat /\ e <= Len(T) /\ Len(T) \in Nat
             /\ k = n => e = Len(T)
             /\ k = 1 => p[k] = 0
             /\ k < n => p[k + 1] = e + 1 /\ e + 1 <= Len(T) /\ T[e + 1] = "/"
             /\ k > 1 => T[p[k]] = "/"
             /\ \A j \in 1..Len(levels[k]) : T[p[k] + j] = levels[k][j]
  <1> DEFINE T == Written(levels)
             n == Len(levels)
             e == p[k] + Len(levels[k])
             lt == Len(T)
  <1>1. n \in Nat /\ n >= 1
    BY LenProperties
  <1>2. lt \in Nat
    BY LayoutsExist, LenProperties
  <1>3. \A i \in 1..n : Len(levels[i]) \in Nat
    <2>1. ASSUME NEW i \in 1..n
          PROVE  Len(levels[i]) \in Nat
      BY ElementOfSeq, LenProperties
    <2> QED
      BY <2>1
  <1>4. /\ p \in [1..n -> Nat]
        /\ p[1] = 0
        /\ lt = p[n] + Len(levels[n])
        /\ \A i \in 1..(n - 1) : /\ p[i + 1] = p[i] + Len(levels[i]) + 1
                                 /\ T[p[i] + Len(levels[i]) + 1] = "/"
        /\ \A i \in 1..n : /\ p[i] + Len(levels[i]) <= lt
                           /\ \A j \in 1..Len(levels[i]) : T[p[i] + j] = levels[i][j]
    BY Zenon DEF Layouts
  <1> HIDE DEF T, n, lt
  <1>5. k \in 1..n
    BY DEF n
  <1>6. p[k] \in Nat /\ Len(levels[k]) \in Nat /\ e <= lt
    BY <1>3, <1>4, <1>5
  <1>7. k = n => e = lt
    BY <1>4
  <1>8. k = 1 => p[k] = 0
    BY <1>4
  <1>9. ASSUME k < n
        PROVE  p[k + 1] = e + 1 /\ e + 1 <= lt /\ T[e + 1] = "/"
    <2>1. k \in 1..(n - 1) /\ k + 1 \in 1..n
      BY <1>1, <1>5, <1>9
    <2>2. p[k + 1] = e + 1 /\ T[e + 1] = "/"
      BY <1>4, <2>1, Zenon
    <2>3. p[k + 1] + Len(levels[k + 1]) <= lt /\ p[k + 1] \in Nat /\ Len(levels[k + 1]) \in Nat
      BY <1>3, <1>4, <2>1
    <2>4. p[k + 1] <= lt
      BY <1>2, <2>3
    <2> QED
      BY <2>2, <2>4
  <1>10. ASSUME k > 1
         PROVE  T[p[k]] = "/"
    <2>1. k - 1 \in 1..(n - 1) /\ (k - 1) + 1 = k
      BY <1>1, <1>5, <1>10
    <2> DEFINE i == k - 1
    <2> HIDE DEF i
    <2>2. p[i + 1] = p[i] + Len(levels[i]) + 1 /\ T[p[i] + Len(levels[i]) + 1] = "/"
      BY <1>4, <2>1, Zenon DEF i
    <2>3. i + 1 = k
      BY <2>1 DEF i
    <2> QED
      BY <2>2, <2>3
  <1>11. \A j \in 1..Len(levels[k]) : T[p[k] + j] = levels[k][j]
    BY <1>4, <1>5
  <1> QED
    BY <1>2, <1>6, <1>7, <1>8, <1>9, <1>10, <1>11, Zenon DEF T, n, lt

(* No level but the last of a filter that matches is a hash.               *)
LEMMA MatchesIs ==
  ASSUME NEW fl \in Seq(Seq(Char)), NEW tl \in Seq(Seq(Char)), Len(fl) # 0,
         \A i \in 1..Len(tl) : Hash # tl[i],
         Matches(fl, tl)
  PROVE  /\ fl[Len(fl)] = Hash => Len(tl) >= Len(fl) - 1
         /\ fl[Len(fl)] # Hash => Len(tl) = Len(fl)
         /\ \A i \in 1..Len(fl) : \/ i = Len(fl) /\ fl[i] = Hash
                                  \/ i <= Len(tl) /\ fl[i] # Hash /\ fl[i] \in {Plus, tl[i]}
  <1> DEFINE m == Len(fl)
             n == Len(tl)
  <1>1. m \in Nat /\ n \in Nat
    BY LenProperties
  <1>2. IF fl[m] = Hash THEN n >= m - 1 /\ \A i \in 1..(m - 1) : fl[i] \in {Plus, tl[i]}
        ELSE n = m /\ \A i \in 1..m : fl[i] \in {Plus, tl[i]}
    BY Zenon DEF Matches
  <1>3. Plus # Hash
    <2>1. Plus[1] = "+" /\ Hash[1] = "#"
      BY DEF Plus, Hash
    <2>2. "+" # "#"
      OBVIOUS
    <2> QED
      BY <2>1, <2>2, Zenon
  <1> HIDE DEF m, n
  <1>4. ASSUME NEW i \in 1..m
        PROVE  \/ i = m /\ fl[i] = Hash
               \/ i <= n /\ fl[i] # Hash /\ fl[i] \in {Plus, tl[i]}
    <2>1. CASE fl[m] = Hash /\ i = m
      BY <2>1
    <2>2. CASE ~(fl[m] = Hash /\ i = m)
      <3>1. i <= n /\ i \in 1..n /\ fl[i] \in {Plus, tl[i]}
        <4>1. CASE fl[m] = Hash
          <5>1. i \in 1..(m - 1) /\ n >= m - 1
            BY <1>1, <1>2, <2>2, <4>1
          <5>2. i <= n /\ i \in 1..n
            BY <1>1, <5>1
          <5> QED
            BY <1>2, <4>1, <5>1, <5>2, Zenon
        <4>2. CASE fl[m] # Hash
          <5>1. n = m /\ fl[i] \in {Plus, tl[i]}
            BY <1>2, <4>2, Zenon
          <5> QED
            BY <1>1, <5>1
        <4> QED
          BY <4>1, <4>2
      <3>2. fl[i] # Hash
        BY <1>3, <3>1, Zenon DEF n
      <3> QED
        BY <3>1, <3>2
    <2> QED
      BY <2>1, <2>2
  <1> QED
    BY <1>2, <1>4, Zenon DEF m, n

----------------------------------------------------------------------------
(* The walk through a filter F and a topic T that matches it: the levels   *)
(* of both have their fronts and ends, and each of the filter its kind.    *)
Laid(F, T, lf, lt, m, n, pf, ef, pt, et, level) ==
  /\ \A k \in 1..m : /\ ef[k] <= lf
                     /\ k = m => ef[k] = lf
                     /\ k = 1 => pf[k] = 0
                     /\ k < m => /\ pf[k + 1] = ef[k] + 1
                                 /\ ef[k] + 1 <= lf
                                 /\ F[ef[k] + 1] = "/"
  /\ \A k \in 1..n : /\ pt[k] <= et[k] /\ et[k] <= lt
                     /\ k = n => et[k] = lt
                     /\ k = 1 => pt[k] = 0
                     /\ k < n => /\ pt[k + 1] = et[k] + 1
                                 /\ et[k] + 1 <= lt
                                 /\ T[et[k] + 1] = "/"
                     /\ k > 1 => T[pt[k]] = "/"
                     /\ \A i \in (pt[k] + 1)..et[k] : T[i] \notin {"/", "+", "#"}
  /\ \A k \in 1..m : /\ level[k] # "hash" => k <= n
                     /\ level[k] = "hash" => /\ k = m
                                             /\ ef[k] = pf[k] + 1
                                             /\ F[pf[k] + 1] = "#"
                     /\ level[k] = "plus" => /\ ef[k] = pf[k] + 1
                                             /\ F[pf[k] + 1] = "+"
                     /\ level[k] = "plain" =>
                          /\ ef[k] = pf[k] + (et[k] - pt[k])
                          /\ \A j \in 1..(et[k] - pt[k]) : F[pf[k] + j] = T[pt[k] + j]
  /\ level[m] = "hash" => n >= m - 1
  /\ level[m] # "hash" => n = m
  /\ n = 1 => et[1] # 0

LEMMA Walk ==
  ASSUME NEW F, NEW T, NEW lf \in Nat, NEW lt \in Nat, Len(F) = lf, Len(T) = lt,
         NEW m \in Nat \ {0}, NEW n \in Nat \ {0},
         NEW pf \in [1..m -> Nat], NEW ef \in [1..m -> Nat],
         NEW pt \in [1..n -> Nat], NEW et \in [1..n -> Nat],
         NEW level \in [1..m -> {"plain", "plus", "hash"}],
         Laid(F, T, lf, lt, m, n, pf, ef, pt, et, level)
  PROVE  Compared(F, T).f \in Nat /\ Taken(F, T, Compared(F, T))
  <1> USE DEF Laid
  <1> DEFINE To(f, i) == [f |-> f, n |-> i]
             Inner(at) == \E k \in 1..m : /\ level[k] = "plain"
                                          /\ \E j \in 1..(et[k] - pt[k]) :
                                               at = To(pf[k] + j, pt[k] + j)
             AtPlus(at) == \E k \in 1..m : level[k] = "plus" /\ at = To(pf[k] + 1, pt[k] + 1)
             Past(at) == \E k \in 1..m : level[k] # "hash" /\ at = To(ef[k] + 1, et[k] + 1)
             AtHash(at) == level[m] = "hash" /\ \E i \in Nat : at = To(lf, i)
             Over(at) == level[m] = "hash" /\ at = To(lf + 1, lt + 1)
             Good == {at \in [f : Nat, n : Nat] :
                        \/ Inner(at) \/ AtPlus(at) \/ Past(at) \/ AtHash(at) \/ Over(at)}
             Does(at, to) == to \in Good /\ (to.f = at.f + 1 \/ (to = at /\ Taken(F, T, at)))
  <1>1. /\ m \in Nat /\ n \in Nat /\ m >= 1 /\ n >= 1 /\ m \in 1..m /\ 1 \in 1..m /\ 1 \in 1..n
    OBVIOUS
  <1>2. ASSUME NEW f \in Nat, NEW i \in Nat
        PROVE  To(f, i) \in [f : Nat, n : Nat] /\ To(f, i).f = f /\ To(f, i).n = i
    OBVIOUS
  <1>3. ASSUME NEW k \in 1..m
        PROVE  /\ pf[k] \in Nat /\ ef[k] \in Nat
               /\ level[k] # "hash" => k \in 1..n
               /\ level[k] \in {"plain", "plus", "hash"}
    <2>1. pf[k] \in Nat /\ ef[k] \in Nat /\ level[k] \in {"plain", "plus", "hash"}
      OBVIOUS
    <2>2. level[k] # "hash" => k <= n
      BY Zenon
    <2>3. k <= n => k \in 1..n
      BY ONLY <1>1, k \in 1..m
    <2> QED
      BY <2>1, <2>2, <2>3, Zenon
  <1>0. ASSUME NEW k \in 1..n
        PROVE  pt[k] \in Nat /\ et[k] \in Nat /\ pt[k] <= et[k] /\ et[k] <= lt
    OBVIOUS
  <1> HIDE DEF To
  <1>4. \A at : at \in Good <=> /\ at \in [f : Nat, n : Nat]
                                /\ \/ Inner(at) \/ AtPlus(at) \/ Past(at)
                                   \/ AtHash(at) \/ Over(at)
    BY Zenon
  <1> HIDE DEF Good
  <1>P. ASSUME NEW k \in 1..m, level[k] = "plain"
        PROVE  /\ ef[k] = pf[k] + (et[k] - pt[k])
               /\ \A j \in 1..(et[k] - pt[k]) : F[pf[k] + j] = T[pt[k] + j]
    BY <1>P, ZenonT(60)
  <1>O. ASSUME NEW at, ~(at.f > lf), ~(at.n > lt)
        PROVE  ~(at.f > Len(F)) /\ ~(at.n > Len(T))
    BY ONLY <1>O, Len(F) = lf, Len(T) = lt
  (* The front of a level that both have. *)
  <1>5. ASSUME NEW k \in 1..m, k <= n
        PROVE  To(pf[k] + 1, pt[k] + 1) \in Good
    <2> DEFINE at == To(pf[k] + 1, pt[k] + 1)
    <2>1. /\ k \in 1..n /\ pf[k] \in Nat /\ ef[k] \in Nat /\ pt[k] \in Nat /\ et[k] \in Nat
          /\ pf[k] + 1 \in Nat /\ pt[k] + 1 \in Nat
      <3>1. k \in 1..n
        BY ONLY <1>1, <1>5, k \in 1..m
      <3>2. pf[k] \in Nat /\ ef[k] \in Nat /\ pt[k] \in Nat /\ et[k] \in Nat
        BY ONLY <1>0, <1>3, <3>1, k \in 1..m
      <3> QED
        BY ONLY <3>1, <3>2, SMTT(30)
    <2>2. at \in [f : Nat, n : Nat]
      BY <1>2, <2>1
    <2> HIDE DEF Inner, AtPlus, Past, AtHash, Over
    <2>3. CASE level[k] = "plain" /\ et[k] - pt[k] >= 1
      <3>1. 1 \in 1..(et[k] - pt[k])
        BY <2>1, <2>3
      <3>2. Inner(at)
        BY <2>3, <3>1, Zenon DEF Inner
      <3> QED
        BY <1>4, <2>2, <3>2, Zenon
    <2>4. CASE level[k] = "plain" /\ ~(et[k] - pt[k] >= 1)
      <3>1. pt[k] <= et[k] /\ ef[k] = pf[k] + (et[k] - pt[k])
        BY <2>1, <2>4, Zenon
      <3>4. pt[k] = et[k] /\ pf[k] = ef[k]
        <4> DEFINE a == pt[k]
                   b == et[k]
                   c == pf[k]
                   d == ef[k]
        <4>1. a \in Nat /\ b \in Nat /\ c \in Nat /\ d \in Nat /\ a <= b /\ d = c + (b - a)
              /\ ~(b - a >= 1)
          BY <2>1, <2>4, <3>1, Zenon
        <4> HIDE DEF a, b, c, d
        <4>2. a = b /\ c = d
          BY ONLY <4>1
        <4> QED
          BY <4>2 DEF a, b, c, d
      <3>2. "plain" # "hash"
        OBVIOUS
      <3>3. Past(at)
        BY <2>4, <3>4, <3>2, Zenon DEF Past
      <3> QED
        BY <1>4, <2>2, <3>3, Zenon
    <2>5. CASE level[k] = "plus"
      <3>1. AtPlus(at)
        BY <2>5, Zenon DEF AtPlus
      <3> QED
        BY <1>4, <2>2, <3>1, Zenon
    <2>6. CASE level[k] = "hash"
      <3>1. k = m /\ ef[k] = pf[k] + 1 /\ (k = m => ef[k] = lf)
        BY <2>6, Zenon
      <3>2. AtHash(at)
        BY <2>1, <2>6, <3>1, ZenonT(60) DEF AtHash
      <3> QED
        BY <1>4, <2>2, <3>2, Zenon
    <2> QED
      BY <1>3, <2>3, <2>4, <2>5, <2>6
  <1>6. To(1, 1) \in Good
    <2>1. pf[1] = 0 /\ pt[1] = 0 /\ 0 + 1 = 1 /\ 1 <= n
      BY <1>1
    <2> QED
      BY <1>1, <1>5, <2>1
  (* The place behind a level. *)
  <1>7. ASSUME NEW k \in 1..m, level[k] # "hash"
        PROVE  To(ef[k] + 1, et[k] + 1) \in Good
    <2>1. ef[k] + 1 \in Nat /\ et[k] + 1 \in Nat
      BY ONLY <1>0, <1>3, <1>7, k \in 1..m, SMTT(30)
    <2>2. Past(To(ef[k] + 1, et[k] + 1))
      BY <1>7, Zenon DEF Past
    <2> HIDE DEF Inner, AtPlus, Past, AtHash, Over
    <2> QED
      BY <1>2, <1>4, <2>1, <2>2, Zenon
  (* What a turn does at each place. *)
  <1>8. ASSUME NEW at, at = To(at.f, at.n), at.f \in Nat, at.n \in Nat,
               at.f > lf \/ at.n > lt, at \in Good, Taken(F, T, at)
        PROVE  Does(at, Turn(F, T, at))
    <2>1. Turn(F, T, at) = at
      <3>1. at.f > Len(F) \/ at.n > Len(T)
        BY ONLY <1>8, Len(F) = lf, Len(T) = lt
      <3> QED
        BY ONLY <3>1, TurnOut, Zenon
    <2> HIDE DEF Inner, AtPlus, Past, AtHash, Over
    <2> QED
      BY <1>8, <2>1, Zenon
  <1>9. ASSUME NEW at, Inner(at)
        PROVE  Does(at, Turn(F, T, at))
    <2>1. PICK k \in 1..m : /\ level[k] = "plain"
                            /\ \E j \in 1..(et[k] - pt[k]) : at = To(pf[k] + j, pt[k] + j)
      BY <1>9, Zenon
    <2>2. PICK j \in 1..(et[k] - pt[k]) : at = To(pf[k] + j, pt[k] + j)
      BY <2>1, Zenon
    <2> DEFINE a == pt[k]
               b == et[k]
               c == pf[k]
               d == ef[k]
               to == To(c + j + 1, a + j + 1)
    <2>3. level[k] # "hash"
      BY <2>1, Zenon
    <2>4. /\ k \in 1..n /\ a \in Nat /\ b \in Nat /\ c \in Nat /\ d \in Nat
          /\ a <= b /\ b <= lt /\ d <= lf /\ j \in 1..(b - a)
      <3>1. k \in 1..n /\ c \in Nat /\ d \in Nat
        BY <1>3, <2>3, Zenon
      <3>2. a \in Nat /\ b \in Nat /\ a <= b /\ b <= lt
        BY <1>0, <3>1, Zenon
      <3> QED
        BY <3>1, <3>2, Zenon
    <2>5. d = c + (b - a) /\ F[c + j] = T[a + j]
      BY ONLY <1>P, <2>1, <2>2, Zenon
    <2>6. \A i \in (a + 1)..b : T[i] \notin {"/", "+", "#"}
      BY <2>4, Zenon
    <2> HIDE DEF a, b, c, d
    <2>7. /\ j \in Nat /\ c + j \in Nat /\ a + j \in Nat /\ a + j \in (a + 1)..b
          /\ ~(c + j > lf) /\ ~(a + j > lt)
          /\ c + j + 1 \in Nat /\ a + j + 1 \in Nat
      BY ONLY <2>4, <2>5, lf \in Nat, lt \in Nat
    <2>8. at = To(c + j, a + j) /\ at.f = c + j /\ at.n = a + j
      <3>1. at = To(c + j, a + j)
        BY ONLY <2>2, Zenon DEF a, c
      <3>2. To(c + j, a + j).f = c + j /\ To(c + j, a + j).n = a + j
        BY ONLY <1>2, <2>7, Zenon
      <3> QED
        BY ONLY <3>1, <3>2, Zenon
    <2>9. F[at.f] \notin {"+", "#"} /\ F[at.f] = T[at.n]
      <3>1. T[a + j] \notin {"/", "+", "#"}
        BY <2>6, <2>7, Zenon
      <3> QED
        BY ONLY <2>5, <2>8, <3>1
    <2>10. Turn(F, T, at) = to
      <3>1. ~(at.f > lf) /\ ~(at.n > lt)
        BY ONLY <2>7, <2>8
      <3>2. Turn(F, T, at) = [f |-> at.f + 1, n |-> at.n + 1]
        BY ONLY <1>O, <2>9, <3>1, TurnEqual, Zenon
      <3> QED
        BY ONLY <2>8, <3>2, Zenon DEF To, to
    <2>11. to \in Good
      <3>1. CASE j = b - a
        <4>1. c + j + 1 = d + 1 /\ a + j + 1 = b + 1
          BY ONLY <2>4, <2>5, <3>1
        <4>2. to = To(d + 1, b + 1)
          BY <4>1, Zenon
        <4> QED
          BY <1>7, <2>3, <4>2, Zenon DEF b, d
      <3>2. CASE j # b - a
        <4>1. j + 1 \in 1..(b - a) /\ c + j + 1 = c + (j + 1) /\ a + j + 1 = a + (j + 1)
          BY ONLY <2>4, <2>7, <3>2
        <4>2. to = To(c + (j + 1), a + (j + 1))
          BY <4>1, Zenon
        <4>3. \E i \in 1..(et[k] - pt[k]) : to = To(pf[k] + i, pt[k] + i)
          BY ONLY <4>1, <4>2, Zenon DEF a, b, c
        <4>5. Inner(to)
          BY ONLY <2>1, <4>3, Zenon
        <4>4. to \in [f : Nat, n : Nat]
          BY <1>2, <2>7, Zenon
        <4> HIDE DEF Inner, AtPlus, Past, AtHash, Over, to
        <4> QED
          BY <1>4, <4>5, <4>4, Zenon
      <3> QED
        BY <3>1, <3>2
    <2>12. to.f = at.f + 1
      <3>1. to.f = c + j + 1
        BY ONLY <1>2, <2>7, Zenon
      <3> QED
        BY ONLY <2>8, <3>1, Zenon
    <2> QED
      BY <2>10, <2>11, <2>12, ZenonT(60)
  <1>10. ASSUME NEW k \in 1..m, level[k] # "hash"
         PROVE  LET at == To(ef[k] + 1, et[k] + 1)
                IN  Does(at, Turn(F, T, at))
    <2> DEFINE b == et[k]
               d == ef[k]
               at == To(d + 1, b + 1)
    <2>1. /\ k \in 1..n /\ b \in Nat /\ d \in Nat /\ b <= lt /\ d + 1 \in Nat /\ b + 1 \in Nat
      <3>1. k \in 1..n /\ d \in Nat
        BY ONLY <1>3, <1>10, Zenon
      <3>2. b \in Nat /\ b <= lt
        BY ONLY <1>0, <3>1, Zenon
      <3> QED
        BY ONLY <3>1, <3>2, SMTT(30)
    <2>2. at \in Good
      BY <1>7, <1>10, Zenon
    <2>3. at.f = d + 1 /\ at.n = b + 1
      BY ONLY <1>2, <2>1, Zenon
    <2>4. /\ k = m => d = lf
          /\ k < m => pf[k + 1] = d + 1 /\ d + 1 <= lf /\ F[d + 1] = "/"
      BY Zenon
    <2>5. /\ k = n => b = lt
          /\ k < n => pt[k + 1] = b + 1 /\ b + 1 <= lt /\ T[b + 1] = "/"
      BY <2>1, Zenon
    <2>6. at = To(at.f, at.n) /\ at.f \in Nat /\ at.n \in Nat
      BY ONLY <2>1, <2>3, Zenon
    <2> HIDE DEF b, d, at
    <2>7. CASE k = m
      <3>1. at.f > lf
        BY ONLY <2>3, <2>4, <2>7, lf \in Nat
      <3>2. n = m /\ b = lt
        BY <1>10, <2>5, <2>7, Zenon
      <3>3. Taken(F, T, at)
        <4>1. at.f > Len(F) /\ at.n = Len(T) + 1
          BY ONLY <2>3, <3>1, <3>2, Len(F) = lf, Len(T) = lt
        <4> QED
          BY ONLY <4>1, Zenon DEF Taken
      <3> QED
        BY <1>8, <2>2, <2>6, <3>1, <3>3, Zenon DEF at, b, d
    <2>8. CASE k # m /\ k = n
      <3>1. k < m /\ m = k + 1 /\ level[m] = "hash"
        <4>1. level[m] = "hash"
          <5>1. level[m] # "hash" => n = m
            BY Zenon
          <5> QED
            BY ONLY <2>8, <5>1
        <4>2. n >= m - 1
          BY <4>1, Zenon
        <4> QED
          BY ONLY <1>1, <2>8, <4>1, <4>2, k \in 1..m
      <3>2. /\ pf[m] = d + 1 /\ d + 1 <= lf /\ F[pf[m] + 1] = "#" /\ ef[m] = pf[m] + 1
            /\ ef[m] = lf
        <4>1. F[pf[m] + 1] = "#" /\ ef[m] = pf[m] + 1 /\ ef[m] = lf
          BY <1>1, <3>1, Zenon
        <4> QED
          BY ONLY <2>4, <3>1, <4>1, Zenon
      <3>3. at.n > lt /\ ~(at.f > lf)
        <4>1. b = lt
          BY ONLY <2>5, <2>8
        <4> QED
          BY ONLY <2>1, <2>3, <3>2, <4>1, lf \in Nat, lt \in Nat
      <3>4. Taken(F, T, at)
        <4>1. ~(at.f > Len(F)) /\ at.f + 1 <= Len(F) /\ at.f + 1 = pf[m] + 1
          BY ONLY <2>1, <2>3, <3>2, <3>3, Len(F) = lf, lf \in Nat
        <4>2. F[at.f + 1] = "#"
          BY ONLY <3>2, <4>1
        <4> QED
          BY ONLY <4>1, <4>2, Zenon DEF Taken
      <3> QED
        BY <1>8, <2>2, <2>6, <3>3, <3>4, Zenon DEF at, b, d
    <2>9. CASE k # m /\ k # n
      <3>1. k < m /\ k < n /\ k + 1 \in 1..m /\ k + 1 <= n
        BY ONLY <1>1, <2>1, <2>9, k \in 1..m
      <3>2. ~(at.f > lf) /\ ~(at.n > lt)
        BY ONLY <2>1, <2>3, <2>4, <2>5, <3>1, lf \in Nat, lt \in Nat
      <3>3. F[at.f] \notin {"+", "#"} /\ F[at.f] = T[at.n]
        <4>1. F[at.f] = "/" /\ T[at.n] = "/"
          BY ONLY <2>3, <2>4, <2>5, <3>1
        <4> QED
          BY ONLY <4>1
      <3>4. Turn(F, T, at) = [f |-> at.f + 1, n |-> at.n + 1]
        BY ONLY <1>O, <3>2, <3>3, TurnEqual, Zenon
      <3>5. Turn(F, T, at) = To(pf[k + 1] + 1, pt[k + 1] + 1)
        <4>1. at.f = pf[k + 1] /\ at.n = pt[k + 1]
          BY ONLY <2>3, <2>4, <2>5, <3>1
        <4> QED
          BY ONLY <3>4, <4>1, Zenon DEF To
      <3>6. Turn(F, T, at) \in Good
        <4>1. To(pf[k + 1] + 1, pt[k + 1] + 1) \in Good
          BY ONLY <1>5, <3>1, Zenon
        <4> QED
          BY ONLY <3>5, <4>1, Zenon
      <3>7. Turn(F, T, at).f = at.f + 1
        BY ONLY <3>4
      <3> QED
        BY ONLY <3>6, <3>7, Zenon DEF at, b, d
    <2> QED
      BY <2>7, <2>8, <2>9
  <1>11. ASSUME NEW k \in 1..m, level[k] = "plus"
         PROVE  LET at == To(pf[k] + 1, pt[k] + 1)
                IN  Does(at, Turn(F, T, at))
    <2> DEFINE a == pt[k]
               b == et[k]
               c == pf[k]
               d == ef[k]
               at == To(c + 1, a + 1)
    <2>1. level[k] # "hash"
      BY ONLY <1>11
    <2>2. /\ k \in 1..n /\ a \in Nat /\ b \in Nat /\ c \in Nat /\ d \in Nat
          /\ a <= b /\ b <= lt
      <3>1. k \in 1..n /\ c \in Nat /\ d \in Nat
        BY ONLY <1>3, <2>1, Zenon
      <3>2. a \in Nat /\ b \in Nat /\ a <= b /\ b <= lt
        BY ONLY <1>0, <3>1, Zenon
      <3> QED
        BY ONLY <3>1, <3>2
    <2>3. d = c + 1 /\ F[c + 1] = "+" /\ d <= lf
      BY <1>11, Zenon
    <2>4. /\ k = n => b = lt
          /\ k = 1 => a = 0
          /\ k < n => b + 1 <= lt /\ T[b + 1] = "/"
          /\ k > 1 => T[a] = "/"
          /\ \A i \in (a + 1)..b : T[i] \notin {"/", "+", "#"}
      BY <2>2, Zenon
    <2>5. n = 1 => et[1] # 0
      BY Zenon
    <2>6. at \in Good
      <3>1. k <= n
        BY ONLY <2>2
      <3> QED
        BY <1>5, <3>1, Zenon
    <2>7. c + 1 \in Nat /\ a + 1 \in Nat /\ d + 1 \in Nat /\ b + 1 \in Nat
      <3> HIDE DEF a, b, c, d
      <3> QED
        BY ONLY <2>2
    <2>8. at.f = c + 1 /\ at.n = a + 1 /\ at = To(at.f, at.n) /\ at.f \in Nat /\ at.n \in Nat
      <3>1. at.f = c + 1 /\ at.n = a + 1
        BY ONLY <1>2, <2>7, Zenon
      <3> QED
        BY ONLY <2>7, <3>1, Zenon
    <2>9. To(d + 1, b + 1) \in Good
      BY <1>7, <2>1, Zenon
    <2>10. et[1] = b \/ k # 1
      BY ONLY Zenon
    <2> HIDE DEF a, b, c, d, at
    <2>11. ~(at.f > lf) /\ F[at.f] = "+" /\ at.f + 1 = d + 1
      BY ONLY <2>2, <2>3, <2>8, lf \in Nat
    <2>12. CASE at.n > lt
      <3>1. a = b /\ b = lt /\ k = n
        <4>1. a = b /\ b = lt
          BY ONLY <2>2, <2>8, <2>12, lt \in Nat
        <4>2. ~(k < n)
          BY ONLY <2>2, <2>4, <4>1, lt \in Nat
        <4> QED
          BY ONLY <1>1, <2>2, <4>1, <4>2
      <3>2. k > 1
        BY ONLY <1>1, <2>2, <2>4, <2>5, <2>10, <3>1
      <3>3. Taken(F, T, at)
        <4>1. ~(at.f > Len(F)) /\ at.n - 1 = a
          BY ONLY <2>2, <2>8, <2>11, Len(F) = lf
        <4>2. T[at.n - 1] = "/"
          BY ONLY <2>4, <3>2, <4>1
        <4> QED
          BY ONLY <2>11, <4>1, <4>2, Zenon DEF Taken
      <3> QED
        BY <1>8, <2>6, <2>8, <2>12, <3>3, Zenon DEF at, a, c
    <2>13. CASE ~(at.n > lt) /\ T[at.n] = "/"
      <3>1. a = b
        <4>1. a + 1 \notin (a + 1)..b
          BY ONLY <2>4, <2>8, <2>13
        <4> QED
          BY ONLY <2>2, <4>1
      <3>2. Turn(F, T, at) = [f |-> at.f + 1, n |-> at.n]
        <4>1. ~(at.f > Len(F)) /\ ~(at.n > Len(T))
          BY ONLY <1>O, <2>11, <2>13, Zenon
        <4>2. F[at.f] = "+" /\ T[at.n] = "/"
          BY ONLY <2>11, <2>13, Zenon
        <4> QED
          BY ONLY <4>1, <4>2, TurnPlusEmpty
      <3>3. Turn(F, T, at) = To(d + 1, b + 1)
        BY ONLY <2>8, <2>11, <3>1, <3>2, Zenon DEF To
      <3>4. Turn(F, T, at).f = at.f + 1
        BY ONLY <3>2
      <3>5. Does(at, Turn(F, T, at))
        BY ONLY <2>9, <3>3, <3>4, Zenon
      <3> QED
        BY ONLY <3>5, Zenon DEF at, a, c
    <2>14. CASE ~(at.n > lt) /\ T[at.n] # "/"
      <3>1. a < b
        <4>1. k < n \/ k = n
          BY ONLY <1>1, <2>2
        <4> QED
          BY ONLY <2>2, <2>4, <2>8, <2>14, <4>1, lt \in Nat
      <3>2. LevelEnd(T, at.n) = b + 1
        <4>1. /\ at.n \in Nat /\ b + 1 \in Nat /\ Len(T) \in Nat /\ at.n < b + 1
              /\ b + 1 <= Len(T) + 1
          BY ONLY <2>2, <2>8, <3>1, Len(T) = lt, lt \in Nat
        <4>2. \A i \in (at.n + 1)..((b + 1) - 1) : T[i] # "/"
          <5>1. \A i \in (at.n + 1)..((b + 1) - 1) : i \in (a + 1)..b
            BY ONLY <2>2, <2>8
          <5> QED
            BY ONLY <2>4, <5>1
        <4>3. b + 1 <= Len(T) => T[b + 1] = "/"
          <5>1. b + 1 <= Len(T) => k # n
            BY ONLY <2>2, <2>4, Len(T) = lt, lt \in Nat
          <5>2. k # n => k < n
            BY ONLY <1>1, <2>2
          <5> QED
            BY ONLY <2>4, <5>1, <5>2
        <4> QED
          BY ONLY <4>1, <4>2, <4>3, LevelEndIs
      <3>3. Turn(F, T, at) = [f |-> at.f + 1, n |-> LevelEnd(T, at.n)]
        BY ONLY <1>O, <2>11, <2>14, TurnPlus, Zenon
      <3>4. Turn(F, T, at) = To(d + 1, b + 1)
        BY ONLY <2>11, <3>2, <3>3, Zenon DEF To
      <3>5. Turn(F, T, at).f = at.f + 1
        BY ONLY <3>3
      <3>6. Does(at, Turn(F, T, at))
        BY ONLY <2>9, <3>4, <3>5, Zenon
      <3> QED
        BY ONLY <3>6, Zenon DEF at, a, c
    <2> QED
      BY <2>12, <2>13, <2>14
  <1>12. ASSUME NEW i \in Nat, level[m] = "hash"
         PROVE  LET at == To(lf, i)
                IN  Does(at, Turn(F, T, at))
    <2> DEFINE at == To(lf, i)
               to == To(lf + 1, lt + 1)
    <2>1. at \in [f : Nat, n : Nat] /\ at.f = lf /\ at.n = i
      BY ONLY <1>2, lf \in Nat, i \in Nat
    <2>2. to \in [f : Nat, n : Nat] /\ to.f = lf + 1 /\ to.n = lt + 1
      <3>1. lf + 1 \in Nat /\ lt + 1 \in Nat
        BY ONLY lf \in Nat, lt \in Nat
      <3> QED
        BY ONLY <1>2, <3>1, Zenon
    <2>3. F[lf] = "#"
      <3>1. F[pf[m] + 1] = "#" /\ ef[m] = pf[m] + 1 /\ ef[m] = lf
        BY <1>1, <1>12, Zenon
      <3> QED
        BY ONLY <3>1
    <2>4. AtHash(at) /\ Over(to)
      BY <1>12, Zenon
    <2> HIDE DEF at, to, Inner, AtPlus, Past, AtHash, Over
    <2>5. at \in Good /\ to \in Good
      BY ONLY <1>4, <2>1, <2>2, <2>4, Zenon
    <2>6. Taken(F, T, at)
      <3>1. ~(at.f > Len(F)) /\ F[at.f] = "#"
        BY ONLY <2>1, <2>3, Len(F) = lf, lf \in Nat
      <3> QED
        BY ONLY <3>1, Zenon DEF Taken
    <2>7. CASE at.n > lt
      <3>1. at = To(at.f, at.n) /\ at.f \in Nat /\ at.n \in Nat
        BY ONLY <2>1, lf \in Nat, i \in Nat, Zenon DEF at
      <3> QED
        BY <1>8, <2>5, <2>6, <2>7, <3>1, Zenon DEF at
    <2>8. CASE ~(at.n > lt)
      <3>1. ~(at.f > Len(F)) /\ ~(at.n > Len(T)) /\ F[at.f] = "#"
        BY ONLY <2>1, <2>3, <2>8, Len(F) = lf, Len(T) = lt, lf \in Nat
      <3>2. Turn(F, T, at) \in {at, [f |-> at.f + 1, n |-> Len(T) + 1]}
        BY ONLY <3>1, TurnHash
      <3>3. [f |-> at.f + 1, n |-> Len(T) + 1] = to
        BY ONLY <2>1, Len(T) = lt DEF to, To
      <3>4. to.f = at.f + 1
        BY ONLY <2>1, <2>2
      <3>5. Does(at, Turn(F, T, at))
        BY ONLY <2>5, <2>6, <3>2, <3>3, <3>4, Zenon
      <3> QED
        BY ONLY <3>5, Zenon DEF at
    <2> QED
      BY <2>7, <2>8
  <1>13. ASSUME level[m] = "hash"
         PROVE  LET at == To(lf + 1, lt + 1)
                IN  Does(at, Turn(F, T, at))
    <2> DEFINE at == To(lf + 1, lt + 1)
    <2>1. at \in [f : Nat, n : Nat] /\ at.f = lf + 1 /\ at.n = lt + 1
      <3>1. lf + 1 \in Nat /\ lt + 1 \in Nat
        BY ONLY lf \in Nat, lt \in Nat
      <3> QED
        BY ONLY <1>2, <3>1, Zenon
    <2>2. Over(at)
      BY <1>13, Zenon
    <2> HIDE DEF Inner, AtPlus, Past, AtHash, Over, at
    <2>3. at \in Good
      BY ONLY <1>4, <2>1, <2>2, Zenon
    <2>4. at.f > lf /\ at.f > Len(F) /\ at.n = Len(T) + 1
      BY ONLY <2>1, Len(F) = lf, Len(T) = lt, lf \in Nat
    <2>5. Taken(F, T, at)
      BY ONLY <2>4, Zenon DEF Taken
    <2>6. at = To(at.f, at.n) /\ at.f \in Nat /\ at.n \in Nat
      <3>1. at.f \in Nat /\ at.n \in Nat
        BY ONLY <2>1
      <3> QED
        BY ONLY <2>1, <3>1, Zenon DEF at
    <2> QED
      BY <1>8, <2>3, <2>4, <2>5, <2>6, Zenon DEF at
  <1>14. ASSUME NEW at \in Good
         PROVE  Does(at, Turn(F, T, at))
    <2>1. Inner(at) \/ AtPlus(at) \/ Past(at) \/ AtHash(at) \/ Over(at)
      BY <1>4, Zenon
    <2>2. CASE Inner(at)
      BY <1>9, <2>2, Zenon
    <2>3. CASE AtPlus(at)
      <3>1. PICK k \in 1..m : level[k] = "plus" /\ at = To(pf[k] + 1, pt[k] + 1)
        BY <2>3, Zenon
      <3> DEFINE b == To(pf[k] + 1, pt[k] + 1)
      <3>2. Does(b, Turn(F, T, b))
        BY ONLY <1>11, <3>1, Zenon
      <3> HIDE DEF Does
      <3> QED
        BY ONLY <3>1, <3>2, Zenon
    <2>4. CASE Past(at)
      <3>1. PICK k \in 1..m : level[k] # "hash" /\ at = To(ef[k] + 1, et[k] + 1)
        BY <2>4, Zenon
      <3> DEFINE b == To(ef[k] + 1, et[k] + 1)
      <3>2. Does(b, Turn(F, T, b))
        BY ONLY <1>10, <3>1, Zenon
      <3> HIDE DEF Does
      <3> QED
        BY ONLY <3>1, <3>2, Zenon
    <2>5. CASE AtHash(at)
      <3>1. level[m] = "hash"
        BY <2>5, Zenon
      <3>2. PICK i \in Nat : at = To(lf, i)
        BY <2>5, Zenon
      <3> DEFINE b == To(lf, i)
      <3>3. Does(b, Turn(F, T, b))
        BY ONLY <1>12, <3>1, <3>2, Zenon
      <3> HIDE DEF Does
      <3> QED
        BY ONLY <3>2, <3>3, Zenon
    <2>6. CASE Over(at)
      BY <1>13, <2>6, Zenon
    <2> QED
      BY <2>1, <2>2, <2>3, <2>4, <2>5, <2>6
  <1>15. ASSUME NEW at \in Good
         PROVE  at = [f |-> at.f, n |-> at.n] /\ at.f \in Nat
    <2>1. at \in [f : Nat, n : Nat]
      BY <1>4, Zenon
    <2> QED
      BY ONLY <2>1
  <1> DEFINE e == Compared(F, T)
  <1>16. e \in Good /\ Turn(F, T, e) = e
    <2>1. Len(F) \in Nat
      OBVIOUS
    <2>2. [f |-> 1, n |-> 1] \in Good
      BY <1>6, Zenon DEF To
    <2> HIDE DEF Inner, AtPlus, Past, AtHash, Over
    <2>3. \A at \in Good : /\ at = [f |-> at.f, n |-> at.n] /\ at.f \in Nat
                           /\ Turn(F, T, at) \in Good
                           /\ Turn(F, T, at) = at \/ Turn(F, T, at).f = at.f + 1
      BY <1>14, <1>15, Zenon
    <2> QED
      BY ONLY <2>1, <2>2, <2>3, ComparedStands
  <1> HIDE DEF e
  <1>17. e.f \in Nat /\ e.f # e.f + 1
    <2>1. e.f \in Nat
      BY <1>15, <1>16, Zenon
    <2> QED
      BY ONLY <2>1
  <1>18. Taken(F, T, e)
    BY <1>14, <1>16, <1>17, Zenon
  <1> QED
    BY <1>17, <1>18, Zenon DEF e

LEMMA WildcardsAre == /\ Len(Plus) = 1 /\ Plus[1] = "+" /\ Len(Hash) = 1 /\ Hash[1] = "#"
                      /\ Plus # Hash
  <1>1. Len(Plus) = 1 /\ Plus[1] = "+" /\ Len(Hash) = 1 /\ Hash[1] = "#"
    BY DEF Plus, Hash
  <1>2. "+" # "#"
    OBVIOUS
  <1> QED
    BY <1>1, <1>2, Zenon

LEMMA MatchingFilter ==
  ASSUME NEW fl \in Seq(Seq(Char)), NEW tl \in Seq(Seq(Char)), Len(fl) # 0, Len(tl) # 0,
         \A i \in 1..Len(tl) : \A j \in 1..Len(tl[i]) : tl[i][j] \notin {"/", "+", "#"},
         tl # << <<>> >>,
         Matches(fl, tl)
  PROVE  _is_topic_matched(Written(fl), Written(tl))
  <1> DEFINE F  == Written(fl)
             T  == Written(tl)
             m  == Len(fl)
             n  == Len(tl)
             lf == Len(F)
             lt == Len(T)
  <1>1. /\ F \in Seq(Char) /\ T \in Seq(Char)
        /\ m \in Nat /\ n \in Nat /\ m # 0 /\ n # 0 /\ lf \in Nat /\ lt \in Nat
    BY LayoutsExist, LenProperties
  <1>2. PICK p \in Layouts(fl) : TRUE
    BY LayoutsExist
  <1>3. PICK q \in Layouts(tl) : TRUE
    BY LayoutsExist
  <1> DEFINE ef == [k \in 1..m |-> p[k] + Len(fl[k])]
             et == [k \in 1..n |-> q[k] + Len(tl[k])]
             level == [k \in 1..m |-> IF fl[k] = Hash THEN "hash"
                                      ELSE IF fl[k] = Plus THEN "plus" ELSE "plain"]
  <1>4. p \in [1..m -> Nat] /\ q \in [1..n -> Nat]
    BY <1>2, <1>3, Zenon DEF Layouts
  <1>5. ASSUME NEW k \in 1..m
        PROVE  /\ ef[k] = p[k] + Len(fl[k]) /\ ef[k] \in Nat
               /\ ef[k] <= lf
               /\ k = m => ef[k] = lf
               /\ k = 1 => p[k] = 0
               /\ k < m => p[k + 1] = ef[k] + 1 /\ ef[k] + 1 <= lf /\ F[ef[k] + 1] = "/"
               /\ \A j \in 1..Len(fl[k]) : F[p[k] + j] = fl[k][j]
    <2>1. ef[k] = p[k] + Len(fl[k])
      BY Zenon
    <2> DEFINE x == p[k] + Len(fl[k])
    <2>2. /\ p[k] \in Nat /\ Len(fl[k]) \in Nat /\ x <= lf /\ lf \in Nat
          /\ k = m => x = lf
          /\ k = 1 => p[k] = 0
          /\ k < m => p[k + 1] = x + 1 /\ x + 1 <= lf /\ F[x + 1] = "/"
          /\ \A j \in 1..Len(fl[k]) : F[p[k] + j] = fl[k][j]
      BY <1>2, LayoutSays, ZenonT(60)
    <2>3. x \in Nat
      BY ONLY <2>2
    <2> HIDE DEF x, F, m, lf, ef
    <2>4. ef[k] = x
      BY <2>1 DEF x
    <2> QED
      BY ONLY <2>1, <2>2, <2>3, <2>4, Zenon
  <1>6. ASSUME NEW k \in 1..n
        PROVE  /\ et[k] = q[k] + Len(tl[k]) /\ et[k] \in Nat
               /\ q[k] <= et[k] /\ et[k] <= lt
               /\ k = n => et[k] = lt
               /\ k = 1 => q[k] = 0
               /\ k < n => q[k + 1] = et[k] + 1 /\ et[k] + 1 <= lt /\ T[et[k] + 1] = "/"
               /\ k > 1 => T[q[k]] = "/"
               /\ \A i \in (q[k] + 1)..et[k] : T[i] \notin {"/", "+", "#"}
               /\ q[k] \in Nat /\ Len(tl[k]) \in Nat
               /\ \A j \in 1..Len(tl[k]) : T[q[k] + j] = tl[k][j]
    <2>1. et[k] = q[k] + Len(tl[k])
      BY Zenon
    <2> DEFINE x == q[k] + Len(tl[k])
               a == q[k]
               b == Len(tl[k])
    <2>2. /\ a \in Nat /\ b \in Nat /\ x <= lt /\ lt \in Nat
          /\ k = n => x = lt
          /\ k = 1 => a = 0
          /\ k < n => q[k + 1] = x + 1 /\ x + 1 <= lt /\ T[x + 1] = "/"
          /\ k > 1 => T[a] = "/"
          /\ \A j \in 1..b : T[a + j] = tl[k][j]
      BY <1>3, LayoutSays, Zenon
    <2>3. x \in Nat /\ a <= x
      BY ONLY <2>2
    <2>4. \A j \in 1..b : tl[k][j] \notin {"/", "+", "#"}
      BY Zenon
    <2>5. x = a + b
      OBVIOUS
    <2> HIDE DEF x, T, n, lt, et, a, b
    <2>6. ASSUME NEW i \in (a + 1)..x
          PROVE  T[i] \notin {"/", "+", "#"}
      <3>1. i - a \in 1..b /\ a + (i - a) = i
        BY ONLY <2>2, <2>5, i \in (a + 1)..x
      <3>2. T[a + (i - a)] = tl[k][i - a]
        BY ONLY <2>2, <3>1, Zenon
      <3> QED
        BY ONLY <2>4, <3>1, <3>2
    <2>7. et[k] = x
      BY <2>1 DEF x
    <2> QED
      BY <2>1, <2>2, <2>3, <2>6, <2>7, Zenon DEF a, b
  <1>7. level \in [1..m -> {"plain", "plus", "hash"}]
    BY SMT
  <1>8. ASSUME NEW k \in 1..m
        PROVE  /\ level[k] = "hash"  => fl[k] = Hash
               /\ level[k] = "plus"  => fl[k] = Plus
               /\ level[k] = "plain" => fl[k] # Hash /\ fl[k] # Plus
               /\ level[k] # "hash"  => fl[k] # Hash
    <2>1. "hash" # "plus" /\ "hash" # "plain" /\ "plus" # "plain"
      OBVIOUS
    <2>2. level[k] = IF fl[k] = Hash THEN "hash" ELSE IF fl[k] = Plus THEN "plus" ELSE "plain"
      BY Zenon
    <2> HIDE DEF level
    <2> QED
      BY ONLY <2>1, <2>2
  <1>9. /\ fl[m] = Hash => n >= m - 1
        /\ fl[m] # Hash => n = m
        /\ \A i \in 1..m : \/ i = m /\ fl[i] = Hash
                           \/ i <= n /\ fl[i] # Hash /\ fl[i] \in {Plus, tl[i]}
    <2>1. ASSUME NEW i \in 1..Len(tl)
          PROVE  Hash # tl[i]
      <3>1. Len(Hash) = 1 /\ Hash[1] = "#" /\ 1 \in 1..1
        BY WildcardsAre
      <3>2. \A j \in 1..Len(tl[i]) : tl[i][j] \notin {"/", "+", "#"}
        BY Zenon
      <3> QED
        BY ONLY <3>1, <3>2
    <2> QED
      BY <2>1, MatchesIs, Zenon
  <1> HIDE DEF F, T, m, n, lf, lt, ef, et, level
  <1>10. ASSUME NEW k \in 1..m
         PROVE  /\ level[k] # "hash" => k <= n
                /\ level[k] = "hash" => k = m /\ ef[k] = p[k] + 1 /\ F[p[k] + 1] = "#"
                /\ level[k] = "plus" => ef[k] = p[k] + 1 /\ F[p[k] + 1] = "+"
                /\ level[k] = "plain" =>
                     /\ ef[k] = p[k] + (et[k] - q[k])
                     /\ \A j \in 1..(et[k] - q[k]) : F[p[k] + j] = T[q[k] + j]
    <2>1. level[k] # "hash" => k <= n
      BY ONLY <1>8, <1>9, Zenon
    <2>2. 1 \in 1..1
      OBVIOUS
    <2>3. ASSUME level[k] = "hash"
          PROVE  k = m /\ ef[k] = p[k] + 1 /\ F[p[k] + 1] = "#"
      <3>1. fl[k] = Hash
        BY ONLY <1>8, <2>3, Zenon
      <3>2. k = m
        BY ONLY <1>9, <3>1, Zenon
      <3>3. Len(fl[k]) = 1 /\ fl[k][1] = "#"
        BY ONLY <3>1, WildcardsAre, Zenon
      <3> QED
        BY ONLY <1>5, <2>2, <3>2, <3>3, Zenon
    <2>4. ASSUME level[k] = "plus"
          PROVE  ef[k] = p[k] + 1 /\ F[p[k] + 1] = "+"
      <3>1. fl[k] = Plus
        BY ONLY <1>8, <2>4, Zenon
      <3>3. Len(fl[k]) = 1 /\ fl[k][1] = "+"
        BY ONLY <3>1, WildcardsAre, Zenon
      <3> QED
        BY ONLY <1>5, <2>2, <3>3, Zenon
    <2>5. ASSUME level[k] = "plain"
          PROVE  /\ ef[k] = p[k] + (et[k] - q[k])
                 /\ \A j \in 1..(et[k] - q[k]) : F[p[k] + j] = T[q[k] + j]
      <3>1. k <= n /\ fl[k] = tl[k]
        BY ONLY <1>8, <1>9, <2>5, Zenon
      <3>2. k \in 1..n
        BY ONLY <1>1, <3>1, k \in 1..m
      <3>3. /\ et[k] = q[k] + Len(tl[k]) /\ q[k] \in Nat /\ Len(tl[k]) \in Nat
            /\ \A j \in 1..Len(tl[k]) : T[q[k] + j] = tl[k][j]
        BY ONLY <1>6, <3>2, Zenon
      <3>4. /\ ef[k] = p[k] + Len(fl[k])
            /\ \A j \in 1..Len(fl[k]) : F[p[k] + j] = fl[k][j]
        BY ONLY <1>5, Zenon
      <3>5. et[k] - q[k] = Len(tl[k])
        BY ONLY <3>3
      <3> QED
        BY ONLY <3>1, <3>3, <3>4, <3>5, Zenon
    <2> QED
      BY ONLY <2>1, <2>3, <2>4, <2>5, Zenon
  <1>11. n = 1 => et[1] # 0
    <2> SUFFICES ASSUME n = 1, et[1] = 0 PROVE FALSE
      OBVIOUS
    <2>1. 1 \in 1..n /\ Len(tl) = 1
      BY DEF n
    <2>2. q[1] = 0 /\ et[1] = q[1] + Len(tl[1]) /\ Len(tl[1]) \in Nat
      BY <1>6, <2>1
    <2>3. Len(tl[1]) = 0
      BY ONLY <2>2, et[1] = 0
    <2>4. tl[1] = <<>>
      <3>1. tl[1] \in Seq(Char)
        BY <2>1, ElementOfSeq DEF n
      <3> QED
        BY ONLY <2>3, <3>1, EmptySeq
    <2>5. tl = <<tl[1]>>
      BY ONLY <2>1, tl \in Seq(Seq(Char))
    <2> QED
      BY <2>4, <2>5, Zenon
  <1>12. Compared(F, T).f \in Nat /\ Taken(F, T, Compared(F, T))
    <2>1. /\ Len(F) = lf /\ Len(T) = lt /\ lf \in Nat /\ lt \in Nat
          /\ m \in Nat \ {0} /\ n \in Nat \ {0}
      BY <1>1 DEF lf, lt
    <2>2. ef \in [1..m -> Nat] /\ et \in [1..n -> Nat]
      <3>1. ef = [k \in 1..m |-> ef[k]] /\ et = [k \in 1..n |-> et[k]]
        BY Zenon DEF ef, et
      <3> QED
        BY ONLY <1>5, <1>6, <3>1
    <2>3. level[m] = "hash" => n >= m - 1
      BY <1>1, <1>8, <1>9
    <2>4. level[m] # "hash" => n = m
      BY <1>1, <1>8, <1>9
    <2>5. Laid(F, T, lf, lt, m, n, p, ef, q, et, level)
      BY ONLY <1>5, <1>6, <1>10, <1>11, <2>3, <2>4, Zenon DEF Laid
    <2> QED
      BY ONLY <1>4, <1>7, <2>1, <2>2, <2>5, Walk
  <1>13. Len(F) \in Nat
    BY <1>1 DEF lf
  <1>14. _is_topic_matched(F, T)
    BY <1>12, <1>13, MatchedIsTaken, Zenon
  <1> QED
    BY <1>14 DEF F, T

----------------------------------------------------------------------------
(* Topics and filters, and the characters of a filter without wildcards.   *)

Plain == {c \in Char : c \notin {"+", "#"}}

LEMMA InSequencesOf ==
  ASSUME NEW S, NEW n \in Nat, NEW s \in SequencesOf(S, n)
  PROVE  s \in Seq(S) /\ Len(s) \in 1..n /\ \A i \in 1..Len(s) : s[i] \in S
  <1>1. PICK k \in 1..n : s \in [1..k -> S]
    BY Zenon DEF SequencesOf
  <1>2. k \in Nat
    OBVIOUS
  <1>3. s \in Seq(S) /\ Len(s) = k
    BY <1>1, <1>2, IsSeq
  <1> QED
    BY <1>1, <1>3

LEMMA LevelIs ==
  ASSUME NEW l \in Level
  PROVE  /\ l \in Seq(Char) /\ l \in Seq(Plain)
         /\ \A i \in 1..Len(l) : l[i] \notin {"/", "+", "#"}
  <1>1. l \in Seq(STRING) /\ \A i \in 1..Len(l) : l[i] \notin {"/", "+", "#"}
    BY FormatsAssumption, Zenon
  <1>2. ASSUME NEW i \in 1..Len(l)
        PROVE  l[i] \in Char /\ l[i] \in Plain
    <2>1. l[i] \in STRING
      BY <1>1, ElementOfSeq
    <2> QED
      BY <1>1, <2>1, Zenon DEF Char, Plain
  <1>3. l = [i \in 1..Len(l) |-> l[i]] /\ Len(l) \in Nat
    BY <1>1
  <1> DEFINE k == Len(l)
  <1> HIDE DEF k
  <1>4. l \in [1..k -> Char] /\ l \in [1..k -> Plain] /\ k \in Nat
    BY <1>2, <1>3 DEF k
  <1>5. l \in Seq(Char) /\ l \in Seq(Plain)
    BY ONLY <1>4, IsSeq
  <1> QED
    BY <1>1, <1>5

LEMMA WildcardsType == Plus \in Seq(Char) /\ Hash \in Seq(Char)
  <1>1. "+" \in Char /\ "#" \in Char
    BY Zenon DEF Char
  <1> QED
    BY <1>1 DEF Plus, Hash

LEMMA TopicIs ==
  ASSUME NEW t \in Topics
  PROVE  /\ t \in Seq(Seq(Char)) /\ Len(t) # 0 /\ t # << <<>> >>
         /\ \A i \in 1..Len(t) : \A j \in 1..Len(t[i]) : t[i][j] \notin {"/", "+", "#"}
  <1>1. t \in SequencesOf(Level, MaxLevels) /\ t # << <<>> >> /\ MaxLevels \in Nat
    BY FormatsAssumption, Zenon DEF Topics
  <1>2. t \in Seq(Level) /\ Len(t) \in 1..MaxLevels /\ \A i \in 1..Len(t) : t[i] \in Level
    BY <1>1, InSequencesOf, Zenon
  <1>3. Level \subseteq Seq(Char)
    BY LevelIs
  <1>4. t \in Seq(Seq(Char))
    BY <1>2, <1>3
  <1>5. Len(t) # 0
    BY <1>1, <1>2
  <1> QED
    BY <1>1, <1>2, <1>4, <1>5, LevelIs, Zenon

LEMMA FilterIs ==
  ASSUME NEW f \in Filters
  PROVE  /\ f \in Seq(Seq(Char)) /\ Len(f) # 0
         /\ \A i \in 1..Len(f) : f[i] \in Level \cup {Plus, Hash}
  <1> DEFINE S == Level \cup {Plus}
             T == Level \cup {Plus, Hash}
             plain == SequencesOf(S, MaxLevels)
  <1>1. MaxLevels \in Nat
    BY FormatsAssumption
  <1>2. T \subseteq Seq(Char)
    BY LevelIs, WildcardsType, Zenon
  <1>3. f \in plain \/ \E g \in plain \cup {<<>>} : f = Append(g, Hash)
    BY Zenon DEF Filters
  <1>4. ASSUME NEW g \in plain
        PROVE  g \in Seq(T) /\ Len(g) # 0
    <2>1. g \in Seq(S) /\ Len(g) \in 1..MaxLevels
      BY <1>1, InSequencesOf, Zenon
    <2>2. S \subseteq T
      OBVIOUS
    <2> HIDE DEF S, T, plain
    <2> QED
      BY <1>1, <2>1, <2>2
  <1>5. f \in Seq(T) /\ Len(f) # 0
    <2>1. CASE f \in plain
      BY <1>4, <2>1, Zenon
    <2>2. CASE \E g \in plain \cup {<<>>} : f = Append(g, Hash)
      <3>1. PICK g \in plain \cup {<<>>} : f = Append(g, Hash)
        BY <2>2, Zenon
      <3>2. Hash \in T
        OBVIOUS
      <3> HIDE DEF T
      <3>3. g \in Seq(T)
        BY <1>4, EmptySeq
      <3> HIDE DEF plain
      <3>4. Append(g, Hash) \in Seq(T) /\ Len(Append(g, Hash)) = Len(g) + 1 /\ Len(g) \in Nat
        BY ONLY <3>2, <3>3, AppendProperties, LenProperties
      <3> QED
        BY ONLY <3>1, <3>4
    <2> QED
      BY <1>3, <2>1, <2>2
  <1> HIDE DEF T
  <1>6. \A i \in 1..Len(f) : f[i] \in T
    BY <1>5, ElementOfSeq
  <1>7. f \in Seq(Seq(Char))
    BY <1>2, <1>5
  <1> QED
    BY <1>5, <1>6, <1>7, Zenon DEF T

LEMMA PlainWritten ==
  ASSUME NEW f \in Seq(Seq(Plain))
  PROVE  Written(f) \in Seq(Plain)
  <1> DEFINE n == Len(f)
             s == [i \in 1..n |-> (IF i = 1 THEN <<>> ELSE <<"/">>) \o f[i]]
             S == Seq(Plain)
  <1>1. n \in Nat /\ \A i \in 1..n : f[i] \in S
    BY ElementOfSeq, LenProperties
  <1>2. <<"/">> \in S /\ <<>> \in S
    <2>1. "/" \in Plain
      <3>1. "/" \in Char
        BY Zenon DEF Char
      <3>2. "/" \notin {"+", "#"}
        OBVIOUS
      <3> QED
        BY <3>1, <3>2, Zenon DEF Plain
    <2> QED
      BY ONLY <2>1
  <1>3. ASSUME NEW i \in 1..n
        PROVE  (IF i = 1 THEN <<>> ELSE <<"/">>) \o f[i] \in S
    <2> DEFINE a == IF i = 1 THEN <<>> ELSE <<"/">>
               b == f[i]
    <2>1. a \in S /\ b \in S
      BY <1>1, <1>2
    <2> HIDE DEF a, b
    <2>2. a \o b \in S
      BY ONLY <2>1, ConcatProperties
    <2> QED
      BY <2>2 DEF a, b
  <1>4. s \in [1..n -> S]
    BY <1>3, Zenon
  <1> HIDE DEF S, n, s
  <1>5. s \in Seq(S)
    BY <1>1, <1>4, IsSeq
  <1>6. Written(f) = FlattenSeq(s)
    BY Zenon DEF Written, Joined, s, n
  <1> QED
    BY <1>5, <1>6, FlattenType DEF S

LEMMA TopicsAreMatched ==
  ASSUME NEW fl \in Filters, NEW tl \in Topics
  PROVE  LET filter == Written(fl)
             topic  == Written(tl)
         IN  /\ Matches(fl, tl) => _is_topic_matched(filter, topic)
             /\ (\A i \in 1..Len(fl) : fl[i] \notin {Plus, Hash}) =>
                  (_is_topic_matched(filter, topic) <=> _is_topic_equals(filter, topic))
  <1> DEFINE F == Written(fl)
             T == Written(tl)
  <1>1. /\ fl \in Seq(Seq(Char)) /\ Len(fl) # 0
        /\ \A i \in 1..Len(fl) : fl[i] \in Level \cup {Plus, Hash}
    BY FilterIs, Zenon
  <1>2. /\ tl \in Seq(Seq(Char)) /\ Len(tl) # 0 /\ tl # << <<>> >>
        /\ \A i \in 1..Len(tl) : \A j \in 1..Len(tl[i]) : tl[i][j] \notin {"/", "+", "#"}
    BY TopicIs, Zenon
  <1>3. Matches(fl, tl) => _is_topic_matched(F, T)
    BY <1>1, <1>2, MatchingFilter, Zenon
  <1>4. ASSUME \A i \in 1..Len(fl) : fl[i] \notin {Plus, Hash}
        PROVE  _is_topic_matched(F, T) <=> _is_topic_equals(F, T)
    <2>1. F \in Seq(Char) /\ T \in Seq(Char)
      BY <1>1, <1>2, LayoutsExist, Zenon
    <2>2. fl \in Seq(Seq(Plain))
      <3>1. \A i \in 1..Len(fl) : fl[i] \in Seq(Plain)
        BY <1>1, <1>4, LevelIs, Zenon
      <3> DEFINE S == Seq(Plain)
                 U == Seq(Char)
                 n == Len(fl)
      <3>2. fl \in Seq(U) /\ \A i \in 1..Len(fl) : fl[i] \in S
        BY <1>1, <3>1, Zenon
      <3> HIDE DEF S, U
      <3>3. fl \in Seq(S)
        BY ONLY <3>2
      <3> QED
        BY <3>3 DEF S
    <2>3. \A i \in 1..Len(F) : F[i] \notin {"+", "#"}
      <3>1. F \in Seq(Plain)
        BY <2>2, PlainWritten, Zenon
      <3> HIDE DEF F
      <3>2. \A i \in 1..Len(F) : F[i] \in Plain
        BY <3>1, ElementOfSeq
      <3> QED
        BY <3>2, Zenon DEF Plain
    <2> QED
      BY <2>1, <2>3, PlainFilter, Zenon
  <1> QED
    BY <1>3, <1>4

----------------------------------------------------------------------------
(* The behaviours. *)

(* The input is one for the algorithm that kind names.                     *)
InputType ==
  /\ kind \in {"none", "packet", "topic", "report"}
  /\ kind = "packet" => /\ input.rem_len \in Rem
                        /\ input.size \in BufSize
  /\ kind = "topic"  => /\ input.filter \in Filters
                        /\ input.topic \in Topics
  /\ kind = "report" => /\ input.type \in Types
                        /\ input.properties \in Reports

LEMMA InputTypeHolds == Inputs => []InputType
  <1>1. InputInit => InputType
    BY DEF InputInit, InputType
  <1>2. ASSUME InputType, [InputNext]_<<kind, input>>
        PROVE  InputType'
    <2>1. CASE TakePacket
      BY <2>1 DEF TakePacket, Take, InputType
    <2>2. CASE TakeTopic
      BY <2>2 DEF TakeTopic, Take, InputType
    <2>3. CASE TakeReport
      BY <2>3 DEF TakeReport, Take, InputType
    <2>4. CASE Back
      BY <2>4 DEF Back, InputType
    <2>5. CASE UNCHANGED <<kind, input>>
      BY <1>2, <2>5 DEF InputType
    <2> QED
      BY <1>2, <2>1, <2>2, <2>3, <2>4, <2>5 DEF InputNext
  <1> QED
    BY <1>1, <1>2, PTL DEF Inputs

(* Whatever an application reports, and however short the buffers: the     *)
(* device model publishes the whole of it or nothing, but for a command    *)
(* reply of exactly one character too many.                                *)
THEOREM ReportsPublishedWhole == Inputs => []PublishedIsWhole
  <1>1. InputType => PublishedIsWhole
    <2> SUFFICES ASSUME InputType, kind = "report"
                 PROVE  LET whole     == Whole(input.type, input.properties)
                            published == Published(input.type, input.properties)
                            OneShort  == /\ input.type = "COMMAND"
                                         /\ Len(whole) = DM_MSG_REPORT_BUF_LEN
                        IN  /\ published.ok <=> \/ Len(whole) < DM_MSG_REPORT_BUF_LEN
                                                \/ OneShort
                            /\ published.ok =>
                                 published.text = IF OneShort THEN Front(whole) ELSE whole
      BY Zenon DEF PublishedIsWhole
    <2>1. input.type \in Types /\ input.properties \in Seq(Property) \ {<<>>}
      BY FormatsAssumption DEF InputType
    <2> QED
      BY <2>1, ReportsAreWhole, Zenon
  <1> QED
    BY <1>1, InputTypeHolds, PTL

(* Whatever its length and the size of the buffer: a packet that arrives   *)
(* in time is read to its end and no further, and kept byte for byte       *)
(* exactly if it fits.                                                     *)
THEOREM PacketsReadWhole == Inputs => []FramesKept
  <1>1. InputType => FramesKept
    <2> SUFFICES ASSUME InputType, kind = "packet"
                 PROVE  LET packet == Packet(input.rem_len)
                            read   == _read_mqtt_packet(packet \o NextPacket, input.size)
                        IN  /\ read.left = NextPacket
                            /\ read.ret = IF Len(packet) <= input.size
                                          THEN "SUCCESS" ELSE "BUFFER_TOO_SHORT"
                            /\ read.ret = "SUCCESS" => read.buf = packet
                            /\ get_mqtt_packet_len(input.rem_len) - Len(packet) \in {0, 1}
      BY Zenon DEF FramesKept
    <2>1. input.rem_len \in 0..MaxRemLen /\ input.size \in Nat \ {0, 1}
      BY FormatsAssumption, Zenon DEF InputType
    <2> QED
      BY <2>1, FramesAreKept, Zenon
  <1> QED
    BY <1>1, InputTypeHolds, PTL

(* However many levels they have: no message is kept from the handler of a *)
(* filter it matches by the rules of MQTT, and a filter without wildcards  *)
(* takes its own topic only.                                               *)
THEOREM MessagesReachHandlers == Inputs => []TopicsMatch
  <1>1. InputType => TopicsMatch
    <2> SUFFICES ASSUME InputType, kind = "topic"
                 PROVE  LET filter == Written(input.filter)
                            topic  == Written(input.topic)
                        IN  /\ Matches(input.filter, input.topic) =>
                                 _is_topic_matched(filter, topic)
                            /\ (\A i \in 1..Len(input.filter) :
                                  input.filter[i] \notin {Plus, Hash}) =>
                                 (_is_topic_matched(filter, topic)
                                    <=> _is_topic_equals(filter, topic))
      BY Zenon DEF TopicsMatch
    <2>1. input.filter \in Filters /\ input.topic \in Topics
      BY Zenon DEF InputType
    <2> QED
      BY <2>1, TopicsAreMatched, Zenon
  <1> QED
    BY <1>1, InputTypeHolds, PTL

=============================================================================
