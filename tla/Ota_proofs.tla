----------------------------- MODULE Ota_proofs -----------------------------
(***************************************************************************)
(* Proofs about Ota for any updates, tries and messages: downloads may     *)
(* begin inside each other to any depth.                                   *)
(***************************************************************************)
EXTENDS Ota, SequenceTheorems, TLAPS

Loading(f) == f.pc \in {"fetch", "yield", "check"}

(* Offset, digest and file of a download that goes on.                     *)
Agrees(f) ==
  /\ cur = f.update
  /\ size_fetched = f.base + f.total
  /\ flash[f.update] = SubSeq(md5, f.base + 1, Len(md5))

(* Only the first try of a fetch looks at the state: a download that was   *)
(* cancelled, or whose handle another one has cleared, is refused there.   *)
Stops(f) ==
  /\ f.pc = "yield" => f.tries = 0
  /\ f.pc = "check" => state = "FETCHED"
  /\ f.pc = "fetch" /\ f.tries # 0 => Active
  /\ f.cancelled /\ Loading(f) => ~Active

(* The channel is the download's own until IOT_OTA_Clear.                  *)
Channel(f) ==
  /\ ch_fetch # "NULL"
  /\ f.pc # "pop" /\ (~f.interrupted \/ (Loading(f) /\ Active)) => ch_fetch = "live"

(* What the next download finds in the handle.                             *)
Clean == size_fetched = 0 /\ md5 = <<>>

Good(f) ==
  /\ Loading(f) /\ Active => Agrees(f)
  /\ Stops(f)
  /\ Channel(f)
  /\ f.pc = "pop" => Clean /\ ~Active

(* A download that waits for the one above it; only the lowest one is sure *)
(* to have begun with a clean handle.                                      *)
Waits(f) == f.pc = "yield" /\ f.tries = 0 /\ f.interrupted

Waiting(s) ==
  /\ s \in Seq(Frame)
  /\ \A i \in 1..Len(s) : Waits(s[i])
  /\ s # <<>> => s[1].base = 0

On(s, f) ==
  /\ Waiting(s) /\ f \in Frame
  /\ s = <<>> => f.base = 0
  /\ stack = Append(s, f)

Shape ==
  \/ stack = <<>> /\ Clean
  \/ \E s \in Seq(Frame), f \in Frame : On(s, f) /\ Good(f)

Counted == size_fetched = Len(md5)

IInv == TypeOK /\ Shape /\ Counted /\ SuccessIsWhole

----------------------------------------------------------------------------
(* Stacks. *)

LEMMA FrontLast ==
  ASSUME NEW S, NEW s \in Seq(S), NEW f \in S
  PROVE  /\ Append(s, f) \in Seq(S) /\ Append(s, f) # <<>>
         /\ Len(Append(s, f)) = Len(s) + 1
         /\ Front(Append(s, f)) = s /\ Last(Append(s, f)) = f
         /\ \A i \in 1..Len(s) : Append(s, f)[i] = s[i]
  <1>1. /\ Append(s, f) \in Seq(S) /\ Append(s, f) # <<>>
        /\ Len(Append(s, f)) = Len(s) + 1 /\ Len(s) \in Nat
        /\ \A i \in 1..Len(s) : Append(s, f)[i] = s[i]
        /\ Append(s, f)[Len(s) + 1] = f
    BY AppendProperties
  <1>2. Last(Append(s, f)) = f
    BY <1>1 DEF Last
  <1>3. Front(Append(s, f)) = s
    <2>1. \A i \in 1..Len(s) : Append(s, f)[i] \in S
      BY <1>1
    <2>2. /\ Front(Append(s, f)) \in Seq(S) /\ Len(Front(Append(s, f))) = Len(s)
          /\ \A i \in 1..Len(s) : Front(Append(s, f))[i] = s[i]
      BY <1>1, <2>1, SubSeqProperties DEF Front
    <2> QED
      BY <2>2, SeqEqual
  <1> QED
    BY <1>1, <1>2, <1>3

LEMMA Split ==
  ASSUME NEW S, NEW s \in Seq(S), s # <<>>
  PROVE  \E t \in Seq(S), f \in S : s = Append(t, f)
  <1>1. PICK n \in Nat : Len(s) = n + 1
    <2>1. Len(s) \in Nat \ {0}
      BY EmptySeq
    <2>2. Len(s) - 1 \in Nat /\ Len(s) = (Len(s) - 1) + 1
      BY <2>1
    <2> QED
      BY <2>2
  <1>2. \A i \in 1..n : s[i] \in S
    BY <1>1
  <1>3. /\ SubSeq(s, 1, n) \in Seq(S) /\ Len(SubSeq(s, 1, n)) = n
        /\ \A i \in 1..n : SubSeq(s, 1, n)[i] = s[i]
    BY <1>2, SubSeqProperties
  <1>4. s[n + 1] \in S
    BY <1>1
  <1>5. s = Append(SubSeq(s, 1, n), s[n + 1])
    <2>1. PICK q \in Seq(S) : q = Append(SubSeq(s, 1, n), s[n + 1])
      BY <1>3, <1>4, AppendProperties
    <2>2. Len(q) = n + 1 /\ (\A i \in 1..n : q[i] = s[i]) /\ q[n + 1] = s[n + 1]
      BY <1>3, <1>4, <2>1, AppendProperties
    <2>3. Len(q) = Len(s) /\ \A i \in 1..Len(s) : q[i] = s[i]
      BY <1>1, <2>2
    <2>4. q = s
      BY <2>3, SeqEqual
    <2> QED
      BY <2>1, <2>4
  <1> QED
    BY <1>3, <1>4, <1>5

(* The download on top. *)
LEMMA TopOn ==
  ASSUME NEW s \in Seq(Frame), NEW f \in Frame, On(s, f)
  PROVE  /\ stack # <<>> /\ Top = f /\ Front(stack) = s
         /\ Len(stack) = 1 => s = <<>>
         /\ \A g \in Frame : SetTop(g) <=> stack' = Append(s, g)
  <1>1. stack # <<>> /\ Top = f /\ Front(stack) = s /\ Len(stack) = Len(s) + 1
    BY FrontLast DEF On, Top
  <1>2. Len(stack) = 1 => s = <<>>
    <2>1. s # <<>> => Len(s) \in Nat \ {0}
      BY EmptySeq
    <2> QED
      BY <1>1, <2>1
  <1>3. \A g \in Frame : s \o <<g>> = Append(s, g)
    BY AppendIsConcat
  <1> QED
    BY <1>1, <1>2, <1>3 DEF SetTop

(* What may be below a download that starts: a stack whose top yields.     *)
Idle(b) ==
  \/ b = <<>> /\ Clean
  \/ \E t \in Seq(Frame), h \in Frame :
       /\ Waiting(t) /\ b = Append(t, h)
       /\ t = <<>> => h.base = 0
       /\ h.pc = "yield" /\ h.tries = 0

LEMMA AppendWaiting ==
  ASSUME NEW t, Waiting(t), NEW h \in Frame, Waits(h), t = <<>> => h.base = 0
  PROVE  Waiting(Append(t, h))
  <1>1. t \in Seq(Frame) /\ Len(t) \in Nat
    BY DEF Waiting
  <1>2. /\ Append(t, h) \in Seq(Frame) /\ Len(Append(t, h)) = Len(t) + 1
        /\ \A i \in 1..Len(t) : Append(t, h)[i] = t[i]
        /\ Append(t, h)[Len(t) + 1] = h
    BY <1>1, AppendProperties
  <1>3. \A i \in 1..(Len(t) + 1) : Waits(Append(t, h)[i])
    BY <1>1, <1>2 DEF Waiting
  <1>4. Append(t, h)[1].base = 0
    <2>1. CASE t = <<>>
      BY <1>2, <2>1
    <2>2. CASE t # <<>>
      <3>1. Len(t) \in Nat \ {0}
        BY <1>1, <2>2, EmptySeq
      <3> QED
        BY <1>2, <2>2, <3>1 DEF Waiting
    <2> QED
      BY <2>1, <2>2
  <1> QED
    BY <1>2, <1>3, <1>4 DEF Waiting

LEMMA UnderWaiting ==
  ASSUME NEW t \in Seq(Frame), NEW h \in Frame, Waiting(Append(t, h))
  PROVE  Waiting(t) /\ Waits(h) /\ (t = <<>> => h.base = 0)
  <1>1. /\ Len(Append(t, h)) = Len(t) + 1 /\ Append(t, h) # <<>> /\ Len(t) \in Nat
        /\ \A i \in 1..Len(t) : Append(t, h)[i] = t[i]
        /\ Append(t, h)[Len(t) + 1] = h
    BY AppendProperties
  <1>2. \A i \in 1..Len(t) : Waits(t[i])
    BY <1>1 DEF Waiting
  <1>3. Waits(h)
    BY <1>1 DEF Waiting
  <1>4. t = <<>> => h.base = 0
    BY <1>1 DEF Waiting
  <1>5. t # <<>> => t[1].base = 0
    BY <1>1, EmptySeq DEF Waiting
  <1> QED
    BY <1>2, <1>3, <1>4, <1>5 DEF Waiting

LEMMA WaitingIsIdle ==
  ASSUME NEW s, Waiting(s), s = <<>> => Clean
  PROVE  Idle(s)
  <1>1. CASE s # <<>>
    <2>1. PICK t \in Seq(Frame), h \in Frame : s = Append(t, h)
      BY <1>1, Split DEF Waiting
    <2>2. Waiting(t) /\ Waits(h) /\ (t = <<>> => h.base = 0)
      BY <2>1, UnderWaiting
    <2> QED
      BY <2>1, <2>2 DEF Idle, Waits
  <1> QED
    BY <1>1 DEF Idle

LEMMA InterruptIdle ==
  ASSUME NEW b, Idle(b)
  PROVE  Waiting(Interrupt(b)) /\ (Interrupt(b) = <<>> => Clean)
  <1>1. CASE b = <<>> /\ Clean
    BY <1>1, EmptySeq DEF Interrupt, Waiting
  <1>2. ASSUME NEW t \in Seq(Frame), NEW h \in Frame,
               Waiting(t), b = Append(t, h), t = <<>> => h.base = 0,
               h.pc = "yield", h.tries = 0
        PROVE  Waiting(Interrupt(b)) /\ Interrupt(b) # <<>>
    <2>1. PICK g : g = [h EXCEPT !.interrupted = TRUE]
      OBVIOUS
    <2>2. g \in Frame /\ Waits(g) /\ g.base = h.base
      BY <1>2, <2>1 DEF Frame, Waits
    <2>3. b # <<>> /\ Front(b) = t /\ Last(b) = h
      BY <1>2, FrontLast
    <2>4. Interrupt(b) = t \o <<g>>
      BY <2>1, <2>3 DEF Interrupt
    <2>5. Interrupt(b) = Append(t, g)
      BY <2>2, <2>4, AppendIsConcat
    <2> QED
      BY <1>2, <2>2, <2>5, AppendWaiting, FrontLast
  <1> QED
    BY <1>1, <1>2 DEF Idle

----------------------------------------------------------------------------
(* Bytes of the image, or others. *)
LEMMA PieceType ==
  ASSUME cur \in Update, size_fetched \in Nat, NEW d \in Piece
  PROVE  d \in Seq(Byte)
  <1>1. Size[cur] \in Nat \ {0}
    BY OtaAssumption
  <1>2. Image(cur) \in Seq(Byte) /\ Len(Image(cur)) = Size[cur]
    BY <1>1 DEF Image, Byte
  <1>3. CASE d \in {<<BAD>>, <<BAD, BAD>>}
    <2>1. BAD \in Byte
      BY DEF Byte
    <2>2. <<BAD>> \in Seq(Byte) /\ <<BAD, BAD>> \in Seq(Byte)
      BY <2>1
    <2> QED
      BY <1>3, <2>2
  <1>4. ASSUME NEW i \in size_fetched + 1 .. Size[cur],
               d = SubSeq(Image(cur), size_fetched + 1, i)
        PROVE  d \in Seq(Byte)
    <2>1. size_fetched + 1 \in Int /\ i \in Int
      BY <1>1, <1>4
    <2>2. \A j \in size_fetched + 1 .. i : j \in 1 .. Size[cur]
      BY <1>1, <1>4
    <2>3. \A j \in size_fetched + 1 .. i : Image(cur)[j] \in Byte
      BY <1>2, <2>2
    <2>4. SubSeq(Image(cur), size_fetched + 1, i) \in Seq(Byte)
      BY <2>1, <2>3, SubSeqProperties
    <2> QED
      BY <1>4, <2>4
  <1> QED
    BY <1>3, <1>4 DEF Piece

LEMMA InitIInv == Init => IInv
  BY OtaAssumption
  DEF Init, IInv, TypeOK, Shape, Clean, Counted, SuccessIsWhole, State

(* Starting a download, on an empty stack or inside another one. *)
LEMMA StartShape ==
  ASSUME TypeOK, Counted, NEW b, Idle(b), NEW u \in Update, Start(u, b)
  PROVE  /\ state' \in State /\ cur' \in Update /\ ch_fetch' = "live"
         /\ link' \in {"up", "down", "closed"}
         /\ flash' \in [Update -> Seq(Byte)] /\ stack' \in Seq(Frame)
         /\ Shape'
  <1>0. ch_fetch' = "live" /\ cur' = u /\ UNCHANGED <<size_fetched, md5>>
    BY DEF Start
  <1>1. CASE u \in BadUrl
    <2>1. stack' = b /\ state' = "DISCONNECTED" /\ link' = "closed" /\ UNCHANGED flash
      BY <1>1 DEF Start
    <2>2. CASE b = <<>> /\ Clean
      BY <1>0, <2>1, <2>2 DEF TypeOK, Shape, Clean, State
    <2>3. ASSUME NEW t \in Seq(Frame), NEW h \in Frame,
                 Waiting(t), b = Append(t, h), t = <<>> => h.base = 0,
                 h.pc = "yield", h.tries = 0
          PROVE  stack' \in Seq(Frame) /\ Shape'
      <3>1. On(t, h)'
        BY <2>1, <2>3 DEF On
      <3>2. Good(h)'
        BY <1>0, <2>1, <2>3 DEF Good, Loading, Active, Stops, Channel
      <3> QED
        BY <2>1, <2>3, <3>1, <3>2, FrontLast DEF Shape
    <2> QED
      BY <1>0, <2>1, <2>2, <2>3 DEF TypeOK, Idle, State
  <1>2. CASE u \notin BadUrl
    <2>1. PICK opened \in BOOLEAN :
            /\ stack' = Append(Interrupt(b),
                 [update |-> u, pc |-> IF opened THEN "fetch" ELSE "exit",
                  tries |-> 0, total |-> 0, ok |-> opened, cancelled |-> FALSE,
                  base |-> size_fetched, interrupted |-> FALSE])
            /\ flash' = IF opened THEN [flash EXCEPT ![u] = <<>>] ELSE flash
      BY <1>2 DEF Start
    <2>2. PICK g : g = [update |-> u, pc |-> IF opened THEN "fetch" ELSE "exit",
                        tries |-> 0, total |-> 0, ok |-> opened, cancelled |-> FALSE,
                        base |-> size_fetched, interrupted |-> FALSE]
      OBVIOUS
    <2>3. g \in Frame /\ g.pc = (IF opened THEN "fetch" ELSE "exit") /\ g.update = u
          /\ g.tries = 0 /\ g.total = 0 /\ ~g.cancelled /\ g.base = size_fetched
      BY <2>2, OtaAssumption DEF Frame, TypeOK
    <2>4. Waiting(Interrupt(b)) /\ (Interrupt(b) = <<>> => Clean)
      BY InterruptIdle
    <2>5. stack' = Append(Interrupt(b), g)
      BY <2>1, <2>2
    <2>6. state' = "FETCHING" /\ link' \in {"up", "down"}
      BY <1>2 DEF Start
    <2>7. flash' \in [Update -> Seq(Byte)] /\ (opened => flash'[u] = <<>>)
      BY <2>1 DEF TypeOK
    <2>8. SubSeq(md5, size_fetched + 1, Len(md5)) = <<>>
      <3>1. Len(md5) = size_fetched /\ size_fetched \in Nat
        BY DEF Counted, TypeOK
      <3>2. size_fetched + 1 \in Int /\ Len(md5) \in Int /\ Len(md5) < size_fetched + 1
        BY <3>1
      <3> QED
        BY <3>2, SubSeqEmpty
    <2>9. Good(g)'
      <3>1. Stops(g)'
        BY <2>3, <2>6 DEF Stops
      <3>2. Channel(g)'
        BY <1>0 DEF Channel
      <3>3. Loading(g) => Agrees(g)'
        <4>1. g.base + g.total = size_fetched /\ g.base + 1 = size_fetched + 1
          BY <2>3 DEF TypeOK
        <4> QED
          BY <1>0, <2>3, <2>7, <2>8, <4>1 DEF Agrees, Loading
      <3> QED
        BY <2>3, <3>1, <3>2, <3>3 DEF Good, Loading
    <2>10. On(Interrupt(b), g)'
      BY <2>3, <2>4, <2>5 DEF On, Clean
    <2>11. stack' \in Seq(Frame)
      BY <2>3, <2>4, <2>5, FrontLast DEF Waiting
    <2>12. Shape'
      BY <2>3, <2>4, <2>9, <2>10 DEF Shape, Waiting
    <2> QED
      BY <1>0, <2>6, <2>7, <2>11, <2>12 DEF State
  <1> QED
    BY <1>1, <1>2

(* The two places where a download starts.                                 *)
LEMMA StartIInv ==
  ASSUME IInv, NEW b, Idle(b), NEW u \in Update, Start(u, b), UNCHANGED reported,
         msg_list' \in Seq(Update), messages' \in 0..MaxMessages
  PROVE  IInv'
  <1>1. TypeOK /\ Counted /\ SuccessIsWhole
    BY DEF IInv
  <1>2. UNCHANGED <<size_fetched, md5>>
    BY DEF Start
  <1>3. SuccessIsWhole' /\ Counted'
    BY <1>1, <1>2 DEF SuccessIsWhole, Image, Counted
  <1>4. TypeOK' /\ Shape'
    BY <1>1, <1>2, StartShape DEF TypeOK
  <1> QED
    BY <1>3, <1>4 DEF IInv

(* A step of the download on top leaves those below it alone.              *)
LEMMA FrameStep ==
  ASSUME IInv, NEW s \in Seq(Frame), Waiting(s), NEW g \in Frame,
         s = <<>> => g.base = 0,
         stack' = Append(s, g), Good(g)', SuccessIsWhole', Counted',
         state' \in State, cur' \in Update \cup {NULL},
         ch_fetch' \in {"NULL", "live", "freed"}, link' \in {"up", "down", "closed"},
         size_fetched' \in Nat, md5' \in Seq(Byte), msg_list' \in Seq(Update),
         flash' \in [Update -> Seq(Byte)], messages' \in 0..MaxMessages,
         reported' \subseteq [update : Update, file : Seq(Byte), cancelled : BOOLEAN]
  PROVE  IInv'
  <1>1. stack' \in Seq(Frame)
    BY FrontLast
  <1>2. TypeOK'
    BY <1>1 DEF TypeOK
  <1>3. Shape'
    BY DEF Shape, On
  <1> QED
    BY <1>2, <1>3 DEF IInv

LEMMA UpdateIInv ==
  ASSUME IInv, NEW u \in Update, _ota_callback_Update(u)
  PROVE  IInv'
  <1>1. messages' \in 0..MaxMessages /\ UNCHANGED reported
    BY OtaAssumption DEF _ota_callback_Update, IInv, TypeOK
  <1>2. CASE _ota_push_upload_msg(u)
    <2>1. TypeOK'
      BY <1>1, <1>2 DEF _ota_push_upload_msg, IInv, TypeOK, handle
    <2>2. Shape' /\ Counted' /\ SuccessIsWhole'
      BY <1>1, <1>2
      DEF _ota_push_upload_msg, IInv, Shape, On, Good, Agrees, Stops, Channel, Loading, Active,
          Clean, Counted, SuccessIsWhole, Image, handle
    <2> QED
      BY <2>1, <2>2 DEF IInv
  <1>3. CASE Start(u, stack) /\ UNCHANGED msg_list
    <2>1. Idle(stack)
      <3>1. CASE stack = <<>> /\ Clean
        BY <3>1 DEF Idle
      <3>2. ASSUME NEW s \in Seq(Frame), NEW f \in Frame, On(s, f), Good(f)
            PROVE  Idle(stack)
        <4>1. f.pc = "yield"
          BY <3>2, TopOn DEF _ota_callback_Update, Yielding
        <4>2. f.tries = 0
          BY <3>2, <4>1 DEF Good, Stops
        <4> QED
          BY <3>2, <4>1, <4>2 DEF On, Idle
      <3> QED
        BY <3>1, <3>2 DEF IInv, Shape
    <2> QED
      BY <1>1, <1>3, <2>1, StartIInv DEF IInv, TypeOK
  <1> QED
    BY <1>2, <1>3 DEF _ota_callback_Update

LEMMA CancelIInv ==
  ASSUME IInv, NEW u \in Update, _ota_callback_Cancel(u)
  PROVE  IInv'
  <1> USE DEF _ota_callback_Cancel
  <1>1. TypeOK /\ Shape /\ Counted /\ SuccessIsWhole
    BY DEF IInv
  <1>2. SuccessIsWhole' /\ Counted'
    BY <1>1 DEF SuccessIsWhole, Image, Counted
  <1>3. messages' \in 0..MaxMessages /\ state' \in State /\ link' \in {"up", "down", "closed"}
    BY <1>1, OtaAssumption DEF TypeOK, State
  <1>4. CASE stack = <<>> /\ Clean
    <2>1. Shape'
      BY <1>4 DEF Shape, Clean
    <2>2. TypeOK'
      BY <1>1, <1>3, <1>4 DEF TypeOK
    <2> QED
      BY <1>2, <2>1, <2>2 DEF IInv
  <1>5. ASSUME NEW s \in Seq(Frame), NEW f \in Frame, On(s, f), Good(f)
        PROVE  IInv'
    <2>1. Top = f /\ stack # <<>> /\ \A g \in Frame : SetTop(g) <=> stack' = Append(s, g)
      BY <1>5, TopOn
    <2>2. PICK g : g = [f EXCEPT !.cancelled = @ \/ f.update = u]
      OBVIOUS
    <2>3. g \in Frame /\ f.pc = "yield" /\ g.pc = "yield" /\ g.tries = f.tries
          /\ g.update = f.update /\ g.base = f.base /\ g.total = f.total
          /\ g.interrupted = f.interrupted /\ g.cancelled = (f.cancelled \/ f.update = u)
      BY <1>5, <2>1, <2>2 DEF Frame, Yielding
    <2>4. stack' = Append(s, g)
      BY <2>1, <2>2, <2>3
    <2>5. UNCHANGED <<cur, ch_fetch, size_fetched, md5, msg_list, flash, reported>>
      OBVIOUS
    <2>6. Active' => UNCHANGED state /\ ~(ch_fetch # "NULL" /\ cur = u)
      BY DEF Active
    <2>7. Good(g)'
      <3>1. Active' => Agrees(g)'
        BY <1>5, <2>3, <2>5, <2>6 DEF Good, Agrees, Active, Loading
      <3>2. Stops(g)'
        BY <1>5, <2>3, <2>5, <2>6 DEF Good, Agrees, Stops, Channel, Active, Loading
      <3>3. Channel(g)'
        BY <1>5, <2>3, <2>5, <2>6 DEF Good, Channel, Active, Loading
      <3> QED
        BY <2>3, <3>1, <3>2, <3>3 DEF Good
    <2> QED
      BY <1>1, <1>2, <1>3, <1>5, <2>3, <2>4, <2>5, <2>7, FrameStep DEF TypeOK, On
  <1> QED
    BY <1>1, <1>4, <1>5 DEF Shape

----------------------------------------------------------------------------
(* The steps of IOT_OTA_fw_download, with the frame at hand. *)

SameDownload(f, g) ==
  /\ g.update = f.update /\ g.cancelled = f.cancelled
  /\ g.base = f.base /\ g.interrupted = f.interrupted

LEMMA ExitFrame ==
  ASSUME NEW f \in Frame
  PROVE  [f EXCEPT !.pc = "exit", !.ok = FALSE, !.tries = 0] \in Frame
  <1>1. 0 \in 0..(MAX_RETRY - 1)
    BY OtaAssumption
  <1> DEFINE Tries == 0..(MAX_RETRY - 1)
  <1>2. Frame = [update : Update, pc : {"fetch", "yield", "check", "exit", "pop"},
                 tries : Tries, total : Nat, ok : BOOLEAN, cancelled : BOOLEAN,
                 base : Nat, interrupted : BOOLEAN]
    BY DEF Frame
  <1> HIDE DEF Tries
  <1> QED
    BY <1>1, <1>2 DEF Tries

LEMMA FailEffect ==
  ASSUME NEW s \in Seq(Frame), NEW f \in Frame, On(s, f), Fail
  PROVE  \E g \in Frame : stack' = Append(s, g) /\ g.pc = "exit" /\ SameDownload(f, g)
  <1>1. Top = f /\ \A g \in Frame : SetTop(g) <=> stack' = Append(s, g)
    BY TopOn
  <1>2. PICK g : g = [f EXCEPT !.pc = "exit", !.ok = FALSE, !.tries = 0]
    OBVIOUS
  <1>3. g \in Frame
    BY <1>2, ExitFrame
  <1>4. stack' = Append(s, g)
    BY <1>1, <1>2, <1>3 DEF Fail
  <1>5. g.pc = "exit" /\ SameDownload(f, g)
    BY <1>2 DEF Frame, SameDownload
  <1> QED
    BY <1>3, <1>4, <1>5

LEMMA NextTryEffect ==
  ASSUME NEW s \in Seq(Frame), NEW f \in Frame, On(s, f), NextTry
  PROVE  \E g \in Frame : /\ stack' = Append(s, g) /\ SameDownload(f, g)
                          /\ g.pc = "exit" \/ (g.pc = f.pc /\ g.total = f.total)
  <1>1. Top = f /\ \A g \in Frame : SetTop(g) <=> stack' = Append(s, g)
    BY TopOn
  <1>2. CASE f.tries + 1 = MAX_RETRY
    BY <1>1, <1>2, FailEffect DEF NextTry
  <1>3. CASE f.tries + 1 # MAX_RETRY
    <2>1. PICK g : g = [f EXCEPT !.tries = f.tries + 1]
      OBVIOUS
    <2>2. g \in Frame
      <3> DEFINE Tries == 0..(MAX_RETRY - 1)
      <3>1. Frame = [update : Update, pc : {"fetch", "yield", "check", "exit", "pop"},
                     tries : Tries, total : Nat, ok : BOOLEAN, cancelled : BOOLEAN,
                     base : Nat, interrupted : BOOLEAN]
        BY DEF Frame
      <3>2. f.tries + 1 \in Tries
        <4>1. f.tries \in 0..(MAX_RETRY - 1)
          BY DEF Frame
        <4> QED
          BY <1>3, <4>1, OtaAssumption
      <3> HIDE DEF Tries
      <3> QED
        BY <2>1, <3>1, <3>2
    <2>3. stack' = Append(s, g)
      BY <1>1, <1>3, <2>1, <2>2 DEF NextTry
    <2>4. SameDownload(f, g) /\ g.pc = f.pc /\ g.total = f.total
      BY <2>1 DEF Frame, SameDownload
    <2> QED
      BY <2>2, <2>3, <2>4
  <1> QED
    BY <1>2, <1>3

(* A fetch is under way: the handle is this download's.                    *)
LEMMA FetchingMeans ==
  ASSUME IInv, NEW s \in Seq(Frame), NEW f \in Frame, On(s, f), Good(f), Fetching
  PROVE  /\ f.pc = "fetch" /\ Active /\ ~f.cancelled /\ Top = f
         /\ Agrees(f) /\ ch_fetch = "live"
  <1>1. Top = f
    BY TopOn
  <1>2. f.pc = "fetch" /\ Active
    BY <1>1 DEF Fetching, At, Good, Stops, Active
  <1> QED
    BY <1>1, <1>2 DEF Good, Stops, Channel, Loading

(* The download ends and has changed nothing of the handle.                *)
LEMMA RefusedIInv ==
  ASSUME IInv, NEW s \in Seq(Frame), NEW f \in Frame, On(s, f), Good(f),
         IOT_OTA_FetchYield_Refused \/ IOT_OTA_FetchYield_Empty
  PROVE  IInv'
  <1> USE DEF IOT_OTA_FetchYield_Refused, IOT_OTA_FetchYield_Empty
  <1>1. PICK g \in Frame : stack' = Append(s, g) /\ g.pc = "exit" /\ SameDownload(f, g)
    BY FailEffect
  <1>2. f.pc = "fetch"
    BY TopOn DEF At, Fetching
  <1>3. UNCHANGED <<handle, msg_list, flash, reported, messages>>
    OBVIOUS
  <1>4. Good(g)'
    BY <1>1, <1>2, <1>3 DEF Good, Stops, Channel, Loading, Active, handle, SameDownload
  <1>5. SuccessIsWhole' /\ Counted'
    BY <1>3 DEF IInv, SuccessIsWhole, Image, Counted, handle
  <1> QED
    BY <1>1, <1>3, <1>4, <1>5, FrameStep DEF IInv, TypeOK, handle, On, SameDownload

(* What follows the first b elements grows by what is appended.            *)
LEMMA GrowingEnd ==
  ASSUME NEW S, NEW m \in Seq(S), NEW d \in Seq(S), NEW b \in Nat, b <= Len(m)
  PROVE  SubSeq(m \o d, b + 1, Len(m) + Len(d)) = SubSeq(m, b + 1, Len(m)) \o d
  <1>1. Len(m) \in Nat /\ Len(d) \in Nat
    BY LenProperties
  <1>2. (m \o d) \in Seq(S) /\ Len(m \o d) = Len(m) + Len(d)
    BY ConcatProperties
  <1>3. SubSeq(m \o d, b + 1, Len(m)) = SubSeq(m, b + 1, Len(m))
    <2>1. CASE b = Len(m)
      <3>1. b + 1 \in Int /\ Len(m) \in Int /\ Len(m) < b + 1
        BY <1>1, <2>1
      <3> QED
        BY <3>1, SubSeqEmpty
    <2>2. CASE b # Len(m)
      <3>1. b + 1 \in 1..Len(m) /\ Len(m) \in 1..Len(m)
        BY <1>1, <2>2
      <3> QED
        BY ONLY m \in Seq(S), d \in Seq(S), <3>1, SubSeqOfConcat1
    <2> QED
      BY <2>1, <2>2
  <1>4. SubSeq(m \o d, Len(m) + 1, Len(m) + Len(d)) = d
    <2>1. CASE Len(d) = 0
      <3>1. d = <<>>
        BY <2>1, EmptySeq
      <3>2. Len(m) + 1 \in Int /\ Len(m) + Len(d) \in Int /\ Len(m) + Len(d) < Len(m) + 1
        BY <1>1, <2>1
      <3> QED
        BY <3>1, <3>2, SubSeqEmpty
    <2>2. CASE Len(d) # 0
      <3>1. /\ Len(m) + 1 \in Len(m) + 1 .. Len(m) + Len(d)
            /\ Len(m) + Len(d) \in Len(m) + 1 .. Len(m) + Len(d)
        BY <1>1, <2>2
      <3>2. SubSeq(m \o d, Len(m) + 1, Len(m) + Len(d))
              = SubSeq(d, Len(m) + 1 - Len(m), Len(m) + Len(d) - Len(m))
        BY ONLY m \in Seq(S), d \in Seq(S), <3>1, SubSeqOfConcat2
      <3>3. Len(m) + 1 - Len(m) = 1 /\ Len(m) + Len(d) - Len(m) = Len(d)
        BY <1>1
      <3>4. SubSeq(d, 1, Len(d)) = d
        BY SubSeqFull
      <3> QED
        BY <3>2, <3>3, <3>4
    <2> QED
      BY <2>1, <2>2
  <1>5. /\ b + 1 \in 1 .. Len(m \o d) + 1 /\ Len(m) \in (b + 1) - 1 .. Len(m \o d)
        /\ Len(m \o d) \in Len(m) .. Len(m \o d)
    BY <1>1, <1>2
  <1>6. SubSeq(m \o d, b + 1, Len(m)) \o SubSeq(m \o d, Len(m) + 1, Len(m \o d))
          = SubSeq(m \o d, b + 1, Len(m \o d))
    BY ONLY <1>2, <1>5, ConcatAdjacentSubSeq
  <1> QED
    BY <1>2, <1>3, <1>4, <1>6

(* The piece is digested and counted; it is also written, or the download  *)
(* ends: the digest ends in what the file holds as long as it goes on.     *)
LEMMA DataIInv ==
  ASSUME IInv, NEW s \in Seq(Frame), NEW f \in Frame, On(s, f), Good(f),
         IOT_OTA_FetchYield_Data
  PROVE  IInv'
  <1>1. f.pc = "fetch" /\ Active /\ ~f.cancelled /\ Top = f /\ ch_fetch = "live"
        /\ cur = f.update /\ size_fetched = f.base + f.total
        /\ flash[f.update] = SubSeq(md5, f.base + 1, Len(md5))
    BY FetchingMeans DEF IOT_OTA_FetchYield_Data, Agrees
  <1>2. PICK d \in Piece, written \in BOOLEAN :
          /\ md5' = md5 \o d
          /\ size_fetched' = size_fetched + Len(d)
          /\ state' = IF IsFetched THEN "FETCHED" ELSE state
          /\ IF written
             THEN /\ flash' = [flash EXCEPT ![f.update] = @ \o d]
                  /\ SetTop([f EXCEPT !.pc = "yield", !.tries = 0, !.total = @ + Len(d)])
             ELSE Fail /\ UNCHANGED flash
    BY <1>1, Zenon DEF IOT_OTA_FetchYield_Data
  <1>3. UNCHANGED <<cur, ch_fetch, link, msg_list, reported, messages>>
    BY DEF IOT_OTA_FetchYield_Data
  <1>4. /\ f.update \in Update /\ size_fetched \in Nat /\ md5 \in Seq(Byte)
        /\ flash \in [Update -> Seq(Byte)] /\ state \in State
        /\ f.base \in Nat /\ f.total \in Nat /\ size_fetched = Len(md5)
    BY DEF IInv, TypeOK, Frame, Counted
  <1>5. d \in Seq(Byte) /\ Len(d) \in Nat
    BY <1>1, <1>4, PieceType
  <1>6. md5' \in Seq(Byte) /\ size_fetched' \in Nat /\ Len(md5') = Len(md5) + Len(d)
    BY <1>2, <1>4, <1>5
  <1>7. flash' \in [Update -> Seq(Byte)] /\ state' \in State
    <2>1. flash[f.update] \o d \in Seq(Byte)
      BY <1>4, <1>5
    <2> QED
      BY <1>2, <1>4, <2>1 DEF State
  <1>8. SuccessIsWhole' /\ Counted'
    BY <1>2, <1>3, <1>4, <1>6 DEF IInv, SuccessIsWhole, Image, Counted
  <1>9. \E g \in Frame : stack' = Append(s, g) /\ g.base = f.base /\ Good(g)'
    <2>1. CASE written
      <3>1. PICK g : g = [f EXCEPT !.pc = "yield", !.tries = 0, !.total = f.total + Len(d)]
        OBVIOUS
      <3>2. 0 \in 0..(MAX_RETRY - 1) /\ f.total + Len(d) \in Nat
        BY <1>4, <1>5, OtaAssumption
      <3>3. g \in Frame /\ g.pc = "yield" /\ g.tries = 0 /\ ~g.cancelled
            /\ g.update = f.update /\ g.total = f.total + Len(d) /\ g.base = f.base
        BY <1>1, <3>1, <3>2 DEF Frame
      <3>4. stack' = Append(s, g)
        BY <1>2, <2>1, <3>1, <3>3, TopOn
      <3>5. flash'[g.update] = SubSeq(md5', g.base + 1, Len(md5'))
        <4>1. f.base <= Len(md5)
          BY <1>1, <1>4
        <4>2. SubSeq(md5 \o d, f.base + 1, Len(md5) + Len(d))
                = SubSeq(md5, f.base + 1, Len(md5)) \o d
          BY <1>4, <1>5, <4>1, GrowingEnd
        <4>3. flash'[f.update] = flash[f.update] \o d
          BY <1>2, <1>4, <2>1
        <4> QED
          BY <1>1, <1>2, <1>6, <3>3, <4>2, <4>3
      <3>6. size_fetched' = g.base + g.total
        BY <1>1, <1>2, <1>4, <1>5, <3>3
      <3>7. Good(g)'
        BY <1>1, <1>3, <3>3, <3>5, <3>6 DEF Good, Agrees, Stops, Channel, Loading
      <3> QED
        BY <3>3, <3>4, <3>7
    <2>2. CASE ~written
      <3>1. PICK g \in Frame : stack' = Append(s, g) /\ g.pc = "exit" /\ SameDownload(f, g)
        BY <1>2, <2>2, FailEffect
      <3>2. Good(g)'
        BY <1>1, <1>3, <3>1 DEF Good, Stops, Channel, Loading
      <3> QED
        BY <3>1, <3>2 DEF SameDownload
    <2> QED
      BY <2>1, <2>2
  <1>10. PICK g \in Frame : stack' = Append(s, g) /\ g.base = f.base /\ Good(g)'
    BY <1>9
  <1> QED
    BY <1>3, <1>6, <1>7, <1>8, <1>10, FrameStep DEF IInv, TypeOK, On

(* A try that fails moves no byte. *)
LEMMA TryIInv ==
  ASSUME IInv, NEW s \in Seq(Frame), NEW f \in Frame, On(s, f), Good(f),
         IOT_OTA_FetchYield_Reconnect \/ IOT_OTA_FetchYield_Failed
  PROVE  IInv'
  <1> USE DEF IOT_OTA_FetchYield_Reconnect, IOT_OTA_FetchYield_Failed
  <1>1. f.pc = "fetch" /\ ~f.cancelled /\ Agrees(f) /\ ch_fetch = "live"
    BY FetchingMeans
  <1>2. PICK g \in Frame : /\ stack' = Append(s, g) /\ SameDownload(f, g)
                           /\ g.pc = "exit" \/ (g.pc = f.pc /\ g.total = f.total)
    BY NextTryEffect
  <1>3. /\ UNCHANGED <<cur, size_fetched, md5, msg_list, flash, reported, messages>>
        /\ state' \in {"FETCHING", "FETCHED"} /\ link' \in {"up", "down", "closed"}
        /\ ch_fetch' = "live"
    BY <1>1
  <1>4. Good(g)'
    <2>1. Stops(g)'
      BY <1>1, <1>2, <1>3 DEF Stops, Active, SameDownload
    <2>2. Channel(g)'
      BY <1>3 DEF Channel
    <2>3. Loading(g) => Agrees(g)'
      BY <1>1, <1>2, <1>3 DEF Agrees, Loading, SameDownload
    <2> QED
      BY <1>1, <1>2, <2>1, <2>2, <2>3 DEF Good, Loading
  <1>5. SuccessIsWhole' /\ Counted'
    BY <1>3 DEF IInv, SuccessIsWhole, Image, Counted
  <1> QED
    BY <1>2, <1>3, <1>4, <1>5, FrameStep DEF IInv, TypeOK, State, On, SameDownload

LEMMA FinishIInv ==
  ASSUME IInv, NEW s \in Seq(Frame), NEW f \in Frame, On(s, f), Good(f),
         IOT_OTA_IsFetchFinish
  PROVE  IInv'
  <1>1. f.pc = "yield" /\ Top = f
    BY TopOn DEF IOT_OTA_IsFetchFinish, At
  <1>2. PICK g : g = [f EXCEPT !.pc = IF state = "FETCHED" THEN "check" ELSE "fetch"]
    OBVIOUS
  <1>3. g \in Frame /\ SameDownload(f, g) /\ g.total = f.total /\ g.tries = f.tries
        /\ g.pc = (IF state = "FETCHED" THEN "check" ELSE "fetch")
    BY <1>2 DEF Frame, SameDownload
  <1>4. stack' = Append(s, g)
    BY <1>1, <1>2, <1>3, TopOn DEF IOT_OTA_IsFetchFinish
  <1>5. UNCHANGED <<handle, msg_list, flash, reported, messages>>
    BY DEF IOT_OTA_IsFetchFinish
  <1>6. Good(g)'
    <2>1. Good(g)
      BY <1>1, <1>3 DEF Good, Agrees, Stops, Channel, Loading, SameDownload
    <2> QED
      BY <1>5, <2>1
      DEF Good, Agrees, Stops, Channel, Loading, Active, Clean, handle
  <1>7. SuccessIsWhole' /\ Counted'
    BY <1>5 DEF IInv, SuccessIsWhole, Image, Counted, handle
  <1> QED
    BY <1>3, <1>4, <1>5, <1>6, <1>7, FrameStep
    DEF IInv, TypeOK, handle, On, SameDownload

(* A digest that is the whole image leaves no room for bytes of another    *)
(* download: a report is of the file the digest is of.                     *)
LEMMA CheckIInv ==
  ASSUME IInv, NEW s \in Seq(Frame), NEW f \in Frame, On(s, f), Good(f), CheckFirmware
  PROVE  IInv'
  <1>1. f.pc = "check" /\ Top = f
    BY TopOn DEF CheckFirmware, At
  <1>2. state = "FETCHED" /\ Agrees(f) /\ ~f.cancelled /\ ch_fetch = "live"
    BY <1>1 DEF Good, Stops, Channel, Loading, Active
  <1>3. UNCHANGED <<handle, msg_list, flash, messages>>
    BY DEF CheckFirmware
  <1>4. PICK ended \in BOOLEAN : SetTop([f EXCEPT !.pc = "exit", !.ok = ended])
    BY <1>1 DEF CheckFirmware
  <1>5. PICK g \in Frame : stack' = Append(s, g) /\ g.pc = "exit" /\ SameDownload(f, g)
    <2>1. PICK g : g = [f EXCEPT !.pc = "exit", !.ok = ended]
      OBVIOUS
    <2>2. g \in Frame /\ g.pc = "exit" /\ SameDownload(f, g)
      BY <2>1 DEF Frame, SameDownload
    <2>3. stack' = Append(s, g)
      BY <1>4, <2>1, <2>2, TopOn
    <2> QED
      BY <2>2, <2>3
  <1>6. Good(g)'
    BY <1>2, <1>3, <1>5 DEF Good, Stops, Channel, Loading, handle
  <1>7. SuccessIsWhole'
        /\ reported' \subseteq [update : Update, file : Seq(Byte), cancelled : BOOLEAN]
    <2> DEFINE report == [update |-> cur, file |-> flash[Top.update], cancelled |-> Top.cancelled]
    <2>1. CASE UNCHANGED reported
      BY <2>1 DEF IInv, TypeOK, SuccessIsWhole, Image
    <2>2. CASE reported' = reported \cup {report} /\ f.total = Size[f.update] /\ Valid
      <3>1. f.update \in Update /\ Size[f.update] \in Nat /\ f.base \in Nat
            /\ md5 \in Seq(Byte) /\ size_fetched = Len(md5)
        BY OtaAssumption DEF IInv, TypeOK, Counted, Frame
      <3>2. md5 = Image(f.update) /\ Len(md5) = Size[f.update]
        BY <1>2, <2>2, <3>1 DEF Valid, Agrees, Image
      <3>3. f.base = 0
        BY <1>2, <2>2, <3>1, <3>2 DEF Agrees
      <3>4. f.base + 1 = 1
        BY <3>3
      <3>5. flash[f.update] = md5
        BY <1>2, <3>1, <3>4, SubSeqFull DEF Agrees
      <3>6. report.file = Image(report.update) /\ ~report.cancelled
        BY <1>1, <1>2, <3>2, <3>5 DEF Agrees
      <3>7. report \in [update : Update, file : Seq(Byte), cancelled : BOOLEAN]
        BY <1>1, <1>2, <3>1, <3>5 DEF Agrees, Frame
      <3> HIDE DEF report
      <3> QED
        BY <2>2, <3>6, <3>7 DEF IInv, TypeOK, SuccessIsWhole, Image
    <2> QED
      BY <1>1, <2>1, <2>2 DEF CheckFirmware
  <1>8. Counted'
    BY <1>3 DEF IInv, Counted, handle
  <1> QED
    BY <1>3, <1>5, <1>6, <1>7, <1>8, FrameStep DEF IInv, TypeOK, handle, On, SameDownload

LEMMA ExitIInv ==
  ASSUME IInv, NEW s \in Seq(Frame), NEW f \in Frame, On(s, f), Good(f), Exit
  PROVE  IInv'
  <1> USE DEF Exit, IOT_OTA_Clear
  <1>1. Top = f
    BY TopOn
  <1>2. PICK g : g = [f EXCEPT !.pc = "pop"]
    OBVIOUS
  <1>3. g \in Frame /\ g.pc = "pop" /\ g.base = f.base
    BY <1>2 DEF Frame
  <1>4. stack' = Append(s, g)
    BY <1>1, <1>2, <1>3, TopOn
  <1>5. Good(g)'
    BY <1>3 DEF Good, Stops, Channel, Loading, Active, Clean
  <1>6. SuccessIsWhole' /\ Counted'
    BY EmptySeq DEF IInv, SuccessIsWhole, Image, Counted
  <1>7. <<>> \in Seq(Byte)
    OBVIOUS
  <1> QED
    BY <1>3, <1>4, <1>5, <1>6, <1>7, FrameStep DEF IInv, TypeOK, State, On

(* The download below wakes up in a handle that fetches nothing.           *)
LEMMA PopIInv ==
  ASSUME IInv, NEW s \in Seq(Frame), NEW f \in Frame, On(s, f), Good(f),
         _ota_pop_upload_msg
  PROVE  IInv'
  <1>1. f.pc = "pop" /\ Front(stack) = s
    BY TopOn DEF _ota_pop_upload_msg, At
  <1>2. Clean /\ ~Active /\ ch_fetch # "NULL" /\ Waiting(s)
    BY <1>1 DEF Good, Channel, On
  <1>3. CASE msg_list = <<>>
    <2>1. stack' = s /\ UNCHANGED <<handle, msg_list, flash, reported, messages>>
      BY <1>1, <1>3 DEF _ota_pop_upload_msg
    <2>2. TypeOK'
      BY <2>1 DEF IInv, TypeOK, handle
    <2>3. Counted' /\ SuccessIsWhole'
      BY <2>1 DEF IInv, Counted, SuccessIsWhole, Image, handle
    <2>4. CASE s = <<>>
      BY <1>2, <2>1, <2>2, <2>3, <2>4 DEF IInv, Shape, Clean, handle
    <2>5. CASE s # <<>>
      <3>1. PICK t \in Seq(Frame), h \in Frame : s = Append(t, h)
        BY <2>5, Split
      <3>2. Waiting(t) /\ Waits(h) /\ (t = <<>> => h.base = 0)
        BY <1>2, <3>1, UnderWaiting
      <3>3. On(t, h)'
        BY <2>1, <3>1, <3>2 DEF On
      <3>4. Good(h)'
        BY <1>2, <2>1, <3>2 DEF Good, Stops, Channel, Loading, Active, Waits, handle
      <3> QED
        BY <2>2, <2>3, <3>3, <3>4 DEF IInv, Shape
    <2> QED
      BY <2>4, <2>5
  <1>4. CASE msg_list # <<>>
    <2>1. Start(Head(msg_list), s) /\ UNCHANGED <<reported, messages>>
          /\ msg_list' = Tail(msg_list)
      BY <1>1, <1>4 DEF _ota_pop_upload_msg
    <2>2. Head(msg_list) \in Update /\ Tail(msg_list) \in Seq(Update)
      BY <1>4, HeadTailProperties DEF IInv, TypeOK
    <2>3. messages' \in 0..MaxMessages
      BY <2>1 DEF IInv, TypeOK
    <2>4. Idle(s)
      BY <1>2, WaitingIsIdle
    <2> QED
      BY <2>1, <2>2, <2>3, <2>4, StartIInv
  <1> QED
    BY <1>3, <1>4

LEMMA StepIInv == IInv /\ [Next]_vars => IInv'
  <1> SUFFICES ASSUME IInv, [Next]_vars PROVE IInv'
    OBVIOUS
  <1>1. ASSUME NEW u \in Update, _ota_callback_Update(u)
        PROVE  IInv'
    BY <1>1, UpdateIInv
  <1>2. ASSUME NEW u \in Update, _ota_callback_Cancel(u)
        PROVE  IInv'
    BY <1>2, CancelIInv
  <1>3. CASE IOT_OTA_fw_download
    <2>1. stack # <<>>
      BY <1>3 DEF IOT_OTA_fw_download, IOT_OTA_FetchYield_Refused, IOT_OTA_FetchYield_Data,
         IOT_OTA_FetchYield_Empty, IOT_OTA_FetchYield_Reconnect, IOT_OTA_FetchYield_Failed,
         IOT_OTA_IsFetchFinish, CheckFirmware, Exit, _ota_pop_upload_msg, Fetching, At
    <2>2. PICK s \in Seq(Frame), f \in Frame : On(s, f) /\ Good(f)
      BY <2>1 DEF IInv, Shape
    <2> QED
      BY <1>3, <2>2, RefusedIInv, DataIInv, TryIInv, FinishIInv, CheckIInv, ExitIInv, PopIInv
      DEF IOT_OTA_fw_download
  <1>4. CASE UNCHANGED vars
    <2>1. TypeOK' /\ Counted' /\ SuccessIsWhole'
      BY <1>4 DEF vars, handle, IInv, TypeOK, Counted, SuccessIsWhole, Image
    <2>2. Shape'
      BY <1>4 DEF vars, handle, IInv, Shape, On, Good, Agrees, Stops, Channel, Loading,
                  Active, Clean
    <2> QED
      BY <2>1, <2>2 DEF IInv
  <1> QED
    BY <1>1, <1>2, <1>3, <1>4 DEF Next

LEMMA Invariance == Spec => []IInv
  BY InitIInv, StepIInv, PTL DEF Spec

----------------------------------------------------------------------------
(* The handle keeps its types, however downloads begin inside each other   *)
(* (_ota_callback, IOT_OTA_fw_download).                                   *)
THEOREM TypeCorrect == Spec => []TypeOK
  <1>1. IInv => TypeOK
    BY DEF IInv
  <1> QED
    BY <1>1, Invariance, PTL

(* The offset, the digest and the file of a download agree, over failed    *)
(* tries, new connections and updates that reuse the handle, and the       *)
(* digest holds nothing else unless the download began inside another      *)
(* (IOT_OTA_FetchYield, IOT_OTA_Clear).                                    *)
THEOREM DownloadsAreConsistent == Spec => []DownloadConsistent
  <1>1. IInv => DownloadConsistent
    <2> SUFFICES ASSUME IInv, At("fetch") \/ At("yield") \/ At("check"), Active
                 PROVE  /\ cur = Top.update
                        /\ size_fetched = Len(md5) /\ size_fetched = Top.base + Top.total
                        /\ flash[Top.update] = SubSeq(md5, Top.base + 1, Len(md5))
                        /\ Len(stack) = 1 => Top.base = 0
      BY DEF DownloadConsistent
    <2>1. PICK s \in Seq(Frame), f \in Frame : On(s, f) /\ Good(f)
      BY DEF IInv, Shape, At
    <2>2. Top = f /\ (Len(stack) = 1 => s = <<>>)
      BY <2>1, TopOn
    <2>3. Agrees(f)
      BY <2>1, <2>2 DEF Good, Loading, At
    <2> QED
      BY <2>1, <2>2, <2>3 DEF On, Agrees, IInv, Counted
  <1> QED
    BY <1>1, Invariance, PTL

(* OTA_REPORT_SUCCESS is sent only for the whole image, and never after a  *)
(* cancel, whatever the server sends, whichever writes fail and however    *)
(* downloads begin inside each other (IOT_OTA_fw_download).                *)
THEOREM ReportsAreOfWholeImages == Spec => []SuccessIsWhole
  <1>1. IInv => SuccessIsWhole
    BY DEF IInv
  <1> QED
    BY <1>1, Invariance, PTL

(* No request is sent on a freed channel, and a channel is freed twice     *)
(* only for a download that another one has interrupted (ota_client.c:394, *)
(* IOT_OTA_FetchYield).                                                    *)
THEOREM ChannelIsNotFreedTwice == Spec => []ChannelLive
  <1>1. IInv => ChannelLive
    <2> SUFFICES ASSUME IInv PROVE ChannelLive
      OBVIOUS
    <2>1. ASSUME stack # <<>>
          PROVE  /\ Fetching => ch_fetch = "live"
                 /\ Top.pc # "pop" /\ ~Top.interrupted => ch_fetch = "live"
      <3>1. PICK s \in Seq(Frame), f \in Frame : On(s, f) /\ Good(f)
        BY <2>1 DEF IInv, Shape
      <3>2. Top = f
        BY <3>1, TopOn
      <3>3. Fetching => ch_fetch = "live"
        BY <3>1, FetchingMeans
      <3>4. f.pc # "pop" /\ ~f.interrupted => ch_fetch = "live"
        BY <3>1 DEF Good, Channel
      <3> QED
        BY <3>2, <3>3, <3>4
    <2> QED
      BY <2>1 DEF ChannelLive, Fetching, At
  <1> QED
    BY <1>1, Invariance, PTL
=============================================================================
