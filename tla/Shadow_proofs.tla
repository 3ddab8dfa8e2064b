--------------------------- MODULE Shadow_proofs ---------------------------
(***************************************************************************)
(* Proofs about Shadow, for any threads, any requests and any bounds.      *)
(***************************************************************************)
EXTENDS Shadow, FiniteSetTheorems, TLAPS

(* A thread that publishes has a request, which has been made.             *)
Publishing ==
  \A t \in Thread : pc[t] = "publish" => req[t] \in Request /\ method[req[t]] # NULL

(* A request that has not been made is nowhere.                            *)
Unmade ==
  \A r \in Request : method[r] = NULL => r \notin request_list /\ acks[r] = <<>>

(* A request that has been made waits, was answered, or never waited.      *)
Accounted ==
  \A r \in Request \ refused :
    method[r] # NULL => method[r] \in Reply \/ r \in request_list \/ acks[r] # <<>>

SentWasMade == \A r \in sent : method[r] # NULL

IInv ==
  TypeOK /\ Publishing /\ Unmade /\ Accounted /\ SentWasMade /\ AnsweredOnce /\ RepliesDoNotLinger

----------------------------------------------------------------------------
LEMMA InitIInv == Init => IInv
  <1> SUFFICES ASSUME Init PROVE IInv
    OBVIOUS
  <1>1. Cardinality({}) = 0 /\ IsFiniteSet({})
    BY FS_EmptySet
  <1>2. TypeOK
    BY <1>1, ShadowAssumption DEF Init, TypeOK, Method, Message
  <1>3. Publishing /\ Unmade /\ Accounted /\ SentWasMade /\ AnsweredOnce /\ RepliesDoNotLinger
    BY DEF Init, Publishing, Unmade, Accounted, SentWasMade, AnsweredOnce,
           RepliesDoNotLinger, Thread
  <1> QED
    BY <1>2, <1>3 DEF IInv

(* Making a request. *)
LEMMA AddKeeps ==
  ASSUME IInv, NEW t \in Thread, NEW r \in Request, NEW m \in Method,
         shadow_add_request_to_list(t, r, m),
         UNCHANGED <<expired, cloud_send_method, acks, messages, sent, verdict>>,
         msg' \in Message \cup {NULL}, downstream' \in Seq(Message),
         m \in Reply => t = Yielder
  PROVE  IInv'
  <1> USE DEF IInv, shadow_add_request_to_list
  <1>1. /\ request_list' \subseteq Request /\ IsFiniteSet(request_list')
        /\ Cardinality(request_list') <= MAX_APPENDING_REQUEST_AT_ANY_GIVEN_TIME
    <2>1. CASE Full
      BY <2>1 DEF TypeOK
    <2>2. CASE ~Full
      <3>1. IsFiniteSet(request_list \cup {r})
            /\ (Cardinality(request_list \cup {r}) = Cardinality(request_list)
                \/ Cardinality(request_list \cup {r}) = Cardinality(request_list) + 1)
        BY FS_AddElement DEF TypeOK
      <3>2. Cardinality(request_list) \in Nat
        BY FS_CardinalityType DEF TypeOK
      <3>3. Cardinality(request_list) < MAX_APPENDING_REQUEST_AT_ANY_GIVEN_TIME
        BY <2>2, <3>2, ShadowAssumption DEF Full
      <3>4. request_list' = request_list \cup {r}
        BY <2>2
      <3>5. Cardinality(request_list \cup {r}) <= MAX_APPENDING_REQUEST_AT_ANY_GIVEN_TIME
        BY <3>1, <3>2, <3>3, ShadowAssumption
      <3> QED
        BY <3>1, <3>4, <3>5 DEF TypeOK
    <2> QED
      BY <2>1, <2>2
  <1>2. TypeOK'
    BY <1>1 DEF TypeOK
  <1>3. Publishing'
    BY ShadowAssumption DEF Publishing, TypeOK
  <1>4. Unmade'
    BY ShadowAssumption DEF Unmade, TypeOK
  <1>5. Accounted'
    BY DEF Accounted, TypeOK, Unmade
  <1>6. SentWasMade'
    BY ShadowAssumption DEF SentWasMade, TypeOK
  <1>7. AnsweredOnce'
    BY DEF AnsweredOnce, Unmade, TypeOK
  <1>8. RepliesDoNotLinger'
    <2> SUFFICES ASSUME NEW q \in request_list', method'[q] \in Reply
                 PROVE  pc'[Yielder] # "idle"
      BY DEF RepliesDoNotLinger
    <2>1. CASE t = Yielder
      BY <2>1 DEF TypeOK
    <2>2. CASE t # Yielder
      BY <2>2 DEF RepliesDoNotLinger, TypeOK
    <2> QED
      BY <2>1, <2>2
  <1> QED
    BY <1>2, <1>3, <1>4, <1>5, <1>6, <1>7, <1>8

(* Calling back any requests of the list. *)
LEMMA CompleteKeeps ==
  ASSUME IInv, NEW done \in SUBSET request_list, NEW ack \in Ack,
         Complete(done, ack),
         UNCHANGED <<method, cloud_send_method, refused, req, cloud>>,
         \/ pc' = pc
         \/ pc' = [pc EXCEPT ![Yielder] = "idle"] /\ done = request_list,
         msg' \in Message \cup {NULL}
  PROVE  IInv'
  <1> USE DEF IInv, Complete
  <1>1. request_list' \subseteq Request /\ IsFiniteSet(request_list')
        /\ Cardinality(request_list') <= Cardinality(request_list)
    BY FS_Subset DEF TypeOK
  <1>2. Cardinality(request_list) \in Nat /\ Cardinality(request_list') \in Nat
    BY <1>1, FS_CardinalityType DEF TypeOK
  <1>3. \A r \in Request :
          /\ acks'[r] \in Seq(Ack)
          /\ acks'[r] # acks[r] => r \in done /\ acks'[r] = <<ack>>
          /\ r \in done /\ method[r] \notin Reply => acks'[r] # <<>>
          /\ Len(acks'[r]) <= 1
    <2> SUFFICES ASSUME NEW r \in Request
                 PROVE  /\ acks'[r] \in Seq(Ack)
                        /\ acks'[r] # acks[r] => r \in done /\ acks'[r] = <<ack>>
                        /\ r \in done /\ method[r] \notin Reply => acks'[r] # <<>>
                        /\ Len(acks'[r]) <= 1
      OBVIOUS
    <2>1. acks[r] \in Seq(Ack) /\ Len(acks[r]) <= 1
      BY DEF TypeOK, AnsweredOnce
    <2>2. CASE r \in done /\ method[r] \notin Reply
      <3>1. acks[r] = <<>>
        BY <2>2 DEF AnsweredOnce
      <3>2. acks'[r] = Append(<<>>, ack)
        BY <2>2, <3>1
      <3>3. Append(<<>>, ack) = <<ack>> /\ <<ack>> \in Seq(Ack)
            /\ Len(<<ack>>) <= 1 /\ <<ack>> # <<>>
        OBVIOUS
      <3>4. acks'[r] = <<ack>>
        BY <3>2, <3>3
      <3>5. acks'[r] \in Seq(Ack) /\ Len(acks'[r]) <= 1
        BY <3>3, <3>4, Zenon
      <3>6. acks'[r] # <<>>
        BY <3>3, <3>4, Zenon
      <3> QED
        BY <2>2, <3>4, <3>5, <3>6, Zenon
    <2>3. CASE ~(r \in done /\ method[r] \notin Reply)
      BY <2>1, <2>3
    <2> QED
      BY <2>2, <2>3
  <1>4. TypeOK'
    <2>1. acks' \in [Request -> Seq(Ack)]
      BY <1>3
    <2>2. Cardinality(request_list') <= MAX_APPENDING_REQUEST_AT_ANY_GIVEN_TIME
      BY <1>1, <1>2, ShadowAssumption DEF TypeOK
    <2>3. pc' \in [Thread -> {"idle", "publish", "traverse"}]
      BY DEF TypeOK
    <2> QED
      BY <1>1, <2>1, <2>2, <2>3 DEF TypeOK, cloud
  <1>5. Publishing'
    BY DEF Publishing, TypeOK, Thread
  <1>6. Unmade'
    BY <1>3 DEF Unmade, TypeOK
  <1>7. Accounted'
    BY <1>3 DEF Accounted, AnsweredOnce
  <1>8. SentWasMade'
    BY DEF SentWasMade, cloud
  <1>9. AnsweredOnce'
    BY <1>3 DEF AnsweredOnce
  <1>10. RepliesDoNotLinger'
    BY DEF RepliesDoNotLinger
  <1> QED
    BY <1>4, <1>5, <1>6, <1>7, <1>8, <1>9, <1>10

(* A message of the cloud leaves the device alone. *)
LEMMA SendKeeps ==
  ASSUME IInv, NEW m \in Message, Send(m), UNCHANGED <<device, pc, req, msg, sent>>,
         verdict' \in [Request -> {"accepted", "rejected", NULL}]
  PROVE  IInv'
  <1> USE DEF IInv, Send, device
  <1>1. TypeOK'
    BY ShadowAssumption DEF TypeOK
  <1> QED
    BY <1>1 DEF Publishing, Unmade, Accounted, SentWasMade, AnsweredOnce, RepliesDoNotLinger

LEMMA StepIInv == IInv /\ [Next]_vars => IInv'
  <1> SUFFICES ASSUME IInv, [Next]_vars PROVE IInv'
    OBVIOUS
  <1>t. Yielder \in Thread /\ App \subseteq Thread
    BY DEF Thread
  <1>1. ASSUME NEW t \in App, NEW r \in Request, NEW m \in Method, MakeRequest(t, r, m)
        PROVE  IInv'
    BY <1>1, <1>t, AddKeeps, ShadowAssumption DEF MakeRequest, cloud, IInv, TypeOK, Reply
  <1>2. ASSUME NEW t \in Thread, uiot_shadow_make_request(t)
        PROVE  IInv'
    <2> USE <1>2 DEF uiot_shadow_make_request, IInv
    <2>1. req[t] \in Request /\ method[req[t]] \in Method
      BY DEF Publishing, TypeOK
    <2>2. TypeOK'
      BY <2>1 DEF TypeOK
    <2>3. Publishing'
      BY DEF Publishing, TypeOK
    <2>4. SentWasMade'
      BY <2>1, ShadowAssumption DEF SentWasMade, TypeOK
    <2>5. RepliesDoNotLinger'
      BY <1>t DEF RepliesDoNotLinger, TypeOK
    <2> QED
      BY <2>2, <2>3, <2>4, <2>5 DEF Unmade, Accounted, AnsweredOnce
  <1>3. CASE _handle_expired_request
    BY <1>3, CompleteKeeps DEF _handle_expired_request, Ack, IInv, TypeOK
  <1>4. CASE _traverse_list
    BY <1>4, CompleteKeeps DEF _traverse_list, Ack, Status
  <1>5. ASSUME NEW m \in Message, topic_handler_NoDelta(m)
        PROVE  IInv'
    <2> USE <1>5 DEF topic_handler_NoDelta, Arrives, IInv, device
    <2>4. downstream' \in Seq(Message)
      BY DEF TypeOK
    <2>5. pc' \in [Thread -> {"idle", "publish", "traverse"}] /\ msg' \in Message \cup {NULL}
      BY <1>t DEF TypeOK
    <2>1. TypeOK'
      BY <2>4, <2>5 DEF TypeOK
    <2>2. Publishing'
      BY DEF Publishing, TypeOK
    <2>3. RepliesDoNotLinger'
      BY DEF RepliesDoNotLinger
    <2> QED
      BY <2>1, <2>2, <2>3 DEF Unmade, Accounted, SentWasMade, AnsweredOnce
  <1>6. ASSUME NEW m \in Message, NEW r \in Request, _handle_delta(m, r)
        PROVE  IInv'
    <2>1. ReplyMethod \in Method
      BY DEF ReplyMethod, Method, Reply
    <2>2. downstream' \in Seq(Message)
      BY <1>6 DEF _handle_delta, Arrives, IInv, TypeOK
    <2> QED
      BY <1>6, <1>t, <2>1, <2>2, AddKeeps DEF _handle_delta
  <1>7. ASSUME NEW r \in Request, TimerExpires(r)
        PROVE  IInv'
    <2> USE <1>7 DEF TimerExpires, IInv, cloud
    <2>1. TypeOK'
      BY DEF TypeOK
    <2> QED
      BY <2>1 DEF Publishing, Unmade, Accounted, SentWasMade, AnsweredOnce, RepliesDoNotLinger
  <1>8. ASSUME NEW r \in Request, NEW ok \in BOOLEAN, Decide(r, ok)
        PROVE  IInv'
    <2>1. verdict' \in [Request -> {"accepted", "rejected", NULL}]
      BY <1>8 DEF Decide, IInv, TypeOK
    <2>2. PICK m \in Message : Send(m)
      BY <1>8 DEF Decide, Message
    <2> QED
      BY <1>8, <2>1, <2>2, SendKeeps DEF Decide
  <1>9. CASE Control
    <2>1. PICK m \in Message : Send(m)
      BY <1>9, ShadowAssumption DEF Control, Message
    <2> QED
      BY <1>9, <2>1, SendKeeps DEF Control, IInv, TypeOK
  <1>10. CASE Redeliver
    <2>1. Head(downstream) \in Message
      BY <1>10 DEF Redeliver, IInv, TypeOK
    <2> QED
      BY <1>10, <2>1, SendKeeps DEF Redeliver, IInv, TypeOK
  <1>11. CASE UNCHANGED vars
    BY <1>11 DEF vars, device, cloud, IInv, TypeOK, Publishing, Unmade, Accounted,
                 SentWasMade, AnsweredOnce, RepliesDoNotLinger
  <1> QED
    BY <1>1, <1>2, <1>3, <1>4, <1>5, <1>6, <1>7, <1>8, <1>9, <1>10, <1>11
    DEF Next, App_make_request, IOT_Shadow_Yield

LEMMA Invariance == Spec => []IInv
  BY InitIInv, StepIInv, PTL DEF Spec

----------------------------------------------------------------------------
(* Every variable keeps its type and the list stays within its limit       *)
(* (shadow_add_request_to_list).                                           *)
THEOREM TypeCorrect == Spec => []TypeOK
  <1>1. IInv => TypeOK
    BY DEF IInv
  <1> QED
    BY <1>1, Invariance, PTL

(* No request is called back twice, or before it leaves the list           *)
(* (_handle_request_callback, _handle_expired_request_callback).           *)
THEOREM CalledBackOnce == Spec => []AnsweredOnce
  <1>1. IInv => AnsweredOnce
    BY DEF IInv
  <1> QED
    BY <1>1, Invariance, PTL

(* A published request is not forgotten, unless the full list refused it   *)
(* (uiot_shadow_make_request).                                             *)
THEOREM PublishedIsNotForgotten == Spec => []SentIsPending
  <1>1. IInv => SentIsPending
    BY DEF IInv, SentIsPending, Accounted, SentWasMade, TypeOK
  <1> QED
    BY <1>1, Invariance, PTL

(* An answer to a delta leaves the list before the handler that made it    *)
(* returns (_handle_delta, _traverse_list).                                *)
THEOREM RepliesLeaveAtOnce == Spec => []RepliesDoNotLinger
  <1>1. IInv => RepliesDoNotLinger
    BY DEF IInv
  <1> QED
    BY <1>1, Invariance, PTL
=============================================================================
