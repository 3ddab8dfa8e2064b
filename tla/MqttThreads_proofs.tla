------------------------- MODULE MqttThreads_proofs -------------------------
(***************************************************************************)
(* Proofs about MqttThreads, for any sets of threads, cells and filters    *)
(* and any lengths of the wait lists.                                      *)
(***************************************************************************)
EXTENDS MqttThreads, SequenceTheorems, TLAPS

(* The points of a call of the API, and those the loop goes on at after a  *)
(* callback or a resubscription has made one.                              *)
ApiPoint == {"clear", "conn", "lock", "packet_id", "push", "send", "undo", "unlock"}

ReturnPoint == {"loop", "pong", "out_lock", "suback_unlock", "unsuback_unlock",
                "pub_remove", "sub_remove", "resub"}

InWriteBuf == {"packet_id", "push", "send", "undo", "unlock", "out_send"}

Places ==
  /\ \A t \in App : pc[t] \in ApiPoint \cup {"idle"}
  /\ cont \in ReturnPoint

Calling == \A t \in Thread : pc[t] \in ApiPoint => op[t] \in Op /\ arg[t] \in Topic

WriteBufHeld == \A t \in Thread : pc[t] \in InWriteBuf => holder["write_buf"] = t

Serialised ==
  \A t \in Thread : pc[t] \in {"push", "send", "undo", "out_send"} => write_buf = t

(* The node of a thread that has not sent its packet is not answered: it   *)
(* is the thread's still, or it timed out and its cell is empty, for no    *)
(* other thread pushes a node meanwhile.                                   *)
OwnUnsent ==
  \A t \in Thread : pc[t] \in {"send", "undo"} =>
    /\ own[t] \in Node
    /\ node[own[t]] # NULL => node[own[t]].owner = t /\ ~node[own[t]].sent

(* The node whose answer is being handled is there. *)
Answering ==
  pc[Yielder] \in {"puback_mark", "suback_lock", "suback_mask", "unsuback_mark"} =>
    cur \in Node /\ node[cur] # NULL /\ node[cur].sent

IInv == TypeOK /\ Places /\ Calling /\ WriteBufHeld /\ Serialised /\ OwnUnsent /\ Answering

----------------------------------------------------------------------------
(* What RemoveAt keeps. *)
LEMMA RemoveAtType ==
  ASSUME NEW S, NEW s \in Seq(S), NEW i \in 1..Len(s)
  PROVE  RemoveAt(s, i) \in Seq(S) /\ Len(RemoveAt(s, i)) = Len(s) - 1
  <1> DEFINE front == SubSeq(s, 1, i - 1)
             back  == SubSeq(s, i + 1, Len(s))
  <1>1. front \in Seq(S) /\ Len(front) = i - 1
    BY SubSeqProperties
  <1>2. back \in Seq(S) /\ Len(back) = Len(s) - i
    BY SubSeqProperties
  <1>3. RemoveAt(s, i) = front \o back
    BY DEF RemoveAt
  <1> HIDE DEF front, back
  <1> QED
    BY <1>1, <1>2, <1>3

(* A removal from a wait list, whatever it is given. *)
LEMMA ListRemoveType ==
  ASSUME TypeOK, NEW l \in List, NEW n, NEW live, live => Listed(l, n),
         list_remove(l, n, live)
  PROVE  /\ wait_ack' \in [List -> Seq(Node)]
         /\ \A k \in List : Len(wait_ack'[k]) <= Limit(k)
         /\ node' \in [Node -> NodeInfo \cup {NULL}]
         /\ freed' \subseteq {"node", "filter"}
         /\ \A m \in Node : node'[m] = node[m] \/ (m = n /\ live /\ node'[m] = NULL)
  <1>1. CASE ~live
    BY <1>1 DEF list_remove, TypeOK
  <1>2. CASE live
    <2>1. /\ wait_ack' = [wait_ack EXCEPT ![l] = RemoveAt(@, Position(@, n))]
          /\ node' = [node EXCEPT ![n] = NULL]
          /\ freed' = freed
      BY <1>2 DEF list_remove
    <2>2. wait_ack[l] \in Seq(Node)
      BY DEF TypeOK
    <2>3. Position(wait_ack[l], n) \in 1..Len(wait_ack[l])
      BY <1>2, <2>2 DEF Listed, Position
    <2>4. /\ RemoveAt(wait_ack[l], Position(wait_ack[l], n)) \in Seq(Node)
          /\ Len(RemoveAt(wait_ack[l], Position(wait_ack[l], n))) = Len(wait_ack[l]) - 1
      BY <2>2, <2>3, RemoveAtType
    <2>5. wait_ack' \in [List -> Seq(Node)]
      BY <2>1, <2>4 DEF TypeOK
    <2>6. \A k \in List : Len(wait_ack'[k]) <= Limit(k)
      <3> TAKE k \in List
      <3>1. CASE k = l
        <4>1. Limit(k) \in Nat /\ Len(wait_ack[l]) \in Nat /\ Len(wait_ack[l]) <= Limit(k)
          BY <2>2, <3>1, ThreadsAssumption DEF TypeOK, Limit
        <4>2. wait_ack'[k] = RemoveAt(wait_ack[l], Position(wait_ack[l], n))
          BY <2>1, <3>1 DEF TypeOK
        <4> QED
          BY <4>1, <4>2, <2>4
      <3>2. CASE k # l
        BY <2>1, <3>2 DEF TypeOK
      <3> QED
        BY <3>1, <3>2
    <2> QED
      BY <1>2, <2>1, <2>5, <2>6 DEF TypeOK
  <1> QED
    BY <1>1, <1>2

----------------------------------------------------------------------------
(* The sets of program points are expanded in the proofs that follow. *)
USE ThreadsAssumption
    DEF Thread, Point, AtWriteBuf, AtGeneric, AtListPub, AtListSub, AtOwnList, AtNone,
        ApiPoint, ReturnPoint, InWriteBuf, Goto, heap, loop, call

LEMMA InitIInv == Init => IInv
  <1> SUFFICES ASSUME Init PROVE IInv
    OBVIOUS
  <1>1. \A l \in List : Limit(l) \in Nat /\ wait_ack[l] = <<>>
    BY DEF Init, Limit
  <1>2. wait_ack \in [List -> Seq(Node)] /\ \A l \in List : Len(wait_ack[l]) <= Limit(l)
    BY <1>1 DEF Init
  <1>3. freed \subseteq {"node", "filter"} /\ raced \in BOOLEAN
    BY DEF Init
  <1>4. TypeOK
    BY <1>2, <1>3 DEF Init, TypeOK
  <1>5. Places /\ Calling /\ WriteBufHeld /\ Serialised /\ OwnUnsent /\ Answering
    BY DEF Init, Places, Calling, WriteBufHeld, Serialised, OwnUnsent, Answering
  <1> QED
    BY <1>4, <1>5 DEF IInv

(* The steps of the API. *)
LEMMA ApiCallIInv ==
  ASSUME IInv, NEW t \in Thread, ApiCall(t)
  PROVE  IInv'
  BY DEF IInv, TypeOK, Places, Calling, WriteBufHeld, Serialised, OwnUnsent, Answering,
     ApiCall, Entry, Op

LEMMA ClearHandlesIInv ==
  ASSUME IInv, NEW t \in Thread, ClearHandles(t)
  PROVE  IInv'
  <1>1. TypeOK'
    <2>1. CASE Goto(t, "conn") /\ UNCHANGED call
      BY <2>1 DEF IInv, TypeOK, ClearHandles
    <2>2. CASE Return(t)
      BY <2>2 DEF IInv, TypeOK, ClearHandles, Return, Op
    <2> QED
      BY <2>1, <2>2 DEF ClearHandles
  <1>2. Places' /\ Calling'
    <2>1. CASE Goto(t, "conn") /\ UNCHANGED call
      BY <2>1 DEF IInv, TypeOK, Places, Calling, ClearHandles
    <2>2. CASE Return(t)
      BY <2>2 DEF IInv, TypeOK, Places, Calling, ClearHandles, Return
    <2> QED
      BY <2>1, <2>2 DEF ClearHandles
  <1>3. WriteBufHeld' /\ Serialised' /\ OwnUnsent' /\ Answering'
    BY DEF IInv, TypeOK, Places, Calling, WriteBufHeld, Serialised, OwnUnsent,
       Answering, ClearHandles, Return
  <1> QED
    BY <1>1, <1>2, <1>3 DEF IInv

LEMMA CheckConnectionIInv ==
  ASSUME IInv, NEW t \in Thread, CheckConnection(t)
  PROVE  IInv'
  <1>1. TypeOK'
    <2>1. freed' \subseteq {"node", "filter"}
      BY DEF IInv, TypeOK, CheckConnection
    <2>2. CASE Goto(t, "lock") /\ UNCHANGED call
      BY <2>1, <2>2 DEF IInv, TypeOK, CheckConnection
    <2>3. CASE Return(t)
      BY <2>1, <2>3 DEF IInv, TypeOK, CheckConnection, Return, Op
    <2> QED
      BY <2>2, <2>3 DEF CheckConnection
  <1>2. Places' /\ Calling'
    BY DEF IInv, TypeOK, Places, Calling, CheckConnection, Return
  <1>3. WriteBufHeld' /\ Serialised' /\ OwnUnsent' /\ Answering'
    BY DEF IInv, TypeOK, Places, Calling, WriteBufHeld, Serialised, OwnUnsent,
       Answering, CheckConnection, Return
  <1> QED
    BY <1>1, <1>2, <1>3 DEF IInv

LEMMA LockWriteBufIInv ==
  ASSUME IInv, NEW t \in Thread, LockWriteBuf(t)
  PROVE  IInv'
  BY DEF IInv, TypeOK, Places, Calling, WriteBufHeld, Serialised, OwnUnsent, Answering,
     LockWriteBuf, Free, HAL_MutexLock, Lock

LEMMA SerializeIInv ==
  ASSUME IInv, NEW t \in Thread, Serialize(t)
  PROVE  IInv'
  BY DEF IInv, TypeOK, Places, Calling, WriteBufHeld, Serialised, OwnUnsent, Answering,
     Serialize

LEMMA PushNodeIInv ==
  ASSUME IInv, NEW t \in Thread, PushNode(t)
  PROVE  IInv'
  <1>0. op[t] \in Op /\ arg[t] \in Topic /\ holder["write_buf"] = t
    BY DEF IInv, Calling, WriteBufHeld, PushNode
  <1> DEFINE l == ListOf(op[t])
  <1>1. CASE \E n \in Node :
               /\ Len(wait_ack[l]) < Limit(l)
               /\ node[n] = NULL
               /\ node' = [node EXCEPT ![n] = [owner |-> t, type |-> op[t], filter |-> arg[t],
                                               state |-> "NORMAL", sent |-> FALSE]]
               /\ wait_ack' = [wait_ack EXCEPT ![l] = Append(@, n)]
               /\ own' = [own EXCEPT ![t] = n]
               /\ Goto(t, "send")
    <2>1. PICK n \in Node :
               /\ Len(wait_ack[l]) < Limit(l)
               /\ node[n] = NULL
               /\ node' = [node EXCEPT ![n] = [owner |-> t, type |-> op[t], filter |-> arg[t],
                                               state |-> "NORMAL", sent |-> FALSE]]
               /\ wait_ack' = [wait_ack EXCEPT ![l] = Append(@, n)]
               /\ own' = [own EXCEPT ![t] = n]
               /\ Goto(t, "send")
      BY <1>1
    <2>2. l \in List /\ \A k \in List : Limit(k) \in Nat
      BY DEF ListOf, List, Limit
    <2>3. wait_ack' \in [List -> Seq(Node)] /\ \A k \in List : Len(wait_ack'[k]) <= Limit(k)
      BY <2>1, <2>2 DEF IInv, TypeOK
    <2>4. node' \in [Node -> NodeInfo \cup {NULL}]
      BY <2>1, <1>0 DEF IInv, TypeOK, NodeInfo
    <2>5. TypeOK'
      BY <2>1, <2>3, <2>4 DEF IInv, TypeOK, PushNode
    <2>6. Places' /\ Calling' /\ WriteBufHeld' /\ Serialised' /\ OwnUnsent' /\ Answering'
      <3>1. /\ pc[t] = "push" /\ t \in Thread
            /\ Goto(t, "send")
            /\ UNCHANGED <<holder, write_buf, op, arg, cont, cur>>
        BY <2>1 DEF PushNode
      <3>2. Places' /\ Calling' /\ WriteBufHeld' /\ Serialised'
        BY <3>1 DEF IInv, TypeOK, Places, Calling, WriteBufHeld, Serialised
      <3>3. /\ node'[n].owner = t /\ ~node'[n].sent
            /\ \A m \in Node : node[m] # NULL => node'[m] = node[m]
        BY <2>1 DEF IInv, TypeOK
      <3>4. OwnUnsent'
        <4> SUFFICES ASSUME NEW u \in Thread, pc'[u] \in {"send", "undo"}
                     PROVE  /\ own'[u] \in Node
                            /\ node'[own'[u]] # NULL =>
                                 node'[own'[u]].owner = u /\ ~node'[own'[u]].sent
          BY DEF OwnUnsent
        <4>1. CASE u = t
          BY <2>1, <3>3, <4>1 DEF IInv, TypeOK
        <4>2. CASE u # t
          <5>1. pc[u] = pc'[u]
            BY <3>1, <4>2 DEF IInv, TypeOK
          <5> QED
            BY <1>0, <3>1, <4>2, <5>1 DEF IInv, WriteBufHeld
        <4> QED
          BY <4>1, <4>2
      <3>5. Answering'
        BY <3>1, <3>3 DEF IInv, TypeOK, Answering
      <3> QED
        BY <3>2, <3>4, <3>5
    <2> QED
      BY <2>5, <2>6 DEF IInv
  <1>2. CASE Goto(t, "unlock") /\ UNCHANGED <<node, wait_ack, own>>
    <2>1. TypeOK'
      BY <1>2 DEF IInv, TypeOK, PushNode
    <2>2. Places' /\ Calling' /\ WriteBufHeld' /\ Serialised' /\ OwnUnsent' /\ Answering'
      BY <1>2 DEF IInv, TypeOK, Places, Calling, WriteBufHeld, Serialised,
         OwnUnsent, Answering, PushNode
    <2> QED
      BY <2>1, <2>2 DEF IInv
  <1> QED
    BY <1>1, <1>2 DEF PushNode

LEMMA SendRequestIInv ==
  ASSUME IInv, NEW t \in Thread, SendRequest(t)
  PROVE  IInv'
  <1>0. /\ pc[t] = "send"
        /\ Goto(t, "unlock") \/ Goto(t, "undo")
        /\ UNCHANGED <<is_connected, holder, write_buf, wait_ack, sub_handles, freed,
                       raced, call, loop>>
    BY DEF SendRequest
  <1>1. /\ node' \in [Node -> NodeInfo \cup {NULL}]
        /\ \A n \in Node : n # own[t] => node'[n] = node[n]
        /\ \A n \in Node : node[n] = NULL => node'[n] = NULL
        /\ \A n \in Node : node[n] # NULL => node'[n] # NULL /\ node'[n].owner = node[n].owner
        /\ Goto(t, "undo") => node' = node
    <2>1. \A n \in Node : node[n] # NULL =>
             /\ [node[n] EXCEPT !.sent = is_connected] \in NodeInfo
             /\ [node[n] EXCEPT !.sent = is_connected] # NULL
             /\ [node[n] EXCEPT !.sent = is_connected].owner = node[n].owner
      <3> SUFFICES ASSUME NEW i \in NodeInfo, NEW b \in BOOLEAN
                   PROVE  /\ [i EXCEPT !.sent = b] \in NodeInfo
                          /\ [i EXCEPT !.sent = b] # NULL
                          /\ [i EXCEPT !.sent = b].owner = i.owner
        BY DEF IInv, TypeOK
      <3>1. [i EXCEPT !.sent = b] \in NodeInfo /\ [i EXCEPT !.sent = b].owner = i.owner
        BY DEF NodeInfo
      <3> QED
        BY <3>1
    <2>2. CASE node' = node
      BY <2>2 DEF IInv, TypeOK
    <2>3. CASE /\ node' = [n \in Node |-> IF n = own[t] /\ node[n] # NULL
                                         THEN [node[n] EXCEPT !.sent = is_connected]
                                         ELSE node[n]]
               /\ Goto(t, "unlock")
      <3>1. ~Goto(t, "undo")
        BY <2>3 DEF IInv, TypeOK
      <3> QED
        BY <2>1, <2>3, <3>1 DEF IInv, TypeOK
    <2> QED
      BY <2>2, <2>3 DEF SendRequest
  <1>2. TypeOK'
    <2>1. pc' \in [Thread -> Point]
      BY <1>0 DEF IInv, TypeOK
    <2> QED
      BY <1>0, <1>1, <2>1 DEF IInv, TypeOK
  <1>3. /\ Places'
        /\ Calling'
        /\ WriteBufHeld'
        /\ Serialised'
    <2>1. Places' /\ Calling'
      BY SMTT(30), <1>0 DEF IInv, TypeOK, Places, Calling
    <2>2. WriteBufHeld' /\ Serialised'
      BY SMTT(30), <1>0 DEF IInv, TypeOK, WriteBufHeld, Serialised
    <2> QED
      BY <2>1, <2>2
  <1>4. OwnUnsent'
    BY SMTT(30), <1>0, <1>1 DEF IInv, TypeOK, OwnUnsent, WriteBufHeld
  <1>5. Answering'
    <2>1. node[own[t]] # NULL => ~node[own[t]].sent
      BY <1>0 DEF IInv, OwnUnsent
    <2> QED
      BY <1>0, <1>1, <2>1 DEF IInv, TypeOK, Answering
  <1> QED
    BY <1>2, <1>3, <1>4, <1>5 DEF IInv

LEMMA RemoveOwnNodeIInv ==
  ASSUME IInv, NEW t \in Thread, RemoveOwnNode(t)
  PROVE  IInv'
  <1> DEFINE l == ListOf(op[t])
             live == Listed(l, own[t]) /\ node[own[t]].owner = t
  <1>0. TypeOK /\ l \in List /\ list_remove(l, own[t], live)
    BY DEF IInv, RemoveOwnNode, ListOf, List
  <1> HIDE DEF l, live
  <1>1. /\ wait_ack' \in [List -> Seq(Node)]
        /\ \A k \in List : Len(wait_ack'[k]) <= Limit(k)
        /\ node' \in [Node -> NodeInfo \cup {NULL}]
        /\ freed' \subseteq {"node", "filter"}
        /\ \A m \in Node : node'[m] = node[m] \/ (m = own[t] /\ live /\ node'[m] = NULL)
    BY <1>0, ListRemoveType DEF live
  <1>2. TypeOK'
    <2>1. raced' \in BOOLEAN
      BY DEF RemoveOwnNode
    <2>2. pc' \in [Thread -> Point]
      BY DEF IInv, TypeOK, RemoveOwnNode
    <2> QED
      BY <1>1, <2>1, <2>2 DEF IInv, TypeOK, RemoveOwnNode
  <1>3. Places' /\ Calling' /\ WriteBufHeld' /\ Serialised'
    BY DEF IInv, TypeOK, Places, Calling, WriteBufHeld, Serialised, RemoveOwnNode
  <1>4. OwnUnsent'
    BY <1>1 DEF IInv, TypeOK, OwnUnsent, RemoveOwnNode
  <1>5. Answering'
    <2>1. node[own[t]] # NULL => ~node[own[t]].sent
      BY DEF IInv, OwnUnsent, RemoveOwnNode
    <2> QED
      BY <1>1, <2>1 DEF IInv, TypeOK, Answering, RemoveOwnNode
  <1> QED
    BY <1>2, <1>3, <1>4, <1>5 DEF IInv

LEMMA UnlockWriteBufIInv ==
  ASSUME IInv, NEW t \in Thread, UnlockWriteBuf(t)
  PROVE  IInv'
  BY DEF IInv, TypeOK, Places, Calling, WriteBufHeld, Serialised, OwnUnsent, Answering,
     UnlockWriteBuf, Return, HAL_MutexUnlock, Lock

----------------------------------------------------------------------------
(* The steps of the loop. *)

(* Where a callback leaves the yielding thread. *)
LEMMA CallbackEffect ==
  ASSUME TypeOK, Places, NEW e, NEW p \in ReturnPoint, Callback(e, p), own' = own
  PROVE  /\ pc' \in [Thread -> Point]
         /\ op' \in [Thread -> Op \cup {NULL}]
         /\ arg' \in [Thread -> Topic \cup {NULL}]
         /\ \A t \in App : pc'[t] = pc[t] /\ op'[t] = op[t] /\ arg'[t] = arg[t]
         /\ cont' \in ReturnPoint
         /\ \/ pc'[Yielder] = p /\ cont' = cont
            \/ /\ e \in CallFrom
               /\ pc'[Yielder] \in {"clear", "conn"} /\ cont' = p
               /\ op'[Yielder] \in Op /\ arg'[Yielder] \in Topic
  <1>1. CASE Goto(Yielder, p) /\ UNCHANGED <<op, arg, cont>>
    BY <1>1 DEF TypeOK, Places
  <1>2. CASE /\ e \in CallFrom
             /\ cont' = p
             /\ \E o \in Op, f \in Topic :
                  /\ op' = [op EXCEPT ![Yielder] = o]
                  /\ arg' = [arg EXCEPT ![Yielder] = f]
                  /\ Goto(Yielder, Entry(o))
    BY <1>2 DEF TypeOK, Places, Entry
  <1> QED
    BY <1>1, <1>2 DEF Callback

(* The yielding thread is left at a point of P, or at the start of a call  *)
(* that a callback made; the other threads stay where they are.            *)
Lands(P) ==
  /\ pc' \in [Thread -> Point]
  /\ op' \in [Thread -> Op \cup {NULL}]
  /\ arg' \in [Thread -> Topic \cup {NULL}]
  /\ \A t \in App : pc'[t] = pc[t] /\ op'[t] = op[t] /\ arg'[t] = arg[t]
  /\ cont' \in ReturnPoint
  /\ pc'[Yielder] \in P \cup {"clear", "conn"}
  /\ pc'[Yielder] \in ApiPoint => op'[Yielder] \in Op /\ arg'[Yielder] \in Topic

LEMMA CallbackLands ==
  ASSUME IInv, NEW e, NEW p \in ReturnPoint, NEW P, p \in P, Callback(e, p), own' = own
  PROVE  Lands(P)
  <1>1. TypeOK /\ cont \in ReturnPoint
    BY DEF IInv, Places
  <1>2. /\ pc' \in [Thread -> Point]
        /\ op' \in [Thread -> Op \cup {NULL}]
        /\ arg' \in [Thread -> Topic \cup {NULL}]
        /\ \A t \in App : pc'[t] = pc[t] /\ op'[t] = op[t] /\ arg'[t] = arg[t]
        /\ cont' \in ReturnPoint
        /\ \/ pc'[Yielder] = p /\ cont' = cont
           \/ /\ e \in CallFrom
              /\ pc'[Yielder] \in {"clear", "conn"} /\ cont' = p
              /\ op'[Yielder] \in Op /\ arg'[Yielder] \in Topic
    BY CallbackEffect DEF IInv
  <1> QED
    BY <1>2 DEF Lands

LEMMA SubackLockIInv ==
  ASSUME IInv, SubackLock
  PROVE  IInv'
  BY DEF IInv, TypeOK, Places, Calling, WriteBufHeld, Serialised, OwnUnsent, Answering,
     SubackLock, Free, HAL_MutexLock, Lock

LEMMA SubackUnlockIInv ==
  ASSUME IInv, SubackUnlock
  PROVE  IInv'
  BY DEF IInv, TypeOK, Places, Calling, WriteBufHeld, Serialised, OwnUnsent, Answering,
     SubackUnlock, HAL_MutexUnlock, Lock

LEMMA UnsubackUnlockIInv ==
  ASSUME IInv, UnsubackUnlock
  PROVE  IInv'
  BY DEF IInv, TypeOK, Places, Calling, WriteBufHeld, Serialised, OwnUnsent, Answering,
     UnsubackUnlock, HAL_MutexUnlock, Lock

LEMMA PingrespIInv ==
  ASSUME IInv, _handle_pingresp_packet
  PROVE  IInv'
  BY DEF IInv, TypeOK, Places, Calling, WriteBufHeld, Serialised, OwnUnsent, Answering,
     _handle_pingresp_packet

LEMMA OutLockIInv ==
  ASSUME IInv, OutLock
  PROVE  IInv'
  BY DEF IInv, TypeOK, Places, Calling, WriteBufHeld, Serialised, OwnUnsent, Answering,
     OutLock, Free, HAL_MutexLock, Lock

LEMMA SendIInv ==
  ASSUME IInv, send_mqtt_packet
  PROVE  IInv'
  <1>1. /\ pc' \in [Thread -> Point]
        /\ \A t \in App : pc'[t] = pc[t]
        /\ pc'[Yielder] \in {"pong", "ping_count", "disc_conn", "disconnected",
                             "connack", "loop"}
    BY DEF IInv, TypeOK, send_mqtt_packet
  <1>2. holder["write_buf"] = Yielder
    BY DEF IInv, WriteBufHeld, send_mqtt_packet
  <1>3. TypeOK'
    BY <1>1 DEF IInv, TypeOK, send_mqtt_packet, HAL_MutexUnlock, Lock
  <1>4. Places' /\ Calling' /\ Serialised' /\ OwnUnsent' /\ Answering'
    BY <1>1 DEF IInv, Places, Calling, Serialised, OwnUnsent, Answering, send_mqtt_packet
  <1>5. WriteBufHeld'
    BY <1>1, <1>2 DEF IInv, WriteBufHeld, send_mqtt_packet, HAL_MutexUnlock
  <1> QED
    BY <1>3, <1>4, <1>5 DEF IInv

LEMMA KeepAliveIInv ==
  ASSUME IInv, _mqtt_keep_alive
  PROVE  IInv'
  BY DEF IInv, TypeOK, Places, Calling, WriteBufHeld, Serialised, OwnUnsent, Answering,
     _mqtt_keep_alive, Packet

LEMMA PingCountIInv ==
  ASSUME IInv, PingCount
  PROVE  IInv'
  BY DEF IInv, TypeOK, Places, Calling, WriteBufHeld, Serialised, OwnUnsent, Answering,
     PingCount

LEMMA HandleDisconnectIInv ==
  ASSUME IInv, _handle_disconnect
  PROVE  IInv'
  BY DEF IInv, TypeOK, Places, Calling, WriteBufHeld, Serialised, OwnUnsent, Answering,
     _handle_disconnect, Packet

LEMMA AttemptReconnectIInv ==
  ASSUME IInv, uiot_mqtt_attempt_reconnect
  PROVE  IInv'
  BY DEF IInv, TypeOK, Places, Calling, WriteBufHeld, Serialised, OwnUnsent, Answering,
     uiot_mqtt_attempt_reconnect, Packet

LEMMA WaitForConnackIInv ==
  ASSUME IInv, WaitForConnack
  PROVE  IInv'
  BY DEF IInv, TypeOK, Places, Calling, WriteBufHeld, Serialised, OwnUnsent, Answering,
     WaitForConnack

LEMMA ConnectedIInv ==
  ASSUME IInv, Connected
  PROVE  IInv'
  BY DEF IInv, TypeOK, Places, Calling, WriteBufHeld, Serialised, OwnUnsent, Answering,
     Connected

(* What is left to show for a step of the loop that neither uses the write *)
(* buffer nor sends a request.                                             *)
LEMMA LoopStep ==
  ASSUME IInv, TypeOK', cont' \in ReturnPoint, Answering',
         own' = own, write_buf' = write_buf, holder'["write_buf"] = holder["write_buf"],
         \A t \in App : pc'[t] = pc[t] /\ op'[t] = op[t] /\ arg'[t] = arg[t],
         pc'[Yielder] \notin InWriteBuf,
         pc'[Yielder] \in ApiPoint => op'[Yielder] \in Op /\ arg'[Yielder] \in Topic,
         \A n \in Node : node'[n] # NULL =>
            /\ node[n] # NULL
            /\ node'[n].owner = node[n].owner
            /\ node'[n].sent => node[n].sent
  PROVE  IInv'
  <1>1. Places' /\ Calling' /\ WriteBufHeld' /\ Serialised'
    BY DEF IInv, Places, Calling, WriteBufHeld, Serialised
  <1>2. OwnUnsent'
    BY DEF IInv, OwnUnsent
  <1> QED
    BY <1>1, <1>2 DEF IInv

(* The node of an answer is marked. *)
LEMMA MarkEffect ==
  ASSUME IInv, Mark(cur), cur \in Node, node[cur] # NULL
  PROVE  /\ node' \in [Node -> NodeInfo \cup {NULL}]
         /\ cur' = NULL
         /\ \A n \in Node : node'[n] # NULL =>
               /\ node[n] # NULL
               /\ node'[n].owner = node[n].owner
               /\ node'[n].sent => node[n].sent
  <1> DEFINE m == [node[cur] EXCEPT !.state = "INVALID", !.sent = FALSE]
  <1>1. m \in NodeInfo /\ m.owner = node[cur].owner /\ m.sent = FALSE
    <2>1. node[cur] \in NodeInfo
      BY DEF IInv, TypeOK
    <2> QED
      BY <2>1 DEF NodeInfo
  <1>2. node' = [node EXCEPT ![cur] = m] /\ cur' = NULL
    BY DEF Mark, IInv, TypeOK
  <1> HIDE DEF m
  <1> QED
    BY <1>1, <1>2 DEF IInv, TypeOK

LEMMA ReadIInv ==
  ASSUME IInv, Read
  PROVE  IInv'
  <1>1. /\ pc' \in [Thread -> Point]
        /\ \A t \in App : pc'[t] = pc[t]
        /\ pc'[Yielder] \in {"pub_info", "deliver", "disc_conn", "puback_mark",
                             "suback_lock", "unsuback_mark"}
        /\ cur' \in Node \cup {NULL}
        /\ pc'[Yielder] \in {"puback_mark", "suback_lock", "unsuback_mark"} =>
              cur' \in Node /\ node[cur'] # NULL /\ node[cur'].sent
    BY DEF IInv, TypeOK, Read, Answerable
  <1>2. TypeOK'
    BY <1>1 DEF IInv, TypeOK, Read
  <1>3. Answering'
    BY <1>1 DEF Answering, Read
  <1> QED
    BY <1>1, <1>2, <1>3, LoopStep DEF IInv, Places, Read

LEMMA PubackIInv ==
  ASSUME IInv, _handle_puback_packet
  PROVE  IInv'
  <1>1. cur \in Node /\ node[cur] # NULL
    BY DEF IInv, Answering, _handle_puback_packet
  <1>2. Mark(cur) /\ Callback("PUBLISH_SUCCESS", "pong") /\ own' = own
    BY DEF _handle_puback_packet
  <1>3. Lands({"pong"})
    BY <1>2, CallbackLands
  <1>4. TypeOK'
    BY <1>1, <1>2, <1>3, MarkEffect DEF Lands, IInv, TypeOK, _handle_puback_packet
  <1>5. Answering'
    BY <1>3 DEF Lands, Answering
  <1> QED
    BY <1>1, <1>2, <1>3, <1>4, <1>5, MarkEffect, LoopStep DEF Lands, _handle_puback_packet

LEMMA SubackIInv ==
  ASSUME IInv, _handle_suback_packet
  PROVE  IInv'
  <1>1. cur \in Node /\ node[cur] # NULL /\ node[cur] \in NodeInfo
    BY DEF IInv, TypeOK, Answering, _handle_suback_packet
  <1>2. Mark(cur) /\ own' = own
    BY DEF _handle_suback_packet
  <1>3. Lands({"suback_unlock", "pong"})
    <2>1. CASE Callback("SUBSCRIBE_NACK", "suback_unlock")
      BY <1>2, <2>1, CallbackLands
    <2>2. CASE Callback("SUBSCRIBE_SUCCESS", "pong")
      BY <1>2, <2>2, CallbackLands
    <2> QED
      BY <2>1, <2>2 DEF _handle_suback_packet
  <1>4. /\ sub_handles' \subseteq Topic
        /\ holder' \in [Lock -> Thread \cup {NULL}]
        /\ holder'["write_buf"] = holder["write_buf"]
    BY <1>1 DEF IInv, TypeOK, _handle_suback_packet, HAL_MutexUnlock, Lock, NodeInfo
  <1>5. TypeOK'
    BY <1>1, <1>2, <1>3, <1>4, MarkEffect DEF Lands, IInv, TypeOK, _handle_suback_packet
  <1>6. Answering'
    BY <1>3 DEF Lands, Answering
  <1> QED
    BY <1>1, <1>2, <1>3, <1>4, <1>5, <1>6, MarkEffect, LoopStep DEF Lands, _handle_suback_packet

LEMMA UnsubackMarkIInv ==
  ASSUME IInv, UnsubackMark
  PROVE  IInv'
  <1>1. cur \in Node /\ node[cur] # NULL /\ Mark(cur)
    BY DEF IInv, Answering, UnsubackMark
  <1>2. TypeOK'
    BY <1>1, MarkEffect DEF IInv, TypeOK, UnsubackMark
  <1>3. /\ pc'[Yielder] = "unsuback_lock"
        /\ \A t \in App : pc'[t] = pc[t]
    BY DEF IInv, TypeOK, UnsubackMark
  <1>4. Answering'
    BY <1>3 DEF Answering
  <1> QED
    BY <1>1, <1>2, <1>3, <1>4, MarkEffect, LoopStep DEF IInv, Places, UnsubackMark

LEMMA UnsubackIInv ==
  ASSUME IInv, _handle_unsuback_packet
  PROVE  IInv'
  <1>1. TypeOK /\ Places
    BY DEF IInv
  <1>2. Lands({"unsuback_unlock"})
    <2>1. Callback("UNSUBSCRIBE_SUCCESS", "unsuback_unlock") /\ own' = own
      BY DEF _handle_unsuback_packet
    <2> QED
      BY <2>1, CallbackLands
  <1>3. TypeOK'
    BY <1>1, <1>2 DEF Lands, TypeOK, _handle_unsuback_packet, HAL_MutexLock, Lock
  <1>4. Answering'
    BY <1>2 DEF Lands, Answering
  <1> QED
    BY <1>1, <1>2, <1>3, <1>4, LoopStep DEF Lands, _handle_unsuback_packet, HAL_MutexLock, Lock

LEMMA DeliverIInv ==
  ASSUME IInv, _deliver_message
  PROVE  IInv'
  <1>1. TypeOK /\ Places
    BY DEF IInv
  <1>2. Lands({"out_lock"})
    <2>1. Callback("MESSAGE", "out_lock") /\ own' = own
      BY DEF _deliver_message
    <2> QED
      BY <2>1, CallbackLands
  <1>3. TypeOK'
    BY <1>1, <1>2 DEF Lands, TypeOK, _deliver_message, Packet
  <1>4. Answering'
    BY <1>2 DEF Lands, Answering
  <1> QED
    BY <1>1, <1>2, <1>3, <1>4, LoopStep DEF Lands, _deliver_message, Packet

LEMMA PubTimeoutIInv ==
  ASSUME IInv, PubTimeout
  PROVE  IInv'
  <1>1. TypeOK /\ Places
    BY DEF IInv
  <1>2. Lands({"pub_remove"})
    <2>1. Callback("PUBLISH_TIMEOUT", "pub_remove") /\ own' = own
      BY DEF PubTimeout
    <2> QED
      BY <2>1, CallbackLands
  <1>3. TypeOK'
    BY <1>1, <1>2 DEF Lands, TypeOK, PubTimeout, HAL_MutexLock, Lock, List
  <1>4. Answering'
    BY <1>2 DEF Lands, Answering
  <1> QED
    BY <1>1, <1>2, <1>3, <1>4, LoopStep DEF Lands, PubTimeout, HAL_MutexLock, Lock, List

LEMMA DisconnectedIInv ==
  ASSUME IInv, Disconnected
  PROVE  IInv'
  <1>1. TypeOK /\ Places
    BY DEF IInv
  <1>2. Lands({"loop"})
    <2>1. Callback("DISCONNECT", "loop") /\ own' = own
      BY DEF Disconnected
    <2> QED
      BY <2>1, CallbackLands
  <1>3. /\ node' \in [Node -> NodeInfo \cup {NULL}]
        /\ \A n \in Node : node'[n] # NULL =>
              /\ node[n] # NULL
              /\ node'[n].owner = node[n].owner
              /\ node'[n].sent => node[n].sent
    <2>1. \A i \in NodeInfo : /\ [i EXCEPT !.sent = FALSE] \in NodeInfo
                             /\ [i EXCEPT !.sent = FALSE].owner = i.owner
                             /\ [i EXCEPT !.sent = FALSE].sent = FALSE
      BY DEF NodeInfo
    <2> QED
      BY <1>1, <2>1 DEF TypeOK, Disconnected
  <1>4. TypeOK'
    BY <1>1, <1>2, <1>3 DEF Lands, TypeOK, Disconnected
  <1>5. Answering'
    BY <1>2 DEF Lands, Answering
  <1> QED
    BY <1>1, <1>2, <1>3, <1>4, <1>5, LoopStep DEF Lands, Disconnected

LEMMA ListStartIInv ==
  ASSUME IInv, NEW l \in List, NEW p, NEW q \in {"pub_iter", "sub_iter"}, ListStart(l, p, q)
  PROVE  IInv'
  <1>1. TailOf(wait_ack[l]) \in Node \cup {NULL}
    <2>1. wait_ack[l] \in Seq(Node)
      BY DEF IInv, TypeOK
    <2> QED
      BY <2>1 DEF TailOf
  <1>2. TypeOK'
    BY <1>1 DEF IInv, TypeOK, ListStart, HAL_MutexLock, Lock
  <1>3. Answering'
    BY DEF IInv, TypeOK, Answering, ListStart
  <1> QED
    BY <1>2, <1>3, LoopStep DEF IInv, TypeOK, Places, ListStart, HAL_MutexLock, List

LEMMA ListEndIInv ==
  ASSUME IInv, NEW l \in List, NEW p, NEW q \in {"sub_info", "keep_alive"}, ListEnd(l, p, q)
  PROVE  IInv'
  <1>1. TypeOK'
    BY DEF IInv, TypeOK, ListEnd, HAL_MutexUnlock, Lock
  <1>2. Answering'
    BY DEF IInv, TypeOK, Answering, ListEnd
  <1> QED
    BY <1>1, <1>2, LoopStep DEF IInv, TypeOK, Places, ListEnd, HAL_MutexUnlock, List

LEMMA IteratorType ==
  ASSUME TypeOK, NEW l \in List, NEW n \in Node, IteratorNext(l, n)
  PROVE  /\ cur' \in Node
         /\ nxt' \in Node \cup {NULL}
         /\ freed' \subseteq {"node", "filter"}
         /\ out' = out /\ itr' = itr
  <1>1. wait_ack[l] \in Seq(Node)
    BY DEF TypeOK
  <1>2. Previous(wait_ack[l], n) \in Node \cup {NULL}
    BY <1>1 DEF Previous
  <1> QED
    BY <1>2 DEF IteratorNext, TypeOK

LEMMA PubNextIInv ==
  ASSUME IInv, PubNext
  PROVE  IInv'
  <1>1. PICK n \in Node : IteratorNext("list_pub", n)
    BY DEF PubNext
  <1>2. /\ cur' \in Node /\ nxt' \in Node \cup {NULL}
        /\ freed' \subseteq {"node", "filter"}
        /\ out' = out /\ itr' = itr
    BY <1>1, IteratorType DEF IInv, List
  <1>3. /\ pc' \in [Thread -> Point]
        /\ \A t \in App : pc'[t] = pc[t]
        /\ pc'[Yielder] \in {"pub_iter", "pub_remove", "pub_window"}
        /\ holder' \in [Lock -> Thread \cup {NULL}]
        /\ holder'["write_buf"] = holder["write_buf"]
    BY DEF IInv, TypeOK, PubNext, HAL_MutexUnlock, Lock, List
  <1>4. TypeOK'
    BY <1>2, <1>3 DEF IInv, TypeOK, PubNext
  <1>5. Answering'
    BY <1>3 DEF Answering
  <1> QED
    BY <1>3, <1>4, <1>5, LoopStep DEF IInv, Places, PubNext

LEMMA SubNextIInv ==
  ASSUME IInv, SubNext
  PROVE  IInv'
  <1>1. PICK n \in Node : IteratorNext("list_sub", n)
    BY DEF SubNext
  <1>2. /\ cur' \in Node /\ nxt' \in Node \cup {NULL}
        /\ freed' \subseteq {"node", "filter"}
        /\ out' = out /\ itr' = itr
    BY <1>1, IteratorType DEF IInv, List
  <1>3. Lands({"sub_iter", "sub_remove"})
    <2>1. CASE Callback("SUBSCRIBE_TIMEOUT", "sub_remove")
      <3>1. own' = own
        BY DEF SubNext
      <3> QED
        BY <2>1, <3>1, CallbackLands
    <2>2. CASE Goto(Yielder, "sub_remove") /\ UNCHANGED <<op, arg, cont>>
      BY <2>2 DEF Lands, IInv, TypeOK, Places
    <2>3. CASE UNCHANGED <<pc, op, arg, cont>>
      BY <2>3 DEF Lands, IInv, TypeOK, Places, SubNext
    <2> QED
      BY <2>1, <2>2, <2>3 DEF SubNext
  <1>4. TypeOK'
    BY <1>2, <1>3 DEF Lands, IInv, TypeOK, SubNext
  <1>5. Answering'
    BY <1>3 DEF Lands, Answering
  <1> QED
    BY <1>3, <1>4, <1>5, LoopStep DEF Lands, SubNext

LEMMA RemoveCurrentIInv ==
  ASSUME IInv, NEW l \in List, NEW p, NEW q \in {"pub_iter", "sub_iter"},
         RemoveCurrent(l, p, q)
  PROVE  IInv'
  <1>1. /\ wait_ack' \in [List -> Seq(Node)]
        /\ \A k \in List : Len(wait_ack'[k]) <= Limit(k)
        /\ node' \in [Node -> NodeInfo \cup {NULL}]
        /\ freed' \subseteq {"node", "filter"}
        /\ \A m \in Node : node'[m] # NULL => node'[m] = node[m]
    BY ListRemoveType DEF IInv, RemoveCurrent
  <1>2. TypeOK'
    BY <1>1 DEF IInv, TypeOK, RemoveCurrent
  <1>3. Answering'
    BY DEF IInv, TypeOK, Answering, RemoveCurrent
  <1> QED
    BY <1>1, <1>2, <1>3, LoopStep DEF IInv, TypeOK, Places, RemoveCurrent

LEMMA ResubscribeIInv ==
  ASSUME IInv, uiot_mqtt_resubscribe
  PROVE  IInv'
  <1>1. /\ Lands({"loop"})
        /\ itr' \subseteq Topic
    <2>1. CASE \E f \in itr \cap sub_handles :
                 /\ op' = [op EXCEPT ![Yielder] = "SUBSCRIBE"]
                 /\ arg' = [arg EXCEPT ![Yielder] = f]
                 /\ itr' = itr \ {f}
                 /\ cont' = "resub"
                 /\ Goto(Yielder, "conn")
      BY <2>1 DEF Lands, IInv, TypeOK, Op
    <2>2. CASE itr' = {} /\ Callback("RECONNECT", "loop")
      <3>1. own' = own
        BY DEF uiot_mqtt_resubscribe
      <3>2. Lands({"loop"})
        BY <2>2, <3>1, CallbackLands
      <3> QED
        BY <2>2, <3>2
    <2>3. CASE itr' = {} /\ Goto(Yielder, "loop") /\ UNCHANGED <<op, arg, cont>>
      BY <2>3 DEF Lands, IInv, TypeOK, Places
    <2> QED
      BY <2>1, <2>2, <2>3 DEF uiot_mqtt_resubscribe
  <1>2. TypeOK'
    BY <1>1 DEF Lands, IInv, TypeOK, uiot_mqtt_resubscribe
  <1>3. Answering'
    BY <1>1 DEF Lands, Answering
  <1> QED
    BY <1>1, <1>2, <1>3, LoopStep DEF Lands, uiot_mqtt_resubscribe

----------------------------------------------------------------------------
LEMMA NextIInv ==
  ASSUME IInv, [Next]_vars
  PROVE  IInv'
  <1>1. ASSUME NEW t \in Thread, Api(t)
        PROVE  IInv'
    BY <1>1, ApiCallIInv, ClearHandlesIInv, CheckConnectionIInv, LockWriteBufIInv,
       SerializeIInv, PushNodeIInv, SendRequestIInv, RemoveOwnNodeIInv,
       UnlockWriteBufIInv DEF Api
  <1>2. CASE uiot_mqtt_pub_info_proc
    BY <1>2, ListStartIInv, PubNextIInv, PubTimeoutIInv, RemoveCurrentIInv, ListEndIInv
       DEF uiot_mqtt_pub_info_proc, List
  <1>3. CASE uiot_mqtt_sub_info_proc
    BY <1>3, ListStartIInv, SubNextIInv, RemoveCurrentIInv, ListEndIInv
       DEF uiot_mqtt_sub_info_proc, List
  <1>4. CASE Yield
    BY <1>2, <1>3, <1>4, ReadIInv, PubackIInv, SubackLockIInv, SubackIInv, SubackUnlockIInv,
       UnsubackMarkIInv, UnsubackIInv, UnsubackUnlockIInv, DeliverIInv, PingrespIInv,
       OutLockIInv, SendIInv, KeepAliveIInv, PingCountIInv, HandleDisconnectIInv,
       DisconnectedIInv, AttemptReconnectIInv, WaitForConnackIInv, ConnectedIInv,
       ResubscribeIInv DEF Yield
  <1>5. CASE UNCHANGED vars
    BY <1>5 DEF vars, IInv, TypeOK, Places, Calling, WriteBufHeld, Serialised, OwnUnsent,
       Answering
  <1> QED
    BY <1>1, <1>4, <1>5 DEF Next

(* Every variable keeps its type, and the wait lists their limits          *)
(* MAX_REPUB_NUM and MAX_SUB_TOPICS, whatever the threads and callbacks do. *)
THEOREM TypeCorrect == Spec => []TypeOK
  <1>1. Spec => []IInv
    BY InitIInv, NextIInv, PTL DEF Spec
  <1>2. IInv => TypeOK
    BY DEF IInv
  <1> QED
    BY <1>1, <1>2, PTL

(* The one write buffer never holds the packet of another thread than the  *)
(* one that lists and sends it (lock_write_buf is held from serialising to *)
(* the end of send_mqtt_packet).                                           *)
THEOREM PacketsStayIntact == Spec => []PacketIntact
  <1>1. Spec => []IInv
    BY InitIInv, NextIInv, PTL DEF Spec
  <1>2. IInv => PacketIntact
    BY DEF IInv, Serialised, PacketIntact
  <1> QED
    BY <1>1, <1>2, PTL


----------------------------------------------------------------------------
(* The order of the locks. *)

(* Where the loop is, also while a callback of it calls the API. *)
At == IF pc[Yielder] \in ApiPoint THEN cont ELSE pc[Yielder]

(* The points of the loop at which it holds a lock. *)
HeldAt(l) ==
  CASE l = "generic"  -> {"suback_mask", "suback_unlock", "unsuback_unlock"}
    [] l = "list_pub" -> {"pub_iter", "pub_remove"}
    [] OTHER          -> {"sub_iter", "sub_remove"}

LoopLock == {"generic", "list_pub", "list_sub"}

(* These locks are held across a step by the loop alone, while it is at    *)
(* such a point or in a call a callback makes there.                       *)
LoopHolds ==
  \A l \in LoopLock : holder[l] = IF At \in HeldAt(l) THEN Yielder ELSE NULL

WriteBufInside == \A t \in Thread : holder["write_buf"] = t => pc[t] \in InWriteBuf

LInv == IInv /\ LoopHolds /\ WriteBufInside

LEMMA InitLInv == Init => LInv
  <1> SUFFICES ASSUME Init PROVE LInv
    OBVIOUS
  <1>1. At = "loop"
    BY DEF Init, At
  <1>2. \A l \in Lock : holder[l] = NULL
    BY DEF Init
  <1>3. LoopHolds
    BY <1>1, <1>2 DEF LoopHolds, LoopLock, HeldAt, Lock, List
  <1>4. WriteBufInside
    BY <1>2 DEF WriteBufInside, Lock
  <1> QED
    BY <1>3, <1>4, InitIInv DEF LInv

(* A call of the API does not move the loop. *)
LEMMA ApiAt ==
  ASSUME IInv, NEW t \in Thread, NEW p \in ApiPoint, t = Yielder => pc[t] \in ApiPoint,
         Goto(t, p), cont' = cont
  PROVE  At' = At
  BY DEF IInv, TypeOK, At

LEMMA ReturnAt ==
  ASSUME IInv, NEW t \in Thread, pc[t] \in ApiPoint, Return(t)
  PROVE  At' = At
  BY DEF IInv, TypeOK, Places, At, Return

(* A step of the loop, or a callback of it, takes it to its next point. *)
LEMMA StepAt ==
  ASSUME IInv, NEW p \in Point \ ApiPoint, Goto(Yielder, p)
  PROVE  At' = p /\ \A t \in App : pc'[t] = pc[t]
  BY DEF IInv, TypeOK, At

LEMMA CallbackAt ==
  ASSUME IInv, NEW e, NEW p \in ReturnPoint, Callback(e, p), own' = own
  PROVE  At' = p /\ \A t \in App : pc'[t] = pc[t]
  <1>1. /\ \A t \in App : pc'[t] = pc[t]
        /\ \/ pc'[Yielder] = p /\ cont' = cont
           \/ pc'[Yielder] \in {"clear", "conn"} /\ cont' = p
    BY CallbackEffect DEF IInv
  <1> QED
    BY <1>1 DEF At

(* Nothing of a call touches another lock than lock_write_buf for longer   *)
(* than a step.                                                            *)
LEMMA ApiHolds ==
  ASSUME LInv, At' = At, \A l \in LoopLock : holder'[l] = holder[l]
  PROVE  LoopHolds'
  BY DEF LInv, LoopHolds

(* A step of the loop away from lock_write_buf. *)
LEMMA LoopStepHolds ==
  ASSUME LInv, IInv', pc[Yielder] \notin InWriteBuf, \A t \in App : pc'[t] = pc[t],
         holder'["write_buf"] = holder["write_buf"],
         \A l \in LoopLock : holder'[l] = IF At' \in HeldAt(l) THEN Yielder ELSE NULL
  PROVE  LInv'
  <1>1. WriteBufInside'
    BY DEF LInv, WriteBufInside
  <1>2. LoopHolds'
    BY DEF LoopHolds, HeldAt
  <1> QED
    BY <1>1, <1>2 DEF LInv

(* The same, when it neither takes nor releases a lock.                    *)
LEMMA LoopKeepsLocks ==
  ASSUME LInv, IInv', pc[Yielder] \notin InWriteBuf, \A t \in App : pc'[t] = pc[t],
         holder' = holder, \A l \in LoopLock : At \in HeldAt(l) <=> At' \in HeldAt(l)
  PROVE  LInv'
  BY LoopStepHolds DEF LInv, LoopHolds

(* The same, when it takes one or releases one. *)
LEMMA LoopTakes ==
  ASSUME LInv, IInv', NEW l \in LoopLock, HAL_MutexLock(l, Yielder),
         pc[Yielder] \notin InWriteBuf, \A t \in App : pc'[t] = pc[t],
         At' \in HeldAt(l), \A k \in LoopLock \ {l} : At \in HeldAt(k) <=> At' \in HeldAt(k)
  PROVE  LInv'
  <1>1. holder'[l] = Yielder /\ \A k \in Lock \ {l} : holder'[k] = holder[k]
    BY DEF HAL_MutexLock, LInv, IInv, TypeOK, LoopLock, Lock, List
  <1>2. "write_buf" \in Lock \ {l} /\ \A k \in LoopLock \ {l} : k \in Lock \ {l}
    BY DEF LoopLock, Lock, List
  <1>3. ASSUME NEW k \in LoopLock
        PROVE  holder'[k] = IF At' \in HeldAt(k) THEN Yielder ELSE NULL
    BY <1>1, <1>2 DEF LInv, LoopHolds
  <1> QED
    BY <1>1, <1>2, <1>3, LoopStepHolds

LEMMA LoopReleases ==
  ASSUME LInv, IInv', NEW l \in LoopLock, HAL_MutexUnlock(l),
         pc[Yielder] \notin InWriteBuf, \A t \in App : pc'[t] = pc[t],
         At' \notin HeldAt(l), \A k \in LoopLock \ {l} : At \in HeldAt(k) <=> At' \in HeldAt(k)
  PROVE  LInv'
  <1>1. holder'[l] = NULL /\ \A k \in Lock \ {l} : holder'[k] = holder[k]
    BY DEF HAL_MutexUnlock, LInv, IInv, TypeOK, LoopLock, Lock, List
  <1>2. "write_buf" \in Lock \ {l} /\ \A k \in LoopLock \ {l} : k \in Lock \ {l}
    BY DEF LoopLock, Lock, List
  <1>3. ASSUME NEW k \in LoopLock
        PROVE  holder'[k] = IF At' \in HeldAt(k) THEN Yielder ELSE NULL
    BY <1>1, <1>2 DEF LInv, LoopHolds
  <1> QED
    BY <1>1, <1>2, <1>3, LoopStepHolds

----------------------------------------------------------------------------
(* The steps of the API. *)
LEMMA ApiCallLInv ==
  ASSUME LInv, NEW t \in Thread, ApiCall(t)
  PROVE  LInv'
  <1>1. IInv /\ IInv' /\ holder' = holder
    BY ApiCallIInv DEF LInv, ApiCall
  <1>2. At' = At
    BY <1>1 DEF IInv, TypeOK, At, ApiCall, Entry
  <1>3. WriteBufInside'
    BY <1>1 DEF LInv, IInv, TypeOK, WriteBufInside, ApiCall, Entry
  <1> QED
    BY <1>1, <1>2, <1>3, ApiHolds DEF LInv

LEMMA ClearHandlesLInv ==
  ASSUME LInv, NEW t \in Thread, ClearHandles(t)
  PROVE  LInv'
  <1>1. IInv /\ IInv' /\ pc[t] = "clear" /\ holder' = holder
    BY ClearHandlesIInv DEF LInv, ClearHandles
  <1>2. CASE Goto(t, "conn") /\ UNCHANGED call
    BY <1>1, <1>2, ApiAt, ApiHolds DEF LInv, IInv, TypeOK, WriteBufInside
  <1>3. CASE Return(t)
    BY <1>1, <1>3, ReturnAt, ApiHolds DEF LInv, IInv, TypeOK, WriteBufInside, Return
  <1> QED
    BY <1>2, <1>3 DEF ClearHandles

LEMMA CheckConnectionLInv ==
  ASSUME LInv, NEW t \in Thread, CheckConnection(t)
  PROVE  LInv'
  <1>1. IInv /\ IInv' /\ pc[t] = "conn" /\ holder' = holder
    BY CheckConnectionIInv DEF LInv, CheckConnection
  <1>2. CASE Goto(t, "lock") /\ UNCHANGED call
    BY <1>1, <1>2, ApiAt, ApiHolds DEF LInv, IInv, TypeOK, WriteBufInside
  <1>3. CASE Return(t)
    BY <1>1, <1>3, ReturnAt, ApiHolds DEF LInv, IInv, TypeOK, WriteBufInside, Return
  <1> QED
    BY <1>2, <1>3 DEF CheckConnection

LEMMA LockWriteBufLInv ==
  ASSUME LInv, NEW t \in Thread, LockWriteBuf(t)
  PROVE  LInv'
  <1>1. IInv /\ IInv' /\ pc[t] = "lock" /\ Goto(t, "packet_id") /\ cont' = cont
    BY LockWriteBufIInv DEF LInv, LockWriteBuf
  <1>2. /\ holder'["write_buf"] = t
        /\ \A l \in LoopLock : holder'[l] = holder[l]
    BY <1>1 DEF IInv, TypeOK, LockWriteBuf, HAL_MutexLock, LoopLock, Lock, List
  <1>3. At' = At
    BY <1>1, ApiAt
  <1>4. WriteBufInside'
    BY <1>1, <1>2 DEF IInv, TypeOK, WriteBufInside
  <1> QED
    BY <1>1, <1>2, <1>3, <1>4, ApiHolds DEF LInv

(* From one point under lock_write_buf to another. *)
LEMMA InsideLInv ==
  ASSUME LInv, IInv', NEW t \in Thread, pc[t] \in ApiPoint, NEW p \in ApiPoint \cap InWriteBuf,
         Goto(t, p), cont' = cont, holder' = holder
  PROVE  LInv'
  <1>1. At' = At
    BY ApiAt DEF LInv
  <1>2. WriteBufInside'
    BY DEF LInv, IInv, TypeOK, WriteBufInside
  <1> QED
    BY <1>1, <1>2, ApiHolds DEF LInv

LEMMA SerializeLInv ==
  ASSUME LInv, NEW t \in Thread, Serialize(t)
  PROVE  LInv'
  BY SerializeIInv, InsideLInv DEF LInv, Serialize

LEMMA PushNodeLInv ==
  ASSUME LInv, NEW t \in Thread, PushNode(t)
  PROVE  LInv'
  <1>1. /\ pc[t] = "push" /\ UNCHANGED <<holder, cont>>
        /\ Goto(t, "send") \/ Goto(t, "unlock")
    BY DEF PushNode
  <1> QED
    BY <1>1, PushNodeIInv, InsideLInv DEF LInv

LEMMA SendRequestLInv ==
  ASSUME LInv, NEW t \in Thread, SendRequest(t)
  PROVE  LInv'
  <1>1. /\ pc[t] = "send" /\ UNCHANGED <<holder, cont>>
        /\ Goto(t, "unlock") \/ Goto(t, "undo")
    BY DEF SendRequest
  <1> QED
    BY <1>1, SendRequestIInv, InsideLInv DEF LInv

LEMMA RemoveOwnNodeLInv ==
  ASSUME LInv, NEW t \in Thread, RemoveOwnNode(t)
  PROVE  LInv'
  <1>1. pc[t] = "undo" /\ UNCHANGED <<holder, cont>> /\ Goto(t, "unlock")
    BY DEF RemoveOwnNode
  <1> QED
    BY <1>1, RemoveOwnNodeIInv, InsideLInv DEF LInv

LEMMA UnlockWriteBufLInv ==
  ASSUME LInv, NEW t \in Thread, UnlockWriteBuf(t)
  PROVE  LInv'
  <1>1. IInv /\ IInv' /\ pc[t] = "unlock" /\ Return(t)
    BY UnlockWriteBufIInv DEF LInv, UnlockWriteBuf
  <1>2. /\ holder'["write_buf"] = NULL
        /\ \A l \in LoopLock : holder'[l] = holder[l]
    BY <1>1 DEF IInv, TypeOK, UnlockWriteBuf, HAL_MutexUnlock, LoopLock, Lock, List
  <1>3. At' = At
    BY <1>1, ReturnAt
  <1>4. WriteBufInside'
    BY <1>2 DEF WriteBufInside
  <1> QED
    BY <1>1, <1>2, <1>3, <1>4, ApiHolds DEF LInv

----------------------------------------------------------------------------
(* The steps of the loop. *)
LEMMA ReadLInv ==
  ASSUME LInv, Read
  PROVE  LInv'
  <1>1. IInv /\ IInv' /\ pc[Yielder] = "loop" /\ At = "loop"
    BY ReadIInv DEF LInv, Read, At
  <1>2. At' \in {"pub_info", "deliver", "disc_conn", "puback_mark", "suback_lock", "unsuback_mark"} /\ \A t \in App : pc'[t] = pc[t]
    BY <1>1, StepAt DEF Read
  <1> QED
    BY <1>1, <1>2, LoopKeepsLocks DEF Read, HeldAt, LoopLock

LEMMA PubackLInv ==
  ASSUME LInv, _handle_puback_packet
  PROVE  LInv'
  <1>1. IInv /\ IInv' /\ pc[Yielder] = "puback_mark" /\ At = "puback_mark"
    BY PubackIInv DEF LInv, _handle_puback_packet, At
  <1>2. At' = "pong" /\ \A t \in App : pc'[t] = pc[t]
    BY <1>1, CallbackAt DEF _handle_puback_packet
  <1> QED
    BY <1>1, <1>2, LoopKeepsLocks DEF _handle_puback_packet, HeldAt, LoopLock

LEMMA SubackLockLInv ==
  ASSUME LInv, SubackLock
  PROVE  LInv'
  <1>1. IInv /\ IInv' /\ pc[Yielder] = "suback_lock" /\ At = "suback_lock"
    BY SubackLockIInv DEF LInv, SubackLock, At
  <1>2. At' = "suback_mask" /\ \A t \in App : pc'[t] = pc[t]
    BY <1>1, StepAt DEF SubackLock
  <1> QED
    BY <1>1, <1>2, LoopTakes DEF SubackLock, HeldAt, LoopLock

LEMMA SubackUnlockLInv ==
  ASSUME LInv, SubackUnlock
  PROVE  LInv'
  <1>1. IInv /\ IInv' /\ pc[Yielder] = "suback_unlock" /\ At = "suback_unlock"
    BY SubackUnlockIInv DEF LInv, SubackUnlock, At
  <1>2. At' = "pong" /\ \A t \in App : pc'[t] = pc[t]
    BY <1>1, StepAt DEF SubackUnlock
  <1> QED
    BY <1>1, <1>2, LoopReleases DEF SubackUnlock, HeldAt, LoopLock

LEMMA UnsubackMarkLInv ==
  ASSUME LInv, UnsubackMark
  PROVE  LInv'
  <1>1. IInv /\ IInv' /\ pc[Yielder] = "unsuback_mark" /\ At = "unsuback_mark"
    BY UnsubackMarkIInv DEF LInv, UnsubackMark, At
  <1>2. At' = "unsuback_lock" /\ \A t \in App : pc'[t] = pc[t]
    BY <1>1, StepAt DEF UnsubackMark
  <1> QED
    BY <1>1, <1>2, LoopKeepsLocks DEF UnsubackMark, HeldAt, LoopLock

LEMMA UnsubackLInv ==
  ASSUME LInv, _handle_unsuback_packet
  PROVE  LInv'
  <1>1. IInv /\ IInv' /\ pc[Yielder] = "unsuback_lock" /\ At = "unsuback_lock"
    BY UnsubackIInv DEF LInv, _handle_unsuback_packet, At
  <1>2. At' = "unsuback_unlock" /\ \A t \in App : pc'[t] = pc[t]
    BY <1>1, CallbackAt DEF _handle_unsuback_packet
  <1> QED
    BY <1>1, <1>2, LoopTakes DEF _handle_unsuback_packet, HeldAt, LoopLock

LEMMA UnsubackUnlockLInv ==
  ASSUME LInv, UnsubackUnlock
  PROVE  LInv'
  <1>1. IInv /\ IInv' /\ pc[Yielder] = "unsuback_unlock" /\ At = "unsuback_unlock"
    BY UnsubackUnlockIInv DEF LInv, UnsubackUnlock, At
  <1>2. At' = "pong" /\ \A t \in App : pc'[t] = pc[t]
    BY <1>1, StepAt DEF UnsubackUnlock
  <1> QED
    BY <1>1, <1>2, LoopReleases DEF UnsubackUnlock, HeldAt, LoopLock

LEMMA DeliverLInv ==
  ASSUME LInv, _deliver_message
  PROVE  LInv'
  <1>1. IInv /\ IInv' /\ pc[Yielder] = "deliver" /\ At = "deliver"
    BY DeliverIInv DEF LInv, _deliver_message, At
  <1>2. At' = "out_lock" /\ \A t \in App : pc'[t] = pc[t]
    BY <1>1, CallbackAt DEF _deliver_message
  <1> QED
    BY <1>1, <1>2, LoopKeepsLocks DEF _deliver_message, HeldAt, LoopLock

LEMMA PingrespLInv ==
  ASSUME LInv, _handle_pingresp_packet
  PROVE  LInv'
  <1>1. IInv /\ IInv' /\ pc[Yielder] = "pong" /\ At = "pong"
    BY PingrespIInv DEF LInv, _handle_pingresp_packet, At
  <1>2. At' \in {"pub_info", "loop"} /\ \A t \in App : pc'[t] = pc[t]
    BY <1>1, StepAt DEF _handle_pingresp_packet
  <1> QED
    BY <1>1, <1>2, LoopKeepsLocks DEF _handle_pingresp_packet, HeldAt, LoopLock

LEMMA KeepAliveLInv ==
  ASSUME LInv, _mqtt_keep_alive
  PROVE  LInv'
  <1>1. IInv /\ IInv' /\ pc[Yielder] = "keep_alive" /\ At = "keep_alive"
    BY KeepAliveIInv DEF LInv, _mqtt_keep_alive, At
  <1>2. At' \in {"loop", "disc_conn", "out_lock"} /\ \A t \in App : pc'[t] = pc[t]
    BY <1>1, StepAt DEF _mqtt_keep_alive
  <1> QED
    BY <1>1, <1>2, LoopKeepsLocks DEF _mqtt_keep_alive, HeldAt, LoopLock

LEMMA PingCountLInv ==
  ASSUME LInv, PingCount
  PROVE  LInv'
  <1>1. IInv /\ IInv' /\ pc[Yielder] = "ping_count" /\ At = "ping_count"
    BY PingCountIInv DEF LInv, PingCount, At
  <1>2. At' = "loop" /\ \A t \in App : pc'[t] = pc[t]
    BY <1>1, StepAt DEF PingCount
  <1> QED
    BY <1>1, <1>2, LoopKeepsLocks DEF PingCount, HeldAt, LoopLock

LEMMA HandleDisconnectLInv ==
  ASSUME LInv, _handle_disconnect
  PROVE  LInv'
  <1>1. IInv /\ IInv' /\ pc[Yielder] = "disc_conn" /\ At = "disc_conn"
    BY HandleDisconnectIInv DEF LInv, _handle_disconnect, At
  <1>2. At' = "out_lock" /\ \A t \in App : pc'[t] = pc[t]
    BY <1>1, StepAt DEF _handle_disconnect
  <1> QED
    BY <1>1, <1>2, LoopKeepsLocks DEF _handle_disconnect, HeldAt, LoopLock

LEMMA DisconnectedLInv ==
  ASSUME LInv, Disconnected
  PROVE  LInv'
  <1>1. IInv /\ IInv' /\ pc[Yielder] = "disconnected" /\ At = "disconnected"
    BY DisconnectedIInv DEF LInv, Disconnected, At
  <1>2. At' = "loop" /\ \A t \in App : pc'[t] = pc[t]
    BY <1>1, CallbackAt DEF Disconnected
  <1> QED
    BY <1>1, <1>2, LoopKeepsLocks DEF Disconnected, HeldAt, LoopLock

LEMMA AttemptReconnectLInv ==
  ASSUME LInv, uiot_mqtt_attempt_reconnect
  PROVE  LInv'
  <1>1. IInv /\ IInv' /\ pc[Yielder] = "loop" /\ At = "loop"
    BY AttemptReconnectIInv DEF LInv, uiot_mqtt_attempt_reconnect, At
  <1>2. At' = "out_lock" /\ \A t \in App : pc'[t] = pc[t]
    BY <1>1, StepAt DEF uiot_mqtt_attempt_reconnect
  <1> QED
    BY <1>1, <1>2, LoopKeepsLocks DEF uiot_mqtt_attempt_reconnect, HeldAt, LoopLock

LEMMA WaitForConnackLInv ==
  ASSUME LInv, WaitForConnack
  PROVE  LInv'
  <1>1. IInv /\ IInv' /\ pc[Yielder] = "connack" /\ At = "connack"
    BY WaitForConnackIInv DEF LInv, WaitForConnack, At
  <1>2. At' \in {"connected", "loop"} /\ \A t \in App : pc'[t] = pc[t]
    BY <1>1, StepAt DEF WaitForConnack
  <1> QED
    BY <1>1, <1>2, LoopKeepsLocks DEF WaitForConnack, HeldAt, LoopLock

LEMMA ConnectedLInv ==
  ASSUME LInv, Connected
  PROVE  LInv'
  <1>1. IInv /\ IInv' /\ pc[Yielder] = "connected" /\ At = "connected"
    BY ConnectedIInv DEF LInv, Connected, At
  <1>2. At' = "resub" /\ \A t \in App : pc'[t] = pc[t]
    BY <1>1, StepAt DEF Connected
  <1> QED
    BY <1>1, <1>2, LoopKeepsLocks DEF Connected, HeldAt, LoopLock

LEMMA PubTimeoutLInv ==
  ASSUME LInv, PubTimeout
  PROVE  LInv'
  <1>1. IInv /\ IInv' /\ pc[Yielder] = "pub_window" /\ At = "pub_window"
    BY PubTimeoutIInv DEF LInv, PubTimeout, At
  <1>2. At' = "pub_remove" /\ \A t \in App : pc'[t] = pc[t]
    BY <1>1, CallbackAt DEF PubTimeout
  <1> QED
    BY <1>1, <1>2, LoopTakes DEF PubTimeout, HeldAt, LoopLock

LEMMA SubackLInv ==
  ASSUME LInv, _handle_suback_packet
  PROVE  LInv'
  <1>1. IInv /\ IInv' /\ pc[Yielder] = "suback_mask" /\ At = "suback_mask" /\ own' = own
    BY SubackIInv DEF LInv, _handle_suback_packet, At
  <1>2. CASE Callback("SUBSCRIBE_NACK", "suback_unlock") /\ UNCHANGED holder
    <2>1. At' = "suback_unlock" /\ \A t \in App : pc'[t] = pc[t]
      BY <1>1, <1>2, CallbackAt
    <2> QED
      BY <1>1, <1>2, <2>1, LoopKeepsLocks DEF HeldAt, LoopLock
  <1>3. CASE HAL_MutexUnlock("generic") /\ Callback("SUBSCRIBE_SUCCESS", "pong")
    <2>1. At' = "pong" /\ \A t \in App : pc'[t] = pc[t]
      BY <1>1, <1>3, CallbackAt
    <2> QED
      BY <1>1, <1>3, <2>1, LoopReleases DEF HeldAt, LoopLock
  <1> QED
    BY <1>2, <1>3 DEF _handle_suback_packet

LEMMA OutLockLInv ==
  ASSUME LInv, OutLock
  PROVE  LInv'
  <1>1. IInv /\ IInv' /\ pc[Yielder] = "out_lock" /\ At = "out_lock"
    BY OutLockIInv DEF LInv, OutLock, At
  <1>2. At' = "out_send" /\ pc'[Yielder] = "out_send"
    BY <1>1, StepAt DEF OutLock, IInv, TypeOK
  <1>3. /\ holder'["write_buf"] = Yielder
        /\ \A l \in LoopLock : holder'[l] = holder[l]
    BY <1>1 DEF IInv, TypeOK, OutLock, HAL_MutexLock, LoopLock, Lock, List
  <1>4. LoopHolds'
    BY <1>1, <1>2, <1>3 DEF LInv, LoopHolds, HeldAt, LoopLock
  <1>5. WriteBufInside'
    BY <1>2, <1>3 DEF WriteBufInside
  <1> QED
    BY <1>1, <1>4, <1>5 DEF LInv

LEMMA SendLInv ==
  ASSUME LInv, send_mqtt_packet
  PROVE  LInv'
  <1>1. IInv /\ IInv' /\ pc[Yielder] = "out_send" /\ At = "out_send"
    BY SendIInv DEF LInv, send_mqtt_packet, At
  <1>2. At' \in {"pong", "ping_count", "disc_conn", "disconnected", "connack", "loop"}
    BY <1>1, StepAt DEF send_mqtt_packet
  <1>3. /\ holder'["write_buf"] = NULL
        /\ \A l \in LoopLock : holder'[l] = holder[l]
    BY <1>1 DEF IInv, TypeOK, send_mqtt_packet, HAL_MutexUnlock, LoopLock, Lock, List
  <1>4. LoopHolds'
    BY <1>1, <1>2, <1>3 DEF LInv, LoopHolds, HeldAt, LoopLock
  <1>5. WriteBufInside'
    BY <1>3 DEF WriteBufInside
  <1> QED
    BY <1>1, <1>4, <1>5 DEF LInv

LEMMA ResubscribeLInv ==
  ASSUME LInv, uiot_mqtt_resubscribe
  PROVE  LInv'
  <1>1. IInv /\ IInv' /\ pc[Yielder] = "resub" /\ At = "resub" /\ UNCHANGED <<holder, own>>
    BY ResubscribeIInv DEF LInv, uiot_mqtt_resubscribe, At
  <1>2. At' \in {"loop", "resub"} /\ \A t \in App : pc'[t] = pc[t]
    <2>1. CASE Goto(Yielder, "conn") /\ cont' = "resub"
      BY <1>1, <2>1 DEF At, IInv, TypeOK
    <2>2. CASE Callback("RECONNECT", "loop")
      BY <1>1, <2>2, CallbackAt
    <2>3. CASE Goto(Yielder, "loop")
      BY <1>1, <2>3, StepAt
    <2> QED
      BY <2>1, <2>2, <2>3 DEF uiot_mqtt_resubscribe
  <1> QED
    BY <1>1, <1>2, LoopKeepsLocks DEF HeldAt, LoopLock

LEMMA PubNextLInv ==
  ASSUME LInv, PubNext
  PROVE  LInv'
  <1>1. IInv /\ IInv' /\ pc[Yielder] = "pub_iter" /\ At = "pub_iter"
    BY PubNextIInv DEF LInv, PubNext, At
  <1>2. CASE Goto(Yielder, "pub_remove") /\ UNCHANGED holder
    <2>1. At' = "pub_remove" /\ \A t \in App : pc'[t] = pc[t]
      BY <1>1, <1>2, StepAt
    <2> QED
      BY <1>1, <1>2, <2>1, LoopKeepsLocks DEF HeldAt, LoopLock
  <1>3. CASE UNCHANGED <<pc, holder>>
    <2>1. At' = "pub_iter"
      BY <1>1, <1>3 DEF At
    <2> QED
      BY <1>1, <1>3, <2>1, LoopKeepsLocks DEF HeldAt, LoopLock
  <1>4. CASE HAL_MutexUnlock("list_pub") /\ Goto(Yielder, "pub_window")
    <2>1. At' = "pub_window" /\ \A t \in App : pc'[t] = pc[t]
      BY <1>1, <1>4, StepAt
    <2> QED
      BY <1>1, <1>4, <2>1, LoopReleases DEF HeldAt, LoopLock
  <1> QED
    BY <1>2, <1>3, <1>4 DEF PubNext

LEMMA SubNextLInv ==
  ASSUME LInv, SubNext
  PROVE  LInv'
  <1>1. IInv /\ IInv' /\ pc[Yielder] = "sub_iter" /\ At = "sub_iter" /\ UNCHANGED <<holder, own>>
    BY SubNextIInv DEF LInv, SubNext, At
  <1>2. At' \in {"sub_iter", "sub_remove"} /\ \A t \in App : pc'[t] = pc[t]
    <2>1. CASE Goto(Yielder, "sub_remove")
      BY <1>1, <2>1, StepAt
    <2>2. CASE UNCHANGED <<pc, cont>>
      BY <1>1, <2>2 DEF At
    <2>3. CASE Callback("SUBSCRIBE_TIMEOUT", "sub_remove")
      BY <1>1, <2>3, CallbackAt
    <2> QED
      BY <2>1, <2>2, <2>3 DEF SubNext
  <1> QED
    BY <1>1, <1>2, LoopKeepsLocks DEF HeldAt, LoopLock

LEMMA ListStartLInv ==
  ASSUME LInv,
         ListStart("list_pub", "pub_info", "pub_iter") \/ ListStart("list_sub", "sub_info", "sub_iter")
  PROVE  LInv'
  <1>1. IInv /\ IInv'
    BY ListStartIInv DEF LInv, List
  <1>2. CASE ListStart("list_pub", "pub_info", "pub_iter")
    <2>1. /\ pc[Yielder] = "pub_info" /\ At = "pub_info" /\ At' = "pub_iter"
          /\ \A t \in App : pc'[t] = pc[t]
      BY <1>1, <1>2, StepAt DEF ListStart, At
    <2> QED
      BY <1>1, <1>2, <2>1, LoopTakes DEF ListStart, HeldAt, LoopLock
  <1>3. CASE ListStart("list_sub", "sub_info", "sub_iter")
    <2>1. /\ pc[Yielder] = "sub_info" /\ At = "sub_info" /\ At' = "sub_iter"
          /\ \A t \in App : pc'[t] = pc[t]
      BY <1>1, <1>3, StepAt DEF ListStart, At
    <2> QED
      BY <1>1, <1>3, <2>1, LoopTakes DEF ListStart, HeldAt, LoopLock
  <1> QED
    BY <1>2, <1>3

LEMMA ListEndLInv ==
  ASSUME LInv,
         \/ ListEnd("list_pub", "pub_iter", "sub_info")
         \/ ListEnd("list_sub", "sub_iter", "keep_alive")
  PROVE  LInv'
  <1>1. IInv /\ IInv'
    BY ListEndIInv DEF LInv, List
  <1>2. CASE ListEnd("list_pub", "pub_iter", "sub_info")
    <2>1. /\ pc[Yielder] = "pub_iter" /\ At = "pub_iter" /\ At' = "sub_info"
          /\ \A t \in App : pc'[t] = pc[t]
      BY <1>1, <1>2, StepAt DEF ListEnd, At
    <2> QED
      BY <1>1, <1>2, <2>1, LoopReleases DEF ListEnd, HeldAt, LoopLock
  <1>3. CASE ListEnd("list_sub", "sub_iter", "keep_alive")
    <2>1. /\ pc[Yielder] = "sub_iter" /\ At = "sub_iter" /\ At' = "keep_alive"
          /\ \A t \in App : pc'[t] = pc[t]
      BY <1>1, <1>3, StepAt DEF ListEnd, At
    <2> QED
      BY <1>1, <1>3, <2>1, LoopReleases DEF ListEnd, HeldAt, LoopLock
  <1> QED
    BY <1>2, <1>3

LEMMA RemoveCurrentLInv ==
  ASSUME LInv,
         \/ RemoveCurrent("list_pub", "pub_remove", "pub_iter")
         \/ RemoveCurrent("list_sub", "sub_remove", "sub_iter")
  PROVE  LInv'
  <1>1. IInv /\ IInv'
    BY RemoveCurrentIInv DEF LInv, List
  <1>2. CASE RemoveCurrent("list_pub", "pub_remove", "pub_iter")
    <2>1. /\ pc[Yielder] = "pub_remove" /\ At = "pub_remove" /\ At' = "pub_iter"
          /\ \A t \in App : pc'[t] = pc[t]
      BY <1>1, <1>2, StepAt DEF RemoveCurrent, At
    <2> QED
      BY <1>1, <1>2, <2>1, LoopKeepsLocks DEF RemoveCurrent, HeldAt, LoopLock
  <1>3. CASE RemoveCurrent("list_sub", "sub_remove", "sub_iter")
    <2>1. /\ pc[Yielder] = "sub_remove" /\ At = "sub_remove" /\ At' = "sub_iter"
          /\ \A t \in App : pc'[t] = pc[t]
      BY <1>1, <1>3, StepAt DEF RemoveCurrent, At
    <2> QED
      BY <1>1, <1>3, <2>1, LoopKeepsLocks DEF RemoveCurrent, HeldAt, LoopLock
  <1> QED
    BY <1>2, <1>3

LEMMA NextLInv ==
  ASSUME LInv, [Next]_vars
  PROVE  LInv'
  <1>1. ASSUME NEW t \in Thread, Api(t)
        PROVE  LInv'
    BY <1>1, ApiCallLInv, ClearHandlesLInv, CheckConnectionLInv, LockWriteBufLInv,
       SerializeLInv, PushNodeLInv, SendRequestLInv, RemoveOwnNodeLInv,
       UnlockWriteBufLInv DEF Api
  <1>2. CASE uiot_mqtt_pub_info_proc
    BY <1>2, ListStartLInv, PubNextLInv, PubTimeoutLInv, RemoveCurrentLInv, ListEndLInv
       DEF uiot_mqtt_pub_info_proc
  <1>3. CASE uiot_mqtt_sub_info_proc
    BY <1>3, ListStartLInv, SubNextLInv, RemoveCurrentLInv, ListEndLInv
       DEF uiot_mqtt_sub_info_proc
  <1>4. CASE Yield
    BY <1>2, <1>3, <1>4, ReadLInv, PubackLInv, SubackLockLInv, SubackLInv, SubackUnlockLInv,
       UnsubackMarkLInv, UnsubackLInv, UnsubackUnlockLInv, DeliverLInv, PingrespLInv,
       OutLockLInv, SendLInv, KeepAliveLInv, PingCountLInv, HandleDisconnectLInv,
       DisconnectedLInv, AttemptReconnectLInv, WaitForConnackLInv, ConnectedLInv,
       ResubscribeLInv DEF Yield
  <1>5. CASE UNCHANGED vars
    <2>1. IInv' /\ holder' = holder /\ pc' = pc /\ At' = At
      BY <1>5, NextIInv DEF LInv, At, vars
    <2> QED
      BY <2>1 DEF LInv, LoopHolds, WriteBufInside
  <1> QED
    BY <1>1, <1>4, <1>5 DEF Next

LEMMA LInvOrder == LInv => LockOrder
  <1> SUFFICES ASSUME LInv, NEW t \in Thread, ~CalledUnderLock(t), NEW l \in Wants(t),
                      NEW k \in Lock, holder[k] = t
               PROVE  Rank(k) < Rank(l)
    BY DEF LockOrder
  <1>1. l \in Lock
    BY DEF Wants
  <1>2. CASE k = "write_buf"
    <2>1. pc[t] \in InWriteBuf
      BY <1>2 DEF LInv, WriteBufInside
    <2>2. l # "write_buf"
      BY <2>1 DEF Wants, ListOf
    <2> QED
      BY <1>1, <1>2, <2>2 DEF Rank, Lock, List
  <1>3. CASE k \in LoopLock
    <2>1. t = Yielder /\ At \in HeldAt(k)
      BY <1>3 DEF LInv, LoopHolds
    <2>2. pc[Yielder] \notin ApiPoint
      <3> SUFFICES ASSUME pc[Yielder] \in ApiPoint PROVE FALSE
        OBVIOUS
      <3>1. op[Yielder] \in Op
        BY DEF LInv, IInv, Calling
      <3>2. op[Yielder] # NULL
        BY <3>1
      <3>3. cont \in HeldAt(k) /\ cont \in ReturnPoint
        BY <2>1 DEF At, LInv, IInv, Places
      <3>4. cont \in {"pub_remove", "sub_remove", "suback_unlock", "unsuback_unlock"}
        BY <1>3, <3>3 DEF HeldAt, LoopLock
      <3> QED
        BY <2>1, <3>2, <3>4 DEF CalledUnderLock
    <2>3. pc[Yielder] \in HeldAt(k)
      BY <2>1, <2>2 DEF At
    <2>4. CASE k = "generic"
      <3>1. l = "list_sub"
        BY <2>1, <2>3, <2>4 DEF HeldAt, Wants
      <3> QED
        BY <2>4, <3>1 DEF Rank
    <2>5. CASE k # "generic"
      <3>1. pc[Yielder] \in {"pub_iter", "pub_remove", "sub_iter", "sub_remove"}
        BY <1>3, <2>3, <2>5 DEF HeldAt, LoopLock
      <3> QED
        BY <2>1, <3>1 DEF Wants
    <2> QED
      BY <2>4, <2>5
  <1> QED
    BY <1>2, <1>3 DEF Lock, List, LoopLock

(* Any number of threads takes the locks in the order lock_write_buf,      *)
(* lock_generic, list locks, and none waits in a circle: neither the calls *)
(* of the API nor the handlers and callbacks of uiot_mqtt_yield, whichever *)
(* callbacks call the API -- except while such a call is made from one of  *)
(* the four callbacks that run under a lock (CalledUnderLock).             *)
THEOREM LocksAreOrdered == Spec => []LockOrder
  <1>1. LInv /\ [Next]_vars => LInv'
    BY NextLInv
  <1>2. Spec => []LInv
    BY <1>1, InitLInv, PTL DEF Spec
  <1> QED
    BY <1>2, LInvOrder, PTL

(* With the same exception no thread waits for a lock it holds itself.     *)
THEOREM NoThreadWaitsForItself == Spec => []NoSelfDeadlock
  <1>1. LockOrder => NoSelfDeadlock
    <2> SUFFICES ASSUME LockOrder, NEW t \in Thread, ~CalledUnderLock(t),
                        NEW l \in Wants(t), holder[l] = t
                 PROVE  FALSE
      BY DEF NoSelfDeadlock
    <2>1. l \in Lock
      BY DEF Wants
    <2>2. Rank(l) < Rank(l) /\ Rank(l) \in Nat
      BY <2>1 DEF LockOrder, Rank
    <2> QED
      BY <2>2
  <1> QED
    BY <1>1, LocksAreOrdered, PTL

----------------------------------------------------------------------------
(* The nodes of the wait lists.                                            *)

(* A listed node is in memory, in the list of its type, and there once.    *)
Lists ==
  \A l \in List :
    /\ \A i \in 1..Len(wait_ack[l]) :
         node[wait_ack[l][i]] # NULL /\ ListOf(node[wait_ack[l][i]].type) = l
    /\ \A i, j \in 1..Len(wait_ack[l]) : wait_ack[l][i] = wait_ack[l][j] => i = j

(* The iterator stands before a listed node, and the node it has passed is *)
(* listed until it is removed.                                             *)
Iterating(l, on, hold) ==
  /\ At \in on /\ nxt # NULL => Listed(l, nxt)
  /\ At \in hold => Listed(l, cur) /\ cur # nxt

IterPoint == {"pub_iter", "pub_window", "pub_remove", "sub_iter", "sub_remove"}

Iterators ==
  /\ Iterating("list_pub", {"pub_iter", "pub_window", "pub_remove"},
               {"pub_window", "pub_remove"})
  /\ Iterating("list_sub", {"sub_iter", "sub_remove"}, {"sub_remove"})

NInv == IInv /\ Lists /\ (~raced => Iterators) /\ NodesLive

(* What is left of a sequence of different elements when one is removed.   *)
LEMMA RemoveAtElements ==
  ASSUME NEW S, NEW s \in Seq(S), NEW i \in 1..Len(s),
         \A j, k \in 1..Len(s) : s[j] = s[k] => j = k
  PROVE  /\ RemoveAt(s, i) \in Seq(S)
         /\ \A k \in 1..Len(RemoveAt(s, i)) :
              \E j \in 1..Len(s) : j # i /\ RemoveAt(s, i)[k] = s[j]
         /\ \A j, k \in 1..Len(RemoveAt(s, i)) :
              RemoveAt(s, i)[j] = RemoveAt(s, i)[k] => j = k
         /\ \A j \in 1..Len(s) : j # i =>
              \E k \in 1..Len(RemoveAt(s, i)) : RemoveAt(s, i)[k] = s[j]
  <1> DEFINE front == SubSeq(s, 1, i - 1)
             back  == SubSeq(s, i + 1, Len(s))
             r     == RemoveAt(s, i)
             old(k) == IF k < i THEN k ELSE k + 1
  <1>1. /\ front \in Seq(S) /\ Len(front) = i - 1
        /\ \A k \in 1..(i - 1) : front[k] = s[k]
    BY SubSeqProperties
  <1>2. /\ back \in Seq(S) /\ Len(back) = Len(s) - i
        /\ \A k \in 1..(Len(s) - i) : back[k] = s[i + k]
    BY SubSeqProperties
  <1>3. r = front \o back
    BY DEF RemoveAt
  <1> HIDE DEF front, back, r
  <1>4. /\ r \in Seq(S) /\ Len(r) = Len(s) - 1
        /\ \A k \in 1..Len(r) : r[k] = IF k < i THEN front[k] ELSE back[k - (i - 1)]
    BY SMTT(30), <1>1, <1>2, <1>3
  <1>5. \A k \in 1..Len(r) : old(k) \in 1..Len(s) /\ old(k) # i /\ r[k] = s[old(k)]
    <2> TAKE k \in 1..Len(r)
    <2>1. CASE k < i
      <3>1. k \in 1..(i - 1) /\ k \in 1..Len(s) /\ old(k) = k
        BY <2>1
      <3>2. r[k] = front[k] /\ front[k] = s[k]
        BY <1>1, <1>4, <2>1, <3>1
      <3> QED
        BY <2>1, <3>1, <3>2
    <2>2. CASE ~(k < i)
      <3>1. k - (i - 1) \in 1..(Len(s) - i) /\ i + (k - (i - 1)) = k + 1
        BY <1>4, <2>2
      <3> QED
        BY <1>2, <1>4, <2>2, <3>1
    <2> QED
      BY <2>1, <2>2
  <1>6. \A j, k \in 1..Len(r) : r[j] = r[k] => j = k
    <2> SUFFICES ASSUME NEW j \in 1..Len(r), NEW k \in 1..Len(r), r[j] = r[k]
                 PROVE  j = k
      OBVIOUS
    <2>1. old(j) = old(k)
      BY <1>5
    <2> QED
      BY <2>1
  <1>7. ASSUME NEW j \in 1..Len(s), j # i
        PROVE  \E k \in 1..Len(r) : r[k] = s[j]
    <2> DEFINE k == IF j < i THEN j ELSE j - 1
    <2>1. k \in 1..Len(r) /\ old(k) = j
      BY <1>4, <1>7
    <2> HIDE DEF k, old
    <2> QED
      BY <1>5, <2>1
  <1>8. \A k \in 1..Len(r) : \E j \in 1..Len(s) : j # i /\ r[k] = s[j]
    BY <1>5
  <1> HIDE DEF old
  <1> QED
    BY <1>4, <1>6, <1>7, <1>8 DEF r

(* A step that unlists nothing and frees no node. *)
LEMMA ListsKept ==
  ASSUME TypeOK, Lists, wait_ack' = wait_ack,
         \A n \in Node : node[n] # NULL => node'[n] # NULL /\ node'[n].type = node[n].type
  PROVE  Lists'
  <1>1. \A l \in List : \A i \in 1..Len(wait_ack[l]) : wait_ack[l][i] \in Node
    BY DEF TypeOK
  <1> QED
    BY <1>1 DEF Lists

LEMMA IteratorsKept ==
  ASSUME Iterators, \A l \in List : \A n : Listed(l, n) => Listed(l, n)',
         At' \notin IterPoint \/ (At' = At /\ cur' = cur /\ nxt' = nxt)
  PROVE  Iterators'
  <1>1. "list_pub" \in List /\ "list_sub" \in List
    BY DEF List
  <1>2. CASE At' \notin IterPoint
    BY <1>2 DEF Iterators, Iterating, IterPoint
  <1>3. CASE At' = At /\ cur' = cur /\ nxt' = nxt
    BY <1>1, <1>3 DEF Iterators, Iterating
  <1> QED
    BY <1>2, <1>3

(* What is left to show for a step that neither lists nor unlists a node.  *)
LEMMA Quiet ==
  ASSUME NInv, IInv', wait_ack' = wait_ack,
         \A n \in Node : node[n] # NULL => node'[n] # NULL /\ node'[n].type = node[n].type,
         "node" \in freed' => "node" \in freed,
         raced' = raced,
         At' \notin IterPoint \/ (At' = At /\ cur' = cur /\ nxt' = nxt)
  PROVE  NInv'
  <1>1. Lists'
    BY ListsKept DEF NInv, IInv
  <1>2. \A l \in List : \A n : Listed(l, n) => Listed(l, n)'
    BY DEF Listed
  <1>3. ~raced' => Iterators'
    BY <1>2, IteratorsKept DEF NInv
  <1> QED
    BY <1>1, <1>3 DEF NInv, NodesLive

(* The same, for one that leaves the heap alone. *)
LEMMA Still ==
  ASSUME NInv, IInv', UNCHANGED <<node, wait_ack>>, "node" \in freed' => "node" \in freed,
         raced' = raced,
         At' \notin IterPoint \/ (At' = At /\ cur' = cur /\ nxt' = nxt)
  PROVE  NInv'
  BY Quiet

LEMMA InitNInv == Init => NInv
  <1> SUFFICES ASSUME Init
               PROVE  NInv
    OBVIOUS
  <1>1. Lists
    BY DEF Init, Lists
  <1>2. Iterators /\ NodesLive
    BY DEF Init, Iterators, Iterating, At, NodesLive
  <1> QED
    BY <1>1, <1>2, InitIInv DEF NInv

----------------------------------------------------------------------------
LEMMA ApiCallNInv ==
  ASSUME NInv, NEW t \in Thread, ApiCall(t)
  PROVE  NInv'
  <1>1. IInv /\ IInv'
    BY ApiCallIInv DEF NInv
  <1>2. At' = At
    BY <1>1 DEF IInv, TypeOK, At, ApiCall, Entry
  <1> QED
    BY <1>1, <1>2, Still DEF ApiCall

LEMMA ClearHandlesNInv ==
  ASSUME NInv, NEW t \in Thread, ClearHandles(t)
  PROVE  NInv'
  <1>1. IInv /\ IInv' /\ pc[t] = "clear"
    BY ClearHandlesIInv DEF NInv, ClearHandles
  <1>2. At' = At
    <2>1. CASE Goto(t, "conn") /\ UNCHANGED call
      BY <1>1, <2>1, ApiAt
    <2>2. CASE Return(t)
      BY <1>1, <2>2, ReturnAt
    <2> QED
      BY <2>1, <2>2 DEF ClearHandles
  <1> QED
    BY <1>1, <1>2, Still DEF ClearHandles

LEMMA CheckConnectionNInv ==
  ASSUME NInv, NEW t \in Thread, CheckConnection(t)
  PROVE  NInv'
  <1>1. IInv /\ IInv' /\ pc[t] = "conn"
    BY CheckConnectionIInv DEF NInv, CheckConnection
  <1>2. At' = At
    <2>1. CASE Goto(t, "lock") /\ UNCHANGED call
      BY <1>1, <2>1, ApiAt
    <2>2. CASE Return(t)
      BY <1>1, <2>2, ReturnAt
    <2> QED
      BY <2>1, <2>2 DEF CheckConnection
  <1>3. "node" \in freed' => "node" \in freed
    BY DEF CheckConnection
  <1> QED
    BY <1>1, <1>2, <1>3, Still DEF CheckConnection

LEMMA LockWriteBufNInv ==
  ASSUME NInv, NEW t \in Thread, LockWriteBuf(t)
  PROVE  NInv'
  <1>1. IInv /\ IInv' /\ pc[t] = "lock"
    BY LockWriteBufIInv DEF NInv, LockWriteBuf
  <1>2. At' = At
    BY <1>1, ApiAt DEF LockWriteBuf
  <1> QED
    BY <1>1, <1>2, Still DEF LockWriteBuf

LEMMA SerializeNInv ==
  ASSUME NInv, NEW t \in Thread, Serialize(t)
  PROVE  NInv'
  <1>1. IInv /\ IInv' /\ pc[t] = "packet_id"
    BY SerializeIInv DEF NInv, Serialize
  <1>2. At' = At
    BY <1>1, ApiAt DEF Serialize
  <1> QED
    BY <1>1, <1>2, Still DEF Serialize

LEMMA UnlockWriteBufNInv ==
  ASSUME NInv, NEW t \in Thread, UnlockWriteBuf(t)
  PROVE  NInv'
  <1>1. IInv /\ IInv' /\ pc[t] = "unlock"
    BY UnlockWriteBufIInv DEF NInv, UnlockWriteBuf
  <1>2. At' = At
    BY <1>1, ReturnAt DEF UnlockWriteBuf
  <1> QED
    BY <1>1, <1>2, Still DEF UnlockWriteBuf

LEMMA SendRequestNInv ==
  ASSUME NInv, NEW t \in Thread, SendRequest(t)
  PROVE  NInv'
  <1>1. IInv /\ IInv' /\ pc[t] = "send"
    BY SendRequestIInv DEF NInv, SendRequest
  <1>2. At' = At
    BY <1>1, ApiAt DEF SendRequest
  <1>3. \A n \in Node : node[n] # NULL => node'[n] # NULL /\ node'[n].type = node[n].type
    <2>1. \A i \in NodeInfo, b \in BOOLEAN :
             [i EXCEPT !.sent = b] \in NodeInfo /\ [i EXCEPT !.sent = b].type = i.type
      BY DEF NodeInfo
    <2>2. CASE node' = node
      BY <2>2
    <2>3. CASE node' = [n \in Node |-> IF n = own[t] /\ node[n] # NULL
                                       THEN [node[n] EXCEPT !.sent = is_connected]
                                       ELSE node[n]]
      BY <1>1, <2>1, <2>3 DEF IInv, TypeOK
    <2> QED
      BY <2>2, <2>3 DEF SendRequest
  <1> QED
    BY <1>1, <1>2, <1>3, Quiet DEF SendRequest

(* A new node goes to the end of its list. *)
LEMMA PushNodeNInv ==
  ASSUME NInv, NEW t \in Thread, PushNode(t)
  PROVE  NInv'
  <1> DEFINE l == ListOf(op[t])
  <1>1. IInv /\ IInv' /\ pc[t] = "push" /\ op[t] \in Op /\ arg[t] \in Topic
    BY PushNodeIInv DEF NInv, IInv, Calling, PushNode
  <1>2. CASE Goto(t, "unlock") /\ UNCHANGED <<node, wait_ack, own>>
    <2>1. At' = At
      BY <1>1, <1>2, ApiAt DEF PushNode
    <2> QED
      BY <1>1, <1>2, <2>1, Still DEF PushNode
  <1>3. ASSUME NEW n \in Node,
               node[n] = NULL,
               node' = [node EXCEPT ![n] = [owner |-> t, type |-> op[t], filter |-> arg[t],
                                            state |-> "NORMAL", sent |-> FALSE]],
               wait_ack' = [wait_ack EXCEPT ![l] = Append(@, n)],
               Goto(t, "send")
        PROVE  NInv'
    <2>1. At' = At /\ UNCHANGED <<cur, nxt, freed, raced>>
      BY <1>1, <1>3, ApiAt DEF PushNode
    <2>2. l \in List /\ wait_ack \in [List -> Seq(Node)]
      BY <1>1 DEF IInv, TypeOK, ListOf, List
    <2>3. /\ node'[n] # NULL /\ node'[n].type = op[t]
          /\ \A m \in Node : m # n => node'[m] = node[m]
      <3>1. [owner |-> t, type |-> op[t], filter |-> arg[t],
             state |-> "NORMAL", sent |-> FALSE] \in NodeInfo
        BY <1>1 DEF NodeInfo
      <3> QED
        BY <1>1, <1>3, <3>1 DEF IInv, TypeOK
    <2> HIDE DEF l
    <2>4. \A k \in List : \A i \in 1..Len(wait_ack[k]) : wait_ack[k][i] \in Node \ {n}
      BY <1>3, <2>2 DEF NInv, Lists
    <2>5. /\ \A k \in List \ {l} : wait_ack'[k] = wait_ack[k]
          /\ Len(wait_ack'[l]) = Len(wait_ack[l]) + 1
          /\ \A i \in 1..Len(wait_ack[l]) : wait_ack'[l][i] = wait_ack[l][i]
          /\ wait_ack'[l][Len(wait_ack[l]) + 1] = n
          /\ Len(wait_ack[l]) \in Nat
      BY <1>3, <2>2
    <2>6. ASSUME NEW k \in List
          PROVE  /\ \A i \in 1..Len(wait_ack'[k]) :
                      /\ node'[wait_ack'[k][i]] # NULL
                      /\ ListOf(node'[wait_ack'[k][i]].type) = k
                 /\ \A i, j \in 1..Len(wait_ack'[k]) :
                      wait_ack'[k][i] = wait_ack'[k][j] => i = j
      <3>1. CASE k # l
        <4>1. wait_ack'[k] = wait_ack[k]
          BY <2>5, <3>1
        <4>2. \A i \in 1..Len(wait_ack[k]) : node'[wait_ack[k][i]] = node[wait_ack[k][i]]
          BY <2>3, <2>4
        <4>3. /\ \A i \in 1..Len(wait_ack[k]) :
                   /\ node[wait_ack[k][i]] # NULL
                   /\ ListOf(node[wait_ack[k][i]].type) = k
              /\ \A i, j \in 1..Len(wait_ack[k]) : wait_ack[k][i] = wait_ack[k][j] => i = j
          BY DEF NInv, Lists
        <4> QED
          BY <4>1, <4>2, <4>3
      <3>2. CASE k = l
        <4>1. \A i \in 1..Len(wait_ack'[l]) :
                i \in 1..Len(wait_ack[l]) \/ i = Len(wait_ack[l]) + 1
          BY <2>5
        <4>2. \A i \in 1..Len(wait_ack[l]) :
                 node[wait_ack[l][i]] # NULL /\ ListOf(node[wait_ack[l][i]].type) = l
          BY <2>2 DEF NInv, Lists
        <4>3. \A i, j \in 1..Len(wait_ack[l]) : wait_ack[l][i] = wait_ack[l][j] => i = j
          BY <2>2 DEF NInv, Lists
        <4>4. \A i \in 1..Len(wait_ack'[l]) :
                 /\ node'[wait_ack'[l][i]] # NULL
                 /\ ListOf(node'[wait_ack'[l][i]].type) = l
          <5> SUFFICES ASSUME NEW i \in 1..Len(wait_ack'[l])
                       PROVE  /\ node'[wait_ack'[l][i]] # NULL
                              /\ ListOf(node'[wait_ack'[l][i]].type) = l
            OBVIOUS
          <5>1. CASE i \in 1..Len(wait_ack[l])
            <6>1. /\ wait_ack'[l][i] = wait_ack[l][i]
                  /\ node'[wait_ack[l][i]] = node[wait_ack[l][i]]
              BY <2>2, <2>3, <2>4, <2>5, <5>1
            <6> QED
              BY <4>2, <5>1, <6>1
          <5>2. CASE i = Len(wait_ack[l]) + 1
            <6>1. wait_ack'[l][i] = n
              BY <2>5, <5>2
            <6>2. node'[n].type = op[t] /\ node'[n] # NULL
              BY <2>3
            <6>3. ListOf(op[t]) = l
              BY DEF l
            <6> QED
              BY <6>1, <6>2, <6>3
          <5> QED
            BY <4>1, <5>1, <5>2
        <4>5. \A i, j \in 1..Len(wait_ack'[l]) : wait_ack'[l][i] = wait_ack'[l][j] => i = j
          <5> SUFFICES ASSUME NEW i \in 1..Len(wait_ack'[l]),
                              NEW j \in 1..Len(wait_ack'[l]),
                              wait_ack'[l][i] = wait_ack'[l][j]
                       PROVE  i = j
            OBVIOUS
          <5>1. CASE i \in 1..Len(wait_ack[l]) /\ j \in 1..Len(wait_ack[l])
            BY <2>5, <4>3, <5>1
          <5>2. CASE i \in 1..Len(wait_ack[l]) /\ j = Len(wait_ack[l]) + 1
            <6>1. wait_ack[l][i] = n
              BY <2>5, <5>2
            <6> QED
              BY <2>2, <2>4, <5>2, <6>1
          <5>3. CASE i = Len(wait_ack[l]) + 1 /\ j \in 1..Len(wait_ack[l])
            <6>1. wait_ack[l][j] = n
              BY <2>5, <5>3
            <6> QED
              BY <2>2, <2>4, <5>3, <6>1
          <5> QED
            BY <4>1, <5>1, <5>2, <5>3
        <4> QED
          BY <3>2, <4>4, <4>5
      <3> QED
        BY <3>1, <3>2
    <2>7. Lists'
      BY <2>6 DEF Lists
    <2>8. ASSUME NEW k \in List, NEW m, Listed(k, m)
          PROVE  Listed(k, m)'
      <3>1. PICK i \in DOMAIN wait_ack[k] : wait_ack[k][i] = m
        BY <2>8 DEF Listed
      <3>2. i \in DOMAIN wait_ack'[k] /\ wait_ack'[k][i] = m
        <4>1. DOMAIN wait_ack[k] = 1..Len(wait_ack[k])
          BY <2>2
        <4>2. wait_ack' \in [List -> Seq(Node)]
          BY <1>1 DEF IInv, TypeOK
        <4>3. DOMAIN wait_ack'[k] = 1..Len(wait_ack'[k])
          BY <4>2
        <4> QED
          BY <2>5, <3>1, <4>1, <4>3
      <3> QED
        BY <3>2 DEF Listed
    <2>9. ~raced' => Iterators'
      BY <2>1, <2>8, IteratorsKept DEF NInv
    <2> QED
      BY <1>1, <2>1, <2>7, <2>9 DEF NInv, NodesLive
  <1> QED
    BY <1>2, <1>3 DEF PushNode

----------------------------------------------------------------------------
(* Marking a node leaves it listed, and of its type. *)
LEMMA MarkKeeps ==
  ASSUME IInv, Mark(cur), cur \in Node, node[cur] # NULL
  PROVE  \A n \in Node : node[n] # NULL => node'[n] # NULL /\ node'[n].type = node[n].type
  <1> DEFINE m == [node[cur] EXCEPT !.state = "INVALID", !.sent = FALSE]
  <1>1. m \in NodeInfo /\ m.type = node[cur].type
    <2>1. node[cur] \in NodeInfo
      BY DEF IInv, TypeOK
    <2> QED
      BY <2>1 DEF NodeInfo
  <1>2. node' = [node EXCEPT ![cur] = m]
    BY DEF Mark, IInv, TypeOK
  <1> HIDE DEF m
  <1> QED
    BY <1>1, <1>2 DEF IInv, TypeOK

LEMMA ReadNInv ==
  ASSUME NInv, Read
  PROVE  NInv'
  <1>1. IInv'
    BY ReadIInv DEF NInv
  <1>2. At' \in {"pub_info", "deliver", "disc_conn", "puback_mark", "suback_lock", "unsuback_mark"}
    BY StepAt DEF NInv, Read
  <1> QED
    BY <1>1, <1>2, Still DEF Read, IterPoint

LEMMA SubackLockNInv ==
  ASSUME NInv, SubackLock
  PROVE  NInv'
  <1>1. IInv'
    BY SubackLockIInv DEF NInv
  <1>2. At' \in {"suback_mask"}
    BY StepAt DEF NInv, SubackLock
  <1> QED
    BY <1>1, <1>2, Still DEF SubackLock, IterPoint

LEMMA SubackUnlockNInv ==
  ASSUME NInv, SubackUnlock
  PROVE  NInv'
  <1>1. IInv'
    BY SubackUnlockIInv DEF NInv
  <1>2. At' \in {"pong"}
    BY StepAt DEF NInv, SubackUnlock
  <1> QED
    BY <1>1, <1>2, Still DEF SubackUnlock, IterPoint

LEMMA UnsubackUnlockNInv ==
  ASSUME NInv, UnsubackUnlock
  PROVE  NInv'
  <1>1. IInv'
    BY UnsubackUnlockIInv DEF NInv
  <1>2. At' \in {"pong"}
    BY StepAt DEF NInv, UnsubackUnlock
  <1> QED
    BY <1>1, <1>2, Still DEF UnsubackUnlock, IterPoint

LEMMA PingrespNInv ==
  ASSUME NInv, _handle_pingresp_packet
  PROVE  NInv'
  <1>1. IInv'
    BY PingrespIInv DEF NInv
  <1>2. At' \in {"pub_info", "loop"}
    BY StepAt DEF NInv, _handle_pingresp_packet
  <1> QED
    BY <1>1, <1>2, Still DEF _handle_pingresp_packet, IterPoint

LEMMA OutLockNInv ==
  ASSUME NInv, OutLock
  PROVE  NInv'
  <1>1. IInv'
    BY OutLockIInv DEF NInv
  <1>2. At' \in {"out_send"}
    BY StepAt DEF NInv, OutLock
  <1> QED
    BY <1>1, <1>2, Still DEF OutLock, IterPoint

LEMMA SendNInv ==
  ASSUME NInv, send_mqtt_packet
  PROVE  NInv'
  <1>1. IInv'
    BY SendIInv DEF NInv
  <1>2. At' \in {"pong", "ping_count", "disc_conn", "disconnected", "connack", "loop"}
    BY StepAt DEF NInv, send_mqtt_packet
  <1> QED
    BY <1>1, <1>2, Still DEF send_mqtt_packet, IterPoint

LEMMA KeepAliveNInv ==
  ASSUME NInv, _mqtt_keep_alive
  PROVE  NInv'
  <1>1. IInv'
    BY KeepAliveIInv DEF NInv
  <1>2. At' \in {"loop", "disc_conn", "out_lock"}
    BY StepAt DEF NInv, _mqtt_keep_alive
  <1> QED
    BY <1>1, <1>2, Still DEF _mqtt_keep_alive, IterPoint

LEMMA PingCountNInv ==
  ASSUME NInv, PingCount
  PROVE  NInv'
  <1>1. IInv'
    BY PingCountIInv DEF NInv
  <1>2. At' \in {"loop"}
    BY StepAt DEF NInv, PingCount
  <1> QED
    BY <1>1, <1>2, Still DEF PingCount, IterPoint

LEMMA HandleDisconnectNInv ==
  ASSUME NInv, _handle_disconnect
  PROVE  NInv'
  <1>1. IInv'
    BY HandleDisconnectIInv DEF NInv
  <1>2. At' \in {"out_lock"}
    BY StepAt DEF NInv, _handle_disconnect
  <1> QED
    BY <1>1, <1>2, Still DEF _handle_disconnect, IterPoint

LEMMA AttemptReconnectNInv ==
  ASSUME NInv, uiot_mqtt_attempt_reconnect
  PROVE  NInv'
  <1>1. IInv'
    BY AttemptReconnectIInv DEF NInv
  <1>2. At' \in {"out_lock"}
    BY StepAt DEF NInv, uiot_mqtt_attempt_reconnect
  <1> QED
    BY <1>1, <1>2, Still DEF uiot_mqtt_attempt_reconnect, IterPoint

LEMMA WaitForConnackNInv ==
  ASSUME NInv, WaitForConnack
  PROVE  NInv'
  <1>1. IInv'
    BY WaitForConnackIInv DEF NInv
  <1>2. At' \in {"connected", "loop"}
    BY StepAt DEF NInv, WaitForConnack
  <1> QED
    BY <1>1, <1>2, Still DEF WaitForConnack, IterPoint

LEMMA ConnectedNInv ==
  ASSUME NInv, Connected
  PROVE  NInv'
  <1>1. IInv'
    BY ConnectedIInv DEF NInv
  <1>2. At' \in {"resub"}
    BY StepAt DEF NInv, Connected
  <1> QED
    BY <1>1, <1>2, Still DEF Connected, IterPoint

LEMMA DeliverNInv ==
  ASSUME NInv, _deliver_message
  PROVE  NInv'
  <1>1. IInv'
    BY DeliverIInv DEF NInv
  <1>2. At' = "out_lock"
    BY CallbackAt DEF NInv, _deliver_message
  <1> QED
    BY <1>1, <1>2, Still DEF _deliver_message, IterPoint

LEMMA UnsubackNInv ==
  ASSUME NInv, _handle_unsuback_packet
  PROVE  NInv'
  <1>1. IInv'
    BY UnsubackIInv DEF NInv
  <1>2. At' = "unsuback_unlock"
    BY CallbackAt DEF NInv, _handle_unsuback_packet
  <1> QED
    BY <1>1, <1>2, Still DEF _handle_unsuback_packet, IterPoint

LEMMA ResubscribeNInv ==
  ASSUME NInv, uiot_mqtt_resubscribe
  PROVE  NInv'
  <1>1. IInv /\ IInv'
    BY ResubscribeIInv DEF NInv
  <1>2. At' \in {"loop", "resub"}
    <2>1. CASE Goto(Yielder, "conn") /\ cont' = "resub"
      <3>1. pc'[Yielder] = "conn"
        BY <1>1, <2>1 DEF IInv, TypeOK
      <3> QED
        BY <2>1, <3>1 DEF At
    <2>2. CASE Callback("RECONNECT", "loop")
      BY <2>2, CallbackAt DEF NInv, uiot_mqtt_resubscribe
    <2>3. CASE Goto(Yielder, "loop")
      BY <2>3, StepAt DEF NInv
    <2> QED
      BY <2>1, <2>2, <2>3 DEF uiot_mqtt_resubscribe
  <1> QED
    BY <1>1, <1>2, Still DEF uiot_mqtt_resubscribe, IterPoint

LEMMA PubackNInv ==
  ASSUME NInv, _handle_puback_packet
  PROVE  NInv'
  <1>1. IInv /\ IInv' /\ cur \in Node /\ node[cur] # NULL
    BY PubackIInv DEF NInv, IInv, Answering, _handle_puback_packet
  <1>2. At' = "pong"
    BY CallbackAt DEF NInv, _handle_puback_packet
  <1>3. \A n \in Node : node[n] # NULL => node'[n] # NULL /\ node'[n].type = node[n].type
    BY <1>1, MarkKeeps DEF _handle_puback_packet
  <1> QED
    BY <1>1, <1>2, <1>3, Quiet DEF _handle_puback_packet, IterPoint

LEMMA SubackNInv ==
  ASSUME NInv, _handle_suback_packet
  PROVE  NInv'
  <1>1. IInv /\ IInv' /\ cur \in Node /\ node[cur] # NULL
    BY SubackIInv DEF NInv, IInv, Answering, _handle_suback_packet
  <1>2. At' \in {"suback_unlock", "pong"}
    BY CallbackAt DEF NInv, _handle_suback_packet
  <1>3. \A n \in Node : node[n] # NULL => node'[n] # NULL /\ node'[n].type = node[n].type
    BY <1>1, MarkKeeps DEF _handle_suback_packet
  <1> QED
    BY <1>1, <1>2, <1>3, Quiet DEF _handle_suback_packet, IterPoint

LEMMA UnsubackMarkNInv ==
  ASSUME NInv, UnsubackMark
  PROVE  NInv'
  <1>1. IInv /\ IInv' /\ cur \in Node /\ node[cur] # NULL
    BY UnsubackMarkIInv DEF NInv, IInv, Answering, UnsubackMark
  <1>2. At' = "unsuback_lock"
    BY StepAt DEF NInv, UnsubackMark
  <1>3. \A n \in Node : node[n] # NULL => node'[n] # NULL /\ node'[n].type = node[n].type
    BY <1>1, MarkKeeps DEF UnsubackMark
  <1> QED
    BY <1>1, <1>2, <1>3, Quiet DEF UnsubackMark, IterPoint

LEMMA DisconnectedNInv ==
  ASSUME NInv, Disconnected
  PROVE  NInv'
  <1>1. IInv /\ IInv'
    BY DisconnectedIInv DEF NInv
  <1>2. At' = "loop"
    BY CallbackAt DEF NInv, Disconnected
  <1>3. \A n \in Node : node[n] # NULL => node'[n] # NULL /\ node'[n].type = node[n].type
    <2>1. \A i \in NodeInfo :
             [i EXCEPT !.sent = FALSE] \in NodeInfo /\ [i EXCEPT !.sent = FALSE].type = i.type
      BY DEF NodeInfo
    <2>2. node' = [n \in Node |-> IF node[n] = NULL THEN NULL
                                  ELSE [node[n] EXCEPT !.sent = FALSE]]
      BY DEF Disconnected
    <2>3. \A n \in Node : node[n] # NULL => node[n] \in NodeInfo
      BY <1>1 DEF IInv, TypeOK
    <2>4. NULL \notin NodeInfo
      OBVIOUS
    <2> QED
      BY ONLY <2>1, <2>2, <2>3, <2>4
  <1> QED
    BY <1>1, <1>2, <1>3, Quiet DEF Disconnected, IterPoint

----------------------------------------------------------------------------
(* The steps over a wait list. *)

(* The node before a listed one is another, listed one, or there is none.  *)
LEMMA PreviousListed ==
  ASSUME TypeOK, Lists, NEW l \in List, NEW n, Listed(l, n), Previous(wait_ack[l], n) # NULL
  PROVE  Listed(l, Previous(wait_ack[l], n)) /\ Previous(wait_ack[l], n) # n
  <1> DEFINE i == Position(wait_ack[l], n)
  <1>1. DOMAIN wait_ack[l] = 1..Len(wait_ack[l]) /\ Len(wait_ack[l]) \in Nat
    BY DEF TypeOK
  <1>2. i \in 1..Len(wait_ack[l]) /\ wait_ack[l][i] = n
    BY <1>1 DEF Listed, Position
  <1> HIDE DEF i
  <1>3. i - 1 \in 1..Len(wait_ack[l]) /\ Previous(wait_ack[l], n) = wait_ack[l][i - 1]
    BY <1>1 DEF Previous, i
  <1>4. wait_ack[l][i - 1] # n
    <2>1. \A j, k \in 1..Len(wait_ack[l]) : wait_ack[l][j] = wait_ack[l][k] => j = k
      BY DEF Lists
    <2> QED
      BY <1>2, <1>3, <2>1
  <1> QED
    BY <1>1, <1>3, <1>4 DEF Listed

(* The iterator steps to a node that is listed, so it does not miss. *)
LEMMA IteratorSteps ==
  ASSUME TypeOK, Lists, NEW l \in List, NEW n \in Node, IteratorNext(l, n),
         Listed(l, nxt)
  PROVE  /\ freed' = freed
         /\ Listed(l, cur')
         /\ nxt' # NULL => Listed(l, nxt')
         /\ cur' # nxt'
  <1>1. Listed(l, n) /\ n # NULL /\ cur' = n
    BY DEF IteratorNext
  <1>2. nxt' = Previous(wait_ack[l], n) /\ freed' = freed
    BY <1>1 DEF IteratorNext
  <1> QED
    BY <1>1, <1>2, PreviousListed

LEMMA ListStartNInv ==
  ASSUME NInv,
         ListStart("list_pub", "pub_info", "pub_iter") \/ ListStart("list_sub", "sub_info", "sub_iter")
  PROVE  NInv'
  <1>1. IInv /\ IInv'
    BY ListStartIInv DEF NInv, List
  <1>2. ASSUME NEW l \in List, nxt' = TailOf(wait_ack[l]), wait_ack' = wait_ack
        PROVE  nxt' # NULL => Listed(l, nxt)'
    <2>1. wait_ack[l] \in Seq(Node)
      BY <1>1 DEF IInv, TypeOK
    <2>2. wait_ack[l] # <<>> => Len(wait_ack[l]) \in DOMAIN wait_ack[l]
      BY <2>1
    <2> QED
      BY <1>2, <2>2 DEF TailOf, Listed
  <1>3. Iterators'
    <2>1. CASE ListStart("list_pub", "pub_info", "pub_iter")
      <3>1. At' = "pub_iter"
        BY <2>1, StepAt DEF NInv, ListStart
      <3>2. nxt' # NULL => Listed("list_pub", nxt)'
        BY <1>2, <2>1 DEF ListStart, List
      <3> QED
        BY <3>1, <3>2 DEF Iterators, Iterating
    <2>2. CASE ListStart("list_sub", "sub_info", "sub_iter")
      <3>1. At' = "sub_iter"
        BY <2>2, StepAt DEF NInv, ListStart
      <3>2. nxt' # NULL => Listed("list_sub", nxt)'
        BY <1>2, <2>2 DEF ListStart, List
      <3> QED
        BY <3>1, <3>2 DEF Iterators, Iterating
    <2> QED
      BY <2>1, <2>2
  <1>4. Lists'
    BY <1>1, ListsKept DEF NInv, IInv, ListStart
  <1> QED
    BY <1>1, <1>3, <1>4 DEF NInv, NodesLive, ListStart

LEMMA ListEndNInv ==
  ASSUME NInv,
         \/ ListEnd("list_pub", "pub_iter", "sub_info")
         \/ ListEnd("list_sub", "sub_iter", "keep_alive")
  PROVE  NInv'
  <1>1. IInv'
    BY ListEndIInv DEF NInv, List
  <1>2. At' \in {"sub_info", "keep_alive"}
    BY StepAt DEF NInv, ListEnd
  <1> QED
    BY <1>1, <1>2, Still DEF ListEnd, IterPoint

LEMMA PubNextNInv ==
  ASSUME NInv, PubNext
  PROVE  NInv'
  <1>1. IInv /\ IInv' /\ pc[Yielder] = "pub_iter" /\ UNCHANGED <<node, wait_ack, raced>>
    BY PubNextIInv DEF NInv, PubNext
  <1>2. Lists'
    BY <1>1, ListsKept DEF NInv, IInv
  <1>3. CASE raced
    BY <1>1, <1>2, <1>3 DEF NInv, NodesLive
  <1>4. CASE ~raced
    <2>1. PICK n \in Node : IteratorNext("list_pub", n)
      BY DEF PubNext
    <2>2. At = "pub_iter" /\ nxt # NULL
      BY <1>1, <2>1 DEF At, IteratorNext
    <2>3. Listed("list_pub", nxt)
      BY <1>4, <2>2 DEF NInv, Iterators, Iterating
    <2>4. /\ freed' = freed
          /\ Listed("list_pub", cur')
          /\ nxt' # NULL => Listed("list_pub", nxt')
          /\ cur' # nxt'
      BY <2>1, <2>3, IteratorSteps DEF NInv, IInv, List
    <2>5. At' \in {"pub_iter", "pub_remove", "pub_window"}
      <3>1. CASE Goto(Yielder, "pub_remove") \/ Goto(Yielder, "pub_window")
        BY <1>1, <3>1, StepAt
      <3>2. CASE UNCHANGED pc
        BY <1>1, <3>2 DEF At
      <3> QED
        BY <3>1, <3>2 DEF PubNext
    <2>6. Iterators'
      BY <1>1, <2>4, <2>5 DEF Iterators, Iterating, Listed
    <2> QED
      BY <1>1, <1>2, <2>4, <2>6 DEF NInv, NodesLive
  <1> QED
    BY <1>3, <1>4

LEMMA SubNextNInv ==
  ASSUME NInv, SubNext
  PROVE  NInv'
  <1>1. /\ IInv /\ IInv' /\ pc[Yielder] = "sub_iter"
        /\ UNCHANGED <<node, wait_ack, raced, own>>
    BY SubNextIInv DEF NInv, SubNext
  <1>2. Lists'
    BY <1>1, ListsKept DEF NInv, IInv
  <1>3. CASE raced
    BY <1>1, <1>2, <1>3 DEF NInv, NodesLive
  <1>4. CASE ~raced
    <2>1. PICK n \in Node : IteratorNext("list_sub", n)
      BY DEF SubNext
    <2>2. At = "sub_iter" /\ nxt # NULL
      BY <1>1, <2>1 DEF At, IteratorNext
    <2>3. Listed("list_sub", nxt)
      BY <1>4, <2>2 DEF NInv, Iterators, Iterating
    <2>4. /\ freed' = freed
          /\ Listed("list_sub", cur')
          /\ nxt' # NULL => Listed("list_sub", nxt')
          /\ cur' # nxt'
      BY <2>1, <2>3, IteratorSteps DEF NInv, IInv, List
    <2>5. At' \in {"sub_iter", "sub_remove"}
      <3>1. CASE Goto(Yielder, "sub_remove")
        BY <1>1, <3>1, StepAt
      <3>2. CASE UNCHANGED <<pc, op, arg, cont>>
        BY <1>1, <3>2 DEF At
      <3>3. CASE Callback("SUBSCRIBE_TIMEOUT", "sub_remove")
        BY <1>1, <3>3, CallbackAt
      <3> QED
        BY <3>1, <3>2, <3>3 DEF SubNext
    <2>6. Iterators'
      BY <1>1, <2>4, <2>5 DEF Iterators, Iterating, Listed
    <2> QED
      BY <1>1, <1>2, <2>4, <2>6 DEF NInv, NodesLive
  <1> QED
    BY <1>3, <1>4

(* While the lock was released for the timer, the nodes the loop has       *)
(* pointers to stayed in the list, or a failed call has taken one.         *)
LEMMA PubTimeoutNInv ==
  ASSUME NInv, PubTimeout
  PROVE  NInv'
  <1>1. /\ IInv /\ IInv' /\ pc[Yielder] = "pub_window" /\ At = "pub_window"
        /\ UNCHANGED <<node, wait_ack, cur, nxt, raced, own>>
    BY PubTimeoutIInv DEF NInv, PubTimeout, At
  <1>2. Lists'
    BY <1>1, ListsKept DEF NInv, IInv
  <1>3. CASE raced
    BY <1>1, <1>2, <1>3 DEF NInv, NodesLive
  <1>4. CASE ~raced
    <2>1. Listed("list_pub", cur) /\ cur # nxt /\ (nxt # NULL => Listed("list_pub", nxt))
      BY <1>1, <1>4 DEF NInv, Iterators, Iterating
    <2>2. At' = "pub_remove"
      BY <1>1, CallbackAt DEF PubTimeout
    <2>3. freed' = freed
      BY <2>1 DEF PubTimeout
    <2>4. Iterators'
      BY <1>1, <2>1, <2>2 DEF Iterators, Iterating, Listed
    <2> QED
      BY <1>1, <1>2, <2>3, <2>4 DEF NInv, NodesLive
  <1> QED
    BY <1>3, <1>4

(* The node the iterator has passed leaves the list; the one before it,    *)
(* and every other, stays.                                                 *)
LEMMA RemovedOne ==
  ASSUME NInv, NEW l \in List, NEW n, Listed(l, n), list_remove(l, n, TRUE)
  PROVE  /\ Lists'
         /\ \A m : m # n /\ Listed(l, m) => Listed(l, m)'
         /\ \A k \in List \ {l} : wait_ack'[k] = wait_ack[k]
         /\ freed' = freed
  <1> DEFINE s == wait_ack[l]
             i == Position(s, n)
             r == RemoveAt(s, i)
  <1>1. /\ wait_ack' = [wait_ack EXCEPT ![l] = RemoveAt(@, Position(@, n))]
        /\ node' = [node EXCEPT ![n] = NULL]
        /\ freed' = freed
    BY DEF list_remove
  <1>2. /\ wait_ack \in [List -> Seq(Node)] /\ node \in [Node -> NodeInfo \cup {NULL}]
        /\ \A k \in List : wait_ack[k] \in Seq(Node) /\ DOMAIN wait_ack[k] = 1..Len(wait_ack[k])
    BY DEF NInv, IInv, TypeOK
  <1>3. i \in 1..Len(s) /\ s[i] = n /\ n \in Node
    BY <1>2 DEF Listed, Position
  <1> HIDE DEF i
  <1>4. \A j, k \in 1..Len(s) : s[j] = s[k] => j = k
    BY DEF NInv, Lists
  <1>5. /\ r \in Seq(Node)
        /\ \A k \in 1..Len(r) : \E j \in 1..Len(s) : j # i /\ r[k] = s[j]
        /\ \A j, k \in 1..Len(r) : r[j] = r[k] => j = k
        /\ \A j \in 1..Len(s) : j # i => \E k \in 1..Len(r) : r[k] = s[j]
    BY <1>2, <1>3, <1>4, RemoveAtElements
  <1>6. wait_ack'[l] = r /\ \A k \in List \ {l} : wait_ack'[k] = wait_ack[k]
    BY <1>1, <1>2 DEF i
  <1> HIDE DEF r
  <1>7. /\ node'[n] = NULL
        /\ \A m \in Node \ {n} : node'[m] = node[m]
    BY <1>1, <1>2, <1>3
  <1>8. ASSUME NEW k \in List
        PROVE  /\ \A j \in 1..Len(wait_ack'[k]) :
                    /\ node'[wait_ack'[k][j]] # NULL
                    /\ ListOf(node'[wait_ack'[k][j]].type) = k
               /\ \A j, h \in 1..Len(wait_ack'[k]) :
                    wait_ack'[k][j] = wait_ack'[k][h] => j = h
    <2>1. CASE k = l
      <3>1. ASSUME NEW j \in 1..Len(r)
            PROVE  node'[r[j]] # NULL /\ ListOf(node'[r[j]].type) = l
        <4>1. PICK h \in 1..Len(s) : h # i /\ r[j] = s[h]
          BY <1>5
        <4>2. s[h] \in Node \ {n}
          BY <1>2, <1>3, <1>4, <4>1
        <4>3. node[s[h]] # NULL /\ ListOf(node[s[h]].type) = l
          BY DEF NInv, Lists
        <4> QED
          BY <1>7, <4>1, <4>2, <4>3
      <3> QED
        BY <1>5, <1>6, <2>1, <3>1
    <2>2. CASE k # l
      <3>1. ASSUME NEW j \in 1..Len(wait_ack[k])
            PROVE  wait_ack[k][j] \in Node \ {n}
        <4>1. ListOf(node[wait_ack[k][j]].type) = k /\ wait_ack[k][j] \in Node
          BY <1>2 DEF NInv, Lists
        <4>2. ListOf(node[n].type) = l
          BY <1>3 DEF NInv, Lists
        <4> QED
          BY <2>2, <4>1, <4>2
      <3>2. /\ \A j \in 1..Len(wait_ack[k]) :
                    /\ node[wait_ack[k][j]] # NULL
                    /\ ListOf(node[wait_ack[k][j]].type) = k
            /\ \A j, h \in 1..Len(wait_ack[k]) :
                    wait_ack[k][j] = wait_ack[k][h] => j = h
        BY DEF NInv, Lists
      <3>3. wait_ack'[k] = wait_ack[k]
        BY <1>6, <2>2
      <3> QED
        BY <1>7, <3>1, <3>2, <3>3
    <2> QED
      BY <2>1, <2>2
  <1>9. Lists'
    BY <1>8 DEF Lists
  <1>10. ASSUME NEW m, m # n, Listed(l, m)
         PROVE  Listed(l, m)'
    <2>1. PICK j \in 1..Len(s) : s[j] = m
      BY <1>2, <1>10 DEF Listed
    <2>2. PICK k \in 1..Len(r) : r[k] = m
      BY <1>3, <1>5, <1>10, <2>1
    <2>3. k \in DOMAIN r
      BY <1>5, <2>2
    <2> QED
      BY <1>6, <2>2, <2>3 DEF Listed
  <1> QED
    BY <1>1, <1>6, <1>9, <1>10

(* A removal that misses changes no list. *)
LEMMA RemovedNone ==
  ASSUME NInv, NEW l, NEW n, list_remove(l, n, FALSE)
  PROVE  Lists' /\ UNCHANGED <<wait_ack, node>>
  <1>1. UNCHANGED <<wait_ack, node>>
    BY DEF list_remove
  <1> QED
    BY <1>1, ListsKept DEF NInv, IInv

LEMMA RemoveCurrentNInv ==
  ASSUME NInv,
         \/ RemoveCurrent("list_pub", "pub_remove", "pub_iter")
         \/ RemoveCurrent("list_sub", "sub_remove", "sub_iter")
  PROVE  NInv'
  <1>1. IInv /\ IInv' /\ raced' = raced /\ nxt' = nxt
    BY RemoveCurrentIInv DEF NInv, List, RemoveCurrent
  <1>2. CASE raced
    <2>1. PICK l \in List : list_remove(l, cur, Listed(l, cur))
      BY DEF RemoveCurrent, List
    <2>2. Lists'
      <3>1. CASE Listed(l, cur)
        BY <2>1, <3>1, RemovedOne DEF list_remove
      <3>2. CASE ~Listed(l, cur)
        BY <2>1, <3>2, RemovedNone DEF list_remove
      <3> QED
        BY <3>1, <3>2
    <2> QED
      BY <1>1, <1>2, <2>2 DEF NInv, NodesLive
  <1>3. CASE ~raced /\ RemoveCurrent("list_pub", "pub_remove", "pub_iter")
    <2>1. At = "pub_remove"
      BY <1>3 DEF RemoveCurrent, At
    <2>2. Listed("list_pub", cur) /\ cur # nxt /\ (nxt # NULL => Listed("list_pub", nxt))
      BY <1>3, <2>1 DEF NInv, Iterators, Iterating
    <2>3. /\ Lists'
          /\ nxt # NULL => Listed("list_pub", nxt)'
          /\ freed' = freed
      <3>1. list_remove("list_pub", cur, TRUE) /\ "list_pub" \in List
        BY <1>3, <2>2 DEF RemoveCurrent, list_remove, List
      <3>2. /\ Lists'
            /\ \A m : m # cur /\ Listed("list_pub", m) => Listed("list_pub", m)'
        BY <2>2, <3>1, RemovedOne
      <3> QED
        BY <1>1, <2>2, <3>1, <3>2 DEF list_remove
    <2>4. At' = "pub_iter"
      BY <1>1, <1>3, StepAt DEF RemoveCurrent
    <2>5. Iterators'
      BY <1>1, <2>3, <2>4 DEF Iterators, Iterating, Listed
    <2> QED
      BY <1>1, <2>3, <2>5 DEF NInv, NodesLive
  <1>4. CASE ~raced /\ RemoveCurrent("list_sub", "sub_remove", "sub_iter")
    <2>1. At = "sub_remove"
      BY <1>4 DEF RemoveCurrent, At
    <2>2. Listed("list_sub", cur) /\ cur # nxt /\ (nxt # NULL => Listed("list_sub", nxt))
      BY <1>4, <2>1 DEF NInv, Iterators, Iterating
    <2>3. /\ Lists'
          /\ nxt # NULL => Listed("list_sub", nxt)'
          /\ freed' = freed
      <3>1. list_remove("list_sub", cur, TRUE) /\ "list_sub" \in List
        BY <1>4, <2>2 DEF RemoveCurrent, list_remove, List
      <3>2. /\ Lists'
            /\ \A m : m # cur /\ Listed("list_sub", m) => Listed("list_sub", m)'
        BY <2>2, <3>1, RemovedOne
      <3> QED
        BY <1>1, <2>2, <3>1, <3>2 DEF list_remove
    <2>4. At' = "sub_iter"
      BY <1>1, <1>4, StepAt DEF RemoveCurrent
    <2>5. Iterators'
      BY <1>1, <2>3, <2>4 DEF Iterators, Iterating, Listed
    <2> QED
      BY <1>1, <2>3, <2>5 DEF NInv, NodesLive
  <1> QED
    BY <1>2, <1>3, <1>4

(* A call whose write failed takes its node back. It is listed still, or   *)
(* has timed out meanwhile; and the loop has no pointer to it, or is in    *)
(* the window of its own timeout check: elsewhere it holds the lock.       *)
LEMMA RemoveOwnNodeNInv ==
  ASSUME LInv, NInv, NEW t \in Thread, RemoveOwnNode(t)
  PROVE  NInv'
  <1>0. PICK l \in List, n \in Node : l = ListOf(op[t]) /\ n = own[t]
    BY DEF NInv, IInv, OwnUnsent, RemoveOwnNode, ListOf, List
  <1> DEFINE live == Listed(l, n) /\ node[n].owner = t
  <1>1. /\ IInv /\ IInv' /\ pc[t] = "undo"
        /\ list_remove(l, n, live) /\ holder[l] = NULL
        /\ raced' = (raced \/ ~Listed(l, n) \/ InWindow(n))
        /\ UNCHANGED <<cur, nxt>>
    BY <1>0, RemoveOwnNodeIInv DEF NInv, RemoveOwnNode, Free
  <1>2. At' = At
    BY <1>1, ApiAt DEF RemoveOwnNode
  <1>3. Listed(l, n) => live
    <2> SUFFICES ASSUME Listed(l, n) PROVE node[n].owner = t
      OBVIOUS
    <2>1. DOMAIN wait_ack[l] = 1..Len(wait_ack[l])
      BY <1>1 DEF IInv, TypeOK
    <2>2. node[n] # NULL
      BY <1>1, <2>1 DEF NInv, Lists, Listed
    <2> QED
      BY <1>0, <1>1, <2>2 DEF IInv, OwnUnsent
  <1>4. CASE ~Listed(l, n)
    <2>1. raced' /\ list_remove(l, n, FALSE)
      BY <1>1, <1>4 DEF list_remove
    <2> QED
      BY <1>1, <2>1, RemovedNone DEF NInv, NodesLive
  <1>5. CASE Listed(l, n)
    <2>1. list_remove(l, n, TRUE)
      BY <1>1, <1>3, <1>5 DEF list_remove
    <2>2. /\ Lists'
          /\ \A m : m # n /\ Listed(l, m) => Listed(l, m)'
          /\ \A k \in List \ {l} : wait_ack'[k] = wait_ack[k]
          /\ freed' = freed
      BY <1>1, <1>5, <2>1, RemovedOne DEF list_remove
    <2>3. CASE raced'
      BY <1>1, <2>2, <2>3 DEF NInv, NodesLive
    <2>4. CASE ~raced'
      <3>1. ~raced /\ ~InWindow(n)
        BY <1>1, <2>4
      <3>2. /\ At \in {"pub_iter", "pub_remove"} => holder["list_pub"] = Yielder
            /\ At \in {"sub_iter", "sub_remove"} => holder["list_sub"] = Yielder
        BY DEF LInv, LoopHolds, LoopLock, HeldAt
      <3>3. Yielder # NULL
        OBVIOUS
      <3>4. At = "pub_window" => pc[Yielder] = "pub_window"
        BY <1>1 DEF At, IInv, Places
      <3>5. Iterating("list_pub", {"pub_iter", "pub_window", "pub_remove"},
                      {"pub_window", "pub_remove"})'
        <4>1. Iterating("list_pub", {"pub_iter", "pub_window", "pub_remove"},
                        {"pub_window", "pub_remove"})
          BY <3>1 DEF NInv, Iterators
        <4>2. CASE l = "list_pub"
          <5>1. At \notin {"pub_iter", "pub_remove"}
            BY <1>1, <3>2, <3>3, <4>2
          <5>2. At = "pub_window" => n \notin {cur, nxt}
            BY <3>1, <3>4 DEF InWindow
          <5>3. \A m : m # n /\ Listed("list_pub", m) => Listed("list_pub", m)'
            BY <2>2, <4>2
          <5>4. CASE At = "pub_window"
            <6>1. Listed("list_pub", cur) /\ cur # nxt /\ (nxt # NULL => Listed("list_pub", nxt))
              BY <4>1, <5>4 DEF Iterating
            <6>2. Listed("list_pub", cur)' /\ (nxt # NULL => Listed("list_pub", nxt)')
              BY <1>1, <5>2, <5>3, <5>4, <6>1
            <6> QED
              BY <1>1, <6>1, <6>2 DEF Iterating, Listed
          <5>5. CASE At # "pub_window"
            BY <1>2, <5>1, <5>5 DEF Iterating
          <5> QED
            BY <5>4, <5>5
        <4>3. CASE l # "list_pub"
          <5>1. wait_ack'["list_pub"] = wait_ack["list_pub"]
            BY <2>2, <4>3 DEF List
          <5> QED
            BY <1>1, <1>2, <4>1, <5>1 DEF Iterating, Listed
        <4> QED
          BY <4>2, <4>3
      <3>6. Iterating("list_sub", {"sub_iter", "sub_remove"}, {"sub_remove"})'
        <4>1. Iterating("list_sub", {"sub_iter", "sub_remove"}, {"sub_remove"})
          BY <3>1 DEF NInv, Iterators
        <4>2. CASE l = "list_sub"
          <5>1. At \notin {"sub_iter", "sub_remove"}
            BY <1>1, <3>2, <3>3, <4>2
          <5> QED
            BY <1>2, <5>1 DEF Iterating
        <4>3. CASE l # "list_sub"
          <5>1. wait_ack'["list_sub"] = wait_ack["list_sub"]
            BY <2>2, <4>3 DEF List
          <5> QED
            BY <1>1, <1>2, <4>1, <5>1 DEF Iterating, Listed
        <4> QED
          BY <4>2, <4>3
      <3> QED
        BY <1>1, <2>2, <2>4, <3>1, <3>5, <3>6 DEF NInv, NodesLive, Iterators
    <2> QED
      BY <2>3, <2>4
  <1> QED
    BY <1>4, <1>5

----------------------------------------------------------------------------
LEMMA NextNInv ==
  ASSUME LInv, NInv, [Next]_vars
  PROVE  NInv'
  <1>1. ASSUME NEW t \in Thread, Api(t)
        PROVE  NInv'
    BY <1>1, ApiCallNInv, ClearHandlesNInv, CheckConnectionNInv, LockWriteBufNInv,
       SerializeNInv, PushNodeNInv, SendRequestNInv, RemoveOwnNodeNInv,
       UnlockWriteBufNInv DEF Api
  <1>2. CASE uiot_mqtt_pub_info_proc
    BY <1>2, ListStartNInv, PubNextNInv, PubTimeoutNInv, RemoveCurrentNInv, ListEndNInv
       DEF uiot_mqtt_pub_info_proc
  <1>3. CASE uiot_mqtt_sub_info_proc
    BY <1>3, ListStartNInv, SubNextNInv, RemoveCurrentNInv, ListEndNInv
       DEF uiot_mqtt_sub_info_proc
  <1>4. CASE Yield
    BY <1>2, <1>3, <1>4, ReadNInv, PubackNInv, SubackLockNInv, SubackNInv, SubackUnlockNInv,
       UnsubackMarkNInv, UnsubackNInv, UnsubackUnlockNInv, DeliverNInv, PingrespNInv,
       OutLockNInv, SendNInv, KeepAliveNInv, PingCountNInv, HandleDisconnectNInv,
       DisconnectedNInv, AttemptReconnectNInv, WaitForConnackNInv, ConnectedNInv,
       ResubscribeNInv DEF Yield
  <1>5. CASE UNCHANGED vars
    <2>1. IInv' /\ At' = At /\ UNCHANGED <<node, wait_ack, freed, raced, cur, nxt>>
      BY <1>5, NextIInv DEF NInv, At, vars
    <2> QED
      BY <2>1, Still
  <1> QED
    BY <1>1, <1>4, <1>5 DEF Next

(* No thread touches a node of a wait list after it was freed -- neither   *)
(* list_remove nor the iterators of uiot_mqtt_pub_info_proc, which lets    *)
(* the lock go for the timer of a node, and of uiot_mqtt_sub_info_proc --  *)
(* whatever the callbacks call and whichever writes fail, until a call     *)
(* whose write failed takes its node back after the loop has removed it,   *)
(* or in the window of the timeout check (raced).                          *)
THEOREM NodesStayLive == Spec => []NodesLive
  <1>1. LInv /\ NInv /\ [Next]_vars => LInv' /\ NInv'
    BY NextLInv, NextNInv
  <1>2. Spec => [](LInv /\ NInv)
    BY <1>1, InitLInv, InitNInv, PTL DEF Spec
  <1>3. NInv => NodesLive
    BY DEF NInv
  <1> QED
    BY <1>2, <1>3, PTL
=============================================================================
