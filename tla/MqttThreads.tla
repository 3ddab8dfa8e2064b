---------------------------- MODULE MqttThreads ----------------------------
(***************************************************************************)
(* The locks of one UIoT_Client and the memory they guard.                 *)
(*                                                                         *)
(* The threads of App call publish, subscribe and unsubscribe; Yielder     *)
(* runs the loop of uiot_mqtt_yield, and the callbacks of the application, *)
(* which may call the same three operations.  A step is what a thread does *)
(* between two lock operations; a critical section without a callback or a *)
(* blocking call in it is one step, taken when its lock is free.  Which    *)
(* packet arrives, which timer has run out and whether a write fails is    *)
(* left open.                                                              *)
(***************************************************************************)
EXTENDS Naturals, Sequences, SequencesExt

CONSTANTS
  App, Yielder, \* the threads
  Node,         \* cells of the heap for nodes of the wait lists
  Topic,
  NULL,
  MAX_REPUB_NUM,
  MAX_SUB_TOPICS,
  CallFrom      \* the events whose callback may call the API

Op    == {"PUBLISH", "SUBSCRIBE", "UNSUBSCRIBE"}
Event == {"MESSAGE", "PUBLISH_SUCCESS", "PUBLISH_TIMEOUT", "SUBSCRIBE_SUCCESS",
          "SUBSCRIBE_NACK", "SUBSCRIBE_TIMEOUT", "UNSUBSCRIBE_SUCCESS",
          "DISCONNECT", "RECONNECT"}
List  == {"list_pub", "list_sub"}
Lock  == {"write_buf", "generic"} \cup List

Thread == App \cup {Yielder}

VARIABLES
  is_connected,
  holder,       \* by lock: the thread that holds it, or NULL
  write_buf,    \* the thread whose packet is in the write buffer
  node,         \* by cell: owner, type, state and whether it was sent; or NULL
  wait_ack,     \* by lock: the nodes of list_pub_wait_ack, list_sub_wait_ack
  sub_handles,  \* filters registered
  pc,           \* what a thread does next
  op, arg, own, \* the operation of a thread, its filter, its node
  cont,         \* where the yielding thread goes on after a call of the API
  out,          \* the packet the yielding thread sends
  cur, nxt,     \* its iterator over a wait list
  itr,          \* filters uiot_mqtt_resubscribe has not come to
  freed,        \* kinds of memory used after they were freed
  raced         \* history: a failed call has taken its node back after the
                \* loop removed it, or while the loop kept a pointer to it

heap == <<node, wait_ack, sub_handles, freed, raced>>
loop == <<out, cur, nxt, itr>>
call == <<op, arg, own, cont>>
vars == <<is_connected, holder, write_buf, heap, pc, call, loop>>

\* Program points, by the lock the thread asks for there.
AtWriteBuf == {"lock", "out_lock"}
AtGeneric  == {"clear", "conn", "packet_id", "suback_lock", "unsuback_lock",
               "deliver", "pong", "ping_count", "disc_conn", "disconnected",
               "connected"}
AtListPub  == {"puback_mark", "pub_info", "pub_window"}
AtListSub  == {"suback_mask", "unsuback_mark", "sub_info"}
AtOwnList  == {"push", "undo"}
AtNone     == {"idle", "loop", "send", "unlock", "out_send", "suback_unlock",
               "unsuback_unlock", "pub_iter", "pub_remove", "sub_iter",
               "sub_remove", "keep_alive", "connack", "resub"}
Point == AtWriteBuf \cup AtGeneric \cup AtListPub \cup AtListSub \cup AtOwnList
         \cup AtNone
Packet == {"PUBACK", "PINGREQ", "DISCONNECT", "CONNECT"}

NodeInfo == [owner : Thread, type : Op, filter : Topic,
             state : {"NORMAL", "INVALID"}, sent : BOOLEAN]

ASSUME ThreadsAssumption ==
  /\ Yielder \notin App
  /\ NULL \notin App \cup {Yielder} \cup Node \cup NodeInfo \cup Op
  /\ CallFrom \subseteq Event
  /\ MAX_REPUB_NUM \in Nat /\ MAX_SUB_TOPICS \in Nat

ListOf(o) == IF o = "PUBLISH" THEN "list_pub" ELSE "list_sub"

Limit(l) == IF l = "list_pub" THEN MAX_REPUB_NUM ELSE MAX_SUB_TOPICS

TypeOK ==
  /\ is_connected \in BOOLEAN
  /\ holder \in [Lock -> Thread \cup {NULL}]
  /\ write_buf \in Thread
  /\ node \in [Node -> NodeInfo \cup {NULL}]
  /\ wait_ack \in [List -> Seq(Node)]
  /\ \A l \in List : Len(wait_ack[l]) <= Limit(l)
  /\ sub_handles \subseteq Topic
  /\ pc \in [Thread -> Point]
  /\ op \in [Thread -> Op \cup {NULL}]
  /\ arg \in [Thread -> Topic \cup {NULL}]
  /\ own \in [Thread -> Node \cup {NULL}]
  /\ cont \in Point
  /\ out \in Packet \cup {NULL}
  /\ cur \in Node \cup {NULL} /\ nxt \in Node \cup {NULL}
  /\ itr \subseteq Topic
  /\ freed \subseteq {"node", "filter"}
  /\ raced \in BOOLEAN

Init ==
  /\ is_connected = TRUE
  /\ holder = [l \in Lock |-> NULL]
  /\ write_buf = Yielder
  /\ node = [n \in Node |-> NULL]
  /\ wait_ack = [l \in List |-> <<>>]
  /\ sub_handles = {}
  /\ pc = [t \in Thread |-> IF t = Yielder THEN "loop" ELSE "idle"]
  /\ op = [t \in Thread |-> NULL]
  /\ arg = [t \in Thread |-> NULL]
  /\ own = [t \in Thread |-> NULL]
  /\ cont = "loop"
  /\ out = NULL
  /\ cur = NULL /\ nxt = NULL
  /\ itr = {}
  /\ freed = {}
  /\ raced = FALSE

----------------------------------------------------------------------------
(* Steps of a thread. *)

Goto(t, p) == pc' = [pc EXCEPT ![t] = p]

Free(l) == holder[l] = NULL

HAL_MutexLock(l, t) == holder' = [holder EXCEPT ![l] = t]

HAL_MutexUnlock(l) == holder' = [holder EXCEPT ![l] = NULL]

Entry(o) == IF o = "UNSUBSCRIBE" THEN "clear" ELSE "conn"

(* The call is over, and its locals with it. *)
Return(t) ==
  /\ Goto(t, IF t = Yielder THEN cont ELSE "idle")
  /\ op' = [op EXCEPT ![t] = NULL]
  /\ arg' = [arg EXCEPT ![t] = NULL]
  /\ own' = [own EXCEPT ![t] = NULL]
  /\ cont' = IF t = Yielder THEN "loop" ELSE cont

Position(list, n) == CHOOSE i \in DOMAIN list : list[i] = n

Listed(l, n) == \E i \in DOMAIN wait_ack[l] : wait_ack[l][i] = n

Is(n, state) == node[n] # NULL /\ node[n].state = state

(* The loop has released lock_list_pub and keeps a pointer to this node.   *)
InWindow(n) == pc[Yielder] = "pub_window" /\ n \in {cur, nxt}

(* The node is unlinked and freed, if the pointer to it is still good.     *)
list_remove(l, n, live) ==
  \/ /\ live
     /\ wait_ack' = [wait_ack EXCEPT ![l] = RemoveAt(@, Position(@, n))]
     /\ node' = [node EXCEPT ![n] = NULL]
     /\ UNCHANGED freed
  \/ /\ ~live
     /\ freed' = freed \cup {"node"}
     /\ UNCHANGED <<wait_ack, node>>

----------------------------------------------------------------------------
(* uiot_mqtt_publish, uiot_mqtt_subscribe and uiot_mqtt_unsubscribe, by    *)
(* any thread.                                                             *)

ApiCall(t) ==
  /\ t \in App
  /\ pc[t] = "idle"
  /\ \E o \in Op, f \in Topic :
       /\ op' = [op EXCEPT ![t] = o]
       /\ arg' = [arg EXCEPT ![t] = f]
       /\ Goto(t, Entry(o))
  /\ UNCHANGED <<is_connected, holder, write_buf, heap, own, cont, loop>>

(* Unsubscribing frees the filter of the entry first. *)
ClearHandles(t) ==
  /\ pc[t] = "clear"
  /\ Free("generic")
  /\ \/ arg[t] \in sub_handles /\ Goto(t, "conn") /\ UNCHANGED call
     \/ arg[t] \notin sub_handles /\ Return(t)
  /\ sub_handles' = sub_handles \ {arg[t]}
  /\ UNCHANGED <<is_connected, holder, write_buf, node, wait_ack, freed, raced, loop>>

\* Faulty: the call polls for the connection.
CheckConnection_Polls(t) ==
  /\ pc[t] = "conn"
  /\ Free("generic")
  /\ \/ is_connected /\ Goto(t, "lock")
     \/ ~is_connected /\ UNCHANGED pc
  /\ UNCHANGED <<is_connected, holder, write_buf, heap, call, loop>>

(* The topic of a resubscription is the filter of an entry, which may have *)
(* been freed since it was read.                                           *)
CheckConnection(t) ==
  /\ pc[t] = "conn"
  /\ Free("generic")
  /\ \/ is_connected /\ Goto(t, "lock") /\ UNCHANGED call
     \/ ~is_connected /\ Return(t)
  /\ freed' = IF t = Yielder /\ cont = "resub" /\ arg[t] \notin sub_handles
              THEN freed \cup {"filter"} ELSE freed
  /\ UNCHANGED <<is_connected, holder, write_buf, node, wait_ack, sub_handles, raced,
                 loop>>

LockWriteBuf(t) ==
  /\ pc[t] = "lock"
  /\ Free("write_buf")
  /\ HAL_MutexLock("write_buf", t)
  /\ Goto(t, "packet_id")
  /\ UNCHANGED <<is_connected, write_buf, heap, call, loop>>

Serialize(t) ==
  /\ pc[t] = "packet_id"
  /\ Free("generic")
  /\ write_buf' = t
  /\ Goto(t, "push")
  /\ UNCHANGED <<is_connected, holder, heap, call, loop>>

\* Faulty: the list takes one node too many.
PushNode_OneMore(t) ==
  /\ pc[t] = "push"
  /\ LET l == ListOf(op[t]) IN
     /\ Free(l)
     /\ \E n \in Node :
          /\ Len(wait_ack[l]) <= Limit(l)
          /\ node[n] = NULL
          /\ node' = [node EXCEPT ![n] = [owner |-> t, type |-> op[t], filter |-> arg[t],
                                          state |-> "NORMAL", sent |-> FALSE]]
          /\ wait_ack' = [wait_ack EXCEPT ![l] = Append(@, n)]
          /\ own' = [own EXCEPT ![t] = n]
          /\ Goto(t, "send")
  /\ UNCHANGED <<is_connected, holder, write_buf, sub_handles, freed, raced, op, arg,
                 cont, loop>>

(* The list may be full, and so may the heap. *)
PushNode(t) ==
  /\ pc[t] = "push"
  /\ LET l == ListOf(op[t]) IN
     /\ Free(l)
     /\ \/ \E n \in Node :
             /\ Len(wait_ack[l]) < Limit(l)
             /\ node[n] = NULL
             /\ node' = [node EXCEPT ![n] = [owner |-> t, type |-> op[t], filter |-> arg[t],
                                             state |-> "NORMAL", sent |-> FALSE]]
             /\ wait_ack' = [wait_ack EXCEPT ![l] = Append(@, n)]
             /\ own' = [own EXCEPT ![t] = n]
             /\ Goto(t, "send")
        \/ /\ Len(wait_ack[l]) >= Limit(l) \/ \A n \in Node : node[n] # NULL
           /\ Goto(t, "unlock")
           /\ UNCHANGED <<node, wait_ack, own>>
  /\ UNCHANGED <<is_connected, holder, write_buf, sub_handles, freed, raced, op, arg,
                 cont, loop>>

SendRequest(t) ==
  /\ pc[t] = "send"
  /\ \/ /\ node' = [n \in Node |-> IF n = own[t] /\ node[n] # NULL
                                   THEN [node[n] EXCEPT !.sent = is_connected]
                                   ELSE node[n]]
        /\ Goto(t, "unlock")
     \/ Goto(t, "undo") /\ UNCHANGED node
  /\ UNCHANGED <<is_connected, holder, write_buf, wait_ack, sub_handles, freed, raced,
                 call, loop>>

(* The write failed, and the call takes its node back without looking      *)
(* whether it is listed still.                                             *)
RemoveOwnNode(t) ==
  /\ pc[t] = "undo"
  /\ Free(ListOf(op[t]))
  /\ LET l == ListOf(op[t])
         n == own[t]
     IN  /\ list_remove(l, n, Listed(l, n) /\ node[n].owner = t)
         /\ raced' = (raced \/ ~Listed(l, n) \/ InWindow(n))
  /\ Goto(t, "unlock")
  /\ UNCHANGED <<is_connected, holder, write_buf, sub_handles, call, loop>>

UnlockWriteBuf(t) ==
  /\ pc[t] = "unlock"
  /\ HAL_MutexUnlock("write_buf")
  /\ Return(t)
  /\ UNCHANGED <<is_connected, write_buf, heap, loop>>

Api(t) ==
  \/ ApiCall(t)
  \/ ClearHandles(t)
  \/ CheckConnection(t)
  \/ LockWriteBuf(t)
  \/ Serialize(t)
  \/ PushNode(t)
  \/ SendRequest(t)
  \/ RemoveOwnNode(t)
  \/ UnlockWriteBuf(t)

----------------------------------------------------------------------------
(* The loop of uiot_mqtt_yield. *)

(* The callback of event e runs, with the locks held that the loop holds;  *)
(* it may call the API, and the loop goes on at p.                         *)
Callback(e, p) ==
  \/ /\ Goto(Yielder, p)
     /\ UNCHANGED <<op, arg, cont>>
  \/ /\ e \in CallFrom
     /\ cont' = p
     /\ \E o \in Op, f \in Topic :
          /\ op' = [op EXCEPT ![Yielder] = o]
          /\ arg' = [arg EXCEPT ![Yielder] = f]
          /\ Goto(Yielder, Entry(o))

Answerable(l, type) ==
  {n \in Node : /\ Listed(l, n) /\ node[n] # NULL
                /\ node[n].sent /\ node[n].type = type}

(* cycle_for_read: nothing, an answer, a message or an error is read; or   *)
(* the client reconnects.                                                  *)
Read ==
  /\ pc[Yielder] = "loop"
  /\ is_connected /\ Free("generic")
  /\ \/ Goto(Yielder, "pub_info") /\ UNCHANGED cur
     \/ Goto(Yielder, "deliver") /\ UNCHANGED cur
     \/ Goto(Yielder, "disc_conn") /\ UNCHANGED cur
     \/ \E n \in Answerable("list_pub", "PUBLISH") :
          cur' = n /\ Goto(Yielder, "puback_mark")
     \/ \E n \in Answerable("list_sub", "SUBSCRIBE") :
          cur' = n /\ Goto(Yielder, "suback_lock")
     \/ \E n \in Answerable("list_sub", "UNSUBSCRIBE") :
          cur' = n /\ Goto(Yielder, "unsuback_mark")
  /\ UNCHANGED <<is_connected, holder, write_buf, heap, call, out, nxt, itr>>

(* The node of the answer is marked; the answer will not come twice.       *)
Mark(n) ==
  /\ node' = [node EXCEPT ![n].state = "INVALID", ![n].sent = FALSE]
  /\ cur' = NULL

_handle_puback_packet ==
  /\ pc[Yielder] = "puback_mark"
  /\ Free("list_pub")
  /\ Mark(cur)
  /\ Callback("PUBLISH_SUCCESS", "pong")
  /\ UNCHANGED <<is_connected, holder, write_buf, wait_ack, sub_handles, freed, raced,
                 own, out, nxt, itr>>

SubackLock ==
  /\ pc[Yielder] = "suback_lock"
  /\ Free("generic")
  /\ HAL_MutexLock("generic", Yielder)
  /\ Goto(Yielder, "suback_mask")
  /\ UNCHANGED <<is_connected, write_buf, heap, call, loop>>

(* A refusal is reported before lock_generic is released, a success after. *)
_handle_suback_packet ==
  /\ pc[Yielder] = "suback_mask"
  /\ Free("list_sub")
  /\ Mark(cur)
  /\ \/ /\ Callback("SUBSCRIBE_NACK", "suback_unlock")
        /\ UNCHANGED <<holder, sub_handles>>
     \/ /\ sub_handles' = sub_handles \cup {node[cur].filter}
        /\ HAL_MutexUnlock("generic")
        /\ Callback("SUBSCRIBE_SUCCESS", "pong")
  /\ UNCHANGED <<is_connected, write_buf, wait_ack, freed, raced, own, out, nxt, itr>>

SubackUnlock ==
  /\ pc[Yielder] = "suback_unlock"
  /\ HAL_MutexUnlock("generic")
  /\ Goto(Yielder, "pong")
  /\ UNCHANGED <<is_connected, write_buf, heap, call, loop>>

UnsubackMark ==
  /\ pc[Yielder] = "unsuback_mark"
  /\ Free("list_sub")
  /\ Mark(cur)
  /\ Goto(Yielder, "unsuback_lock")
  /\ UNCHANGED <<is_connected, holder, write_buf, wait_ack, sub_handles, freed, raced,
                 call, out, nxt, itr>>

_handle_unsuback_packet ==
  /\ pc[Yielder] = "unsuback_lock"
  /\ Free("generic")
  /\ HAL_MutexLock("generic", Yielder)
  /\ Callback("UNSUBSCRIBE_SUCCESS", "unsuback_unlock")
  /\ UNCHANGED <<is_connected, write_buf, heap, own, loop>>

UnsubackUnlock ==
  /\ pc[Yielder] = "unsuback_unlock"
  /\ HAL_MutexUnlock("generic")
  /\ Goto(Yielder, "pong")
  /\ UNCHANGED <<is_connected, write_buf, heap, call, loop>>

\* Faulty: the callback runs with lock_generic held.
_deliver_message_Locked ==
  /\ pc[Yielder] = "deliver"
  /\ Free("generic")
  /\ HAL_MutexLock("generic", Yielder)
  /\ out' = "PUBACK"
  /\ Callback("MESSAGE", "out_lock")
  /\ UNCHANGED <<is_connected, write_buf, heap, own, cur, nxt, itr>>

(* The entry is found under lock_generic and its callback called after it  *)
(* is released; then a message with QOS1 is acknowledged.                  *)
_deliver_message ==
  /\ pc[Yielder] = "deliver"
  /\ Free("generic")
  /\ out' = "PUBACK"
  /\ Callback("MESSAGE", "out_lock")
  /\ UNCHANGED <<is_connected, holder, write_buf, heap, own, cur, nxt, itr>>

_handle_pingresp_packet ==
  /\ pc[Yielder] = "pong"
  /\ Free("generic")
  /\ Goto(Yielder, "pub_info") \/ Goto(Yielder, "loop")   \* the latter on an error
  /\ UNCHANGED <<is_connected, holder, write_buf, heap, call, loop>>

\* Faulty: the packet is serialised before the lock is taken.
OutLock_Late ==
  /\ pc[Yielder] = "out_lock"
  /\ write_buf' = Yielder
  /\ \/ /\ Free("write_buf")
        /\ HAL_MutexLock("write_buf", Yielder)
        /\ Goto(Yielder, "out_send")
     \/ ~Free("write_buf") /\ UNCHANGED <<holder, pc>>
  /\ UNCHANGED <<is_connected, heap, call, loop>>

(* A packet of the loop itself goes out. *)
OutLock ==
  /\ pc[Yielder] = "out_lock"
  /\ Free("write_buf")
  /\ HAL_MutexLock("write_buf", Yielder)
  /\ write_buf' = Yielder
  /\ Goto(Yielder, "out_send")
  /\ UNCHANGED <<is_connected, heap, call, loop>>

send_mqtt_packet ==
  /\ pc[Yielder] = "out_send"
  /\ HAL_MutexUnlock("write_buf")
  /\ \/ out = "PUBACK" /\ Goto(Yielder, "pong")
     \/ out = "PINGREQ" /\ (Goto(Yielder, "ping_count") \/ Goto(Yielder, "disc_conn"))
     \/ out = "DISCONNECT" /\ Goto(Yielder, "disconnected")
     \/ out = "CONNECT" /\ (Goto(Yielder, "connack") \/ Goto(Yielder, "loop"))
  /\ out' = NULL
  /\ UNCHANGED <<is_connected, write_buf, heap, call, cur, nxt, itr>>

----------------------------------------------------------------------------
(* The wait lists. *)

TailOf(list) == IF list = <<>> THEN NULL ELSE list[Len(list)]

Previous(list, n) ==
  LET i == Position(list, n) IN IF i - 1 \in DOMAIN list THEN list[i - 1] ELSE NULL

ListStart(l, p, q) ==
  /\ pc[Yielder] = p
  /\ Free(l)
  /\ HAL_MutexLock(l, Yielder)
  /\ nxt' = TailOf(wait_ack[l])
  /\ Goto(Yielder, q)
  /\ UNCHANGED <<is_connected, write_buf, heap, call, out, cur, itr>>

ListEnd(l, p, q) ==
  /\ pc[Yielder] = p
  /\ nxt = NULL
  /\ HAL_MutexUnlock(l)
  /\ cur' = NULL
  /\ Goto(Yielder, q)
  /\ UNCHANGED <<is_connected, write_buf, heap, call, out, nxt, itr>>

\* Faulty: the iterator stays where it is.
IteratorNext_Stays(l, n) ==
  /\ n = nxt /\ n # NULL
  /\ cur' = n
  /\ UNCHANGED <<nxt, freed, out, itr>>

(* list_iterator_next, from the tail: the node after this one is fixed now. *)
IteratorNext(l, n) ==
  /\ n = nxt /\ n # NULL
  /\ cur' = n
  /\ \/ Listed(l, n) /\ nxt' = Previous(wait_ack[l], n) /\ UNCHANGED freed
     \/ ~Listed(l, n) /\ nxt' = NULL /\ freed' = freed \cup {"node"}
  /\ UNCHANGED <<out, itr>>

(* An acknowledged node leaves; a waiting one stays, or its timer has run  *)
(* out, which is only looked at while the client is connected.             *)
PubNext ==
  /\ pc[Yielder] = "pub_iter"
  /\ \E n \in Node :
       /\ IteratorNext("list_pub", n)
       /\ \/ /\ Is(n, "INVALID")
             /\ Goto(Yielder, "pub_remove")
             /\ UNCHANGED holder
          \/ ~Is(n, "INVALID") /\ UNCHANGED <<pc, holder>>
          \/ /\ Is(n, "NORMAL")
             /\ is_connected
             /\ HAL_MutexUnlock("list_pub")
             /\ Goto(Yielder, "pub_window")
  /\ UNCHANGED <<is_connected, write_buf, node, wait_ack, sub_handles, raced, call>>

(* The lock was released for the timer of the node, and is taken again for *)
(* the callback.                                                           *)
PubTimeout ==
  /\ pc[Yielder] = "pub_window"
  /\ Free("list_pub")
  /\ HAL_MutexLock("list_pub", Yielder)
  /\ freed' = IF Listed("list_pub", cur) THEN freed ELSE freed \cup {"node"}
  /\ Callback("PUBLISH_TIMEOUT", "pub_remove")
  /\ UNCHANGED <<is_connected, write_buf, node, wait_ack, sub_handles, raced, own, loop>>

SubNext ==
  /\ pc[Yielder] = "sub_iter"
  /\ \E n \in Node :
       /\ IteratorNext("list_sub", n)
       /\ \/ /\ Is(n, "INVALID")
             /\ Goto(Yielder, "sub_remove")
             /\ UNCHANGED <<op, arg, cont>>
          \/ ~Is(n, "INVALID") /\ UNCHANGED <<pc, op, arg, cont>>
          \/ /\ Is(n, "NORMAL")
             /\ is_connected
             /\ Callback("SUBSCRIBE_TIMEOUT", "sub_remove")
  /\ UNCHANGED <<is_connected, holder, write_buf, node, wait_ack, sub_handles, raced, own>>

\* Faulty: temp_node is not reset, so the next round removes it again.
RemoveCurrent_NotReset(l, p, q) ==
  /\ pc[Yielder] = p
  /\ list_remove(l, cur, Listed(l, cur))
  /\ Goto(Yielder, IF nxt = NULL THEN q ELSE p)
  /\ UNCHANGED <<is_connected, holder, write_buf, sub_handles, raced, call, loop>>

RemoveCurrent(l, p, q) ==
  /\ pc[Yielder] = p
  /\ list_remove(l, cur, Listed(l, cur))
  /\ cur' = NULL
  /\ Goto(Yielder, q)
  /\ UNCHANGED <<is_connected, holder, write_buf, sub_handles, raced, call, out, nxt, itr>>

uiot_mqtt_pub_info_proc ==
  \/ ListStart("list_pub", "pub_info", "pub_iter")
  \/ PubNext
  \/ PubTimeout
  \/ RemoveCurrent("list_pub", "pub_remove", "pub_iter")
  \/ ListEnd("list_pub", "pub_iter", "sub_info")

uiot_mqtt_sub_info_proc ==
  \/ ListStart("list_sub", "sub_info", "sub_iter")
  \/ SubNext
  \/ RemoveCurrent("list_sub", "sub_remove", "sub_iter")
  \/ ListEnd("list_sub", "sub_iter", "keep_alive")

----------------------------------------------------------------------------
(* Heartbeat, disconnecting and reconnecting. *)

_mqtt_keep_alive ==
  /\ pc[Yielder] = "keep_alive"
  /\ \/ Goto(Yielder, "loop") /\ UNCHANGED out
     \/ Goto(Yielder, "disc_conn") /\ UNCHANGED out
     \/ Goto(Yielder, "out_lock") /\ out' = "PINGREQ"
  /\ UNCHANGED <<is_connected, holder, write_buf, heap, call, cur, nxt, itr>>

PingCount ==
  /\ pc[Yielder] = "ping_count"
  /\ Free("generic")
  /\ Goto(Yielder, "loop")
  /\ UNCHANGED <<is_connected, holder, write_buf, heap, call, loop>>

_handle_disconnect ==
  /\ pc[Yielder] = "disc_conn"
  /\ Free("generic")
  /\ out' = "DISCONNECT"
  /\ Goto(Yielder, "out_lock")
  /\ UNCHANGED <<is_connected, holder, write_buf, heap, call, cur, nxt, itr>>

Disconnected ==
  /\ pc[Yielder] = "disconnected"
  /\ Free("generic")
  /\ is_connected' = FALSE
  /\ node' = [n \in Node |-> IF node[n] = NULL THEN NULL
                             ELSE [node[n] EXCEPT !.sent = FALSE]]
  /\ Callback("DISCONNECT", "loop")
  /\ UNCHANGED <<holder, write_buf, wait_ack, sub_handles, freed, raced, own, loop>>

uiot_mqtt_attempt_reconnect ==
  /\ pc[Yielder] = "loop"
  /\ ~is_connected /\ Free("generic")
  /\ out' = "CONNECT"
  /\ Goto(Yielder, "out_lock")
  /\ UNCHANGED <<is_connected, holder, write_buf, heap, call, cur, nxt, itr>>

(* wait_for_read: the CONNACK comes or does not. *)
WaitForConnack ==
  /\ pc[Yielder] = "connack"
  /\ Goto(Yielder, "connected") \/ Goto(Yielder, "loop")
  /\ UNCHANGED <<is_connected, holder, write_buf, heap, call, loop>>

Connected ==
  /\ pc[Yielder] = "connected"
  /\ Free("generic")
  /\ is_connected' = TRUE
  /\ itr' = Topic
  /\ Goto(Yielder, "resub")
  /\ UNCHANGED <<holder, write_buf, heap, call, out, cur, nxt>>

(* The array is read without lock_generic.  The first failure ends it.     *)
uiot_mqtt_resubscribe ==
  /\ pc[Yielder] = "resub"
  /\ \/ \E f \in itr \cap sub_handles :
          /\ op' = [op EXCEPT ![Yielder] = "SUBSCRIBE"]
          /\ arg' = [arg EXCEPT ![Yielder] = f]
          /\ itr' = itr \ {f}
          /\ cont' = "resub"
          /\ Goto(Yielder, "conn")
     \/ /\ itr \cap sub_handles = {}
        /\ itr' = {}
        /\ Callback("RECONNECT", "loop")
     \/ /\ itr # Topic
        /\ itr' = {}
        /\ Goto(Yielder, "loop")
        /\ UNCHANGED <<op, arg, cont>>
  /\ UNCHANGED <<is_connected, holder, write_buf, heap, own, out, cur, nxt>>

Yield ==
  \/ Read
  \/ _handle_puback_packet
  \/ SubackLock \/ _handle_suback_packet \/ SubackUnlock
  \/ UnsubackMark \/ _handle_unsuback_packet \/ UnsubackUnlock
  \/ _deliver_message
  \/ _handle_pingresp_packet
  \/ OutLock \/ send_mqtt_packet
  \/ uiot_mqtt_pub_info_proc
  \/ uiot_mqtt_sub_info_proc
  \/ _mqtt_keep_alive \/ PingCount
  \/ _handle_disconnect \/ Disconnected
  \/ uiot_mqtt_attempt_reconnect \/ WaitForConnack \/ Connected
  \/ uiot_mqtt_resubscribe

Next == Yield \/ \E t \in Thread : Api(t)

Spec == Init /\ [][Next]_vars

----------------------------------------------------------------------------
(* The lock a thread asks for where it is: one, or none. *)
Wants(t) ==
  {l \in Lock :
     \/ l = "write_buf" /\ pc[t] \in AtWriteBuf
     \/ l = "generic" /\ pc[t] \in AtGeneric
     \/ l = "list_pub" /\ pc[t] \in AtListPub
     \/ l = "list_sub" /\ pc[t] \in AtListSub
     \/ l = ListOf(op[t]) /\ pc[t] \in AtOwnList}

(* The write buffer comes before lock_generic, and that before the lists.  *)
Rank(l) == CASE l = "write_buf" -> 0 [] l = "generic" -> 1 [] OTHER -> 2

(* The loop is inside a callback that it runs under a lock, and which has  *)
(* called the API.                                                         *)
CalledUnderLock(t) ==
  /\ t = Yielder /\ op[t] # NULL
  /\ cont \in {"pub_remove", "sub_remove", "suback_unlock", "unsuback_unlock"}

(* A thread asks for a lock only while it holds locks that come before it: *)
(* there is an order, so no circle of threads that wait for each other.    *)
(* The exception are the calls the application must not make.              *)
LockOrder ==
  \A t \in Thread : ~CalledUnderLock(t) =>
    \A l \in Wants(t), k \in Lock : holder[k] = t => Rank(k) < Rank(l)

(* No thread waits for a lock it holds: the mutexes are not recursive.     *)
NoSelfDeadlock ==
  \A t \in Thread : ~CalledUnderLock(t) => \A l \in Wants(t) : holder[l] # t

(* The packet that is listed and sent is the one its thread serialised:    *)
(* there is one write buffer for all threads.                              *)
PacketIntact ==
  /\ \A t \in Thread : pc[t] \in {"push", "send"} => write_buf = t
  /\ pc[Yielder] = "out_send" => write_buf = Yielder

(* list_remove is given a node of the list, and the iterator stands on     *)
(* one, until a call whose write failed takes back a node that the loop    *)
(* has removed, or keeps a pointer to with the lock released.              *)
NodesLive == "node" \in freed => raced

(* Every call of the API returns, and the loop keeps coming round, when a  *)
(* thread that asks for a lock again and again gets it at last.            *)
Fairness ==
  /\ SF_vars(Yield \/ Api(Yielder))
  /\ \A t \in App : SF_vars(pc[t] # "idle" /\ Api(t))

FairSpec == Spec /\ Fairness

CallsReturn == \A t \in App : pc[t] # "idle" ~> pc[t] = "idle"

LoopGoesOn == []<>(pc[Yielder] = "loop")
=============================================================================
