---------------------------- MODULE MqttSession ----------------------------
(***************************************************************************)
(* The session state of one UIoT_Client (src/mqtt): which requests wait    *)
(* for an acknowledgement, which callbacks are registered, and how both    *)
(* survive the loss of the connection.                                     *)
(*                                                                         *)
(* One thread runs the loop of IOT_MQTT_Yield; its position in the loop is *)
(* phase.  The calls of the API (publish, subscribe, unsubscribe) may come *)
(* between any two of its steps: from other threads, or from the callbacks *)
(* the loop runs.  A step of the loop is one handler, which holds its own  *)
(* lock from beginning to end.  (MqttThreads has the steps below that.)    *)
(*                                                                         *)
(* The broker is external: it answers a request, refuses it or stays       *)
(* silent, and its answers arrive later, in any order.  Topic filters are  *)
(* values; a message published by the broker carries the filter it matches.*)
(***************************************************************************)
EXTENDS Integers, FiniteSets

CONSTANTS
  Topic,        \* topic filters the application subscribes to
  WildTopic,    \* those of them that contain "/#" or "/+"
  Handler,      \* message callbacks
  NoHandler,    \* on_message_handler = NULL
  NULL,         \* no topic filter
  PacketId,     \* 1 .. MAX_PACKET_ID in the code
  MAX_REPUB_NUM,
  MAX_SUB_TOPICS,
  MaxInFlight   \* bound on the answers of the broker that are under way

ASSUME ConstantsAssumption ==
  /\ MAX_REPUB_NUM \in Nat
  /\ MAX_SUB_TOPICS \in Nat \ {0}
  /\ MaxInFlight \in Nat
  /\ WildTopic \subseteq Topic
  /\ NULL \notin Topic

VARIABLES
  is_connected,
  list_pub_wait_ack,   \* the UIoTPubInfo of the publishes sent with QOS1
  list_sub_wait_ack,   \* the UIoTSubInfo of subscribes and unsubscribes
  sub_handles,         \* the array of registered callbacks
  phase,               \* what the yielding thread does next
  itr,                 \* loop index of uiot_mqtt_resubscribe
  net,                 \* answers of the broker under way
  broker_subs,         \* filters the broker has for this connection
  \* what the application has seen, and nothing in the client reads:
  awaiting,            \* kind of request the application knows under an id
  reported,            \* SUBSCRIBE_SUCCESS seen, not unsubscribed since
  asked,               \* filters sent in a SUBSCRIBE on this connection
  restored             \* no resubscription on this connection, or all done

clientVars == <<is_connected, list_pub_wait_ack, list_sub_wait_ack,
                sub_handles, phase, itr>>
appVars    == <<awaiting, reported, asked, restored>>
vars       == <<clientVars, net, broker_subs, appVars>>

HandleSlot == 0..(MAX_SUB_TOPICS - 1)
Callback   == Handler \cup {NoHandler}
NodeState  == {"NORMAL", "INVALID"}
Request    == {"PUBLISH", "SUBSCRIBE", "UNSUBSCRIBE"}
Phase      == {"loop", "pub_info", "sub_info", "keep_alive", "resub"}

PubNode == [id : PacketId, state : NodeState]
SubNode == [id : PacketId, type : {"SUBSCRIBE", "UNSUBSCRIBE"},
            topic : Topic, handler : Callback, state : NodeState]
SubTopicHandle == [topic : Topic \cup {NULL}, handler : Callback]

Packet == [type : {"PUBACK", "UNSUBACK", "SUBACK", "SUBNACK"}, id : PacketId]
          \cup [type : {"PUBLISH"}, topic : Topic]

TypeOK ==
  /\ is_connected \in BOOLEAN
  /\ list_pub_wait_ack \subseteq PubNode
  /\ list_sub_wait_ack \subseteq SubNode
  /\ sub_handles \in [HandleSlot -> SubTopicHandle]
  /\ phase \in Phase
  /\ itr \in 0..MAX_SUB_TOPICS
  /\ net \subseteq Packet
  /\ broker_subs \subseteq Topic
  /\ awaiting \in [PacketId -> Request \cup {"nothing"}]
  /\ reported \subseteq (Topic \X Callback)
  /\ asked \subseteq Topic
  /\ restored \in BOOLEAN

(* The client is constructed by IOT_MQTT_Construct and connected. *)
Init ==
  /\ is_connected = TRUE
  /\ list_pub_wait_ack = {}
  /\ list_sub_wait_ack = {}
  /\ sub_handles = [i \in HandleSlot |-> [topic |-> NULL, handler |-> NoHandler]]
  /\ phase = "loop"
  /\ itr = 0
  /\ net = {}
  /\ broker_subs = {}
  /\ awaiting = [id \in PacketId |-> "nothing"]
  /\ reported = {}
  /\ asked = {}
  /\ restored = TRUE

----------------------------------------------------------------------------
(* Pieces of the handlers. *)

(* The ids are drawn in turn and one comes round again only after 65534    *)
(* other draws.  The model takes any id that is not in use: it leaves out  *)
(* the runs in which a request or an answer is older than 65534 draws.     *)
InUse(id) ==
  \/ \E n \in list_pub_wait_ack \cup list_sub_wait_ack : n.id = id
  \/ \E m \in net : m.type # "PUBLISH" /\ m.id = id

get_next_packet_id == {id \in PacketId : ~InUse(id)}

NodesOf(list, id) == {n \in list : n.id = id}

Invalidate(list, id) ==
  (list \ NodesOf(list, id)) \cup
  {[n EXCEPT !.state = "INVALID"] : n \in NodesOf(list, id)}

Waiting(list) == {n \in list : n.state = "NORMAL"}

UsedHandles == {i \in HandleSlot : sub_handles[i].topic # NULL}

IsRegistered(t, h) ==
  \E i \in UsedHandles : sub_handles[i].topic = t /\ sub_handles[i].handler = h

(* Faulty variant: the search ends at an entry without a callback.         *)
_deliver_message_FirstMatch(t) ==
  {sub_handles[i].handler : i \in
     {j \in UsedHandles :
        /\ sub_handles[j].topic = t
        /\ \A k \in UsedHandles : k < j => sub_handles[k].topic # t}}

(* The callbacks a message may be given to: the first filled entry that    *)
(* matches the topic; with none it goes to the event handler.              *)
_deliver_message(t) ==
  {sub_handles[i].handler : i \in
     {j \in UsedHandles :
        /\ sub_handles[j].topic = t
        /\ sub_handles[j].handler # NoHandler
        /\ \A k \in UsedHandles :
              k < j => \/ sub_handles[k].topic # t
                       \/ sub_handles[k].handler = NoHandler}}

Answered(id, kind) ==
  awaiting' = IF awaiting[id] = kind
              THEN [awaiting EXCEPT ![id] = "nothing"] ELSE awaiting

----------------------------------------------------------------------------
(* External: the broker, answering a request or not. *)

BrokerSends(packets) ==
  /\ Cardinality(net \cup packets) <= MaxInFlight
  /\ net' = net \cup packets

BrokerOnPublish(id) ==
  /\ \/ BrokerSends({[type |-> "PUBACK", id |-> id]})
     \/ BrokerSends({})
  /\ UNCHANGED broker_subs

BrokerOnSubscribe(id, t) ==
  \/ /\ BrokerSends({[type |-> "SUBACK", id |-> id]})
     /\ broker_subs' = broker_subs \cup {t}
  \/ /\ BrokerSends({[type |-> "SUBNACK", id |-> id]})
     /\ UNCHANGED broker_subs
  \/ BrokerSends({}) /\ UNCHANGED broker_subs

BrokerOnUnsubscribe(id, t) ==
  \/ /\ BrokerSends({[type |-> "UNSUBACK", id |-> id]})
     /\ broker_subs' = broker_subs \ {t}
  \/ BrokerSends({}) /\ UNCHANGED broker_subs

(* A message of another device, for a filter the broker holds. *)
BrokerPublishes(t) ==
  /\ is_connected
  /\ t \in broker_subs
  /\ BrokerSends({[type |-> "PUBLISH", topic |-> t]})
  /\ UNCHANGED <<clientVars, broker_subs, appVars>>

----------------------------------------------------------------------------
(* The API. *)

_mask_push_pubInfo_to(id) ==
  /\ Cardinality(list_pub_wait_ack) < MAX_REPUB_NUM
  /\ list_pub_wait_ack' =
       list_pub_wait_ack \cup {[id |-> id, state |-> "NORMAL"]}
  /\ awaiting' = [awaiting EXCEPT ![id] = "PUBLISH"]

(* uiot_mqtt_publish with QOS1: an id, a node, the packet.  Nothing stays  *)
(* when the list is full or the write fails: the node is removed again.    *)
uiot_mqtt_publish ==
  /\ is_connected
  /\ \E id \in get_next_packet_id :
       _mask_push_pubInfo_to(id) /\ BrokerOnPublish(id)
  /\ UNCHANGED <<is_connected, list_sub_wait_ack, sub_handles, phase, itr,
                 reported, asked, restored>>

(* push_sub_info_to and the packet that goes out: what subscribe,          *)
(* resubscribe and unsubscribe share.                                      *)
push_sub_info_to(id, type, t, h) ==
  /\ Cardinality(list_sub_wait_ack) < MAX_SUB_TOPICS
  /\ list_sub_wait_ack' = list_sub_wait_ack \cup
       {[id |-> id, type |-> type, topic |-> t, handler |-> h, state |-> "NORMAL"]}
  /\ awaiting' = [awaiting EXCEPT ![id] = type]

SendSubscribe(t, h) ==
  /\ \E id \in get_next_packet_id :
       /\ push_sub_info_to(id, "SUBSCRIBE", t, h)
       /\ BrokerOnSubscribe(id, t)
  /\ asked' = asked \cup {t}

uiot_mqtt_subscribe(t, h) ==
  /\ is_connected
  /\ SendSubscribe(t, h)
  /\ UNCHANGED <<is_connected, list_pub_wait_ack, sub_handles, phase, itr,
                 reported, restored>>

(* The entries go before anything is sent, whatever becomes of the packet. *)
(* A filter with a wildcard takes every entry with it.                     *)
Unregister(t) ==
  [i \in HandleSlot |->
     IF sub_handles[i].topic = t \/ t \in WildTopic
     THEN [sub_handles[i] EXCEPT !.topic = NULL] ELSE sub_handles[i]]

uiot_mqtt_unsubscribe(t) ==
  /\ t \in WildTopic \/ \E h \in Callback : IsRegistered(t, h)
  /\ sub_handles' = Unregister(t)
  /\ reported' = {r \in reported : r[1] # t}
  /\ \/ /\ is_connected
        /\ \E id \in get_next_packet_id :
             /\ push_sub_info_to(id, "UNSUBSCRIBE", t, NoHandler)
             /\ BrokerOnUnsubscribe(id, t)
     \/ UNCHANGED <<list_sub_wait_ack, awaiting, net, broker_subs>>
  /\ UNCHANGED <<is_connected, list_pub_wait_ack, phase, itr, asked, restored>>

----------------------------------------------------------------------------
(* One round of the loop of uiot_mqtt_yield while connected: cycle_for_read *)
(* handles at most one packet; when that succeeds the two wait lists and   *)
(* the heartbeat follow.                                                   *)

ReadNothing ==
  /\ phase' = "pub_info"
  /\ UNCHANGED <<net, list_pub_wait_ack, list_sub_wait_ack, sub_handles,
                 awaiting, reported>>

_handle_puback_packet(m) ==
  /\ m.type = "PUBACK"
  /\ list_pub_wait_ack' = Invalidate(list_pub_wait_ack, m.id)
  /\ Answered(m.id, "PUBLISH")
  /\ phase' = "pub_info"
  /\ UNCHANGED <<list_sub_wait_ack, sub_handles, reported>>

(* Faulty variants: no search for the entry; filters alone compared.       *)
InstallHandle_NoSearch(t, h) ==
  \E i \in HandleSlot \ UsedHandles :
     /\ \A j \in HandleSlot \ UsedHandles : i <= j
     /\ sub_handles' = [sub_handles EXCEPT ![i] = [topic |-> t, handler |-> h]]

InstallHandle_TopicOnly(t, h) ==
  IF \E i \in UsedHandles : sub_handles[i].topic = t
  THEN UNCHANGED sub_handles
  ELSE InstallHandle_NoSearch(t, h)

(* The entry of a filter and callback: the one they have, else a free one. *)
InstallHandle(t, h) ==
  \/ IsRegistered(t, h) /\ UNCHANGED sub_handles
  \/ /\ ~IsRegistered(t, h)
     /\ \E i \in HandleSlot \ UsedHandles :
          /\ \A j \in HandleSlot \ UsedHandles : i <= j
          /\ sub_handles' = [sub_handles EXCEPT ![i] = [topic |-> t, handler |-> h]]

(* The node is found by its id alone; without one the answer is an error.  *)
(* Without a free entry there is no event: the request is forgotten.       *)
_handle_suback_packet(m) ==
  /\ m.type \in {"SUBACK", "SUBNACK"}
  /\ list_sub_wait_ack' = Invalidate(list_sub_wait_ack, m.id)
  /\ \/ /\ NodesOf(list_sub_wait_ack, m.id) = {}
        /\ phase' = "loop"
        /\ UNCHANGED <<sub_handles, awaiting, reported>>
     \/ /\ m.type = "SUBNACK"
        /\ NodesOf(list_sub_wait_ack, m.id) # {}
        /\ Answered(m.id, "SUBSCRIBE")
        /\ phase' = "loop"
        /\ UNCHANGED <<sub_handles, reported>>
     \/ /\ m.type = "SUBACK"
        /\ \E n \in NodesOf(list_sub_wait_ack, m.id) :
             \/ /\ InstallHandle(n.topic, n.handler)
                /\ Answered(m.id, "SUBSCRIBE")
                /\ reported' = reported \cup {<<n.topic, n.handler>>}
                /\ phase' = "pub_info"
             \/ /\ ~IsRegistered(n.topic, n.handler)
                /\ UsedHandles = HandleSlot
                /\ phase' = "loop"
                /\ UNCHANGED <<sub_handles, awaiting, reported>>
  /\ UNCHANGED list_pub_wait_ack

_handle_unsuback_packet(m) ==
  /\ m.type = "UNSUBACK"
  /\ list_sub_wait_ack' = Invalidate(list_sub_wait_ack, m.id)
  /\ Answered(m.id, "UNSUBSCRIBE")
  /\ phase' = "pub_info"
  /\ UNCHANGED <<list_pub_wait_ack, sub_handles, reported>>

(* The callback runs, then the acknowledgement goes out; when that write   *)
(* fails the loop goes on without the rest of the round.                   *)
_handle_publish_packet(m) ==
  /\ m.type = "PUBLISH"
  /\ phase' \in {"pub_info", "loop"}
  /\ UNCHANGED <<list_pub_wait_ack, list_sub_wait_ack, sub_handles, awaiting,
                 reported>>

cycle_for_read ==
  /\ phase = "loop"
  /\ is_connected
  /\ \/ ReadNothing
     \/ \E m \in net :
          /\ net' = net \ {m}
          /\ \/ _handle_puback_packet(m)
             \/ _handle_suback_packet(m)
             \/ _handle_unsuback_packet(m)
             \/ _handle_publish_packet(m)
  /\ UNCHANGED <<is_connected, itr, broker_subs, asked, restored>>

(* The connection is gone, and with clean_session what the broker had. *)
_handle_disconnect ==
  /\ is_connected
  /\ phase \in {"loop", "keep_alive"}   \* the read failed, or the heartbeat
  /\ is_connected' = FALSE
  /\ phase' = "loop"
  /\ net' = {}
  /\ broker_subs' = {}
  /\ UNCHANGED <<list_pub_wait_ack, list_sub_wait_ack, sub_handles, itr, appVars>>

(* Faulty variants: acknowledged nodes stay; events for some requests only. *)
Kept_Acknowledged(list, expired) == list \ expired

(* Acknowledged nodes leave the list, and so do those whose timer has run  *)
(* out, each with its timeout event.                                       *)
Kept(list, expired) == Waiting(list) \ expired

TimedOut_Silent(list, type) == UNCHANGED awaiting

TimedOut_SubscribeOnly(list, type) ==
  awaiting' = [id \in PacketId |->
    IF awaiting[id] \in type \ {"UNSUBSCRIBE"} /\ NodesOf(list, id) # {}
    THEN "nothing" ELSE awaiting[id]]

TimedOut(list, type) ==
  awaiting' = [id \in PacketId |->
    IF awaiting[id] \in type /\ NodesOf(list, id) # {}
    THEN "nothing" ELSE awaiting[id]]

uiot_mqtt_pub_info_proc ==
  /\ phase = "pub_info"
  /\ \E expired \in SUBSET Waiting(list_pub_wait_ack) :
       /\ list_pub_wait_ack' = Kept(list_pub_wait_ack, expired)
       /\ TimedOut(expired, {"PUBLISH"})
  /\ phase' = "sub_info"
  /\ UNCHANGED <<is_connected, list_sub_wait_ack, sub_handles, itr, net,
                 broker_subs, reported, asked, restored>>

uiot_mqtt_sub_info_proc ==
  /\ phase = "sub_info"
  /\ \E expired \in SUBSET Waiting(list_sub_wait_ack) :
       /\ list_sub_wait_ack' = Kept(list_sub_wait_ack, expired)
       /\ TimedOut(expired, {"SUBSCRIBE", "UNSUBSCRIBE"})
  /\ phase' = "keep_alive"
  /\ UNCHANGED <<is_connected, list_pub_wait_ack, sub_handles, itr, net,
                 broker_subs, reported, asked, restored>>

_mqtt_keep_alive ==
  /\ phase = "keep_alive"
  /\ phase' = "loop"
  /\ UNCHANGED <<is_connected, list_pub_wait_ack, list_sub_wait_ack,
                 sub_handles, itr, net, broker_subs, appVars>>

----------------------------------------------------------------------------
(* Reconnecting: the connection is up before the first filter is sent      *)
(* again, and the first failure ends the resubscription for good.          *)

uiot_mqtt_attempt_reconnect ==
  /\ phase = "loop"
  /\ ~is_connected
  /\ is_connected' = TRUE
  /\ phase' = "resub"
  /\ itr' = 0
  /\ asked' = {}
  /\ restored' = FALSE
  /\ UNCHANGED <<list_pub_wait_ack, list_sub_wait_ack, sub_handles, net,
                 broker_subs, awaiting, reported>>

(* Faulty variant: a failure to send a filter does not end the loop.       *)
ResubscribeNext_GoesOn ==
  /\ itr \in HandleSlot
  /\ sub_handles[itr].topic # NULL
  /\ itr' = itr + 1
  /\ \/ SendSubscribe(sub_handles[itr].topic, sub_handles[itr].handler)
     \/ UNCHANGED <<list_sub_wait_ack, awaiting, net, broker_subs, asked>>
  /\ UNCHANGED <<phase, restored>>

(* The next filter is sent; or uiot_mqtt_subscribe fails: the wait list is *)
(* full, or the write failed.                                              *)
ResubscribeNext ==
  /\ itr \in HandleSlot
  /\ sub_handles[itr].topic # NULL
  /\ \/ /\ SendSubscribe(sub_handles[itr].topic, sub_handles[itr].handler)
        /\ itr' = itr + 1
        /\ UNCHANGED phase
     \/ /\ phase' = "loop"
        /\ UNCHANGED <<itr, list_sub_wait_ack, awaiting, net, broker_subs, asked>>
  /\ UNCHANGED restored

ResubscribeSkip ==
  /\ itr \in HandleSlot
  /\ sub_handles[itr].topic = NULL
  /\ itr' = itr + 1
  /\ UNCHANGED <<phase, list_sub_wait_ack, awaiting, net, broker_subs, asked,
                 restored>>

(* Faulty variant: the loop index runs past the array.                     *)
ResubscribeDone_OneMore ==
  /\ itr = MAX_SUB_TOPICS
  /\ phase' = "loop"
  /\ itr' = itr + 1
  /\ restored' = TRUE
  /\ UNCHANGED <<list_sub_wait_ack, awaiting, net, broker_subs, asked>>

(* All filters are sent: MQTT_EVENT_RECONNECT is raised. *)
ResubscribeDone ==
  /\ itr = MAX_SUB_TOPICS
  /\ phase' = "loop"
  /\ restored' = TRUE
  /\ UNCHANGED <<itr, list_sub_wait_ack, awaiting, net, broker_subs, asked>>

uiot_mqtt_resubscribe ==
  /\ phase = "resub"
  /\ ResubscribeNext \/ ResubscribeSkip \/ ResubscribeDone
  /\ UNCHANGED <<is_connected, list_pub_wait_ack, sub_handles, reported>>

----------------------------------------------------------------------------
Api ==
  \/ uiot_mqtt_publish
  \/ \E t \in Topic, h \in Callback : uiot_mqtt_subscribe(t, h)
  \/ \E t \in Topic : uiot_mqtt_unsubscribe(t)

Yield ==
  \/ cycle_for_read
  \/ uiot_mqtt_pub_info_proc
  \/ uiot_mqtt_sub_info_proc
  \/ _mqtt_keep_alive
  \/ uiot_mqtt_resubscribe

Next ==
  \/ Api
  \/ Yield
  \/ _handle_disconnect
  \/ uiot_mqtt_attempt_reconnect
  \/ \E t \in Topic : BrokerPublishes(t)

Spec == Init /\ [][Next]_vars

(***************************************************************************)
(* Safety.                                                                 *)
(***************************************************************************)

(* A publish the application is waiting for is never forgotten: its node   *)
(* is in the wait list, so the loop will report PUBLISH_SUCCESS or         *)
(* PUBLISH_TIMEOUT for it -- across acknowledgements of other publishes,   *)
(* full lists, failed writes and reconnections.                            *)
PublishNotForgotten ==
  \A id \in PacketId :
    awaiting[id] = "PUBLISH" =>
      \E n \in Waiting(list_pub_wait_ack) : n.id = id

(* The same for subscribe and unsubscribe.                                 *)
SubscribeNotForgotten ==
  \A id \in PacketId :
    awaiting[id] \in {"SUBSCRIBE", "UNSUBSCRIBE"} =>
      \E n \in Waiting(list_sub_wait_ack) : n.id = id /\ n.type = awaiting[id]

(* A filter and callback are registered once, however often they are       *)
(* subscribed to again after a reconnection: resubscribing does not eat    *)
(* the array of callbacks (the flag_dup search of _handle_suback_packet).  *)
HandlesDistinct ==
  \A i, j \in UsedHandles : i # j => sub_handles[i] # sub_handles[j]

(* SUBSCRIBE_SUCCESS is a promise that lasts: until the application        *)
(* unsubscribes from that filter its callback stays registered, whatever   *)
(* becomes of the connection and of other subscriptions.                   *)
ReportedIsRegistered ==
  \A r \in reported : IsRegistered(r[1], r[2])

(* A message for a filter reported as subscribed reaches a callback of     *)
(* that filter, and only one (_deliver_message stops at the first).        *)
ReportedIsDelivered ==
  \A r \in reported :
    r[2] # NoHandler =>
      \E h \in Handler : /\ _deliver_message(r[1]) = {h}
                         /\ IsRegistered(r[1], h)

(* Once MQTT_EVENT_RECONNECT is raised every registered filter has been    *)
(* sent to the broker again on this connection.                            *)
RestoredIsComplete ==
  is_connected /\ restored =>
    \A i \in UsedHandles : sub_handles[i].topic \in asked

(***************************************************************************)
(* Statements of the documentation that the code does not keep.            *)
(***************************************************************************)

(* mqtt_client.h: after the connection is re-established the filters       *)
(* subscribed to before are subscribed to again.                           *)
ReconnectResubscribes ==
  is_connected /\ phase # "resub" =>
    \A i \in UsedHandles : sub_handles[i].topic \in asked

(***************************************************************************)
(* Liveness.  The application keeps yielding, the network lets it connect  *)
(* and complete a read again and again, and the timer of a node runs out:  *)
(* a round comes in which the node has been answered or is expired.        *)
(***************************************************************************)

ReadSucceeds == cycle_for_read /\ phase' = "pub_info"

PubTimerRunsOut(id) ==
  uiot_mqtt_pub_info_proc /\ NodesOf(list_pub_wait_ack', id) = {}

SubTimerRunsOut(id) ==
  uiot_mqtt_sub_info_proc /\ NodesOf(list_sub_wait_ack', id) = {}

Fairness ==
  /\ WF_vars(Yield)
  /\ SF_vars(uiot_mqtt_attempt_reconnect)
  /\ SF_vars(ReadSucceeds)
  /\ \A id \in PacketId : SF_vars(PubTimerRunsOut(id)) /\ SF_vars(SubTimerRunsOut(id))

FairSpec == Spec /\ Fairness

(* Every accepted request is answered: acknowledged, refused or timed out. *)
RequestsAnswered ==
  \A id \in PacketId, k \in Request :
    awaiting[id] = k ~> awaiting[id] # k

(* No node stays in a wait list for ever, which would leave less and less  *)
(* room for requests until none is accepted.                               *)
NodesFreed ==
  /\ \A n \in PubNode : n \in list_pub_wait_ack ~> n \notin list_pub_wait_ack
  /\ \A n \in SubNode : n \in list_sub_wait_ack ~> n \notin list_sub_wait_ack
=============================================================================
