------------------------- MODULE MqttSession_proofs -------------------------
(* What MqttSession keeps for every number of filters, callbacks, packet   *)
(* ids, wait-list sizes and answers under way.                             *)
EXTENDS MqttSession, FiniteSetTheorems, WellFoundedInduction, TLAPS

(***************************************************************************)
(* The lists of nodes.                                                     *)
(***************************************************************************)

LEMMA InvalidatePub ==
  ASSUME NEW list \in SUBSET PubNode, NEW id
  PROVE  Invalidate(list, id) \in SUBSET PubNode
  BY DEF Invalidate, NodesOf, PubNode, NodeState

LEMMA InvalidateSub ==
  ASSUME NEW list \in SUBSET SubNode, NEW id
  PROVE  Invalidate(list, id) \in SUBSET SubNode
  BY DEF Invalidate, NodesOf, SubNode, NodeState

(* Masking the nodes of one id leaves the others waiting.                  *)
LEMMA InvalidateOthers ==
  ASSUME NEW list, NEW id, NEW n \in Waiting(list), n.id # id
  PROVE  n \in Waiting(Invalidate(list, id))
  BY DEF Invalidate, NodesOf, Waiting

LEMMA AnsweredType ==
  ASSUME TypeOK, NEW id \in PacketId, NEW k, Answered(id, k)
  PROVE  awaiting' \in [PacketId -> Request \cup {"nothing"}]
  BY DEF TypeOK, Answered

LEMMA BrokerSendsType ==
  ASSUME TypeOK, NEW ps \in SUBSET Packet, BrokerSends(ps)
  PROVE  net' \subseteq Packet
  BY DEF TypeOK, BrokerSends

LEMMA SendSubscribeType ==
  ASSUME TypeOK, NEW t \in Topic, NEW h \in Callback, SendSubscribe(t, h)
  PROVE  /\ list_sub_wait_ack' \subseteq SubNode
         /\ awaiting' \in [PacketId -> Request \cup {"nothing"}]
         /\ net' \subseteq Packet
         /\ broker_subs' \subseteq Topic
         /\ asked' \subseteq Topic
  <1>1. PICK id \in get_next_packet_id :
          push_sub_info_to(id, "SUBSCRIBE", t, h) /\ BrokerOnSubscribe(id, t)
    BY DEF SendSubscribe
  <1>2. id \in PacketId
    BY DEF get_next_packet_id
  <1>3. list_sub_wait_ack' \subseteq SubNode
    BY <1>1, <1>2 DEF TypeOK, push_sub_info_to, SubNode, NodeState
  <1>4. awaiting' \in [PacketId -> Request \cup {"nothing"}]
    BY <1>1, <1>2 DEF TypeOK, push_sub_info_to, Request
  <1>5. net' \subseteq Packet /\ broker_subs' \subseteq Topic
    BY <1>1, <1>2 DEF TypeOK, BrokerOnSubscribe, BrokerSends, Packet
  <1>6. asked' \subseteq Topic
    BY DEF TypeOK, SendSubscribe
  <1> QED
    BY <1>3, <1>4, <1>5, <1>6

LEMMA InstallHandleType ==
  ASSUME TypeOK, NEW t \in Topic, NEW h \in Callback, InstallHandle(t, h)
  PROVE  sub_handles' \in [HandleSlot -> SubTopicHandle]
  BY DEF TypeOK, InstallHandle, SubTopicHandle, HandleSlot

(***************************************************************************)
(* Type correctness.                                                       *)
(***************************************************************************)

LEMMA TypeInit == Init => TypeOK
  BY ConstantsAssumption
  DEF Init, TypeOK, SubTopicHandle, Callback, Phase

LEMMA TypeSubscribe ==
  ASSUME TypeOK, NEW t \in Topic, NEW h \in Callback, uiot_mqtt_subscribe(t, h)
  PROVE  TypeOK'
  BY SendSubscribeType DEF TypeOK, uiot_mqtt_subscribe

LEMMA TypePublish ==
  ASSUME TypeOK, uiot_mqtt_publish
  PROVE  TypeOK'
  <1>1. PICK id \in get_next_packet_id :
          /\ list_pub_wait_ack' =
               list_pub_wait_ack \cup {[id |-> id, state |-> "NORMAL"]}
          /\ awaiting' = [awaiting EXCEPT ![id] = "PUBLISH"]
          /\ BrokerOnPublish(id)
    BY DEF uiot_mqtt_publish, _mask_push_pubInfo_to
  <1>2. id \in PacketId
    BY DEF get_next_packet_id
  <1>3. list_pub_wait_ack' \subseteq PubNode
    BY <1>1, <1>2 DEF TypeOK, PubNode, NodeState
  <1>4. awaiting' \in [PacketId -> Request \cup {"nothing"}]
    BY <1>1, <1>2 DEF TypeOK, Request
  <1>5. net' \subseteq Packet /\ broker_subs' \subseteq Topic
    BY <1>1, <1>2 DEF TypeOK, BrokerOnPublish, BrokerSends, Packet
  <1> QED
    BY <1>3, <1>4, <1>5 DEF TypeOK, uiot_mqtt_publish, _mask_push_pubInfo_to

LEMMA TypeUnsubscribe ==
  ASSUME TypeOK, NEW t \in Topic, uiot_mqtt_unsubscribe(t)
  PROVE  TypeOK'
  <1>1. sub_handles' \in [HandleSlot -> SubTopicHandle]
    BY DEF TypeOK, uiot_mqtt_unsubscribe, Unregister, SubTopicHandle
  <1>2. reported' \subseteq (Topic \X Callback)
    BY DEF TypeOK, uiot_mqtt_unsubscribe
  <1>3. /\ list_sub_wait_ack' \subseteq SubNode
        /\ awaiting' \in [PacketId -> Request \cup {"nothing"}]
        /\ net' \subseteq Packet
        /\ broker_subs' \subseteq Topic
    <2>1. CASE UNCHANGED <<list_sub_wait_ack, awaiting, net, broker_subs>>
      BY <2>1 DEF TypeOK
    <2>2. CASE /\ \E id \in get_next_packet_id :
                    /\ push_sub_info_to(id, "UNSUBSCRIBE", t, NoHandler)
                    /\ BrokerOnUnsubscribe(id, t)
      <3>1. PICK id \in PacketId :
              /\ push_sub_info_to(id, "UNSUBSCRIBE", t, NoHandler)
              /\ BrokerOnUnsubscribe(id, t)
        BY <2>2 DEF get_next_packet_id
      <3>2. list_sub_wait_ack' \subseteq SubNode
        BY <3>1 DEF TypeOK, push_sub_info_to, SubNode, NodeState, Callback
      <3>3. awaiting' \in [PacketId -> Request \cup {"nothing"}]
        BY <3>1 DEF TypeOK, push_sub_info_to, Request
      <3>4. net' \subseteq Packet /\ broker_subs' \subseteq Topic
        BY <3>1 DEF TypeOK, BrokerOnUnsubscribe, BrokerSends, Packet
      <3> QED
        BY <2>2, <3>2, <3>3, <3>4 DEF TypeOK
    <2> QED
      BY <2>1, <2>2 DEF uiot_mqtt_unsubscribe
  <1> QED
    BY <1>1, <1>2, <1>3 DEF TypeOK, uiot_mqtt_unsubscribe

LEMMA TypeRead ==
  ASSUME TypeOK, cycle_for_read
  PROVE  TypeOK'
  <1>1. CASE ReadNothing
    BY <1>1 DEF TypeOK, ReadNothing, cycle_for_read, Phase
  <1>2. ASSUME NEW m \in net, net' = net \ {m}, _handle_puback_packet(m)
        PROVE  TypeOK'
    <2>1. m.id \in PacketId
      BY <1>2 DEF TypeOK, _handle_puback_packet, Packet
    <2> QED
      BY <1>2, <2>1, InvalidatePub, AnsweredType
      DEF TypeOK, _handle_puback_packet, cycle_for_read, Phase
  <1>3. ASSUME NEW m \in net, net' = net \ {m}, _handle_unsuback_packet(m)
        PROVE  TypeOK'
    <2>1. m.id \in PacketId
      BY <1>3 DEF TypeOK, _handle_unsuback_packet, Packet
    <2> QED
      BY <1>3, <2>1, InvalidateSub, AnsweredType
      DEF TypeOK, _handle_unsuback_packet, cycle_for_read, Phase
  <1>4. ASSUME NEW m \in net, net' = net \ {m}, _handle_publish_packet(m)
        PROVE  TypeOK'
    BY <1>4 DEF TypeOK, _handle_publish_packet, cycle_for_read, Phase
  <1>5. ASSUME NEW m \in net, net' = net \ {m}, _handle_suback_packet(m)
        PROVE  TypeOK'
    <2>1. m.id \in PacketId
      BY <1>5 DEF TypeOK, _handle_suback_packet, Packet
    <2>2. list_sub_wait_ack' \subseteq SubNode
      BY <1>5, InvalidateSub DEF TypeOK, _handle_suback_packet
    <2>3. phase' \in Phase
      BY <1>5 DEF _handle_suback_packet, Phase
    <2>4. /\ sub_handles' \in [HandleSlot -> SubTopicHandle]
          /\ awaiting' \in [PacketId -> Request \cup {"nothing"}]
          /\ reported' \subseteq (Topic \X Callback)
      <3>1. CASE UNCHANGED <<sub_handles, awaiting, reported>>
        BY <3>1 DEF TypeOK
      <3>2. CASE Answered(m.id, "SUBSCRIBE") /\ UNCHANGED <<sub_handles, reported>>
        BY <2>1, <3>2, AnsweredType DEF TypeOK
      <3>3. CASE \E n \in NodesOf(list_sub_wait_ack, m.id) :
                   /\ InstallHandle(n.topic, n.handler)
                   /\ Answered(m.id, "SUBSCRIBE")
                   /\ reported' = reported \cup {<<n.topic, n.handler>>}
        <4>1. PICK n \in NodesOf(list_sub_wait_ack, m.id) :
                /\ InstallHandle(n.topic, n.handler)
                /\ Answered(m.id, "SUBSCRIBE")
                /\ reported' = reported \cup {<<n.topic, n.handler>>}
          BY <3>3
        <4>2. n.topic \in Topic /\ n.handler \in Callback
          BY DEF TypeOK, NodesOf, SubNode
        <4> QED
          BY <2>1, <4>1, <4>2, AnsweredType, InstallHandleType DEF TypeOK
      <3> QED
        BY <1>5, <3>1, <3>2, <3>3 DEF _handle_suback_packet
    <2> QED
      BY <1>5, <2>2, <2>3, <2>4 DEF TypeOK, _handle_suback_packet, cycle_for_read
  <1> QED
    BY <1>1, <1>2, <1>3, <1>4, <1>5 DEF cycle_for_read

LEMMA TypeResubscribe ==
  ASSUME TypeOK, uiot_mqtt_resubscribe
  PROVE  TypeOK'
  <1>1. CASE ResubscribeNext
    <2>1. CASE SendSubscribe(sub_handles[itr].topic, sub_handles[itr].handler)
      <3>1. sub_handles[itr].topic \in Topic /\ sub_handles[itr].handler \in Callback
        BY <1>1 DEF TypeOK, ResubscribeNext, SubTopicHandle
      <3>2. itr' \in 0..MAX_SUB_TOPICS /\ phase' \in Phase
        BY <1>1, ConstantsAssumption
        DEF TypeOK, ResubscribeNext, HandleSlot, Phase
      <3> QED
        BY <1>1, <2>1, <3>1, <3>2, SendSubscribeType
        DEF TypeOK, ResubscribeNext, uiot_mqtt_resubscribe
    <2>2. CASE /\ phase' = "loop"
               /\ UNCHANGED <<itr, list_sub_wait_ack, awaiting, net, broker_subs, asked>>
      BY <1>1, <2>2 DEF TypeOK, ResubscribeNext, uiot_mqtt_resubscribe, Phase
    <2> QED
      BY <1>1, <2>1, <2>2 DEF ResubscribeNext
  <1>2. CASE ResubscribeSkip
    BY <1>2, ConstantsAssumption
    DEF TypeOK, ResubscribeSkip, uiot_mqtt_resubscribe, HandleSlot
  <1>3. CASE ResubscribeDone
    BY <1>3 DEF TypeOK, ResubscribeDone, uiot_mqtt_resubscribe, Phase
  <1> QED
    BY <1>1, <1>2, <1>3 DEF uiot_mqtt_resubscribe

LEMMA TimedOutType ==
  ASSUME TypeOK, NEW list, NEW types, TimedOut(list, types)
  PROVE  awaiting' \in [PacketId -> Request \cup {"nothing"}]
  BY DEF TypeOK, TimedOut

LEMMA TypeNext == TypeOK /\ [Next]_vars => TypeOK'
  <1> SUFFICES ASSUME TypeOK, [Next]_vars PROVE TypeOK'
    OBVIOUS
  <1>1. CASE Api
    BY <1>1, TypePublish, TypeSubscribe, TypeUnsubscribe DEF Api
  <1>2. CASE cycle_for_read
    BY <1>2, TypeRead
  <1>3. CASE uiot_mqtt_pub_info_proc
    BY <1>3, TimedOutType DEF TypeOK, uiot_mqtt_pub_info_proc, Kept, Waiting, Phase
  <1>4. CASE uiot_mqtt_sub_info_proc
    BY <1>4, TimedOutType DEF TypeOK, uiot_mqtt_sub_info_proc, Kept, Waiting, Phase
  <1>5. CASE _mqtt_keep_alive
    BY <1>5 DEF TypeOK, _mqtt_keep_alive, Phase, appVars
  <1>6. CASE uiot_mqtt_resubscribe
    BY <1>6, TypeResubscribe
  <1>7. CASE _handle_disconnect
    BY <1>7 DEF TypeOK, _handle_disconnect, Phase, appVars
  <1>8. CASE uiot_mqtt_attempt_reconnect
    <2>1. itr' \in 0..MAX_SUB_TOPICS
      BY <1>8, ConstantsAssumption DEF uiot_mqtt_attempt_reconnect
    <2>2. phase' \in Phase /\ asked' \subseteq Topic
      BY <1>8 DEF uiot_mqtt_attempt_reconnect, Phase
    <2> QED
      BY <1>8, <2>1, <2>2 DEF TypeOK, uiot_mqtt_attempt_reconnect
  <1>9. ASSUME NEW t \in Topic, BrokerPublishes(t)
        PROVE  TypeOK'
    BY <1>9 DEF TypeOK, BrokerPublishes, BrokerSends, Packet, clientVars, appVars
  <1>10. CASE UNCHANGED vars
    BY <1>10 DEF TypeOK, vars, clientVars, appVars
  <1> QED
    BY <1>1, <1>2, <1>3, <1>4, <1>5, <1>6, <1>7, <1>8, <1>9, <1>10 DEF Next, Yield

(* The variables keep their types: in particular itr never runs past the   *)
(* array of callbacks and nothing but nodes gets into the wait lists.      *)
THEOREM TypeCorrect == Spec => []TypeOK
  BY TypeInit, TypeNext, PTL DEF Spec

(***************************************************************************)
(* No publish is forgotten.  The invariant is inductive as it stands: what *)
(* takes a waiting node away -- the answer, the timeout -- is what tells   *)
(* the application.                                                        *)
(***************************************************************************)

LEMMA PublishInit == Init => PublishNotForgotten
  BY DEF Init, PublishNotForgotten

(* A step that keeps the waiting nodes and makes no new publish known.     *)
LEMMA PublishKept ==
  ASSUME PublishNotForgotten,
         Waiting(list_pub_wait_ack) \subseteq Waiting(list_pub_wait_ack'),
         \A id \in PacketId : awaiting'[id] = "PUBLISH" => awaiting[id] = "PUBLISH"
  PROVE  PublishNotForgotten'
  BY DEF PublishNotForgotten

LEMMA SendSubscribeNotPublish ==
  ASSUME TypeOK, NEW t, NEW h, SendSubscribe(t, h)
  PROVE  \A id \in PacketId : awaiting'[id] = "PUBLISH" => awaiting[id] = "PUBLISH"
  BY DEF TypeOK, SendSubscribe, push_sub_info_to, get_next_packet_id

LEMMA PublishNext == TypeOK /\ PublishNotForgotten /\ [Next]_vars => PublishNotForgotten'
  <1> SUFFICES ASSUME TypeOK, PublishNotForgotten, [Next]_vars
               PROVE  PublishNotForgotten'
    OBVIOUS
  <1>1. CASE uiot_mqtt_publish
    <2>1. PICK id \in PacketId :
            /\ list_pub_wait_ack' =
                 list_pub_wait_ack \cup {[id |-> id, state |-> "NORMAL"]}
            /\ awaiting' = [awaiting EXCEPT ![id] = "PUBLISH"]
      BY <1>1 DEF uiot_mqtt_publish, _mask_push_pubInfo_to, get_next_packet_id
    <2>2. [id |-> id, state |-> "NORMAL"] \in Waiting(list_pub_wait_ack')
      BY <2>1 DEF Waiting
    <2>3. Waiting(list_pub_wait_ack) \subseteq Waiting(list_pub_wait_ack')
      BY <2>1 DEF Waiting
    <2> QED
      BY <2>1, <2>2, <2>3 DEF PublishNotForgotten, TypeOK
  <1>2. ASSUME NEW t \in Topic, NEW h \in Callback, uiot_mqtt_subscribe(t, h)
        PROVE  PublishNotForgotten'
    BY <1>2, SendSubscribeNotPublish, PublishKept DEF uiot_mqtt_subscribe
  <1>3. ASSUME NEW t \in Topic, uiot_mqtt_unsubscribe(t)
        PROVE  PublishNotForgotten'
    <2>1. list_pub_wait_ack' = list_pub_wait_ack
      BY <1>3 DEF uiot_mqtt_unsubscribe
    <2>2. \A id \in PacketId : awaiting'[id] = "PUBLISH" => awaiting[id] = "PUBLISH"
      BY <1>3 DEF TypeOK, uiot_mqtt_unsubscribe, push_sub_info_to, get_next_packet_id
    <2> QED
      BY <2>1, <2>2, PublishKept
  <1>4. CASE cycle_for_read
    <2>1. ASSUME NEW m \in net, _handle_puback_packet(m)
          PROVE  PublishNotForgotten'
      <3> SUFFICES ASSUME NEW id \in PacketId, awaiting'[id] = "PUBLISH"
                   PROVE  \E n \in Waiting(list_pub_wait_ack') : n.id = id
        BY DEF PublishNotForgotten
      <3>1. awaiting[id] = "PUBLISH" /\ id # m.id
        BY <2>1 DEF TypeOK, _handle_puback_packet, Answered
      <3>2. PICK n \in Waiting(list_pub_wait_ack) : n.id = id
        BY <3>1 DEF PublishNotForgotten
      <3>3. n \in Waiting(Invalidate(list_pub_wait_ack, m.id))
        BY <3>1, <3>2, InvalidateOthers
      <3> QED
        BY <2>1, <3>2, <3>3 DEF _handle_puback_packet
    <2>2. ASSUME NEW m \in net,
                 \/ _handle_suback_packet(m)
                 \/ _handle_unsuback_packet(m)
                 \/ _handle_publish_packet(m)
          PROVE  PublishNotForgotten'
      <3>1. list_pub_wait_ack' = list_pub_wait_ack
        BY <2>2 DEF _handle_suback_packet, _handle_unsuback_packet,
                    _handle_publish_packet
      <3>2. \A id \in PacketId : awaiting'[id] = "PUBLISH" => awaiting[id] = "PUBLISH"
        BY <2>2 DEF TypeOK, _handle_suback_packet, _handle_unsuback_packet,
                    _handle_publish_packet, Answered
      <3> QED
        BY <3>1, <3>2, PublishKept
    <2>3. CASE ReadNothing
      BY <2>3, PublishKept DEF ReadNothing
    <2> QED
      BY <1>4, <2>1, <2>2, <2>3 DEF cycle_for_read
  <1>5. CASE uiot_mqtt_pub_info_proc
    <2>1. PICK expired \in SUBSET Waiting(list_pub_wait_ack) :
            /\ list_pub_wait_ack' = Kept(list_pub_wait_ack, expired)
            /\ TimedOut(expired, {"PUBLISH"})
      BY <1>5 DEF uiot_mqtt_pub_info_proc
    <2> SUFFICES ASSUME NEW id \in PacketId, awaiting'[id] = "PUBLISH"
                 PROVE  \E n \in Waiting(list_pub_wait_ack') : n.id = id
      BY DEF PublishNotForgotten
    <2>2. awaiting[id] = "PUBLISH" /\ NodesOf(expired, id) = {}
      BY <2>1 DEF TimedOut
    <2>3. PICK n \in Waiting(list_pub_wait_ack) : n.id = id
      BY <2>2 DEF PublishNotForgotten
    <2>4. n \notin expired
      BY <2>2, <2>3 DEF NodesOf
    <2> QED
      BY <2>1, <2>3, <2>4 DEF Kept, Waiting
  <1>6. CASE uiot_mqtt_sub_info_proc
    <2>1. \A id \in PacketId : awaiting'[id] = "PUBLISH" => awaiting[id] = "PUBLISH"
      BY <1>6 DEF uiot_mqtt_sub_info_proc, TimedOut
    <2> QED
      BY <1>6, <2>1, PublishKept DEF uiot_mqtt_sub_info_proc
  <1>7. CASE uiot_mqtt_resubscribe
    <2>1. \A id \in PacketId : awaiting'[id] = "PUBLISH" => awaiting[id] = "PUBLISH"
      BY <1>7, SendSubscribeNotPublish
      DEF uiot_mqtt_resubscribe, ResubscribeNext, ResubscribeSkip, ResubscribeDone
    <2> QED
      BY <1>7, <2>1, PublishKept DEF uiot_mqtt_resubscribe
  <1>8. CASE _mqtt_keep_alive \/ _handle_disconnect \/ uiot_mqtt_attempt_reconnect
    BY <1>8, PublishKept
    DEF _mqtt_keep_alive, _handle_disconnect, uiot_mqtt_attempt_reconnect, appVars
  <1>9. ASSUME NEW t \in Topic, BrokerPublishes(t)
        PROVE  PublishNotForgotten'
    BY <1>9, PublishKept DEF BrokerPublishes, clientVars, appVars
  <1>10. CASE UNCHANGED vars
    BY <1>10, PublishKept DEF vars, clientVars, appVars
  <1> QED
    BY <1>1, <1>2, <1>3, <1>4, <1>5, <1>6, <1>7, <1>8, <1>9, <1>10
    DEF Next, Api, Yield

(* A publish the application knows of keeps its waiting node until the     *)
(* application has been told, over acknowledgements of others, timeouts    *)
(* and reconnections.                                                      *)
THEOREM PublishesRemembered == Spec => []PublishNotForgotten
  BY TypeCorrect, PublishInit, PublishNext, PTL DEF Spec

(***************************************************************************)
(* The array of callbacks: what the two operations that write it keep.     *)
(***************************************************************************)

LEMMA InstallKeeps ==
  ASSUME TypeOK, NEW t \in Topic, NEW h \in Callback, InstallHandle(t, h)
  PROVE  /\ \A i \in UsedHandles : i \in UsedHandles' /\ sub_handles'[i] = sub_handles[i]
         /\ \A i \in UsedHandles' : \/ i \in UsedHandles
                                   \/ sub_handles'[i] = [topic |-> t, handler |-> h]
         /\ \E i \in UsedHandles' : sub_handles'[i].topic = t /\ sub_handles'[i].handler = h
  <1>1. CASE IsRegistered(t, h) /\ UNCHANGED sub_handles
    BY <1>1 DEF IsRegistered, UsedHandles
  <1>2. ASSUME NEW i \in HandleSlot \ UsedHandles,
               sub_handles' = [sub_handles EXCEPT ![i] = [topic |-> t, handler |-> h]]
        PROVE  /\ \A j \in UsedHandles :
                      j \in UsedHandles' /\ sub_handles'[j] = sub_handles[j]
               /\ \A j \in UsedHandles' :
                      \/ j \in UsedHandles
                      \/ sub_handles'[j] = [topic |-> t, handler |-> h]
               /\ i \in UsedHandles'
               /\ sub_handles'[i] = [topic |-> t, handler |-> h]
    BY <1>2, ConstantsAssumption DEF TypeOK, UsedHandles
  <1> QED
    BY <1>1, <1>2 DEF InstallHandle

LEMMA UnregisterKeeps ==
  ASSUME TypeOK, NEW t \in Topic, sub_handles' = Unregister(t)
  PROVE  \A i \in UsedHandles' : i \in UsedHandles /\ sub_handles'[i] = sub_handles[i]
  BY DEF TypeOK, Unregister, UsedHandles, SubTopicHandle

(* A SUBACK is the one answer that changes the array: it installs what the *)
(* node of its id asked for.                                               *)
LEMMA ReadHandles ==
  ASSUME TypeOK, cycle_for_read
  PROVE  \/ UNCHANGED <<sub_handles, reported>>
         \/ \E m \in net : \E n \in NodesOf(list_sub_wait_ack, m.id) :
              /\ m.type = "SUBACK"
              /\ n.topic \in Topic /\ n.handler \in Callback
              /\ InstallHandle(n.topic, n.handler)
              /\ reported' = reported \cup {<<n.topic, n.handler>>}
  <1>1. ASSUME NEW m \in net, _handle_suback_packet(m)
        PROVE  \/ UNCHANGED <<sub_handles, reported>>
               \/ \E n \in NodesOf(list_sub_wait_ack, m.id) :
                    /\ m.type = "SUBACK"
                    /\ n.topic \in Topic /\ n.handler \in Callback
                    /\ InstallHandle(n.topic, n.handler)
                    /\ reported' = reported \cup {<<n.topic, n.handler>>}
    <2>1. \A n \in NodesOf(list_sub_wait_ack, m.id) : n.topic \in Topic /\ n.handler \in Callback
      BY DEF TypeOK, NodesOf, SubNode
    <2> QED
      BY <1>1, <2>1 DEF _handle_suback_packet
  <1>2. ASSUME NEW m \in net,
               \/ _handle_puback_packet(m)
               \/ _handle_unsuback_packet(m)
               \/ _handle_publish_packet(m)
        PROVE  UNCHANGED <<sub_handles, reported>>
    BY <1>2 DEF _handle_puback_packet, _handle_unsuback_packet, _handle_publish_packet
  <1>3. CASE ReadNothing
    BY <1>3 DEF ReadNothing
  <1> QED
    BY <1>1, <1>2, <1>3 DEF cycle_for_read

(* The steps that neither write the array nor report a subscription.       *)
LEMMA OtherSteps ==
  ASSUME [Next]_vars, ~cycle_for_read, ~\E t \in Topic : uiot_mqtt_unsubscribe(t)
  PROVE  UNCHANGED <<sub_handles, reported>>
  BY DEF Next, Api, Yield, vars, clientVars, appVars, uiot_mqtt_publish, _mask_push_pubInfo_to,
         uiot_mqtt_subscribe, uiot_mqtt_pub_info_proc, uiot_mqtt_sub_info_proc,
         _mqtt_keep_alive, uiot_mqtt_resubscribe, _handle_disconnect,
         uiot_mqtt_attempt_reconnect, BrokerPublishes

LEMMA DistinctNext == TypeOK /\ HandlesDistinct /\ [Next]_vars => HandlesDistinct'
  <1> SUFFICES ASSUME TypeOK, HandlesDistinct, [Next]_vars PROVE HandlesDistinct'
    OBVIOUS
  <1>1. CASE UNCHANGED sub_handles
    BY <1>1 DEF HandlesDistinct, UsedHandles
  <1>2. ASSUME NEW t \in Topic, uiot_mqtt_unsubscribe(t)
        PROVE  HandlesDistinct'
    BY <1>2, UnregisterKeeps DEF HandlesDistinct, uiot_mqtt_unsubscribe
  <1>3. ASSUME NEW t \in Topic, NEW h \in Callback, InstallHandle(t, h)
        PROVE  HandlesDistinct'
    <2>1. CASE UNCHANGED sub_handles
      BY <1>1, <2>1
    <2>2. ASSUME ~IsRegistered(t, h), NEW i \in HandleSlot \ UsedHandles,
                 sub_handles' = [sub_handles EXCEPT ![i] = [topic |-> t, handler |-> h]]
          PROVE  HandlesDistinct'
      <3>1. \A j \in UsedHandles : sub_handles[j] # [topic |-> t, handler |-> h]
        BY <2>2 DEF IsRegistered
      <3>2. \A j \in HandleSlot : j # i => sub_handles'[j] = sub_handles[j]
        BY <2>2 DEF TypeOK
      <3>3. sub_handles'[i] = [topic |-> t, handler |-> h]
        BY <2>2 DEF TypeOK
      <3> QED
        BY <3>1, <3>2, <3>3 DEF HandlesDistinct, UsedHandles
    <2> QED
      BY <1>3, <2>1, <2>2 DEF InstallHandle
  <1> QED
    BY <1>1, <1>2, <1>3, ReadHandles, OtherSteps

(* Resubscribing after every reconnection never fills the array with       *)
(* copies of an entry.                                                     *)
THEOREM NoCopiesOfHandles == Spec => []HandlesDistinct
  <1>1. Init => HandlesDistinct
    BY DEF Init, HandlesDistinct, UsedHandles
  <1> QED
    BY <1>1, TypeCorrect, DistinctNext, PTL DEF Spec

LEMMA ReportedNext ==
  ASSUME WildTopic = {}
  PROVE  TypeOK /\ ReportedIsRegistered /\ [Next]_vars => ReportedIsRegistered'
  <1> SUFFICES ASSUME TypeOK, ReportedIsRegistered, [Next]_vars
               PROVE  ReportedIsRegistered'
    OBVIOUS
  <1>1. CASE UNCHANGED <<sub_handles, reported>>
    BY <1>1 DEF ReportedIsRegistered, IsRegistered, UsedHandles
  <1>2. ASSUME NEW t \in Topic, uiot_mqtt_unsubscribe(t)
        PROVE  ReportedIsRegistered'
    <2> SUFFICES ASSUME NEW r \in reported'
                 PROVE  IsRegistered(r[1], r[2])'
      BY DEF ReportedIsRegistered
    <2>1. r \in reported /\ r[1] # t
      BY <1>2 DEF uiot_mqtt_unsubscribe
    <2>2. PICK i \in UsedHandles : sub_handles[i].topic = r[1] /\ sub_handles[i].handler = r[2]
      BY <2>1 DEF ReportedIsRegistered, IsRegistered
    <2>3. sub_handles'[i] = sub_handles[i]
      BY <1>2, <2>1, <2>2 DEF uiot_mqtt_unsubscribe, Unregister, UsedHandles
    <2> QED
      BY <2>2, <2>3 DEF IsRegistered, UsedHandles
  <1>3. ASSUME NEW t \in Topic, NEW h \in Callback, InstallHandle(t, h),
               reported' = reported \cup {<<t, h>>}
        PROVE  ReportedIsRegistered'
    <2> SUFFICES ASSUME NEW r \in reported'
                 PROVE  IsRegistered(r[1], r[2])'
      BY DEF ReportedIsRegistered
    <2>1. CASE r \in reported
      <3>1. PICK i \in UsedHandles : sub_handles[i].topic = r[1] /\ sub_handles[i].handler = r[2]
        BY <2>1 DEF ReportedIsRegistered, IsRegistered
      <3>2. i \in UsedHandles' /\ sub_handles'[i] = sub_handles[i]
        BY <1>3, InstallKeeps
      <3> QED
        BY <3>1, <3>2 DEF IsRegistered
    <2>2. CASE r = <<t, h>>
      <3>1. PICK i \in UsedHandles' : sub_handles'[i].topic = t /\ sub_handles'[i].handler = h
        BY ZenonT(60), <1>3, InstallKeeps
      <3> QED
        BY <2>2, <3>1 DEF IsRegistered
    <2> QED
      BY <1>3, <2>1, <2>2
  <1> QED
    BY <1>1, <1>2, <1>3, ReadHandles, OtherSteps

(* While no filter with a wildcard is used, a callback reported as         *)
(* subscribed is registered until the application unsubscribes.            *)
THEOREM ReportedStaysRegistered ==
  ASSUME WildTopic = {}
  PROVE  Spec => []ReportedIsRegistered
  <1>1. Init => ReportedIsRegistered
    BY DEF Init, ReportedIsRegistered
  <1>2. TypeOK /\ ReportedIsRegistered /\ [Next]_vars => ReportedIsRegistered'
    BY ReportedNext
  <1> QED
    BY <1>1, <1>2, TypeCorrect, PTL DEF Spec

(***************************************************************************)
(* RestoredIsComplete needs a strengthening: a SUBACK under way answers a  *)
(* SUBSCRIBE of this connection, and the part of the array the             *)
(* resubscription has passed is asked for.                                 *)
(***************************************************************************)

NoNetWithoutConnection == ~is_connected => net = {}

ResubscribedSoFar ==
  phase = "resub" =>
    /\ is_connected /\ ~restored
    /\ \A i \in UsedHandles : i < itr => sub_handles[i].topic \in asked

SubackIsOfThisConnection ==
  \A m \in net : m.type = "SUBACK" =>
    \A n \in NodesOf(list_sub_wait_ack, m.id) : n.topic \in asked

IInv == /\ TypeOK
        /\ NoNetWithoutConnection
        /\ ResubscribedSoFar
        /\ SubackIsOfThisConnection
        /\ RestoredIsComplete

LEMMA IInvInit == Init => IInv
  BY TypeInit
  DEF Init, IInv, NoNetWithoutConnection, ResubscribedSoFar,
      SubackIsOfThisConnection, RestoredIsComplete, UsedHandles

(* A node and the answers of the broker get an id nothing else has.        *)
LEMMA FreshId ==
  ASSUME NEW id \in get_next_packet_id
  PROVE  /\ NodesOf(list_sub_wait_ack, id) = {}
         /\ \A m \in net : m.type = "SUBACK" => m.id # id
  BY DEF get_next_packet_id, InUse, NodesOf

LEMMA SendSubscribeKeeps ==
  ASSUME TypeOK, SubackIsOfThisConnection, NEW t \in Topic, NEW h \in Callback,
         SendSubscribe(t, h)
  PROVE  /\ SubackIsOfThisConnection'
         /\ asked' = asked \cup {t}
  <1>1. asked' = asked \cup {t}
    BY DEF SendSubscribe
  <1>2. PICK id \in get_next_packet_id :
          push_sub_info_to(id, "SUBSCRIBE", t, h) /\ BrokerOnSubscribe(id, t)
    BY DEF SendSubscribe
  <1>3. list_sub_wait_ack' = list_sub_wait_ack \cup
          {[id |-> id, type |-> "SUBSCRIBE", topic |-> t, handler |-> h, state |-> "NORMAL"]}
    BY <1>2 DEF push_sub_info_to
  <1>4. \A m \in net' : m \in net \/ m.id = id
    BY <1>2 DEF BrokerOnSubscribe, BrokerSends
  <1> SUFFICES ASSUME NEW m \in net', m.type = "SUBACK",
                      NEW n \in NodesOf(list_sub_wait_ack', m.id)
               PROVE  n.topic \in asked'
    BY <1>1 DEF SubackIsOfThisConnection
  <1>5. CASE m.id = id
    <2>1. n.topic = t
      BY <1>3, <1>5, FreshId DEF NodesOf
    <2> QED
      BY <1>1, <2>1
  <1>6. CASE m.id # id
    <2>1. m \in net /\ n \in NodesOf(list_sub_wait_ack, m.id)
      BY <1>3, <1>4, <1>6 DEF NodesOf
    <2> QED
      BY <1>1, <2>1 DEF SubackIsOfThisConnection
  <1> QED
    BY <1>5, <1>6

(* No new SUBACK and no new node.                                          *)
LEMMA SubackKept ==
  ASSUME SubackIsOfThisConnection, asked \subseteq asked',
         \A m \in net' : m.type = "SUBACK" => m \in net,
         \A n \in list_sub_wait_ack' :
            \E o \in list_sub_wait_ack : n.id = o.id /\ n.topic = o.topic
  PROVE  SubackIsOfThisConnection'
  BY DEF SubackIsOfThisConnection, NodesOf

LEMMA IInvUnsubscribe ==
  ASSUME IInv, NEW t \in Topic, uiot_mqtt_unsubscribe(t)
  PROVE  IInv'
  <1>1. TypeOK'
    BY TypeUnsubscribe DEF IInv
  <1>2. \A i \in UsedHandles' : i \in UsedHandles /\ sub_handles'[i] = sub_handles[i]
    BY UnregisterKeeps DEF IInv, uiot_mqtt_unsubscribe
  <1>3. ResubscribedSoFar' /\ RestoredIsComplete'
    BY <1>2 DEF IInv, ResubscribedSoFar, RestoredIsComplete, uiot_mqtt_unsubscribe
  <1>4. NoNetWithoutConnection'
    BY DEF IInv, NoNetWithoutConnection, uiot_mqtt_unsubscribe
  <1>5. SubackIsOfThisConnection'
    <2>1. CASE UNCHANGED <<list_sub_wait_ack, net>>
      BY <2>1, SubackKept DEF IInv, uiot_mqtt_unsubscribe
    <2>2. ASSUME NEW id \in get_next_packet_id,
                 push_sub_info_to(id, "UNSUBSCRIBE", t, NoHandler),
                 BrokerOnUnsubscribe(id, t)
          PROVE  SubackIsOfThisConnection'
      <3>1. \A m \in net' : m.type = "SUBACK" => m \in net
        BY <2>2 DEF BrokerOnUnsubscribe, BrokerSends
      <3>2. \A n \in list_sub_wait_ack' : n \in list_sub_wait_ack \/ n.id = id
        BY <2>2 DEF push_sub_info_to
      <3>3. asked' = asked
        BY DEF uiot_mqtt_unsubscribe
      <3> QED
        BY <3>1, <3>2, <3>3, FreshId DEF IInv, SubackIsOfThisConnection, NodesOf
    <2> QED
      BY <2>1, <2>2 DEF uiot_mqtt_unsubscribe
  <1> QED
    BY <1>1, <1>3, <1>4, <1>5 DEF IInv

LEMMA IInvRead ==
  ASSUME IInv, cycle_for_read
  PROVE  IInv'
  <1>1. TypeOK'
    BY TypeRead DEF IInv
  <1>2. NoNetWithoutConnection' /\ ResubscribedSoFar'
    BY DEF IInv, NoNetWithoutConnection, ResubscribedSoFar, cycle_for_read,
           ReadNothing, _handle_puback_packet, _handle_suback_packet,
           _handle_unsuback_packet, _handle_publish_packet
  <1>3. SubackIsOfThisConnection'
    <2>1. net' \subseteq net
      BY DEF cycle_for_read, ReadNothing
    <2>2. asked' = asked
      BY DEF cycle_for_read
    <2>3. \A n \in list_sub_wait_ack' :
            \E o \in list_sub_wait_ack : n.id = o.id /\ n.topic = o.topic
      <3>1. ASSUME NEW id, NEW n \in Invalidate(list_sub_wait_ack, id)
            PROVE  \E o \in list_sub_wait_ack : n.id = o.id /\ n.topic = o.topic
        BY DEF Invalidate, NodesOf, IInv, TypeOK, SubNode
      <3>2. \/ list_sub_wait_ack' = list_sub_wait_ack
            \/ \E m \in net : list_sub_wait_ack' = Invalidate(list_sub_wait_ack, m.id)
        BY DEF cycle_for_read, ReadNothing, _handle_puback_packet,
               _handle_suback_packet, _handle_unsuback_packet, _handle_publish_packet
      <3> QED
        BY <3>1, <3>2
    <2> QED
      BY <2>1, <2>2, <2>3, SubackKept DEF IInv
  <1>4. RestoredIsComplete'
    <2>1. UNCHANGED <<is_connected, restored, asked>>
      BY DEF cycle_for_read
    <2>2. CASE UNCHANGED sub_handles
      BY <2>1, <2>2 DEF IInv, RestoredIsComplete, UsedHandles
    <2>3. ASSUME NEW m \in net, NEW n \in NodesOf(list_sub_wait_ack, m.id),
                 m.type = "SUBACK", n.topic \in Topic, n.handler \in Callback,
                 InstallHandle(n.topic, n.handler)
          PROVE  RestoredIsComplete'
      <3>1. n.topic \in asked
        BY <2>3 DEF IInv, SubackIsOfThisConnection
      <3>2. \A i \in UsedHandles' :
              \/ i \in UsedHandles /\ sub_handles'[i] = sub_handles[i]
              \/ sub_handles'[i] = [topic |-> n.topic, handler |-> n.handler]
        BY <2>3, InstallKeeps DEF IInv
      <3> QED
        BY <2>1, <3>1, <3>2 DEF IInv, RestoredIsComplete
    <2> QED
      BY <2>2, <2>3, ReadHandles DEF IInv
  <1> QED
    BY <1>1, <1>2, <1>3, <1>4 DEF IInv

LEMMA IInvResubscribe ==
  ASSUME IInv, uiot_mqtt_resubscribe
  PROVE  IInv'
  <1>1. TypeOK'
    BY TypeResubscribe DEF IInv
  <1>2. /\ UNCHANGED <<sub_handles, is_connected>> /\ UsedHandles' = UsedHandles
        /\ is_connected /\ ~restored /\ itr \in 0..MAX_SUB_TOPICS
        /\ \A i \in UsedHandles : i < itr => sub_handles[i].topic \in asked
    BY DEF IInv, TypeOK, ResubscribedSoFar, uiot_mqtt_resubscribe, UsedHandles
  <1>3. NoNetWithoutConnection'
    BY <1>2 DEF NoNetWithoutConnection
  <1>4. CASE ResubscribeDone
    <2>1. \A i \in UsedHandles : i < itr
      BY <1>4, ConstantsAssumption DEF ResubscribeDone, UsedHandles, HandleSlot
    <2>2. RestoredIsComplete' /\ ResubscribedSoFar'
      BY <1>2, <1>4, <2>1 DEF ResubscribeDone, RestoredIsComplete, ResubscribedSoFar
    <2>3. SubackIsOfThisConnection'
      BY <1>4, SubackKept DEF IInv, ResubscribeDone
    <2> QED
      BY <1>1, <1>3, <2>2, <2>3 DEF IInv
  <1>5. CASE ResubscribeSkip
    <2>1. \A i \in UsedHandles : i < itr + 1 => i < itr
      BY <1>2, <1>5, ConstantsAssumption DEF ResubscribeSkip, UsedHandles, HandleSlot
    <2>2. RestoredIsComplete' /\ ResubscribedSoFar'
      BY <1>2, <1>5, <2>1 DEF ResubscribeSkip, RestoredIsComplete, ResubscribedSoFar
    <2>3. SubackIsOfThisConnection'
      BY <1>5, SubackKept DEF IInv, ResubscribeSkip
    <2> QED
      BY <1>1, <1>3, <2>2, <2>3 DEF IInv
  <1>6. CASE ResubscribeNext
    <2>1. RestoredIsComplete'
      BY <1>2, <1>6 DEF ResubscribeNext, RestoredIsComplete
    <2>2. CASE /\ phase' = "loop"
               /\ UNCHANGED <<list_sub_wait_ack, net, asked>>
      BY <1>1, <1>3, <2>1, <2>2, SubackKept DEF IInv, ResubscribedSoFar
    <2>3. CASE /\ SendSubscribe(sub_handles[itr].topic, sub_handles[itr].handler)
               /\ itr' = itr + 1
      <3>1. sub_handles[itr].topic \in Topic /\ sub_handles[itr].handler \in Callback
        BY <1>6 DEF IInv, TypeOK, ResubscribeNext, SubTopicHandle
      <3>2. SubackIsOfThisConnection' /\ asked' = asked \cup {sub_handles[itr].topic}
        BY <2>3, <3>1, SendSubscribeKeeps DEF IInv
      <3>3. \A i \in UsedHandles : i < itr + 1 => i < itr \/ i = itr
        BY <1>2, ConstantsAssumption DEF UsedHandles, HandleSlot
      <3>4. ResubscribedSoFar'
        BY <1>2, <1>6, <2>3, <3>2, <3>3 DEF ResubscribedSoFar, ResubscribeNext
      <3> QED
        BY <1>1, <1>3, <2>1, <3>2, <3>4 DEF IInv
    <2> QED
      BY <1>6, <2>2, <2>3 DEF ResubscribeNext
  <1> QED
    BY <1>4, <1>5, <1>6 DEF uiot_mqtt_resubscribe

LEMMA IInvNext == IInv /\ [Next]_vars => IInv'
  <1> SUFFICES ASSUME IInv, [Next]_vars PROVE IInv'
    OBVIOUS
  <1>0. TypeOK'
    BY TypeNext DEF IInv
  <1>1. CASE uiot_mqtt_publish
    <2>1. \A m \in net' : m.type = "SUBACK" => m \in net
      BY <1>1 DEF uiot_mqtt_publish, _mask_push_pubInfo_to, BrokerOnPublish, BrokerSends
    <2>2. SubackIsOfThisConnection'
      BY <1>1, <2>1, SubackKept DEF IInv, uiot_mqtt_publish, _mask_push_pubInfo_to
    <2>3. NoNetWithoutConnection' /\ ResubscribedSoFar' /\ RestoredIsComplete'
      BY <1>1 DEF IInv, NoNetWithoutConnection, ResubscribedSoFar,
                  RestoredIsComplete, uiot_mqtt_publish, _mask_push_pubInfo_to, UsedHandles
    <2> QED
      BY <1>0, <2>2, <2>3 DEF IInv
  <1>2. ASSUME NEW t \in Topic, NEW h \in Callback, uiot_mqtt_subscribe(t, h)
        PROVE  IInv'
    <2>1. SubackIsOfThisConnection' /\ asked' = asked \cup {t}
      BY <1>2, SendSubscribeKeeps DEF IInv, uiot_mqtt_subscribe
    <2>2. NoNetWithoutConnection' /\ ResubscribedSoFar' /\ RestoredIsComplete'
      BY <1>2, <2>1 DEF IInv, NoNetWithoutConnection, ResubscribedSoFar,
                        RestoredIsComplete, uiot_mqtt_subscribe, UsedHandles
    <2> QED
      BY <1>0, <2>1, <2>2 DEF IInv
  <1>3. ASSUME NEW t \in Topic, uiot_mqtt_unsubscribe(t)
        PROVE  IInv'
    BY <1>3, IInvUnsubscribe
  <1>4. CASE cycle_for_read
    BY <1>4, IInvRead
  <1>5. CASE uiot_mqtt_resubscribe
    BY <1>5, IInvResubscribe
  <1>6. CASE uiot_mqtt_pub_info_proc \/ uiot_mqtt_sub_info_proc \/ _mqtt_keep_alive
    <2>1. /\ UNCHANGED <<is_connected, net, asked, restored, sub_handles>>
          /\ phase' # "resub" /\ UsedHandles' = UsedHandles
          /\ list_sub_wait_ack' \subseteq list_sub_wait_ack
      BY <1>6 DEF uiot_mqtt_pub_info_proc, uiot_mqtt_sub_info_proc,
                  _mqtt_keep_alive, appVars, Kept, Waiting, UsedHandles
    <2> QED
      BY <1>0, <2>1, SubackKept
      DEF IInv, NoNetWithoutConnection, ResubscribedSoFar, RestoredIsComplete
  <1>7. CASE _handle_disconnect
    BY <1>0, <1>7 DEF IInv, _handle_disconnect, NoNetWithoutConnection,
       ResubscribedSoFar, SubackIsOfThisConnection, RestoredIsComplete
  <1>8. CASE uiot_mqtt_attempt_reconnect
    <2>1. net' = {} /\ phase' = "resub" /\ itr' = 0 /\ is_connected' /\ ~restored'
      BY <1>8 DEF IInv, NoNetWithoutConnection, uiot_mqtt_attempt_reconnect
    <2>2. \A i \in UsedHandles' : ~(i < 0)
      BY ConstantsAssumption DEF UsedHandles, HandleSlot
    <2> QED
      BY <1>0, <2>1, <2>2
      DEF IInv, NoNetWithoutConnection, ResubscribedSoFar,
          SubackIsOfThisConnection, RestoredIsComplete
  <1>9. ASSUME NEW t \in Topic, BrokerPublishes(t)
        PROVE  IInv'
    <2>1. /\ is_connected /\ UNCHANGED <<clientVars, appVars>>
          /\ \A m \in net' : m.type = "SUBACK" => m \in net
      BY <1>9 DEF BrokerPublishes, BrokerSends
    <2>2. SubackIsOfThisConnection'
      BY <2>1, SubackKept DEF IInv, clientVars, appVars
    <2> QED
      BY <1>0, <2>1, <2>2
      DEF IInv, clientVars, appVars, NoNetWithoutConnection, ResubscribedSoFar,
          RestoredIsComplete, UsedHandles
  <1>10. CASE UNCHANGED vars
    BY <1>0, <1>10
    DEF IInv, vars, clientVars, appVars, NoNetWithoutConnection, ResubscribedSoFar,
        RestoredIsComplete, SubackIsOfThisConnection, UsedHandles, NodesOf
  <1> QED
    BY <1>1, <1>2, <1>3, <1>4, <1>5, <1>6, <1>7, <1>8, <1>9, <1>10
    DEF Next, Api, Yield

(* When MQTT_EVENT_RECONNECT is raised, and as long as that connection     *)
(* lasts, every registered filter has been sent to the broker on it.       *)
THEOREM RestoredMeansComplete == Spec => []RestoredIsComplete
  <1>1. IInv => RestoredIsComplete
    BY DEF IInv
  <1> QED
    BY <1>1, IInvInit, IInvNext, PTL DEF Spec

(***************************************************************************)
(* A message for a reported filter is delivered: the entry of the report   *)
(* is there, so _deliver_message finds one, and it takes the first.        *)
(***************************************************************************)

LEMMA FirstSlot ==
  ASSUME NEW S, S \subseteq HandleSlot, S # {}
  PROVE  \E j \in S : \A k \in S : j <= k
  <1> DEFINE R == OpToRel(<, Nat)
  <1>1. IsWellFoundedOn(R, Nat)
    BY NatLessThanWellFounded, Zenon
  <1>2. \A x, y \in Nat : x < y => <<x, y>> \in R
    BY DEF OpToRel
  <1> HIDE DEF R
  <1>3. HandleSlot \subseteq Nat
    BY ConstantsAssumption DEF HandleSlot
  <1>4. S \subseteq Nat
    BY <1>3
  <1>5. PICK j \in S : \A k \in S : ~(<<k, j>> \in R)
    BY <1>1, <1>4, WFMin
  <1>6. \A k \in S : ~(k < j)
    BY <1>2, <1>4, <1>5
  <1>7. \A k \in S : j <= k
    BY <1>4, <1>6
  <1> QED
    BY <1>7

LEMMA RegisteredIsDelivered == TypeOK /\ ReportedIsRegistered => ReportedIsDelivered
  <1> SUFFICES ASSUME TypeOK, ReportedIsRegistered,
                      NEW r \in reported, r[2] # NoHandler
               PROVE  \E h \in Handler : /\ _deliver_message(r[1]) = {h}
                                         /\ IsRegistered(r[1], h)
    BY DEF ReportedIsDelivered
  <1> DEFINE S == {i \in UsedHandles : /\ sub_handles[i].topic = r[1]
                                       /\ sub_handles[i].handler # NoHandler}
  <1>1. S # {} /\ S \subseteq HandleSlot
    BY DEF ReportedIsRegistered, IsRegistered, UsedHandles
  <1>2. PICK j \in S : \A k \in S : j <= k
    <2> HIDE DEF S
    <2> QED
      BY <1>1, FirstSlot
  <1>3. HandleSlot \subseteq Int
    BY DEF HandleSlot
  <1>4. \A k \in UsedHandles : k < j => k \notin S
    <2> TAKE k \in UsedHandles
    <2>1. j \in Int /\ k \in Int
      BY <1>1, <1>3 DEF UsedHandles
    <2>2. k \in S => j <= k
      BY <1>2
    <2> QED
      BY <2>1, <2>2
  <1>5. \A i \in UsedHandles :
          (/\ sub_handles[i].topic = r[1]
           /\ sub_handles[i].handler # NoHandler
           /\ \A k \in UsedHandles :
                k < i => \/ sub_handles[k].topic # r[1]
                         \/ sub_handles[k].handler = NoHandler)
          <=> i = j
    <2> TAKE i \in UsedHandles
    <2>1. i \in Int /\ j \in Int /\ j \in UsedHandles
      BY <1>3 DEF UsedHandles
    <2>2. CASE i = j
      BY <1>4, <2>2
    <2>3. CASE i # j
      <3>1. i \in S => j < i
        BY <1>2, <2>1, <2>3
      <3> QED
        BY <2>1, <2>3, <3>1
    <2> QED
      BY <2>2, <2>3
  <1>6. _deliver_message(r[1]) = {sub_handles[j].handler}
    BY <1>5 DEF _deliver_message
  <1>7. sub_handles[j].handler \in Handler
    BY <1>1 DEF TypeOK, SubTopicHandle, Callback
  <1> QED
    BY <1>6, <1>7 DEF IsRegistered

(* While no filter with a wildcard is used, a message for a filter the     *)
(* application was told of reaches exactly one callback registered for it, *)
(* whatever the array of callbacks looks like.                             *)
THEOREM ReportedGetsItsMessages ==
  ASSUME WildTopic = {}
  PROVE  Spec => []ReportedIsDelivered
  BY ReportedStaysRegistered, TypeCorrect, RegisteredIsDelivered, PTL

(***************************************************************************)
(* No subscribe or unsubscribe is forgotten, provided the array of         *)
(* callbacks has room for all there is to register.  An answer under way   *)
(* is one to the request the application knows under its id, if any.       *)
(***************************************************************************)

ArrayHasRoom ==
  /\ IsFiniteSet(Topic \X Callback)
  /\ Cardinality(Topic \X Callback) <= MAX_SUB_TOPICS

AnswersMatch ==
  \A m \in net :
    /\ m.type \in {"SUBACK", "SUBNACK"} => awaiting[m.id] # "UNSUBSCRIBE"
    /\ m.type = "UNSUBACK" => awaiting[m.id] # "SUBSCRIBE"

SubInv == TypeOK /\ HandlesDistinct /\ AnswersMatch /\ SubscribeNotForgotten

(* A full array of different entries has an entry for every filter and     *)
(* callback.                                                               *)
LEMMA NoRoomOnlyIfRegistered ==
  ASSUME TypeOK, HandlesDistinct, ArrayHasRoom, UsedHandles = HandleSlot,
         NEW t \in Topic, NEW h \in Callback
  PROVE  IsRegistered(t, h)
  <1> DEFINE P == Topic \X Callback
             f == [i \in HandleSlot |-> <<sub_handles[i].topic, sub_handles[i].handler>>]
  <1>1. \A i \in HandleSlot : /\ sub_handles[i] \in SubTopicHandle
                              /\ sub_handles[i].topic \in Topic
                              /\ sub_handles[i].handler \in Callback
    BY DEF TypeOK, UsedHandles, SubTopicHandle
  <1>2. f \in [HandleSlot -> P]
    BY <1>1
  <1>3. \A i, j \in HandleSlot : i # j => f[i] # f[j]
    <2> TAKE i, j \in HandleSlot
    <2>1. f[i] = f[j] => sub_handles[i] = sub_handles[j]
      BY <1>1 DEF SubTopicHandle
    <2> QED
      BY <2>1 DEF HandlesDistinct
  <1>4. f \in Injection(HandleSlot, P)
    BY <1>2, <1>3 DEF Injection, IsInjective
  <1>5. Cardinality(HandleSlot) = MAX_SUB_TOPICS
    BY FS_Interval, ConstantsAssumption DEF HandleSlot
  <1> HIDE DEF f, P
  <1>6. /\ Cardinality(HandleSlot) <= Cardinality(P)
        /\ Cardinality(HandleSlot) = Cardinality(P) <=> f \in Surjection(HandleSlot, P)
        /\ IsFiniteSet(HandleSlot)
    BY <1>4, FS_Injection DEF ArrayHasRoom, P
  <1>7. Cardinality(P) \in Nat /\ Cardinality(HandleSlot) \in Nat
    BY <1>6, FS_CardinalityType DEF ArrayHasRoom, P
  <1>8. f \in Surjection(HandleSlot, P)
    BY <1>5, <1>6, <1>7, ConstantsAssumption DEF ArrayHasRoom, P
  <1>9. <<t, h>> \in P
    BY DEF P
  <1>10. PICK i \in HandleSlot : f[i] = <<t, h>>
    BY <1>8, <1>9 DEF Surjection
  <1>11. sub_handles[i].topic = t /\ sub_handles[i].handler = h
    BY <1>10 DEF f
  <1> QED
    BY <1>11 DEF IsRegistered

(* A step that keeps the waiting nodes and makes no new request known.     *)
LEMMA SubscribeKept ==
  ASSUME SubscribeNotForgotten,
         Waiting(list_sub_wait_ack) \subseteq Waiting(list_sub_wait_ack'),
         \A id \in PacketId :
           awaiting'[id] \in {"SUBSCRIBE", "UNSUBSCRIBE"} => awaiting'[id] = awaiting[id]
  PROVE  SubscribeNotForgotten'
  BY DEF SubscribeNotForgotten

(* A new request: its node waits under an id that nothing under way has.   *)
LEMMA NewRequest ==
  ASSUME SubInv, NEW id \in get_next_packet_id, NEW kind \in {"SUBSCRIBE", "UNSUBSCRIBE"},
         NEW t, NEW h, push_sub_info_to(id, kind, t, h),
         \A m \in net' : m \in net \/ (m.id = id /\ m.type # "PUBLISH"
                          /\ (m.type \in {"SUBACK", "SUBNACK"} => kind = "SUBSCRIBE")
                          /\ (m.type = "UNSUBACK" => kind = "UNSUBSCRIBE"))
  PROVE  SubscribeNotForgotten' /\ AnswersMatch'
  <1> DEFINE new == [id |-> id, type |-> kind, topic |-> t, handler |-> h,
                     state |-> "NORMAL"]
  <1>1. /\ list_sub_wait_ack' = list_sub_wait_ack \cup {new}
        /\ awaiting' = [awaiting EXCEPT ![id] = kind]
    BY DEF push_sub_info_to
  <1>2. id \in PacketId /\ \A m \in net : m.type # "PUBLISH" => m.id # id
    BY DEF get_next_packet_id, InUse
  <1>3. awaiting \in [PacketId -> Request \cup {"nothing"}] /\ net \subseteq Packet
    BY DEF SubInv, TypeOK
  <1>4. /\ Waiting(list_sub_wait_ack) \subseteq Waiting(list_sub_wait_ack')
        /\ new \in Waiting(list_sub_wait_ack')
    BY <1>1 DEF Waiting
  <1>5. SubscribeNotForgotten'
    <2> SUFFICES ASSUME NEW i \in PacketId, awaiting'[i] \in {"SUBSCRIBE", "UNSUBSCRIBE"}
                 PROVE  \E n \in Waiting(list_sub_wait_ack') : n.id = i /\ n.type = awaiting'[i]
      BY DEF SubscribeNotForgotten
    <2>1. CASE i = id
      BY <1>1, <1>2, <1>3, <1>4, <2>1
    <2>2. CASE i # id
      BY <1>1, <1>3, <1>4, <2>2 DEF SubInv, SubscribeNotForgotten
    <2> QED
      BY <2>1, <2>2
  <1>6. AnswersMatch'
    <2> SUFFICES ASSUME NEW m \in net'
                 PROVE  /\ m.type \in {"SUBACK", "SUBNACK"} => awaiting'[m.id] # "UNSUBSCRIBE"
                        /\ m.type = "UNSUBACK" => awaiting'[m.id] # "SUBSCRIBE"
      BY DEF AnswersMatch
    <2>1. CASE m \in net
      <3>1. m.type # "PUBLISH" => m.id # id /\ m.id \in PacketId
        BY <1>2, <1>3, <2>1 DEF Packet
      <3> QED
        BY <1>1, <1>3, <2>1, <3>1 DEF SubInv, AnswersMatch
    <2>2. CASE m \notin net
      BY <1>1, <1>2, <1>3, <2>2
    <2> QED
      BY <2>1, <2>2
  <1> QED
    BY <1>5, <1>6

(* No new answer, and no new request of these kinds.                       *)
LEMMA AnswersKept ==
  ASSUME TypeOK, AnswersMatch,
         \A m \in net' : m.type \in {"SUBACK", "SUBNACK", "UNSUBACK"} => m \in net,
         \A id \in PacketId :
           awaiting'[id] \in {"SUBSCRIBE", "UNSUBSCRIBE"} => awaiting'[id] = awaiting[id]
  PROVE  AnswersMatch'
  <1> SUFFICES ASSUME NEW m \in net', m.type \in {"SUBACK", "SUBNACK", "UNSUBACK"}
               PROVE  /\ m.type \in {"SUBACK", "SUBNACK"} => awaiting'[m.id] # "UNSUBSCRIBE"
                      /\ m.type = "UNSUBACK" => awaiting'[m.id] # "SUBSCRIBE"
    BY DEF AnswersMatch
  <1>1. m \in net /\ m.id \in PacketId
    BY DEF TypeOK, Packet
  <1> QED
    BY <1>1 DEF AnswersMatch

LEMMA SendSubscribeRemembered ==
  ASSUME SubInv, NEW t, NEW h, SendSubscribe(t, h)
  PROVE  SubscribeNotForgotten' /\ AnswersMatch'
  <1>1. PICK id \in get_next_packet_id :
          push_sub_info_to(id, "SUBSCRIBE", t, h) /\ BrokerOnSubscribe(id, t)
    BY DEF SendSubscribe
  <1>2. \A m \in net' : m \in net \/ (m.id = id /\ m.type \in {"SUBACK", "SUBNACK"})
    BY <1>1 DEF BrokerOnSubscribe, BrokerSends
  <1> QED
    BY <1>1, <1>2, NewRequest

LEMMA ReadRemembered ==
  ASSUME SubInv, ArrayHasRoom, cycle_for_read
  PROVE  SubscribeNotForgotten' /\ AnswersMatch'
  <1>0. TypeOK
    BY DEF SubInv
  <1>1. CASE ReadNothing
    BY <1>1, SubscribeKept, AnswersKept DEF SubInv, ReadNothing
  <1> SUFFICES ASSUME NEW m \in net, net' = net \ {m},
                      \/ _handle_puback_packet(m)
                      \/ _handle_suback_packet(m)
                      \/ _handle_unsuback_packet(m)
                      \/ _handle_publish_packet(m)
               PROVE  SubscribeNotForgotten' /\ AnswersMatch'
    BY <1>1 DEF cycle_for_read
  <1>2. \A id \in PacketId :
          awaiting'[id] \in {"SUBSCRIBE", "UNSUBSCRIBE"} => awaiting'[id] = awaiting[id]
    BY <1>0 DEF TypeOK, _handle_puback_packet, _handle_suback_packet,
             _handle_unsuback_packet, _handle_publish_packet, Answered
  <1>3. AnswersMatch'
    BY <1>0, <1>2, AnswersKept DEF SubInv
  <1>4. CASE _handle_puback_packet(m) \/ _handle_publish_packet(m)
    BY <1>2, <1>3, <1>4, SubscribeKept
    DEF SubInv, _handle_puback_packet, _handle_publish_packet
  \* Every request of the id has been told of, or there is no node.
  <1>5. ASSUME m.id \in PacketId,
               list_sub_wait_ack' = Invalidate(list_sub_wait_ack, m.id),
               awaiting'[m.id] \notin {"SUBSCRIBE", "UNSUBSCRIBE"}
        PROVE  SubscribeNotForgotten'
    <2> SUFFICES ASSUME NEW id \in PacketId, awaiting'[id] \in {"SUBSCRIBE", "UNSUBSCRIBE"}
                 PROVE  \E n \in Waiting(list_sub_wait_ack') : n.id = id /\ n.type = awaiting'[id]
      BY DEF SubscribeNotForgotten
    <2>1. PICK n \in Waiting(list_sub_wait_ack) : n.id = id /\ n.type = awaiting[id]
      BY <1>2 DEF SubInv, SubscribeNotForgotten
    <2>2. n \in Waiting(Invalidate(list_sub_wait_ack, m.id))
      BY <1>5, <2>1, InvalidateOthers
    <2> QED
      BY <1>2, <1>5, <2>1, <2>2
  <1>6. CASE _handle_unsuback_packet(m)
    <2>1. m.id \in PacketId /\ awaiting[m.id] # "SUBSCRIBE"
      BY <1>0, <1>6 DEF SubInv, TypeOK, AnswersMatch, _handle_unsuback_packet, Packet
    <2>2. awaiting'[m.id] \notin {"SUBSCRIBE", "UNSUBSCRIBE"}
      BY <1>0, <1>6, <2>1 DEF TypeOK, _handle_unsuback_packet, Answered
    <2> QED
      BY <1>3, <1>5, <1>6, <2>1, <2>2 DEF _handle_unsuback_packet
  <1>7. CASE _handle_suback_packet(m)
    <2>1. m.id \in PacketId /\ awaiting[m.id] # "UNSUBSCRIBE"
      BY <1>0, <1>7 DEF SubInv, TypeOK, AnswersMatch, _handle_suback_packet, Packet
    <2>2. CASE NodesOf(list_sub_wait_ack, m.id) = {} /\ UNCHANGED awaiting
      <3>1. awaiting[m.id] # "SUBSCRIBE"
        BY <2>1, <2>2 DEF SubInv, SubscribeNotForgotten, NodesOf, Waiting
      <3> QED
        BY <1>3, <1>5, <1>7, <2>1, <2>2, <3>1 DEF _handle_suback_packet
    <2>3. CASE Answered(m.id, "SUBSCRIBE")
      <3>1. awaiting'[m.id] \notin {"SUBSCRIBE", "UNSUBSCRIBE"}
        BY <1>0, <2>1, <2>3 DEF TypeOK, Answered
      <3> QED
        BY <1>3, <1>5, <1>7, <2>1, <3>1 DEF _handle_suback_packet
    <2>4. ASSUME NEW n \in NodesOf(list_sub_wait_ack, m.id),
                 ~IsRegistered(n.topic, n.handler), UsedHandles = HandleSlot
          PROVE  FALSE
      <3>1. n.topic \in Topic /\ n.handler \in Callback
        BY <1>0 DEF TypeOK, NodesOf, SubNode
      <3> QED
        BY <2>4, <3>1, NoRoomOnlyIfRegistered DEF SubInv
    <2> QED
      BY <1>7, <2>2, <2>3, <2>4 DEF _handle_suback_packet
  <1> QED
    BY <1>3, <1>4, <1>6, <1>7

LEMMA SubInvNext ==
  ASSUME ArrayHasRoom
  PROVE  SubInv /\ [Next]_vars => SubInv'
  <1> SUFFICES ASSUME SubInv, [Next]_vars PROVE SubInv'
    OBVIOUS
  <1>0. TypeOK /\ TypeOK' /\ HandlesDistinct'
    BY TypeNext, DistinctNext DEF SubInv
  <1> SUFFICES SubscribeNotForgotten' /\ AnswersMatch'
    BY <1>0 DEF SubInv
  <1> USE DEF SubInv
  <1>1. CASE uiot_mqtt_publish
    <2>1. PICK id \in get_next_packet_id :
            awaiting' = [awaiting EXCEPT ![id] = "PUBLISH"] /\ BrokerOnPublish(id)
      BY <1>1 DEF uiot_mqtt_publish, _mask_push_pubInfo_to
    <2>2. \A i \in PacketId :
            awaiting'[i] \in {"SUBSCRIBE", "UNSUBSCRIBE"} => awaiting'[i] = awaiting[i]
      BY <1>0, <2>1 DEF TypeOK, get_next_packet_id
    <2>3. \A m \in net' : m.type \in {"SUBACK", "SUBNACK", "UNSUBACK"} => m \in net
      BY <2>1 DEF BrokerOnPublish, BrokerSends
    <2> QED
      BY <1>0, <1>1, <2>2, <2>3, SubscribeKept, AnswersKept DEF uiot_mqtt_publish
  <1>2. ASSUME NEW t \in Topic, NEW h \in Callback, uiot_mqtt_subscribe(t, h)
        PROVE  SubscribeNotForgotten' /\ AnswersMatch'
    BY <1>2, SendSubscribeRemembered DEF uiot_mqtt_subscribe
  <1>3. ASSUME NEW t \in Topic, uiot_mqtt_unsubscribe(t)
        PROVE  SubscribeNotForgotten' /\ AnswersMatch'
    <2>1. CASE UNCHANGED <<list_sub_wait_ack, awaiting, net>>
      BY <1>0, <2>1, SubscribeKept, AnswersKept
    <2>2. ASSUME NEW id \in get_next_packet_id,
                 push_sub_info_to(id, "UNSUBSCRIBE", t, NoHandler),
                 BrokerOnUnsubscribe(id, t)
          PROVE  SubscribeNotForgotten' /\ AnswersMatch'
      <3>1. \A m \in net' : m \in net \/ (m.id = id /\ m.type = "UNSUBACK")
        BY <2>2 DEF BrokerOnUnsubscribe, BrokerSends
      <3> QED
        BY <2>2, <3>1, NewRequest
    <2> QED
      BY <1>3, <2>1, <2>2 DEF uiot_mqtt_unsubscribe
  <1>4. CASE cycle_for_read
    BY <1>4, ReadRemembered
  <1>5. CASE uiot_mqtt_pub_info_proc
    <2>1. \A i \in PacketId :
            awaiting'[i] \in {"SUBSCRIBE", "UNSUBSCRIBE"} => awaiting'[i] = awaiting[i]
      BY <1>5 DEF uiot_mqtt_pub_info_proc, TimedOut
    <2> QED
      BY <1>0, <1>5, <2>1, SubscribeKept, AnswersKept DEF uiot_mqtt_pub_info_proc
  <1>6. CASE uiot_mqtt_sub_info_proc
    <2>1. PICK expired \in SUBSET Waiting(list_sub_wait_ack) :
            /\ list_sub_wait_ack' = Kept(list_sub_wait_ack, expired)
            /\ TimedOut(expired, {"SUBSCRIBE", "UNSUBSCRIBE"})
      BY <1>6 DEF uiot_mqtt_sub_info_proc
    <2>2. \A i \in PacketId :
            awaiting'[i] \in {"SUBSCRIBE", "UNSUBSCRIBE"} =>
              awaiting'[i] = awaiting[i] /\ NodesOf(expired, i) = {}
      BY <2>1 DEF TimedOut
    <2>3. AnswersMatch'
      BY <1>0, <1>6, <2>2, AnswersKept DEF uiot_mqtt_sub_info_proc
    <2>4. ASSUME NEW i \in PacketId, awaiting'[i] \in {"SUBSCRIBE", "UNSUBSCRIBE"}
          PROVE  \E n \in Waiting(list_sub_wait_ack') : n.id = i /\ n.type = awaiting'[i]
      <3>1. PICK n \in Waiting(list_sub_wait_ack) : n.id = i /\ n.type = awaiting[i]
        BY <2>2, <2>4 DEF SubscribeNotForgotten
      <3>2. n \notin expired
        BY <2>2, <2>4, <3>1 DEF NodesOf
      <3> QED
        BY <2>1, <2>2, <2>4, <3>1, <3>2 DEF Kept, Waiting
    <2> QED
      BY <2>3, <2>4 DEF SubscribeNotForgotten
  <1>7. CASE uiot_mqtt_resubscribe
    <2>1. CASE UNCHANGED <<list_sub_wait_ack, awaiting, net>>
      BY <1>0, <2>1, SubscribeKept, AnswersKept
    <2>2. ASSUME SendSubscribe(sub_handles[itr].topic, sub_handles[itr].handler)
          PROVE  SubscribeNotForgotten' /\ AnswersMatch'
      BY <2>2, SendSubscribeRemembered
    <2> QED
      BY <1>7, <2>1, <2>2
      DEF uiot_mqtt_resubscribe, ResubscribeNext, ResubscribeSkip, ResubscribeDone
  <1>8. CASE _mqtt_keep_alive \/ _handle_disconnect \/ uiot_mqtt_attempt_reconnect
    BY <1>0, <1>8, SubscribeKept, AnswersKept
    DEF _mqtt_keep_alive, _handle_disconnect, uiot_mqtt_attempt_reconnect, appVars
  <1>9. ASSUME NEW t \in Topic, BrokerPublishes(t)
        PROVE  SubscribeNotForgotten' /\ AnswersMatch'
    <2>1. \A m \in net' : m.type \in {"SUBACK", "SUBNACK", "UNSUBACK"} => m \in net
      BY <1>9 DEF BrokerPublishes, BrokerSends
    <2>2. UNCHANGED <<list_sub_wait_ack, awaiting>>
      BY <1>9 DEF BrokerPublishes, clientVars, appVars
    <2> QED
      BY <1>0, <2>1, <2>2, SubscribeKept, AnswersKept
  <1>10. CASE UNCHANGED vars
    BY <1>0, <1>10, SubscribeKept, AnswersKept DEF vars, clientVars, appVars
  <1> QED
    BY <1>1, <1>2, <1>3, <1>4, <1>5, <1>6, <1>7, <1>8, <1>9, <1>10
    DEF Next, Api, Yield

(* A subscribe or unsubscribe the application knows of keeps its waiting   *)
(* node until the application has been told what became of it, as long as  *)
(* it uses no more filters and callbacks than the array has entries: with  *)
(* more, _handle_suback_packet gives up an answered request without a word. *)
THEOREM SubscribesRemembered ==
  ASSUME ArrayHasRoom
  PROVE  Spec => []SubscribeNotForgotten
  <1>1. Init => SubInv
    BY TypeInit DEF Init, SubInv, HandlesDistinct, UsedHandles, AnswersMatch,
                    SubscribeNotForgotten
  <1>2. SubInv => SubscribeNotForgotten
    BY DEF SubInv
  <1>3. SubInv /\ [Next]_vars => SubInv'
    BY SubInvNext
  <1> QED
    BY <1>1, <1>2, <1>3, PTL DEF Spec
=============================================================================
