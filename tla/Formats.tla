------------------------------ MODULE Formats ------------------------------
(***************************************************************************)
(* What MqttPacket and DmPayload compute against what MQTT and the JSON of *)
(* a report ask for.  A behaviour takes one input after the other: kind    *)
(* says which algorithm the input is for.                                  *)
(***************************************************************************)
EXTENDS MqttPacket, DmPayload

CONSTANTS
  Rem, BufSize,     \* remaining lengths of packets, sizes of read buffers
  Level, MaxLevels, \* levels of topics, each a sequence of characters
  Reports           \* sequences of properties

VARIABLES kind, input

----------------------------------------------------------------------------
(* A packet as MQTT has it. *)

MaxRemLen == 268435455   \* 128^4 - 1, what four digits to the base 128 say

Place == <<1, 128, 16384, 2097152>>   \* powers of 128

Digits(length) == CHOOSE n \in 1..4 : /\ n = 4 \/ length < Place[n + 1]
                                      /\ n = 1 \/ length >= Place[n]

(* The digits of length to the base 128, the lowest first, and a mark on   *)
(* all but the last.                                                       *)
LengthField(length) ==
  [i \in 1..Digits(length) |->
     ((length \div Place[i]) % 128) + (IF i < Digits(length) THEN 128 ELSE 0)]

Packet(rem_len) == <<48>> \o LengthField(rem_len) \o [i \in 1..rem_len |-> i]
NextPacket      == <<208, 0>>

----------------------------------------------------------------------------
(* Topics and filters as MQTT has them. *)

Joined(texts, separator) ==
  FlattenSeq([i \in 1..Len(texts) |-> (IF i = 1 THEN <<>> ELSE separator) \o texts[i]])

Plus == <<"+">>
Hash == <<"#">>

SequencesOf(S, n) == UNION {[1..k -> S] : k \in 1..n}

(* A topic as its levels; a filter may have wildcards, and is as a topic   *)
(* not empty.                                                              *)
Topics  == SequencesOf(Level, MaxLevels) \ {<< <<>> >>}
Filters == LET plain == SequencesOf(Level \cup {Plus}, MaxLevels)
           IN  (plain \ {<< <<>> >>}) \cup {Append(f, Hash) : f \in plain \cup {<<>>}}

Written(levels) == Joined(levels, <<"/">>)

Matches(filter, topic) ==
  LET n == Len(filter)
      Fits(i) == filter[i] \in {Plus, topic[i]}
  IN  IF filter[n] = Hash
      THEN Len(topic) >= n - 1 /\ \A i \in 1..(n - 1) : Fits(i)
      ELSE Len(topic) = n /\ \A i \in 1..n : Fits(i)

----------------------------------------------------------------------------
(* Properties, and their JSON. *)

Key == STRING \cup {NULL}

NodeProperty   == [parse_type : {"NODE"}, key : Key, value : Seq(STRING)]
StructProperty == [parse_type : {"STRUCT"}, key : Key, value : Seq(NodeProperty) \ {<<>>}]
ArrayProperty  ==
  [parse_type : {"ARRAY_BASE"}, key : Key, value : Seq(NodeProperty) \ {<<>>}]
  \cup [parse_type : {"ARRAY_STRUCT"}, key : Key, value : Seq(StructProperty) \ {<<>>}]

Property == NodeProperty \cup StructProperty \cup ArrayProperty

Keyed(key, value_key, text) ==
  IF key = NULL THEN text
  ELSE IF value_key THEN <<key, "{", "Value">> \o text \o <<"}">>
  ELSE <<key>> \o text

NodeText(p, value_key) == Keyed(p.key, value_key, p.value)

StructText(p, value_key) ==
  Keyed(p.key, value_key,
        <<"{">> \o Joined([i \in 1..Len(p.value) |-> NodeText(p.value[i], FALSE)], <<",">>)
        \o <<"}">>)

ArrayText(p, value_key) ==
  LET Member(m) == IF p.parse_type = "ARRAY_BASE" THEN NodeText(m, FALSE) ELSE StructText(m, FALSE)
  IN  Keyed(p.key, value_key,
            <<"[">> \o Joined([i \in 1..Len(p.value) |-> Member(p.value[i])], <<",">>) \o <<"]">>)

Text(p, value_key) ==
  CASE p.parse_type = "NODE"   -> NodeText(p, value_key)
    [] p.parse_type = "STRUCT" -> StructText(p, value_key)
    [] p.parse_type \in {"ARRAY_BASE", "ARRAY_STRUCT"} -> ArrayText(p, value_key)

PropertyTypes == {"PROPERTY_POST", "PROPERTY_DESIRED_GET", "PROPERTY_DESIRED_DELETE"}
Types == PropertyTypes \cup {"EVENT_POST", "COMMAND"}

PartOf(type, p) ==
  CASE type = "PROPERTY_POST"           -> Text(p, TRUE)
    [] type = "PROPERTY_DESIRED_GET"    -> <<p.key>>
    [] type = "PROPERTY_DESIRED_DELETE" -> <<p.key, "{", "version", "}">>
    [] type \in {"EVENT_POST", "COMMAND"} -> Text(p, FALSE)

Parts(type, properties) == [i \in 1..Len(properties) |-> PartOf(type, properties[i])]

Before(type) ==
  CASE type = "PROPERTY_POST"           -> <<"RequestID", "Property", "{">>
    [] type = "PROPERTY_DESIRED_GET"    -> <<"RequestID", "Require", "[">>
    [] type = "PROPERTY_DESIRED_DELETE" -> <<"RequestID", "Delete", "{">>
    [] type = "EVENT_POST" -> <<"RequestID", "Identifier", "id", "Output", "{">>
    [] type = "COMMAND"    -> <<"RequestID", "RetCode", "Identifier", "id", "Output", "{">>

Behind(type) == IF type = "PROPERTY_DESIRED_GET" THEN <<"]", "}">> ELSE <<"}", "}">>

(* The message that reports properties in whole.                           *)
Whole(type, properties) ==
  Before(type) \o Joined(Parts(type, properties), <<",">>) \o Behind(type)

Published(type, properties) ==
  CASE type = "EVENT_POST" ->
         dm_mqtt_event_publish_Ex([event_identy |-> "id", properties |-> properties])
    [] type = "COMMAND" -> dm_mqtt_command_cb("id", properties)
    [] type \in PropertyTypes -> dm_mqtt_property_report_publish_Ex(type, properties)

----------------------------------------------------------------------------
ASSUME FormatsAssumption ==
  /\ Rem \subseteq 0..MaxRemLen
  /\ BufSize \subseteq Nat \ {0, 1}   \* room for the shortest packet
  /\ Level \subseteq Seq(STRING)
  /\ \A l \in Level : \A i \in 1..Len(l) : l[i] \notin {"/", "+", "#"}
  /\ MaxLevels \in Nat
  /\ DM_MSG_REPORT_BUF_LEN \in Nat \ {0}
  /\ Reports \subseteq Seq(Property) \ {<<>>}

InputInit == kind = "none" /\ input = <<>>

Take(k, i) == kind' = k /\ input' = i

TakePacket == kind = "none" /\ \E r \in Rem, s \in BufSize :
                Take("packet", [rem_len |-> r, size |-> s])
TakeTopic  == kind = "none" /\ \E f \in Filters, t \in Topics :
                Take("topic", [filter |-> f, topic |-> t])
TakeReport == kind = "none" /\ \E t \in Types, r \in Reports :
                Take("report", [type |-> t, properties |-> r])
Back       == kind # "none" /\ kind' = "none" /\ input' = <<>>

InputNext == TakePacket \/ TakeTopic \/ TakeReport \/ Back

Inputs == InputInit /\ [][InputNext]_<<kind, input>>

----------------------------------------------------------------------------
(* A packet that arrives in time is read to its end and no further, be it  *)
(* kept or, for want of room, dropped: the next read starts with the next  *)
(* packet.  It is kept exactly if it fits, byte for byte; and the length a *)
(* packet to be sent is checked with is never below its real one.          *)
FramesKept ==
  kind = "packet" =>
    LET packet == Packet(input.rem_len)
        read   == _read_mqtt_packet(packet \o NextPacket, input.size)
    IN  /\ read.left = NextPacket
        /\ read.ret = IF Len(packet) <= input.size THEN "SUCCESS" ELSE "BUFFER_TOO_SHORT"
        /\ read.ret = "SUCCESS" => read.buf = packet
        /\ get_mqtt_packet_len(input.rem_len) - Len(packet) \in {0, 1}

(* No message is kept from the handler of a filter it matches by the rules *)
(* of MQTT, and a filter without wildcards takes no other topic.           *)
TopicsMatch ==
  kind = "topic" =>
    LET filter == Written(input.filter)
        topic  == Written(input.topic)
    IN  /\ Matches(input.filter, input.topic) => _is_topic_matched(filter, topic)
        /\ (\A i \in 1..Len(input.filter) : input.filter[i] \notin {Plus, Hash}) =>
             (_is_topic_matched(filter, topic) <=> _is_topic_equals(filter, topic))

(* What the device model publishes is the whole of what the application    *)
(* reports, however little room its parts leave in their buffers; what     *)
(* fits is published.  Only a command reply of exactly one character too   *)
(* many goes out without its last one (dm_mqtt.c:456).                     *)
PublishedIsWhole ==
  kind = "report" =>
    LET whole     == Whole(input.type, input.properties)
        published == Published(input.type, input.properties)
        OneShort  == input.type = "COMMAND" /\ Len(whole) = DM_MSG_REPORT_BUF_LEN
    IN  /\ published.ok <=> Len(whole) < DM_MSG_REPORT_BUF_LEN \/ OneShort
        /\ published.ok => published.text = IF OneShort THEN Front(whole) ELSE whole
=============================================================================
