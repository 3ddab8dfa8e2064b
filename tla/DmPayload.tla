----------------------------- MODULE DmPayload -----------------------------
(***************************************************************************)
(* How the device model (src/dev_model/src/dm_mqtt.c) writes properties    *)
(* and events as JSON into buffers of a fixed length.                      *)
(*                                                                         *)
(* A text is a sequence of tokens of length one; a node, a struct or an    *)
(* array without a key has the key NULL, and at least one member.  Every   *)
(* generator returns whether it succeeds, and the text.                    *)
(***************************************************************************)
EXTENDS Integers, Sequences, SequencesExt

CONSTANTS NULL, DM_MSG_REPORT_BUF_LEN   \* as DM_EVENT_POST_BUF_LEN, DM_CMD_REPLY_BUF_LEN

Failure == [ok |-> FALSE, text |-> <<>>]
Success(text) == [ok |-> TRUE, text |-> text]

(* HAL_Snprintf at the end of what is written, with size places left.      *)
HAL_Snprintf(written, size, text) ==
  written \o SubSeq(text, 1, IF size - 1 < Len(text) THEN size - 1 ELSE Len(text))

(* The key and what it opens; what closes it.                              *)
Opening(key, value_key) ==
  IF key = NULL THEN <<>>
  ELSE IF value_key THEN <<key, "{", "Value">> ELSE <<key>>

Closing(key, value_key) == IF key # NULL /\ value_key THEN <<"}">> ELSE <<>>

dm_gen_node_payload(node, value_key) ==
  LET text == Opening(node.key, value_key) \o node.value \o Closing(node.key, value_key)
  IN  IF Len(text) >= DM_MSG_REPORT_BUF_LEN THEN Failure ELSE Success(text)

(* Pieces written one after the other, each with the place the pieces      *)
(* before have left.  A piece that finds none is written past the end of   *)
(* the buffer: the whole is refused then.                                  *)
Put(out, piece) ==
  [text        |-> HAL_Snprintf(out.text, out.remain_size, piece),
   remain_size |-> out.remain_size - Len(piece)]

(* The text and remain_size after each piece.                              *)
PutAll(pieces) ==
  LET out[i \in 0..Len(pieces)] ==
        IF i = 0 THEN [text |-> <<>>, remain_size |-> DM_MSG_REPORT_BUF_LEN]
        ELSE Put(out[i - 1], pieces[i])
  IN  out

Pieces(pieces) ==
  LET out == PutAll(pieces)[Len(pieces)]
  IN  IF out.remain_size < 0 THEN Failure ELSE Success(out.text)

(* Members between brackets, as struct and arrays are written: a single    *)
(* member at once, and nobody looks whether it fits.                       *)
Members(open, members, close) ==
  LET n == Len(members)
      Piece(i) == (IF i = 1 THEN open ELSE <<",">>) \o members[i].text
                  \o (IF i = n THEN close ELSE <<>>)
  IN  IF \E i \in 1..n : ~members[i].ok THEN Failure
      ELSE IF n = 1 THEN Success(HAL_Snprintf(<<>>, DM_MSG_REPORT_BUF_LEN, Piece(1)))
      ELSE Pieces([i \in 1..n |-> Piece(i)])

dm_gen_struct_payload(dm_struct, value_key) ==
  Members(Opening(dm_struct.key, value_key) \o <<"{">>,
          [i \in DOMAIN dm_struct.value |-> dm_gen_node_payload(dm_struct.value[i], FALSE)],
          <<"}">> \o Closing(dm_struct.key, value_key))

dm_gen_array_base_payload(dm_array, value_key) ==
  Members(Opening(dm_array.key, value_key) \o <<"[">>,
          [i \in DOMAIN dm_array.value |-> dm_gen_node_payload(dm_array.value[i], FALSE)],
          <<"]">> \o Closing(dm_array.key, value_key))

dm_gen_array_struct_payload(dm_array, value_key) ==
  Members(Opening(dm_array.key, value_key) \o <<"[">>,
          [i \in DOMAIN dm_array.value |-> dm_gen_struct_payload(dm_array.value[i], FALSE)],
          <<"]">> \o Closing(dm_array.key, value_key))

dm_gen_property_post_payload(property, value_key) ==
  CASE property.parse_type = "NODE"         -> dm_gen_node_payload(property, value_key)
    [] property.parse_type = "STRUCT"       -> dm_gen_struct_payload(property, value_key)
    [] property.parse_type = "ARRAY_BASE"   -> dm_gen_array_base_payload(property, value_key)
    [] property.parse_type = "ARRAY_STRUCT" -> dm_gen_array_struct_payload(property, value_key)

(* Nobody looks whether these fit.                                         *)
dm_gen_property_desired_payload(property) ==
  Success(HAL_Snprintf(<<>>, DM_MSG_REPORT_BUF_LEN, <<property.key>>))

dm_gen_property_delete_payload(property) ==
  Success(HAL_Snprintf(<<>>, DM_MSG_REPORT_BUF_LEN, <<property.key, "{", "version", "}">>))

dm_gen_properties_payload(properties, type, value_key) ==
  LET One(p) == CASE type = "PROPERTY_POST" -> dm_gen_property_post_payload(p, value_key)
                  [] type = "PROPERTY_DESIRED_GET" -> dm_gen_property_desired_payload(p)
                  [] type = "PROPERTY_DESIRED_DELETE" -> dm_gen_property_delete_payload(p)
      texts == [i \in DOMAIN properties |-> One(properties[i])]
  IN  IF \E i \in DOMAIN texts : ~texts[i].ok THEN Failure
      ELSE Pieces([i \in DOMAIN texts |->
                     (IF i = 1 THEN <<>> ELSE <<",">>) \o texts[i].text])

(* Faulty variant: a message one character too long is let through.       *)
Message_OneShort(head, payload, tail) ==
  LET text == head \o payload \o tail
  IN  IF Len(text) > DM_MSG_REPORT_BUF_LEN THEN Failure
      ELSE Success(HAL_Snprintf(<<>>, DM_MSG_REPORT_BUF_LEN, text))

(* _dm_mqtt_gen_property_payload and _dm_mqtt_gen_event_payload, then the  *)
(* publish: a message with no room for all of it is refused.               *)
Message(head, payload, tail) ==
  LET text == head \o payload \o tail
  IN  IF Len(text) >= DM_MSG_REPORT_BUF_LEN THEN Failure ELSE Success(text)

HeadOf(type) ==
  CASE type = "PROPERTY_POST"           -> <<"RequestID", "Property", "{">>
    [] type = "PROPERTY_DESIRED_GET"    -> <<"RequestID", "Require", "[">>
    [] type = "PROPERTY_DESIRED_DELETE" -> <<"RequestID", "Delete", "{">>

dm_mqtt_property_report_publish_Ex(type, properties) ==
  LET payload == dm_gen_properties_payload(properties, type, TRUE)
  IN  IF ~payload.ok THEN Failure
      ELSE Message(HeadOf(type), payload.text,
                   IF type = "PROPERTY_DESIRED_GET" THEN <<"]", "}">> ELSE <<"}", "}">>)

dm_mqtt_event_publish_Ex(event) ==
  LET payload == dm_gen_properties_payload(event.properties, "PROPERTY_POST", FALSE)
  IN  IF ~payload.ok THEN Failure
      ELSE Message(<<"RequestID", "Identifier", event.event_identy, "Output", "{">>,
                   payload.text, <<"}", "}">>)

(* The reply dm_mqtt_command_cb sends, output being what the application   *)
(* has made of properties with IOT_DM_GenCommandOutput: here a message     *)
(* one character too long is sent without its last one.                    *)
dm_mqtt_command_cb(identifier, properties) ==
  LET output == dm_gen_properties_payload(properties, "PROPERTY_POST", FALSE)
      text   == <<"RequestID", "RetCode", "Identifier", identifier, "Output", "{">>
                \o output.text \o <<"}", "}">>
  IN  IF ~output.ok \/ Len(text) > DM_MSG_REPORT_BUF_LEN THEN Failure
      ELSE Success(HAL_Snprintf(<<>>, DM_MSG_REPORT_BUF_LEN, text))
=============================================================================
