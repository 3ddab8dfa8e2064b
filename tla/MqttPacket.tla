----------------------------- MODULE MqttPacket -----------------------------
(***************************************************************************)
(* What src/mqtt/src/mqtt_client_common.c does with the bytes of a packet  *)
(* and the characters of a topic.                                          *)
(*                                                                         *)
(* A stream is the sequence of bytes that arrive before the deadline of    *)
(* the read that wants them: a read of n bytes takes n of them, or what    *)
(* there is (HAL_TCP_Read).  A topic is the sequence of its characters.    *)
(***************************************************************************)
EXTENDS Naturals, Sequences, SequencesExt

MAX_NO_OF_REMAINING_LENGTH_BYTES == 4

Read(net, n)  == SubSeq(net, 1, IF n < Len(net) THEN n ELSE Len(net))
Unread(net, n) == SubSeq(net, n + 1, Len(net))

----------------------------------------------------------------------------
(* The remaining length: seven bits a byte, lowest first, the top bit of   *)
(* all but the last set.                                                   *)

mqtt_write_packet_rem_len(length) ==
  LET encoded[n \in 0..length] ==
        IF n < 128 THEN <<n>> ELSE <<128 + (n % 128)>> \o encoded[n \div 128]
  IN  encoded[length]

(* What a packet with rem_len bytes behind its length is taken to need.    *)
get_mqtt_packet_len(rem_len) ==
  LET n == rem_len + 1   \* with the byte of the header
  IN  n + (IF n < 128 THEN 1 ELSE IF n < 16384 THEN 2
           ELSE IF n < 2097151 THEN 3 ELSE 4)

(* Bytes of the length field at the start of a stream; 0 if it has no end  *)
(* within the bytes it may have and the bytes that arrive.                 *)
FieldLen(net) ==
  SelectInSeq(Read(net, MAX_NO_OF_REMAINING_LENGTH_BYTES), LAMBDA b : b < 128)

(* The value and the multiplier, and what a byte b makes of them.          *)
AddByte(so_far, b) ==
  [value      |-> so_far.value + (b % 128) * so_far.multiplier,
   multiplier |-> so_far.multiplier * 128]

Decoded(net) ==
  LET so_far[i \in 0..FieldLen(net)] ==
        IF i = 0 THEN [value |-> 0, multiplier |-> 1] ELSE AddByte(so_far[i - 1], net[i])
  IN  so_far

_decode_packet_rem_len_with_net_read(net) == Decoded(net)[FieldLen(net)].value

(* Faulty variant: the last piece is read as long as the buffer.           *)
NextPiece_Full(missing, read_buf_size) == read_buf_size

NextPiece(missing, read_buf_size) ==
  IF missing >= read_buf_size THEN read_buf_size ELSE missing

(* One more piece of a packet is read away, if anything is missing.        *)
ReadAway(net, rem_len, read_buf_size, total) ==
  IF total >= rem_len THEN total
  ELSE total + Len(Read(Unread(net, total), NextPiece(rem_len - total, read_buf_size)))

(* The pieces of a packet as long as the buffer or longer: all but the     *)
(* last fill it; a shorter one is the end of what arrives.                 *)
PiecesOf(rem_len, read_buf_size) == (rem_len \div read_buf_size) + 1

(* total_bytes_read after each of them.                                    *)
Discarded(net, rem_len, read_buf_size) ==
  LET total_bytes_read[i \in 0..PiecesOf(rem_len, read_buf_size)] ==
        IF i = 0 THEN 0 ELSE ReadAway(net, rem_len, read_buf_size, total_bytes_read[i - 1])
  IN  total_bytes_read[PiecesOf(rem_len, read_buf_size)]

(* The outcome, the contents of read_buf and what stays in the stream.     *)
_read_mqtt_packet(net, read_buf_size) ==
  LET field   == Unread(net, 1)
      rem_len == _decode_packet_rem_len_with_net_read(field)
      header  == Read(net, 1) \o mqtt_write_packet_rem_len(rem_len)
      body    == Unread(field, FieldLen(field))
      Result(ret, buf, left) == [ret |-> ret, buf |-> buf, left |-> left]
  IN  CASE net = <<>> -> Result("NOTHING_TO_READ", <<>>, net)
        [] net # <<>> /\ FieldLen(field) = 0 ->
             Result("READ_ERROR", <<>>,
                    Unread(field, MAX_NO_OF_REMAINING_LENGTH_BYTES))
        [] FieldLen(field) > 0 /\ rem_len >= read_buf_size ->
             Result("BUFFER_TOO_SHORT", <<>>,
                    Unread(body, Discarded(body, rem_len, read_buf_size)))
        [] FieldLen(field) > 0 /\ rem_len < read_buf_size
           /\ rem_len > 0 /\ Len(header) + rem_len > read_buf_size ->
             Result("BUFFER_TOO_SHORT", <<>>, Unread(body, rem_len))
        [] FieldLen(field) > 0 /\ rem_len < read_buf_size
           /\ (rem_len = 0 \/ Len(header) + rem_len <= read_buf_size) ->
             IF rem_len > 0 /\ body = <<>>
             THEN Result("NOTHING_TO_READ", <<>>, body)
             ELSE Result("SUCCESS", header \o Read(body, rem_len),
                         Unread(body, rem_len))

----------------------------------------------------------------------------
(* Topics. *)

_is_topic_equals(topic_filter, topicName) == topic_filter = topicName

(* The place behind the level of topicName that n is in.                   *)
LevelEnd(topicName, n) ==
  LET slash == SelectInSubSeq(topicName, n + 1, Len(topicName), LAMBDA c : c = "/")
  IN  IF slash = 0 THEN Len(topicName) + 1 ELSE slash

(* One turn of the loop from the places f and n of curf and curn: it is    *)
(* left, and the places stay, at an end and where curf and curn differ.    *)
Turn(topic_filter, topicName, at) ==
  LET curf  == topic_filter[at.f]
      curn  == topicName[at.n]
      apart == (curn = "/" /\ curf # "/") \/ curf \notin {"+", "#", curn}
      To(n) == [f |-> at.f + 1, n |-> n]
  IN  IF at.f > Len(topic_filter) \/ at.n > Len(topicName) THEN at
      ELSE IF curf = "+" /\ curn = "/" THEN To(at.n)   \* an empty level
      ELSE IF apart THEN at
      ELSE To(CASE curf = "+" -> LevelEnd(topicName, at.n)
                [] curf = "#" -> Len(topicName) + 1
                [] curf \notin {"+", "#"} -> at.n + 1)

(* The places after each turn, of which there are no more than characters  *)
(* in the filter.                                                          *)
Turns(topic_filter, topicName) ==
  LET at[i \in 0..Len(topic_filter)] ==
        IF i = 0 THEN [f |-> 1, n |-> 1] ELSE Turn(topic_filter, topicName, at[i - 1])
  IN  at

Compared(topic_filter, topicName) == Turns(topic_filter, topicName)[Len(topic_filter)]

(* Faulty variant: what is left of the filter is not looked at.            *)
_is_topic_matched_NoRest(topic_filter, topicName) ==
  LET end == Compared(topic_filter, topicName)
  IN  end.f > Len(topic_filter) /\ end.n = Len(topicName) + 1

_is_topic_matched(topic_filter, topicName) ==
  LET end == Compared(topic_filter, topicName)
      At(i, c) == i <= Len(topic_filter) /\ topic_filter[i] = c
  IN  IF end.f > Len(topic_filter)
      THEN end.n = Len(topicName) + 1
      ELSE \/ At(end.f, "#")
           \/ At(end.f + 1, "#")
           \/ At(end.f, "+") /\ topicName[end.n - 1] = "/"
=============================================================================
