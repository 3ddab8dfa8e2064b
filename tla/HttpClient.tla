------------------------------ MODULE HttpClient ------------------------------
(***************************************************************************)
(* The HTTP client of the SDK (src/utils/utils_httpc.c) and the download   *)
(* of a file in slices that drives it (ofc_fetch, IOT_OTA_FetchYield).     *)
(*                                                                         *)
(* A connection is the sequence of what the server has sent and the client *)
(* has not read: per response a status line that comes in two pieces, the  *)
(* Content-Length, the blank line, and the bytes of the body, each named   *)
(* by its offset in the file.  A read takes any beginning of it (the rest  *)
(* is still on its way), finds nothing until it times out, or fails.       *)
(***************************************************************************)
EXTENDS Integers, Sequences, SequencesExt, FiniteSetsExt

CONSTANTS
  Size,             \* of the file
  RangeLen,         \* HTTP_OTA_RANGE_LEN
  BufLen,           \* HTTP_OTA_BUFF_LEN
  HEAD_SIZE,        \* HTTP_CLIENT_READ_HEAD_SIZE, in pieces
  CHUNK_SIZE,       \* HTTP_CLIENT_CHUNK_SIZE
  MAX_RETRY_COUNT,
  MAX_TRIES         \* tries of IOT_OTA_FetchYield

\* A slice with its extra byte fits the buffer with one byte and the
\* terminator to spare (4096 and 4100 in the code), and so does what the last
\* read of a header brings of the body.
ASSUME HttpAssumption ==
  /\ {Size, RangeLen, BufLen, HEAD_SIZE, CHUNK_SIZE} \subseteq Nat \ {0}
  /\ {MAX_RETRY_COUNT, MAX_TRIES} \subseteq Nat \ {0}
  /\ RangeLen + 3 <= BufLen
  /\ HEAD_SIZE <= BufLen - 1

Piece(k, v) == [kind |-> k, value |-> v]

\* rc: as in uiot_defs.h; the other negative values count as FAILURE.
SUCCESS == 0
CONN_ERROR == -8
FAILURE == -1

VARIABLES
  tls,           \* the build: TLS or plain TCP
  ranges,        \* the server honours Range, or sends the whole file
  net,           \* net.handle: "none" (0), "up", "bad" (-1, TCP only)
  stream,
  is_more, retrieve_len, response_content_len,
  pc,
  data,          \* what the last read brought
  response_buf,
  diff,          \* retrieve_len when ofc_fetch began
  extend_count,
  rc,            \* of http_client_recv_data
  size_fetched, received, tries,
  reconnected

http_data == <<is_more, retrieve_len, response_content_len>>
download == <<size_fetched, received, tries, reconnected>>
vars == <<tls, ranges, net, stream, http_data, pc, data, response_buf, diff,
          extend_count, rc, download>>

TypeOK ==
  /\ tls \in BOOLEAN /\ ranges \in BOOLEAN
  /\ net \in {"none", "up", "bad"}
  /\ \A i \in 1..Len(stream) :
       stream[i] \in [kind : {"status", "crlf", "length", "end", "body"}, value : 0..Size]
  /\ is_more \in BOOLEAN
  /\ retrieve_len \in 0..Size /\ response_content_len \in -1..Size
  /\ pc \in {"fetch", "head", "header", "fill", "read", "returned", "done"}
  /\ Len(response_buf) <= BufLen - 1
  /\ diff \in 0..Size
  /\ extend_count \in 0 .. 2 * MAX_RETRY_COUNT + 1
  /\ rc \in {SUCCESS, CONN_ERROR, FAILURE}
  /\ size_fetched = Len(received)
  /\ tries \in 0 .. MAX_TRIES - 1
  /\ reconnected \in BOOLEAN

\* _http_connect: three tries, and success reported whatever became of them.
_http_connect(t) == {"up", IF t THEN "none" ELSE "bad"}

Init ==
  /\ tls \in BOOLEAN /\ ranges \in BOOLEAN
  /\ net \in _http_connect(tls) /\ stream = <<>>
  /\ is_more = FALSE /\ retrieve_len = 0 /\ response_content_len = 0
  /\ pc = "fetch" /\ data = <<>> /\ response_buf = <<>>
  /\ diff = 0 /\ extend_count = 0 /\ rc = SUCCESS
  /\ size_fetched = 0 /\ received = <<>> /\ tries = 0
  /\ reconnected = FALSE

----------------------------------------------------------------------------
(* Request and response. *)

\* Mutant: the range begins behind the next byte.
Body_OffByOne == [i \in 1 .. Min({RangeLen + 1, Size - size_fetched}) |->
                    Piece("body", Min({size_fetched + i + 1, Size}))]

\* bytes=a-(a+RangeLen) names one byte more than RangeLen.
Body == IF ranges
        THEN [i \in 1 .. Min({RangeLen + 1, Size - size_fetched}) |->
                Piece("body", size_fetched + i)]
        ELSE [i \in 1..Size |-> Piece("body", i)]

Response(length, body) ==
  <<Piece("status", 0), Piece("crlf", 0)>> \o length \o <<Piece("end", 0)>> \o body

\* What a server answers to a request: the bytes, nothing, or without a length.
Responses ==
  {Response(<<Piece("length", Len(b))>>, b) : b \in {Body, <<>>}} \cup {Response(<<>>, Body)}

Has(d, k) == \E i \in 1..Len(d) : d[i].kind = k
Where(d, k) == CHOOSE i \in 1..Len(d) : d[i].kind = k

Return(r) == rc' = r /\ pc' = "returned"

http_client_close == net' = "none" /\ stream' = <<>>

\* Mutant: only a lost connection is closed.
FailReceive_KeepsOpen(r) ==
  /\ IF r = CONN_ERROR THEN http_client_close ELSE UNCHANGED <<net, stream>>
  /\ Return(r)

\* http_client_recv_data ends with an error.
FailReceive(r) == http_client_close /\ Return(r)

\* http_client_recv_data goes on with the body of the last response, or reads
\* a new one; is_more is set before the header is there.
ofc_fetch ==
  /\ pc = "fetch"
  /\ \/ /\ net = "none" /\ Return(FAILURE)
        /\ UNCHANGED <<stream, http_data, response_buf, diff, data, extend_count>>
     \/ /\ net # "none" /\ Return(CONN_ERROR)
        /\ UNCHANGED <<stream, http_data, response_buf, diff, data, extend_count>>
     \/ /\ net = "up"
        /\ \E r \in Responses : stream' = stream \o r
        /\ response_buf' = <<>> /\ response_content_len' = 0 /\ diff' = retrieve_len
        /\ pc' = IF is_more THEN "fill" ELSE "head"
        /\ is_more' = TRUE /\ data' = <<>> /\ extend_count' = 0
        /\ UNCHANGED <<retrieve_len, rc>>
  /\ UNCHANGED <<tls, ranges, net, download>>

\* The possible results of a read of at most n pieces.
Reads(n) == {SubSeq(stream, 1, k) : k \in 1 .. Min({n, Len(stream)})}

\* The pieces read so far: the header and what follows it, or not all of it.
_http_parse_response_header(d) ==
  IF ~Has(d, "end")
  THEN /\ data' = d /\ pc' = "header" /\ response_content_len' = -1
       /\ UNCHANGED <<retrieve_len, rc, net>>
  ELSE IF Has(d, "length")
  THEN /\ response_content_len' = d[Where(d, "length")].value
       /\ retrieve_len' = response_content_len'
       /\ data' = SubSeq(d, Where(d, "end") + 1, Len(d))
       /\ pc' = "fill"
       /\ UNCHANGED <<rc, net>>
  ELSE /\ Return(CONN_ERROR) /\ net' = "none"
       /\ response_content_len' = -1 /\ data' = d
       /\ UNCHANGED retrieve_len

\* The first read of a header must bring the status line.
_http_client_recv_response ==
  /\ pc = "head"
  /\ \/ \E d \in Reads(HEAD_SIZE) :
          IF Has(d, "crlf")
          THEN /\ _http_parse_response_header(d)
               /\ stream' = IF net' = "up" THEN SubSeq(stream, Len(d) + 1, Len(stream))
                            ELSE <<>>
          ELSE /\ FailReceive(FAILURE)
               /\ response_content_len' = -1 /\ UNCHANGED <<data, retrieve_len>>
     \/ /\ \E r \in {FAILURE, CONN_ERROR} : FailReceive(r)
        /\ UNCHANGED <<data, retrieve_len, response_content_len>>
  /\ UNCHANGED <<tls, ranges, is_more, response_buf, diff, extend_count, download>>

\* The rest of the header: a read that finds nothing is repeated without end.
HeaderLoop ==
  /\ pc = "header"
  /\ \/ \E d \in Reads(HEAD_SIZE) :
          /\ _http_parse_response_header(data \o d)
          /\ stream' = IF net' = "up" THEN SubSeq(stream, Len(d) + 1, Len(stream))
                       ELSE <<>>
     \/ FailReceive(CONN_ERROR) /\ UNCHANGED <<data, retrieve_len, response_content_len>>
  /\ UNCHANGED <<tls, ranges, is_more, response_buf, diff, extend_count, download>>

\* What was read goes to the caller's buffer, as far as there is room; what is
\* beyond is dropped, and the buffer is then full.
_utils_fill_rx_buf ==
  LET n == Min({Len(data), retrieve_len, BufLen - 1 - Len(response_buf)})
  IN  /\ response_buf' = response_buf \o SubSeq(data, 1, n)
      /\ retrieve_len' = retrieve_len - n

_http_get_response_body ==
  /\ pc = "fill"
  /\ _utils_fill_rx_buf
  /\ IF Len(response_buf') = BufLen - 1 THEN Return(SUCCESS) /\ UNCHANGED is_more
     ELSE IF retrieve_len' = 0 THEN Return(SUCCESS) /\ is_more' = FALSE
     ELSE pc' = "read" /\ UNCHANGED <<rc, is_more>>
  /\ UNCHANGED <<tls, ranges, net, stream, response_content_len, data, diff,
                 extend_count, download>>

MaxLenToReceive ==
  Min({CHUNK_SIZE - 1, BufLen - 1 - Len(response_buf), retrieve_len})

\* Mutant: reads that find nothing are not counted.
_utils_check_deadloop_Never == data' = <<>> /\ pc' = "fill" /\ UNCHANGED <<extend_count, rc, net, stream>>

\* A read that found nothing has used up the time of the call.
_utils_check_deadloop ==
  /\ data' = <<>>
  /\ extend_count' = Min({extend_count + 1, 2 * MAX_RETRY_COUNT + 1})
  /\ IF extend_count' > 2 * MAX_RETRY_COUNT
     THEN FailReceive(CONN_ERROR)
     ELSE pc' = "fill" /\ UNCHANGED <<rc, net, stream>>

ReadBody ==
  /\ pc = "read"
  /\ \/ \E d \in Reads(MaxLenToReceive) :
          /\ data' = d /\ pc' = "fill"
          /\ stream' = SubSeq(stream, Len(d) + 1, Len(stream))
          /\ extend_count' \in {extend_count, Min({extend_count + 1, 2 * MAX_RETRY_COUNT + 1})}
          /\ UNCHANGED <<rc, net>>
     \/ _utils_check_deadloop
     \/ FailReceive(CONN_ERROR) /\ UNCHANGED <<data, extend_count>>
  /\ UNCHANGED <<tls, ranges, http_data, response_buf, diff, download>>

----------------------------------------------------------------------------
(* IOT_OTA_FetchYield. *)

LastTry == tries + 1 = MAX_TRIES

GiveUp == pc' = "done" /\ tries' = 0 /\ http_client_close

\* A lost connection: a new client, its response data blank.
Reconnect ==
  /\ pc = "returned" /\ rc = CONN_ERROR
  /\ is_more' = FALSE /\ retrieve_len' = 0 /\ response_content_len' = 0
  /\ reconnected' = TRUE
  /\ IF LastTry
     THEN GiveUp
     ELSE /\ net' \in _http_connect(tls) /\ stream' = <<>>
          /\ pc' = "fetch" /\ tries' = tries + 1
  /\ UNCHANGED <<tls, ranges, data, response_buf, diff, extend_count, rc,
                 size_fetched, received>>

\* Any other error: the connection is closed, and stays so for every try.
Retry ==
  /\ pc = "returned" /\ rc = FAILURE
  /\ IF LastTry
     THEN GiveUp
     ELSE pc' = "fetch" /\ tries' = tries + 1 /\ UNCHANGED <<net, stream>>
  /\ UNCHANGED <<tls, ranges, http_data, data, response_buf, diff, extend_count, rc,
                 size_fetched, received, reconnected>>

\* What ofc_fetch returns; diff is the negative of the code's.
Fetched == response_content_len - retrieve_len + diff

\* The slice goes to the digest and the file; none at all ends the download.
IOT_OTA_FetchYield ==
  /\ pc = "returned" /\ rc = SUCCESS
  /\ tries' = 0
  /\ IF Fetched > 0
     THEN /\ size_fetched' = size_fetched + Fetched
          /\ received' = received \o [i \in 1..Fetched |-> response_buf[i].value]
          /\ IF size_fetched' >= Size
             THEN pc' = "done" /\ http_client_close
             ELSE pc' = "fetch" /\ UNCHANGED <<net, stream>>
     ELSE /\ pc' = "done" /\ http_client_close
          /\ UNCHANGED <<size_fetched, received>>
  /\ UNCHANGED <<tls, ranges, http_data, data, response_buf, diff, extend_count, rc,
                 reconnected>>

Next ==
  \/ ofc_fetch \/ _http_client_recv_response \/ HeaderLoop
  \/ _http_get_response_body \/ ReadBody
  \/ Reconnect \/ Retry \/ IOT_OTA_FetchYield

Spec == Init /\ [][Next]_vars

\* The thread goes on, and a peer that has begun a header sends the rest of it
\* or the connection breaks: nothing else ends the loop that waits for it.
FairSpec == Spec /\ WF_vars(Next)

----------------------------------------------------------------------------
(* Properties. *)

\* The slices put together are the beginning of the file, in order and without
\* a gap, as long as the server honours Range or needs to be asked only once
\* (ofc_fetch, _utils_fill_rx_buf: "move previous fetched data").
SlicesInOrder ==
  (ranges \/ ~reconnected) => received = [i \in 1..Len(received) |-> i]

\* Between two requests the connection stands where the client takes it to be:
\* within a body when it goes on with one (HTTP_RETRIEVE_MORE_DATA), with at
\* least what is left to retrieve, and before a status line otherwise.
InStep ==
  pc \in {"fetch", "head"} /\ net = "up" =>
    IF pc = "fetch" /\ is_more
    THEN /\ retrieve_len > 0 /\ Len(stream) >= retrieve_len
         /\ \A i \in 1..retrieve_len : stream[i].kind = "body"
    ELSE stream # <<>> => stream[1].kind = "status"

\* A download ends, also when the server falls silent within a body: reads
\* that find nothing are counted across the whole call (_utils_check_deadloop).
DownloadEnds == <>(pc = "done")
=============================================================================
