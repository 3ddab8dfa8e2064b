------------------------------- MODULE AtClient -------------------------------
(***************************************************************************)
(* The AT client (src/at/src/at_client.c) and the TCP links of an ESP8266  *)
(* module above it (src/at/class/esp8266/esp8266.c), used by one thread.   *)
(*                                                                         *)
(* The module (external) answers a command at once, but what it sends is a *)
(* queue that the client reads in its own time (RingBuffer shows that the  *)
(* UART buffer is one), or not in time.  An answer is a sequence of lines  *)
(* that mean something; blank lines are left out.  Many answers end for    *)
(* the client before their last line: the rest meets the next command.     *)
(***************************************************************************)
EXTENDS Integers, Sequences, SequencesExt, FiniteSetsExt

CONSTANTS
  Net,         \* networks: utils_network_t
  HttpNet,     \* those whose handle _http_connect clears before it connects
  MAX_LINK,    \* ESP8266_MAX_TCP_LINK
  Buffers,     \* links 0 .. Buffers - 1 have a buffer (two in the code)
  MaxBytes,    \* bound: bytes a peer sends on a connection
  MaxConns,    \* bound: connections the module opens
  MaxQueue     \* bound: lines in the queue when a peer closes

ASSUME AtAssumption ==
  /\ HttpNet \subseteq Net
  /\ {MAX_LINK, Buffers} \subseteq Nat \ {0} /\ Buffers <= MAX_LINK
  /\ {MaxBytes, MaxConns, MaxQueue} \subseteq Nat

Link == 0 .. MAX_LINK - 1

\* A byte is the connection it came on and its place there; <<0, 0>> is a
\* piece of an answer that was taken for data.
Byte == (1..MaxConns) \X (1..MaxBytes) \cup {<<0, 0>>}

\* esp8266_init; RST again when one of those after ATE0 has failed.
Startup == <<"RST", "ATE0", "CWMODE", "CIPMUX", "CWJAP", "CIFSR">>

CmdName == ToSet(Startup) \cup {"RST again"} \cup {"none", "CIPSTART", "CIPRECVMODE", "CIPCLOSE", "CIPRECVLEN",
            "CIPRECVDATA", "CIPSEND", "data"}

VARIABLES
  \* the client
  status,             \* AT_STATUS_INITIALIZED
  cmd,                \* the command under way: name, link, len
  result,             \* of at_obj_exec_cmd
  net,                \* the network whose operation runs
  handle,             \* by network: pNetwork->handle, a link plus one
  up,                 \* by network: the caller has it connected
  esp8266_link, esp8266_recv_len,
  ring_tcp,           \* by link: g_ring_tcp_buff
  received,           \* by network: the bytes read on this connection
  \* the module
  uart,               \* g_ring_buff and what is on its way to it
  modem,              \* by link: connection (0 if none), bytes sent, bytes kept
  prompted,           \* waiting for the data of CIPSEND
  conns, conn_of,     \* connections opened; by network, its last one
  \* what has gone wrong so far
  late,               \* a command ran out of time
  unasked,            \* the module told of a link a peer has closed
  mixed,              \* a command was ended by a line that was not its answer
  crossed             \* a network closed the link of another

client == <<status, handle, up, esp8266_link, esp8266_recv_len, ring_tcp, received>>
module == <<modem, prompted, conns>>
faults == <<late, unasked, mixed, crossed>>
vars == <<cmd, result, net, client, uart, module, conn_of, faults>>

Line == [text : {"OK", "ERROR", "CONNECT", "CLOSED", ">", "LEN", "DATA", "SEND OK",
                 "ready"},
         own : BOOLEAN, arg : Seq(Byte \cup Nat)]

TypeOK ==
  /\ status \in BOOLEAN
  /\ cmd \in [name : CmdName, link : -1..MAX_LINK, len : 0..MaxBytes]
  /\ result \in {"NONE", "SUCCESS", "FAILURE"}
  /\ net \in Net
  /\ handle \in [Net -> 0..MAX_LINK]
  /\ up \in [Net -> BOOLEAN] /\ \A n \in Net : up[n] => handle[n] # 0
  /\ esp8266_link \in [Link -> BOOLEAN]
  /\ esp8266_recv_len \in [Link -> 0..MaxBytes]
  /\ \A l \in Link : /\ ring_tcp[l] \in Seq(Byte)
                     /\ Len(ring_tcp[l]) <= IF l < Buffers THEN MaxBytes ELSE 0
  /\ \A n \in Net : received[n] \in Seq(Byte)
  /\ \A i \in 1..Len(uart) : {uart[i].own} \subseteq BOOLEAN
  /\ \A l \in Link : /\ modem[l].conn \in 0..conns /\ modem[l].sent \in 0..MaxBytes
                     /\ modem[l].kept \in Seq(Byte) /\ Len(modem[l].kept) <= modem[l].sent
  /\ prompted \in BOOLEAN
  /\ conns \in 0..MaxConns /\ conn_of \in [Net -> 0..MaxConns]
  /\ \A f \in {late, unasked, mixed, crossed} : f \in BOOLEAN

NoCmd == [name |-> "none", link |-> 0, len |-> 0]
NoConn == [conn |-> 0, sent |-> 0, kept |-> <<>>]

Init ==
  /\ status = FALSE
  /\ cmd = NoCmd /\ result = "NONE" /\ net \in Net
  /\ handle = [n \in Net |-> 0] /\ up = [n \in Net |-> FALSE]
  /\ esp8266_link = [l \in Link |-> FALSE]
  /\ esp8266_recv_len = [l \in Link |-> 0]
  /\ ring_tcp = [l \in Link |-> <<>>]
  /\ received = [n \in Net |-> <<>>]
  /\ uart = <<>>
  /\ modem = [l \in Link |-> NoConn]
  /\ prompted = FALSE
  /\ conns = 0 /\ conn_of = [n \in Net |-> 0]
  /\ late = FALSE /\ unasked = FALSE /\ mixed = FALSE /\ crossed = FALSE

----------------------------------------------------------------------------
(* The module. *)

Open(l) == l \in Link /\ modem[l].conn # 0

Text(t, a) == [text |-> t, own |-> TRUE, arg |-> a]
Plain(ts) == [i \in 1..Len(ts) |-> Text(ts[i], <<>>)]

\* The lines in the queue answer earlier commands.
Answer(lines) ==
  uart' = [i \in 1..Len(uart) |-> [uart[i] EXCEPT !.own = FALSE]] \o lines

Refuse == Answer(Plain(<<"ERROR">>)) /\ UNCHANGED module

Module_CIPSTART(l) ==
  \/ /\ ~Open(l) /\ conns < MaxConns
     /\ conns' = conns + 1
     /\ modem' = [modem EXCEPT ![l] = [NoConn EXCEPT !.conn = conns + 1]]
     /\ Answer(Plain(<<"CONNECT", "OK">>))
     /\ UNCHANGED prompted
  \/ Refuse

Module_CIPRECVMODE == Answer(Plain(<<"OK">>)) /\ UNCHANGED module

Module_CIPRECVLEN ==
  /\ Answer(<<Text("LEN", [i \in 1..MAX_LINK |-> Len(modem[i - 1].kept)]), Text("OK", <<>>)>>)
  /\ UNCHANGED module

Module_CIPRECVDATA(l, len) ==
  IF Open(l) /\ modem[l].kept # <<>>
  THEN LET k == Min({len, Len(modem[l].kept)})
       IN  /\ Answer(<<Text("DATA", SubSeq(modem[l].kept, 1, k)), Text("OK", <<>>)>>)
           /\ modem' = [modem EXCEPT ![l].kept = SubSeq(@, k + 1, Len(@))]
           /\ UNCHANGED <<prompted, conns>>
  ELSE Refuse

Module_CIPSEND(l) ==
  IF Open(l)
  THEN prompted' = TRUE /\ Answer(Plain(<<"OK", ">">>)) /\ UNCHANGED <<modem, conns>>
  ELSE Refuse

\* Without a prompt the data is a command nobody knows.
Module_Data ==
  /\ prompted' = FALSE
  /\ Answer(Plain(<<IF prompted THEN "SEND OK" ELSE "ERROR">>))
  /\ UNCHANGED <<modem, conns>>

Module_CIPCLOSE(l) ==
  IF Open(l)
  THEN /\ modem' = [modem EXCEPT ![l] = NoConn]
       /\ Answer(Plain(<<"CLOSED", "OK">>))
       /\ UNCHANGED <<prompted, conns>>
  ELSE Refuse

\* A restart; it is made before there is a link.
Module_RST == Answer(Plain(<<"OK", "ready">>)) /\ UNCHANGED module

Module_Setting == \E t \in {"OK", "ERROR"} : Answer(Plain(<<t>>)) /\ UNCHANGED module

\* In passive mode the module keeps what a peer sends.
PeerSends(l) ==
  /\ Open(l) /\ modem[l].sent < MaxBytes
  /\ modem' = [modem EXCEPT ![l].sent = @ + 1,
                            ![l].kept = Append(@, <<modem[l].conn, modem[l].sent + 1>>)]
  /\ UNCHANGED <<cmd, result, net, client, uart, prompted, conns, conn_of, faults>>

PeerCloses(l) ==
  /\ Open(l) /\ Len(uart) < MaxQueue
  /\ modem' = [modem EXCEPT ![l] = NoConn]
  /\ uart' = Append(uart, [text |-> "CLOSED", own |-> FALSE, arg |-> <<>>])
  /\ unasked' = TRUE
  /\ UNCHANGED <<cmd, result, net, client, prompted, conns, conn_of, late, mixed, crossed>>

----------------------------------------------------------------------------
(* at_obj_exec_cmd. *)

\* The command goes out.
Exec(name, link, len) ==
  cmd' = [name |-> name, link |-> link, len |-> len] /\ result' = "NONE"

Waiting == cmd.name # "none" /\ result = "NONE"

\* Mutant: the answers to the queries of the receive buffer end with OK, too.
custom_flag_Queries == cmd.name \in {"RST", "RST again", "CIPSTART", "CIPCLOSE", "CIPSEND"}

\* OK does not end these: a line of the URC table does.
custom_flag ==
  cmd.name \in {"RST", "RST again", "CIPSTART", "CIPCLOSE", "CIPRECVLEN", "CIPRECVDATA", "CIPSEND"}

\* get_urc_obj: the line the URC table has for the last command.  The judge of
\* CIPSEND wants the prompt behind its OK.
Urc(line, next) ==
  \/ cmd.name \in {"RST", "RST again"} /\ line = "ready"
  \/ cmd.name = "CIPSTART" /\ line = "CONNECT"
  \/ cmd.name = "CIPCLOSE" /\ line = "CLOSED"
  \/ cmd.name = "CIPRECVLEN" /\ line = "LEN"
  \/ cmd.name = "CIPRECVDATA" /\ line = "DATA"
  \/ cmd.name = "CIPSEND" /\ line = "OK" /\ next = ">"

\* How many lines the judge and the function of the URC read beyond it: CIPSTART
\* the rest of its answer, CIPSEND the prompt, CIPRECVDATA as many characters as
\* were asked for, whatever they belong to.
Short(line) == cmd.name = "CIPRECVDATA" /\ Len(line.arg) < cmd.len

Consumed(line) ==
  IF cmd.name \in {"CIPSTART", "CIPSEND"} \/ Short(line) THEN 2 ELSE 1

\* urc_recvdata_recv_func: what goes to the buffer of the link.
Pushed(line) ==
  line.arg \o [i \in 1 .. cmd.len - Len(line.arg) |-> <<0, 0>>]

Success(line) ==
  \/ line = "OK" /\ ~custom_flag
  \/ line = "SEND OK"

\* An answer that ends the command may be looked at too late: then it counts
\* as a timeout, with all it has done.
Ends(r, line) ==
  /\ mixed' = (mixed \/ ~line.own)
  /\ \/ result' = r /\ UNCHANGED late
     \/ result' = "FAILURE" /\ ~late /\ late' = TRUE

Next_Text == IF Len(uart) > 1 THEN uart[2].text ELSE "none"

client_parser_Urc ==
  /\ Waiting /\ uart # <<>> /\ Urc(uart[1].text, Next_Text)
  /\ LET line == uart[1]
     IN  /\ uart' = SubSeq(uart, Consumed(line) + 1, Len(uart))
         /\ esp8266_recv_len' = IF line.text = "LEN"
                                THEN [l \in Link |-> line.arg[l + 1]]
                                ELSE esp8266_recv_len
         /\ ring_tcp' = IF line.text = "DATA" /\ cmd.link < Buffers
                        THEN [ring_tcp EXCEPT ![cmd.link] = @ \o Pushed(line)]
                        ELSE ring_tcp
         /\ Ends("SUCCESS", line)
  /\ UNCHANGED <<cmd, net, status, handle, up, esp8266_link, received, module, conn_of,
                 unasked, crossed>>

\* Any other line: part of the response, and perhaps its end.
client_parser_Response ==
  /\ Waiting /\ uart # <<>> /\ ~Urc(uart[1].text, Next_Text)
  /\ uart' = Tail(uart)
  /\ LET line == uart[1]
     IN  IF Success(line.text) THEN Ends("SUCCESS", line)
         ELSE IF line.text = "ERROR" THEN Ends("FAILURE", line)
         ELSE UNCHANGED <<result, mixed, late>>
  /\ UNCHANGED <<cmd, net, client, module, conn_of, unasked, crossed>>

\* The answer is not there in time.
Timeout ==
  /\ Waiting
  /\ result' = "FAILURE"
  /\ uart = <<>> \/ ~late
  /\ late' = TRUE
  /\ UNCHANGED <<cmd, net, client, uart, module, conn_of, unasked, mixed, crossed>>

----------------------------------------------------------------------------
(* The operations of esp8266.c, a command at a time. *)

Idle == cmd.name = "none"
After(name) == cmd.name = name /\ result # "NONE"
Done == cmd' = NoCmd /\ result' = "NONE"

Free == {l \in Link : ~esp8266_link[l]}

FreeLink == Min(Free)

\* at_client_tcp_init
EmptyBuffer(l) == ring_tcp' = IF l < Buffers THEN [ring_tcp EXCEPT ![l] = <<>>] ELSE ring_tcp

\* The start of a connection.
StartLink ==
  /\ EmptyBuffer(FreeLink)
  /\ Exec("CIPSTART", FreeLink, 0) /\ Module_CIPSTART(FreeLink)

\* The first connection initialises the client and then the module; the client
\* is then initialised whatever becomes of the module.  With no link free the
\* code goes on with one past its arrays: left out.
HAL_AT_TCP_Connect(n) ==
  /\ Idle /\ ~up[n]
  /\ Free # {}
  /\ net' = n
  /\ handle' = IF n \in HttpNet THEN [handle EXCEPT ![n] = 0] ELSE handle
  /\ status' = TRUE
  /\ IF status THEN StartLink
     ELSE /\ Exec("RST", 0, 0) /\ Module_RST
          /\ UNCHANGED ring_tcp
  /\ UNCHANGED <<up, esp8266_link, esp8266_recv_len, received, conn_of, faults>>

\* A setting that fails begins the start again, but ret keeps the failure (ret |=)
\* and the start ends behind the RST.
esp8266_init ==
  /\ \/ \E i \in 1 .. Len(Startup) - 1 :
          /\ After(Startup[i]) /\ result = "SUCCESS"
          /\ Exec(Startup[i + 1], 0, 0) /\ Module_Setting
          /\ UNCHANGED ring_tcp
     \/ After("CIFSR") /\ result = "SUCCESS" /\ StartLink
     \/ \E i \in 3 .. Len(Startup) :
          /\ After(Startup[i]) /\ result = "FAILURE"
          /\ Exec("RST again", 0, 0) /\ Module_RST
          /\ UNCHANGED ring_tcp
  /\ UNCHANGED <<net, status, handle, up, esp8266_link, esp8266_recv_len, received,
                 conn_of, faults>>

\* "handle can't be zero"
HandleOf(l) == l + 1

HAL_AT_TCP_Connect_Started ==
  /\ After("CIPSTART") /\ result = "SUCCESS"
  /\ esp8266_link' = [esp8266_link EXCEPT ![cmd.link] = TRUE]
  /\ handle' = [handle EXCEPT ![net] = HandleOf(cmd.link)]
  /\ received' = [received EXCEPT ![net] = <<>>]
  /\ conn_of' = [conn_of EXCEPT ![net] = modem[cmd.link].conn]
  /\ Exec("CIPRECVMODE", cmd.link, 0) /\ Module_CIPRECVMODE
  /\ UNCHANGED <<net, status, up, esp8266_recv_len, ring_tcp, faults>>

HAL_AT_TCP_Connect_Returns ==
  /\ After("CIPRECVMODE") /\ result = "SUCCESS"
  /\ up' = [up EXCEPT ![net] = TRUE]
  /\ Done
  /\ UNCHANGED <<net, status, handle, esp8266_link, esp8266_recv_len, ring_tcp, received,
                 uart, module, conn_of, faults>>

\* The link whose state HAL_AT_TCP_Disconnect looks at: the caller's handle is
\* not cleared by it, and zero makes it look before the array.
Linked(n, before) == IF handle[n] = 0 THEN before ELSE esp8266_link[handle[n] - 1]

HAL_AT_TCP_Disconnect(n) ==
  /\ net' = n /\ up' = [up EXCEPT ![n] = FALSE]
  /\ \E before \in BOOLEAN :
       IF Linked(n, before)
       THEN /\ Exec("CIPCLOSE", handle[n] - 1, 0) /\ Module_CIPCLOSE(handle[n] - 1)
            /\ crossed' = (crossed \/ \E m \in Net \ {n} : up[m] /\ handle[m] = handle[n])
       ELSE /\ Done
            /\ UNCHANGED <<uart, module, crossed>>
  /\ UNCHANGED <<status, handle, esp8266_link, esp8266_recv_len, ring_tcp, received,
                 conn_of, late, unasked, mixed>>

\* Callers disconnect a network they are done with, and one that did not connect.
Disconnect(n) ==
  \/ Idle /\ up[n] /\ HAL_AT_TCP_Disconnect(n)
  \/ /\ \/ /\ \E c \in {"RST", "ATE0", "CIPSTART", "CIPRECVMODE"} : After(c)
           /\ result = "FAILURE"
        \/ After("RST again")
     /\ n = net
     /\ HAL_AT_TCP_Disconnect(n)

HAL_AT_TCP_Disconnect_Returns ==
  /\ After("CIPCLOSE")
  /\ esp8266_link' = IF result = "SUCCESS" /\ cmd.link \in Link
                     THEN [esp8266_link EXCEPT ![cmd.link] = FALSE] ELSE esp8266_link
  /\ Done
  /\ UNCHANGED <<net, status, handle, up, esp8266_recv_len, ring_tcp, received, uart, module,
                 conn_of, faults>>

\* len bytes or none: their number is asked for first.
HAL_AT_Read_Tcp(n, len) ==
  /\ Idle /\ up[n]
  /\ net' = n
  /\ Exec("CIPRECVLEN", handle[n] - 1, len) /\ Module_CIPRECVLEN
  /\ UNCHANGED <<client, conn_of, faults>>

\* Mutant: the number of bytes is not looked at.
Enough_NotAsked == TRUE

Enough == esp8266_recv_len[cmd.link] >= cmd.len

\* The result of the query is not looked at, only the number it stored.
HAL_AT_Read_Tcp_Asked ==
  /\ After("CIPRECVLEN")
  /\ IF Enough
     THEN Exec("CIPRECVDATA", cmd.link, cmd.len) /\ Module_CIPRECVDATA(cmd.link, cmd.len)
     ELSE Done /\ UNCHANGED <<uart, module>>
  /\ UNCHANGED <<net, client, conn_of, faults>>

\* HAL_AT_Read: the bytes in the buffer of the link, len at most.
HAL_AT_Read_Tcp_Returns ==
  /\ After("CIPRECVDATA")
  /\ LET l == handle[net] - 1
         k == Min({cmd.len, Len(ring_tcp[l])})
     IN  /\ received' = [received EXCEPT ![net] = @ \o SubSeq(ring_tcp[l], 1, k)]
         /\ ring_tcp' = [ring_tcp EXCEPT ![l] = SubSeq(@, k + 1, Len(@))]
  /\ Done
  /\ UNCHANGED <<net, status, handle, up, esp8266_link, esp8266_recv_len, uart, module,
                 conn_of, faults>>

HAL_AT_Write_Tcp(n) ==
  /\ Idle /\ up[n]
  /\ net' = n
  /\ Exec("CIPSEND", handle[n] - 1, 0) /\ Module_CIPSEND(handle[n] - 1)
  /\ UNCHANGED <<client, conn_of, faults>>

\* The data follows whatever became of the command.
HAL_AT_Write_Tcp_Data ==
  /\ After("CIPSEND")
  /\ Exec("data", cmd.link, 0) /\ Module_Data
  /\ UNCHANGED <<net, client, conn_of, faults>>

HAL_AT_Write_Tcp_Returns ==
  /\ After("data")
  /\ Done
  /\ UNCHANGED <<net, client, uart, module, conn_of, faults>>

Next ==
  \/ \E l \in Link : PeerSends(l) \/ PeerCloses(l)
  \/ client_parser_Urc \/ client_parser_Response \/ Timeout
  \/ \E n \in Net : \/ HAL_AT_TCP_Connect(n) \/ Disconnect(n) \/ HAL_AT_Write_Tcp(n)
                    \/ \E len \in 1..2 : HAL_AT_Read_Tcp(n, len)
  \/ esp8266_init \/ HAL_AT_TCP_Connect_Started \/ HAL_AT_TCP_Connect_Returns
  \/ HAL_AT_TCP_Disconnect_Returns
  \/ HAL_AT_Read_Tcp_Asked \/ HAL_AT_Read_Tcp_Returns
  \/ HAL_AT_Write_Tcp_Data \/ HAL_AT_Write_Tcp_Returns

Spec == Init /\ [][Next]_vars

----------------------------------------------------------------------------
(* Properties. *)

\* The client stays in step with the module: a command is ended by its own
\* answer, though the queue holds what earlier answers left (custom_flag, the URC
\* table), and between two operations esp8266_link marks the links that are open.
\* Only a command out of time or word of a link a peer has closed ends that.
InStep ==
  ~(late \/ unasked) =>
    /\ ~mixed
    /\ Idle => \A l \in Link : esp8266_link[l] <=> Open(l)

\* The bytes read on a connection are those its peer sent, in order, as long as
\* commands are ended by their own answers, no network has closed the link of
\* another, and the link is one of those that have a buffer.
ReadInOrder ==
  \A n \in Net :
    ~(late \/ mixed \/ crossed) /\ up[n] /\ handle[n] <= Buffers =>
      received[n] = [i \in 1..Len(received[n]) |-> <<conn_of[n], i>>]
=============================================================================
