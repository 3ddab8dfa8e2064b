# A verification development of ucloud-iot-device-sdk-c

The SDK lets a device talk to the UCloud IoT broker over MQTT and builds device shadow, device
model, OTA and plain HTTP transfer on top. The C code is in `src/src`, the operating-system layer
in `src/platform`. The TLA+ modules beside this file model its own logic; TLC checks them on small
instances and TLAPS proves the theorems of the `*_proofs` modules.

## 1. The system

| Component | State it keeps | Operations | Talks to |
|---|---|---|---|
| MQTT session (`src/mqtt/src/mqtt_client_{common,publish,subscribe,unsubscribe,connect,yield}.c`) | `is_connected`, `next_packet_id`, the wait lists `list_pub_wait_ack` and `list_sub_wait_ack`, the array `sub_handles` | publish, subscribe, unsubscribe, yield (read one packet, time out nodes, ping), disconnect, reconnect, resubscribe | network stack below; the application by events and message callbacks |
| MQTT locks (`UIoT_Client.lock_*`) | four non-recursive mutexes, nodes on the heap | every operation above | all threads of the application |
| MQTT link (keep-alive, back-off) | `is_ping_outstanding`, `ping_timer`, `reconnect_delay_timer`, `current_reconnect_wait_interval` | ping, pong, reconnect with doubling waits | timers, network |
| MQTT packets and topics | none | serialise, deserialise, match a topic with a filter | session |
| Shadow (`src/shadow/src`) | `request_list`, `property_handle_list`, the version | register, update, delete, get, delta, yield | MQTT publish and two subscriptions; request callbacks |
| Device model (`src/dev_model/src`) | one callback per message type | report, reply, event, command | MQTT |
| OTA (`src/ota/src`) | state machine, message queue, download offsets, MD5 | report, message callback, fetch, clear, destroy | MQTT, HTTP, flash |
| HTTP (`src/utils/utils_httpc.c`, `src/http`) | connection, response counters | send a request, receive headers and body, upload a file | network |
| AT client (`src/at`) | ring buffers, the pending command and its response | execute a command, parse lines, receive data | UART, modem classes (esp8266, m26, sim800c, ec20) |
| Utilities (`src/utils`) | list, timer, JSON parser, MD5, SHA | list push/remove/iterate, countdown/expired/left | everything |
| Platform (`src/platform`) | pthread mutexes, clocks, sockets, TLS | `HAL_*` | operating system |

How they interact. The application calls `IOT_MQTT_Yield` in one thread; everything that arrives is
handled there, and message and event callbacks run in it, some of them with a lock held. The other
API calls may come from any thread, and from inside those callbacks. Shadow, device model and OTA
are clients of the MQTT API whose message callbacks run inside the yield. Nothing is persistent
except what OTA writes to flash.

What is hard here: acknowledgements matched by packet id alone and arriving late or never; a
connection lost between any two steps and the resubscription after it; four locks taken in
different orders with callbacks run under them; lists whose nodes several threads mark, remove and
free; 32-bit tick arithmetic; partial reads and writes; state machines (OTA, AT) driven by
callbacks. `PROJECT.json` lists each such place under `hazards`.

What makes each component correct:

* session: a request the application knows of is answered, refused or timed out, never forgotten;
  what was reported as subscribed is registered, once, and is sent to the broker again after a
  reconnection; no node stays in a list for ever;
* locks: no deadlock between threads or with a callback; no node is used or removed after it was
  freed; the packet in the shared write buffer is the one that is sent;
* link: a dead connection is noticed within the ping schedule, a live one is not dropped, waits
  between attempts grow to the bound and no further;
* topics and packets: matching agrees with the MQTT definition; what is read is what was written;
* shadow: each request gets exactly one result, its own; a full list refuses; a timeout frees;
* OTA: success is reported only for a complete image whose digest was compared;
* HTTP: every byte of the body is delivered once, and a connection that cannot be made is an error;
* AT: bytes leave a ring buffer in the order they entered, none twice; a command gets its response;
* timers: a countdown expires after its time and not before, over the wrap of the tick.

## 2. Plan

Modules in the order they were written; the last line is what is left.

| Module | Models | Composes with |
|---|---|---|
| `MqttSession` | requests, registrations and reconnection of one client | the broker, as choices |
| `MqttThreads` | the locks and the nodes under them, callbacks that call the API | - |
| `Ota` | announcements, cancels, the download and its report | the HTTP connection, as choices |
| `Shadow` | the pending requests of one shadow | MQTT publish and the cloud, as choices |
| `MqttLink` | ping schedule, loss of the connection, doubled waits | decides when `MqttSession` loses and regains its connection |
| `RingBuffer` | `at_ringbuff.c` with an interrupt that pushes and a thread that pops | implements `ByteFifo`, a bounded queue that loses the end of a push |
| `AtClient` | commands and their answers, the links of `esp8266.c` over a module | its `uart` is the queue of `ByteFifo` |
| `HttpClient` | `utils_httpc.c` under the download loop of `ota_client.c` | gives `Ota` its outcomes |
| `MqttPacket`, `DmPayload` | pure algorithms on packets, topics and reports | `Formats` has the reference definitions |
| `Json` | looking a path up in a text | `Lookups` has the reference definition |
| to come | the wrap of ticks in the timers, `dm_mqtt.c`'s callbacks, the other modems | |

Each module with a state has its theorems in `*_proofs`: every invariant, action property and refinement
that its runs check is one of them; `Data_proofs` has those of `RingBuffer` and of `Formats`. Section 6 says
what they rest on. Liveness is left to TLC, and so is `Lookups`: it and `Json` use RECURSIVE operators.

## 3. How the models correspond to the code

`PROJECT.json` maps each definition to its lines. Names are those of the code wherever TLA+ allows.

**`MqttSession`.** One step of the loop is one handler with its lock held from beginning to end.

| Code | Model |
|---|---|
| `list_pub_wait_ack`, `list_sub_wait_ack` | sets of nodes `[id, state, ...]`; all traversals visit every node |
| `sub_handles[MAX_SUB_TOPICS]` | function of the index; `topic = NULL` is a free entry |
| position in `uiot_mqtt_yield` | `phase`: `loop`, `pub_info`, `sub_info`, `keep_alive`, `resub` |
| `IOT_MQTT_Publish` / `Subscribe` / `Unsubscribe` | `uiot_mqtt_publish`, `_subscribe`, `_unsubscribe`; between any two steps |
| `cycle_for_read` and the handlers | `cycle_for_read`: nothing, or one answer or message of `net` |
| `uiot_mqtt_pub_info_proc`, `_sub_info_proc` | any set of waiting nodes may have expired |
| connection lost, `_handle_reconnect` | `_handle_disconnect`, `uiot_mqtt_attempt_reconnect`, `uiot_mqtt_resubscribe` one filter at a time |

`awaiting`, `reported`, `asked` and `restored` record what the application was
told; no action reads them to decide what it does. A failed publish or subscribe leaves no trace
(its node is removed again), so it is a stutter. `get_next_packet_id` takes an id that nothing uses:
the wrap onto an id that still waits, which needs 65534 draws within one timeout, is left out.

**`MqttThreads`.** A step is what a thread does between two lock operations. `pc` gives the next
lock or call; `holder` the owners of the four mutexes; `wait_ack` the lists, in order, because the
iterator (`cur`, `nxt`) fixes the next node before it returns one. `Callback(e, p)` runs a callback
of the application with whatever locks are held there; if `e \in CallFrom` it may call the API, and
the thread returns to `p`. A node that is freed and used again, or an entry's filter, is recorded
in `freed`: undefined behaviour is a state that an invariant excludes. Any write may fail. `raced`
records that a call took its node back (`RemoveOwnNode`) when the loop had removed it, or while the
loop kept a pointer to it with `lock_list_pub` released (`InWindow`); no action reads it.

**`Ota`.** `stack` holds the activations of `_ota_callback` that are downloading, since a download
yields to MQTT, whose messages run the callback again. `Start` is the path from an announcement to
the loop of `IOT_OTA_fw_download`; `IOT_OTA_FetchYield_*` are the outcomes of one try (data, a
network read of length 0, a broken connection, any other error); `IOT_OTA_IsFetchFinish`,
`CheckFirmware`, `Exit` (with `IOT_OTA_Clear`) and `_ota_pop_upload_msg` its end. Bytes are pairs of
an update and an offset or `BAD`, and a digest is the bytes it was fed. An update announced in the
yield of a download that has left `OTA_STATE_FETCHING` starts a download inside it, to any depth: the
fields `base` (what `size_fetched` was when a frame began) and `interrupted` (another download began
inside it) record that. The heap is not modelled: after a channel is freed twice the model goes on.

**`Shadow`.** `request_list` is a set since each of its traversals visits all nodes. A request is
made in two steps as in `uiot_shadow_make_request`: into the list under `request_mutex`, then
published. A message of the cloud is a type, whether its `RetCode` is 0 and whether it has a desired
part: nothing else of it affects the list. `UPDATE` stands for `UPDATE_AND_RESET_VER` too, `DELETE` for `DELETE_ALL`.

**`MqttLink`.** A pass of `uiot_mqtt_yield` is a sequence of steps, `phase` being the place between
them: reading (`ReadPacket`, `ReadNothing`, `ReadFails`), `_mqtt_keep_alive` (`NoPingDue`,
`SendPing`, `PingFails`, `GiveUp`), `_handle_disconnect`, and `_handle_reconnect` (`NoAttempt`,
`AttemptFails`, `AttemptConnects`, `Resubscribed`). A timer is the number of ticks it has left;
`passed` allows one tick a pass, for the pass reads with a short deadline. `was_manually_disconnected`
is set by `uiot_mqtt_disconnect`, which the loop itself calls on a loss, and cleared right behind the
callback: a loss is one by hand only in between. `ENABLE_INFINITE_RECONNECT` is a variable without
an assignment, so that both builds are in one run; so are the two options of the connection.
`quiet`, `sign`, `idle`, `waited`, `tries` and `cause` are what an observer of the wire knows.

**`RingBuffer` and `ByteFifo`.** Each assignment of the thread to `readpoint`, `writepoint`, the
buffer (one slot of the `memset` at a time) or the mark is a step; a byte pushed by the interrupt is
one step, for the thread cannot run inside it. The points name the slot popped or filled *last*, so
the queue is what lies behind `readpoint` up to `writepoint`. The mapping of `ImplementsFifo`: the
pop takes place when `readpoint` moves, although the byte is read one step later, and the flush when
`readpoint` is set to 0, although `writepoint` follows. `ByteFifo` lets a push into a running flush
lose or leave anything; outside of it nothing but the end of a push that finds the queue full.

**`HttpClient`.** The stream is what the server has sent and the client has not read, in pieces: two
for the status line, the length, the blank line, and one per byte of the body, which is its offset in
the file. A read takes any beginning of it. `ofc_fetch` asks for a slice, or goes on with a response
of which there is more; `_http_client_recv_response` and `HeaderLoop` read the header,
`_http_get_response_body`, `ReadBody` and `_utils_fill_rx_buf` the body, `_utils_check_deadloop`
counts the reads that find nothing. `IOT_OTA_FetchYield`, `Retry` and `Reconnect` are the outcomes of
one try. `net` is the handle: 0, open, or -1, which only plain TCP leaves behind.

**`AtClient`.** `uart` is the queue of lines the module has sent; a line knows whether the command
under way is the one it answers (`own`), which the client does not. `client_parser_Urc` is a line of
the URC table with what its functions read beyond it, `client_parser_Response` any other line,
`Timeout` the wait that ends first. The operations of `esp8266.c` are sequences of commands:
`Exec(name, link, len)` sends one and the module answers at once, in the same step, though the client
may read the answer late. `late`, `unasked`, `mixed` and `crossed` record what has gone wrong so far.

**`MqttPacket`, `DmPayload`, `Json`.** Functions of the code are operators of the same
name on sequences: bytes that arrive, characters of a topic or of a JSON text, tokens of a payload.
A loop is a recursive function of its turns (`Decoded`, `Discarded`, `Turns`, `PutAll`): what the
variables of the C loop are after each. `Formats` and `Lookups` take one input after the other and have the
reference definitions: how MQTT writes a length and matches a topic, the whole document of a report, and
the lookup of a path in an object that is a sequence of pairs. A text is looked up in the form the cloud
sends, without blanks. `MCFormats` gives `Formats` its inputs
for TLC and takes those of `Lookups` between them.

## 4. The runs

| Run | Instance | Distinct states | Shows |
|---|---|---|---|
| `session` | 1 filter, 2 callbacks (one NULL), 4 ids, 1 publish, 2 subscriptions, 2 answers under way | 289,146 | the seven invariants of the session |
| `session_live` | 1 filter (a wildcard), 2 ids, lists of 1 | 3,389 | every request ends, every node is freed |
| `session_resubscribe` | lists of 1 | stops | a resubscription that fails half way is never finished |
| `threads` | 1 caller, the yielder, 2 nodes, 2 publishes, all nine callbacks may call the API, writes that fail | 1,900,166 | lock order, write buffer, nodes |
| `threads_live` | 1 caller, 1 node, the five callbacks run without a lock may call the API, writes that fail | 240,798 | calls return, the loop goes on |
| `ota` | 3 updates (2 pieces, 1, a bad url), 4 messages, 3 tries, downloads inside each other | 111,054 | whole images, ends, queue |
| `shadow` | 3 requests, list of 2, 2 messages | 213,940 | one callback each, none forgotten, no reply left in the list |
| `link` | intervals of 0, 1 and 6 ticks, 2 pings, waits of 1 to 3, both builds | 240,616 | given up when silent and only then, back-off, return |
| `ring` | 4 slots, pushes and pops of up to 2 of 3 bytes | 580,580 | the buffer implements `ByteFifo` |
| `http` | a file of 9 in slices of 2, a buffer of 5, 1 retry, 3 tries | 13,059 | slices in order, in step, ends |
| `at` | 2 networks, 3 links, 2 with a buffer, 2 connections of 2 bytes | 2,586,186 | in step, bytes in order |
| `formats` | lengths around 127 and around the buffer, topics of 3 levels, reports of 3 properties, objects of 2 members and one inside, paths of 2 names | 211,130 | packets, topics, payloads, lookups |

Bounds, and why they are enough. Each list is small enough to be full, and there are more requests
than places. The ids of `session` are one more than the nodes its lists hold, so an answer whose
node is gone is under way while the lists are full. Two answers under way reorder; a third adds no pair. `MaxInFlight`,
`MaxMessages`, `MAX_RETRY` and the number of requests or nodes are bounds of the instance; the list
limits are constants of the code with smaller values. The array of callbacks in `session` has
exactly as many entries as there are pairs of a filter and a callback. `threads` needs two publishes
at once, because a single node never exercises the iterator; `threads_live` does with one, since the
callbacks multiply its states and the lists are `threads`' matter. The longest image has two pieces: one
range request must continue another. `MAX_RETRY = 3` allows a try that fails, one that reconnects
and the last one. Symmetry is used only in runs without liveness, over ids, callbacks, nodes and
requests, which nothing orders.

`link`: interval 0 switches the pings off, 1 makes the wait for an answer 0 (`mqtt_client_yield.c:169`
halves it), 6 lets both limits of that wait matter; the longest wait of 3 is no power of two, so that the
doubling meets it unevenly, as it does 1000 and 60000. `ring`: with four slots of which three are
filled, pushes wrap and meet the mark, and a pop of two crosses the end; one of the three bytes is
what `memset` writes. `http`: nine bytes are three slices (a range names one byte more than its
length), and one answer without `Range` needs two buffers; `BufLen` leaves the room the code has, 4100
for 4096. The comment at `ota_client.c:31` asks only for more than the slice, but up to two bytes
beyond it the buffer is full before the body is. `at`: two connections let a network reuse the link
another left; the third link has no buffer. `formats`: every length at which a field, or the decision
to keep a packet, changes; topics are checked by their characters, so "ab" against "a" is among them.

The invariant `TypeOK` of the modules added last is not among the properties of their runs: it is
what the proofs begin with. `session`, `threads`, `ota` and `shadow` check theirs because a theorem states it.

What the runs do not show, found with other values of the constants:

* with two filters and `MAX_SUB_TOPICS = 1`, `SubscribeNotForgotten` fails: a SUBACK that finds the
  array full (`mqtt_client_common.c:977`) drops its request without an event;
* with `WildTopic # {}`, `ReportedIsRegistered` fails: to unsubscribe from a wildcard filter clears
  entries of other filters (`mqtt_client_unsubscribe.c:112`);
* `NodesLive` excepts the states after `raced`, and without the exception it fails: a caller whose write
  failed removes a node (`mqtt_client_publish.c:342`) while the timeout check, having released the
  lock (`mqtt_client_yield.c:314-319`), still uses it. What it shows is that nothing else does;
* `LockOrder` excepts a call of the API from a callback that runs under a lock (`CalledUnderLock`). Such a
  call waits for its own thread, so `threads`, where every callback may make one, really stops and does
  not check for deadlock. `threads_live` makes calls from the callbacks of MESSAGE, PUBLISH_SUCCESS,
  SUBSCRIBE_SUCCESS, DISCONNECT and RECONNECT, and checks for deadlock;
* `ChannelLive` excepts, for `IOT_OTA_Clear`, a download inside which another one ran: the inner one has
  cleared the handle, and the outer one frees the same channel again (`ota_client.c:394`);
* `QueueDrains` excepts `Stranded`: an announcement whose url does not parse leaves before the queue is
  looked at;
* `ReadInOrder` and `InStep` of `AtClient` name the faults without which they hold. With one of them
  the client stays out of step for good, because nothing but a timeout ever empties the queue;
* `SlicesInOrder` needs a server that honours `Range`, or no second connection: `response_code` is
  never looked at, so a full answer to a second request is taken for the missing rest;
* `TopicsMatch` says nothing of filters with wildcards that take too much: "a/#" takes "ab" and
  "a/+/b" takes "a/" (`mqtt_client_common.c:720`).

Where the code and what is said of it disagree, beyond the finding `session_resubscribe` and found
by the same models:

* a SUBACK read after the filter was unsubscribed registers it again (`mqtt_client_common.c:981`);
* a publish from the callback of `MQTT_EVENT_PUBLISH_TIMEOUT`, which runs with `lock_list_pub` held
  (`mqtt_client_yield.c:326`), waits for its own thread;
* `uiot_mqtt_resubscribe` copies a filter (`mqtt_client_subscribe.c:189`) that an unsubscribe of another
  thread may have freed; `freed` holds `"filter"` then;
* one answer of the cloud completes every waiting request of its type, also those it does not answer
  (`shadow_client_manager.c:721`);
* an update announced while a download is past `OTA_STATE_FETCHING` starts a second one inside it
  (`ota_client.c:149`), which continues its offset and digest, so
  that the inner one cannot succeed once the outer has fetched anything, and whose `IOT_OTA_Clear` makes the outer one free the channel again;
* a connection whose resubscription fails is never reported with `MQTT_EVENT_RECONNECT`.

`CHECK_DEADLOCK FALSE` is set for `threads`, as said above, for `Ota` and `Shadow`, whose environments may have nothing left to say,
for `HttpClient`, which ends with the download, and for `AtClient`, whose connections are bounded.

## 5. Fairness

* `MqttSession`: the application yields on (WF on the loop); the network lets it connect, and read
  without an error, again and again (SF); the timer of a node runs out by itself, so the check that
  comes round again and again finds it expired (SF).
* `MqttThreads`: SF for each thread. A mutex is released again and again and asked for by finitely
  many threads; the code relies on the scheduler not starving one of them. That is an assumption on
  pthreads, not a guarantee of POSIX.
* `Ota`: WF on the download. Its network calls have timeouts and `IOT_OTA_Yield` returns. The
  broker is not fair.
* `Shadow`: WF on threads, on the handling of a message once begun, and on timers. SF on the
  expiry check: each call of `IOT_Shadow_Yield` begins with it, and the application calls it
  again and again. The cloud is not fair.

* `MqttLink`: WF on time, on the application that calls `IOT_MQTT_Yield` again and on the loop; SF on
  the attempt that connects, since attempts are made again and again and the network is taken to
  come back. `LostLinkComesBack` is claimed only of builds that try without end.
* `HttpClient`: WF on the step of the one thread there is. Inside a header the server has to go on or
  the connection to break, because that loop has no time limit (`utils_httpc.c:342`); inside a body
  nothing is asked of it. `RingBuffer` and `AtClient` have no liveness properties.

## 6. What is proved

All proofs hold for every value of the constants that satisfies the `ASSUME` of the module.

**`MqttSession_proofs`.** `TypeCorrect` is inductive. `PublishesRemembered` is inductive given
types: the step that takes a waiting publish from the list is the one that clears `awaiting`.
`NoCopiesOfHandles` is inductive given types,
with a lemma for the two operations that write the array. `ReportedStaysRegistered` assumes
`WildTopic = {}` for the reason above. `RestoredMeansComplete` needs a strengthening: nothing is
under way without a connection; during a resubscription the entries before `itr` have been asked
for; and a SUBACK under way is for a filter asked for on *this* connection. The last part is why ids
must be fresh: an old answer would register a filter that was not asked for.
`ReportedGetsItsMessages` follows from `ReportedStaysRegistered`: the entry of a report is there, so
the set of entries for its filter has a least one, which is the one `_deliver_message` takes; it
assumes `WildTopic = {}` too. `SubscribesRemembered` is inductive together with types, distinct
handles and `AnswersMatch` (an answer under way is of the kind of the request that waits under its
id, which again needs fresh ids). It assumes `ArrayHasRoom`, no more pairs of a filter and a callback
than entries, under which a SUBACK finds the array full only for what is registered already; section
4 says what happens otherwise.

**`MqttThreads_proofs`.** `IInv` adds to the types where each thread can be (`Places`, `Calling`),
that a thread between locking and unlocking holds `lock_write_buf` (`WriteBufHeld`) and that the
buffer is its own (`Serialised`), and that a node that was not sent is not answered (`OwnUnsent`,
`Answering`). `TypeCorrect` and `PacketsStayIntact` follow, for any number of threads.
`LocksAreOrdered` and `NoThreadWaitsForItself` add that the locks held across a step are held by the loop
alone, where `HeldAt` says, also while a callback it runs there calls the API (`LoopHolds`, with `At`
the place the loop will return to), and that `lock_write_buf` is held between its two points only
(`WriteBufInside`). They need no assumption on the callbacks: the exception of `CalledUnderLock` is
in the properties, and is exactly the states in which the thread waits for itself.
`NodesStayLive` adds that the lists hold live nodes of their own kind, each once (`Lists`), and, until
`raced`, where the iterator stands (`Iterators`): before a node that is listed, and past one that stays
listed until the loop removes it. Both hold while the loop is inside a callback that calls the API,
which is why new nodes are appended behind the iterator; and a call that takes its own node back
outside of the window finds it listed and not under the iterator. It assumes nothing of the writes.

**`Shadow_proofs`.** `IInv` is the types, that a publishing thread has a request (`Publishing`),
that a request not yet made is nowhere (`Unmade`), that one that was made waits or was answered
(`Accounted`), that what was sent was made, and `AnsweredOnce`. The last needs `Unmade`: otherwise a
request could enter the list with its callback already called. `TypeCorrect`, `CalledBackOnce`,
`PublishedIsNotForgotten` and `RepliesLeaveAtOnce` follow. The last says that the requests
`_handle_delta` makes, which no message answers, are out of the list when the yielding thread is out of
the handler, since the traversal behind it completes them: only calls of the application fill the list.

**`Ota_proofs`.** Downloads may begin inside each other to any depth. `IInv` says that every download
below the top waits in its yield and was interrupted there (`Waiting`), and what the handle is for the
one on top (`Good`): as long as it fetches, the handle names its update, the offset is what it began
with and what it got, and the file is the digest behind that (`Agrees`); one that was cancelled, or
whose handle another one has cleared, is in its yield or before a first try, where it is refused
(`Stops`); its channel is live until `IOT_OTA_Clear`, unless another one ran inside it (`Channel`); and
between downloads offset and digest are blank (`Clean`), since the next one does not reset them.
`Stops` is what keeps a cancelled or interrupted image from being reported, and it needs that a fetch
starts with its first try: later tries do not look at the state. A download inside another begins
with the offset of the other; since the digest holds the bytes of both (`Counted`), its own file is a
proper end of it and what is reported is the whole image only for one that began with a clean handle.
`TypeCorrect`, `DownloadsAreConsistent`, `ReportsAreOfWholeImages` and `ChannelIsNotFreedTwice` follow,
for any sizes, number of tries, queue and messages.

**`MqttLink_proofs`.** `IInv` relates the client's timers to what an observer counts. `QuietSoFar`:
the silence so far and what the ping timer has left make at least the waits of the pings sent since
the last sign of life, plus the interval if that sign was an answer. `IdleSoFar`: they make at most that,
and one tick for each ping, by which an expired timer is noticed late. `WaitedSoFar`: without a
connection the reconnect interval is `Backoff` of the failures so far, and what was waited and what
the timer has left make it up; `Places` says which variables are idle where. The first gives
`SilentConnectionsAreGivenUp`, the second `GoneBrokersAreNoticed`, the third
`AttemptsKeepTheirDistance`, for any intervals, waits and number of pings. `TypeCorrect` bounds the
reconnect interval by twice the maximum, which a build without endless reconnection does reach
(`mqtt_client_yield.c:100-106`); `IntervalIsCapped` says that other builds stay within the maximum, and
that the timer does in all. The `ASSUME` asks for a longest
interval among those an application uses, since the counters of the observer are bounded by it.
`Backoff` is a recursive function. That it exists, stays below the maximum and reaches it is proved
by induction over a set of numbers, from the least element `WFMin` gives (`SetInduction`); the induction
theorems of the library, which take an operator, cannot be used.

**`Data_proofs`, of `RingBuffer`.** `TypeCorrect` is inductive with two facts about the running call. For
`RingImplementsFifo`, `Placed` says that the slots behind `readpoint` up to `writepoint` are different
from each other and from `readpoint`, whatever the wrap; so a byte pushed lands in none that holds
another (`ContentsPushed`), and a step of `readpoint` takes off the first. Each step is then one of
`ByteFifo` or a stutter, the bounded size and what a push into a running flush may lose included.

**`HttpClient_proofs`.** `IInv` follows a response through `pc`. `Heading`: a header is read from
the response that was asked for, with nothing before it. `Within`: in a body the pieces ahead are
those left to retrieve, and are the next bytes of the file; with `Range` they fit the buffer and
nothing follows them, without it they reach to the end of the file. `Filled`: the buffer holds the bytes
before them. `Fresh`: a request that goes on with no body meets an empty connection, which is what
closing it after every error (`Closed`) is for. `DownloadsInOrder`, `StaysInStep` and `TypeCorrect`
(the buffer of the caller is not overrun) follow for any sizes. They need `RangeLen + 3 <= BufLen`,
which the code's 4096 and 4100 satisfy; with less, the buffer is full before a body of a range is.

**`AtClient_proofs`.** `StepInv` has the types and `Room` (what the command under way says of its
link and its network, faults or not: a start ends with a link that was free when it began, a transfer
is on the link of a connected network), and two parts that hold in time, that is before a command has run out of
time and before a peer has closed a link. `Queue`: the queue of a command under way holds the line
that ends it, its own, behind nothing but lines OK left of earlier answers, and these only if OK does
not end the command; when none is under way, only such lines are left, and none where a command
follows that they would end. `Agree`: both sides hold the same links as open, but for the link that
CIPSTART or CIPCLOSE is about. Each operation needs both: CIPCLOSE is answered with CLOSED only because
the module has the link open, and ERROR would end it for the wrong reason. `StaysInStep` follows, for any
networks, links and peers.
`ReadsArriveInOrder` has an invariant of its own, `ReadInv`, which holds with commands out of time and
links closed by peers until these have done their damage. `Keeps`: what the module keeps of a
connection is what follows the bytes it has given away. `Owned`: no two networks use one link, and none
uses the link that is being closed or has just been opened. `Streams` then follows the bytes: a new link has given
none away and its buffer is empty (`Starts`, which is what `at_client_tcp_init` is for); the number the
client was told of stays there to be had, as only the client takes bytes away (`Counts`); so the answer to
the query has all that were asked for, or none, and nothing of another answer is taken for data (`Reads`);
and between two reads the buffer of the link is empty and the module goes on where the caller is (`Flow`).
TLC checked `ReadInv` on the instance of `At.cfg` before it was proved.

**`Data_proofs`, of `Formats`.** The inputs have no bound but their types: `PacketsReadWhole` holds for any
length a packet can have (up to 268435455) and any read buffer of two bytes or more, `MessagesReachHandlers`
for any number of levels of any characters but the separator and the wildcards, `ReportsPublishedWhole` for any
properties, keys and limit of the buffers. Each says that a loop of the code computes what a definition without
a loop says, so each rests on a fact about every turn:

* packets: `DecodedIs` (after `i` digits the value is the length modulo `128^i`, by `SoNext`), `Encoded` (what
  is written is the field MQTT asks for), and `DiscardedIs` (after `i` pieces `i` buffers are read away, or all of the
  packet). `FramesAreKept` goes through the refusals of `_read_mqtt_packet`;
* topics: `Layouts` says where in the text each level begins. By `Walk`, the loop is at every turn at places of
  the filter and the topic that belong to the same level, or it is left where `Taken` holds; it moves in the filter
  at every turn but the last, so it has come to an end after as many turns as the filter has characters.
  The converse, that a filter without wildcards takes only its own topic, is `PlainFilter`;
* reports: `Holds` (the buffer has what is written, or is full; the remaining size is the limit less what is
  written, be it negative) goes from one piece to the next, and `Faithful` from members to
  properties to documents. The reply to a command checks its length with `>` where the others have `>=`; the
  theorem has its one case, and no other.

That a recursive function is what its definition says has to be proved, too: such a function is chosen, and is
one only if there is one. `LoopExists` exhibits it for a loop of any number of turns. It and every induction over
the turns use `UpTo`, which is proved from the least element of a set of numbers (`LeastElement`).

Only model-checked: all liveness, which is beyond TLAPS here, and `ValueIsFound`, whose search for the
end of a value and whose path of names are RECURSIVE operators.

## 7. What is not modelled

* MQTT: `IOT_MQTT_Construct` and `IOT_MQTT_Destroy`, and with it a disconnection the application
  asks for; several yielding threads; QoS 2; the fields of single packets. In the code an UNSUBACK after its timeout
  leaves `messageHandler` uninitialised and frees its `topic_filter` (`mqtt_client_common.c:1018`);
  `MqttSession` reaches the situation and takes the handler's other effects. A read that brings a part
  of a payload in its time is taken for the whole; `FramesKept` has packets that arrive.
* OTA: JSON, progress and version reports, `IOT_OTA_Destroy` (which frees `ch_fetch` again after
  `IOT_OTA_Clear`), failing allocations.
* Shadow: documents, versions, registered properties, callbacks that make a request (they would
  wait for `request_mutex` with their own thread). A full list refuses a request silently, because
  line 231 of `shadow_client_manager.c` overwrites the error: the request goes out and is never
  answered. `refused` names these.
* HTTP: urls, the callers that read one response (`http_client.c`) and the upload, which are scripts
  without state of their own. `uiot_export_ota.h` says that 0 means nothing was there in time; the code
  returns an error and closes, and the model follows the code.
* AT: several threads (the lock covers a command, not an operation), the splitting of characters
  into lines, `m26.c`, `sim800c.c` and `ec20.c`. They repeat the scheme of `esp8266.c` with other
  commands; `m26.c` and `sim800c.c` pop from their buffers without a lock, which `RingBuffer` covers.
  It takes the producer to be the receive interrupt of `platform/module/hal_at.c`; in a build where
  it is a task, a push could be seen half done. With no link free the code goes on beyond its arrays;
  `HAL_AT_TCP_Connect` is not taken then.
* Device model: registration, and the callbacks of replies, which hand a message on. In `DmPayload`
  a piece that finds no room is written beyond the buffer before the whole is refused, because a
  negative remaining size reaches `HAL_Snprintf` as a large one: memory is not in the model.
* JSON: blanks, brackets inside strings (they mislead the search for the closing one), numbers;
  digests and string functions, which test vectors cover better.
* Timers over the wrap of their tick, TLS, sockets, flash: taken as they behave on Linux, or as choices.
* `src/external_libs` is mbedtls and googletest, vendored: nine tenths of the lines of the repository.
  Neither is logic of this SDK, so the models map a small share of all lines and most of what
  `src/src` holds of state.
