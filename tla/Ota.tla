-------------------------------- MODULE Ota --------------------------------
(***************************************************************************)
(* The firmware update of one OTA handle (src/ota/src/ota_client.c).       *)
(*                                                                         *)
(* A download runs inside the callback of the MQTT message that asks for   *)
(* it.  After every piece the download yields to MQTT to hear of a cancel, *)
(* so further messages are handled inside it: stack holds the activations  *)
(* of _ota_callback that download, the innermost last.  A byte is a pair   *)
(* of an update and an offset, or BAD; a digest is the bytes fed to it.    *)
(***************************************************************************)
EXTENDS Naturals, Sequences, SequencesExt

CONSTANTS
  Update,       \* the updates a broker may announce: url, module, version
  Size,         \* by update: the file size its announcement gives
  BadUrl,       \* updates whose url http_client_connect refuses to parse
  BAD,          \* a byte that is not of the image
  NULL,
  MAX_RETRY,    \* tries of IOT_OTA_FetchYield (5 in the code)
  MaxMessages   \* bound: messages of the broker

ASSUME OtaAssumption ==
  /\ Size \in [Update -> Nat \ {0}]
  /\ BadUrl \subseteq Update
  /\ NULL \notin Update
  /\ BAD \notin Update \X (Nat \ {0})
  /\ MAX_RETRY \in Nat \ {0} /\ MaxMessages \in Nat

Byte == Update \X (Nat \ {0}) \cup {BAD}

Image(u) == [i \in 1..Size[u] |-> <<u, i>>]

State == {"INITED", "FETCHING", "FETCHED", "DISCONNECTED"}

\* An activation of _ota_callback with IOT_OTA_fw_download in it: update, tries
\* of the current fetch and total_length.  Three fields are history: whether a
\* cancel named its update, size_fetched when it began, and whether another
\* download began inside it.
Frame == [update : Update, pc : {"fetch", "yield", "check", "exit", "pop"},
          tries : 0..(MAX_RETRY - 1), total : Nat, ok : BOOLEAN,
          cancelled : BOOLEAN, base : Nat, interrupted : BOOLEAN]

VARIABLES
  state,
  cur,           \* url, module, version, md5sum and size_file; NULL if blank
  ch_fetch,      \* "NULL", "live" or "freed": the channel it points to
  link,          \* of ch_fetch: "up", "down" (connect failed), "closed"
  size_fetched,
  md5,           \* the bytes digested
  msg_list,      \* updates that wait
  stack,
  flash,         \* by update: the file it is written to
  reported,      \* OTA_REPORT_SUCCESS: the update, its file, whether cancelled
  messages

handle == <<state, cur, ch_fetch, link, size_fetched, md5>>
vars == <<handle, msg_list, stack, flash, reported, messages>>

TypeOK ==
  /\ state \in State
  /\ cur \in Update \cup {NULL}
  /\ ch_fetch \in {"NULL", "live", "freed"}
  /\ link \in {"up", "down", "closed"}
  /\ size_fetched \in Nat
  /\ md5 \in Seq(Byte)
  /\ msg_list \in Seq(Update)
  /\ stack \in Seq(Frame)
  /\ flash \in [Update -> Seq(Byte)]
  /\ reported \subseteq [update : Update, file : Seq(Byte), cancelled : BOOLEAN]
  /\ messages \in 0..MaxMessages

Init ==
  /\ state = "INITED" /\ cur = NULL /\ ch_fetch = "NULL" /\ link = "closed"
  /\ size_fetched = 0 /\ md5 = <<>>
  /\ msg_list = <<>> /\ stack = <<>>
  /\ flash = [u \in Update |-> <<>>]
  /\ reported = {}
  /\ messages = 0

----------------------------------------------------------------------------
(* Messages. *)

Top == Last(stack)

SetTop(f) == stack' = Front(stack) \o <<f>>

\* The thread is in IOT_MQTT_Yield, called by the application or by a download.
Yielding == stack # <<>> => Top.pc = "yield"

Interrupt(below) ==
  IF below = <<>> THEN <<>>
  ELSE Front(below) \o <<[Last(below) EXCEPT !.interrupted = TRUE]>>

_ota_push_upload_msg(u) ==
  /\ msg_list' = Append(msg_list, u)
  /\ UNCHANGED <<handle, stack, flash>>

\* The update starts on top of the activations below; size_fetched and md5 are
\* as the last download left them.  The file may not open.
Start(u, below) ==
  /\ cur' = u
  /\ ch_fetch' = "live"
  /\ IF u \in BadUrl
     THEN /\ state' = "DISCONNECTED" /\ link' = "closed"
          /\ stack' = below
          /\ UNCHANGED flash
     ELSE /\ state' = "FETCHING" /\ link' \in {"up", "down"}
          /\ \E opened \in BOOLEAN :
               /\ stack' = Append(Interrupt(below),
                    [update |-> u, pc |-> IF opened THEN "fetch" ELSE "exit",
                     tries |-> 0, total |-> 0, ok |-> opened, cancelled |-> FALSE,
                     base |-> size_fetched, interrupted |-> FALSE])
               /\ flash' = IF opened THEN [flash EXCEPT ![u] = <<>>] ELSE flash
  /\ UNCHANGED <<size_fetched, md5>>

\* Only OTA_STATE_FETCHING makes an update wait: one that comes in the yield
\* after the last piece, or after a cancel, starts inside the other download.
_ota_callback_Update(u) ==
  /\ Yielding /\ messages < MaxMessages
  /\ messages' = messages + 1
  /\ \/ state = "FETCHING" /\ _ota_push_upload_msg(u)
     \/ state # "FETCHING" /\ Start(u, stack) /\ UNCHANGED msg_list
  /\ UNCHANGED reported

\* A cancel counts only for the update in the handle.
_ota_callback_Cancel(u) ==
  /\ Yielding /\ messages < MaxMessages
  /\ messages' = messages + 1
  /\ IF ch_fetch # "NULL" /\ cur = u
     THEN state' = "DISCONNECTED" /\ link' = "closed"
     ELSE UNCHANGED <<state, link>>
  /\ IF stack # <<>>
     THEN SetTop([Top EXCEPT !.cancelled = @ \/ Top.update = u])
     ELSE UNCHANGED stack
  /\ UNCHANGED <<cur, ch_fetch, size_fetched, md5, msg_list, flash, reported>>

----------------------------------------------------------------------------
(* IOT_OTA_fw_download. *)

At(p) == stack # <<>> /\ Top.pc = p

Fail == SetTop([Top EXCEPT !.pc = "exit", !.ok = FALSE, !.tries = 0])

\* Mutants: a try that is counted but not bounded; one that is not counted.
NextTry_Unbounded == SetTop([Top EXCEPT !.tries = @ + 1])

NextTry_NotCounted == UNCHANGED stack

NextTry == IF Top.tries + 1 = MAX_RETRY
           THEN Fail
           ELSE SetTop([Top EXCEPT !.tries = @ + 1])

IOT_OTA_FetchYield_Refused ==
  /\ At("fetch") /\ Top.tries = 0 /\ state # "FETCHING"
  /\ Fail
  /\ UNCHANGED <<handle, msg_list, flash, reported, messages>>

Fetching == At("fetch") /\ (Top.tries = 0 => state = "FETCHING")

\* What the range request returns: the next bytes of the file, or what a server
\* sends instead, whose status is not looked at.
Piece == {SubSeq(Image(cur), size_fetched + 1, i) : i \in size_fetched + 1 .. Size[cur]}
         \cup {<<BAD>>, <<BAD, BAD>>}

IsFetched == size_fetched' >= Size[cur]

\* A piece arrives, is digested, and is written unless HAL_Download_Write fails.
IOT_OTA_FetchYield_Data ==
  /\ Fetching /\ link = "up"
  /\ \E d \in Piece, written \in BOOLEAN :
       /\ md5' = md5 \o d
       /\ size_fetched' = size_fetched + Len(d)
       /\ state' = IF IsFetched THEN "FETCHED" ELSE state
       /\ IF written
          THEN /\ flash' = [flash EXCEPT ![Top.update] = @ \o d]
               /\ SetTop([Top EXCEPT !.pc = "yield", !.tries = 0, !.total = @ + Len(d)])
          ELSE Fail /\ UNCHANGED flash
  /\ UNCHANGED <<cur, ch_fetch, link, msg_list, reported, messages>>

IOT_OTA_FetchYield_Empty ==
  /\ Fetching /\ link = "up"
  /\ Fail
  /\ UNCHANGED <<handle, msg_list, flash, reported, messages>>

\* Mutant: the channel is freed and not initialised again.
IOT_OTA_FetchYield_Reconnect_NoInit ==
  /\ Fetching /\ link # "closed"
  /\ state' = "FETCHING" /\ ch_fetch' = "freed" /\ link' \in {"up", "down"}
  /\ NextTry
  /\ UNCHANGED <<cur, size_fetched, md5, msg_list, flash, reported, messages>>

\* ERR_HTTP_CONN_ERROR: a new channel for the same url.
IOT_OTA_FetchYield_Reconnect ==
  /\ Fetching /\ link # "closed"
  /\ state' = "FETCHING" /\ ch_fetch' = "live" /\ link' \in {"up", "down"}
  /\ NextTry
  /\ UNCHANGED <<cur, size_fetched, md5, msg_list, flash, reported, messages>>

\* Any other error: http_client_recv_data has closed the connection, and
\* without one every further try fails.
IOT_OTA_FetchYield_Failed ==
  /\ Fetching /\ link # "down"
  /\ state' = "FETCHED" /\ link' = "closed"
  /\ NextTry
  /\ UNCHANGED <<cur, ch_fetch, size_fetched, md5, msg_list, flash, reported, messages>>

\* IOT_OTA_Yield returns: the loop of the download goes on or ends.
IOT_OTA_IsFetchFinish ==
  /\ At("yield")
  /\ SetTop([Top EXCEPT !.pc = IF state = "FETCHED" THEN "check" ELSE "fetch"])
  /\ UNCHANGED <<handle, msg_list, flash, reported, messages>>

\* Mutant: the digest is not compared.
Valid_LengthOnly == cur # NULL

Valid == cur # NULL /\ md5 = Image(cur)

\* Only a file of the announced length is checked; what differs in length ends
\* without a report.  HAL_Download_End comes after the report and may fail.
CheckFirmware ==
  /\ At("check")
  /\ IF Top.total = Size[Top.update] /\ Valid
     THEN /\ reported' = reported \cup
                {[update |-> cur, file |-> flash[Top.update], cancelled |-> Top.cancelled]}
          /\ \E ended \in BOOLEAN : SetTop([Top EXCEPT !.pc = "exit", !.ok = ended])
     ELSE /\ SetTop([Top EXCEPT !.pc = "exit", !.ok = Top.total # Size[Top.update]])
          /\ UNCHANGED reported
  /\ UNCHANGED <<handle, msg_list, flash, messages>>

\* Mutant: the digest of the last download is kept.
IOT_OTA_Clear_KeepsDigest ==
  /\ ch_fetch' = "freed" /\ link' = "closed"
  /\ cur' = NULL
  /\ size_fetched' = 0
  /\ UNCHANGED md5

IOT_OTA_Clear ==
  /\ ch_fetch' = "freed" /\ link' = "closed"
  /\ cur' = NULL
  /\ size_fetched' = 0
  /\ md5' = <<>>

Exit ==
  /\ At("exit")
  /\ IOT_OTA_Clear
  /\ state' = IF Top.ok THEN "INITED" ELSE "DISCONNECTED"
  /\ SetTop([Top EXCEPT !.pc = "pop"])
  /\ UNCHANGED <<msg_list, flash, reported, messages>>

\* Mutant: only a download that succeeded starts the next one.
_ota_pop_upload_msg_IfDone ==
  /\ At("pop")
  /\ IF msg_list = <<>> \/ state = "DISCONNECTED"
     THEN /\ stack' = Front(stack)
          /\ UNCHANGED <<handle, msg_list, flash>>
     ELSE /\ msg_list' = Tail(msg_list)
          /\ Start(Head(msg_list), Front(stack))
  /\ UNCHANGED <<reported, messages>>

\* The callback of the first update that waits takes the place of this one.
_ota_pop_upload_msg ==
  /\ At("pop")
  /\ IF msg_list = <<>>
     THEN /\ stack' = Front(stack)
          /\ UNCHANGED <<handle, msg_list, flash>>
     ELSE /\ msg_list' = Tail(msg_list)
          /\ Start(Head(msg_list), Front(stack))
  /\ UNCHANGED <<reported, messages>>

IOT_OTA_fw_download ==
  \/ IOT_OTA_FetchYield_Refused \/ IOT_OTA_FetchYield_Data \/ IOT_OTA_FetchYield_Empty
  \/ IOT_OTA_FetchYield_Reconnect \/ IOT_OTA_FetchYield_Failed
  \/ IOT_OTA_IsFetchFinish \/ CheckFirmware \/ Exit \/ _ota_pop_upload_msg

Next ==
  \/ \E u \in Update : _ota_callback_Update(u) \/ _ota_callback_Cancel(u)
  \/ IOT_OTA_fw_download

Spec == Init /\ [][Next]_vars

\* The thread goes on: calls of the network time out, so does IOT_OTA_Yield.
FairSpec == Spec /\ WF_vars(IOT_OTA_fw_download)

----------------------------------------------------------------------------
(* Properties. *)

Active == state \in {"FETCHING", "FETCHED"}

\* While a download goes on, the handle is its own, and offset, digest and file
\* agree: the next range continues the file, and the digest ends in what was
\* written.  A download that began inside another continues the offset and the
\* digest of that one; no other download begins with bytes in the handle.
DownloadConsistent ==
  (At("fetch") \/ At("yield") \/ At("check")) /\ Active =>
    /\ cur = Top.update
    /\ size_fetched = Len(md5) /\ size_fetched = Top.base + Top.total
    /\ flash[Top.update] = SubSeq(md5, Top.base + 1, Len(md5))
    /\ Len(stack) = 1 => Top.base = 0

\* OTA_REPORT_SUCCESS is sent only for a file that is the whole image, and not
\* for a download the broker had cancelled.
SuccessIsWhole ==
  \A r \in reported : r.file = Image(r.update) /\ ~r.cancelled

\* No request is sent on a freed channel, and IOT_OTA_Clear finds the channel
\* of its download live, unless a download that began inside this one has
\* cleared the handle before.
ChannelLive ==
  /\ Fetching => ch_fetch = "live"
  /\ stack # <<>> /\ Top.pc # "pop" /\ ~Top.interrupted => ch_fetch = "live"

\* A download ends: retries are bounded and a cancel stops it.
DownloadEnds == stack # <<>> ~> stack = <<>>

\* An update that waits is started when its turn comes; only one whose url
\* cannot be parsed leaves those behind it in the queue.
Stranded == stack = <<>> /\ cur \in BadUrl
QueueDrains == msg_list # <<>> ~> msg_list = <<>> \/ Stranded
=============================================================================
