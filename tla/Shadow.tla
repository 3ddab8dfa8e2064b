------------------------------- MODULE Shadow -------------------------------
(***************************************************************************)
(* The requests of one device shadow (src/shadow/src/shadow_client_manager *)
(* and shadow_client).                                                     *)
(*                                                                         *)
(* The threads of App make requests; Yielder runs IOT_Shadow_Yield, which  *)
(* expires requests and handles what the cloud sends.  Messages of the     *)
(* cloud come in order, and may come twice; requests and answers may be    *)
(* lost.  Properties, documents and versions are left out: what a message  *)
(* does to the pending requests depends on its method, its result and      *)
(* whether its desired part is empty.  Every traversal of the list visits  *)
(* all of its nodes, so the list is a set.  The callbacks, which run under *)
(* request_mutex, make no request.                                         *)
(***************************************************************************)
EXTENDS Naturals, Sequences, FiniteSets, SequencesExt

CONSTANTS
  App, Yielder, \* threads
  Request,      \* the requests that may be made, each once
  AppMethod,    \* the methods the application uses
  NULL,
  MAX_APPENDING_REQUEST_AT_ANY_GIVEN_TIME,
  ControlCodes, \* may a control message have RetCode 0, or not?
  MaxMessages   \* bound: messages of the cloud

Thread == App \cup {Yielder}

Reply  == {"REPLY_CONTROL_UPDATE", "REPLY_CONTROL_DELETE"}
\* UPDATE stands for UPDATE_AND_RESET_VER too, DELETE for DELETE_ALL.
Method == {"GET", "UPDATE", "DELETE"} \cup Reply
Ack    == {"ACK_TIMEOUT", "ACK_REJECTED", "ACK_ACCEPTED"}

\* get_reply on one topic, reply and control on the other: whether its RetCode
\* is 0, and whether its desired part names a property.
Message == [type : {"GET_REPLY", "REPLY", "CONTROL"}, accepted : BOOLEAN, desired : BOOLEAN]

ASSUME ShadowAssumption ==
  /\ Yielder \notin App
  /\ NULL \notin Request \cup Message \cup Method \cup {"accepted", "rejected"}
  /\ MAX_APPENDING_REQUEST_AT_ANY_GIVEN_TIME \in Nat \ {0}
  /\ AppMethod \subseteq {"GET", "UPDATE", "DELETE"}
  /\ ControlCodes \subseteq BOOLEAN
  /\ MaxMessages \in Nat

VARIABLES
  request_list,       \* the requests that wait for their answer
  method,             \* by request: its method; NULL before it is made
  expired,            \* requests of the list whose timer has run out
  cloud_send_method,
  pc, req,            \* what a thread does next, and the request it makes
  msg,                \* the message the yielding thread handles
  downstream,         \* messages on their way to the device
  messages,
  acks,               \* by request: the calls of its callback
  sent, refused,      \* requests published; requests the full list refused
  verdict             \* by request: what the cloud decided, or NULL

device == <<request_list, method, expired, cloud_send_method, acks, refused>>
cloud  == <<downstream, messages, sent, verdict>>
vars   == <<device, pc, req, msg, cloud>>

TypeOK ==
  /\ request_list \subseteq Request /\ IsFiniteSet(request_list)
  /\ Cardinality(request_list) <= MAX_APPENDING_REQUEST_AT_ANY_GIVEN_TIME
  /\ method \in [Request -> Method \cup {NULL}]
  /\ expired \subseteq Request
  /\ cloud_send_method \in Method
  /\ pc \in [Thread -> {"idle", "publish", "traverse"}]
  /\ req \in [Thread -> Request \cup {NULL}]
  /\ msg \in Message \cup {NULL}
  /\ downstream \in Seq(Message)
  /\ messages \in 0..MaxMessages
  /\ acks \in [Request -> Seq(Ack)]
  /\ sent \subseteq Request /\ refused \subseteq Request
  /\ verdict \in [Request -> {"accepted", "rejected", NULL}]

Init ==
  /\ request_list = {}
  /\ method = [r \in Request |-> NULL]
  /\ expired = {}
  /\ cloud_send_method = "GET"
  /\ pc = [t \in Thread |-> "idle"]
  /\ req = [t \in Thread |-> NULL]
  /\ msg = NULL
  /\ downstream = <<>> /\ messages = 0
  /\ acks = [r \in Request |-> <<>>]
  /\ sent = {} /\ refused = {}
  /\ verdict = [r \in Request |-> NULL]

----------------------------------------------------------------------------
(* Making a request: first the list, then the publish. *)

\* Mutant: the list has no limit.
Full_Never == FALSE

Full == Cardinality(request_list) >= MAX_APPENDING_REQUEST_AT_ANY_GIVEN_TIME

\* uiot_shadow_make_request goes on when the list is full.
shadow_add_request_to_list(t, r, m) ==
  /\ method[r] = NULL
  /\ method' = [method EXCEPT ![r] = m]
  /\ req' = [req EXCEPT ![t] = r]
  /\ pc' = [pc EXCEPT ![t] = "publish"]
  /\ IF Full
     THEN refused' = refused \cup {r} /\ UNCHANGED request_list
     ELSE request_list' = request_list \cup {r} /\ UNCHANGED refused

MakeRequest(t, r, m) ==
  /\ t \in App /\ pc[t] = "idle" /\ m \in AppMethod
  /\ shadow_add_request_to_list(t, r, m)
  /\ UNCHANGED <<expired, cloud_send_method, acks, msg, cloud>>

\* Mutant: the handler returns when it has answered the delta.
uiot_shadow_make_request_Return(t) ==
  /\ pc[t] = "publish"
  /\ \/ UNCHANGED <<cloud_send_method, sent>>
     \/ /\ cloud_send_method' = method[req[t]]
        /\ sent' = sent \cup {req[t]} \/ sent' = sent
  /\ pc' = [pc EXCEPT ![t] = "idle"]
  /\ req' = [req EXCEPT ![t] = NULL]
  /\ UNCHANGED <<request_list, method, expired, acks, refused, msg, downstream,
                 messages, verdict>>

\* The request stays in the list when its document does not fit its buffer and
\* when the publish fails.  Then make_request returns to the application, or to
\* the handler that called it.
uiot_shadow_make_request(t) ==
  /\ pc[t] = "publish"
  /\ \/ UNCHANGED <<cloud_send_method, sent>>
     \/ /\ cloud_send_method' = method[req[t]]
        /\ sent' = sent \cup {req[t]} \/ sent' = sent
  /\ pc' = [pc EXCEPT ![t] = IF t = Yielder THEN "traverse" ELSE "idle"]
  /\ req' = [req EXCEPT ![t] = NULL]
  /\ UNCHANGED <<request_list, method, expired, acks, refused, msg, downstream,
                 messages, verdict>>

----------------------------------------------------------------------------
(* IOT_Shadow_Yield. *)

\* Mutant: the list is emptied after the callbacks of done.
Complete_Clears(done, ack) ==
  /\ request_list' = {}
  /\ acks' = [r \in Request |->
                IF r \in done /\ method[r] \notin Reply
                THEN Append(acks[r], ack) ELSE acks[r]]
  /\ expired' = expired \ done

\* The callbacks of the requests in done get ack; all of them leave the list.
Complete(done, ack) ==
  /\ request_list' = request_list \ done
  /\ acks' = [r \in Request |->
                IF r \in done /\ method[r] \notin Reply
                THEN Append(acks[r], ack) ELSE acks[r]]
  /\ expired' = expired \ done

\* Mutants: expired requests are called and stay; the iterator misses the last
\* node.
_handle_expired_request_Stay ==
  /\ pc[Yielder] = "idle" /\ request_list \cap expired # {}
  /\ acks' = [r \in Request |->
                IF r \in request_list \cap expired /\ method[r] \notin Reply
                THEN Append(acks[r], "ACK_TIMEOUT") ELSE acks[r]]
  /\ UNCHANGED <<request_list, method, expired, cloud_send_method, refused, pc, req, msg, cloud>>

_handle_expired_request_NotLast ==
  /\ pc[Yielder] = "idle" /\ request_list \cap expired # {} /\ Cardinality(request_list) > 1
  /\ Complete(request_list \cap expired, "ACK_TIMEOUT")
  /\ UNCHANGED <<method, cloud_send_method, refused, pc, req, msg, cloud>>

_handle_expired_request ==
  /\ pc[Yielder] = "idle" /\ request_list \cap expired # {}
  /\ Complete(request_list \cap expired, "ACK_TIMEOUT")
  /\ UNCHANGED <<method, cloud_send_method, refused, pc, req, msg, cloud>>

\* A reply that reports a failure is dropped.
Arrives(m) ==
  /\ pc[Yielder] = "idle" /\ downstream # <<>> /\ m = Head(downstream)
  /\ downstream' = Tail(downstream)

HasDelta(m) == m.type # "REPLY" /\ m.desired

Dropped(m) == m.type = "REPLY" /\ ~m.accepted

topic_handler_NoDelta(m) ==
  /\ Arrives(m) /\ ~HasDelta(m)
  /\ IF Dropped(m)
     THEN UNCHANGED <<msg, pc>>
     ELSE msg' = m /\ pc' = [pc EXCEPT ![Yielder] = "traverse"]
  /\ UNCHANGED <<device, req, messages, sent, verdict>>

\* A desired part that is not empty is answered by a request of the kind of the
\* last one this device sent.
ReplyMethod == IF cloud_send_method \in {"DELETE", "REPLY_CONTROL_DELETE"}
               THEN "REPLY_CONTROL_DELETE" ELSE "REPLY_CONTROL_UPDATE"

_handle_delta(m, r) ==
  /\ Arrives(m) /\ HasDelta(m)
  /\ msg' = m
  /\ shadow_add_request_to_list(Yielder, r, ReplyMethod)
  /\ UNCHANGED <<expired, cloud_send_method, acks, messages, sent, verdict>>

\* A reply that got here reports success; get_reply always counts as accepted.
Status(m) == IF m.type = "CONTROL" /\ ~m.accepted THEN "ACK_REJECTED" ELSE "ACK_ACCEPTED"

\* Every request of the list is completed, whichever the message answers.
_traverse_list ==
  /\ pc[Yielder] = "traverse"
  /\ Complete(request_list, Status(msg))
  /\ pc' = [pc EXCEPT ![Yielder] = "idle"]
  /\ msg' = NULL
  /\ UNCHANGED <<method, cloud_send_method, refused, req, cloud>>

----------------------------------------------------------------------------
(* Timers and the cloud. *)

TimerExpires(r) ==
  /\ r \in request_list \ expired
  /\ expired' = expired \cup {r}
  /\ UNCHANGED <<request_list, method, cloud_send_method, acks, refused, pc, req, msg, cloud>>

Send(m) ==
  /\ messages < MaxMessages
  /\ messages' = messages + 1
  /\ downstream' = Append(downstream, m)

\* The cloud answers requests in any order.  One that is lost, or whose answer
\* is, is never decided.
Decide(r, ok) ==
  /\ r \in sent /\ verdict[r] = NULL
  /\ verdict' = [verdict EXCEPT ![r] = IF ok THEN "accepted" ELSE "rejected"]
  /\ IF method[r] = "GET"
     THEN ok /\ \E d \in BOOLEAN : Send([type |-> "GET_REPLY", accepted |-> ok, desired |-> d])
     ELSE Send([type |-> "REPLY", accepted |-> ok, desired |-> FALSE])
  /\ UNCHANGED <<device, pc, req, msg, sent>>

\* The document or its version has changed: a control message.
Control ==
  /\ \E d \in BOOLEAN, ok \in ControlCodes :
       Send([type |-> "CONTROL", accepted |-> ok, desired |-> d])
  /\ UNCHANGED <<device, pc, req, msg, sent, verdict>>

Redeliver ==
  /\ downstream # <<>>
  /\ Send(Head(downstream))
  /\ UNCHANGED <<device, pc, req, msg, sent, verdict>>

----------------------------------------------------------------------------

App_make_request == \E t \in App, r \in Request, m \in Method : MakeRequest(t, r, m)

IOT_Shadow_Yield ==
  \/ _handle_expired_request \/ _traverse_list
  \/ \E m \in Message : topic_handler_NoDelta(m) \/ \E r \in Request : _handle_delta(m, r)

Next ==
  \/ App_make_request
  \/ \E t \in Thread : uiot_shadow_make_request(t)
  \/ IOT_Shadow_Yield
  \/ \E r \in Request : TimerExpires(r) \/ \E ok \in BOOLEAN : Decide(r, ok)
  \/ Control \/ Redeliver

Spec == Init /\ [][Next]_vars

\* Threads go on, timers run out, and the application calls IOT_Shadow_Yield
\* again and again, each call of which looks for expired requests first.
FairSpec ==
  /\ Spec
  /\ \A t \in Thread : WF_vars(uiot_shadow_make_request(t))
  /\ WF_vars(_traverse_list)
  /\ SF_vars(_handle_expired_request)
  /\ \A r \in Request : WF_vars(TimerExpires(r))

----------------------------------------------------------------------------
(* Properties. *)

\* The callback of a request is called at most once, and not before the request
\* has left the list, whatever replies, timeouts and redeliveries meet.
AnsweredOnce ==
  \A r \in Request :
    /\ Len(acks[r]) <= 1
    /\ r \in request_list => acks[r] = <<>>

\* A request that went to the cloud waits in the list or has been answered,
\* unless the list was full when it was made (its error is overwritten by
\* uiot_shadow_make_request).
SentIsPending ==
  \A r \in sent \ refused :
    method[r] \in Reply \/ r \in request_list \/ acks[r] # <<>>

\* The answers to a delta, which no message will ever answer, take a place of the
\* list only while the handler that made them runs: they never add up until the
\* list refuses the requests of the application.
RepliesDoNotLinger ==
  \A r \in request_list : method[r] \in Reply => pc[Yielder] # "idle"

\* Every request in the list is answered in the end, if only by its timeout.
RequestsEnd == \A r \in Request : r \in request_list ~> r \notin request_list
=============================================================================
