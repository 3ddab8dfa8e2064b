------------------------------ MODULE MqttLink ------------------------------
(***************************************************************************)
(* The connection of one UIoT_Client (src/mqtt): how uiot_mqtt_yield finds *)
(* out that the broker is gone, and how it comes back.  MqttSession has    *)
(* what is kept across the loss, this module has what decides it: the ping *)
(* timer, the count of pings without an answer, and the reconnections that *)
(* wait longer each time.                                                  *)
(*                                                                         *)
(* Time is counted in ticks; a timer is the number of ticks it has left.   *)
(* One pass of the loop, with the application's pause before it if there   *)
(* is one, takes at most one tick.  The broker is external: what the next  *)
(* read returns, and whether a write or a connection succeeds, is any of   *)
(* the outcomes the code tells apart.                                      *)
(***************************************************************************)
EXTENDS Integers

CONSTANTS
  KeepAlive,                   \* values of options.keep_alive_interval
  PING_RESP_WAIT,              \* the 5 of Min(5, keep_alive_interval / 2)
  MQTT_PING_RETRY_TIMES,
  MIN_RECONNECT_WAIT_INTERVAL,
  MAX_RECONNECT_WAIT_INTERVAL,
  InfiniteReconnect            \* the builds: values of ENABLE_INFINITE_RECONNECT

ASSUME LinkAssumption ==
  /\ KeepAlive \subseteq Nat
  /\ \E longest \in KeepAlive : \A k \in KeepAlive : k <= longest
  /\ PING_RESP_WAIT \in Nat
  /\ MQTT_PING_RETRY_TIMES \in Nat
  /\ MIN_RECONNECT_WAIT_INTERVAL \in Nat \ {0}
  /\ MAX_RECONNECT_WAIT_INTERVAL \in Nat
  /\ MIN_RECONNECT_WAIT_INTERVAL <= MAX_RECONNECT_WAIT_INTERVAL
  /\ InfiniteReconnect \subseteq BOOLEAN

VARIABLES
  ENABLE_INFINITE_RECONNECT,        \* of this build, never changes
  keep_alive_interval,              \* options.keep_alive_interval
  auto_connect_enable,              \* options.auto_connect_enable
  is_connected,
  was_manually_disconnected,
  is_ping_outstanding,
  ping_timer,
  current_reconnect_wait_interval,
  reconnect_delay_timer,
  phase,                            \* where the yielding thread is
  passed,                           \* a tick has gone by in this pass
  \* what nothing in the client reads:
  quiet,      \* ticks since the last sign of life of the broker
  sign,       \* which it was: an answer (or the connection) or a PUBLISH
  idle,       \* ticks since anything was read
  waited,     \* ticks since the loss, or since the attempt after it
  tries,      \* failed attempts since the loss
  cause       \* why the connection was given up last

options  == <<ENABLE_INFINITE_RECONNECT, keep_alive_interval, auto_connect_enable>>
pingVars == <<is_ping_outstanding, ping_timer>>
backVars == <<current_reconnect_wait_interval, reconnect_delay_timer>>
lifeVars == <<quiet, sign, idle>>
seenVars == <<lifeVars, waited, tries, cause>>
vars == <<options, is_connected, was_manually_disconnected, pingVars,
          backVars, phase, passed, seenVars>>

Min2(a, b) == IF a < b THEN a ELSE b
Max2(a, b) == IF a > b THEN a ELSE b

(* The wait after each PINGREQ.  It is 0 for an interval of one second.    *)
PingWait == Min2(PING_RESP_WAIT, keep_alive_interval \div 2)

(* Longest silence the loop puts up with: the interval, the waits for the  *)
(* pings, and one more tick for each pass that notices an expired timer.   *)
Patience == keep_alive_interval + MQTT_PING_RETRY_TIMES * PingWait
            + MQTT_PING_RETRY_TIMES + 1

Phase == {"out",      \* the application has the thread
          "enter",    \* first pass: the timer of the call has just been set
          "loop", "alive", "resub", "dropped"}
AtTop == phase \in {"enter", "loop"}

(* The thread goes on to another place; a new pass begins at "loop".       *)
Goes(to) == phase' = to /\ passed' = (passed /\ to \notin {"loop", "out"})

(* Largest interval, of a build whose reconnection is not endless: doubled *)
(* over the maximum once, and then the call ends.                          *)
MaxInterval == 2 * MAX_RECONNECT_WAIT_INTERVAL

MaxKeepAlive == CHOOSE k \in KeepAlive : \A j \in KeepAlive : j <= k

(* Bounds of the counters nothing in the client reads. *)
QuietBound  == MaxKeepAlive + MQTT_PING_RETRY_TIMES * PING_RESP_WAIT
IdleBound   == QuietBound + MQTT_PING_RETRY_TIMES + 2
WaitedBound == MAX_RECONNECT_WAIT_INTERVAL

TypeOK ==
  /\ ENABLE_INFINITE_RECONNECT \in InfiniteReconnect
  /\ keep_alive_interval \in KeepAlive
  /\ auto_connect_enable \in BOOLEAN
  /\ is_connected \in BOOLEAN
  /\ was_manually_disconnected \in BOOLEAN
  /\ is_ping_outstanding \in 0..MQTT_PING_RETRY_TIMES
  /\ ping_timer \in 0..Max2(MaxKeepAlive, PING_RESP_WAIT)
  /\ current_reconnect_wait_interval \in 0..MaxInterval
  /\ reconnect_delay_timer \in 0..MAX_RECONNECT_WAIT_INTERVAL
  /\ phase \in Phase
  /\ passed \in BOOLEAN
  /\ quiet \in 0..QuietBound
  /\ sign \in {"ACK", "PUBLISH"}
  /\ idle \in 0..IdleBound
  /\ waited \in 0..WaitedBound
  /\ tries \in 0..WaitedBound
  /\ cause \in {"none", "read", "write", "silent"}

(* uiot_mqtt_init has cleared the client, IOT_MQTT_Construct connected it. *)
Init ==
  /\ ENABLE_INFINITE_RECONNECT \in InfiniteReconnect
  /\ keep_alive_interval \in KeepAlive
  /\ auto_connect_enable \in BOOLEAN
  /\ is_connected = TRUE
  /\ was_manually_disconnected = FALSE
  /\ is_ping_outstanding = 0
  /\ ping_timer = keep_alive_interval
  /\ current_reconnect_wait_interval = 0
  /\ reconnect_delay_timer = 0
  /\ phase = "out"
  /\ passed = FALSE
  /\ quiet = 0 /\ sign = "ACK" /\ idle = 0
  /\ waited = 0 /\ tries = 0
  /\ cause = "none"

----------------------------------------------------------------------------
(* Time. *)

Less(timer) == Max2(timer - 1, 0)

Tick ==
  /\ ~passed
  /\ passed' = TRUE
  /\ ping_timer' = Less(ping_timer)
  /\ reconnect_delay_timer' = Less(reconnect_delay_timer)
  /\ quiet'  = Min2(quiet + 1, QuietBound)
  /\ idle'   = IF is_connected THEN Min2(idle + 1, IdleBound) ELSE idle
  /\ waited' = Min2(waited + 1, WaitedBound)
  /\ UNCHANGED <<options, is_connected, was_manually_disconnected, phase,
                 is_ping_outstanding, current_reconnect_wait_interval,
                 sign, tries, cause>>

----------------------------------------------------------------------------
(* IOT_MQTT_Yield, called by the application again and again. *)

yield_refuses ==
  ~is_connected /\ (was_manually_disconnected \/ ~auto_connect_enable)

uiot_mqtt_yield ==
  /\ phase = "out"
  /\ Goes(IF yield_refuses THEN "out" ELSE "enter")
  /\ UNCHANGED <<options, is_connected, was_manually_disconnected, pingVars,
                 backVars, seenVars>>

(* The timer of the call has expired: not before its first pass.           *)
yield_returns ==
  /\ phase = "loop"
  /\ phase' = "out"
  /\ UNCHANGED <<options, is_connected, was_manually_disconnected, pingVars,
                 backVars, passed, seenVars>>

----------------------------------------------------------------------------
(* Reading, and what the packets say of the connection. *)

(* _handle_disconnect up to its callback: uiot_mqtt_disconnect sends a     *)
(* DISCONNECT if it can, closes the socket and marks the client closed by  *)
(* hand.                                                                   *)
_handle_disconnect(why) ==
  /\ is_connected' = FALSE
  /\ was_manually_disconnected' = TRUE
  /\ Goes("dropped")
  /\ cause' = why

_handle_pingresp_packet ==
  /\ is_ping_outstanding' = 0
  /\ ping_timer' = keep_alive_interval

(* Faulty variant: a message from the broker is no sign of life.           *)
cycle_for_read_NoPublishReset(packet) ==
  \/ packet = "ACK" /\ _handle_pingresp_packet
  \/ packet \in {"PUBLISH", "OTHER"} /\ UNCHANGED pingVars

(* PUBACK, SUBACK, UNSUBACK and PINGRESP count as an answer to the ping; a *)
(* PUBLISH shows that the broker lives, but the timer runs on.             *)
cycle_for_read(packet) ==
  \/ packet = "ACK" /\ _handle_pingresp_packet
  \/ packet = "PUBLISH" /\ is_ping_outstanding' = 0 /\ UNCHANGED ping_timer
  \/ packet = "OTHER" /\ UNCHANGED pingVars

(* A packet: its handler may fail, which ends the call, or with            *)
(* FAILURE_RET only this pass.                                             *)
ReadPacket ==
  /\ AtTop /\ is_connected
  /\ \E packet \in {"ACK", "PUBLISH", "OTHER"} :
       /\ cycle_for_read(packet)
       /\ IF packet = "OTHER" THEN UNCHANGED <<quiet, sign>>
          ELSE quiet' = 0 /\ sign' = packet
  /\ \E to \in {"alive", "loop", "out"} : Goes(to)
  /\ idle' = 0
  /\ UNCHANGED <<options, is_connected, was_manually_disconnected, backVars,
                 waited, tries, cause>>

ReadNothing ==
  /\ AtTop /\ is_connected
  /\ Goes("alive")
  /\ UNCHANGED <<options, is_connected, was_manually_disconnected, pingVars,
                 backVars, seenVars>>

(* A read error, or the end of the stream. *)
ReadFails ==
  /\ AtTop /\ is_connected
  /\ _handle_disconnect("read")
  /\ UNCHANGED <<options, pingVars, backVars, lifeVars, waited, tries>>

----------------------------------------------------------------------------
(* _mqtt_keep_alive. *)

PingDue == keep_alive_interval # 0 /\ ping_timer = 0

NoPingDue ==
  /\ phase = "alive" /\ ~PingDue
  /\ Goes("loop")
  /\ UNCHANGED <<options, is_connected, was_manually_disconnected, pingVars,
                 backVars, seenVars>>

GiveUp ==
  /\ phase = "alive" /\ PingDue
  /\ is_ping_outstanding >= MQTT_PING_RETRY_TIMES
  /\ _handle_disconnect("silent")
  /\ UNCHANGED <<options, pingVars, backVars, lifeVars, waited, tries>>

(* Faulty variant: the timer is set to the whole interval again.           *)
SendPing_LongWait ==
  /\ phase = "alive" /\ PingDue
  /\ is_ping_outstanding < MQTT_PING_RETRY_TIMES
  /\ is_ping_outstanding' = is_ping_outstanding + 1
  /\ ping_timer' = keep_alive_interval
  /\ Goes("loop")
  /\ UNCHANGED <<options, is_connected, was_manually_disconnected, backVars,
                 seenVars>>

SendPing ==
  /\ phase = "alive" /\ PingDue
  /\ is_ping_outstanding < MQTT_PING_RETRY_TIMES
  /\ is_ping_outstanding' = is_ping_outstanding + 1
  /\ ping_timer' = PingWait
  /\ Goes("loop")
  /\ UNCHANGED <<options, is_connected, was_manually_disconnected, backVars,
                 seenVars>>

(* Four writes have failed. *)
PingFails ==
  /\ phase = "alive" /\ PingDue
  /\ is_ping_outstanding < MQTT_PING_RETRY_TIMES
  /\ _handle_disconnect("write")
  /\ UNCHANGED <<options, pingVars, backVars, lifeVars, waited, tries>>

----------------------------------------------------------------------------
(* The connection is lost. *)

(* Faulty variant: the mark of a disconnection by hand stays.              *)
Dropped_MarkStays ==
  /\ phase = "dropped"
  /\ Goes(IF auto_connect_enable THEN "loop" ELSE "out")
  /\ IF auto_connect_enable
     THEN /\ current_reconnect_wait_interval' = MIN_RECONNECT_WAIT_INTERVAL
          /\ reconnect_delay_timer' = MIN_RECONNECT_WAIT_INTERVAL
     ELSE UNCHANGED backVars
  /\ waited' = 0 /\ tries' = 0
  /\ UNCHANGED <<options, is_connected, was_manually_disconnected, pingVars,
                 lifeVars, cause>>

(* Faulty variant: the interval of the last outage is kept.                *)
Dropped_KeepsInterval ==
  /\ phase = "dropped"
  /\ was_manually_disconnected' = FALSE
  /\ Goes(IF auto_connect_enable THEN "loop" ELSE "out")
  /\ current_reconnect_wait_interval' =
       Max2(MIN_RECONNECT_WAIT_INTERVAL, current_reconnect_wait_interval)
  /\ reconnect_delay_timer' = current_reconnect_wait_interval'
  /\ waited' = 0 /\ tries' = 0
  /\ UNCHANGED <<options, is_connected, pingVars, lifeVars, cause>>

(* The callback with MQTT_EVENT_DISCONNECT has returned; the loop gets     *)
(* ERR_MQTT_NO_CONN and sets the first wait.                               *)
Dropped ==
  /\ phase = "dropped"
  /\ was_manually_disconnected' = FALSE
  /\ Goes(IF auto_connect_enable THEN "loop" ELSE "out")
  /\ IF auto_connect_enable
     THEN /\ current_reconnect_wait_interval' = MIN_RECONNECT_WAIT_INTERVAL
          /\ reconnect_delay_timer' = MIN_RECONNECT_WAIT_INTERVAL
     ELSE UNCHANGED backVars
  /\ waited' = 0 /\ tries' = 0
  /\ UNCHANGED <<options, is_connected, pingVars, lifeVars, cause>>

TooLong == current_reconnect_wait_interval > MAX_RECONNECT_WAIT_INTERVAL

(* A pass without a connection that does not try to get one. *)
NoAttempt ==
  /\ AtTop /\ ~is_connected
  /\ \/ TooLong /\ Goes("out")
     \/ ~TooLong /\ reconnect_delay_timer > 0 /\ Goes("loop")
  /\ UNCHANGED <<options, is_connected, was_manually_disconnected, pingVars,
                 backVars, seenVars>>

MayAttempt == AtTop /\ ~is_connected /\ ~TooLong /\ reconnect_delay_timer = 0

(* The tail of _handle_reconnect, after anything but MQTT_RECONNECTED.     *)
_handle_reconnect_fails ==
  LET twice == 2 * current_reconnect_wait_interval IN
    IF twice <= MAX_RECONNECT_WAIT_INTERVAL
    THEN /\ current_reconnect_wait_interval' = twice
         /\ reconnect_delay_timer' = twice
    ELSE IF ENABLE_INFINITE_RECONNECT
    THEN /\ current_reconnect_wait_interval' = MAX_RECONNECT_WAIT_INTERVAL
         /\ reconnect_delay_timer' = MAX_RECONNECT_WAIT_INTERVAL
    ELSE /\ current_reconnect_wait_interval' = twice
         /\ UNCHANGED reconnect_delay_timer

AttemptFails ==
  /\ MayAttempt
  /\ _handle_reconnect_fails
  /\ Goes("loop")
  /\ waited' = 0
  /\ tries' = Min2(tries + 1, WaitedBound)
  /\ UNCHANGED <<options, is_connected, was_manually_disconnected, pingVars,
                 lifeVars, cause>>

_mqtt_connect ==
  /\ is_connected' = TRUE
  /\ was_manually_disconnected' = FALSE
  /\ is_ping_outstanding' = 0
  /\ ping_timer' = keep_alive_interval

AttemptConnects ==
  /\ MayAttempt
  /\ _mqtt_connect
  /\ Goes("resub")
  /\ quiet' = 0 /\ sign' = "ACK" /\ idle' = 0
  /\ UNCHANGED <<options, backVars, waited, tries, cause>>

(* uiot_mqtt_resubscribe succeeds, and the application is told; or it      *)
(* fails, and the loop goes on connected as after a failed attempt.        *)
Resubscribed ==
  /\ phase = "resub"
  /\ Goes("loop")
  /\ \/ UNCHANGED backVars
     \/ _handle_reconnect_fails
  /\ UNCHANGED <<options, is_connected, was_manually_disconnected, pingVars,
                 seenVars>>

----------------------------------------------------------------------------
Loop == \/ yield_returns \/ ReadPacket \/ ReadNothing \/ ReadFails
        \/ NoPingDue \/ GiveUp \/ SendPing \/ PingFails
        \/ Dropped \/ NoAttempt \/ AttemptFails \/ AttemptConnects \/ Resubscribed

Next == uiot_mqtt_yield \/ Loop \/ Tick

Spec == Init /\ [][Next]_vars

(* Time goes on, the application keeps calling, the thread is scheduled;   *)
(* and of the connections tried without end one succeeds.                  *)
FairSpec ==
  /\ Spec
  /\ WF_vars(Tick)
  /\ WF_vars(uiot_mqtt_yield)
  /\ WF_vars(Loop)
  /\ SF_vars(AttemptConnects)

----------------------------------------------------------------------------
(* Safety. *)

(* _mqtt_keep_alive gives a connection up only when the broker has let the *)
(* waits for all its pings go by, and before them the interval since it    *)
(* last answered: neither the pings of the connection before nor those     *)
(* before a message of the broker may count.                               *)
GivenUpOnlyIfQuiet ==
  phase = "dropped" /\ cause = "silent" =>
    quiet >= MQTT_PING_RETRY_TIMES * PingWait
             + (IF sign = "ACK" THEN keep_alive_interval ELSE 0)

(* A broker that has gone silent is noticed: as long as the application    *)
(* keeps yielding, no connection with a keep-alive interval outlives the   *)
(* longest silence the pings allow.                                        *)
SilenceIsNoticed ==
  is_connected /\ keep_alive_interval # 0 => idle <= Patience

(* After a loss the loop leaves the broker alone for the first interval,   *)
(* and after each failed attempt for twice as long as before, up to the    *)
(* maximum: it never tries before that, and the wait it has set is never   *)
(* longer, whatever outages came before.                                   *)
Backoff[n \in Nat] ==
  IF n = 0 THEN MIN_RECONNECT_WAIT_INTERVAL
           ELSE Min2(2 * Backoff[n - 1], MAX_RECONNECT_WAIT_INTERVAL)

RetriesBackOff ==
  /\ MayAttempt => waited >= Backoff[tries]
  /\ ~is_connected /\ phase # "dropped" /\ reconnect_delay_timer > 0 =>
       waited + reconnect_delay_timer <= Backoff[tries]

----------------------------------------------------------------------------
(* Liveness. *)

(* A lost connection comes back: uiot_mqtt_yield neither takes the loss    *)
(* for a disconnection by hand nor stops trying.                           *)
LostLinkComesBack ==
  ~is_connected /\ auto_connect_enable /\ ENABLE_INFINITE_RECONNECT
    ~> is_connected
=============================================================================
