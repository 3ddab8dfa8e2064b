-------------------------- MODULE MqttLink_proofs --------------------------
(***************************************************************************)
(* Proofs about MqttLink, for any intervals, waits and number of pings.    *)
(***************************************************************************)
EXTENDS MqttLink, WellFoundedInduction, TLAPS

----------------------------------------------------------------------------
(* Induction over the naturals, in the form of a set: the provers at hand  *)
(* do not instantiate theorems with operator parameters.                   *)

LEMMA LeastElement ==
  ASSUME NEW T, T \subseteq Nat, T # {}
  PROVE  \E x \in T : \A y \in T : x <= y
  <1> DEFINE R == OpToRel(<, Nat)
  <1>1. IsWellFoundedOn(R, Nat)
    BY NatLessThanWellFounded, Zenon
  <1>2. \A x, y \in Nat : x < y => <<x, y>> \in R
    BY DEF OpToRel
  <1> HIDE DEF R
  <1>3. PICK x \in T : \A y \in T : ~(<<y, x>> \in R)
    BY <1>1, WFMin
  <1>4. \A y \in T : x <= y
    <2> TAKE y \in T
    <2>1. x \in Nat /\ y \in Nat
      OBVIOUS
    <2>2. ~(y < x)
      BY <1>2, <1>3, <2>1, Zenon
    <2> QED
      BY <2>1, <2>2
  <1> QED
    BY <1>4

LEMMA SetInduction ==
  ASSUME NEW T, 0 \in T, \A n \in Nat : n \in T => n + 1 \in T
  PROVE  Nat \subseteq T
  <1> SUFFICES ASSUME Nat \ T # {} PROVE FALSE
    OBVIOUS
  <1>1. PICK x \in Nat \ T : \A y \in Nat \ T : x <= y
    <2>1. Nat \ T \subseteq Nat
      OBVIOUS
    <2> QED
      BY <2>1, LeastElement, Zenon
  <1>2. x - 1 \in Nat
    BY <1>1
  <1>3. x - 1 \in T
    BY <1>1, <1>2
  <1>4. (x - 1) + 1 \in T
    BY <1>2, <1>3
  <1> QED
    BY <1>1, <1>2, <1>4

----------------------------------------------------------------------------
(* The intervals Backoff defines exist: one table of them up to each n,    *)
(* and any two tables agree where both are defined.                        *)

Grown(b) == Min2(2 * b, MAX_RECONNECT_WAIT_INTERVAL)

IsTable(g, n) ==
  /\ g \in [0..n -> Nat]
  /\ g[0] = MIN_RECONNECT_WAIT_INTERVAL
  /\ \A i \in 1..n : g[i] = Grown(g[i - 1])

LEMMA GrownType == \A b \in Nat : Grown(b) \in Nat
  BY LinkAssumption DEF Grown, Min2

LEMMA TableExists == \A n \in Nat : \E g : IsTable(g, n)
  <1> DEFINE T == {n \in Nat : \E g : IsTable(g, n)}
  <1>1. 0 \in T
    <2>1. IsTable([i \in 0..0 |-> MIN_RECONNECT_WAIT_INTERVAL], 0)
      BY LinkAssumption DEF IsTable
    <2> QED
      BY <2>1
  <1>2. ASSUME NEW n \in Nat, n \in T PROVE n + 1 \in T
    <2>1. PICK g : IsTable(g, n)
      BY <1>2
    <2> DEFINE h == [i \in 0..(n + 1) |-> IF i <= n THEN g[i] ELSE Grown(g[n])]
    <2>2. g \in [0..n -> Nat] /\ Grown(g[n]) \in Nat
      BY SMTT(30), <2>1, GrownType DEF IsTable
    <2>3. h \in [0..(n + 1) -> Nat]
      BY <2>2
    <2>4. h[0] = MIN_RECONNECT_WAIT_INTERVAL
      BY <2>1 DEF IsTable
    <2>5. ASSUME NEW i \in 1..(n + 1) PROVE h[i] = Grown(h[i - 1])
      <3>1. i - 1 \in 0..n /\ h[i - 1] = g[i - 1]
        OBVIOUS
      <3>2. CASE i <= n
        <4>1. h[i] = g[i] /\ i \in 1..n
          BY <3>2
        <4> QED
          BY <3>1, <4>1, <2>1 DEF IsTable
      <3>3. CASE i = n + 1
        <4>1. h[i] = Grown(g[n]) /\ i - 1 = n
          BY <3>3
        <4> QED
          BY <3>1, <4>1
      <3> QED
        BY <3>2, <3>3
    <2>6. IsTable(h, n + 1)
      BY <2>3, <2>4, <2>5 DEF IsTable
    <2> QED
      BY <2>6
  <1>3. Nat \subseteq T
    <2> HIDE DEF T
    <2> QED
      BY <1>1, <1>2, SetInduction
  <1> QED
    BY <1>3

LEMMA TablesAgree ==
  ASSUME NEW m \in Nat, NEW n \in Nat, m <= n,
         NEW g, NEW h, IsTable(g, m), IsTable(h, n)
  PROVE  g[m] = h[m]
  <1> DEFINE T == {i \in Nat : i <= m => g[i] = h[i]}
  <1>1. 0 \in T
    BY DEF IsTable
  <1>2. ASSUME NEW i \in Nat, i \in T PROVE i + 1 \in T
    <2> SUFFICES ASSUME i + 1 <= m PROVE g[i + 1] = h[i + 1]
      OBVIOUS
    <2>1. i + 1 \in 1..m /\ i + 1 \in 1..n /\ (i + 1) - 1 = i
      OBVIOUS
    <2>2. g[i + 1] = Grown(g[i]) /\ h[i + 1] = Grown(h[i])
      BY <2>1 DEF IsTable
    <2>3. g[i] = h[i]
      BY <1>2
    <2> QED
      BY <2>2, <2>3
  <1>3. Nat \subseteq T
    <2> HIDE DEF T
    <2> QED
      BY <1>1, <1>2, SetInduction
  <1> QED
    BY <1>3

LEMMA BackoffIsDefined ==
  Backoff = [n \in Nat |-> IF n = 0 THEN MIN_RECONNECT_WAIT_INTERVAL
                                    ELSE Grown(Backoff[n - 1])]
  <1> DEFINE Step(f) == [n \in Nat |-> IF n = 0 THEN MIN_RECONNECT_WAIT_INTERVAL
                                                ELSE Grown(f[n - 1])]
             Table(n) == CHOOSE g : IsTable(g, n)
             F == [n \in Nat |-> Table(n)[n]]
  <1>1. \A n \in Nat : IsTable(Table(n), n)
    BY TableExists
  <1>2. ASSUME NEW n \in Nat PROVE F[n] = Step(F)[n]
    <2> HIDE DEF Table
    <2>1. CASE n = 0
      BY <2>1, <1>1 DEF IsTable
    <2>2. CASE n # 0
      <3>1. n - 1 \in Nat /\ n \in 1..n
        BY <2>2
      <3>2. Table(n)[n] = Grown(Table(n)[n - 1])
        BY <3>1, <1>1 DEF IsTable
      <3>3. IsTable(Table(n - 1), n - 1) /\ IsTable(Table(n), n) /\ n - 1 <= n
        BY <1>1, <3>1
      <3>4. Table(n - 1)[n - 1] = Table(n)[n - 1]
        BY <3>1, <3>3, TablesAgree
      <3> QED
        BY <2>2, <3>1, <3>2, <3>4
    <2> QED
      BY <2>1, <2>2
  <1>3. F = Step(F)
    <2> HIDE DEF Table
    <2> QED
      BY <1>2
  <1>4. Backoff = CHOOSE f : f = Step(f)
    BY DEF Backoff, Grown
  <1> HIDE DEF F, Step
  <1>5. Backoff = Step(Backoff)
    BY <1>3, <1>4
  <1> QED
    BY <1>5 DEF Step

(* The intervals grow from the minimum to the maximum and stay there.      *)
LEMMA BackoffProperties ==
  /\ Backoff[0] = MIN_RECONNECT_WAIT_INTERVAL
  /\ \A n \in Nat : /\ Backoff[n + 1] = Grown(Backoff[n])
                    /\ Backoff[n] \in 1..MAX_RECONNECT_WAIT_INTERVAL
  /\ Backoff[MAX_RECONNECT_WAIT_INTERVAL] = MAX_RECONNECT_WAIT_INTERVAL
  <1>1. Backoff[0] = MIN_RECONNECT_WAIT_INTERVAL
    BY BackoffIsDefined
  <1>2. ASSUME NEW n \in Nat PROVE Backoff[n + 1] = Grown(Backoff[n])
    <2>1. n + 1 \in Nat /\ n + 1 # 0 /\ (n + 1) - 1 = n
      OBVIOUS
    <2> QED
      BY <2>1, BackoffIsDefined
  <1> DEFINE T == {n \in Nat : /\ Backoff[n] \in 1..MAX_RECONNECT_WAIT_INTERVAL
                               /\ Backoff[n] >= Min2(n + 1, MAX_RECONNECT_WAIT_INTERVAL)}
  <1>3. 0 \in T
    BY <1>1, LinkAssumption DEF Min2
  <1>4. ASSUME NEW n \in Nat, n \in T PROVE n + 1 \in T
    BY <1>2, <1>4, LinkAssumption DEF Grown, Min2
  <1>5. Nat \subseteq T
    <2> HIDE DEF T
    <2> QED
      BY <1>3, <1>4, SetInduction
  <1>6. Backoff[MAX_RECONNECT_WAIT_INTERVAL] = MAX_RECONNECT_WAIT_INTERVAL
    <2>1. MAX_RECONNECT_WAIT_INTERVAL \in T
      BY <1>5, LinkAssumption
    <2> QED
      BY <2>1, LinkAssumption DEF Min2
  <1> QED
    BY <1>1, <1>2, <1>5, <1>6

----------------------------------------------------------------------------
(* The inductive invariant. *)

(* Where the thread can be with and without a connection, and that nothing *)
(* is waited for where no connection is tried again.                       *)
Places ==
  /\ phase \in {"alive", "resub"} => is_connected
  /\ phase = "dropped" => ~is_connected
  /\ ~is_connected /\ ~auto_connect_enable => phase \in {"out", "dropped"}
  /\ ~auto_connect_enable => /\ phase # "resub"
                             /\ current_reconnect_wait_interval = 0
                             /\ reconnect_delay_timer = 0
  /\ phase = "resub" => is_ping_outstanding = 0 /\ ~TooLong

(* The ping timer never has more left than the interval. *)
TimerInBounds == ping_timer <= keep_alive_interval

(* The waits of the pings sent since the broker last answered. *)
Spent == is_ping_outstanding * PingWait

(* The silence so far is what has run off the timers since the last sign of *)
(* life, and the whole of it when the connection is given up for it.        *)
QuietSoFar ==
  /\ quiet + ping_timer >= Spent + (IF sign = "ACK" THEN keep_alive_interval ELSE 0)
  /\ phase = "dropped" /\ cause = "silent" =>
       ping_timer = 0 /\ is_ping_outstanding = MQTT_PING_RETRY_TIMES

(* Each expired timer was noticed a tick later at most; the resubscription  *)
(* lasts no longer than a tick.                                             *)
IdleSoFar ==
  is_connected /\ keep_alive_interval # 0 =>
    /\ idle + ping_timer <= keep_alive_interval + Spent + is_ping_outstanding
                            + (IF ping_timer = 0 /\ passed THEN 1 ELSE 0)
    /\ phase = "resub" => /\ idle + ping_timer <= keep_alive_interval
                          /\ ~passed => ping_timer = keep_alive_interval

(* Without a connection the interval is that of the failed attempts, and    *)
(* the time waited is what has run off its timer.                           *)
WaitedSoFar ==
  ~is_connected /\ auto_connect_enable /\ phase # "dropped" =>
    IF TooLong THEN reconnect_delay_timer = 0
    ELSE /\ current_reconnect_wait_interval = Backoff[tries]
         /\ IF reconnect_delay_timer = 0 THEN waited >= Backoff[tries]
            ELSE waited + reconnect_delay_timer = Backoff[tries]

IInv == TypeOK /\ Places /\ TimerInBounds /\ QuietSoFar /\ IdleSoFar /\ WaitedSoFar

----------------------------------------------------------------------------
(* Facts about the intervals of the pings. *)

LEMMA LongestInterval ==
  /\ MaxKeepAlive \in KeepAlive /\ MaxKeepAlive \in Nat
  /\ \A k \in KeepAlive : k \in Nat /\ k <= MaxKeepAlive
  BY LinkAssumption DEF MaxKeepAlive

(* PingWait is at most both of what it is the minimum of, and the waits of  *)
(* all pings together fit the bounds of the counters.                       *)
LEMMA PingWaitBounds ==
  ASSUME TypeOK
  PROVE  /\ PingWait \in Nat /\ PingWait <= keep_alive_interval
         /\ PingWait <= PING_RESP_WAIT
         /\ Spent \in Nat
         /\ Spent <= MQTT_PING_RETRY_TIMES * PingWait
         /\ MQTT_PING_RETRY_TIMES * PingWait \in Nat
         /\ MQTT_PING_RETRY_TIMES * PingWait <= MQTT_PING_RETRY_TIMES * PING_RESP_WAIT
         /\ MQTT_PING_RETRY_TIMES * PING_RESP_WAIT \in Nat
         /\ (is_ping_outstanding + 1) * PingWait = Spent + PingWait
  <1>1. keep_alive_interval \in Nat /\ is_ping_outstanding \in Nat
        /\ is_ping_outstanding <= MQTT_PING_RETRY_TIMES
        /\ MQTT_PING_RETRY_TIMES \in Nat /\ PING_RESP_WAIT \in Nat
    BY LinkAssumption DEF TypeOK
  <1>2. PingWait \in Nat /\ PingWait <= keep_alive_interval /\ PingWait <= PING_RESP_WAIT
    BY <1>1 DEF PingWait, Min2
  <1>3. \A a, b, c \in Nat : /\ a * c \in Nat
                             /\ a <= b => a * c <= b * c /\ c * a <= c * b
                             /\ (a + 1) * c = a * c + c
    OBVIOUS
  <1> QED
    BY <1>1, <1>2, <1>3 DEF Spent

----------------------------------------------------------------------------
(* What every step keeps. *)

(* The interval that follows a failed attempt. *)
LEMMA NextInterval ==
  ASSUME TypeOK, ~TooLong, _handle_reconnect_fails
  PROVE  /\ current_reconnect_wait_interval' \in 0..MaxInterval
         /\ reconnect_delay_timer' \in 0..MAX_RECONNECT_WAIT_INTERVAL
  BY LinkAssumption DEF TypeOK, TooLong, MaxInterval, _handle_reconnect_fails

LEMMA BoundsOfIntervals ==
  /\ MIN_RECONNECT_WAIT_INTERVAL \in 0..MAX_RECONNECT_WAIT_INTERVAL
  /\ 0..MAX_RECONNECT_WAIT_INTERVAL \subseteq 0..MaxInterval
  BY LinkAssumption DEF MaxInterval

(* The types. *)
LEMMA TypeKept ==
  ASSUME IInv, [Next]_vars
  PROVE  TypeOK'
  <1> USE DEF options, pingVars, backVars, lifeVars, seenVars, IInv, TypeOK,
            Phase, Min2, Max2, WaitedBound, Places, TimerInBounds,
            IdleBound, QuietBound
  <1>1. CASE uiot_mqtt_yield
    BY <1>1, LongestInterval, PingWaitBounds, LinkAssumption
      DEF uiot_mqtt_yield, yield_refuses, Goes
  <1>2. CASE yield_returns
    BY <1>2, LongestInterval, PingWaitBounds, LinkAssumption
      DEF yield_returns
  <1>3. CASE ReadPacket
    BY <1>3, LongestInterval, PingWaitBounds, LinkAssumption
      DEF ReadPacket, AtTop, cycle_for_read, _handle_pingresp_packet, Goes
  <1>4. CASE ReadNothing
    BY <1>4, LongestInterval, PingWaitBounds, LinkAssumption
      DEF ReadNothing, AtTop, Goes
  <1>5. CASE ReadFails
    BY <1>5, LongestInterval, PingWaitBounds, LinkAssumption
      DEF ReadFails, AtTop, _handle_disconnect, Goes
  <1>6. CASE NoPingDue
    BY <1>6, LongestInterval, PingWaitBounds, LinkAssumption
      DEF NoPingDue, PingDue, Goes
  <1>7. CASE GiveUp
    BY <1>7, LongestInterval, PingWaitBounds, LinkAssumption
      DEF GiveUp, PingDue, _handle_disconnect, Goes
  <1>8. CASE SendPing
    BY <1>8, LongestInterval, PingWaitBounds, LinkAssumption
      DEF SendPing, PingDue, Goes
  <1>9. CASE PingFails
    BY <1>9, LongestInterval, PingWaitBounds, LinkAssumption
      DEF PingFails, PingDue, _handle_disconnect, Goes
  <1>10. CASE Dropped
    <2>1. /\ current_reconnect_wait_interval' \in 0..MaxInterval
          /\ reconnect_delay_timer' \in 0..MAX_RECONNECT_WAIT_INTERVAL
      BY <1>10, BoundsOfIntervals DEF Dropped
    <2>2. /\ waited' \in 0..WaitedBound /\ tries' \in 0..WaitedBound
          /\ phase' \in Phase /\ passed' \in BOOLEAN
      BY <1>10, LinkAssumption DEF Dropped, Goes
    <2> QED
      BY <1>10, <2>1, <2>2 DEF Dropped
  <1>11. CASE NoAttempt
    BY <1>11, LongestInterval, PingWaitBounds, LinkAssumption
      DEF NoAttempt, AtTop, TooLong, Goes
  <1>12. CASE AttemptFails
    <2>1. ~TooLong /\ _handle_reconnect_fails
      BY <1>12 DEF AttemptFails, MayAttempt
    <2>2. tries' \in 0..WaitedBound
      BY <1>12, LinkAssumption DEF AttemptFails
    <2>3. waited' \in 0..WaitedBound /\ phase' \in Phase /\ passed' \in BOOLEAN
      BY <1>12, LinkAssumption DEF AttemptFails, Goes
    <2>4. /\ current_reconnect_wait_interval' \in 0..MaxInterval
          /\ reconnect_delay_timer' \in 0..MAX_RECONNECT_WAIT_INTERVAL
      BY <2>1, NextInterval
    <2> QED
      BY <1>12, <2>2, <2>3, <2>4 DEF AttemptFails
  <1>13. CASE AttemptConnects
    <2>1. ping_timer' \in 0..Max2(MaxKeepAlive, PING_RESP_WAIT) 
          /\ is_ping_outstanding' \in 0..MQTT_PING_RETRY_TIMES
      BY <1>13, LongestInterval, LinkAssumption DEF AttemptConnects, _mqtt_connect
    <2>2. /\ quiet' \in 0..QuietBound /\ idle' \in 0..IdleBound
          /\ phase' \in Phase /\ passed' \in BOOLEAN
      BY <1>13, LongestInterval, PingWaitBounds, LinkAssumption DEF AttemptConnects, Goes
    <2> QED
      BY <1>13, <2>1, <2>2 DEF AttemptConnects, _mqtt_connect
  <1>14. CASE Resubscribed
    <2>1. /\ current_reconnect_wait_interval' \in 0..MaxInterval
          /\ reconnect_delay_timer' \in 0..MAX_RECONNECT_WAIT_INTERVAL
      BY <1>14, NextInterval DEF Resubscribed
    <2> QED
      BY <1>14, <2>1 DEF Resubscribed, Goes
  <1>15. CASE Tick
    BY <1>15, LongestInterval, PingWaitBounds, LinkAssumption DEF Tick, Less
  <1>16. CASE UNCHANGED vars
    BY <1>16, LongestInterval, PingWaitBounds, LinkAssumption DEF vars
  <1> QED
    BY <1>1, <1>2, <1>3, <1>4, <1>5, <1>6, <1>7, <1>8, <1>9, <1>10, <1>11, <1>12,
       <1>13, <1>14, <1>15, <1>16 DEF Next, Loop

(* Places of the thread. *)
LEMMA PlacesKept ==
  ASSUME IInv, [Next]_vars
  PROVE  Places' /\ TimerInBounds'
  <1> USE LongestInterval, LinkAssumption DEF options, pingVars, backVars,
            lifeVars, seenVars, IInv, TypeOK, Places, TimerInBounds,
            TooLong, AtTop
  <1>1. CASE uiot_mqtt_yield
    BY <1>1 DEF uiot_mqtt_yield, yield_refuses, Goes
  <1>2. CASE yield_returns
    BY <1>2 DEF yield_returns
  <1>3. CASE ReadPacket
    BY <1>3 DEF ReadPacket, cycle_for_read, _handle_pingresp_packet, Goes
  <1>4. CASE ReadNothing
    BY <1>4 DEF ReadNothing, Goes
  <1>5. CASE ReadFails
    BY <1>5 DEF ReadFails, _handle_disconnect, Goes
  <1>6. CASE NoPingDue
    BY <1>6 DEF NoPingDue, PingDue, Goes
  <1>7. CASE GiveUp
    BY <1>7 DEF GiveUp, PingDue, _handle_disconnect, Goes
  <1>8. CASE SendPing
    BY <1>8, PingWaitBounds DEF SendPing, PingDue, Goes
  <1>9. CASE PingFails
    BY <1>9 DEF PingFails, PingDue, _handle_disconnect, Goes
  <1>10. CASE Dropped
    BY <1>10 DEF Dropped, Goes
  <1>11. CASE NoAttempt
    BY <1>11 DEF NoAttempt, Goes
  <1>12. CASE AttemptFails
    BY <1>12 DEF AttemptFails, MayAttempt, _handle_reconnect_fails, Goes
  <1>13. CASE AttemptConnects
    BY <1>13 DEF AttemptConnects, MayAttempt, _mqtt_connect, Goes
  <1>14. CASE Resubscribed
    BY <1>14 DEF Resubscribed, _handle_reconnect_fails, Goes
  <1>15. CASE Tick
    BY <1>15 DEF Tick, Less, Max2
  <1>16. CASE UNCHANGED vars
    BY <1>16 DEF vars
  <1> QED
    BY <1>1, <1>2, <1>3, <1>4, <1>5, <1>6, <1>7, <1>8, <1>9, <1>10, <1>11, <1>12,
       <1>13, <1>14, <1>15, <1>16 DEF Next, Loop

(* The waits of the pings change with the number of pings alone. *)
LEMMA SpentChanges ==
  ASSUME UNCHANGED keep_alive_interval
  PROVE  /\ PingWait' = PingWait
         /\ is_ping_outstanding' = is_ping_outstanding => Spent' = Spent
         /\ TypeOK /\ is_ping_outstanding' = is_ping_outstanding + 1 => Spent' = Spent + PingWait
         /\ TypeOK /\ is_ping_outstanding' = 0 => Spent' = 0
  BY PingWaitBounds DEF PingWait, Spent

(* The silence so far. *)
LEMMA QuietKept ==
  ASSUME IInv, [Next]_vars
  PROVE  QuietSoFar'
  <1> USE SpentChanges, LongestInterval, PingWaitBounds, LinkAssumption DEF
            options, pingVars, backVars, lifeVars, seenVars, IInv, TypeOK,
            Places, TimerInBounds, QuietSoFar, QuietBound, AtTop
  <1>1. CASE uiot_mqtt_yield
    BY <1>1 DEF uiot_mqtt_yield, yield_refuses, Goes
  <1>2. CASE yield_returns
    BY <1>2 DEF yield_returns
  <1>3. CASE ReadPacket
    BY <1>3 DEF ReadPacket, cycle_for_read, _handle_pingresp_packet, Goes
  <1>4. CASE ReadNothing
    BY <1>4 DEF ReadNothing, Goes
  <1>5. CASE ReadFails
    BY <1>5 DEF ReadFails, _handle_disconnect, Goes
  <1>6. CASE NoPingDue
    BY <1>6 DEF NoPingDue, PingDue, Goes
  <1>7. CASE GiveUp
    BY <1>7 DEF GiveUp, PingDue, _handle_disconnect, Goes
  <1>8. CASE SendPing
    BY <1>8 DEF SendPing, PingDue, Goes
  <1>9. CASE PingFails
    BY <1>9 DEF PingFails, PingDue, _handle_disconnect, Goes
  <1>10. CASE Dropped
    BY <1>10 DEF Dropped, Goes
  <1>11. CASE NoAttempt
    BY <1>11 DEF NoAttempt, TooLong, Goes
  <1>12. CASE AttemptFails
    BY <1>12
      DEF AttemptFails, MayAttempt, TooLong, _handle_reconnect_fails, Goes
  <1>13. CASE AttemptConnects
    BY <1>13 DEF AttemptConnects, MayAttempt, TooLong, _mqtt_connect, Goes
  <1>14. CASE Resubscribed
    BY <1>14 DEF Resubscribed, _handle_reconnect_fails, Goes
  <1>15. CASE Tick
    <2>1. Spent' = Spent
      BY <1>15 DEF Tick
    <2>2. QuietBound >= Spent + keep_alive_interval
      OBVIOUS
    <2> QED
      BY <1>15, <2>1, <2>2 DEF Tick, Less, Min2, Max2
  <1>16. CASE UNCHANGED vars
    BY <1>16 DEF vars
  <1> QED
    BY <1>1, <1>2, <1>3, <1>4, <1>5, <1>6, <1>7, <1>8, <1>9, <1>10, <1>11, <1>12,
       <1>13, <1>14, <1>15, <1>16 DEF Next, Loop

(* The time without a packet. *)
LEMMA IdleKept ==
  ASSUME IInv, [Next]_vars
  PROVE  IdleSoFar'
  <1> USE SpentChanges, LongestInterval, PingWaitBounds, LinkAssumption DEF
            options, pingVars, backVars, lifeVars, seenVars, IInv, TypeOK,
            Places, TimerInBounds, IdleSoFar, AtTop
  <1>1. CASE uiot_mqtt_yield
    BY <1>1 DEF uiot_mqtt_yield, yield_refuses, Goes
  <1>2. CASE yield_returns
    BY <1>2 DEF yield_returns
  <1>3. CASE ReadPacket
    BY <1>3 DEF ReadPacket, cycle_for_read, _handle_pingresp_packet, Goes
  <1>4. CASE ReadNothing
    BY <1>4 DEF ReadNothing, Goes
  <1>5. CASE ReadFails
    BY <1>5 DEF ReadFails, _handle_disconnect, Goes
  <1>6. CASE NoPingDue
    BY <1>6 DEF NoPingDue, PingDue, Goes
  <1>7. CASE GiveUp
    BY <1>7 DEF GiveUp, PingDue, _handle_disconnect, Goes
  <1>8. CASE SendPing
    BY <1>8 DEF SendPing, PingDue, Goes
  <1>9. CASE PingFails
    BY <1>9 DEF PingFails, PingDue, _handle_disconnect, Goes
  <1>10. CASE Dropped
    BY <1>10 DEF Dropped, Goes
  <1>11. CASE NoAttempt
    BY <1>11 DEF NoAttempt, TooLong, Goes
  <1>12. CASE AttemptFails
    BY <1>12
      DEF AttemptFails, MayAttempt, TooLong, _handle_reconnect_fails, Goes
  <1>13. CASE AttemptConnects
    <2>1. Spent' = 0
      BY <1>13 DEF AttemptConnects, _mqtt_connect
    <2> QED
      BY <1>13, <2>1 DEF AttemptConnects, _mqtt_connect, Goes
  <1>14. CASE Resubscribed
    BY <1>14 DEF Resubscribed, _handle_reconnect_fails, Goes
  <1>15. CASE Tick
    <2>1. Spent' = Spent /\ idle' <= idle + 1 /\ idle' \in Nat
      BY <1>15 DEF Tick, Min2, IdleBound, QuietBound
    <2> QED
      BY <1>15, <2>1 DEF Tick, Less, Max2
  <1>16. CASE UNCHANGED vars
    BY <1>16 DEF vars
  <1> QED
    BY <1>1, <1>2, <1>3, <1>4, <1>5, <1>6, <1>7, <1>8, <1>9, <1>10, <1>11, <1>12,
       <1>13, <1>14, <1>15, <1>16 DEF Next, Loop

(* The time without a connection. *)
LEMMA WaitedKept ==
  ASSUME IInv, [Next]_vars
  PROVE  WaitedSoFar'
  <1> USE BackoffProperties, LinkAssumption DEF options, pingVars, backVars,
            lifeVars, seenVars, IInv, TypeOK, Places, WaitedSoFar, TooLong,
            AtTop
  <1>1. CASE uiot_mqtt_yield
    BY <1>1 DEF uiot_mqtt_yield, yield_refuses, Goes
  <1>2. CASE yield_returns
    BY <1>2 DEF yield_returns
  <1>3. CASE ReadPacket
    BY <1>3 DEF ReadPacket, cycle_for_read, _handle_pingresp_packet, Goes
  <1>4. CASE ReadNothing
    BY <1>4 DEF ReadNothing, Goes
  <1>5. CASE ReadFails
    BY <1>5 DEF ReadFails, _handle_disconnect, Goes
  <1>6. CASE NoPingDue
    BY <1>6 DEF NoPingDue, PingDue, Goes
  <1>7. CASE GiveUp
    BY <1>7 DEF GiveUp, PingDue, _handle_disconnect, Goes
  <1>8. CASE SendPing
    BY <1>8 DEF SendPing, PingDue, Goes
  <1>9. CASE PingFails
    BY <1>9 DEF PingFails, PingDue, _handle_disconnect, Goes
  <1>10. CASE Dropped
    BY <1>10 DEF Dropped, Goes
  <1>11. CASE NoAttempt
    BY <1>11 DEF NoAttempt, Goes
  <1>12. CASE AttemptFails
    <2>1. current_reconnect_wait_interval = Backoff[tries]
      BY <1>12 DEF AttemptFails, MayAttempt
    <2>2. tries \in Nat /\ tries + 1 \in Nat
      BY DEF WaitedBound
    <2>3. Backoff[tries'] = Grown(Backoff[tries])
      <3>1. CASE tries < MAX_RECONNECT_WAIT_INTERVAL
        <4>1. tries' = tries + 1
          BY <1>12, <2>2, <3>1 DEF AttemptFails, Min2, WaitedBound
        <4> QED
          BY <2>2, <4>1
      <3>2. CASE tries = MAX_RECONNECT_WAIT_INTERVAL
        BY <1>12, <3>2 DEF AttemptFails, Min2, WaitedBound, Grown
      <3> QED
        BY <3>1, <3>2 DEF WaitedBound
    <2>4. waited' = 0 /\ reconnect_delay_timer = 0
      BY <1>12 DEF AttemptFails, MayAttempt
    <2> DEFINE B == Backoff[tries]
    <2>5. B \in 1..MAX_RECONNECT_WAIT_INTERVAL /\ MAX_RECONNECT_WAIT_INTERVAL \in Nat
      BY <2>2
    <2>6. CASE 2 * B <= MAX_RECONNECT_WAIT_INTERVAL
      <3>1. current_reconnect_wait_interval' = 2 * B /\ reconnect_delay_timer' = 2 * B
        BY <1>12, <2>1, <2>6 DEF AttemptFails, _handle_reconnect_fails
      <3>2. Backoff[tries'] = 2 * B
        BY <2>3, <2>5, <2>6 DEF Grown, Min2
      <3> QED
        BY ONLY <2>4, <2>5, <2>6, <3>1, <3>2 DEF WaitedSoFar, TooLong
    <2>7. CASE 2 * B > MAX_RECONNECT_WAIT_INTERVAL /\ ENABLE_INFINITE_RECONNECT
      <3>1. /\ current_reconnect_wait_interval' = MAX_RECONNECT_WAIT_INTERVAL
            /\ reconnect_delay_timer' = MAX_RECONNECT_WAIT_INTERVAL
        BY <1>12, <2>1, <2>5, <2>7 DEF AttemptFails, _handle_reconnect_fails
      <3>2. Backoff[tries'] = MAX_RECONNECT_WAIT_INTERVAL
        BY <2>3, <2>5, <2>7 DEF Grown, Min2
      <3> QED
        BY ONLY <2>4, <2>5, <3>1, <3>2 DEF WaitedSoFar, TooLong
    <2>8. CASE 2 * B > MAX_RECONNECT_WAIT_INTERVAL /\ ~ENABLE_INFINITE_RECONNECT
      <3>1. current_reconnect_wait_interval' = 2 * B /\ reconnect_delay_timer' = 0
        BY <1>12, <2>1, <2>4, <2>5, <2>8 DEF AttemptFails, _handle_reconnect_fails
      <3> QED
        BY ONLY <2>5, <2>8, <3>1 DEF WaitedSoFar, TooLong
    <2> QED
      BY <2>5, <2>6, <2>7, <2>8
  <1>13. CASE AttemptConnects
    BY <1>13 DEF AttemptConnects, MayAttempt, _mqtt_connect, Goes
  <1>14. CASE Resubscribed
    BY <1>14 DEF Resubscribed, _handle_reconnect_fails, Goes
  <1>15. CASE Tick
    <2> DEFINE B == Backoff[tries]
    <2>1. /\ B \in 1..MAX_RECONNECT_WAIT_INTERVAL /\ MAX_RECONNECT_WAIT_INTERVAL \in Nat
          /\ waited \in 0..MAX_RECONNECT_WAIT_INTERVAL
          /\ reconnect_delay_timer \in 0..MAX_RECONNECT_WAIT_INTERVAL
      BY DEF WaitedBound
    <2>2. /\ waited' = IF waited < MAX_RECONNECT_WAIT_INTERVAL THEN waited + 1 ELSE waited
          /\ reconnect_delay_timer' = IF reconnect_delay_timer > 0
                                      THEN reconnect_delay_timer - 1 ELSE 0
      BY ONLY <1>15, <2>1 DEF Tick, Less, Min2, Max2, WaitedBound
    <2>3. /\ is_connected' = is_connected /\ phase' = phase
          /\ auto_connect_enable' = auto_connect_enable
          /\ current_reconnect_wait_interval' = current_reconnect_wait_interval
          /\ tries' = tries
      BY ONLY <1>15 DEF Tick, options
    <2>4. ASSUME ~is_connected, auto_connect_enable, phase # "dropped"
          PROVE  IF TooLong THEN reconnect_delay_timer' = 0
                 ELSE /\ current_reconnect_wait_interval = B
                      /\ IF reconnect_delay_timer' = 0 THEN waited' >= B
                         ELSE waited' + reconnect_delay_timer' = B
      <3>1. IF TooLong THEN reconnect_delay_timer = 0
            ELSE /\ current_reconnect_wait_interval = B
                 /\ IF reconnect_delay_timer = 0 THEN waited >= B
                    ELSE waited + reconnect_delay_timer = B
        BY <2>4
      <3> QED
        BY ONLY <2>1, <2>2, <3>1
    <2> QED
      BY ONLY <2>3, <2>4 DEF WaitedSoFar, TooLong
  <1>16. CASE UNCHANGED vars
    BY <1>16 DEF vars
  <1> QED
    BY <1>1, <1>2, <1>3, <1>4, <1>5, <1>6, <1>7, <1>8, <1>9, <1>10, <1>11, <1>12,
       <1>13, <1>14, <1>15, <1>16 DEF Next, Loop

----------------------------------------------------------------------------
LEMMA InitIInv == Init => IInv
  <1> SUFFICES ASSUME Init PROVE IInv
    OBVIOUS
  <1> USE LongestInterval, LinkAssumption DEF Init
  <1>1. TypeOK
    <2>1. /\ MaxKeepAlive \in Nat /\ keep_alive_interval \in Nat
          /\ keep_alive_interval <= MaxKeepAlive
          /\ PING_RESP_WAIT \in Nat /\ MQTT_PING_RETRY_TIMES \in Nat
          /\ MAX_RECONNECT_WAIT_INTERVAL \in Nat
      OBVIOUS
    <2>2. \A a, b \in Nat : a * b \in Nat
      OBVIOUS
    <2>3. QuietBound \in Nat /\ IdleBound \in Nat
      BY ONLY <2>1, <2>2 DEF QuietBound, IdleBound
    <2>4. ping_timer \in 0..Max2(MaxKeepAlive, PING_RESP_WAIT)
      BY ONLY Init, <2>1 DEF Init, Max2
    <2>5. 0 \in 0..MQTT_PING_RETRY_TIMES /\ 0 \in 0..MaxInterval
          /\ 0 \in 0..MAX_RECONNECT_WAIT_INTERVAL /\ 0 \in 0..QuietBound
          /\ 0 \in 0..IdleBound /\ 0 \in 0..WaitedBound
      BY ONLY <2>1, <2>3 DEF MaxInterval, WaitedBound
    <2> QED
      BY ONLY Init, <2>4, <2>5 DEF Init, TypeOK, Phase
  <1>2. Spent = 0 /\ Places /\ TimerInBounds
    BY <1>1, PingWaitBounds DEF Places, TimerInBounds, Spent
  <1>3. QuietSoFar /\ IdleSoFar /\ WaitedSoFar
    BY <1>2 DEF QuietSoFar, IdleSoFar, WaitedSoFar
  <1> QED
    BY <1>1, <1>2, <1>3 DEF IInv

LEMMA StepIInv == IInv /\ [Next]_vars => IInv'
  <1> SUFFICES ASSUME IInv, [Next]_vars PROVE IInv'
    OBVIOUS
  <1> QED
    BY TypeKept, PlacesKept, QuietKept, IdleKept, WaitedKept DEF IInv

LEMMA Invariance == Spec => []IInv
  BY InitIInv, StepIInv, PTL DEF Spec

(* The state of a connection is what TypeOK says: all counters and timers  *)
(* stay within their bounds.  Of the reconnect interval, which             *)
(* _handle_reconnect doubles before it looks at the maximum, this bound is *)
(* twice the maximum; IntervalIsCapped says when it is less.               *)
THEOREM TypeCorrect == Spec => []TypeOK
  <1>1. IInv => TypeOK
    BY DEF IInv
  <1> QED
    BY <1>1, Invariance, PTL

(* In a build that reconnects without end _handle_reconnect keeps the      *)
(* interval within the maximum; in any build the client waits no longer,   *)
(* as an interval over the maximum is not given to the timer.              *)
IntervalCapped ==
  /\ ENABLE_INFINITE_RECONNECT =>
       current_reconnect_wait_interval <= MAX_RECONNECT_WAIT_INTERVAL
  /\ reconnect_delay_timer <= MAX_RECONNECT_WAIT_INTERVAL

THEOREM IntervalIsCapped == Spec => []IntervalCapped
  <1>1. IInv /\ Init => IntervalCapped
    BY LinkAssumption DEF Init, IntervalCapped
  <1>2. IInv /\ IInv' /\ IntervalCapped /\ [Next]_vars => IntervalCapped'
    <2> SUFFICES ASSUME IInv, IInv', IntervalCapped, [Next]_vars PROVE IntervalCapped'
      OBVIOUS
    <2>1. reconnect_delay_timer' <= MAX_RECONNECT_WAIT_INTERVAL
      BY LinkAssumption DEF IInv, TypeOK
    <2>2. ENABLE_INFINITE_RECONNECT' = ENABLE_INFINITE_RECONNECT
      BY ONLY [Next]_vars
         DEF Next, Loop, vars, options, uiot_mqtt_yield, yield_returns, ReadPacket,
             ReadNothing, ReadFails, NoPingDue, GiveUp, SendPing, PingFails, Dropped,
             NoAttempt, AttemptFails, AttemptConnects, Resubscribed, Tick
    <2>3. \/ UNCHANGED current_reconnect_wait_interval
          \/ current_reconnect_wait_interval' = MIN_RECONNECT_WAIT_INTERVAL
          \/ _handle_reconnect_fails
      BY ONLY [Next]_vars
         DEF Next, Loop, vars, backVars, uiot_mqtt_yield, yield_returns, ReadPacket,
             ReadNothing, ReadFails, NoPingDue, GiveUp, SendPing, PingFails, Dropped,
             NoAttempt, AttemptFails, AttemptConnects, Resubscribed, Tick
    <2>4. ASSUME ENABLE_INFINITE_RECONNECT, _handle_reconnect_fails
          PROVE  current_reconnect_wait_interval' <= MAX_RECONNECT_WAIT_INTERVAL
      BY ONLY <2>4, LinkAssumption DEF _handle_reconnect_fails
    <2> QED
      BY <2>1, <2>2, <2>3, <2>4, LinkAssumption DEF IntervalCapped
  <1> QED
    BY <1>1, <1>2, Invariance, InitIInv, PTL DEF Spec

(* _mqtt_keep_alive gives up a connection only after the silence its pings *)
(* allow.                                                                  *)
THEOREM SilentConnectionsAreGivenUp == Spec => []GivenUpOnlyIfQuiet
  <1>1. IInv => GivenUpOnlyIfQuiet
    <2> SUFFICES ASSUME IInv, phase = "dropped", cause = "silent"
                 PROVE  quiet >= MQTT_PING_RETRY_TIMES * PingWait
                                 + (IF sign = "ACK" THEN keep_alive_interval ELSE 0)
      BY DEF GivenUpOnlyIfQuiet
    <2>1. ping_timer = 0 /\ Spent = MQTT_PING_RETRY_TIMES * PingWait
      BY DEF IInv, QuietSoFar, Spent
    <2>2. quiet \in Nat
      BY LongestInterval, LinkAssumption DEF IInv, TypeOK, QuietBound
    <2> QED
      BY <2>1, <2>2 DEF IInv, QuietSoFar
  <1> QED
    BY <1>1, Invariance, PTL

(* No connection outlives the longest silence the pings allow: a broker    *)
(* that is gone is noticed by the yields that go on.                       *)
THEOREM GoneBrokersAreNoticed == Spec => []SilenceIsNoticed
  <1>1. IInv => SilenceIsNoticed
    <2> SUFFICES ASSUME IInv, is_connected, keep_alive_interval # 0
                 PROVE  idle <= Patience
      BY DEF SilenceIsNoticed
    <2>1. /\ idle \in Nat /\ ping_timer \in Nat /\ is_ping_outstanding \in Nat
          /\ is_ping_outstanding <= MQTT_PING_RETRY_TIMES /\ MQTT_PING_RETRY_TIMES \in Nat
          /\ keep_alive_interval \in Nat
      BY LongestInterval, LinkAssumption DEF IInv, TypeOK, IdleBound, QuietBound, Max2
    <2>2. /\ Spent \in Nat /\ MQTT_PING_RETRY_TIMES * PingWait \in Nat
          /\ Spent <= MQTT_PING_RETRY_TIMES * PingWait
      BY PingWaitBounds DEF IInv
    <2>3. idle + ping_timer <= keep_alive_interval + Spent + is_ping_outstanding + 1
      BY <2>1, <2>2 DEF IInv, IdleSoFar
    <2> QED
      BY <2>1, <2>2, <2>3 DEF Patience
  <1> QED
    BY <1>1, Invariance, PTL

(* Attempts to reconnect keep the distance that doubles with each failure, *)
(* up to the maximum, and no wait is longer.                               *)
THEOREM AttemptsKeepTheirDistance == Spec => []RetriesBackOff
  <1>1. IInv => RetriesBackOff
    <2>1. ASSUME IInv PROVE reconnect_delay_timer \in Nat
                            /\ waited \in Nat /\ tries \in Nat
      BY <2>1, LinkAssumption DEF IInv, TypeOK, WaitedBound
    <2>2. ASSUME IInv, MayAttempt PROVE waited >= Backoff[tries]
      BY <2>2, <2>1 DEF IInv, TypeOK, Places, WaitedSoFar, MayAttempt, AtTop
    <2>3. ASSUME IInv, ~is_connected, phase # "dropped", reconnect_delay_timer > 0
          PROVE  waited + reconnect_delay_timer <= Backoff[tries]
      BY <2>3, <2>1, BackoffProperties DEF IInv, TypeOK, Places, WaitedSoFar
    <2> QED
      BY <2>2, <2>3 DEF RetriesBackOff
  <1> QED
    BY <1>1, Invariance, PTL
=============================================================================
