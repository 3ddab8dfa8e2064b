---------------------------- MODULE AtClient_proofs ----------------------------
(***************************************************************************)
(* Proofs about AtClient, for any networks, links, buffers and peers.      *)
(***************************************************************************)
EXTENDS AtClient, SequenceTheorems, WellFoundedInduction, TLAPS

----------------------------------------------------------------------------
(* The inductive invariants. *)

Texts == {"OK", "ERROR", "CONNECT", "CLOSED", ">", "LEN", "DATA", "SEND OK", "ready"}
Words == Seq((Nat \X Nat) \cup Nat)
Lines == [text : Texts, own : BOOLEAN, arg : Words]
Links_ == [conn : Nat, sent : Nat, kept : Seq(Nat \X Nat)]

(* What the proofs need of the types; TypeOK is of bounded numbers. *)
Types ==
  /\ cmd.link \in -1 .. MAX_LINK - 1 /\ cmd.len \in Nat
  /\ net \in Net /\ handle \in [Net -> 0..MAX_LINK]
  /\ up \in [Net -> BOOLEAN] /\ \A n \in Net : up[n] => handle[n] # 0
  /\ esp8266_link \in [Link -> BOOLEAN]
  /\ ring_tcp \in [Link -> Words] /\ received \in [Net -> Words]
  /\ uart \in Seq(Lines) /\ modem \in [Link -> Links_]
  /\ conns \in Nat /\ conn_of \in [Net -> Nat]
  /\ late \in BOOLEAN /\ unasked \in BOOLEAN /\ mixed \in BOOLEAN /\ crossed \in BOOLEAN

(* The start of the module ends with a link that was free when it began;   *)
(* bytes are read and written on the link of a connected network.          *)
Connecting == ToSet(Startup) \cup {"RST again", "CIPSTART", "CIPRECVMODE"}
Transfer == {"CIPRECVLEN", "CIPRECVDATA", "CIPSEND", "data"}

Room ==
  /\ cmd.name \in ToSet(Startup) => Free # {}
  /\ cmd.name = "CIPSTART" => cmd.link \in Link /\ ~esp8266_link[cmd.link]
  /\ cmd.name \in Connecting => ~up[net]
  /\ cmd.name = "CIPRECVMODE" =>
       cmd.link \in Link /\ esp8266_link[cmd.link] /\ handle[net] = HandleOf(cmd.link)
  /\ cmd.name \in Transfer => up[net] /\ handle[net] = HandleOf(cmd.link)

InTime == ~(late \/ unasked)

(* The line that ends the command under way, and what is behind it. *)
Last_(e) ==
  \/ /\ uart[e].text = "ERROR" /\ Len(uart) = e
     /\ cmd.name = "CIPSTART" => ~Open(cmd.link)
     /\ cmd.name = "CIPCLOSE" => cmd.link \notin Link
  \/ uart[e].text = "ready" /\ cmd.name \in {"RST", "RST again"} /\ Len(uart) = e
  \/ /\ uart[e].text = "CONNECT" /\ cmd.name = "CIPSTART" /\ Open(cmd.link)
     /\ Len(uart) = e + 1
  \/ /\ Len(uart) = e + 1 /\ uart[e + 1].text = "OK"
     /\ \/ uart[e].text = "CLOSED" /\ cmd.name = "CIPCLOSE"
        \/ uart[e].text = "LEN" /\ cmd.name = "CIPRECVLEN"
        \/ uart[e].text = "DATA" /\ cmd.name = "CIPRECVDATA"
  \/ /\ uart[e].text = "OK" /\ cmd.name = "CIPSEND"
     /\ Len(uart) = e + 1 /\ uart[e + 1].text = ">"
  \/ uart[e].text = "OK" /\ ~custom_flag /\ Len(uart) = e
  \/ uart[e].text = "SEND OK" /\ cmd.name = "data" /\ Len(uart) = e

(* Before it, the queue holds nothing but OK, left of earlier answers, and *)
(* only a command that OK does not end meets one.                          *)
EndsAt(e) ==
  /\ uart[e].own
  /\ \A i \in 1 .. e - 1 : uart[i].text = "OK"
  /\ e > 1 => custom_flag
  /\ Last_(e)

Rest ==
  /\ \A i \in 1..Len(uart) : uart[i].text = "OK"
  /\ cmd.name \notin {"none", "CIPCLOSE", "CIPRECVLEN", "CIPRECVDATA"} => uart = <<>>

Queue ==
  InTime => /\ ~mixed
            /\ Waiting => \E e \in 1..Len(uart) : EndsAt(e)
            /\ ~Waiting => Rest

(* Between two operations both sides hold the same links as open; CIPSTART *)
(* and CIPCLOSE are ahead of the client by the link they are about.        *)
Agree ==
  InTime =>
    /\ \A l \in Link : \/ esp8266_link[l] <=> Open(l)
                       \/ cmd.name \in {"CIPSTART", "CIPCLOSE"} /\ l = cmd.link
    /\ cmd.name = "CIPSTART" /\ result # "NONE" => (Open(cmd.link) <=> result = "SUCCESS")
    /\ cmd.name = "CIPCLOSE" /\ cmd.link \in Link =>
         /\ ~Open(cmd.link)
         /\ result # "NONE" => result = "SUCCESS"

StepInv == Types /\ Room /\ Queue /\ Agree

----------------------------------------------------------------------------
(* The least free link. *)
LEMMA LeastElement ==
  ASSUME NEW T, T \subseteq Nat, T # {}
  PROVE  \E x \in T : \A y \in T : x <= y
  <1> DEFINE R == OpToRel(<, Nat)
  <1>1. IsWellFoundedOn(R, Nat)
    BY NatLessThanWellFounded, Zenon
  <1>2. \A x, y \in Nat : x < y => <<x, y>> \in R
    BY DEF OpToRel
  <1> HIDE DEF R
  <1>3. PICK x \in T : \A y \in T : ~(<<y, x>> \in R)
    BY <1>1, WFMin
  <1>4. \A y \in T : x <= y
    <2> TAKE y \in T
    <2>1. x \in Nat /\ y \in Nat
      OBVIOUS
    <2>2. ~(y < x)
      BY <1>2, <1>3, <2>1, Zenon
    <2> QED
      BY <2>1, <2>2
  <1> QED
    BY <1>4

LEMMA FreeLinkIsFree ==
  ASSUME Free # {}
  PROVE  FreeLink \in Link /\ ~esp8266_link[FreeLink]
  <1>1. Free \subseteq Nat /\ Free \subseteq Link
    BY DEF Free, Link
  <1>2. \E x \in Free : \A y \in Free : x <= y
    BY <1>1, LeastElement, Zenon
  <1>3. FreeLink \in Free
    BY <1>2, Zenon DEF FreeLink, Min
  <1> QED
    BY <1>1, <1>3 DEF Free

(* The commands of the start of the module, by name. *)
LEMMA StartupNames ==
  /\ Len(Startup) = 6
  /\ Startup[1] = "RST" /\ Startup[2] = "ATE0" /\ Startup[3] = "CWMODE"
  /\ Startup[4] = "CIPMUX" /\ Startup[5] = "CWJAP" /\ Startup[6] = "CIFSR"
  /\ ToSet(Startup) = {"RST", "ATE0", "CWMODE", "CIPMUX", "CWJAP", "CIFSR"}
  <1>1. /\ Len(Startup) = 6
        /\ Startup[1] = "RST" /\ Startup[2] = "ATE0" /\ Startup[3] = "CWMODE"
        /\ Startup[4] = "CIPMUX" /\ Startup[5] = "CWJAP" /\ Startup[6] = "CIFSR"
    BY DEF Startup
  <1>2. DOMAIN Startup = {1, 2, 3, 4, 5, 6}
    BY DEF Startup
  <1> QED
    BY <1>1, <1>2 DEF ToSet

----------------------------------------------------------------------------
(* What an answer adds to the queue. *)

OneSent(t) ==
  /\ Len(uart') = Len(uart) + 1
  /\ \A i \in 1..Len(uart) : uart'[i].text = uart[i].text /\ ~uart'[i].own
  /\ uart'[Len(uart) + 1].text = t /\ uart'[Len(uart) + 1].own

TwoSent(t, u) ==
  /\ Len(uart') = Len(uart) + 2
  /\ \A i \in 1..Len(uart) : uart'[i].text = uart[i].text /\ ~uart'[i].own
  /\ uart'[Len(uart) + 1].text = t /\ uart'[Len(uart) + 1].own
  /\ uart'[Len(uart) + 2].text = u /\ uart'[Len(uart) + 2].own

(* The lines behind the queue are the new ones, and only they are own. *)
LEMMA Answered ==
  ASSUME uart \in Seq(Lines), NEW new \in Seq(Lines), Answer(new)
  PROVE  /\ uart' \in Seq(Lines) /\ Len(uart') = Len(uart) + Len(new)
         /\ \A i \in 1..Len(uart) : uart'[i].text = uart[i].text /\ ~uart'[i].own
         /\ \A j \in 1..Len(new) : uart'[Len(uart) + j] = new[j]
         /\ \A i \in 1..Len(uart') : uart'[i].own => \E j \in 1..Len(new) : uart'[i] = new[j]
  <1> DEFINE old == [i \in 1..Len(uart) |-> [uart[i] EXCEPT !.own = FALSE]]
  <1>1. ASSUME NEW i \in 1..Len(uart)
        PROVE  /\ [uart[i] EXCEPT !.own = FALSE] \in Lines
               /\ [uart[i] EXCEPT !.own = FALSE].text = uart[i].text
               /\ ~[uart[i] EXCEPT !.own = FALSE].own
    <2>1. uart[i] \in Lines
      OBVIOUS
    <2> QED
      BY <2>1 DEF Lines
  <1>2. Len(uart) \in Nat /\ Len(new) \in Nat
    OBVIOUS
  <1>3. old \in Seq(Lines) /\ Len(old) = Len(uart)
    BY <1>1, <1>2
  <1>4. \A i \in 1..Len(uart) : old[i].text = uart[i].text /\ ~old[i].own
    BY <1>1
  <1>5. uart' = old \o new
    BY DEF Answer
  <1> HIDE DEF old
  <1>6. /\ uart' \in Seq(Lines) /\ Len(uart') = Len(old) + Len(new)
        /\ \A i \in 1..(Len(old) + Len(new)) :
             uart'[i] = IF i <= Len(old) THEN old[i] ELSE new[i - Len(old)]
    BY ONLY <1>3, <1>5, new \in Seq(Lines), ConcatProperties
  <1>7. \A i \in 1..Len(uart) : uart'[i] = old[i]
    BY ONLY <1>2, <1>3, <1>6
  <1>8. ASSUME NEW j \in 1..Len(new)
        PROVE  uart'[Len(uart) + j] = new[j]
    <2>1. Len(old) + j \in 1..(Len(old) + Len(new)) /\ ~(Len(old) + j <= Len(old))
          /\ Len(old) + j - Len(old) = j
      BY ONLY <1>2, <1>3, <1>8
    <2> QED
      BY ONLY <1>3, <1>6, <2>1
  <1>9. ASSUME NEW i \in 1..Len(uart'), uart'[i].own
        PROVE  \E j \in 1..Len(new) : uart'[i] = new[j]
    <2>1. ~(i <= Len(uart))
      <3>1. SUFFICES ASSUME i <= Len(uart) PROVE FALSE
        OBVIOUS
      <3>2. i \in 1..Len(uart)
        BY <1>2, <3>1
      <3> QED
        BY <1>4, <1>7, <1>9, <3>2
    <2>2. i - Len(uart) \in 1..Len(new) /\ Len(uart) + (i - Len(uart)) = i
      BY ONLY <1>2, <1>3, <1>6, <1>9, <2>1
    <2> QED
      BY <1>8, <2>2
  <1> QED
    BY <1>3, <1>4, <1>6, <1>7, <1>8, <1>9

LEMMA NoWords == <<>> \in Words
  BY DEF Words

LEMMA TextIsLine ==
  ASSUME NEW t \in Texts, NEW a \in Words
  PROVE  /\ Text(t, a) \in Lines
         /\ Text(t, a).text = t /\ Text(t, a).own /\ Text(t, a).arg = a
  BY DEF Text, Lines

LEMMA FunctionIsSeq ==
  ASSUME NEW S, NEW n \in Nat, NEW s \in [1..n -> S]
  PROVE  s \in Seq(S) /\ Len(s) = n
  OBVIOUS

LEMMA PlainOne ==
  ASSUME NEW t \in Texts
  PROVE  /\ Plain(<<t>>) \in Seq(Lines) /\ Len(Plain(<<t>>)) = 1
         /\ Plain(<<t>>)[1] = Text(t, <<>>)
  <1>1. Text(t, <<>>) \in Lines
    BY TextIsLine, NoWords
  <1>2. Plain(<<t>>) = [i \in 1..1 |-> Text(<<t>>[i], <<>>)]
    BY DEF Plain
  <1>3. \A i \in 1..1 : <<t>>[i] = t
    OBVIOUS
  <1> QED
    BY <1>1, <1>2, <1>3

LEMMA PlainTwo ==
  ASSUME NEW t \in Texts, NEW u \in Texts
  PROVE  /\ Plain(<<t, u>>) \in Seq(Lines) /\ Len(Plain(<<t, u>>)) = 2
         /\ Plain(<<t, u>>)[1] = Text(t, <<>>) /\ Plain(<<t, u>>)[2] = Text(u, <<>>)
  <1>1. Text(t, <<>>) \in Lines /\ Text(u, <<>>) \in Lines
    BY TextIsLine, NoWords
  <1>2. Plain(<<t, u>>) = [i \in 1..2 |-> Text(<<t, u>>[i], <<>>)]
    BY DEF Plain
  <1>3. \A i \in 1..2 : <<t, u>>[i] \in {t, u}
    OBVIOUS
  <1>4. \A i \in 1..2 : Text(<<t, u>>[i], <<>>) \in Lines
    BY <1>1, <1>3
  <1> HIDE DEF Lines, Text
  <1>5. \A i \in 1..2 : Plain(<<t, u>>)[i] = Text(<<t, u>>[i], <<>>)
    BY <1>2
  <1>6. Plain(<<t, u>>) \in Seq(Lines) /\ Len(Plain(<<t, u>>)) = 2
    <2>1. Plain(<<t, u>>) \in [1..2 -> Lines]
      BY <1>2, <1>4
    <2> QED
      BY ONLY <2>1, FunctionIsSeq, 2 \in Nat
  <1>7. <<t, u>>[1] = t /\ <<t, u>>[2] = u /\ 1 \in 1..2 /\ 2 \in 1..2
    OBVIOUS
  <1> QED
    BY <1>5, <1>6, <1>7

LEMMA SentOne ==
  ASSUME uart \in Seq(Lines), NEW t \in Texts, Answer(Plain(<<t>>))
  PROVE  uart' \in Seq(Lines) /\ OneSent(t)
  <1>1. Text(t, <<>>).text = t /\ Text(t, <<>>).own
    BY TextIsLine, NoWords
  <1>2. /\ Plain(<<t>>) \in Seq(Lines) /\ Len(Plain(<<t>>)) = 1
        /\ Plain(<<t>>)[1] = Text(t, <<>>)
    BY PlainOne
  <1>3. /\ uart' \in Seq(Lines) /\ Len(uart') = Len(uart) + 1
        /\ \A i \in 1..Len(uart) : uart'[i].text = uart[i].text /\ ~uart'[i].own
        /\ uart'[Len(uart) + 1] = Text(t, <<>>)
    BY <1>2, Answered
  <1> HIDE DEF Text
  <1> QED
    BY <1>1, <1>3 DEF OneSent

LEMMA SentTwo ==
  ASSUME uart \in Seq(Lines), NEW t \in Texts, NEW u \in Texts, Answer(Plain(<<t, u>>))
  PROVE  uart' \in Seq(Lines) /\ TwoSent(t, u)
  <1>1. /\ Text(t, <<>>).text = t /\ Text(t, <<>>).own
        /\ Text(u, <<>>).text = u /\ Text(u, <<>>).own
    BY TextIsLine, NoWords
  <1>2. /\ Plain(<<t, u>>) \in Seq(Lines) /\ Len(Plain(<<t, u>>)) = 2
        /\ Plain(<<t, u>>)[1] = Text(t, <<>>) /\ Plain(<<t, u>>)[2] = Text(u, <<>>)
    BY PlainTwo
  <1>3. /\ uart' \in Seq(Lines) /\ Len(uart') = Len(uart) + 2
        /\ \A i \in 1..Len(uart) : uart'[i].text = uart[i].text /\ ~uart'[i].own
        /\ uart'[Len(uart) + 1] = Text(t, <<>>) /\ uart'[Len(uart) + 2] = Text(u, <<>>)
    BY SMTT(30), <1>2, Answered
  <1> HIDE DEF Text
  <1> QED
    BY <1>1, <1>3 DEF TwoSent

----------------------------------------------------------------------------
(* What the module does with each command: the lines it answers with, and  *)
(* the links it opens and closes.                                          *)

ModuleTypes == uart \in Seq(Lines) /\ modem \in [Link -> Links_] /\ conns \in Nat

LEMMA RefuseSends ==
  ASSUME ModuleTypes, Refuse
  PROVE  ModuleTypes' /\ OneSent("ERROR") /\ UNCHANGED module
  BY SentOne DEF ModuleTypes, Refuse, module, Texts

LEMMA StartSends ==
  ASSUME ModuleTypes, NEW l \in Link, Module_CIPSTART(l)
  PROVE  /\ ModuleTypes'
         /\ \/ /\ TwoSent("CONNECT", "OK") /\ ~Open(l)
               /\ modem'[l] = [conn |-> conns + 1, sent |-> 0, kept |-> <<>>]
               /\ \A k \in Link \ {l} : modem'[k] = modem[k]
            \/ OneSent("ERROR") /\ UNCHANGED module
  <1>1. CASE Refuse
    BY <1>1, RefuseSends
  <1>2. CASE /\ ~Open(l) /\ conns' = conns + 1
             /\ modem' = [modem EXCEPT ![l] = [NoConn EXCEPT !.conn = conns + 1]]
             /\ Answer(Plain(<<"CONNECT", "OK">>))
    <2>1. uart' \in Seq(Lines) /\ TwoSent("CONNECT", "OK")
      BY <1>2, SentTwo DEF ModuleTypes, Texts
    <2>2. [NoConn EXCEPT !.conn = conns + 1] = [conn |-> conns + 1, sent |-> 0, kept |-> <<>>]
      BY DEF NoConn
    <2>3. [conn |-> conns + 1, sent |-> 0, kept |-> <<>>] \in Links_
      BY DEF ModuleTypes, Links_
    <2>4. modem' \in [Link -> Links_] /\ conns' \in Nat
      BY <1>2, <2>2, <2>3 DEF ModuleTypes
    <2>5. /\ modem'[l] = [conn |-> conns + 1, sent |-> 0, kept |-> <<>>]
          /\ \A k \in Link \ {l} : modem'[k] = modem[k]
      BY <1>2, <2>2 DEF ModuleTypes
    <2> QED
      BY <1>2, <2>1, <2>4, <2>5 DEF ModuleTypes
  <1> QED
    BY <1>1, <1>2 DEF Module_CIPSTART

LEMMA ModeSends ==
  ASSUME ModuleTypes, Module_CIPRECVMODE
  PROVE  ModuleTypes' /\ OneSent("OK") /\ UNCHANGED module
  BY SentOne DEF ModuleTypes, Module_CIPRECVMODE, module, Texts

LEMMA SettingSends ==
  ASSUME ModuleTypes, Module_Setting
  PROVE  ModuleTypes' /\ (OneSent("OK") \/ OneSent("ERROR")) /\ UNCHANGED module
  BY SentOne DEF ModuleTypes, Module_Setting, module, Texts

LEMMA ResetSends ==
  ASSUME ModuleTypes, Module_RST
  PROVE  ModuleTypes' /\ TwoSent("OK", "ready") /\ UNCHANGED module
  BY SentTwo DEF ModuleTypes, Module_RST, module, Texts

LEMMA PromptSends ==
  ASSUME ModuleTypes, NEW l, Module_CIPSEND(l)
  PROVE  /\ ModuleTypes' /\ UNCHANGED modem
         /\ TwoSent("OK", ">") \/ OneSent("ERROR")
  BY SentTwo, RefuseSends DEF ModuleTypes, Module_CIPSEND, module, Texts

LEMMA DataSends ==
  ASSUME ModuleTypes, Module_Data
  PROVE  /\ ModuleTypes' /\ UNCHANGED modem
         /\ OneSent("SEND OK") \/ OneSent("ERROR")
  <1>1. CASE prompted
    BY <1>1, SentOne DEF ModuleTypes, Module_Data, module, Texts
  <1>2. CASE ~prompted
    BY <1>2, SentOne DEF ModuleTypes, Module_Data, module, Texts
  <1> QED
    BY <1>1, <1>2

LEMMA CloseSends ==
  ASSUME ModuleTypes, NEW l, Module_CIPCLOSE(l)
  PROVE  /\ ModuleTypes'
         /\ \/ /\ TwoSent("CLOSED", "OK") /\ Open(l)
               /\ modem'[l] = NoConn /\ \A k \in Link \ {l} : modem'[k] = modem[k]
            \/ OneSent("ERROR") /\ ~Open(l) /\ UNCHANGED module
  <1>1. CASE Open(l)
    <2>1. /\ modem' = [modem EXCEPT ![l] = NoConn] /\ Answer(Plain(<<"CLOSED", "OK">>))
          /\ UNCHANGED conns /\ l \in Link
      BY <1>1 DEF Module_CIPCLOSE, Open
    <2>2. uart' \in Seq(Lines) /\ TwoSent("CLOSED", "OK")
      BY <2>1, SentTwo DEF ModuleTypes, Texts
    <2>3. NoConn \in Links_
      BY DEF NoConn, Links_
    <2> HIDE DEF Links_, NoConn
    <2>4. /\ modem' \in [Link -> Links_] /\ modem'[l] = NoConn
          /\ \A k \in Link \ {l} : modem'[k] = modem[k]
      BY <2>1, <2>3 DEF ModuleTypes
    <2> QED
      BY <1>1, <2>1, <2>2, <2>4 DEF ModuleTypes
  <1>2. CASE ~Open(l)
    BY <1>2, RefuseSends DEF Module_CIPCLOSE
  <1> QED
    BY <1>1, <1>2

LEMMA LengthSends ==
  ASSUME ModuleTypes, Module_CIPRECVLEN
  PROVE  /\ ModuleTypes' /\ TwoSent("LEN", "OK") /\ UNCHANGED module
         /\ \A i \in 1..Len(uart') : uart'[i].own =>
              \/ /\ uart'[i].text = "LEN"
                 /\ \A l \in Link : uart'[i].arg[l + 1] = Len(modem[l].kept)
              \/ uart'[i].text = "OK"
  <1> DEFINE a == [i \in 1..MAX_LINK |-> Len(modem[i - 1].kept)]
             new == <<Text("LEN", a), Text("OK", <<>>)>>
  <1>1. MAX_LINK \in Nat /\ Link = 0 .. MAX_LINK - 1
    BY AtAssumption DEF Link
  <1>2. a \in Words /\ \A l \in Link : a[l + 1] = Len(modem[l].kept)
    <2>1. ASSUME NEW i \in 1..MAX_LINK
          PROVE  Len(modem[i - 1].kept) \in Nat
      <3>1. i - 1 \in Link
        BY <1>1
      <3> QED
        BY <3>1 DEF ModuleTypes, Links_
    <2>2. a \in [1..MAX_LINK -> (Nat \X Nat) \cup Nat]
      BY <2>1
    <2>3. a \in Words
      BY ONLY <1>1, <2>2, FunctionIsSeq DEF Words
    <2>4. ASSUME NEW l \in Link
          PROVE  a[l + 1] = Len(modem[l].kept)
      <3>1. l + 1 \in 1..MAX_LINK /\ (l + 1) - 1 = l
        BY <1>1
      <3> QED
        BY <3>1
    <2> QED
      BY <2>3, <2>4
  <1> HIDE DEF a
  <1>3. /\ Text("LEN", a) \in Lines /\ Text("OK", <<>>) \in Lines
        /\ Text("LEN", a).text = "LEN" /\ Text("LEN", a).own /\ Text("LEN", a).arg = a
        /\ Text("OK", <<>>).text = "OK" /\ Text("OK", <<>>).own
    <2>1. "LEN" \in Texts /\ "OK" \in Texts
      BY DEF Texts
    <2> HIDE DEF Lines, Words, Texts, Text
    <2>2. /\ Text("LEN", a) \in Lines /\ Text("LEN", a).text = "LEN"
          /\ Text("LEN", a).own /\ Text("LEN", a).arg = a
      BY ONLY <1>2, <2>1, TextIsLine
    <2>3. /\ Text("OK", <<>>) \in Lines /\ Text("OK", <<>>).text = "OK" /\ Text("OK", <<>>).own
      BY ONLY <2>1, TextIsLine, NoWords
    <2> QED
      BY ONLY <2>2, <2>3
  <1> HIDE DEF Text, Lines
  <1>4. /\ new \in Seq(Lines) /\ Len(new) = 2
        /\ new[1] = Text("LEN", a) /\ new[2] = Text("OK", <<>>)
    BY <1>3
  <1>5. Answer(new) /\ UNCHANGED module
    BY DEF Module_CIPRECVLEN, a
  <1> HIDE DEF new
  <1>6. /\ uart' \in Seq(Lines) /\ Len(uart') = Len(uart) + 2
        /\ \A i \in 1..Len(uart) : uart'[i].text = uart[i].text /\ ~uart'[i].own
        /\ \A j \in 1..2 : uart'[Len(uart) + j] = new[j]
        /\ \A i \in 1..Len(uart') : uart'[i].own => \E j \in 1..2 : uart'[i] = new[j]
    <2>1. uart \in Seq(Lines)
      BY DEF ModuleTypes
    <2>2. /\ uart' \in Seq(Lines) /\ Len(uart') = Len(uart) + Len(new)
          /\ \A i \in 1..Len(uart) : uart'[i].text = uart[i].text /\ ~uart'[i].own
          /\ \A j \in 1..Len(new) : uart'[Len(uart) + j] = new[j]
          /\ \A i \in 1..Len(uart') : uart'[i].own => \E j \in 1..Len(new) : uart'[i] = new[j]
      BY ONLY <1>4, <1>5, <2>1, Answered
    <2> QED
      BY ONLY <1>4, <2>2
  <1>8. TwoSent("LEN", "OK")
    BY <1>3, <1>4, <1>6 DEF TwoSent
  <1>9. \A i \in 1..Len(uart') : uart'[i].own =>
              \/ /\ uart'[i].text = "LEN"
                 /\ \A l \in Link : uart'[i].arg[l + 1] = Len(modem[l].kept)
              \/ uart'[i].text = "OK"
    BY <1>2, <1>3, <1>4, <1>6
  <1> QED
    BY <1>5, <1>6, <1>8, <1>9 DEF ModuleTypes, module

(* The bytes the module gives away are the first it has kept. *)
Gives(l, len, k) ==
  /\ Open(l) /\ k = Min({len, Len(modem[l].kept)}) /\ k <= Len(modem[l].kept)
  /\ TwoSent("DATA", "OK")
  /\ modem'[l] = [modem[l] EXCEPT !.kept = SubSeq(@, k + 1, Len(@))]
  /\ \A m \in Link \ {l} : modem'[m] = modem[m]
  /\ \A i \in 1..Len(uart') : uart'[i].own =>
       \/ uart'[i].text = "DATA" /\ uart'[i].arg = SubSeq(modem[l].kept, 1, k)
       \/ uart'[i].text = "OK"

LEMMA BytesSent ==
  ASSUME ModuleTypes, NEW l, NEW len \in Nat, Module_CIPRECVDATA(l, len)
  PROVE  /\ ModuleTypes'
         /\ \/ \E k \in 0..len : Gives(l, len, k)
            \/ OneSent("ERROR") /\ UNCHANGED modem
  <1>1. CASE Refuse
    BY <1>1, RefuseSends DEF module
  <1>2. CASE ~Refuse
    <2> DEFINE kept == modem[l].kept
               k == Min({len, Len(kept)})
               given == SubSeq(kept, 1, k)
               new == <<Text("DATA", given), Text("OK", <<>>)>>
    <2>1. /\ l \in Link /\ Open(l)
          /\ Answer(new) /\ modem' = [modem EXCEPT ![l].kept = SubSeq(@, k + 1, Len(@))]
          /\ UNCHANGED conns
      BY <1>2 DEF Module_CIPRECVDATA, Open
    <2>2. kept \in Seq(Nat \X Nat) /\ Len(kept) \in Nat /\ modem[l] \in Links_
      BY <2>1 DEF ModuleTypes, Links_
    <2> HIDE DEF kept
    <2>3. k \in 0..len /\ k <= Len(kept)
      <3>1. \E x \in {len, Len(kept)} : \A y \in {len, Len(kept)} : x <= y
        BY <2>2
      <3>2. /\ k \in {len, Len(kept)} /\ k <= len /\ k <= Len(kept)
        BY <3>1 DEF Min
      <3> HIDE DEF k
      <3> QED
        BY <2>2, <3>2
    <2> HIDE DEF k
    <2>4. given \in Words /\ SubSeq(kept, k + 1, Len(kept)) \in Seq(Nat \X Nat)
      <3>1. given \in Seq(Nat \X Nat) /\ SubSeq(kept, k + 1, Len(kept)) \in Seq(Nat \X Nat)
        BY <2>2, <2>3
      <3> QED
        BY <3>1 DEF Words
    <2> HIDE DEF given
    <2>5. /\ Text("DATA", given) \in Lines /\ Text("OK", <<>>) \in Lines
          /\ Text("DATA", given).text = "DATA" /\ Text("DATA", given).own
          /\ Text("DATA", given).arg = given
          /\ Text("OK", <<>>).text = "OK" /\ Text("OK", <<>>).own
      <3>1. "DATA" \in Texts /\ "OK" \in Texts
        BY DEF Texts
      <3> HIDE DEF Lines, Words, Texts, Text
      <3>2. /\ Text("DATA", given) \in Lines /\ Text("DATA", given).text = "DATA"
            /\ Text("DATA", given).own /\ Text("DATA", given).arg = given
        BY ONLY <2>4, <3>1, TextIsLine
      <3>3. /\ Text("OK", <<>>) \in Lines /\ Text("OK", <<>>).text = "OK" /\ Text("OK", <<>>).own
        BY ONLY <3>1, TextIsLine, NoWords
      <3> QED
        BY ONLY <3>2, <3>3
    <2> HIDE DEF Text, Lines
    <2>6. /\ new \in Seq(Lines) /\ Len(new) = 2
          /\ new[1] = Text("DATA", given) /\ new[2] = Text("OK", <<>>)
      BY <2>5
    <2> HIDE DEF new
    <2>7. /\ uart' \in Seq(Lines) /\ Len(uart') = Len(uart) + 2
          /\ \A i \in 1..Len(uart) : uart'[i].text = uart[i].text /\ ~uart'[i].own
          /\ \A j \in 1..2 : uart'[Len(uart) + j] = new[j]
          /\ \A i \in 1..Len(uart') : uart'[i].own => \E j \in 1..2 : uart'[i] = new[j]
      <3>1. uart \in Seq(Lines)
        BY DEF ModuleTypes
      <3>2. /\ uart' \in Seq(Lines) /\ Len(uart') = Len(uart) + Len(new)
            /\ \A i \in 1..Len(uart) : uart'[i].text = uart[i].text /\ ~uart'[i].own
            /\ \A j \in 1..Len(new) : uart'[Len(uart) + j] = new[j]
            /\ \A i \in 1..Len(uart') : uart'[i].own => \E j \in 1..Len(new) : uart'[i] = new[j]
        BY ONLY <2>6, <2>1, <3>1, Answered
      <3> QED
        BY ONLY <2>6, <3>2
    <2>9. TwoSent("DATA", "OK")
      BY <2>5, <2>6, <2>7 DEF TwoSent
    <2>10. \A i \in 1..Len(uart') : uart'[i].own =>
                \/ uart'[i].text = "DATA" /\ uart'[i].arg = given
                \/ uart'[i].text = "OK"
      BY <2>5, <2>6, <2>7
    <2>11. [modem[l] EXCEPT !.kept = SubSeq(@, k + 1, Len(@))] \in Links_
      BY <2>2, <2>4 DEF Links_, kept
    <2>12. /\ modem' \in [Link -> Links_]
           /\ modem'[l] = [modem[l] EXCEPT !.kept = SubSeq(@, k + 1, Len(@))]
           /\ \A m \in Link \ {l} : modem'[m] = modem[m]
      BY <2>1, <2>11 DEF ModuleTypes
    <2>13. Gives(l, len, k)
      BY <2>1, <2>3, <2>9, <2>10, <2>12 DEF Gives, kept, k, given
    <2> QED
      BY <2>1, <2>3, <2>7, <2>12, <2>13 DEF ModuleTypes
  <1> QED
    BY <1>1, <1>2

----------------------------------------------------------------------------
(* An answer to a command that finds nothing but OK in the queue has the   *)
(* line that ends it.                                                      *)

OnlyOK == \A i \in 1..Len(uart) : uart[i].text = "OK"

LEMMA FitsOne ==
  ASSUME uart \in Seq(Lines), uart' \in Seq(Lines), OnlyOK, NEW t, OneSent(t),
         Len(uart) > 0 => custom_flag',
         \/ /\ t = "ERROR"
            /\ cmd'.name = "CIPSTART" => ~Open(cmd.link)'
            /\ cmd'.name = "CIPCLOSE" => cmd'.link \notin Link
         \/ t = "OK" /\ ~custom_flag'
         \/ t = "SEND OK" /\ cmd'.name = "data"
  PROVE  \E e \in 1..Len(uart') : EndsAt(e)'
  <1>1. Len(uart) \in Nat
    BY ONLY uart \in Seq(Lines)
  <1>0. PICK e \in Nat : e = Len(uart) + 1
    BY ONLY <1>1
  <1>2. /\ Len(uart) \in Nat /\ Len(uart') = e /\ e \in 1..Len(uart')
        /\ \A i \in 1 .. e - 1 : uart'[i].text = "OK"
        /\ uart'[e].text = t /\ uart'[e].own
    BY ONLY <1>0, <1>1, OneSent(t), OnlyOK DEF OneSent, OnlyOK
  <1>3. e > 1 => custom_flag'
    <2>1. e > 1 => Len(uart) > 0
      BY ONLY <1>0, <1>1
    <2> QED
      BY ONLY <2>1, Len(uart) > 0 => custom_flag'
  <1>4. Last_(e)'
    BY <1>2 DEF Last_
  <1>5. EndsAt(e)'
    BY <1>2, <1>3, <1>4 DEF EndsAt
  <1> QED
    BY <1>2, <1>5

LEMMA FitsTwo ==
  ASSUME uart \in Seq(Lines), uart' \in Seq(Lines), OnlyOK, NEW t, NEW u, TwoSent(t, u),
         custom_flag',
         \/ t = "CONNECT" /\ cmd'.name = "CIPSTART" /\ Open(cmd.link)'
         \/ /\ u = "OK"
            /\ \/ t = "CLOSED" /\ cmd'.name = "CIPCLOSE"
               \/ t = "LEN" /\ cmd'.name = "CIPRECVLEN"
               \/ t = "DATA" /\ cmd'.name = "CIPRECVDATA"
         \/ t = "OK" /\ u = ">" /\ cmd'.name = "CIPSEND"
  PROVE  \E e \in 1..Len(uart') : EndsAt(e)'
  <1>1. Len(uart) \in Nat
    BY ONLY uart \in Seq(Lines)
  <1>0. PICK e \in Nat : e = Len(uart) + 1
    BY ONLY <1>1
  <1>2. /\ Len(uart) \in Nat /\ Len(uart') = e + 1 /\ e \in 1..Len(uart')
        /\ \A i \in 1 .. e - 1 : uart'[i].text = "OK"
        /\ uart'[e].text = t /\ uart'[e].own
    BY <1>0 DEF TwoSent, OnlyOK
  <1>3. uart'[e + 1].text = u
    BY <1>0, <1>2 DEF TwoSent
  <1>4. Last_(e)'
    BY <1>2, <1>3 DEF Last_
  <1>5. EndsAt(e)'
    BY <1>2, <1>4 DEF EndsAt
  <1> QED
    BY <1>2, <1>5

LEMMA FitsReset ==
  ASSUME uart \in Seq(Lines), uart' \in Seq(Lines), OnlyOK,
         NEW t, NEW u, TwoSent(t, u), t = "OK", u = "ready",
         cmd'.name \in {"RST", "RST again"}
  PROVE  \E e \in 1..Len(uart') : EndsAt(e)'
  <1>1. Len(uart) \in Nat
    BY ONLY uart \in Seq(Lines)
  <1>0. PICK e \in Nat : e = Len(uart) + 2
    BY ONLY <1>1
  <1>2. /\ Len(uart) \in Nat /\ Len(uart') = e /\ e \in 1..Len(uart')
        /\ uart'[e].text = "ready" /\ uart'[e].own
    BY ONLY <1>0, <1>1, TwoSent(t, u), u = "ready" DEF TwoSent
  <1>3. ASSUME NEW i \in 1 .. e - 1
        PROVE  uart'[i].text = "OK"
    <2>1. CASE i \in 1..Len(uart)
      BY ONLY <2>1, TwoSent(t, u), OnlyOK DEF TwoSent, OnlyOK
    <2>2. CASE i = Len(uart) + 1
      BY ONLY <2>2, TwoSent(t, u), t = "OK" DEF TwoSent
    <2> QED
      BY ONLY <1>0, <1>1, <1>3, <2>1, <2>2
  <1>4. custom_flag'
    BY DEF custom_flag
  <1>5. Last_(e)'
    BY <1>2 DEF Last_
  <1>6. EndsAt(e)'
    BY <1>2, <1>3, <1>4, <1>5 DEF EndsAt
  <1> QED
    BY <1>2, <1>6

----------------------------------------------------------------------------
(* Types and Room, by action. *)

USE DEF HandleOf, client, module, faults

LEMMA LinkNumbers ==
  /\ MAX_LINK \in Nat /\ MAX_LINK > 0 /\ Link = 0 .. MAX_LINK - 1
  /\ \A l \in Link : l \in -1 .. MAX_LINK - 1 /\ l + 1 \in 1..MAX_LINK
  /\ \A h \in 0..MAX_LINK : h - 1 \in -1 .. MAX_LINK - 1 /\ (h # 0 => h - 1 \in Link)
  BY AtAssumption DEF Link

LEMMA TypesGive ==
  ASSUME Types
  PROVE  ModuleTypes /\ uart \in Seq(Lines) /\ Len(uart) \in Nat
  <1>1. uart \in Seq(Lines) /\ ModuleTypes
    BY DEF Types, ModuleTypes
  <1> QED
    BY ONLY <1>1

(* What a part of the queue taken out leaves. *)
LEMMA TakenOut ==
  ASSUME uart \in Seq(Lines), NEW n \in Nat, uart' = SubSeq(uart, n + 1, Len(uart))
  PROVE  /\ uart' \in Seq(Lines)
         /\ Len(uart') = IF n <= Len(uart) THEN Len(uart) - n ELSE 0
         /\ \A i \in 1..Len(uart') : i + n \in 1..Len(uart) /\ uart'[i] = uart[i + n]
  <1>1. Len(uart) \in Nat
    BY ONLY uart \in Seq(Lines)
  <1>2. CASE n + 1 <= Len(uart)
    <2>1. /\ n + 1 \in 1 .. Len(uart) + 1 /\ Len(uart) \in n .. Len(uart)
      BY ONLY <1>1, <1>2, n \in Nat
    <2>2. /\ uart' \in Seq(Lines) /\ Len(uart') = Len(uart) - (n + 1) + 1
          /\ \A i \in 1 .. Len(uart) - (n + 1) + 1 : uart'[i] = uart[(n + 1) + i - 1]
      BY ONLY <1>1, <1>2, <2>1, uart \in Seq(Lines), uart' = SubSeq(uart, n + 1, Len(uart)),
              SubSeqProperties
    <2>3. ASSUME NEW i \in 1..Len(uart')
          PROVE  i + n \in 1..Len(uart) /\ uart'[i] = uart[i + n]
      <3>1. i \in 1 .. Len(uart) - (n + 1) + 1 /\ (n + 1) + i - 1 = i + n /\ i + n \in 1..Len(uart)
        BY ONLY <1>1, <1>2, <2>2, <2>3, n \in Nat
      <3> QED
        BY ONLY <2>2, <3>1
    <2>4. Len(uart') = Len(uart) - n /\ n <= Len(uart)
      BY ONLY <1>1, <1>2, <2>2, n \in Nat
    <2> QED
      BY ONLY <2>2, <2>3, <2>4
  <1>3. CASE ~(n + 1 <= Len(uart))
    <2>1. uart' = <<>>
      <3>1. n + 1 \in Nat /\ Len(uart) \in Nat /\ n + 1 > Len(uart)
        BY ONLY <1>1, <1>3, n \in Nat
      <3> QED
        BY <3>1
    <2>2. Len(uart') = 0 /\ uart' \in Seq(Lines)
      BY ONLY <2>1
    <2>3. Len(uart) - n = 0 \/ ~(n <= Len(uart))
      BY ONLY <1>1, <1>3, n \in Nat
    <2> QED
      BY ONLY <2>2, <2>3
  <1> QED
    BY <1>2, <1>3

(* client_parser takes one line or two, or all. *)
LEMMA Consumes ==
  ASSUME NEW line
  PROVE  Consumed(line) \in {1, 2}
  BY DEF Consumed

LEMMA PushedIsWords ==
  ASSUME NEW line \in Lines, cmd.len \in Nat
  PROVE  Pushed(line) \in Words
  <1> DEFINE n == cmd.len - Len(line.arg)
             pad == [i \in 1..n |-> <<0, 0>>]
  <1>1. line.arg \in Words /\ Len(line.arg) \in Nat
    BY DEF Lines, Words
  <1>2. n \in Int
    BY <1>1
  <1>3. pad \in Words
    <2>1. CASE n \in Nat
      <3>1. pad \in [1..n -> (Nat \X Nat) \cup Nat]
        OBVIOUS
      <3> QED
        BY ONLY <2>1, <3>1, FunctionIsSeq DEF Words
    <2>2. CASE ~(n \in Nat)
      <3>1. 1..n = 1..0
        BY <1>2, <2>2
      <3>2. pad \in [1..0 -> (Nat \X Nat) \cup Nat]
        BY <3>1
      <3> QED
        BY ONLY ZenonT(60), <3>2, FunctionIsSeq, 0 \in Nat DEF Words
    <2> QED
      BY <2>1, <2>2
  <1> HIDE DEF pad, n
  <1>4. line.arg \o pad \in Words
    BY ONLY <1>1, <1>3, ConcatProperties DEF Words
  <1> QED
    BY <1>4 DEF Pushed, pad, n

Base == Types /\ Room

LEMMA PeersBase ==
  ASSUME Base, NEW l \in Link, PeerSends(l) \/ PeerCloses(l)
  PROVE  Base'
  <1>1. modem[l] \in Links_ /\ modem[l].conn \in Nat /\ modem[l].sent \in Nat
        /\ modem[l].kept \in Seq(Nat \X Nat)
    BY DEF Base, Types, Links_
  <1>2. CASE PeerSends(l)
    <2>1. [modem[l] EXCEPT !.sent = @ + 1,
                           !.kept = Append(@, <<modem[l].conn, modem[l].sent + 1>>)] \in Links_
      <3>1. <<modem[l].conn, modem[l].sent + 1>> \in Nat \X Nat /\ modem[l].sent + 1 \in Nat
        BY ONLY <1>1
      <3>2. Append(modem[l].kept, <<modem[l].conn, modem[l].sent + 1>>) \in Seq(Nat \X Nat)
        BY ONLY <1>1, <3>1, AppendProperties
      <3> QED
        BY ONLY <1>1, <3>1, <3>2 DEF Links_
    <2>2. modem' = [modem EXCEPT ![l] = [modem[l] EXCEPT !.sent = @ + 1,
                           !.kept = Append(@, <<modem[l].conn, modem[l].sent + 1>>)]]
      BY <1>2 DEF PeerSends, Base, Types
    <2>3. modem' \in [Link -> Links_]
      BY <2>1, <2>2 DEF Base, Types
    <2>4. UNCHANGED <<cmd, result, net, client, uart, prompted, conns, conn_of, faults>>
      BY <1>2 DEF PeerSends
    <2>5. Types'
      BY <2>3, <2>4 DEF Base, Types
    <2>6. Room'
      BY <2>4 DEF Base, Room, Free
    <2> QED
      BY <2>5, <2>6 DEF Base
  <1>3. CASE PeerCloses(l)
    <2>1. [text |-> "CLOSED", own |-> FALSE, arg |-> <<>>] \in Lines
      BY NoWords DEF Lines, Texts
    <2>2. uart' = Append(uart, [text |-> "CLOSED", own |-> FALSE, arg |-> <<>>])
      BY <1>3 DEF PeerCloses
    <2>3. uart \in Seq(Lines)
      BY DEF Base, Types
    <2>4. uart' \in Seq(Lines)
      BY ONLY <2>1, <2>2, <2>3, AppendProperties
    <2>5. NoConn \in Links_
      BY DEF NoConn, Links_
    <2>6. modem' = [modem EXCEPT ![l] = NoConn]
      BY <1>3 DEF PeerCloses
    <2>7. modem' \in [Link -> Links_]
      BY <2>5, <2>6 DEF Base, Types
    <2>8. /\ UNCHANGED <<cmd, result, net, client, conns, conn_of, late, mixed, crossed>>
          /\ unasked' = TRUE
      BY <1>3 DEF PeerCloses
    <2>9. Types'
      BY <2>4, <2>7, <2>8 DEF Base, Types
    <2>10. Room'
      BY <2>8 DEF Base, Room, Free
    <2> QED
      BY <2>9, <2>10 DEF Base
  <1> QED
    BY <1>2, <1>3

LEMMA ParserBase ==
  ASSUME Base, client_parser_Urc \/ client_parser_Response \/ Timeout
  PROVE  Base'
  <1>1. /\ uart \in Seq(Lines) /\ Len(uart) \in Nat
    BY TypesGive DEF Base
  <1>2. UNCHANGED <<cmd, net, handle, up, esp8266_link, received, modem, conns, conn_of,
                    crossed, unasked>>
    BY DEF client_parser_Urc, client_parser_Response, Timeout
  <1>3. late' \in BOOLEAN /\ mixed' \in BOOLEAN
    <2>1. late \in BOOLEAN /\ mixed \in BOOLEAN
      BY DEF Base, Types
    <2>2. CASE client_parser_Urc
      <3>1. \E line : Ends("SUCCESS", line)
        BY <2>2 DEF client_parser_Urc
      <3> QED
        BY <2>1, <3>1 DEF Ends
    <2>3. CASE client_parser_Response
      <3>1. (\E line, r : Ends(r, line)) \/ UNCHANGED <<mixed, late>>
        BY <2>3 DEF client_parser_Response
      <3> QED
        BY <2>1, <3>1 DEF Ends
    <2>4. CASE Timeout
      BY <2>1, <2>4 DEF Timeout
    <2> QED
      BY <2>2, <2>3, <2>4
  <1>4. uart' \in Seq(Lines) /\ ring_tcp' \in [Link -> Words]
    <2>1. ring_tcp \in [Link -> Words]
      BY DEF Base, Types
    <2>2. CASE client_parser_Urc
      <3> DEFINE line == uart[1]
      <3>1. line \in Lines
        BY <1>1, <2>2 DEF client_parser_Urc
      <3>2. uart' = SubSeq(uart, Consumed(line) + 1, Len(uart))
        BY <2>2 DEF client_parser_Urc
      <3>3. Consumed(line) \in Nat
        BY Consumes
      <3>4. uart' \in Seq(Lines)
        BY ONLY <1>1, <3>2, <3>3, TakenOut
      <3>5. ring_tcp' = IF line.text = "DATA" /\ cmd.link < Buffers
                        THEN [ring_tcp EXCEPT ![cmd.link] = @ \o Pushed(line)]
                        ELSE ring_tcp
        BY <2>2 DEF client_parser_Urc
      <3>6. Pushed(line) \in Words
        BY <3>1, PushedIsWords DEF Base, Types
      <3> HIDE DEF line
      <3>7. ASSUME cmd.link \in Link
            PROVE  ring_tcp[cmd.link] \o Pushed(line) \in Words
        <4>1. ring_tcp[cmd.link] \in Words
          BY <2>1, <3>7
        <4> QED
          BY ONLY <3>6, <4>1, ConcatProperties DEF Words
      <3>8. CASE cmd.link \in Link
        BY <2>1, <3>4, <3>5, <3>7, <3>8
      <3>9. CASE cmd.link \notin Link
        <4>1. [ring_tcp EXCEPT ![cmd.link] = @ \o Pushed(line)] = ring_tcp
          BY <2>1, <3>9
        <4> QED
          BY ONLY <2>1, <3>4, <3>5, <4>1
      <3> QED
        BY <3>4, <3>8, <3>9
    <2>3. CASE client_parser_Response
      <3>1. uart # <<>> /\ uart' = Tail(uart) /\ UNCHANGED ring_tcp
        BY <2>3 DEF client_parser_Response
      <3>2. uart' \in Seq(Lines)
        BY ONLY <1>1, <3>1, HeadTailProperties
      <3> QED
        BY <2>1, <3>1, <3>2
    <2>4. CASE Timeout
      BY <1>1, <2>1, <2>4 DEF Timeout
    <2> QED
      BY <2>2, <2>3, <2>4
  <1>5. Types'
    BY <1>2, <1>3, <1>4 DEF Base, Types
  <1>6. Room'
    BY <1>2 DEF Base, Room, Free
  <1> QED
    BY <1>5, <1>6 DEF Base

LEMMA StartLinkBase ==
  ASSUME Base, Free # {}, StartLink
  PROVE  /\ cmd' = [name |-> "CIPSTART", link |-> FreeLink, len |-> 0] /\ result' = "NONE"
         /\ FreeLink \in Link /\ ~esp8266_link[FreeLink]
         /\ ring_tcp' \in [Link -> Words] /\ ModuleTypes'
         /\ Module_CIPSTART(FreeLink)
         /\ FreeLink < Buffers => ring_tcp'[FreeLink] = <<>>
         /\ \A l \in Link \ {FreeLink} : ring_tcp'[l] = ring_tcp[l]
  <1>1. FreeLink \in Link /\ ~esp8266_link[FreeLink]
    BY FreeLinkIsFree
  <1>2. /\ EmptyBuffer(FreeLink) /\ Exec("CIPSTART", FreeLink, 0) /\ Module_CIPSTART(FreeLink)
    BY DEF StartLink
  <1> HIDE DEF FreeLink
  <1>3. ModuleTypes'
    <2>1. ModuleTypes
      BY TypesGive DEF Base
    <2> QED
      BY <1>1, <1>2, <2>1, StartSends
  <1>4. ring_tcp \in [Link -> Words]
    BY DEF Base, Types
  <1>5. /\ ring_tcp' \in [Link -> Words]
        /\ FreeLink < Buffers => ring_tcp'[FreeLink] = <<>>
        /\ \A l \in Link \ {FreeLink} : ring_tcp'[l] = ring_tcp[l]
    BY <1>1, <1>2, <1>4, NoWords DEF EmptyBuffer
  <1> QED
    BY <1>1, <1>2, <1>3, <1>5 DEF Exec

LEMMA ConnectBase ==
  ASSUME Base, NEW n \in Net, HAL_AT_TCP_Connect(n)
  PROVE  Base'
  <1>1. /\ Free # {} /\ net' = n
        /\ handle' = IF n \in HttpNet THEN [handle EXCEPT ![n] = 0] ELSE handle
        /\ ~up[n]
        /\ UNCHANGED <<up, esp8266_link, esp8266_recv_len, received, conn_of, faults>>
    BY DEF HAL_AT_TCP_Connect
  <1>2. /\ cmd'.link \in -1 .. MAX_LINK - 1 /\ cmd'.len \in Nat
        /\ ring_tcp' \in [Link -> Words] /\ ModuleTypes'
        /\ cmd'.name \notin Transfer \cup {"CIPRECVMODE"}
        /\ cmd'.name = "CIPSTART" => cmd'.link \in Link /\ ~esp8266_link[cmd'.link]
    <2>1. CASE status
      <3>1. StartLink
        BY <2>1 DEF HAL_AT_TCP_Connect
      <3> QED
        BY <1>1, <3>1, StartLinkBase, LinkNumbers DEF Transfer
    <2>2. CASE ~status
      <3>1. cmd' = [name |-> "RST", link |-> 0, len |-> 0] /\ Module_RST /\ ring_tcp' = ring_tcp
        BY <2>2 DEF HAL_AT_TCP_Connect, Exec
      <3>2. ModuleTypes /\ ring_tcp \in [Link -> Words]
        BY TypesGive DEF Base, Types
      <3>3. ModuleTypes'
        BY <3>1, <3>2, ResetSends
      <3> QED
        BY <3>1, <3>2, <3>3, LinkNumbers DEF Transfer
    <2> QED
      BY <2>1, <2>2
  <1>3. handle' \in [Net -> 0..MAX_LINK] /\ \A m \in Net : up[m] => handle'[m] # 0
    BY <1>1, LinkNumbers DEF Base, Types
  <1>4. Types'
    BY <1>1, <1>2, <1>3 DEF Base, Types, ModuleTypes
  <1>5. Room'
    BY <1>1, <1>2 DEF Room, Free
  <1> QED
    BY <1>4, <1>5 DEF Base

(* A command goes out, and the rest of the client stays as it is. *)
LEMMA CommandBase ==
  ASSUME Base, cmd'.link \in -1 .. MAX_LINK - 1, cmd'.len \in Nat, ModuleTypes',
         UNCHANGED <<handle, esp8266_link, conn_of, late, unasked, mixed>>,
         net' \in Net, up' \in [Net -> BOOLEAN], \A n \in Net : up'[n] => up[n],
         ring_tcp' \in [Link -> Words], received' \in [Net -> Words], crossed' \in BOOLEAN,
         cmd'.name \in ToSet(Startup) => Free # {},
         cmd'.name = "CIPSTART" => cmd'.link \in Link /\ ~esp8266_link[cmd'.link],
         cmd'.name \in Connecting => ~up'[net'], cmd'.name # "CIPRECVMODE",
         cmd'.name \in Transfer => up'[net'] /\ handle[net'] = HandleOf(cmd'.link)
  PROVE  Base'
  <1>1. Types'
    BY DEF Base, Types, ModuleTypes
  <1>2. Room'
    BY DEF Room, Free
  <1> QED
    BY <1>1, <1>2 DEF Base

LEMMA InitBase ==
  ASSUME Base, esp8266_init
  PROVE  Base'
  <1>1. UNCHANGED <<net, status, handle, up, esp8266_link, esp8266_recv_len, received,
                    conn_of, faults>>
    BY DEF esp8266_init
  <1>s. cmd.name \in ToSet(Startup)
    <2>1. CASE \E i \in 1 .. Len(Startup) - 1 : After(Startup[i])
      <3>1. PICK i \in 1..5 : cmd.name = Startup[i]
        BY <2>1, StartupNames DEF After
      <3> QED
        BY <3>1, StartupNames
    <2>2. CASE After("CIFSR")
      BY <2>2, StartupNames DEF After
    <2>3. CASE \E i \in 3 .. Len(Startup) : After(Startup[i])
      <3>1. PICK i \in 3..6 : cmd.name = Startup[i]
        BY <2>3, StartupNames DEF After
      <3> QED
        BY <3>1, StartupNames
    <2> QED
      BY <2>1, <2>2, <2>3 DEF esp8266_init
  <1>2. cmd.name \in ToSet(Startup) /\ Free # {} /\ ~up[net]
    BY <1>s DEF Base, Room, Connecting
  <1>3. /\ ModuleTypes /\ ring_tcp \in [Link -> Words] /\ received \in [Net -> Words]
        /\ net \in Net /\ up \in [Net -> BOOLEAN] /\ crossed \in BOOLEAN
    BY TypesGive DEF Base, Types
  <1>4. /\ cmd'.link \in -1 .. MAX_LINK - 1 /\ cmd'.len \in Nat
        /\ ring_tcp' \in [Link -> Words] /\ ModuleTypes'
        /\ cmd'.name \notin Transfer \cup {"CIPRECVMODE"}
        /\ cmd'.name = "CIPSTART" => cmd'.link \in Link /\ ~esp8266_link[cmd'.link]
    <2>1. CASE StartLink
      BY <1>2, <2>1, StartLinkBase, LinkNumbers DEF Transfer
    <2>2. CASE /\ Module_Setting /\ UNCHANGED ring_tcp
               /\ \E i \in 1 .. Len(Startup) - 1 : Exec(Startup[i + 1], 0, 0)
      <3>1. cmd'.link = 0 /\ cmd'.len = 0
        BY <2>2 DEF Exec
      <3>2. PICK i \in 1..5 : cmd'.name = Startup[i + 1]
        BY <2>2, StartupNames DEF Exec
      <3>3. cmd'.name # "CIPSTART" /\ cmd'.name \notin Transfer \cup {"CIPRECVMODE"}
        BY <3>2, StartupNames DEF Transfer
      <3>4. ModuleTypes'
        BY <1>3, <2>2, SettingSends
      <3>5. 0 \in -1 .. MAX_LINK - 1 /\ 0 \in Nat
        BY LinkNumbers
      <3> QED
        BY ONLY <1>3, <2>2, <3>1, <3>3, <3>4, <3>5
    <2>3. CASE Module_RST /\ UNCHANGED ring_tcp /\ Exec("RST again", 0, 0)
      <3>1. cmd'.link = 0 /\ cmd'.len = 0 /\ cmd'.name = "RST again"
        BY <2>3 DEF Exec
      <3>2. ModuleTypes'
        BY <1>3, <2>3, ResetSends
      <3>3. 0 \in -1 .. MAX_LINK - 1 /\ 0 \in Nat
        BY LinkNumbers
      <3> QED
        BY ONLY <1>3, <2>3, <3>1, <3>2, <3>3 DEF Transfer
    <2>4. \/ StartLink
          \/ /\ Module_Setting /\ UNCHANGED ring_tcp
             /\ \E i \in 1 .. Len(Startup) - 1 : Exec(Startup[i + 1], 0, 0)
          \/ Module_RST /\ UNCHANGED ring_tcp /\ Exec("RST again", 0, 0)
      BY Zenon DEF esp8266_init
    <2> QED
      BY ONLY <2>1, <2>2, <2>3, <2>4, Zenon
  <1> QED
    BY <1>1, <1>2, <1>3, <1>4, CommandBase

LEMMA StartedBase ==
  ASSUME Base, HAL_AT_TCP_Connect_Started
  PROVE  Base'
  <1>1. /\ cmd' = [name |-> "CIPRECVMODE", link |-> cmd.link, len |-> 0]
        /\ esp8266_link' = [esp8266_link EXCEPT ![cmd.link] = TRUE]
        /\ handle' = [handle EXCEPT ![net] = cmd.link + 1]
        /\ received' = [received EXCEPT ![net] = <<>>]
        /\ conn_of' = [conn_of EXCEPT ![net] = modem[cmd.link].conn]
        /\ Module_CIPRECVMODE
        /\ UNCHANGED <<net, status, up, esp8266_recv_len, ring_tcp, faults>>
    BY DEF HAL_AT_TCP_Connect_Started, Exec
  <1>2. ModuleTypes'
    BY <1>1, ModeSends, TypesGive DEF Base
  <1>3. cmd.link + 1 \in 0..MAX_LINK /\ cmd.link + 1 # 0 /\ modem[cmd.link].conn \in Nat
    <2>1. cmd.link \in Link /\ modem \in [Link -> Links_]
      BY DEF Base, Types, Room, HAL_AT_TCP_Connect_Started, After
    <2>2. cmd.link + 1 \in 0..MAX_LINK /\ cmd.link + 1 # 0
      BY ONLY <2>1, LinkNumbers
    <2> QED
      BY <2>1, <2>2 DEF Links_
  <1>4. /\ handle' \in [Net -> 0..MAX_LINK] /\ \A n \in Net : up[n] => handle'[n] # 0
        /\ esp8266_link' \in [Link -> BOOLEAN] /\ conn_of' \in [Net -> Nat]
    BY <1>1, <1>3 DEF Base, Types
  <1>5. received' \in [Net -> Words]
    BY <1>1, NoWords DEF Base, Types
  <1>6. Types'
    BY <1>1, <1>2, <1>4, <1>5 DEF Base, Types, ModuleTypes
  <1>7. Room'
    <2>1. cmd.link \in Link /\ net \in Net /\ ~up[net]
      BY DEF Base, Types, Room, Connecting, HAL_AT_TCP_Connect_Started, After
    <2>2. /\ cmd'.name = "CIPRECVMODE" /\ cmd'.link = cmd.link /\ esp8266_link'[cmd.link]
          /\ handle'[net] = cmd.link + 1 /\ net' = net /\ up' = up
      BY <1>1, <2>1 DEF Base, Types
    <2> QED
      BY <2>1, <2>2, StartupNames DEF Room, Transfer
  <1> QED
    BY <1>6, <1>7 DEF Base

LEMMA ReturnsBase ==
  ASSUME Base,
         HAL_AT_TCP_Connect_Returns \/ HAL_AT_TCP_Disconnect_Returns
           \/ HAL_AT_Read_Tcp_Returns \/ HAL_AT_Write_Tcp_Returns
  PROVE  Base'
  <1>1. /\ cmd' = NoCmd /\ UNCHANGED <<net, handle, conn_of, faults, uart, modem, conns>>
    BY DEF HAL_AT_TCP_Connect_Returns, HAL_AT_TCP_Disconnect_Returns,
           HAL_AT_Read_Tcp_Returns, HAL_AT_Write_Tcp_Returns, Done
  <1>2. cmd'.name = "none" /\ cmd'.link \in -1 .. MAX_LINK - 1 /\ cmd'.len \in Nat
    BY <1>1, LinkNumbers DEF NoCmd
  <1>3. /\ up \in [Net -> BOOLEAN] /\ esp8266_link \in [Link -> BOOLEAN] /\ net \in Net
        /\ ring_tcp \in [Link -> Words] /\ received \in [Net -> Words]
        /\ \A n \in Net : up[n] => handle[n] # 0
    BY DEF Base, Types
  <1>4. /\ up' \in [Net -> BOOLEAN] /\ esp8266_link' \in [Link -> BOOLEAN]
        /\ ring_tcp' \in [Link -> Words] /\ received' \in [Net -> Words]
        /\ \A n \in Net : up'[n] => handle[n] # 0
    <2>1. CASE HAL_AT_TCP_Connect_Returns
      <3>1. up' = [up EXCEPT ![net] = TRUE] /\ UNCHANGED <<esp8266_link, ring_tcp, received>>
        BY <2>1 DEF HAL_AT_TCP_Connect_Returns
      <3>2. handle[net] # 0
        <4>1. cmd.link \in Link /\ handle[net] = cmd.link + 1
          BY <2>1 DEF HAL_AT_TCP_Connect_Returns, After, Base, Room
        <4> QED
          BY <4>1, LinkNumbers
      <3> QED
        BY ONLY <1>3, <3>1, <3>2
    <2>2. CASE HAL_AT_TCP_Disconnect_Returns
      <3>1. /\ UNCHANGED <<up, ring_tcp, received>>
            /\ \/ esp8266_link' = esp8266_link
               \/ esp8266_link' = [esp8266_link EXCEPT ![cmd.link] = FALSE]
        BY <2>2 DEF HAL_AT_TCP_Disconnect_Returns
      <3>2. esp8266_link' \in [Link -> BOOLEAN]
        BY ONLY <1>3, <3>1
      <3> QED
        BY ONLY <1>3, <3>1, <3>2
    <2>3. CASE HAL_AT_Read_Tcp_Returns
      <3> DEFINE l == handle[net] - 1
                 k == Min({cmd.len, Len(ring_tcp[l])})
      <3>1. /\ received' = [received EXCEPT ![net] = @ \o SubSeq(ring_tcp[l], 1, k)]
            /\ ring_tcp' = [ring_tcp EXCEPT ![l] = SubSeq(@, k + 1, Len(@))]
            /\ UNCHANGED <<up, esp8266_link>>
        BY <2>3 DEF HAL_AT_Read_Tcp_Returns
      <3>2. l \in Link
        <4>1. cmd.name = "CIPRECVDATA"
          BY <2>3 DEF HAL_AT_Read_Tcp_Returns, After
        <4>2. handle[net] # 0 /\ handle[net] \in 0..MAX_LINK
          BY <4>1 DEF Base, Types, Room, Transfer
        <4> QED
          BY <4>2, LinkNumbers
      <3>3. /\ SubSeq(ring_tcp[l], 1, k) \in Words
            /\ SubSeq(ring_tcp[l], k + 1, Len(ring_tcp[l])) \in Words
        <4>1. ring_tcp[l] \in Words /\ Len(ring_tcp[l]) \in Nat /\ cmd.len \in Nat
          BY <1>3, <3>2 DEF Words, Base, Types
        <4>2. k \in Nat /\ k <= Len(ring_tcp[l])
          <5>1. \E x \in {cmd.len, Len(ring_tcp[l])} :
                  \A y \in {cmd.len, Len(ring_tcp[l])} : x <= y
            BY <4>1
          <5> HIDE DEF l
          <5> QED
            BY <4>1, <5>1 DEF Min
        <4> HIDE DEF l, k
        <4> QED
          BY ONLY <4>1, <4>2, SubSeqProperties DEF Words
      <3> HIDE DEF l, k
      <3>4. received[net] \o SubSeq(ring_tcp[l], 1, k) \in Words
        <4>1. received[net] \in Words
          BY ONLY <1>3
        <4> QED
          BY ONLY <3>3, <4>1, ConcatProperties DEF Words
      <3> QED
        BY ONLY <1>3, <3>1, <3>2, <3>3, <3>4
    <2>4. CASE HAL_AT_Write_Tcp_Returns
      BY <1>3, <2>4 DEF HAL_AT_Write_Tcp_Returns
    <2> QED
      BY <2>1, <2>2, <2>3, <2>4
  <1>5. Types'
    BY <1>1, <1>2, <1>4 DEF Base, Types
  <1>6. Room'
    BY <1>2, StartupNames DEF Room, Transfer, Connecting
  <1> QED
    BY <1>5, <1>6 DEF Base

LEMMA DisconnectBase ==
  ASSUME Base, NEW n \in Net, HAL_AT_TCP_Disconnect(n)
  PROVE  Base'
  <1>1. /\ net' = n /\ up' = [up EXCEPT ![n] = FALSE]
        /\ UNCHANGED <<status, handle, esp8266_link, esp8266_recv_len, ring_tcp, received,
                       conn_of, late, unasked, mixed>>
    BY DEF HAL_AT_TCP_Disconnect
  <1>2. /\ up \in [Net -> BOOLEAN] /\ handle[n] \in 0..MAX_LINK /\ crossed \in BOOLEAN
        /\ ring_tcp \in [Link -> Words] /\ received \in [Net -> Words] /\ ModuleTypes
    BY TypesGive DEF Base, Types
  <1>3. /\ cmd'.link \in -1 .. MAX_LINK - 1 /\ cmd'.len \in Nat
        /\ cmd'.name \in {"CIPCLOSE", "none"} /\ ModuleTypes' /\ crossed' \in BOOLEAN
    <2>1. CASE /\ Exec("CIPCLOSE", handle[n] - 1, 0) /\ Module_CIPCLOSE(handle[n] - 1)
               /\ crossed' = (crossed \/ \E m \in Net \ {n} : up[m] /\ handle[m] = handle[n])
      <3>1. cmd'.name = "CIPCLOSE" /\ cmd'.link = handle[n] - 1 /\ cmd'.len = 0
        BY <2>1 DEF Exec
      <3>2. ModuleTypes'
        BY <1>2, <2>1, CloseSends
      <3>3. crossed' \in BOOLEAN
        BY <1>2, <2>1
      <3> QED
        BY <1>2, <3>1, <3>2, <3>3, LinkNumbers
    <2>2. CASE Done /\ UNCHANGED <<uart, module, crossed>>
      BY <1>2, <2>2, LinkNumbers DEF Done, NoCmd, ModuleTypes
    <2> QED
      BY <2>1, <2>2 DEF HAL_AT_TCP_Disconnect
  <1>4. /\ up' \in [Net -> BOOLEAN] /\ \A m \in Net : up'[m] => up[m]
    BY <1>1, <1>2
  <1> QED
    BY <1>1, <1>2, <1>3, <1>4, StartupNames, CommandBase DEF Transfer, Connecting

LEMMA TransferBase ==
  ASSUME Base,
         \/ \E n \in Net : HAL_AT_Write_Tcp(n) \/ \E len \in 1..2 : HAL_AT_Read_Tcp(n, len)
         \/ HAL_AT_Read_Tcp_Asked \/ HAL_AT_Write_Tcp_Data
  PROVE  Base'
  <1>1. /\ ModuleTypes /\ ring_tcp \in [Link -> Words] /\ received \in [Net -> Words]
        /\ handle \in [Net -> 0..MAX_LINK] /\ net \in Net /\ up \in [Net -> BOOLEAN]
        /\ cmd.link \in -1 .. MAX_LINK - 1 /\ cmd.len \in Nat /\ crossed \in BOOLEAN
        /\ cmd.name \in Transfer => up[net] /\ handle[net] = cmd.link + 1
    BY TypesGive DEF Base, Types, Room
  <1>2. UNCHANGED <<client, conn_of, faults>> /\ net' \in Net
    BY <1>1 DEF HAL_AT_Write_Tcp, HAL_AT_Read_Tcp, HAL_AT_Read_Tcp_Asked, HAL_AT_Write_Tcp_Data
  <1>3. /\ cmd'.link \in -1 .. MAX_LINK - 1 /\ cmd'.len \in Nat /\ ModuleTypes'
        /\ cmd'.name \in {"CIPSEND", "CIPRECVLEN", "CIPRECVDATA", "none", "data"}
        /\ cmd'.name # "none" => up[net'] /\ handle[net'] = cmd'.link + 1
    <2>1. ASSUME NEW n \in Net, HAL_AT_Write_Tcp(n)
          PROVE  /\ cmd'.link = handle[n] - 1 /\ cmd'.len = 0 /\ cmd'.name = "CIPSEND"
                 /\ ModuleTypes' /\ net' = n /\ up[n]
      BY <1>1, <2>1, PromptSends DEF HAL_AT_Write_Tcp, Exec
    <2>2. ASSUME NEW n \in Net, NEW len \in 1..2, HAL_AT_Read_Tcp(n, len)
          PROVE  /\ cmd'.link = handle[n] - 1 /\ cmd'.len = len /\ cmd'.name = "CIPRECVLEN"
                 /\ ModuleTypes' /\ net' = n /\ up[n]
      BY <1>1, <2>2, LengthSends DEF HAL_AT_Read_Tcp, Exec
    <2>3. CASE HAL_AT_Read_Tcp_Asked
      <3>0. net' = net /\ up[net] /\ handle[net] = cmd.link + 1
        BY <1>1, <2>3 DEF HAL_AT_Read_Tcp_Asked, After, Transfer
      <3>1. CASE Enough
        <4>1. /\ cmd'.name = "CIPRECVDATA" /\ cmd'.link = cmd.link /\ cmd'.len = cmd.len
              /\ Module_CIPRECVDATA(cmd.link, cmd.len)
          BY <2>3, <3>1 DEF HAL_AT_Read_Tcp_Asked, Exec
        <4>2. ModuleTypes'
          BY <1>1, <4>1, BytesSent
        <4> QED
          BY <1>1, <3>0, <4>1, <4>2
      <3>2. CASE ~Enough
        <4>1. cmd' = NoCmd /\ UNCHANGED <<uart, module>>
          BY <2>3, <3>2 DEF HAL_AT_Read_Tcp_Asked, Done
        <4> QED
          BY <1>1, <4>1, LinkNumbers DEF ModuleTypes, NoCmd
      <3> QED
        BY <3>1, <3>2
    <2>4. CASE HAL_AT_Write_Tcp_Data
      <3>0. net' = net /\ up[net] /\ handle[net] = cmd.link + 1
        BY <1>1, <2>4 DEF HAL_AT_Write_Tcp_Data, After, Transfer
      <3>1. /\ cmd'.name = "data" /\ cmd'.link = cmd.link /\ cmd'.len = 0 /\ Module_Data
        BY <2>4 DEF HAL_AT_Write_Tcp_Data, Exec
      <3> QED
        <4>1. ModuleTypes'
          BY ONLY <1>1, <3>1, DataSends
        <4> QED
          BY ONLY <1>1, <3>0, <3>1, <4>1
    <2>5. \A n \in Net : /\ handle[n] - 1 \in -1 .. MAX_LINK - 1
                         /\ handle[n] = (handle[n] - 1) + 1
      BY <1>1, LinkNumbers
    <2>6. CASE \E n \in Net : HAL_AT_Write_Tcp(n)
      <3>1. PICK n \in Net : HAL_AT_Write_Tcp(n)
        BY <2>6
      <3>2. /\ cmd'.link = handle[n] - 1 /\ cmd'.len = 0 /\ cmd'.name = "CIPSEND"
            /\ ModuleTypes' /\ net' = n /\ up[n]
        BY <2>1, <3>1
      <3> QED
        BY ONLY <2>5, <3>2
    <2>7. CASE \E n \in Net : \E len \in 1..2 : HAL_AT_Read_Tcp(n, len)
      <3>1. PICK n \in Net, len \in 1..2 : HAL_AT_Read_Tcp(n, len)
        BY <2>7
      <3>2. /\ cmd'.link = handle[n] - 1 /\ cmd'.len = len /\ cmd'.name = "CIPRECVLEN"
            /\ ModuleTypes' /\ net' = n /\ up[n]
        BY <2>2, <3>1
      <3> QED
        BY ONLY <2>5, <3>2, len \in 1..2
    <2> QED
      BY <2>3, <2>4, <2>6, <2>7
  <1> QED
    BY <1>1, <1>2, <1>3, StartupNames, CommandBase DEF Transfer, Connecting

LEMMA NextBase ==
  ASSUME Base, [Next]_vars
  PROVE  Base'
  <1>1. CASE UNCHANGED vars
    BY <1>1 DEF vars, Base, Types, Room, Free
  <1>2. CASE \E l \in Link : PeerSends(l) \/ PeerCloses(l)
    BY <1>2, PeersBase
  <1>3. CASE client_parser_Urc \/ client_parser_Response \/ Timeout
    BY <1>3, ParserBase
  <1>4. CASE \E n \in Net : HAL_AT_TCP_Connect(n)
    BY <1>4, ConnectBase
  <1>5. CASE \E n \in Net : Disconnect(n)
    BY <1>5, DisconnectBase DEF Disconnect
  <1>6. CASE \/ \E n \in Net : HAL_AT_Write_Tcp(n) \/ \E len \in 1..2 : HAL_AT_Read_Tcp(n, len)
             \/ HAL_AT_Read_Tcp_Asked \/ HAL_AT_Write_Tcp_Data
    BY <1>6, TransferBase
  <1>7. CASE esp8266_init
    BY <1>7, InitBase
  <1>8. CASE HAL_AT_TCP_Connect_Started
    BY <1>8, StartedBase
  <1>9. CASE \/ HAL_AT_TCP_Connect_Returns \/ HAL_AT_TCP_Disconnect_Returns
             \/ HAL_AT_Read_Tcp_Returns \/ HAL_AT_Write_Tcp_Returns
    BY <1>9, ReturnsBase
  <1> QED
    BY <1>1, <1>2, <1>3, <1>4, <1>5, <1>6, <1>7, <1>8, <1>9 DEF Next

----------------------------------------------------------------------------
(* In time, a command is ended by its own answer.                          *)

StepNext == Queue' /\ Agree'

(* What holds before a command can go out. *)
LEMMA Quiet ==
  ASSUME StepInv, InTime, ~Waiting
  PROVE  /\ uart \in Seq(Lines) /\ Len(uart) \in Nat /\ OnlyOK /\ ~mixed
         /\ cmd.name \notin {"none", "CIPCLOSE", "CIPRECVLEN", "CIPRECVDATA"} => Len(uart) = 0
         /\ \A l \in Link : \/ esp8266_link[l] <=> Open(l)
                            \/ cmd.name \in {"CIPSTART", "CIPCLOSE"} /\ l = cmd.link
  <1>1. uart \in Seq(Lines) /\ Len(uart) \in Nat
    BY TypesGive DEF StepInv
  <1>2. Rest /\ ~mixed
    BY DEF StepInv, Queue
  <1>3. OnlyOK /\ (cmd.name \notin {"none", "CIPCLOSE", "CIPRECVLEN", "CIPRECVDATA"} => uart = <<>>)
    BY <1>2 DEF Rest, OnlyOK
  <1>4. uart = <<>> => Len(uart) = 0
    OBVIOUS
  <1>5. \A l \in Link : \/ esp8266_link[l] <=> Open(l)
                        \/ cmd.name \in {"CIPSTART", "CIPCLOSE"} /\ l = cmd.link
    BY DEF StepInv, Agree
  <1> QED
    BY ONLY <1>1, <1>2, <1>3, <1>4, <1>5

(* A command went out, and its answer has its end. *)
LEMMA NewCommand ==
  ASSUME ~mixed, result' = "NONE", cmd'.name # "none", mixed' = mixed,
         \E e \in 1..Len(uart') : EndsAt(e)'
  PROVE  Queue'
  <1>1. Waiting'
    BY DEF Waiting
  <1> QED
    BY <1>1 DEF Queue

(* An operation has returned, and left nothing but OK. *)
LEMMA NoCommand ==
  ASSUME ~mixed, OnlyOK, cmd'.name = "none", mixed' = mixed, uart' = uart
  PROVE  Queue'
  <1>1. ~Waiting'
    BY DEF Waiting
  <1>2. Rest'
    BY DEF Rest, OnlyOK
  <1> QED
    BY <1>1, <1>2 DEF Queue

LEMMA PeersStep ==
  ASSUME StepInv, NEW l \in Link, PeerSends(l) \/ PeerCloses(l)
  PROVE  StepNext
  <1>1. CASE PeerSends(l)
    <2>1. /\ UNCHANGED <<cmd, result, uart, esp8266_link, late, unasked, mixed>>
          /\ modem' = [modem EXCEPT ![l].sent = @ + 1,
                            ![l].kept = Append(@, <<modem[l].conn, modem[l].sent + 1>>)]
      BY <1>1 DEF PeerSends
    <2>2. modem \in [Link -> Links_]
      BY DEF StepInv, Types
    <2>3. \A k \in Link : modem'[k].conn = modem[k].conn
      BY ONLY <2>1, <2>2 DEF Links_
    <2>4. \A k : Open(k)' <=> Open(k)
      BY <2>3 DEF Open
    <2>5. \A e : EndsAt(e)' <=> EndsAt(e)
      BY ZenonT(60), <2>1, <2>4 DEF EndsAt, Last_, custom_flag
    <2>6. Queue'
      BY <2>1, <2>5 DEF StepInv, Queue, InTime, Waiting, Rest
    <2>7. Agree'
      BY <2>1, <2>4 DEF StepInv, Agree, InTime
    <2> QED
      BY <2>6, <2>7 DEF StepNext
  <1>2. CASE PeerCloses(l)
    <2>1. unasked' = TRUE
      BY <1>2 DEF PeerCloses
    <2> QED
      BY <2>1 DEF StepNext, Queue, Agree, InTime
  <1> QED
    BY <1>1, <1>2

LEMMA TimeoutStep ==
  ASSUME Timeout
  PROVE  StepNext
  <1>1. late' = TRUE
    BY DEF Timeout
  <1> QED
    BY <1>1 DEF StepNext, Queue, Agree, InTime

(* The end of the command is the next line, or it is an OK of before. *)
LEMMA UrcAtTheEnd ==
  ASSUME uart \in Seq(Lines), NEW e \in 1..Len(uart), EndsAt(e), Urc(uart[1].text, Next_Text)
  PROVE  e = 1
  <1> SUFFICES ASSUME e > 1 PROVE FALSE
    BY Len(uart) \in Nat
  <1>1. Len(uart) \in Nat /\ e \in Nat /\ 1 \in 1 .. e - 1 /\ Len(uart) > 1
    <2>1. Len(uart) \in Nat
      BY ONLY uart \in Seq(Lines)
    <2> QED
      BY ONLY <2>1, e \in 1..Len(uart), e > 1
  <1>2. uart[1].text = "OK"
    BY <1>1 DEF EndsAt
  <1>3. cmd.name = "CIPSEND" /\ Next_Text = ">"
    BY <1>2 DEF Urc
  <1>4. uart[2].text = ">"
    BY <1>1, <1>3 DEF Next_Text
  <1>5. CASE e = 2
    BY <1>3, <1>4, <1>5 DEF EndsAt, Last_
  <1>6. CASE e # 2
    <2>1. 2 \in 1 .. e - 1
      BY ONLY <1>1, <1>6, e > 1
    <2> QED
      BY <1>4, <2>1 DEF EndsAt
  <1> QED
    BY <1>5, <1>6

LEMMA UrcStep ==
  ASSUME StepInv, client_parser_Urc
  PROVE  StepNext
  <1> SUFFICES ASSUME InTime' PROVE StepNext
    BY DEF StepNext, Queue, Agree
  <1> DEFINE line == uart[1]
  <1>1. /\ Waiting /\ uart # <<>> /\ Urc(uart[1].text, Next_Text)
        /\ uart' = SubSeq(uart, Consumed(line) + 1, Len(uart))
        /\ Ends("SUCCESS", line)
        /\ UNCHANGED <<cmd, esp8266_link, modem, unasked>>
    BY DEF client_parser_Urc
  <1>2. InTime /\ ~late'
    <2>1. late => late'
      BY <1>1 DEF Ends
    <2> QED
      BY <1>1, <2>1 DEF InTime
  <1>3. uart \in Seq(Lines) /\ Len(uart) \in Nat
    BY TypesGive DEF StepInv
  <1>4. PICK e \in 1..Len(uart) : EndsAt(e)
    BY <1>1, <1>2 DEF StepInv, Queue
  <1>5. e = 1
    BY <1>1, <1>3, <1>4, UrcAtTheEnd
  <1>6. uart[1].own /\ Last_(1) /\ 1 <= Len(uart)
    BY <1>4, <1>5 DEF EndsAt
  <1>7. ~mixed' /\ result' = "SUCCESS"
    <2>1. ~mixed /\ mixed \in BOOLEAN
      BY <1>2 DEF StepInv, Queue, Types
    <2> QED
      BY <1>1, <1>2, <1>6, <2>1 DEF Ends
  <1>8. Consumed(line) \in {1, 2}
    BY Consumes
  <1>9. \/ cmd.name \in {"RST", "RST again"} /\ Len(uart) = 1
        \/ cmd.name \in {"CIPSTART", "CIPSEND"} /\ Len(uart) = 2 /\ Consumed(line) = 2
        \/ /\ cmd.name \in {"CIPCLOSE", "CIPRECVLEN", "CIPRECVDATA"}
           /\ Len(uart) = 2 /\ uart[2].text = "OK"
    <2>1. Urc(uart[1].text, Next_Text) /\ Last_(1)
      BY <1>1, <1>6
    <2>2. CASE uart[1].text = "ERROR"
      BY ONLY <2>1, <2>2 DEF Urc
    <2>3. CASE uart[1].text = "ready" /\ cmd.name \in {"RST", "RST again"} /\ Len(uart) = 1
      BY <2>3
    <2>4. CASE uart[1].text = "CONNECT" /\ cmd.name = "CIPSTART" /\ Len(uart) = 1 + 1
      BY <2>4 DEF Consumed
    <2>5. CASE /\ Len(uart) = 1 + 1 /\ uart[1 + 1].text = "OK"
               /\ cmd.name \in {"CIPCLOSE", "CIPRECVLEN", "CIPRECVDATA"}
      BY <2>5
    <2>6. CASE cmd.name = "CIPSEND" /\ Len(uart) = 1 + 1
      BY <2>6 DEF Consumed
    <2>7. CASE uart[1].text = "OK" /\ ~custom_flag
      BY ONLY <2>1, <2>7 DEF Urc, custom_flag
    <2>8. CASE uart[1].text = "SEND OK"
      BY ONLY <2>1, <2>8 DEF Urc
    <2> QED
      BY ONLY <2>1, <2>2, <2>3, <2>4, <2>5, <2>6, <2>7, <2>8 DEF Last_
  <1>10. cmd.name = "CIPSTART" => Open(cmd.link)
    BY <1>1, <1>6 DEF Last_, Urc
  <1> HIDE DEF line
  <1>11. /\ Len(uart') = IF Consumed(line) <= Len(uart) THEN Len(uart) - Consumed(line) ELSE 0
         /\ \A i \in 1..Len(uart') : uart'[i] = uart[i + Consumed(line)]
         /\ uart' \in Seq(Lines)
    <2>1. Consumed(line) \in Nat
      BY ONLY <1>8
    <2> QED
      BY ONLY <1>1, <1>3, <2>1, TakenOut
  <1>12. /\ cmd.name \notin {"none", "CIPCLOSE", "CIPRECVLEN", "CIPRECVDATA"} => Len(uart') = 0
         /\ \A i \in 1..Len(uart') : uart'[i].text = "OK"
    <2>1. PICK c \in {1, 2} : c = Consumed(line)
      BY <1>8
    <2>2. \A i \in 1..Len(uart') : uart'[i] = uart[i + c]
      BY ONLY <1>11, <2>1
    <2>6. Len(uart') = IF c <= Len(uart) THEN Len(uart) - c ELSE 0
      BY ONLY <1>11, <2>1
    <2>3. CASE cmd.name \in {"RST", "RST again"} /\ Len(uart) = 1
      <3>1. Len(uart') = 0
        <4>1. Len(uart') = IF c <= 1 THEN 1 - c ELSE 0
          BY ONLY <2>6, <2>3, Zenon
        <4>2. c \in {1, 2}
          OBVIOUS
        <4> HIDE <2>3
        <4> QED
          BY ONLY <4>1, <4>2
      <3> QED
        BY ONLY <3>1
    <2>4. CASE cmd.name \in {"CIPSTART", "CIPSEND"} /\ Len(uart) = 2 /\ Consumed(line) = 2
      <3>1. c = 2
        BY ONLY <2>1, <2>4
      <3>2. Len(uart') = 0
        BY ONLY <2>6, <2>4, <3>1
      <3> QED
        BY ONLY <3>2
    <2>5. CASE /\ cmd.name \in {"CIPCLOSE", "CIPRECVLEN", "CIPRECVDATA"}
               /\ Len(uart) = 2 /\ uart[2].text = "OK"
      <3>1. \A i \in 1..Len(uart') : uart'[i].text = "OK"
        <4>1. CASE c = 2
          <5>1. Len(uart') = 0
            BY ONLY <2>6, <2>5, <4>1
          <5> QED
            BY ONLY <5>1
        <4>2. CASE c = 1
          <5>1. Len(uart') = 1
            BY ONLY <2>6, <2>5, <4>2
          <5>2. uart'[1] = uart[1 + 1]
            BY ONLY <2>2, <4>2, <5>1
          <5>3. uart'[1] = uart[2]
            BY ONLY <5>2
          <5>4. \A i \in 1..1 : i = 1
            OBVIOUS
          <5> QED
            BY ONLY <2>5, <5>1, <5>3, <5>4
        <4> QED
          BY ONLY <2>1, <4>1, <4>2
      <3> QED
        BY ONLY <2>5, <3>1
    <2> QED
      BY ONLY <1>9, <2>3, <2>4, <2>5
  <1>13. Len(uart') = 0 => uart' = <<>>
    BY ONLY <1>11
  <1>14. Rest'
    BY ONLY <1>1, <1>12, <1>13 DEF Rest
  <1>15. Queue'
    BY <1>7, <1>14 DEF Queue, Waiting
  <1>16. Agree'
    <2>1. \A k : Open(k)' <=> Open(k)
      BY <1>1 DEF Open
    <2> QED
      BY <1>1, <1>2, <1>7, <1>10, <2>1 DEF StepInv, Agree
  <1> QED
    BY <1>15, <1>16 DEF StepNext

(* What is left when the first line has been taken for a response. *)
LEMMA TailTaken ==
  ASSUME uart \in Seq(Lines), uart # <<>>, uart' = Tail(uart)
  PROVE  /\ Len(uart') \in Nat /\ Len(uart) = Len(uart') + 1
         /\ \A i \in 1..Len(uart') : uart'[i] = uart[i + 1]
  BY HeadTailProperties

(* Before the line that ends the command: a line OK, skipped. *)
LEMMA SkippedStep ==
  ASSUME StepInv, client_parser_Response, InTime',
         NEW e \in 1..Len(uart), EndsAt(e), e > 1
  PROVE  StepNext
  <1>1. /\ Waiting /\ uart # <<>> /\ uart' = Tail(uart)
        /\ UNCHANGED <<cmd, esp8266_link, modem, unasked>>
    BY DEF client_parser_Response
  <1>2. uart \in Seq(Lines) /\ Len(uart) \in Nat
    BY TypesGive DEF StepInv
  <1>3. PICK d \in Nat : e = d + 1 /\ d >= 1
    BY ONLY <1>2, e \in 1..Len(uart), e > 1
  <1>4. /\ Len(uart') \in Nat /\ Len(uart) = Len(uart') + 1
        /\ \A i \in 1..Len(uart') : uart'[i] = uart[i + 1]
    BY ONLY <1>1, <1>2, TailTaken
  <1>5. custom_flag /\ uart[1].text = "OK"
    <2>1. 1 \in 1 .. e - 1
      BY ONLY <1>3
    <2> QED
      BY <2>1 DEF EndsAt
  <1>6. UNCHANGED <<result, mixed, late>>
    BY <1>5 DEF client_parser_Response, Success
  <1>7. d \in 1..Len(uart') /\ uart'[d] = uart[e]
    BY ONLY <1>2, <1>3, <1>4, e \in 1..Len(uart)
  <1>8. \A k : Open(k)' <=> Open(k)
    BY <1>1 DEF Open
  <1>9. Last_(d)'
    <2>1. \A n \in Nat : Len(uart) = e + n => Len(uart') = d + n
      BY ONLY <1>3, <1>4
    <2>2. Len(uart) = e => Len(uart') = d
      BY ONLY <1>3, <1>4
    <2>3. Len(uart) = e + 1 => Len(uart') = d + 1 /\ uart'[d + 1] = uart[e + 1]
      BY ONLY <1>3, <1>4
    <2>4. custom_flag' <=> custom_flag
      BY <1>1 DEF custom_flag
    <2> QED
      BY ONLY <1>1, <1>7, <1>8, <2>2, <2>3, <2>4, EndsAt(e) DEF EndsAt, Last_
  <1>10. \A i \in 1 .. d - 1 : uart'[i].text = "OK"
    <2> TAKE i \in 1 .. d - 1
    <2>1. i + 1 \in 1 .. e - 1 /\ i \in 1..Len(uart')
      BY ONLY <1>3, <1>7, <1>4
    <2>2. uart'[i] = uart[i + 1]
      BY ONLY <1>4, <2>1
    <2> QED
      BY <2>1, <2>2 DEF EndsAt
  <1>11. EndsAt(d)'
    <2>1. custom_flag'
      BY <1>1, <1>5 DEF custom_flag
    <2> QED
      BY <1>7, <1>9, <1>10, <2>1 DEF EndsAt
  <1>12. InTime
    BY <1>1, <1>6 DEF InTime
  <1>13. Queue'
    <2>1. Waiting'
      BY <1>1, <1>6 DEF Waiting
    <2>2. ~mixed'
      BY <1>6, <1>12 DEF StepInv, Queue
    <2> QED
      BY <1>7, <1>11, <2>1, <2>2 DEF Queue
  <1>14. Agree'
    BY <1>1, <1>6, <1>8, <1>12 DEF StepInv, Agree
  <1> QED
    BY <1>13, <1>14 DEF StepNext

LEMMA ResponseStep ==
  ASSUME StepInv, client_parser_Response
  PROVE  StepNext
  <1> SUFFICES ASSUME InTime' PROVE StepNext
    BY DEF StepNext, Queue, Agree
  <1>1. /\ Waiting /\ uart # <<>> /\ ~Urc(uart[1].text, Next_Text) /\ uart' = Tail(uart)
        /\ UNCHANGED <<cmd, esp8266_link, modem, unasked>>
    BY DEF client_parser_Response
  <1>2. /\ ~late' /\ ~unasked'
    BY DEF InTime
  <1>3. uart \in Seq(Lines) /\ Len(uart) \in Nat /\ late \in BOOLEAN /\ mixed \in BOOLEAN
    <2>1. late \in BOOLEAN /\ mixed \in BOOLEAN
      BY DEF StepInv, Types
    <2> QED
      BY <2>1, TypesGive DEF StepInv
  <1>4. InTime
    <2>1. ~late
      BY <1>2, <1>3 DEF client_parser_Response, Ends
    <2> QED
      BY <1>1, <1>2, <2>1 DEF InTime
  <1>5. PICK e \in 1..Len(uart) : EndsAt(e)
    BY <1>1, <1>4 DEF StepInv, Queue
  <1>6. CASE e > 1
    BY <1>5, <1>6, SkippedStep
  <1>7. CASE e = 1
    <2>1. uart[1].own /\ Last_(1)
      BY <1>5, <1>7 DEF EndsAt
    <2>2. /\ Len(uart) = 1
          /\ \/ /\ uart[1].text = "ERROR"
                /\ cmd.name = "CIPSTART" => ~Open(cmd.link)
                /\ cmd.name = "CIPCLOSE" => cmd.link \notin Link
             \/ Success(uart[1].text) /\ cmd.name \notin {"CIPSTART", "CIPCLOSE"}
      <3>1. Next_Text = IF Len(uart) > 1 THEN uart[2].text ELSE "none"
        BY DEF Next_Text
      <3>2. CASE uart[1].text = "CONNECT" /\ cmd.name = "CIPSTART"
        BY ONLY <1>1, <3>2 DEF Urc
      <3>3. CASE /\ Len(uart) = 1 + 1 /\ uart[1 + 1].text = "OK"
                 /\ \/ uart[1].text = "CLOSED" /\ cmd.name = "CIPCLOSE"
                    \/ uart[1].text = "LEN" /\ cmd.name = "CIPRECVLEN"
                    \/ uart[1].text = "DATA" /\ cmd.name = "CIPRECVDATA"
        BY ONLY <1>1, <3>3 DEF Urc
      <3>4. CASE /\ uart[1].text = "OK" /\ cmd.name = "CIPSEND"
                 /\ Len(uart) = 1 + 1 /\ uart[1 + 1].text = ">"
        <4>1. Next_Text = ">"
          BY ONLY <1>3, <3>1, <3>4
        <4> QED
          BY ONLY <1>1, <3>4, <4>1 DEF Urc
      <3>5. CASE uart[1].text = "ready" /\ cmd.name \in {"RST", "RST again"}
        BY ONLY <1>1, <3>5 DEF Urc
      <3>6. CASE /\ uart[1].text = "ERROR" /\ Len(uart) = 1
                 /\ cmd.name = "CIPSTART" => ~Open(cmd.link)
                 /\ cmd.name = "CIPCLOSE" => cmd.link \notin Link
        BY <3>6
      <3>7. CASE uart[1].text = "OK" /\ ~custom_flag /\ Len(uart) = 1
        BY <3>7 DEF Success, custom_flag
      <3>8. CASE uart[1].text = "SEND OK" /\ cmd.name = "data" /\ Len(uart) = 1
        BY <3>8 DEF Success
      <3> QED
        BY ONLY <2>1, <3>2, <3>3, <3>4, <3>5, <3>6, <3>7, <3>8 DEF Last_
    <2>3. /\ ~mixed'
          /\ \/ result' = "FAILURE" /\ (cmd.name = "CIPSTART" => ~Open(cmd.link))
                /\ (cmd.name = "CIPCLOSE" => cmd.link \notin Link)
             \/ result' = "SUCCESS" /\ cmd.name \notin {"CIPSTART", "CIPCLOSE"}
      <3>1. ~mixed
        BY <1>4 DEF StepInv, Queue
      <3>2. CASE Success(uart[1].text)
        <4>1. Ends("SUCCESS", uart[1])
          BY <3>2 DEF client_parser_Response
        <4>2. uart[1].text # "ERROR"
          BY <3>2 DEF Success
        <4> QED
          BY <1>2, <1>3, <2>1, <2>2, <3>1, <4>1, <4>2 DEF Ends
      <3>3. CASE ~Success(uart[1].text)
        <4>1. Ends("FAILURE", uart[1])
          BY <2>2, <3>3 DEF client_parser_Response
        <4> QED
          BY <1>2, <1>3, <2>1, <2>2, <3>1, <3>3, <4>1 DEF Ends
      <3> QED
        BY <3>2, <3>3
    <2>4. uart' = <<>>
      BY ONLY <1>1, <1>3, <2>2
    <2>5. Queue'
      <3>1. ~Waiting'
        BY <2>3 DEF Waiting
      <3>2. Rest'
        BY <2>4 DEF Rest
      <3> QED
        BY <2>3, <3>1, <3>2 DEF Queue
    <2>6. Agree'
      <3>1. \A k : Open(k)' <=> Open(k)
        BY <1>1 DEF Open
      <3> QED
        BY <1>1, <1>4, <2>3, <3>1 DEF StepInv, Agree
    <2> QED
      BY <2>5, <2>6 DEF StepNext
  <1>8. e \in Nat /\ (e = 1 \/ e > 1)
    BY ONLY <1>3, e \in 1..Len(uart)
  <1> QED
    BY ONLY <1>6, <1>7, <1>8

(* Where neither CIPSTART nor CIPCLOSE is on its way to the client, both   *)
(* sides agree on every link.                                              *)
LEMMA AllAgree ==
  ASSUME StepInv, InTime, result # "NONE" \/ cmd.name \notin {"CIPSTART", "CIPCLOSE"},
         cmd.name # "CIPCLOSE", cmd.name = "CIPSTART" => result # "SUCCESS"
  PROVE  \A l \in Link : esp8266_link[l] <=> Open(l)
  <1> TAKE l \in Link
  <1>1. \/ esp8266_link[l] <=> Open(l)
        \/ cmd.name = "CIPSTART" /\ l = cmd.link
    BY DEF StepInv, Agree
  <1>2. CASE cmd.name = "CIPSTART" /\ l = cmd.link
    BY <1>2 DEF StepInv, Agree, Room
  <1> QED
    BY ONLY <1>1, <1>2

(* A command goes out that opens and closes no link.                       *)
LEMMA CommandStep ==
  ASSUME StepInv, InTime, \A l \in Link : esp8266_link[l] <=> Open(l),
         result' = "NONE", cmd'.name \notin {"none", "CIPSTART", "CIPCLOSE"},
         UNCHANGED <<esp8266_link, mixed>>, \A l \in Link : modem'[l].conn = modem[l].conn,
         ~mixed, \E e \in 1..Len(uart') : EndsAt(e)'
  PROVE  StepNext
  <1>1. \A l : Open(l)' <=> Open(l)
    BY DEF Open
  <1> QED
    BY <1>1, NewCommand DEF StepNext, Agree

LEMMA StartLinkStep ==
  ASSUME StepInv, InTime, Free # {}, StartLink, OnlyOK, ~mixed,
         \A l \in Link : esp8266_link[l] <=> Open(l), UNCHANGED <<esp8266_link, mixed>>
  PROVE  StepNext
  <1>1. /\ cmd' = [name |-> "CIPSTART", link |-> FreeLink, len |-> 0] /\ result' = "NONE"
        /\ FreeLink \in Link /\ ~esp8266_link[FreeLink]
        /\ Module_CIPSTART(FreeLink)
    BY StartLinkBase DEF StepInv, Base
  <1> HIDE DEF FreeLink
  <1>2. ModuleTypes /\ uart \in Seq(Lines)
    BY TypesGive DEF StepInv
  <1>3. /\ ModuleTypes'
        /\ \/ /\ TwoSent("CONNECT", "OK")
              /\ modem'[FreeLink] = [conn |-> conns + 1, sent |-> 0, kept |-> <<>>]
              /\ \A k \in Link \ {FreeLink} : modem'[k] = modem[k]
           \/ OneSent("ERROR") /\ UNCHANGED module
    BY <1>1, <1>2, StartSends
  <1>4. uart' \in Seq(Lines) /\ custom_flag'
    BY <1>1, <1>3 DEF ModuleTypes, custom_flag
  <1>5. \E e \in 1..Len(uart') : EndsAt(e)'
    <2>1. CASE /\ TwoSent("CONNECT", "OK")
               /\ modem'[FreeLink] = [conn |-> conns + 1, sent |-> 0, kept |-> <<>>]
      <3>1. conns + 1 # 0
        BY <1>2 DEF ModuleTypes
      <3>2. Open(cmd.link)' /\ cmd'.name = "CIPSTART"
        BY ONLY <1>1, <2>1, <3>1 DEF Open
      <3> QED
        BY <1>2, <1>4, <2>1, <3>2, FitsTwo
    <2>2. CASE OneSent("ERROR") /\ UNCHANGED module
      <3>1. ~Open(cmd.link)' /\ cmd'.name = "CIPSTART"
        BY <1>1, <2>2 DEF Open
      <3> QED
        BY <1>2, <1>4, <2>2, <3>1, FitsOne
    <2> QED
      BY ONLY <1>3, <2>1, <2>2
  <1>6. Agree'
    <2>1. \A k \in Link \ {FreeLink} : Open(k)' <=> Open(k)
      BY <1>3 DEF Open
    <2> QED
      BY <1>1, <2>1 DEF Agree
  <1> QED
    BY <1>1, <1>5, <1>6, NewCommand DEF StepNext

LEMMA ConnectStep ==
  ASSUME StepInv, InTime, NEW n \in Net, HAL_AT_TCP_Connect(n)
  PROVE  StepNext
  <1>1. /\ Idle /\ Free # {} /\ UNCHANGED <<esp8266_link, mixed>>
        /\ \/ StartLink
           \/ Exec("RST", 0, 0) /\ Module_RST
    BY DEF HAL_AT_TCP_Connect
  <1>2. ~Waiting
    BY <1>1 DEF Waiting, Idle
  <1>3. uart \in Seq(Lines) /\ Len(uart) \in Nat /\ OnlyOK /\ ~mixed
    BY <1>2, Quiet
  <1>4. \A l \in Link : esp8266_link[l] <=> Open(l)
    BY <1>1, AllAgree DEF Idle
  <1>5. CASE StartLink
    BY <1>1, <1>3, <1>4, <1>5, StartLinkStep
  <1>6. CASE Exec("RST", 0, 0) /\ Module_RST
    <2>1. cmd'.name = "RST" /\ result' = "NONE"
      BY <1>6 DEF Exec
    <2>2. ModuleTypes' /\ TwoSent("OK", "ready") /\ UNCHANGED module
      BY <1>6, ResetSends, TypesGive DEF StepInv
    <2>3. uart' \in Seq(Lines)
      BY <2>2 DEF ModuleTypes
    <2>4. \E e \in 1..Len(uart') : EndsAt(e)'
      BY ONLY <1>3, <2>1, <2>2, <2>3, FitsReset
    <2> QED
      BY <1>1, <1>3, <1>4, <2>1, <2>2, <2>4, CommandStep
  <1> QED
    BY ONLY <1>1, <1>5, <1>6

LEMMA InitStep ==
  ASSUME StepInv, InTime, esp8266_init
  PROVE  StepNext
  <1>1. /\ UNCHANGED <<esp8266_link, mixed>>
        /\ \/ StartLink
           \/ /\ Module_Setting
              /\ \E i \in 1 .. Len(Startup) - 1 : Exec(Startup[i + 1], 0, 0)
           \/ Module_RST /\ Exec("RST again", 0, 0)
    BY DEF esp8266_init
  <1>2. cmd.name \in ToSet(Startup) /\ result # "NONE"
    <2>1. CASE \E i \in 1 .. Len(Startup) - 1 : After(Startup[i])
      <3>1. PICK i \in 1..5 : cmd.name = Startup[i] /\ result # "NONE"
        BY <2>1, StartupNames DEF After
      <3> QED
        BY <3>1, StartupNames
    <2>2. CASE After("CIFSR")
      BY <2>2, StartupNames DEF After
    <2>3. CASE \E i \in 3 .. Len(Startup) : After(Startup[i])
      <3>1. PICK i \in 3..6 : cmd.name = Startup[i] /\ result # "NONE"
        BY <2>3, StartupNames DEF After
      <3> QED
        BY <3>1, StartupNames
    <2> QED
      BY <2>1, <2>2, <2>3 DEF esp8266_init
  <1>3. Free # {} /\ ~Waiting
    BY <1>2 DEF StepInv, Room, Waiting
  <1>4. cmd.name \notin {"none", "CIPSTART", "CIPCLOSE", "CIPRECVLEN", "CIPRECVDATA"}
    BY <1>2, StartupNames
  <1>5. uart \in Seq(Lines) /\ Len(uart) = 0 /\ OnlyOK /\ ~mixed
    BY ONLY <1>3, <1>4, StepInv, InTime, Quiet
  <1>6. \A l \in Link : esp8266_link[l] <=> Open(l)
    BY ONLY <1>4, StepInv, InTime, AllAgree
  <1>7. CASE StartLink
    BY <1>1, <1>3, <1>5, <1>6, <1>7, StartLinkStep
  <1>8. ModuleTypes
    BY TypesGive DEF StepInv
  <1>9. CASE Module_Setting /\ \E i \in 1 .. Len(Startup) - 1 : Exec(Startup[i + 1], 0, 0)
    <2>1. result' = "NONE" /\ cmd'.name \in {"ATE0", "CWMODE", "CIPMUX", "CWJAP", "CIFSR"}
      <3>1. PICK i \in 1..5 : cmd'.name = Startup[i + 1] /\ result' = "NONE"
        BY <1>9, StartupNames DEF Exec
      <3> QED
        BY <3>1, StartupNames
    <2>2. ModuleTypes' /\ (OneSent("OK") \/ OneSent("ERROR")) /\ UNCHANGED module
      BY <1>8, <1>9, SettingSends
    <2>3. uart' \in Seq(Lines) /\ ~custom_flag'
      BY <2>1, <2>2 DEF ModuleTypes, custom_flag
    <2>4. \E e \in 1..Len(uart') : EndsAt(e)'
      <3>3. cmd'.name \notin {"CIPSTART", "CIPCLOSE"} /\ ~(Len(uart) > 0)
        BY ONLY <1>5, <2>1
      <3>1. CASE OneSent("OK")
        BY <1>5, <2>3, <3>1, <3>3, FitsOne
      <3>2. CASE OneSent("ERROR")
        BY <1>5, <2>3, <3>2, <3>3, FitsOne
      <3> QED
        BY ONLY <2>2, <3>1, <3>2
    <2> QED
      BY <1>1, <1>5, <1>6, <2>1, <2>2, <2>4, CommandStep
  <1>10. CASE Module_RST /\ Exec("RST again", 0, 0)
    <2>1. cmd'.name = "RST again" /\ result' = "NONE"
      BY <1>10 DEF Exec
    <2>2. ModuleTypes' /\ TwoSent("OK", "ready") /\ UNCHANGED module
      BY <1>8, <1>10, ResetSends
    <2>3. uart' \in Seq(Lines)
      BY <2>2 DEF ModuleTypes
    <2>4. \E e \in 1..Len(uart') : EndsAt(e)'
      BY ONLY <1>5, <2>1, <2>2, <2>3, FitsReset
    <2> QED
      BY <1>1, <1>5, <1>6, <2>1, <2>2, <2>4, CommandStep
  <1> QED
    BY ONLY <1>1, <1>7, <1>9, <1>10

(* CIPSTART has succeeded: the module has the link open, and so has the    *)
(* client from here on.                                                    *)
LEMMA StartedStep ==
  ASSUME StepInv, InTime, HAL_AT_TCP_Connect_Started
  PROVE  StepNext
  <1>1. /\ cmd.name = "CIPSTART" /\ result = "SUCCESS" /\ mixed' = mixed
        /\ esp8266_link' = [esp8266_link EXCEPT ![cmd.link] = TRUE]
        /\ cmd'.name = "CIPRECVMODE" /\ result' = "NONE" /\ Module_CIPRECVMODE
    BY DEF HAL_AT_TCP_Connect_Started, After, Exec
  <1>2. ~Waiting
    BY <1>1 DEF Waiting
  <1>3. uart \in Seq(Lines) /\ Len(uart) = 0 /\ OnlyOK /\ ~mixed
    <2>1. cmd.name \notin {"none", "CIPCLOSE", "CIPRECVLEN", "CIPRECVDATA"}
      BY ONLY <1>1
    <2> QED
      BY ONLY <1>2, <2>1, StepInv, InTime, Quiet
  <1>4. ModuleTypes' /\ OneSent("OK") /\ UNCHANGED module
    BY <1>1, TypesGive, ModeSends DEF StepInv
  <1>5. \E e \in 1..Len(uart') : EndsAt(e)'
    <2>1. ~custom_flag' /\ uart' \in Seq(Lines) /\ ~(Len(uart) > 0)
      BY <1>1, <1>3, <1>4 DEF custom_flag, ModuleTypes
    <2> QED
      BY <1>1, <1>3, <1>4, <2>1, FitsOne
  <1>6. Agree'
    <2>1. \A l \in Link : esp8266_link'[l] <=> Open(l)
      <3>1. esp8266_link \in [Link -> BOOLEAN]
        BY DEF StepInv, Types
      <3> TAKE l \in Link
      <3>2. CASE l = cmd.link
        BY <1>1, <3>1, <3>2 DEF StepInv, Agree
      <3>3. CASE l # cmd.link
        BY <1>1, <3>1, <3>3 DEF StepInv, Agree
      <3> QED
        BY <3>2, <3>3
    <2>2. \A l : Open(l)' <=> Open(l)
      BY <1>4 DEF Open
    <2> QED
      BY <1>1, <2>1, <2>2 DEF Agree
  <1> QED
    BY <1>1, <1>3, <1>5, <1>6, NewCommand DEF StepNext

(* CIPCLOSE goes out for a link that is open on both sides, or for the one *)
(* before the array.                                                       *)
LEMMA DisconnectStep ==
  ASSUME StepInv, InTime, NEW n \in Net, Disconnect(n)
  PROVE  StepNext
  <1>1. HAL_AT_TCP_Disconnect(n) /\ mixed' = mixed /\ UNCHANGED esp8266_link
    BY DEF Disconnect, HAL_AT_TCP_Disconnect
  <1>2. /\ \/ cmd.name = "none"
           \/ result # "NONE"
        /\ cmd.name \in {"none", "RST", "ATE0", "CIPSTART", "CIPRECVMODE", "RST again"}
        /\ cmd.name = "CIPSTART" => result = "FAILURE"
    BY DEF Disconnect, Idle, After
  <1>3. ~Waiting
    BY <1>2 DEF Waiting
  <1>4. uart \in Seq(Lines) /\ Len(uart) \in Nat /\ OnlyOK /\ ~mixed
    BY <1>3, Quiet
  <1>5. \A l \in Link : esp8266_link[l] <=> Open(l)
    BY <1>2, AllAgree
  <1>6. PICK before \in BOOLEAN :
           IF Linked(n, before)
           THEN Exec("CIPCLOSE", handle[n] - 1, 0) /\ Module_CIPCLOSE(handle[n] - 1)
           ELSE Done /\ UNCHANGED <<uart, module>>
    BY <1>1 DEF HAL_AT_TCP_Disconnect
  <1>7. CASE ~Linked(n, before)
    <2>1. cmd'.name = "none" /\ UNCHANGED <<uart, module>>
      BY <1>6, <1>7 DEF Done, NoCmd
    <2>2. \A l : Open(l)' <=> Open(l)
      BY <2>1 DEF Open
    <2>3. Agree'
      BY <1>1, <1>5, <2>1, <2>2 DEF Agree
    <2> QED
      BY <1>1, <1>4, <2>1, <2>3, NoCommand DEF StepNext
  <1>8. CASE Linked(n, before)
    <2>1. /\ cmd'.name = "CIPCLOSE" /\ cmd'.link = handle[n] - 1 /\ result' = "NONE"
          /\ Module_CIPCLOSE(cmd'.link)
      BY <1>6, <1>8 DEF Exec
    <2>2. handle[n] \in 0..MAX_LINK /\ ModuleTypes
      BY TypesGive DEF StepInv, Types
    <2>3. cmd'.link \in Link => Open(cmd'.link)
      <3>1. SUFFICES ASSUME cmd'.link \in Link PROVE esp8266_link[cmd'.link]
        BY <1>5
      <3>2. handle[n] # 0
        BY <2>1, <2>2, <3>1, LinkNumbers
      <3> QED
        BY <1>8, <2>1, <3>2 DEF Linked
    <2>4. /\ ModuleTypes'
          /\ \/ /\ TwoSent("CLOSED", "OK") /\ Open(cmd'.link)
                /\ modem'[cmd'.link] = NoConn
                /\ \A k \in Link \ {cmd'.link} : modem'[k] = modem[k]
             \/ OneSent("ERROR") /\ ~Open(cmd'.link) /\ UNCHANGED module
      BY <2>1, <2>2, CloseSends
    <2>5. custom_flag' /\ uart' \in Seq(Lines)
      BY <2>1, <2>4 DEF custom_flag, ModuleTypes
    <2>6. \E e \in 1..Len(uart') : EndsAt(e)'
      <3>1. CASE TwoSent("CLOSED", "OK")
        BY <1>4, <2>1, <2>5, <3>1, FitsTwo
      <3>2. CASE OneSent("ERROR") /\ ~Open(cmd'.link)
        BY <1>4, <2>1, <2>3, <2>5, <3>2, FitsOne
      <3> QED
        BY ONLY <2>4, <3>1, <3>2
    <2>7. /\ cmd'.link \in Link => ~Open(cmd.link)'
          /\ \A l \in Link \ {cmd'.link} : Open(l)' <=> Open(l)
      BY <2>3, <2>4 DEF Open, NoConn
    <2>8. Agree'
      BY <1>1, <1>5, <2>1, <2>7 DEF Agree
    <2> QED
      BY <1>1, <1>4, <2>1, <2>6, <2>8, NewCommand DEF StepNext
  <1> QED
    BY ONLY <1>7, <1>8

LEMMA ReturnsStep ==
  ASSUME StepInv, InTime,
         HAL_AT_TCP_Connect_Returns \/ HAL_AT_TCP_Disconnect_Returns
           \/ HAL_AT_Read_Tcp_Returns \/ HAL_AT_Write_Tcp_Returns
  PROVE  StepNext
  <1>1. /\ cmd'.name = "none" /\ UNCHANGED <<uart, modem, mixed>> /\ result # "NONE"
        /\ cmd.name \in {"CIPRECVMODE", "CIPCLOSE", "CIPRECVDATA", "data"}
        /\ \/ UNCHANGED esp8266_link /\ cmd.name # "CIPCLOSE"
           \/ /\ cmd.name = "CIPCLOSE"
              /\ esp8266_link' = IF result = "SUCCESS" /\ cmd.link \in Link
                                 THEN [esp8266_link EXCEPT ![cmd.link] = FALSE] ELSE esp8266_link
    BY DEF HAL_AT_TCP_Connect_Returns, HAL_AT_TCP_Disconnect_Returns,
           HAL_AT_Read_Tcp_Returns, HAL_AT_Write_Tcp_Returns, Done, NoCmd, After
  <1>2. ~Waiting
    BY <1>1 DEF Waiting
  <1>3. OnlyOK /\ ~mixed
    BY <1>2, Quiet
  <1>4. \A l : Open(l)' <=> Open(l)
    BY <1>1 DEF Open
  <1>5. \A l \in Link : esp8266_link'[l] <=> Open(l)
    <2>1. CASE cmd.name # "CIPCLOSE"
      BY <1>1, <2>1, AllAgree
    <2>2. CASE cmd.name = "CIPCLOSE"
      <3>1. esp8266_link \in [Link -> BOOLEAN]
        BY DEF StepInv, Types
      <3>2. /\ \A l \in Link : (esp8266_link[l] <=> Open(l)) \/ l = cmd.link
            /\ cmd.link \in Link => ~Open(cmd.link) /\ result = "SUCCESS"
        BY <1>1, <2>2 DEF StepInv, Agree
      <3>3. esp8266_link' = IF cmd.link \in Link
                            THEN [esp8266_link EXCEPT ![cmd.link] = FALSE] ELSE esp8266_link
        BY ONLY <1>1, <2>2, <3>2
      <3>4. CASE cmd.link \in Link
        BY ONLY <3>1, <3>2, <3>3, <3>4
      <3>5. CASE cmd.link \notin Link
        BY ONLY <3>1, <3>2, <3>3, <3>5
      <3> QED
        BY ONLY <3>4, <3>5
    <2> QED
      BY ONLY <2>1, <2>2
  <1>6. Agree'
    BY <1>1, <1>4, <1>5 DEF Agree
  <1> QED
    BY <1>1, <1>3, <1>6, NoCommand DEF StepNext

LEMMA TransferStep ==
  ASSUME StepInv, InTime,
         \/ \E n \in Net : HAL_AT_Write_Tcp(n) \/ \E len \in 1..2 : HAL_AT_Read_Tcp(n, len)
         \/ HAL_AT_Read_Tcp_Asked \/ HAL_AT_Write_Tcp_Data
  PROVE  StepNext
  <1>1. /\ UNCHANGED <<esp8266_link, mixed>>
        /\ cmd.name \in {"none", "CIPRECVLEN", "CIPSEND"}
        /\ cmd.name = "none" \/ result # "NONE"
    BY DEF HAL_AT_Write_Tcp, HAL_AT_Read_Tcp, HAL_AT_Read_Tcp_Asked, HAL_AT_Write_Tcp_Data,
           Idle, After
  <1>2. ~Waiting
    BY <1>1 DEF Waiting
  <1>3. /\ uart \in Seq(Lines) /\ Len(uart) \in Nat /\ OnlyOK /\ ~mixed
        /\ cmd.name = "CIPSEND" => Len(uart) = 0
    BY <1>2, Quiet
  <1>4. \A l \in Link : esp8266_link[l] <=> Open(l)
    BY <1>1, AllAgree
  <1>5. ModuleTypes /\ cmd.len \in Nat
    BY TypesGive DEF StepInv, Types
  <1>6. CASE \E n \in Net : HAL_AT_Write_Tcp(n)
    <2>1. PICK n \in Net : HAL_AT_Write_Tcp(n)
      BY <1>6
    <2>2. cmd'.name = "CIPSEND" /\ result' = "NONE" /\ Module_CIPSEND(handle[n] - 1)
      BY <2>1 DEF HAL_AT_Write_Tcp, Exec
    <2>3. ModuleTypes' /\ UNCHANGED modem /\ (TwoSent("OK", ">") \/ OneSent("ERROR"))
      BY <1>5, <2>2, PromptSends
    <2>4. custom_flag' /\ uart' \in Seq(Lines)
      BY <2>2, <2>3 DEF custom_flag, ModuleTypes
    <2>5. \E e \in 1..Len(uart') : EndsAt(e)'
      <3>1. CASE TwoSent("OK", ">")
        BY <1>3, <2>2, <2>4, <3>1, FitsTwo
      <3>2. CASE OneSent("ERROR")
        BY <1>3, <2>2, <2>4, <3>2, FitsOne
      <3> QED
        BY ONLY <2>3, <3>1, <3>2
    <2> QED
      BY <1>1, <1>3, <1>4, <2>2, <2>3, <2>5, CommandStep
  <1>7. CASE \E n \in Net : \E len \in 1..2 : HAL_AT_Read_Tcp(n, len)
    <2>1. PICK n \in Net, len \in 1..2 : HAL_AT_Read_Tcp(n, len)
      BY <1>7
    <2>2. cmd'.name = "CIPRECVLEN" /\ result' = "NONE" /\ Module_CIPRECVLEN
      BY <2>1 DEF HAL_AT_Read_Tcp, Exec
    <2>3. ModuleTypes' /\ UNCHANGED module /\ TwoSent("LEN", "OK")
      BY <1>5, <2>2, LengthSends
    <2>4. custom_flag' /\ uart' \in Seq(Lines)
      BY <2>2, <2>3 DEF custom_flag, ModuleTypes
    <2>5. \E e \in 1..Len(uart') : EndsAt(e)'
      BY <1>3, <2>2, <2>3, <2>4, FitsTwo
    <2> QED
      BY <1>1, <1>3, <1>4, <2>2, <2>3, <2>5, CommandStep
  <1>8. CASE HAL_AT_Read_Tcp_Asked /\ Enough
    <2>1. /\ cmd'.name = "CIPRECVDATA" /\ result' = "NONE"
          /\ Module_CIPRECVDATA(cmd.link, cmd.len)
      BY <1>8 DEF HAL_AT_Read_Tcp_Asked, Exec
    <2>2. /\ ModuleTypes' /\ (TwoSent("DATA", "OK") \/ OneSent("ERROR"))
          /\ \A l \in Link : modem'[l].conn = modem[l].conn
      <3>1. /\ ModuleTypes'
            /\ \/ \E k \in 0..cmd.len : Gives(cmd.link, cmd.len, k)
               \/ OneSent("ERROR") /\ UNCHANGED modem
        BY <1>5, <2>1, BytesSent
      <3>2. CASE OneSent("ERROR") /\ UNCHANGED modem
        BY <3>1, <3>2
      <3>3. CASE \E k \in 0..cmd.len : Gives(cmd.link, cmd.len, k)
        <4>1. PICK k \in 0..cmd.len : Gives(cmd.link, cmd.len, k)
          BY <3>3
        <4>2. /\ TwoSent("DATA", "OK") /\ Open(cmd.link)
              /\ modem'[cmd.link] = [modem[cmd.link] EXCEPT !.kept = SubSeq(@, k + 1, Len(@))]
              /\ \A m \in Link \ {cmd.link} : modem'[m] = modem[m]
          BY <4>1 DEF Gives
        <4>3. modem'[cmd.link].conn = modem[cmd.link].conn
          BY <1>5, <4>2 DEF ModuleTypes, Links_, Open
        <4> QED
          BY <3>1, <4>2, <4>3
      <3> QED
        BY ONLY <3>1, <3>2, <3>3
    <2>3. custom_flag' /\ uart' \in Seq(Lines)
      BY <2>1, <2>2 DEF custom_flag, ModuleTypes
    <2>4. \E e \in 1..Len(uart') : EndsAt(e)'
      <3>1. CASE TwoSent("DATA", "OK")
        BY <1>3, <2>1, <2>3, <3>1, FitsTwo
      <3>2. CASE OneSent("ERROR")
        BY <1>3, <2>1, <2>3, <3>2, FitsOne
      <3> QED
        BY ONLY <2>2, <3>1, <3>2
    <2> QED
      BY <1>1, <1>3, <1>4, <2>1, <2>2, <2>4, CommandStep
  <1>9. CASE HAL_AT_Read_Tcp_Asked /\ ~Enough
    <2>1. cmd'.name = "none" /\ UNCHANGED <<uart, module>>
      BY <1>9 DEF HAL_AT_Read_Tcp_Asked, Done, NoCmd
    <2>2. Agree'
      BY <1>1, <1>4, <2>1 DEF Agree, Open
    <2> QED
      BY <1>1, <1>3, <2>1, <2>2, NoCommand DEF StepNext
  <1>10. CASE HAL_AT_Write_Tcp_Data
    <2>1. cmd'.name = "data" /\ result' = "NONE" /\ Module_Data /\ cmd.name = "CIPSEND"
      BY <1>10 DEF HAL_AT_Write_Tcp_Data, Exec, After
    <2>2. ModuleTypes' /\ UNCHANGED modem /\ (OneSent("SEND OK") \/ OneSent("ERROR"))
      BY <1>5, <2>1, DataSends
    <2>3. uart' \in Seq(Lines) /\ ~(Len(uart) > 0)
      <3>1. uart' \in Seq(Lines)
        BY <2>2 DEF ModuleTypes
      <3>2. Len(uart) = 0
        BY ONLY <1>3, <2>1
      <3> QED
        BY ONLY <3>1, <3>2
    <2>4. \E e \in 1..Len(uart') : EndsAt(e)'
      <3>1. CASE OneSent("SEND OK")
        BY <1>3, <2>1, <2>3, <3>1, FitsOne
      <3>2. CASE OneSent("ERROR")
        BY <1>3, <2>1, <2>3, <3>2, FitsOne
      <3> QED
        BY ONLY <2>2, <3>1, <3>2
    <2> QED
      BY <1>1, <1>3, <1>4, <2>1, <2>2, <2>4, CommandStep
  <1> QED
    BY <1>6, <1>7, <1>8, <1>9, <1>10

LEMMA NextStep ==
  ASSUME StepInv, [Next]_vars
  PROVE  StepInv'
  <1>1. Types' /\ Room'
    BY NextBase DEF StepInv, Base
  <1>2. StepNext
    <2>1. CASE UNCHANGED vars
      <3>1. \A l : Open(l)' <=> Open(l)
        BY <2>1 DEF vars, Open
      <3>2. \A e : EndsAt(e)' <=> EndsAt(e)
        BY ZenonT(60), <2>1, <3>1 DEF vars, EndsAt, Last_, custom_flag
      <3> QED
        BY <2>1, <3>1, <3>2 DEF vars, StepInv, StepNext, Queue, Agree, InTime, Waiting, Rest
    <2>2. CASE \E l \in Link : PeerSends(l) \/ PeerCloses(l)
      BY <2>2, PeersStep
    <2>3. CASE client_parser_Urc
      BY <2>3, UrcStep
    <2>4. CASE client_parser_Response
      BY <2>4, ResponseStep
    <2>5. CASE Timeout
      BY <2>5, TimeoutStep
    <2>6. CASE \/ \E n \in Net : \/ HAL_AT_TCP_Connect(n) \/ Disconnect(n)
                                 \/ HAL_AT_Write_Tcp(n)
                                 \/ \E len \in 1..2 : HAL_AT_Read_Tcp(n, len)
               \/ esp8266_init \/ HAL_AT_TCP_Connect_Started \/ HAL_AT_TCP_Connect_Returns
               \/ HAL_AT_TCP_Disconnect_Returns
               \/ HAL_AT_Read_Tcp_Asked \/ HAL_AT_Read_Tcp_Returns
               \/ HAL_AT_Write_Tcp_Data \/ HAL_AT_Write_Tcp_Returns
      <3>1. late' = late /\ unasked' = unasked
        BY <2>6 DEF HAL_AT_TCP_Connect, Disconnect, HAL_AT_TCP_Disconnect, HAL_AT_Write_Tcp,
             HAL_AT_Read_Tcp, esp8266_init, HAL_AT_TCP_Connect_Started,
             HAL_AT_TCP_Connect_Returns, HAL_AT_TCP_Disconnect_Returns, HAL_AT_Read_Tcp_Asked,
             HAL_AT_Read_Tcp_Returns, HAL_AT_Write_Tcp_Data, HAL_AT_Write_Tcp_Returns
      <3>2. CASE ~InTime
        BY <3>1, <3>2 DEF StepNext, Queue, Agree, InTime
      <3>3. CASE InTime
        <4>1. CASE \E n \in Net : HAL_AT_TCP_Connect(n)
          BY <3>3, <4>1, ConnectStep
        <4>2. CASE \E n \in Net : Disconnect(n)
          BY <3>3, <4>2, DisconnectStep
        <4>3. CASE esp8266_init \/ HAL_AT_TCP_Connect_Started
          BY <3>3, <4>3, InitStep, StartedStep
        <4>4. CASE \/ HAL_AT_TCP_Connect_Returns \/ HAL_AT_TCP_Disconnect_Returns
                   \/ HAL_AT_Read_Tcp_Returns \/ HAL_AT_Write_Tcp_Returns
          BY <3>3, <4>4, ReturnsStep
        <4>5. CASE \/ \E n \in Net : \/ HAL_AT_Write_Tcp(n)
                                     \/ \E len \in 1..2 : HAL_AT_Read_Tcp(n, len)
                   \/ HAL_AT_Read_Tcp_Asked \/ HAL_AT_Write_Tcp_Data
          BY <3>3, <4>5, TransferStep
        <4> QED
          BY ONLY <2>6, <4>1, <4>2, <4>3, <4>4, <4>5, Zenon
      <3> QED
        BY <3>2, <3>3
    <2> QED
      BY <2>1, <2>2, <2>3, <2>4, <2>5, <2>6 DEF Next
  <1> QED
    BY <1>1, <1>2 DEF StepInv, StepNext

LEMMA InitHolds ==
  ASSUME Init
  PROVE  StepInv
  <1>1. NoConn \in Links_ /\ <<>> \in Words /\ <<>> \in Seq(Lines)
    BY NoWords DEF NoConn, Links_
  <1>2. Types
    <2>1. cmd.link \in -1 .. MAX_LINK - 1 /\ cmd.len \in Nat
      BY LinkNumbers DEF Init, NoCmd
    <2>2. ring_tcp \in [Link -> Words] /\ received \in [Net -> Words] /\ uart \in Seq(Lines)
      BY <1>1 DEF Init
    <2>3. modem \in [Link -> Links_]
      BY <1>1 DEF Init
    <2>4. handle \in [Net -> 0..MAX_LINK] /\ net \in Net /\ up \in [Net -> BOOLEAN]
      BY LinkNumbers DEF Init
    <2> QED
      BY <2>1, <2>2, <2>3, <2>4 DEF Init, Types
  <1>3. cmd.name = "none" /\ uart = <<>> /\ ~mixed /\ \A l \in Link : modem[l].conn = 0
    BY DEF Init, NoCmd, NoConn
  <1>4. Room
    BY <1>3, StartupNames DEF Room, Connecting, Transfer
  <1>5. Queue
    BY <1>3 DEF Queue, Waiting, Rest
  <1>6. Agree
    BY <1>3 DEF Init, Agree, Open
  <1> QED
    BY <1>2, <1>4, <1>5, <1>6 DEF StepInv

LEMMA Invariance == Spec => []StepInv
  <1>1. Init => StepInv
    BY InitHolds
  <1>2. StepInv /\ [Next]_vars => StepInv'
    BY NextStep
  <1> QED
    BY <1>1, <1>2, PTL DEF Spec

(* As long as no command has run out of time and no peer has closed a      *)
(* link, every command is ended by its own answer, whatever earlier        *)
(* answers left in the queue, and between two operations esp8266_link      *)
(* marks the links the module has open: for any networks, links and peers. *)
THEOREM StaysInStep == Spec => []InStep
  <1>1. StepInv => InStep
    <2> SUFFICES ASSUME StepInv, InTime
                 PROVE  ~mixed /\ (Idle => \A l \in Link : esp8266_link[l] <=> Open(l))
      BY DEF InStep, InTime
    <2>1. ~mixed
      BY DEF StepInv, Queue
    <2>2. Idle => \A l \in Link : esp8266_link[l] <=> Open(l)
      BY AllAgree DEF Idle
    <2> QED
      BY <2>1, <2>2
  <1> QED
    BY <1>1, Invariance, PTL

----------------------------------------------------------------------------
(* What is read on a connection is what its peer sent, in order.           *)

(* s is what follows the first k bytes of connection c. *)
Run(s, c, k) == \A i \in 1..Len(s) : s[i] = <<c, k + i>>

(* How much of what a peer has sent the module has given away: it keeps    *)
(* the rest.                                                               *)
Given(m) == m.sent - Len(m.kept)
Holds(m) == Given(m) >= 0 /\ Run(m.kept, m.conn, Given(m))

Keeps == \A l \in Link : Holds(modem[l])

(* No two networks use one link, unless one has closed that of another.    *)
Owned ==
  ~crossed =>
    /\ \A n \in Net : up[n] => esp8266_link[handle[n] - 1]
    /\ \A m, n \in Net : up[m] /\ up[n] /\ handle[m] = handle[n] => m = n
    /\ cmd.name = "CIPRECVMODE" => \A m \in Net : up[m] => handle[m] # handle[net]
    /\ cmd.name = "CIPCLOSE" => \A m \in Net : up[m] => handle[m] # HandleOf(cmd.link)

Straight == ~(late \/ mixed \/ crossed)

(* A link that is being opened has given no byte away. *)
Unread(l) == Open(l) => Given(modem[l]) = 0

Starts ==
  cmd.name = "CIPSTART" =>
    /\ cmd.link < Buffers => ring_tcp[cmd.link] = <<>>
    /\ result = "NONE" =>
         \A i \in 1..Len(uart) : uart[i].own =>
           \/ uart[i].text \in {"OK", "ERROR"}
           \/ uart[i].text = "CONNECT" /\ Unread(cmd.link)
    /\ result = "SUCCESS" => Unread(cmd.link)

(* The number of bytes the client is told of is there, and stays there.    *)
Offered(x) == x \in Nat /\ (Open(cmd.link) => x <= Len(modem[cmd.link].kept))

Counts ==
  cmd.name = "CIPRECVLEN" =>
    /\ result = "NONE" =>
         \A i \in 1..Len(uart) : uart[i].own =>
           \/ uart[i].text = "OK"
           \/ uart[i].text = "LEN" /\ Offered(uart[i].arg[cmd.link + 1])
    /\ result # "NONE" => Offered(esp8266_recv_len[cmd.link])

(* The module goes on k bytes behind what has been read. *)
Continues(n, k) ==
  Open(handle[n] - 1) =>
    /\ modem[handle[n] - 1].conn = conn_of[n]
    /\ Given(modem[handle[n] - 1]) = Len(received[n]) + k

NoBytes ==
  /\ Continues(net, 0)
  /\ \A i \in 1..Len(uart) : uart[i].own => uart[i].text = "ERROR"

TheBytes ==
  /\ Continues(net, cmd.len)
  /\ \A i \in 1..Len(uart) : uart[i].own =>
       \/ uart[i].text = "OK"
       \/ /\ uart[i].text = "DATA" /\ Len(uart[i].arg) = cmd.len
          /\ Run(uart[i].arg, conn_of[net], Len(received[net]))

Reads ==
  cmd.name = "CIPRECVDATA" /\ handle[net] <= Buffers =>
    /\ result = "NONE" => ring_tcp[cmd.link] = <<>> /\ (NoBytes \/ TheBytes)
    /\ result # "NONE" =>
         /\ Run(ring_tcp[cmd.link], conn_of[net], Len(received[net]))
         /\ Len(ring_tcp[cmd.link]) <= cmd.len
         /\ Continues(net, Len(ring_tcp[cmd.link]))

(* Between two reads nothing is left in the buffer of a link. *)
InUse(n) == up[n] \/ (n = net /\ cmd.name = "CIPRECVMODE")
Reading(n) == n = net /\ cmd.name = "CIPRECVDATA"
Settled(n) == ring_tcp[handle[n] - 1] = <<>> /\ Continues(n, 0)

Flow(n) ==
  InUse(n) /\ handle[n] <= Buffers =>
    /\ Run(received[n], conn_of[n], 0)
    /\ Reading(n) \/ Settled(n)

Streams == Straight => Starts /\ Counts /\ Reads /\ \A n \in Net : Flow(n)

ReadInv == Types /\ Room /\ Keeps /\ Owned /\ Streams

LEMMA RunOfNone == \A c, k : Run(<<>>, c, k)
  BY DEF Run

LEMMA RunGrows ==
  ASSUME NEW S, NEW s \in Seq(S), NEW x \in S, NEW c, NEW k \in Int,
         Run(s, c, k), x = <<c, k + (Len(s) + 1)>>
  PROVE  Run(Append(s, x), c, k)
  <1>1. /\ Len(s) \in Nat /\ Len(Append(s, x)) = Len(s) + 1
        /\ \A i \in 1..Len(s) : Append(s, x)[i] = s[i]
        /\ Append(s, x)[Len(s) + 1] = x
    BY ONLY s \in Seq(S), x \in S, AppendProperties
  <1>2. ASSUME NEW i \in 1 .. Len(s) + 1
        PROVE  Append(s, x)[i] = <<c, k + i>>
    <2>2. CASE i \in 1..Len(s)
      BY ONLY <1>1, <2>2, Run(s, c, k) DEF Run
    <2>3. CASE i = Len(s) + 1
      BY ONLY <1>1, <2>3, x = <<c, k + (Len(s) + 1)>>
    <2>4. i \in 1..Len(s) \/ i = Len(s) + 1
      BY ONLY <1>1, i \in 1 .. Len(s) + 1
    <2> QED
      BY ONLY <2>2, <2>3, <2>4
  <1> DEFINE r == Append(s, x)
  <1>3. Len(r) = Len(s) + 1 /\ \A i \in 1 .. Len(s) + 1 : r[i] = <<c, k + i>>
    BY ONLY <1>1, <1>2
  <1> HIDE DEF r
  <1>4. Run(r, c, k)
    BY ONLY <1>3 DEF Run
  <1> QED
    BY ONLY <1>4 DEF r

LEMMA RunJoined ==
  ASSUME NEW S, NEW a \in Seq(S), NEW b \in Seq(S), NEW c, NEW k \in Int,
         Run(a, c, k), Run(b, c, k + Len(a))
  PROVE  Run(a \o b, c, k)
  <1>1. /\ Len(a) \in Nat /\ Len(b) \in Nat /\ Len(a \o b) = Len(a) + Len(b)
        /\ \A i \in 1 .. Len(a) + Len(b) :
             (a \o b)[i] = IF i <= Len(a) THEN a[i] ELSE b[i - Len(a)]
    BY ONLY a \in Seq(S), b \in Seq(S), ConcatProperties
  <1>2. ASSUME NEW i \in 1 .. Len(a) + Len(b)
        PROVE  (a \o b)[i] = <<c, k + i>>
    <2>2. CASE i <= Len(a)
      <3>1. i \in 1..Len(a)
        BY ONLY <1>1, <2>2, i \in 1 .. Len(a) + Len(b)
      <3> QED
        BY ONLY <1>1, <2>2, <3>1, Run(a, c, k) DEF Run
    <2>3. CASE ~(i <= Len(a))
      <3>1. i - Len(a) \in 1..Len(b) /\ (k + Len(a)) + (i - Len(a)) = k + i
        BY ONLY <1>1, <2>3, i \in 1 .. Len(a) + Len(b), k \in Int
      <3>2. b[i - Len(a)] = <<c, (k + Len(a)) + (i - Len(a))>>
        BY ONLY <3>1, Run(b, c, k + Len(a)) DEF Run
      <3> QED
        BY ONLY <1>1, <2>3, <3>1, <3>2
    <2> QED
      BY ONLY <2>2, <2>3
  <1> DEFINE r == a \o b
  <1>3. Len(r) = Len(a) + Len(b) /\ \A i \in 1 .. Len(a) + Len(b) : r[i] = <<c, k + i>>
    BY ONLY <1>1, <1>2
  <1> HIDE DEF r
  <1>4. Run(r, c, k)
    BY ONLY <1>3 DEF Run
  <1> QED
    BY ONLY <1>4 DEF r

(* A part of a sequence, with its length. *)
LEMMA Part ==
  ASSUME NEW S, NEW s \in Seq(S), NEW m \in Nat, NEW n \in 0..Len(s), m >= 1, m <= n + 1,
         NEW c, NEW k \in Int, Run(s, c, k)
  PROVE  /\ SubSeq(s, m, n) \in Seq(S) /\ Len(SubSeq(s, m, n)) = n - (m - 1)
         /\ Run(SubSeq(s, m, n), c, k + (m - 1))
  <1>1. Len(s) \in Nat /\ n \in Int /\ m \in Int
    BY ONLY s \in Seq(S), n \in 0..Len(s), m \in Nat
  <1>2. \A i \in m..n : i \in 1..Len(s)
    BY ONLY <1>1, n \in 0..Len(s), m >= 1
  <1>3. \A i \in m..n : s[i] \in S
    BY ONLY <1>2, s \in Seq(S), ElementOfSeq
  <1> DEFINE r == SubSeq(s, m, n)
  <1>4. /\ r \in Seq(S) /\ Len(r) = IF m <= n THEN n - m + 1 ELSE 0
        /\ \A i \in 1 .. n - m + 1 : r[i] = s[m + i - 1]
    BY ONLY <1>1, <1>3, SubSeqProperties
  <1> HIDE DEF r
  <1>5. Len(r) = n - (m - 1)
    BY ONLY <1>1, <1>4, m <= n + 1
  <1>6. ASSUME NEW i \in 1..Len(r)
        PROVE  r[i] = <<c, (k + (m - 1)) + i>>
    <2>1. i \in 1 .. n - m + 1 /\ m + i - 1 \in m..n /\ k + (m + i - 1) = (k + (m - 1)) + i
      BY ONLY <1>1, <1>5, i \in 1..Len(r), m <= n + 1, k \in Int
    <2>2. r[i] = s[m + i - 1]
      BY ONLY <1>4, <2>1
    <2>3. s[m + i - 1] = <<c, k + (m + i - 1)>>
      BY ONLY <1>2, <2>1, Run(s, c, k) DEF Run
    <2> QED
      BY ONLY <2>1, <2>2, <2>3
  <1>7. Run(r, c, k + (m - 1))
    BY ONLY <1>6 DEF Run
  <1> QED
    BY ONLY <1>4, <1>5, <1>7 DEF r

LEMMA RunParts ==
  ASSUME NEW S, NEW s \in Seq(S), NEW c, NEW k \in Int, Run(s, c, k), NEW j \in 0..Len(s)
  PROVE  /\ SubSeq(s, 1, j) \in Seq(S) /\ Len(SubSeq(s, 1, j)) = j
         /\ Run(SubSeq(s, 1, j), c, k)
         /\ SubSeq(s, j + 1, Len(s)) \in Seq(S)
         /\ Len(SubSeq(s, j + 1, Len(s))) = Len(s) - j
         /\ Run(SubSeq(s, j + 1, Len(s)), c, k + j)
  <1>1. Len(s) \in Nat
    BY ONLY s \in Seq(S)
  <1>2. /\ 1 \in Nat /\ 1 >= 1 /\ 1 <= j + 1 /\ j - (1 - 1) = j /\ k + (1 - 1) = k
        /\ j + 1 \in Nat /\ j + 1 >= 1 /\ j + 1 <= Len(s) + 1 /\ Len(s) \in 0..Len(s)
        /\ (j + 1) - 1 = j
    BY ONLY <1>1, j \in 0..Len(s), k \in Int
  <1>3. /\ SubSeq(s, 1, j) \in Seq(S) /\ Len(SubSeq(s, 1, j)) = j - (1 - 1)
        /\ Run(SubSeq(s, 1, j), c, k + (1 - 1))
    BY ONLY <1>2, s \in Seq(S), j \in 0..Len(s), k \in Int, Run(s, c, k), Part
  <1>4. PICK m \in Nat : m = j + 1
    BY ONLY <1>2
  <1>5. /\ SubSeq(s, m, Len(s)) \in Seq(S) /\ Len(SubSeq(s, m, Len(s))) = Len(s) - (m - 1)
        /\ Run(SubSeq(s, m, Len(s)), c, k + (m - 1))
    <2>1. m >= 1 /\ m <= Len(s) + 1
      BY ONLY <1>2, <1>4
    <2> QED
      BY ONLY <1>2, <2>1, s \in Seq(S), k \in Int, Run(s, c, k), Part
  <1> QED
    BY ONLY <1>2, <1>3, <1>4, <1>5, Zenon

(* What becomes of what a link keeps: it takes one more byte, or gives     *)
(* some away.                                                              *)
LEMMA TakesOne ==
  ASSUME NEW m \in Links_, Holds(m),
         NEW g, g = [m EXCEPT !.sent = @ + 1, !.kept = Append(@, <<m.conn, m.sent + 1>>)]
  PROVE  /\ Holds(g) /\ g.conn = m.conn /\ Given(g) = Given(m)
         /\ Len(m.kept) \in Nat /\ Len(g.kept) = Len(m.kept) + 1
  <1>1. /\ m.conn \in Nat /\ m.sent \in Nat /\ m.kept \in Seq(Nat \X Nat)
        /\ Len(m.kept) \in Nat
    BY DEF Links_
  <1>2. /\ g.conn = m.conn /\ g.sent = m.sent + 1
        /\ g.kept = Append(m.kept, <<m.conn, m.sent + 1>>)
    BY DEF Links_
  <1>3. <<m.conn, m.sent + 1>> \in Nat \X Nat
    BY ONLY <1>1
  <1>4. Len(g.kept) = Len(m.kept) + 1
    BY ONLY <1>1, <1>2, <1>3, AppendProperties
  <1>5. /\ Given(m) \in Int /\ Given(g) = Given(m) /\ Given(m) >= 0
        /\ <<m.conn, m.sent + 1>> = <<m.conn, Given(m) + (Len(m.kept) + 1)>>
    <2>1. Given(m) = m.sent - Len(m.kept) /\ Given(g) = (m.sent + 1) - (Len(m.kept) + 1)
      BY ONLY <1>2, <1>4 DEF Given
    <2>2. Given(m) >= 0
      BY ONLY Holds(m) DEF Holds
    <2>3. m.sent + 1 = Given(m) + (Len(m.kept) + 1)
      BY ONLY <1>1, <2>1
    <2> QED
      BY ONLY <1>1, <2>1, <2>2, <2>3
  <1>6. Run(m.kept, m.conn, Given(m))
    BY ONLY Holds(m) DEF Holds
  <1>7. Run(g.kept, m.conn, Given(m))
    BY ONLY <1>1, <1>2, <1>3, <1>5, <1>6, RunGrows
  <1> QED
    BY ONLY <1>1, <1>2, <1>4, <1>5, <1>7 DEF Holds

LEMMA GivesAway ==
  ASSUME NEW m \in Links_, Holds(m), NEW k \in 0..Len(m.kept),
         NEW g, g.conn = m.conn, g.sent = m.sent, g.kept = SubSeq(m.kept, k + 1, Len(m.kept))
  PROVE  /\ Holds(g) /\ g.conn = m.conn /\ Given(g) = Given(m) + k
         /\ Len(SubSeq(m.kept, 1, k)) = k /\ Run(SubSeq(m.kept, 1, k), m.conn, Given(m))
  <1>1. /\ m.conn \in Nat /\ m.sent \in Nat /\ m.kept \in Seq(Nat \X Nat)
        /\ Len(m.kept) \in Nat
    BY DEF Links_
  <1>2. /\ g.conn = m.conn /\ g.sent = m.sent
        /\ g.kept = SubSeq(m.kept, k + 1, Len(m.kept))
    OBVIOUS
  <1>3. /\ Given(m) \in Int /\ Given(m) >= 0 /\ Run(m.kept, m.conn, Given(m))
    BY ONLY <1>1, Holds(m) DEF Holds, Given
  <1>4. /\ Len(SubSeq(m.kept, 1, k)) = k /\ Run(SubSeq(m.kept, 1, k), m.conn, Given(m))
        /\ Len(g.kept) = Len(m.kept) - k
        /\ Run(g.kept, m.conn, Given(m) + k)
    BY ONLY <1>1, <1>2, <1>3, k \in 0..Len(m.kept), RunParts
  <1>5. Given(g) = Given(m) + k /\ Given(m) + k >= 0
    <2>1. Given(g) = m.sent - (Len(m.kept) - k)
      BY ONLY <1>2, <1>4 DEF Given
    <2>2. Given(m) = m.sent - Len(m.kept)
      BY DEF Given
    <2>3. k \in Int /\ k >= 0
      BY ONLY <1>1, k \in 0..Len(m.kept)
    <2> QED
      BY ONLY <1>1, <1>3, <2>1, <2>2, <2>3
  <1> QED
    BY ONLY <1>2, <1>3, <1>4, <1>5 DEF Holds

LEMMA NewLinkHolds ==
  ASSUME NEW m, m.sent = 0, m.kept = <<>>
  PROVE  Holds(m) /\ Given(m) = 0
  <1>1. Given(m) = 0
    <2>1. Len(m.kept) = 0
      OBVIOUS
    <2> QED
      BY ONLY <2>1, m.sent = 0 DEF Given
  <1> QED
    BY <1>1, RunOfNone DEF Holds

(* A step that leaves a link to its connection, or closes it: bytes may    *)
(* come, none are given away.                                              *)
Calm(l) ==
  l \in Link /\ modem'[l].conn # 0 =>
    /\ modem[l].conn = modem'[l].conn
    /\ Given(modem'[l]) = Given(modem[l])
    /\ Len(modem[l].kept) <= Len(modem'[l].kept)

LEMMA SameIsCalm ==
  ASSUME Types, NEW l, modem'[l] = modem[l]
  PROVE  Calm(l)
  <1>1. l \in Link => Len(modem[l].kept) \in Nat
    BY DEF Types, Links_
  <1> QED
    BY <1>1 DEF Calm

LEMMA PeersLinks ==
  ASSUME Types, Keeps, NEW l \in Link, PeerSends(l) \/ PeerCloses(l)
  PROVE  Keeps' /\ \A k \in Link : Calm(k)
  <1>1. modem \in [Link -> Links_]
    BY DEF Types
  <1>2. CASE PeerSends(l)
    <2>1. /\ modem'[l] = [modem[l] EXCEPT !.sent = @ + 1,
                                        !.kept = Append(@, <<modem[l].conn, modem[l].sent + 1>>)]
          /\ \A k \in Link \ {l} : modem'[k] = modem[k]
      BY <1>1, <1>2 DEF PeerSends
    <2>2. modem[l] \in Links_ /\ Holds(modem[l])
      BY <1>1 DEF Keeps
    <2>3. /\ Holds(modem'[l]) /\ modem'[l].conn = modem[l].conn
          /\ Given(modem'[l]) = Given(modem[l])
          /\ Len(modem[l].kept) \in Nat /\ Len(modem'[l].kept) = Len(modem[l].kept) + 1
      BY ONLY <2>1, <2>2, TakesOne
    <2>4. Calm(l)
      BY ONLY <2>3 DEF Calm
    <2>5. \A k \in Link \ {l} : Calm(k)
      BY <2>1, SameIsCalm
    <2>6. Keeps'
      BY <2>1, <2>3 DEF Keeps
    <2> QED
      BY <2>4, <2>5, <2>6
  <1>3. CASE PeerCloses(l)
    <2>1. modem'[l] = NoConn /\ \A k \in Link \ {l} : modem'[k] = modem[k]
      BY <1>1, <1>3 DEF PeerCloses
    <2>2. Holds(modem'[l]) /\ Calm(l)
      BY <2>1, NewLinkHolds DEF Calm, NoConn
    <2>3. \A k \in Link \ {l} : Calm(k)
      BY <2>1, SameIsCalm
    <2>4. Keeps'
      BY <2>1, <2>2 DEF Keeps
    <2> QED
      BY <2>2, <2>3, <2>4
  <1> QED
    BY <1>2, <1>3

LEMMA SameLinks ==
  ASSUME Types, Keeps, modem' = modem
  PROVE  Keeps' /\ \A k \in Link : Calm(k)
  BY SameIsCalm DEF Keeps

LEMMA StartLinks ==
  ASSUME Types, Keeps, NEW l \in Link, Module_CIPSTART(l)
  PROVE  /\ Keeps' /\ \A k \in Link \ {l} : Calm(k)
         /\ \/ TwoSent("CONNECT", "OK") /\ Given(modem'[l]) = 0
            \/ OneSent("ERROR")
  <1>1. ModuleTypes
    BY TypesGive
  <1>2. CASE /\ TwoSent("CONNECT", "OK")
             /\ modem'[l] = [conn |-> conns + 1, sent |-> 0, kept |-> <<>>]
             /\ \A k \in Link \ {l} : modem'[k] = modem[k]
    <2>1. Holds(modem'[l]) /\ Given(modem'[l]) = 0
      BY <1>2, NewLinkHolds
    <2>2. \A k \in Link \ {l} : Calm(k)
      BY <1>2, SameIsCalm
    <2>3. Keeps'
      BY <1>2, <2>1 DEF Keeps
    <2> QED
      BY <1>2, <2>1, <2>2, <2>3
  <1>3. CASE OneSent("ERROR") /\ UNCHANGED module
    BY <1>3, SameLinks
  <1> QED
    BY <1>1, <1>2, <1>3, StartSends

LEMMA CloseLinks ==
  ASSUME Types, Keeps, NEW l, Module_CIPCLOSE(l)
  PROVE  Keeps' /\ \A k \in Link : Calm(k)
  <1>1. ModuleTypes
    BY TypesGive
  <1>2. CASE /\ Open(l) /\ modem'[l] = NoConn
             /\ \A k \in Link \ {l} : modem'[k] = modem[k]
    <2>1. Holds(modem'[l]) /\ Calm(l)
      BY <1>2, NewLinkHolds DEF Calm, NoConn
    <2>2. \A k \in Link \ {l} : Calm(k)
      BY <1>2, SameIsCalm
    <2>3. Keeps'
      BY <1>2, <2>1 DEF Keeps
    <2> QED
      BY <2>1, <2>2, <2>3
  <1>3. CASE UNCHANGED module
    BY <1>3, SameLinks
  <1> QED
    BY <1>1, <1>2, <1>3, CloseSends

(* The bytes of an answer are those behind what was given away before.     *)
LEMMA BytesLinks ==
  ASSUME Types, Keeps, NEW l, NEW len \in Nat, Module_CIPRECVDATA(l, len)
  PROVE  /\ Keeps' /\ \A k \in Link \ {l} : Calm(k)
         /\ \/ OneSent("ERROR") /\ modem' = modem
            \/ \E k \in 0..len :
                 /\ Open(l) /\ k = Min({len, Len(modem[l].kept)})
                 /\ modem'[l].conn = modem[l].conn
                 /\ Given(modem'[l]) = Given(modem[l]) + k
                 /\ \A i \in 1..Len(uart') : uart'[i].own =>
                      \/ uart'[i].text = "OK"
                      \/ /\ uart'[i].text = "DATA" /\ Len(uart'[i].arg) = k
                         /\ Run(uart'[i].arg, modem[l].conn, Given(modem[l]))
  <1>1. ModuleTypes
    BY TypesGive
  <1>2. CASE OneSent("ERROR") /\ UNCHANGED modem
    BY <1>2, SameLinks
  <1>3. CASE \E k \in 0..len : Gives(l, len, k)
    <2>0. PICK k \in 0..len : Gives(l, len, k)
      BY <1>3
    <2>1. /\ Open(l) /\ k = Min({len, Len(modem[l].kept)}) /\ k <= Len(modem[l].kept)
          /\ modem'[l] = [modem[l] EXCEPT !.kept = SubSeq(@, k + 1, Len(@))]
          /\ \A m \in Link \ {l} : modem'[m] = modem[m]
          /\ \A i \in 1..Len(uart') : uart'[i].own =>
               \/ uart'[i].text = "DATA" /\ uart'[i].arg = SubSeq(modem[l].kept, 1, k)
               \/ uart'[i].text = "OK"
      BY <2>0 DEF Gives
    <2>2. l \in Link /\ modem[l] \in Links_ /\ Holds(modem[l]) /\ Len(modem[l].kept) \in Nat
      BY <2>1 DEF Types, Keeps, Open, Links_
    <2>3. k \in 0..Len(modem[l].kept)
      BY ONLY <2>1, <2>2
    <2>4. /\ Holds(modem'[l]) /\ modem'[l].conn = modem[l].conn
          /\ Given(modem'[l]) = Given(modem[l]) + k
          /\ Len(SubSeq(modem[l].kept, 1, k)) = k
          /\ Run(SubSeq(modem[l].kept, 1, k), modem[l].conn, Given(modem[l]))
      <3>1. PICK m \in Links_ : m = modem[l]
        BY ONLY <2>2
      <3>0. PICK g : g = modem'[l]
        OBVIOUS
      <3>2. g.conn = m.conn /\ g.sent = m.sent /\ g.kept = SubSeq(m.kept, k + 1, Len(m.kept))
        BY ONLY <2>1, <3>0, <3>1 DEF Links_
      <3>3. Holds(m) /\ k \in 0..Len(m.kept)
        BY ONLY <2>2, <2>3, <3>1
      <3>4. /\ Holds(g) /\ g.conn = m.conn /\ Given(g) = Given(m) + k
            /\ Len(SubSeq(m.kept, 1, k)) = k /\ Run(SubSeq(m.kept, 1, k), m.conn, Given(m))
        BY ONLY <3>1, <3>2, <3>3, GivesAway
      <3> QED
        BY ONLY <3>0, <3>1, <3>4
    <2>5. \A m \in Link \ {l} : Calm(m)
      BY <2>1, SameIsCalm
    <2>6. Keeps'
      BY <2>1, <2>4 DEF Keeps
    <2>7. \A i \in 1..Len(uart') : uart'[i].own =>
            \/ uart'[i].text = "OK"
            \/ /\ uart'[i].text = "DATA" /\ Len(uart'[i].arg) = k
               /\ Run(uart'[i].arg, modem[l].conn, Given(modem[l]))
      BY ONLY <2>1, <2>4
    <2> QED
      BY ONLY <2>1, <2>4, <2>5, <2>6, <2>7
  <1> QED
    BY <1>1, <1>2, <1>3, BytesSent

(* The steps that leave the links to the module. *)
StillStep ==
  \/ client_parser_Urc \/ client_parser_Response \/ Timeout
  \/ HAL_AT_TCP_Connect_Started \/ HAL_AT_TCP_Connect_Returns
  \/ HAL_AT_TCP_Disconnect_Returns \/ HAL_AT_Read_Tcp_Returns \/ HAL_AT_Write_Tcp_Returns
  \/ \E n \in Net : HAL_AT_Write_Tcp(n) \/ \E len \in 1..2 : HAL_AT_Read_Tcp(n, len)
  \/ HAL_AT_Write_Tcp_Data

LEMMA StillLinks ==
  ASSUME Types, StillStep
  PROVE  modem' = modem
  <1>1. ModuleTypes
    BY TypesGive
  <1>2. CASE \/ client_parser_Urc \/ client_parser_Response \/ Timeout
             \/ HAL_AT_TCP_Connect_Returns \/ HAL_AT_TCP_Disconnect_Returns
             \/ HAL_AT_Read_Tcp_Returns \/ HAL_AT_Write_Tcp_Returns
    BY <1>2 DEF client_parser_Urc, client_parser_Response, Timeout, HAL_AT_TCP_Connect_Returns,
                HAL_AT_TCP_Disconnect_Returns, HAL_AT_Read_Tcp_Returns, HAL_AT_Write_Tcp_Returns
  <1>3. CASE HAL_AT_TCP_Connect_Started
    BY <1>3 DEF HAL_AT_TCP_Connect_Started, Module_CIPRECVMODE
  <1>4. CASE \E n \in Net : HAL_AT_Write_Tcp(n)
    BY <1>1, <1>4, PromptSends DEF HAL_AT_Write_Tcp
  <1>5. CASE \E n \in Net : \E len \in 1..2 : HAL_AT_Read_Tcp(n, len)
    BY <1>5 DEF HAL_AT_Read_Tcp, Module_CIPRECVLEN
  <1>6. CASE HAL_AT_Write_Tcp_Data
    BY <1>6 DEF HAL_AT_Write_Tcp_Data, Module_Data
  <1> QED
    BY <1>2, <1>3, <1>4, <1>5, <1>6 DEF StillStep

(* A command of the start, other than CIPSTART. *)
SetupStep ==
  /\ cmd'.name \in ToSet(Startup) \cup {"RST again"} /\ modem' = modem
  /\ UNCHANGED ring_tcp

LEMMA StartNames ==
  ASSUME StartLink \/ SetupStep
  PROVE  cmd'.name \in {"CIPSTART", "RST", "ATE0", "CWMODE", "CIPMUX", "CWJAP", "CIFSR",
                       "RST again"}
  <1>1. CASE StartLink
    BY <1>1 DEF StartLink, Exec
  <1>2. CASE SetupStep
    BY <1>2, StartupNames DEF SetupStep
  <1> QED
    BY <1>1, <1>2

LEMMA ConnectIs ==
  ASSUME Base, NEW n \in Net, HAL_AT_TCP_Connect(n)
  PROVE  StartLink \/ SetupStep
  <1>1. CASE status
    BY <1>1 DEF HAL_AT_TCP_Connect
  <1>2. CASE ~status
    <2>1. cmd'.name = "RST" /\ UNCHANGED <<modem, ring_tcp>>
      BY <1>2 DEF HAL_AT_TCP_Connect, Exec, Module_RST
    <2> QED
      BY <2>1, StartupNames DEF SetupStep
  <1> QED
    BY <1>1, <1>2

LEMMA InitIs ==
  ASSUME Base, esp8266_init
  PROVE  /\ Free # {} /\ (StartLink \/ SetupStep)
         /\ cmd.name \in ToSet(Startup)
         /\ UNCHANGED <<net, handle, up, esp8266_link, received, conn_of, faults>>
  <1>1. CASE \E i \in 1 .. Len(Startup) - 1 :
               /\ After(Startup[i]) /\ result = "SUCCESS"
               /\ Exec(Startup[i + 1], 0, 0) /\ Module_Setting
               /\ UNCHANGED ring_tcp
    <2>1. PICK i \in 1..5 : cmd.name = Startup[i] /\ cmd'.name = Startup[i + 1]
      BY <1>1, StartupNames DEF After, Exec
    <2>2. cmd.name \in ToSet(Startup) /\ cmd'.name \in ToSet(Startup)
      BY <2>1, StartupNames
    <2>3. modem' = modem /\ UNCHANGED ring_tcp
      BY <1>1 DEF Module_Setting
    <2> QED
      BY <2>2, <2>3 DEF SetupStep, Base, Room, esp8266_init
  <1>2. CASE After("CIFSR") /\ result = "SUCCESS" /\ StartLink
    <2>1. cmd.name \in ToSet(Startup)
      BY <1>2, StartupNames DEF After
    <2> QED
      BY <1>2, <2>1 DEF Base, Room, esp8266_init
  <1>3. CASE \E i \in 3 .. Len(Startup) :
               /\ After(Startup[i]) /\ result = "FAILURE"
               /\ Exec("RST again", 0, 0) /\ Module_RST
               /\ UNCHANGED ring_tcp
    <2>1. PICK i \in 3..6 : cmd.name = Startup[i]
      BY <1>3, StartupNames DEF After
    <2>2. cmd.name \in ToSet(Startup)
      <3>1. i \in 1..6
        OBVIOUS
      <3> QED
        BY <2>1, <3>1, StartupNames
    <2>4. cmd'.name = "RST again"
      <3>1. Exec("RST again", 0, 0)
        BY <1>3
      <3> QED
        BY <3>1 DEF Exec
    <2>3. modem' = modem /\ UNCHANGED ring_tcp
      BY <1>3 DEF Module_RST
    <2> QED
      BY <2>2, <2>3, <2>4 DEF SetupStep, Base, Room, esp8266_init
  <1> QED
    BY <1>1, <1>2, <1>3 DEF esp8266_init

(* CIPSTART goes out for a link that is not marked. *)
LEMMA StartLinkIs ==
  ASSUME Base, Keeps, Free # {}, StartLink
  PROVE  /\ cmd'.name = "CIPSTART" /\ result' = "NONE"
         /\ cmd'.link \in Link /\ ~esp8266_link[cmd'.link]
         /\ Keeps' /\ \A k \in Link : k # cmd'.link => Calm(k) /\ ring_tcp'[k] = ring_tcp[k]
         /\ cmd'.link < Buffers => ring_tcp'[cmd'.link] = <<>>
         /\ \/ TwoSent("CONNECT", "OK") /\ Given(modem'[cmd'.link]) = 0
            \/ OneSent("ERROR")
  <1>1. /\ cmd' = [name |-> "CIPSTART", link |-> FreeLink, len |-> 0] /\ result' = "NONE"
        /\ FreeLink \in Link /\ ~esp8266_link[FreeLink]
        /\ Module_CIPSTART(FreeLink)
        /\ FreeLink < Buffers => ring_tcp'[FreeLink] = <<>>
        /\ \A l \in Link \ {FreeLink} : ring_tcp'[l] = ring_tcp[l]
    BY StartLinkBase
  <1> HIDE DEF FreeLink
  <1>2. cmd'.name = "CIPSTART" /\ cmd'.link = FreeLink
    BY <1>1
  <1>3. /\ Keeps' /\ \A k \in Link \ {FreeLink} : Calm(k)
        /\ \/ TwoSent("CONNECT", "OK") /\ Given(modem'[FreeLink]) = 0
           \/ OneSent("ERROR")
    BY <1>1, StartLinks DEF Base
  <1>4. \A k \in Link : k # FreeLink => Calm(k) /\ ring_tcp'[k] = ring_tcp[k]
    BY <1>1, <1>3
  <1> QED
    BY ONLY <1>1, <1>2, <1>3, <1>4

LEMMA DisconnectLinks ==
  ASSUME Types, Keeps, NEW n \in Net, HAL_AT_TCP_Disconnect(n)
  PROVE  Keeps' /\ \A k \in Link : Calm(k)
  <1>1. CASE Module_CIPCLOSE(handle[n] - 1)
    BY <1>1, CloseLinks
  <1>2. CASE UNCHANGED module
    BY <1>2, SameLinks
  <1> QED
    BY <1>1, <1>2 DEF HAL_AT_TCP_Disconnect

LEMMA NextKeeps ==
  ASSUME Base, Keeps, [Next]_vars
  PROVE  Keeps'
  <1>1. CASE UNCHANGED vars
    BY <1>1, SameLinks DEF vars, Base
  <1>2. CASE \E l \in Link : PeerSends(l) \/ PeerCloses(l)
    BY <1>2, PeersLinks DEF Base
  <1>3. CASE StillStep
    BY <1>3, StillLinks, SameLinks DEF Base
  <1>4. CASE \E n \in Net : HAL_AT_TCP_Connect(n)
    <2>1. Free # {} /\ (StartLink \/ SetupStep)
      BY <1>4, ConnectIs DEF HAL_AT_TCP_Connect
    <2> QED
      BY <2>1, StartLinkIs, SameLinks DEF SetupStep, Base
  <1>5. CASE esp8266_init
    BY <1>5, InitIs, StartLinkIs, SameLinks DEF SetupStep, Base
  <1>6. CASE \E n \in Net : Disconnect(n)
    BY <1>6, DisconnectLinks DEF Disconnect, Base
  <1>7. CASE HAL_AT_Read_Tcp_Asked
    <2>1. CASE Enough
      BY <1>7, <2>1, BytesLinks DEF HAL_AT_Read_Tcp_Asked, Base, Types
    <2>2. CASE ~Enough
      BY <1>7, <2>2, SameLinks DEF HAL_AT_Read_Tcp_Asked, Base
    <2> QED
      BY <2>1, <2>2
  <1> QED
    BY <1>1, <1>2, <1>3, <1>4, <1>5, <1>6, <1>7 DEF Next, StillStep

----------------------------------------------------------------------------
(* A link is that of one network.                                          *)

LEMMA HandlesAreLinks ==
  ASSUME Types, NEW n \in Net
  PROVE  /\ handle[n] \in Nat /\ (handle[n] - 1) + 1 = handle[n]
         /\ up[n] => handle[n] - 1 \in Link
  <1>1. handle[n] \in 0..MAX_LINK /\ (up[n] => handle[n] # 0)
    BY DEF Types
  <1> QED
    BY ONLY <1>1, LinkNumbers

(* No network comes or goes, and no link is marked free. *)
LEMMA OwnedStays ==
  ASSUME Types, Owned, ~crossed' => ~crossed,
         \A n \in Net : up'[n] => up[n] /\ handle'[n] = handle[n],
         \A n \in Net : up'[n] /\ esp8266_link[handle[n] - 1] => esp8266_link'[handle[n] - 1],
         cmd'.name # "CIPRECVMODE" \/ (cmd' = cmd /\ net' = net /\ handle' = handle),
         cmd'.name # "CIPCLOSE" \/ cmd' = cmd
  PROVE  Owned'
  BY DEF Owned

LEMMA StartedOwned ==
  ASSUME Base, Owned, HAL_AT_TCP_Connect_Started
  PROVE  Owned'
  <1>1. /\ cmd.link \in Link /\ ~esp8266_link[cmd.link] /\ ~up[net] /\ net \in Net
        /\ esp8266_link \in [Link -> BOOLEAN] /\ handle \in [Net -> 0..MAX_LINK]
    BY DEF HAL_AT_TCP_Connect_Started, After, Base, Room, Connecting, Types
  <1>2. /\ esp8266_link' = [esp8266_link EXCEPT ![cmd.link] = TRUE]
        /\ handle' = [handle EXCEPT ![net] = cmd.link + 1]
        /\ cmd'.name = "CIPRECVMODE" /\ net' = net /\ up' = up /\ crossed' = crossed
    BY DEF HAL_AT_TCP_Connect_Started, Exec
  <1>3. /\ \A k \in Link : esp8266_link'[k] <=> esp8266_link[k] \/ k = cmd.link
        /\ handle'[net] = cmd.link + 1
        /\ \A n \in Net : n # net => handle'[n] = handle[n]
    BY <1>1, <1>2
  <1>4. ASSUME ~crossed, NEW n \in Net, up[n]
        PROVE  /\ n # net /\ handle'[n] = handle[n] /\ handle[n] # cmd.link + 1
               /\ esp8266_link'[handle[n] - 1]
    <2>1. handle[n] - 1 \in Link /\ handle[n] \in Nat /\ (handle[n] - 1) + 1 = handle[n]
      BY <1>4, HandlesAreLinks DEF Base
    <2>2. esp8266_link[handle[n] - 1]
      BY <1>4 DEF Owned
    <2>3. handle[n] - 1 # cmd.link
      BY <1>1, <2>2
    <2>4. cmd.link \in Int
      BY ONLY <1>1, LinkNumbers
    <2>5. handle[n] # cmd.link + 1
      BY ONLY <2>1, <2>3, <2>4
    <2> QED
      BY <1>1, <1>3, <1>4, <2>1, <2>2, <2>5
  <1> QED
    BY <1>2, <1>3, <1>4 DEF Owned

LEMMA ConnectedOwned ==
  ASSUME Base, Owned, HAL_AT_TCP_Connect_Returns
  PROVE  Owned'
  <1>1. /\ cmd.name = "CIPRECVMODE" /\ cmd.link \in Link /\ esp8266_link[cmd.link]
        /\ handle[net] = cmd.link + 1 /\ net \in Net /\ up \in [Net -> BOOLEAN]
    BY DEF HAL_AT_TCP_Connect_Returns, After, Base, Room, Types
  <1>2. /\ up' = [up EXCEPT ![net] = TRUE] /\ cmd'.name = "none"
        /\ UNCHANGED <<handle, esp8266_link, crossed>>
    BY DEF HAL_AT_TCP_Connect_Returns, Done, NoCmd
  <1>3. esp8266_link[handle[net] - 1]
    <2>1. handle[net] - 1 = cmd.link
      BY ONLY <1>1, LinkNumbers
    <2> QED
      BY <1>1, <2>1
  <1>4. \A n \in Net : up'[n] => up[n] \/ n = net
    BY <1>1, <1>2
  <1>5. ~crossed => \A m \in Net : up[m] => handle[m] # handle[net]
    BY <1>1 DEF Owned
  <1> QED
    BY <1>1, <1>2, <1>3, <1>4, <1>5 DEF Owned

LEMMA DisconnectOwned ==
  ASSUME Base, Owned, NEW n \in Net, HAL_AT_TCP_Disconnect(n)
  PROVE  Owned'
  <1>1. /\ up' = [up EXCEPT ![n] = FALSE] /\ up \in [Net -> BOOLEAN]
        /\ UNCHANGED <<handle, esp8266_link>>
    BY DEF HAL_AT_TCP_Disconnect, Base, Types
  <1>2. \A m \in Net : up'[m] => up[m] /\ m # n
    BY <1>1
  <1>3. CASE /\ Exec("CIPCLOSE", handle[n] - 1, 0)
             /\ crossed' = (crossed \/ \E m \in Net \ {n} : up[m] /\ handle[m] = handle[n])
    <2>1. cmd'.name = "CIPCLOSE" /\ cmd'.link = handle[n] - 1
      BY <1>3 DEF Exec
    <2>2. (handle[n] - 1) + 1 = handle[n]
      BY HandlesAreLinks DEF Base
    <2>3. ~crossed' => ~crossed /\ \A m \in Net : up[m] /\ handle[m] = handle[n] => m = n
      BY <1>3
    <2> QED
      BY <1>1, <1>2, <2>1, <2>2, <2>3 DEF Owned
  <1>4. CASE Done /\ crossed' = crossed
    BY <1>1, <1>2, <1>4, OwnedStays DEF Done, NoCmd, Base
  <1> QED
    BY <1>3, <1>4 DEF HAL_AT_TCP_Disconnect

LEMMA DisconnectedOwned ==
  ASSUME Base, Owned, HAL_AT_TCP_Disconnect_Returns
  PROVE  Owned'
  <1>1. /\ cmd.name = "CIPCLOSE" /\ cmd.link \in -1 .. MAX_LINK - 1
        /\ esp8266_link \in [Link -> BOOLEAN]
    BY DEF HAL_AT_TCP_Disconnect_Returns, After, Base, Types
  <1>2. /\ \/ esp8266_link' = esp8266_link
           \/ esp8266_link' = [esp8266_link EXCEPT ![cmd.link] = FALSE]
        /\ cmd'.name = "none" /\ UNCHANGED <<up, handle, crossed>>
    BY DEF HAL_AT_TCP_Disconnect_Returns, Done, NoCmd
  <1>3. ASSUME ~crossed, NEW n \in Net, up[n], esp8266_link[handle[n] - 1]
        PROVE  esp8266_link'[handle[n] - 1]
    <2>1. handle[n] \in Nat /\ handle[n] # cmd.link + 1 /\ handle[n] - 1 \in Link
      BY <1>1, <1>3, HandlesAreLinks DEF Owned, Base
    <2>2. handle[n] - 1 # cmd.link
      BY <1>1, <2>1, LinkNumbers
    <2> QED
      BY <1>1, <1>2, <1>3, <2>1, <2>2
  <1> QED
    BY <1>2, <1>3 DEF Owned

LEMMA NextOwned ==
  ASSUME Base, Owned, [Next]_vars
  PROVE  Owned'
  <1>0. Types
    BY DEF Base
  <1>1. CASE UNCHANGED vars
    BY <1>0, <1>1, OwnedStays DEF vars
  <1>2. CASE \E l \in Link : PeerSends(l) \/ PeerCloses(l)
    BY <1>0, <1>2, OwnedStays DEF PeerSends, PeerCloses
  <1>3. CASE client_parser_Urc \/ client_parser_Response \/ Timeout
    <2>1. UNCHANGED <<cmd, net, handle, up, esp8266_link, crossed>>
      BY <1>3 DEF client_parser_Urc, client_parser_Response, Timeout
    <2> QED
      BY <1>0, <2>1, OwnedStays
  <1>4. ASSUME NEW n \in Net, HAL_AT_TCP_Connect(n)
        PROVE  Owned'
    <2>1. /\ ~up[n] /\ UNCHANGED <<up, esp8266_link, crossed>>
          /\ handle' = IF n \in HttpNet THEN [handle EXCEPT ![n] = 0] ELSE handle
      BY <1>4 DEF HAL_AT_TCP_Connect
    <2>2. cmd'.name \notin {"CIPRECVMODE", "CIPCLOSE"}
      BY <1>4, ConnectIs, StartNames
    <2>3. \A m \in Net : up'[m] => up[m] /\ handle'[m] = handle[m]
      BY <1>0, <2>1 DEF Types
    <2> QED
      BY <1>0, <2>1, <2>2, <2>3, OwnedStays
  <1>5. CASE esp8266_init
    <2>1. cmd'.name \notin {"CIPRECVMODE", "CIPCLOSE"}
      BY <1>5, InitIs, StartNames
    <2> QED
      BY <1>0, <1>5, <2>1, OwnedStays DEF esp8266_init
  <1>6. CASE \E n \in Net : Disconnect(n)
    BY <1>6, DisconnectOwned DEF Disconnect
  <1>7. CASE HAL_AT_TCP_Connect_Started
    BY <1>7, StartedOwned
  <1>8. CASE HAL_AT_TCP_Connect_Returns
    BY <1>8, ConnectedOwned
  <1>9. CASE HAL_AT_TCP_Disconnect_Returns
    BY <1>9, DisconnectedOwned
  <1>10. CASE HAL_AT_Read_Tcp_Returns \/ HAL_AT_Write_Tcp_Returns
    BY <1>0, <1>10, OwnedStays DEF HAL_AT_Read_Tcp_Returns, HAL_AT_Write_Tcp_Returns, Done, NoCmd
  <1>11. CASE \/ \E n \in Net : HAL_AT_Write_Tcp(n) \/ \E len \in 1..2 : HAL_AT_Read_Tcp(n, len)
              \/ HAL_AT_Read_Tcp_Asked \/ HAL_AT_Write_Tcp_Data
    <2>1. UNCHANGED <<handle, up, esp8266_link, crossed>>
      BY <1>11 DEF HAL_AT_Write_Tcp, HAL_AT_Read_Tcp, HAL_AT_Read_Tcp_Asked, HAL_AT_Write_Tcp_Data
    <2>2. cmd'.name \notin {"CIPRECVMODE", "CIPCLOSE"}
      BY <1>11 DEF HAL_AT_Write_Tcp, HAL_AT_Read_Tcp, HAL_AT_Read_Tcp_Asked,
                   HAL_AT_Write_Tcp_Data, Exec, Done, NoCmd
    <2> QED
      BY <1>0, <2>1, <2>2, OwnedStays
  <1> QED
    BY <1>1, <1>2, <1>3, <1>4, <1>5, <1>6, <1>7, <1>8, <1>9, <1>10, <1>11 DEF Next

----------------------------------------------------------------------------
(* What goes on on a connection, by step.                                  *)

LEMMA UnreadStays ==
  ASSUME NEW l, Calm(l), Unread(l)
  PROVE  Unread(l)'
  BY DEF Calm, Unread, Open

LEMMA OfferedStays ==
  ASSUME Types, Types', NEW x, cmd'.link = cmd.link, Calm(cmd.link), Offered(x)
  PROVE  Offered(x)'
  <1>1. SUFFICES ASSUME cmd.link \in Link, modem'[cmd.link].conn # 0
                 PROVE  x <= Len(modem'[cmd.link].kept)
    BY DEF Offered, Open
  <1>2. x \in Nat /\ x <= Len(modem[cmd.link].kept)
        /\ Len(modem[cmd.link].kept) <= Len(modem'[cmd.link].kept)
    BY <1>1 DEF Offered, Open, Calm
  <1>3. Len(modem[cmd.link].kept) \in Nat /\ Len(modem'[cmd.link].kept) \in Nat
    <2>1. modem[cmd.link] \in Links_ /\ modem'[cmd.link] \in Links_
      BY <1>1 DEF Types
    <2> QED
      BY ONLY <2>1 DEF Links_
  <1> QED
    BY ONLY <1>2, <1>3

LEMMA ContinuesStays ==
  ASSUME NEW n \in Net, NEW k, Continues(n, k), Calm(handle[n] - 1),
         handle'[n] = handle[n], received'[n] = received[n], conn_of'[n] = conn_of[n]
  PROVE  Continues(n, k)'
  BY DEF Continues, Open, Calm

LEMMA FlowStays ==
  ASSUME NEW n \in Net, Flow(n),
         InUse(n)' =>
           /\ InUse(n) /\ (Reading(n) => Reading(n)')
           /\ handle'[n] = handle[n] /\ received'[n] = received[n] /\ conn_of'[n] = conn_of[n]
           /\ Reading(n) \/ (ring_tcp'[handle[n] - 1] = ring_tcp[handle[n] - 1]
                             /\ Calm(handle[n] - 1))
  PROVE  Flow(n)'
  <1>1. SUFFICES ASSUME InUse(n)', handle'[n] <= Buffers
                 PROVE  /\ Run(received'[n], conn_of'[n], 0)
                        /\ Reading(n)' \/ Settled(n)'
    BY DEF Flow
  <1>2. /\ handle'[n] = handle[n] /\ received'[n] = received[n] /\ conn_of'[n] = conn_of[n]
        /\ Run(received[n], conn_of[n], 0)
        /\ Reading(n) \/ Settled(n)
    BY <1>1 DEF Flow
  <1>3. CASE Reading(n)
    BY <1>1, <1>2, <1>3
  <1>4. CASE ~Reading(n)
    <2>1. /\ ring_tcp'[handle[n] - 1] = ring_tcp[handle[n] - 1] /\ Calm(handle[n] - 1)
          /\ ring_tcp[handle[n] - 1] = <<>> /\ Continues(n, 0)
      BY <1>1, <1>2, <1>4 DEF Settled
    <2>2. Continues(n, 0)'
      BY <1>2, <2>1, ContinuesStays
    <2> QED
      BY <1>2, <2>1, <2>2 DEF Settled
  <1> QED
    BY <1>3, <1>4

(* The lines of the answer under way are in the queue already. *)
OwnIsOld ==
  \A i \in 1..Len(uart') : uart'[i].own => \E j \in 1..Len(uart) : uart'[i] = uart[j]

LEMMA QuietStreams ==
  ASSUME Types, Types', Streams, Straight' => Straight,
         UNCHANGED <<cmd, result, net, handle, up, esp8266_recv_len, ring_tcp, received, conn_of>>,
         \A k : Calm(k), OwnIsOld
  PROVE  Streams'
  <1>1. SUFFICES ASSUME Straight'
                 PROVE  (Starts /\ Counts /\ Reads)' /\ \A n \in Net : Flow(n)'
    BY DEF Streams
  <1>2. Starts /\ Counts /\ Reads /\ \A n \in Net : Flow(n)
    BY <1>1 DEF Streams
  <1>3. net \in Net
    BY DEF Types
  <1>4. Starts'
    <2>1. Unread(cmd.link) => Unread(cmd.link)'
      BY UnreadStays DEF Calm, Unread, Open
    <2> QED
      BY <1>2, <2>1 DEF Starts, OwnIsOld
  <1>5. Counts'
    <2>1. ASSUME NEW x, Offered(x)
          PROVE  Offered(x)'
      BY <2>1, OfferedStays
    <2>2. ASSUME cmd.name = "CIPRECVLEN", result = "NONE", NEW i \in 1..Len(uart'), uart'[i].own
          PROVE  \/ uart'[i].text = "OK"
                 \/ uart'[i].text = "LEN" /\ Offered(uart[i].arg[cmd.link + 1])'
      <3>1. PICK j \in 1..Len(uart) : uart'[i] = uart[j]
        BY <2>2 DEF OwnIsOld
      <3>2. \/ uart[j].text = "OK"
            \/ uart[j].text = "LEN" /\ Offered(uart[j].arg[cmd.link + 1])
        BY <1>2, <2>2, <3>1 DEF Counts
      <3>3. PICK x : x = uart[j].arg[cmd.link + 1]
        OBVIOUS
      <3>4. x = uart'[i].arg[cmd'.link + 1]
        BY <3>1, <3>3
      <3>5. Offered(x) => Offered(x)'
        BY <2>1
      <3>6. Offered(x)' => Offered(uart[i].arg[cmd.link + 1])'
        BY <3>4 DEF Offered
      <3> QED
        BY <3>1, <3>2, <3>3, <3>5, <3>6
    <2>3. ASSUME Offered(esp8266_recv_len[cmd.link])
          PROVE  Offered(esp8266_recv_len[cmd.link])'
      <3>1. PICK x : x = esp8266_recv_len[cmd.link]
        OBVIOUS
      <3>2. Offered(x)
        BY <2>3, <3>1
      <3>3. Offered(x)'
        BY <2>1, <3>2
      <3> QED
        BY <3>1, <3>3 DEF Offered
    <2> QED
      BY <1>2, <2>2, <2>3 DEF Counts
  <1>6. Reads'
    <2>1. ASSUME NEW k, Continues(net, k)
          PROVE  Continues(net, k)'
      BY <2>1, ContinuesStays, <1>3 DEF Continues, Open, Calm
    <2> QED
      BY <1>2, <2>1 DEF Reads, NoBytes, TheBytes, OwnIsOld
  <1>7. \A n \in Net : Flow(n)'
    BY <1>2, FlowStays DEF InUse, Reading
  <1> QED
    BY <1>4, <1>5, <1>6, <1>7

LEMMA PeersStreams ==
  ASSUME Base, Base', Keeps, Streams, NEW l \in Link, PeerSends(l) \/ PeerCloses(l)
  PROVE  Streams'
  <1>1. /\ UNCHANGED <<cmd, result, net, handle, up, esp8266_recv_len, ring_tcp, received, conn_of>>
        /\ UNCHANGED <<late, mixed, crossed>>
    BY DEF PeerSends, PeerCloses
  <1>2. \A k : Calm(k)
    <2>1. \A k \in Link : Calm(k)
      BY PeersLinks DEF Base
    <2> QED
      BY <2>1 DEF Calm
  <1>3. OwnIsOld
    <2>1. CASE PeerSends(l)
      BY <2>1 DEF PeerSends, OwnIsOld
    <2>2. CASE PeerCloses(l)
      <3>1. /\ uart' = Append(uart, [text |-> "CLOSED", own |-> FALSE, arg |-> <<>>])
            /\ uart \in Seq(Lines)
        BY <2>2 DEF PeerCloses, Base, Types
      <3>2. Len(uart) \in Nat
        BY ONLY <3>1
      <3>3. /\ Len(uart') = Len(uart) + 1 /\ \A i \in 1..Len(uart) : uart'[i] = uart[i]
            /\ uart'[Len(uart) + 1] = [text |-> "CLOSED", own |-> FALSE, arg |-> <<>>]
        <4>1. [text |-> "CLOSED", own |-> FALSE, arg |-> <<>>] \in Lines
          BY NoWords DEF Lines, Texts
        <4> QED
          BY ONLY <3>1, <4>1, AppendProperties
      <3>4. ASSUME NEW i \in 1..Len(uart'), uart'[i].own
            PROVE  \E j \in 1..Len(uart) : uart'[i] = uart[j]
        <4>1. i # Len(uart) + 1
          BY <3>3, <3>4
        <4>2. i \in 1..Len(uart)
          BY ONLY <3>2, <3>3, <4>1, i \in 1..Len(uart')
        <4> QED
          BY <3>3, <4>2
      <3> QED
        BY <3>4 DEF OwnIsOld
    <2> QED
      BY <2>1, <2>2
  <1>4. Straight' => Straight
    BY <1>1 DEF Straight
  <1> QED
    BY <1>1, <1>2, <1>3, <1>4, QuietStreams DEF Base

(* A step to a command that neither opens a link nor reads, or to none. *)
LEMMA OtherStreams ==
  ASSUME Base, Streams, Straight' => Straight,
         cmd.name # "CIPRECVDATA",
         cmd'.name \notin {"CIPSTART", "CIPRECVLEN", "CIPRECVDATA", "CIPRECVMODE"},
         \A n \in Net : up'[n] => /\ InUse(n) /\ handle'[n] = handle[n]
                                  /\ ring_tcp'[handle[n] - 1] = ring_tcp[handle[n] - 1],
         UNCHANGED <<received, conn_of>>, \A k \in Link : Calm(k)
  PROVE  Streams'
  <1>1. SUFFICES ASSUME Straight'
                 PROVE  (Starts /\ Counts /\ Reads)' /\ \A n \in Net : Flow(n)'
    BY DEF Streams
  <1>2. (Starts /\ Counts /\ Reads)'
    BY DEF Starts, Counts, Reads
  <1>3. \A n \in Net : Flow(n)
    BY <1>1 DEF Streams
  <1>4. ASSUME NEW n \in Net
        PROVE  Flow(n)'
    <2>1. Calm(handle[n] - 1) /\ ~Reading(n) /\ (InUse(n)' => up'[n])
      BY DEF Calm, Reading, InUse
    <2> QED
      BY <1>3, <2>1, FlowStays
  <1> QED
    BY <1>2, <1>4

LEMMA TailIsOld ==
  ASSUME uart \in Seq(Lines), uart # <<>>, uart' = Tail(uart)
  PROVE  OwnIsOld
  <1>1. Len(uart) \in Nat
    OBVIOUS
  <1>2. Len(uart') = Len(uart) - 1 /\ \A i \in 1..(Len(uart) - 1) : uart'[i] = uart[i + 1]
    BY ONLY <1>1, uart \in Seq(Lines), uart # <<>>, uart' = Tail(uart), HeadTailProperties
  <1>3. ASSUME NEW i \in 1..Len(uart')
        PROVE  i + 1 \in 1..Len(uart) /\ uart'[i] = uart[i + 1]
    BY ONLY <1>1, <1>2, i \in 1..Len(uart')
  <1> QED
    BY <1>3 DEF OwnIsOld

(* In straight runs a command is ended by its own answer, in time. *)
LEMMA EndsStraight ==
  ASSUME Types, uart # <<>>, NEW r, Ends(r, uart[1]), crossed' = crossed, Straight'
  PROVE  Straight /\ uart[1].own /\ result' = r
  <1>1. late \in BOOLEAN /\ mixed \in BOOLEAN /\ uart[1].own \in BOOLEAN
    <2>1. uart \in Seq(Lines) /\ late \in BOOLEAN /\ mixed \in BOOLEAN
      BY DEF Types
    <2>2. uart[1] \in Lines
      BY ONLY <2>1, uart # <<>>
    <2> QED
      BY <2>1, <2>2 DEF Lines
  <1>2. /\ mixed' = (mixed \/ ~uart[1].own)
        /\ (result' = r /\ late' = late) \/ late' = TRUE
    BY DEF Ends
  <1>3. late' # TRUE /\ ~mixed' /\ ~crossed
    BY DEF Straight
  <1> QED
    BY ONLY <1>1, <1>2, <1>3 DEF Straight

(* A line that ends no command, or ends it as a failure would: it is the   *)
(* answer to a query for bytes only if there were none.                    *)
LEMMA ResponseStreams ==
  ASSUME Base, Base', Streams, client_parser_Response
  PROVE  Streams'
  <1>1. /\ UNCHANGED <<cmd, net, handle, up, esp8266_recv_len, ring_tcp, received, conn_of>>
        /\ UNCHANGED <<modem, crossed>>
        /\ uart # <<>> /\ uart' = Tail(uart) /\ cmd.name # "none" /\ result = "NONE"
    BY DEF client_parser_Response, Waiting
  <1>2. uart \in Seq(Lines) /\ 1 \in 1..Len(uart)
    <2>1. uart \in Seq(Lines)
      BY DEF Base, Types
    <2> QED
      BY ONLY <1>1, <2>1
  <1>3. OwnIsOld /\ \A k : Calm(k)
    <2>1. OwnIsOld
      BY <1>1, <1>2, TailIsOld
    <2>2. \A k : Calm(k)
      BY <1>1, SameIsCalm DEF Base
    <2> QED
      BY <2>1, <2>2
  <1>4. CASE UNCHANGED <<result, mixed, late>>
    <2>1. Straight' => Straight
      BY <1>1, <1>4 DEF Straight
    <2> QED
      BY <1>1, <1>3, <1>4, <2>1, QuietStreams DEF Base
  <1>5. ASSUME NEW r, Ends(r, uart[1]),
               \/ r = "SUCCESS" /\ Success(uart[1].text)
               \/ r = "FAILURE" /\ uart[1].text = "ERROR"
        PROVE  Streams'
    <2>1. SUFFICES ASSUME Straight'
                   PROVE  (Starts /\ Counts /\ Reads)' /\ \A n \in Net : Flow(n)'
      BY DEF Streams
    <2>2. Straight /\ uart[1].own /\ result' = r
      BY <1>1, <1>5, <2>1, EndsStraight DEF Base
    <2>3. Starts /\ Counts /\ Reads /\ \A n \in Net : Flow(n)
      BY <2>2 DEF Streams
    <2>4. Starts'
      <3>1. cmd.name = "CIPSTART" => r = "FAILURE"
        BY <1>1, <1>2, <1>5, <2>2, <2>3 DEF Starts, Success, custom_flag
      <3> QED
        BY <1>1, <1>5, <2>2, <2>3, <3>1 DEF Starts
    <2>5. Counts'
      <3>1. cmd.name # "CIPRECVLEN"
        BY <1>1, <1>2, <1>5, <2>2, <2>3 DEF Counts, Success, custom_flag
      <3> QED
        BY <1>1, <3>1 DEF Counts
    <2>6. Reads'
      <3>1. SUFFICES ASSUME cmd.name = "CIPRECVDATA", handle[net] <= Buffers
                     PROVE  Reads'
        BY <1>1 DEF Reads
      <3>2. ring_tcp[cmd.link] = <<>> /\ (NoBytes \/ TheBytes)
        BY <1>1, <2>3, <3>1 DEF Reads
      <3>3. NoBytes /\ Continues(net, 0)
        BY <1>2, <1>5, <2>2, <3>1, <3>2 DEF NoBytes, TheBytes, Success, custom_flag
      <3>4. Run(ring_tcp[cmd.link], conn_of[net], Len(received[net]))
        BY <3>2, RunOfNone
      <3>5. Len(ring_tcp[cmd.link]) = 0 /\ 0 <= cmd.len
        <4>1. cmd.len \in Nat /\ Len(<<>>) = 0
          BY DEF Base, Types
        <4> QED
          BY <3>2, <4>1
      <3>6. Continues(net, 0)'
        BY <1>1, <3>3 DEF Continues, Open
      <3> QED
        BY <1>1, <1>5, <2>2, <3>4, <3>5, <3>6 DEF Reads
    <2>7. \A n \in Net : Flow(n)'
      BY <1>1, <1>3, <2>3, FlowStays DEF InUse, Reading
    <2> QED
      BY <2>4, <2>5, <2>6, <2>7
  <1> QED
    BY <1>4, <1>5 DEF client_parser_Response

(* Two networks that are connected use two links. *)
LEMMA Apart ==
  ASSUME Base, Owned, Straight, cmd.name \in Transfer, NEW n \in Net, up[n], n # net
  PROVE  handle[n] - 1 # cmd.link /\ handle[n] - 1 \in Link
  <1>1. up[net] /\ handle[net] = cmd.link + 1 /\ net \in Net
    BY DEF Base, Room, Types
  <1>2. handle[n] # handle[net]
    BY <1>1 DEF Owned, Straight
  <1>3. /\ (handle[n] - 1) + 1 = handle[n] /\ handle[n] - 1 \in Link
    BY HandlesAreLinks DEF Base
  <1> QED
    BY <1>1, <1>2, <1>3

LEMMA TransferLink ==
  ASSUME Base, cmd.name \in Transfer
  PROVE  /\ cmd.link \in Link /\ up[net] /\ handle[net] = cmd.link + 1 /\ net \in Net
         /\ handle[net] - 1 = cmd.link
         /\ handle[net] <= Buffers => cmd.link < Buffers
  <1>1. /\ up[net] /\ handle[net] = cmd.link + 1 /\ net \in Net
        /\ cmd.link \in -1 .. MAX_LINK - 1
    BY DEF Base, Room, Types
  <1>2. handle[net] - 1 = cmd.link
    BY ONLY <1>1, LinkNumbers
  <1>3. cmd.link \in Link
    BY <1>1, <1>2, HandlesAreLinks DEF Base
  <1>4. handle[net] <= Buffers => cmd.link < Buffers
    BY ONLY <1>1, LinkNumbers, AtAssumption
  <1> QED
    BY <1>1, <1>2, <1>3, <1>4

(* As many bytes as were asked for go to the buffer as they came. *)
LEMMA PushedWhole ==
  ASSUME NEW line \in Lines, cmd.len \in Nat, Len(line.arg) = cmd.len
  PROVE  Pushed(line) = line.arg
  <1>1. line.arg \in Words
    BY DEF Lines
  <1>2. cmd.len - Len(line.arg) = 0
    OBVIOUS
  <1>3. [i \in 1..0 |-> <<0, 0>>] = <<>>
    OBVIOUS
  <1>4. Pushed(line) = line.arg \o <<>>
    BY <1>2, <1>3 DEF Pushed
  <1> QED
    BY <1>1, <1>4, ConcatEmptySeq DEF Words

(* A line that ends the command as it should. *)
LEMMA UrcStreams ==
  ASSUME Base, Base', Owned, Streams, client_parser_Urc
  PROVE  Streams'
  <1> DEFINE line == uart[1]
  <1>1. /\ UNCHANGED <<cmd, net, handle, up, received, conn_of, modem, crossed>>
        /\ uart # <<>> /\ cmd.name # "none" /\ result = "NONE"
        /\ Urc(line.text, Next_Text) /\ Ends("SUCCESS", line)
        /\ esp8266_recv_len' = IF line.text = "LEN"
                               THEN [l \in Link |-> line.arg[l + 1]]
                               ELSE esp8266_recv_len
        /\ ring_tcp' = IF line.text = "DATA" /\ cmd.link < Buffers
                       THEN [ring_tcp EXCEPT ![cmd.link] = @ \o Pushed(line)]
                       ELSE ring_tcp
    BY DEF client_parser_Urc, Waiting
  <1>2. line \in Lines /\ 1 \in 1..Len(uart) /\ cmd.len \in Nat /\ ring_tcp \in [Link -> Words]
    <2>1. uart \in Seq(Lines) /\ cmd.len \in Nat /\ ring_tcp \in [Link -> Words]
      BY DEF Base, Types
    <2>2. uart[1] \in Lines /\ 1 \in 1..Len(uart)
      BY ONLY <1>1, <2>1
    <2> QED
      BY <2>1, <2>2
  <1>3. SUFFICES ASSUME Straight'
                 PROVE  (Starts /\ Counts /\ Reads)' /\ \A n \in Net : Flow(n)'
    BY DEF Streams
  <1>4. Straight /\ line.own /\ result' = "SUCCESS"
    BY <1>1, <1>3, EndsStraight DEF Base
  <1>5. Starts /\ Counts /\ Reads /\ \A n \in Net : Flow(n)
    BY <1>4 DEF Streams
  <1>6. \A k : Calm(k)
    BY <1>1, SameIsCalm DEF Base
  <1> HIDE DEF line
  <1>u. uart[1] = line
    BY DEF line
  <1>7. Starts'
    <2>1. SUFFICES ASSUME cmd.name = "CIPSTART"
                   PROVE  Starts'
      BY <1>1 DEF Starts
    <2>2. line.text = "CONNECT"
      BY <1>1, <2>1 DEF Urc
    <2>3. Unread(cmd.link)
      BY <1>1, <1>2, <1>4, <1>5, <1>u, <2>1, <2>2 DEF Starts
    <2>4. Unread(cmd.link)'
      BY <1>1, <2>3 DEF Unread, Open
    <2>5. cmd.link < Buffers => ring_tcp'[cmd.link] = <<>>
      BY <1>1, <1>5, <2>1, <2>2 DEF Starts
    <2> QED
      BY <1>1, <1>4, <2>4, <2>5 DEF Starts
  <1>8. Counts'
    <2>1. SUFFICES ASSUME cmd.name = "CIPRECVLEN"
                   PROVE  Counts'
      BY <1>1 DEF Counts
    <2>2. line.text = "LEN"
      BY <1>1, <2>1 DEF Urc
    <2>3. Offered(line.arg[cmd.link + 1])
      BY <1>1, <1>2, <1>4, <1>5, <1>u, <2>1, <2>2 DEF Counts
    <2>4. esp8266_recv_len'[cmd.link] = line.arg[cmd.link + 1]
      BY <1>1, <2>1, <2>2, TransferLink DEF Transfer
    <2>5. PICK x : x = line.arg[cmd.link + 1]
      OBVIOUS
    <2>6. Offered(x)'
      BY <1>1, <2>3, <2>5 DEF Offered, Open
    <2>7. Offered(esp8266_recv_len[cmd.link])'
      BY <1>1, <2>4, <2>5, <2>6 DEF Offered
    <2> QED
      BY <1>1, <1>4, <2>7 DEF Counts
  <1>9. CASE cmd.name = "CIPRECVDATA"
    <2>0. line.text = "DATA"
      BY <1>1, <1>9 DEF Urc
    <2>1. /\ cmd.link \in Link /\ net \in Net
          /\ handle[net] <= Buffers => cmd.link < Buffers
      BY <1>9, TransferLink DEF Transfer
    <2>2. Reads'
      <3>1. SUFFICES ASSUME handle[net] <= Buffers
                     PROVE  Reads'
        BY <1>1 DEF Reads
      <3>2. ring_tcp[cmd.link] = <<>> /\ (NoBytes \/ TheBytes)
        BY <1>1, <1>5, <1>9, <3>1 DEF Reads
      <3>3. /\ Continues(net, cmd.len) /\ Len(line.arg) = cmd.len
            /\ Run(line.arg, conn_of[net], Len(received[net]))
        BY <1>2, <1>4, <1>u, <2>0, <3>2 DEF NoBytes, TheBytes
      <3>4. Pushed(line) = line.arg /\ line.arg \in Words
        BY <1>2, <3>3, PushedWhole DEF Lines
      <3>5. ring_tcp'[cmd.link] = <<>> \o line.arg
        <4>1. ring_tcp' = [ring_tcp EXCEPT ![cmd.link] = ring_tcp[cmd.link] \o Pushed(line)]
          BY <1>1, <2>0, <2>1, <3>1
        <4>2. ring_tcp'[cmd.link] = ring_tcp[cmd.link] \o Pushed(line)
          BY ONLY <1>2, <2>1, <4>1, <3>1
        <4> QED
          BY ONLY <3>2, <3>4, <4>2
      <3>6. ring_tcp'[cmd.link] = line.arg
        BY <3>4, <3>5, ConcatEmptySeq DEF Words
      <3>7. Continues(net, Len(ring_tcp[cmd.link]))'
        BY <1>1, <3>3, <3>6 DEF Continues, Open
      <3>8. Run(ring_tcp'[cmd.link], conn_of'[net'], Len(received'[net']))
        BY <1>1, <3>3, <3>6
      <3>9. Len(ring_tcp'[cmd.link]) <= cmd.len
        BY <1>2, <3>3, <3>6
      <3> QED
        BY <1>1, <1>4, <3>7, <3>8, <3>9 DEF Reads
    <2>3. ASSUME NEW n \in Net
          PROVE  Flow(n)'
      <3>1. CASE n = net
        BY <1>1, <1>5, <1>9, <3>1, FlowStays DEF InUse, Reading
      <3>2. CASE n # net
        <4>1. SUFFICES ASSUME up[n]
                       PROVE  Flow(n)'
          BY <1>1, <1>9, <3>2 DEF Flow, InUse
        <4>2. handle[n] - 1 # cmd.link /\ handle[n] - 1 \in Link
          BY <1>4, <1>9, <3>2, <4>1, Apart DEF Transfer
        <4>3. ring_tcp'[handle[n] - 1] = ring_tcp[handle[n] - 1]
          BY <1>1, <1>2, <4>2
        <4> QED
          BY <1>1, <1>5, <1>6, <1>9, <3>2, <4>1, <4>3, FlowStays DEF InUse, Reading
      <3> QED
        BY <3>1, <3>2
    <2> QED
      BY <1>7, <1>8, <2>2, <2>3
  <1>10. CASE cmd.name # "CIPRECVDATA"
    <2>1. line.text # "DATA"
      BY <1>1, <1>10 DEF Urc
    <2>2. Reads'
      BY <1>1, <1>10 DEF Reads
    <2>3. \A n \in Net : Flow(n)'
      BY <1>1, <1>5, <1>6, <2>1, FlowStays DEF InUse, Reading
    <2> QED
      BY <1>7, <1>8, <2>2, <2>3
  <1> QED
    BY <1>9, <1>10

(* The start of a connection takes a link that no network uses. *)
LEMMA StartLinkStreams ==
  ASSUME Base, Base', Keeps, Owned, Streams, Free # {}, StartLink, Straight' => Straight,
         cmd.name \in ToSet(Startup) \cup {"none"},
         UNCHANGED <<up, received, conn_of>>,
         \A n \in Net : up[n] => handle'[n] = handle[n]
  PROVE  Streams'
  <1>1. /\ cmd'.name = "CIPSTART" /\ result' = "NONE"
        /\ cmd'.link \in Link /\ ~esp8266_link[cmd'.link]
        /\ Keeps' /\ \A k \in Link : k # cmd'.link => Calm(k) /\ ring_tcp'[k] = ring_tcp[k]
        /\ cmd'.link < Buffers => ring_tcp'[cmd'.link] = <<>>
        /\ \/ TwoSent("CONNECT", "OK") /\ Given(modem'[cmd'.link]) = 0
           \/ OneSent("ERROR")
    BY StartLinkIs
  <1>2. SUFFICES ASSUME Straight'
                 PROVE  (Starts /\ Counts /\ Reads)' /\ \A n \in Net : Flow(n)'
    BY DEF Streams
  <1>3. (Counts /\ Reads)'
    BY <1>1 DEF Counts, Reads
  <1>4. uart \in Seq(Lines) /\ Len(uart) \in Nat
    BY TypesGive DEF Base
  <1>5. Starts'
    <2>1. ASSUME NEW i \in 1..Len(uart'), uart'[i].own
          PROVE  \/ uart'[i].text \in {"OK", "ERROR"}
                 \/ uart'[i].text = "CONNECT" /\ Unread(cmd.link)'
      <3>1. CASE TwoSent("CONNECT", "OK") /\ Given(modem'[cmd'.link]) = 0
        <4>1. i \in 1..Len(uart) \/ i = Len(uart) + 1 \/ i = Len(uart) + 2
          BY <1>4, <3>1 DEF TwoSent
        <4> QED
          BY <2>1, <3>1, <4>1 DEF TwoSent, Unread
      <3>2. CASE OneSent("ERROR")
        <4>1. i \in 1..Len(uart) \/ i = Len(uart) + 1
          BY <1>4, <3>2 DEF OneSent
        <4> QED
          BY <2>1, <3>2, <4>1 DEF OneSent
      <3> QED
        BY <1>1, <3>1, <3>2
    <2> QED
      BY <1>1, <2>1 DEF Starts
  <1>6. ASSUME NEW n \in Net
        PROVE  Flow(n)'
    <2>1. SUFFICES ASSUME up[n]
                   PROVE  Flow(n)'
      BY <1>1 DEF Flow, InUse
    <2>2. esp8266_link[handle[n] - 1] /\ handle[n] - 1 \in Link
      BY <1>2, <2>1, HandlesAreLinks DEF Owned, Straight, Base
    <2>3. handle[n] - 1 # cmd'.link
      BY <1>1, <2>2
    <2>4. ring_tcp'[handle[n] - 1] = ring_tcp[handle[n] - 1] /\ Calm(handle[n] - 1)
      BY <1>1, <2>2, <2>3
    <2>5. Flow(n) /\ ~Reading(n) /\ InUse(n)
      BY <1>2, <2>1, StartupNames DEF Streams, Reading, InUse
    <2> QED
      BY <2>1, <2>4, <2>5, FlowStays
  <1> QED
    BY <1>3, <1>5, <1>6

LEMMA ConnectStreams ==
  ASSUME Base, Base', Keeps, Owned, Streams, NEW n \in Net, HAL_AT_TCP_Connect(n)
  PROVE  Streams'
  <1>1. /\ cmd.name = "none" /\ ~up[n] /\ Free # {}
        /\ UNCHANGED <<up, received, conn_of, faults>>
        /\ handle' = IF n \in HttpNet THEN [handle EXCEPT ![n] = 0] ELSE handle
    BY DEF HAL_AT_TCP_Connect, Idle
  <1>2. Straight' => Straight
    BY <1>1 DEF Straight
  <1>3. \A m \in Net : up[m] => handle'[m] = handle[m]
    BY <1>1 DEF Base, Types
  <1>4. CASE StartLink
    BY <1>1, <1>2, <1>3, <1>4, StartLinkStreams
  <1>5. CASE SetupStep
    <2>1. cmd'.name \notin {"CIPSTART", "CIPRECVLEN", "CIPRECVDATA", "CIPRECVMODE"}
      BY <1>5, StartupNames DEF SetupStep
    <2>2. \A k \in Link : Calm(k)
      BY <1>5, SameLinks DEF SetupStep, Base
    <2>3. ring_tcp' = ring_tcp
      BY <1>5 DEF SetupStep
    <2> QED
      BY <1>1, <1>2, <1>3, <2>1, <2>2, <2>3, OtherStreams DEF InUse
  <1> QED
    BY <1>4, <1>5, ConnectIs

LEMMA InitStreams ==
  ASSUME Base, Base', Keeps, Owned, Streams, esp8266_init
  PROVE  Streams'
  <1>1. /\ Free # {} /\ (StartLink \/ SetupStep)
        /\ cmd.name \in ToSet(Startup)
        /\ UNCHANGED <<net, handle, up, esp8266_link, received, conn_of, faults>>
    BY InitIs
  <1>2. Straight' => Straight
    BY <1>1 DEF Straight
  <1>4. CASE StartLink
    BY <1>1, <1>2, <1>4, StartLinkStreams
  <1>5. CASE SetupStep
    <2>1. cmd'.name \notin {"CIPSTART", "CIPRECVLEN", "CIPRECVDATA", "CIPRECVMODE"}
      BY <1>5, StartupNames DEF SetupStep
    <2>2. \A k \in Link : Calm(k)
      BY <1>5, SameLinks DEF SetupStep, Base
    <2>3. ring_tcp' = ring_tcp /\ cmd.name # "CIPRECVDATA"
      BY <1>1, <1>5, StartupNames DEF SetupStep
    <2> QED
      BY <1>1, <1>2, <2>1, <2>2, <2>3, OtherStreams DEF InUse
  <1> QED
    BY <1>1, <1>4, <1>5

(* A connection begins with nothing read and nothing given away. *)
LEMMA StartedStreams ==
  ASSUME Base, Base', Keeps, Owned, Streams, HAL_AT_TCP_Connect_Started
  PROVE  Streams'
  <1>1. /\ cmd.name = "CIPSTART" /\ result = "SUCCESS" /\ cmd'.name = "CIPRECVMODE"
        /\ cmd'.link = cmd.link /\ net' = net
        /\ handle' = [handle EXCEPT ![net] = cmd.link + 1]
        /\ received' = [received EXCEPT ![net] = <<>>]
        /\ conn_of' = [conn_of EXCEPT ![net] = modem[cmd.link].conn]
        /\ UNCHANGED <<up, ring_tcp, faults>>
    BY DEF HAL_AT_TCP_Connect_Started, After, Exec
  <1>2. modem' = modem /\ \A k : Calm(k)
    <2>1. modem' = modem
      BY StillLinks DEF StillStep, Base
    <2> QED
      BY <2>1, SameIsCalm DEF Base
  <1>3. /\ cmd.link \in Link /\ ~up[net] /\ net \in Net
        /\ handle \in [Net -> 0..MAX_LINK] /\ received \in [Net -> Words]
        /\ conn_of \in [Net -> Nat]
    BY <1>1 DEF Base, Room, Connecting, Types
  <1>4. SUFFICES ASSUME Straight'
                 PROVE  (Starts /\ Counts /\ Reads)' /\ \A n \in Net : Flow(n)'
    BY DEF Streams
  <1>5. Starts /\ \A n \in Net : Flow(n)
    BY <1>1, <1>4 DEF Streams, Straight
  <1>6. (Starts /\ Counts /\ Reads)'
    BY <1>1 DEF Starts, Counts, Reads
  <1>7. ASSUME NEW n \in Net
        PROVE  Flow(n)'
    <2>1. CASE n = net
      <3>1. handle'[n] = cmd.link + 1 /\ received'[n] = <<>>
            /\ conn_of'[n] = modem[cmd.link].conn
        BY <1>1, <1>3, <2>1
      <3>2. handle'[n] - 1 = cmd.link
        BY ONLY <1>3, <3>1, LinkNumbers
      <3>3. Unread(cmd.link)
        BY <1>1, <1>5 DEF Starts
      <3>4. Continues(n, 0)'
        <4>1. SUFFICES ASSUME modem[cmd.link].conn # 0
                       PROVE  Given(modem[cmd.link]) = Len(<<>>) + 0
          BY <1>1, <1>2, <1>3, <3>1, <3>2 DEF Continues, Open
        <4>2. Given(modem[cmd.link]) = 0
          BY <1>3, <3>3, <4>1 DEF Unread, Open
        <4> QED
          BY ONLY <4>2
      <3>5. handle'[n] <= Buffers => ring_tcp'[handle'[n] - 1] = <<>>
        <4>1. cmd.link + 1 <= Buffers => cmd.link < Buffers
          BY ONLY <1>3, LinkNumbers, AtAssumption
        <4> QED
          BY <1>1, <1>5, <3>1, <3>2, <4>1 DEF Starts
      <3>6. Run(received'[n], conn_of'[n], 0)
        BY <3>1, RunOfNone
      <3> QED
        BY <3>4, <3>5, <3>6 DEF Flow, Settled
    <2>2. CASE n # net
      <3>1. handle'[n] = handle[n] /\ received'[n] = received[n] /\ conn_of'[n] = conn_of[n]
        BY <1>1, <1>3, <2>2
      <3>2. InUse(n)' => InUse(n) /\ ~Reading(n)
        BY <1>1, <2>2 DEF InUse, Reading
      <3> QED
        BY <1>1, <1>2, <1>5, <3>1, <3>2, FlowStays
    <2> QED
      BY <2>1, <2>2
  <1> QED
    BY <1>6, <1>7

LEMMA DisconnectStreams ==
  ASSUME Base, Base', Keeps, Streams, NEW n \in Net, Disconnect(n)
  PROVE  Streams'
  <1>1. HAL_AT_TCP_Disconnect(n) /\ cmd.name # "CIPRECVDATA"
    BY DEF Disconnect, Idle, After
  <1>2. /\ up' = [up EXCEPT ![n] = FALSE] /\ up \in [Net -> BOOLEAN]
        /\ UNCHANGED <<handle, ring_tcp, received, conn_of, late, mixed>>
    BY <1>1 DEF HAL_AT_TCP_Disconnect, Base, Types
  <1>3. /\ cmd'.name \notin {"CIPSTART", "CIPRECVLEN", "CIPRECVDATA", "CIPRECVMODE"}
        /\ ~crossed' => ~crossed
    <2>1. CASE /\ Exec("CIPCLOSE", handle[n] - 1, 0)
               /\ crossed' = (crossed \/ \E m \in Net \ {n} : up[m] /\ handle[m] = handle[n])
      BY <2>1 DEF Exec
    <2>2. CASE Done /\ crossed' = crossed
      BY <2>2 DEF Done, NoCmd
    <2> QED
      BY <1>1, <2>1, <2>2 DEF HAL_AT_TCP_Disconnect
  <1>4. \A k \in Link : Calm(k)
    BY <1>1, DisconnectLinks DEF Base
  <1>5. Straight' => Straight
    BY <1>2, <1>3 DEF Straight
  <1>6. \A m \in Net : up'[m] => InUse(m)
    BY <1>2 DEF InUse
  <1> QED
    BY <1>1, <1>2, <1>3, <1>4, <1>5, <1>6, OtherStreams

(* The steps after which no connection has been read from, or opened. *)
LEMMA PlainStreams ==
  ASSUME Base, Base', Keeps, Streams,
         \/ HAL_AT_TCP_Connect_Returns \/ HAL_AT_TCP_Disconnect_Returns
         \/ HAL_AT_Write_Tcp_Returns \/ HAL_AT_Write_Tcp_Data
         \/ \E n \in Net : HAL_AT_Write_Tcp(n)
  PROVE  Streams'
  <1>1. \A k \in Link : Calm(k)
    BY StillLinks, SameLinks DEF StillStep, Base
  <1>2. /\ UNCHANGED <<handle, ring_tcp, received, conn_of, faults>>
        /\ cmd.name # "CIPRECVDATA"
        /\ cmd'.name \in {"none", "data", "CIPSEND"}
    BY DEF HAL_AT_TCP_Connect_Returns, HAL_AT_TCP_Disconnect_Returns, HAL_AT_Write_Tcp_Returns,
           HAL_AT_Write_Tcp_Data, HAL_AT_Write_Tcp, Idle, After, Exec, Done, NoCmd
  <1>3. \A m \in Net : up'[m] => InUse(m)
    <2>1. CASE HAL_AT_TCP_Connect_Returns
      BY <2>1 DEF HAL_AT_TCP_Connect_Returns, After, InUse, Base, Types
    <2>2. CASE up' = up
      BY <2>2 DEF InUse
    <2> QED
      BY <2>1, <2>2 DEF HAL_AT_TCP_Disconnect_Returns, HAL_AT_Write_Tcp_Returns,
                        HAL_AT_Write_Tcp_Data, HAL_AT_Write_Tcp
  <1>4. Straight' => Straight
    BY <1>2 DEF Straight
  <1> QED
    BY <1>1, <1>2, <1>3, <1>4, OtherStreams

(* The answer to the query tells what is there. *)
LEMMA QueryStreams ==
  ASSUME Base, Base', Keeps, Streams,
         NEW n \in Net, NEW len \in 1..2, HAL_AT_Read_Tcp(n, len)
  PROVE  Streams'
  <1>1. /\ cmd.name = "none" /\ up[n] /\ cmd'.name = "CIPRECVLEN" /\ result' = "NONE"
        /\ cmd'.link = handle[n] - 1 /\ Module_CIPRECVLEN
        /\ UNCHANGED <<handle, up, ring_tcp, received, conn_of, faults>>
    BY DEF HAL_AT_Read_Tcp, Idle, Exec
  <1>2. /\ modem' = modem
        /\ \A i \in 1..Len(uart') : uart'[i].own =>
             \/ /\ uart'[i].text = "LEN"
                /\ \A l \in Link : uart'[i].arg[l + 1] = Len(modem[l].kept)
             \/ uart'[i].text = "OK"
    BY <1>1, LengthSends, TypesGive DEF Base
  <1>3. \A k : Calm(k)
    BY <1>2, SameIsCalm DEF Base
  <1>4. cmd'.link \in Link /\ Len(modem[cmd'.link].kept) \in Nat
    <2>1. cmd'.link \in Link
      BY <1>1, HandlesAreLinks DEF Base
    <2>2. modem[cmd'.link] \in Links_
      BY <2>1 DEF Base, Types
    <2> QED
      BY ONLY <2>1, <2>2 DEF Links_
  <1>5. SUFFICES ASSUME Straight'
                 PROVE  (Starts /\ Counts /\ Reads)' /\ \A m \in Net : Flow(m)'
    BY DEF Streams
  <1>6. (Starts /\ Reads)'
    BY <1>1 DEF Starts, Reads
  <1>7. Counts'
    <2>1. ASSUME NEW i \in 1..Len(uart'), uart'[i].own
          PROVE  \/ uart'[i].text = "OK"
                 \/ uart'[i].text = "LEN" /\ Offered(uart[i].arg[cmd.link + 1])'
      <3>1. CASE uart'[i].text = "OK"
        BY <3>1
      <3>2. CASE uart'[i].text = "LEN" /\ \A l \in Link : uart'[i].arg[l + 1] = Len(modem[l].kept)
        <4>1. uart'[i].arg[cmd'.link + 1] = Len(modem'[cmd'.link].kept)
          BY <1>2, <1>4, <3>2
        <4>2. PICK x : x = uart'[i].arg[cmd'.link + 1]
          OBVIOUS
        <4>3. x \in Nat /\ x <= Len(modem'[cmd'.link].kept)
          BY <1>2, <1>4, <4>1, <4>2
        <4>4. Offered(uart[i].arg[cmd.link + 1])'
          BY <4>2, <4>3 DEF Offered
        <4> QED
          BY <3>2, <4>4
      <3> QED
        BY <1>2, <2>1, <3>1, <3>2
    <2> QED
      BY <1>1, <2>1 DEF Counts
  <1>8. \A m \in Net : Flow(m)'
    <2>1. \A m \in Net : Flow(m)
      BY <1>1, <1>5 DEF Streams, Straight
    <2> QED
      BY <1>1, <1>3, <2>1, FlowStays DEF InUse, Reading
  <1> QED
    BY <1>6, <1>7, <1>8

(* What is asked for is there, and comes next. *)
LEMMA AskedStreams ==
  ASSUME Base, Base', Keeps, Owned, Streams, HAL_AT_Read_Tcp_Asked
  PROVE  Streams'
  <1>1. /\ cmd.name = "CIPRECVLEN" /\ result # "NONE" /\ net' = net
        /\ UNCHANGED <<handle, up, ring_tcp, received, conn_of, faults>>
    BY DEF HAL_AT_Read_Tcp_Asked, After
  <1>2. Straight' => Straight
    BY <1>1 DEF Straight
  <1>3. CASE ~Enough
    <2>1. cmd' = NoCmd /\ modem' = modem
      BY <1>3 DEF HAL_AT_Read_Tcp_Asked, Done
    <2>2. \A k \in Link : Calm(k)
      BY <2>1, SameLinks DEF Base
    <2> QED
      BY <1>1, <1>2, <2>1, <2>2, OtherStreams DEF NoCmd, InUse
  <1>4. CASE Enough
    <2>1. /\ cmd'.name = "CIPRECVDATA" /\ cmd'.link = cmd.link /\ cmd'.len = cmd.len
          /\ result' = "NONE" /\ Module_CIPRECVDATA(cmd.link, cmd.len)
      BY <1>4 DEF HAL_AT_Read_Tcp_Asked, Exec
    <2>2. /\ cmd.link \in Link /\ up[net] /\ handle[net] = cmd.link + 1 /\ net \in Net
          /\ handle[net] - 1 = cmd.link /\ cmd.len \in Nat
      BY <1>1, TransferLink DEF Transfer, Base, Types
    <2>3. SUFFICES ASSUME Straight'
                   PROVE  (Starts /\ Counts /\ Reads)' /\ \A n \in Net : Flow(n)'
      BY DEF Streams
    <2>4. Straight /\ Counts /\ \A n \in Net : Flow(n)
      BY <1>2, <2>3 DEF Streams
    <2>5. (Starts /\ Counts)'
      BY <2>1 DEF Starts, Counts
    <2>6. /\ \A k \in Link \ {cmd.link} : Calm(k)
          /\ \/ OneSent("ERROR") /\ modem' = modem
             \/ \E k \in 0..cmd.len :
                  /\ Open(cmd.link) /\ k = Min({cmd.len, Len(modem[cmd.link].kept)})
                  /\ modem'[cmd.link].conn = modem[cmd.link].conn
                  /\ Given(modem'[cmd.link]) = Given(modem[cmd.link]) + k
                  /\ \A i \in 1..Len(uart') : uart'[i].own =>
                       \/ uart'[i].text = "OK"
                       \/ /\ uart'[i].text = "DATA" /\ Len(uart'[i].arg) = k
                          /\ Run(uart'[i].arg, modem[cmd.link].conn, Given(modem[cmd.link]))
      BY <2>1, <2>2, BytesLinks DEF Base
    <2>7. Reads'
      <3>1. SUFFICES ASSUME handle[net] <= Buffers
                     PROVE  ring_tcp[cmd.link] = <<>> /\ (NoBytes' \/ TheBytes')
        BY <1>1, <2>1 DEF Reads
      <3>2. ring_tcp[cmd.link] = <<>> /\ Continues(net, 0)
        <4>1. Flow(net) /\ InUse(net) /\ ~Reading(net)
          BY <1>1, <2>2, <2>4 DEF InUse, Reading
        <4> QED
          BY <2>2, <3>1, <4>1 DEF Flow, Settled
      <3>3. CASE OneSent("ERROR") /\ modem' = modem
        <4>1. Len(uart) \in Nat
          BY TypesGive DEF Base
        <4>2. \A i \in 1..Len(uart') : uart'[i].own => uart'[i].text = "ERROR"
          <5>1. \A i \in 1..Len(uart') : i \in 1..Len(uart) \/ i = Len(uart) + 1
            BY <3>3, <4>1 DEF OneSent
          <5> QED
            BY <3>3, <5>1 DEF OneSent
        <4>3. Continues(net, 0)'
          BY <1>1, <3>2, <3>3 DEF Continues, Open
        <4> QED
          BY <3>2, <4>2, <4>3 DEF NoBytes
      <3>4. ASSUME NEW k \in 0..cmd.len,
                   /\ Open(cmd.link) /\ k = Min({cmd.len, Len(modem[cmd.link].kept)})
                   /\ modem'[cmd.link].conn = modem[cmd.link].conn
                   /\ Given(modem'[cmd.link]) = Given(modem[cmd.link]) + k
                   /\ \A i \in 1..Len(uart') : uart'[i].own =>
                        \/ uart'[i].text = "OK"
                        \/ /\ uart'[i].text = "DATA" /\ Len(uart'[i].arg) = k
                           /\ Run(uart'[i].arg, modem[cmd.link].conn, Given(modem[cmd.link]))
            PROVE  TheBytes'
        <4>1. k = cmd.len
          <5>1. Offered(esp8266_recv_len[cmd.link]) /\ cmd.len <= esp8266_recv_len[cmd.link]
            BY <1>1, <1>4, <2>4 DEF Counts, Enough
          <5>2. Len(modem[cmd.link].kept) \in Nat
            <6>1. modem[cmd.link] \in Links_
              BY <2>2 DEF Base, Types
            <6> QED
              BY ONLY <6>1 DEF Links_
          <5>3. cmd.len <= Len(modem[cmd.link].kept)
            BY <2>2, <3>4, <5>1, <5>2 DEF Offered
          <5>4. PICK x \in Nat : x = Len(modem[cmd.link].kept)
            BY <5>2
          <5>5. Min({cmd.len, x}) = cmd.len
            BY ONLY <2>2, <5>3, <5>4 DEF Min
          <5> QED
            BY <3>4, <5>4, <5>5
        <4>2. modem[cmd.link].conn = conn_of[net] /\ Given(modem[cmd.link]) = Len(received[net])
          <5>1. Len(received[net]) \in Nat
            <6>1. received[net] \in Words
              BY <2>2 DEF Base, Types
            <6> QED
              BY ONLY <6>1 DEF Words
          <5> QED
            BY <2>2, <3>2, <3>4, <5>1 DEF Continues
        <4>3. Continues(net, cmd.len)'
          BY <1>1, <2>1, <2>2, <3>4, <4>1, <4>2 DEF Continues
        <4> QED
          BY <1>1, <2>1, <3>4, <4>1, <4>2, <4>3 DEF TheBytes
      <3> QED
        BY <2>6, <3>2, <3>3, <3>4
    <2>8. ASSUME NEW n \in Net
          PROVE  Flow(n)'
      <3>1. CASE n = net
        BY <1>1, <2>1, <2>2, <2>4, <3>1 DEF Flow, InUse, Reading
      <3>2. CASE n # net
        <4>1. SUFFICES ASSUME up[n]
                       PROVE  Flow(n)'
          BY <1>1, <2>1, <3>2 DEF Flow, InUse
        <4>2. handle[n] - 1 # cmd.link /\ handle[n] - 1 \in Link
          BY <1>1, <2>4, <3>2, <4>1, Apart DEF Transfer
        <4> QED
          BY <1>1, <2>1, <2>4, <2>6, <3>2, <4>1, <4>2, FlowStays DEF InUse, Reading
      <3> QED
        BY <3>1, <3>2
    <2> QED
      BY <2>5, <2>7, <2>8
  <1> QED
    BY <1>3, <1>4

(* The bytes of an answer go to the caller behind those it has. *)
LEMMA BytesStreams ==
  ASSUME Base, Base', Owned, Streams, HAL_AT_Read_Tcp_Returns
  PROVE  Streams'
  <1> DEFINE l == handle[net] - 1
             ring == ring_tcp[l]
             k == Min({cmd.len, Len(ring)})
  <1>1. /\ cmd.name = "CIPRECVDATA" /\ result # "NONE" /\ cmd'.name = "none" /\ net' = net
        /\ received' = [received EXCEPT ![net] = @ \o SubSeq(ring, 1, k)]
        /\ ring_tcp' = [ring_tcp EXCEPT ![l] = SubSeq(@, k + 1, Len(@))]
        /\ UNCHANGED <<handle, up, conn_of, modem, faults>>
    BY DEF HAL_AT_Read_Tcp_Returns, After, Done, NoCmd
  <1>2. /\ cmd.link \in Link /\ up[net] /\ net \in Net /\ l = cmd.link
        /\ cmd.len \in Nat /\ ring_tcp \in [Link -> Words] /\ received \in [Net -> Words]
    BY <1>1, TransferLink DEF Transfer, Base, Types
  <1>3. ring \in Words /\ received[net] \in Words
    BY <1>2
  <1> HIDE DEF l, ring, k
  <1>4. SUFFICES ASSUME Straight'
                 PROVE  (Starts /\ Counts /\ Reads)' /\ \A n \in Net : Flow(n)'
    BY DEF Streams
  <1>5. Straight /\ Reads /\ \A n \in Net : Flow(n)
    BY <1>1, <1>4 DEF Streams, Straight
  <1>6. (Starts /\ Counts /\ Reads)'
    BY <1>1 DEF Starts, Counts, Reads
  <1>7. \A n : Calm(n)
    BY <1>1, SameIsCalm DEF Base
  <1>8. ASSUME NEW n \in Net
        PROVE  Flow(n)'
    <2>1. CASE n # net
      <3>1. SUFFICES ASSUME up[n]
                     PROVE  Flow(n)'
        BY <1>1, <2>1 DEF Flow, InUse
      <3>2. handle[n] - 1 # cmd.link /\ handle[n] - 1 \in Link
        BY <1>1, <1>5, <2>1, <3>1, Apart DEF Transfer
      <3>3. /\ ring_tcp'[handle[n] - 1] = ring_tcp[handle[n] - 1]
            /\ received'[n] = received[n]
        BY <1>1, <1>2, <2>1, <3>2
      <3> QED
        BY <1>1, <1>5, <1>7, <2>1, <3>1, <3>3, FlowStays DEF InUse, Reading
    <2>2. CASE n = net
      <3>1. SUFFICES ASSUME handle[net] <= Buffers
                     PROVE  Flow(n)'
        BY <1>1, <2>2 DEF Flow
      <3>2. /\ Run(ring, conn_of[net], Len(received[net])) /\ Len(ring) <= cmd.len
            /\ Continues(net, Len(ring))
            /\ Run(received[net], conn_of[net], 0)
        BY <1>1, <1>2, <1>5, <3>1 DEF Reads, Flow, InUse, ring
      <3>3. Len(ring) \in Nat /\ Len(received[net]) \in Nat
        BY ONLY <1>3 DEF Words
      <3>4. k = Len(ring)
        <4>1. PICK x \in Nat : x = Len(ring)
          BY <3>3
        <4>2. Min({cmd.len, x}) = x
          BY ONLY <1>2, <3>2, <4>1 DEF Min
        <4> QED
          BY <4>1, <4>2 DEF k
      <3>5. SubSeq(ring, 1, k) = ring /\ SubSeq(ring, k + 1, Len(ring)) = <<>>
        <4>1. ring \in Seq((Nat \X Nat) \cup Nat)
          BY <1>3 DEF Words
        <4> QED
          BY ONLY <3>3, <3>4, <4>1
      <3>6. received'[net] = received[net] \o ring /\ ring_tcp'[l] = <<>>
        BY <1>1, <1>2, <3>5 DEF ring
      <3>7. /\ Run(received[net] \o ring, conn_of[net], 0)
            /\ Len(received[net] \o ring) = Len(received[net]) + Len(ring)
        <4>1. /\ received[net] \in Seq((Nat \X Nat) \cup Nat) /\ ring \in Seq((Nat \X Nat) \cup Nat)
              /\ 0 + Len(received[net]) = Len(received[net])
          BY <1>3, <3>3 DEF Words
        <4>2. Run(received[net] \o ring, conn_of[net], 0)
          BY ONLY <3>2, <4>1, RunJoined
        <4> QED
          BY ONLY <4>1, <4>2, ConcatProperties
      <3>8. Len(received[net]) + Len(ring) = (Len(received[net]) + Len(ring)) + 0
        BY ONLY <3>3
      <3>9. Continues(n, 0)'
        BY <1>1, <2>2, <3>2, <3>6, <3>7, <3>8 DEF Continues, Open
      <3> QED
        BY <1>1, <2>2, <3>6, <3>7, <3>9 DEF Flow, Settled, l
    <2> QED
      BY <2>1, <2>2
  <1> QED
    BY <1>6, <1>8

LEMMA NextStreams ==
  ASSUME Base, Base', Keeps, Owned, Streams, [Next]_vars
  PROVE  Streams'
  <1>1. CASE UNCHANGED vars
    <2>1. /\ UNCHANGED <<cmd, result, net, handle, up, esp8266_recv_len, ring_tcp>>
          /\ UNCHANGED <<received, conn_of>>
          /\ UNCHANGED <<modem, uart, late, mixed, crossed>>
      BY <1>1 DEF vars
    <2>2. (\A k : Calm(k)) /\ OwnIsOld /\ (Straight' => Straight)
      BY <2>1, SameIsCalm DEF Base, OwnIsOld, Straight
    <2> QED
      BY <2>1, <2>2, QuietStreams DEF Base
  <1>2. CASE \E l \in Link : PeerSends(l) \/ PeerCloses(l)
    BY <1>2, PeersStreams
  <1>3. CASE client_parser_Urc
    BY <1>3, UrcStreams
  <1>4. CASE client_parser_Response
    BY <1>4, ResponseStreams
  <1>5. CASE Timeout
    BY <1>5 DEF Timeout, Streams, Straight
  <1>6. CASE \E n \in Net : HAL_AT_TCP_Connect(n)
    BY <1>6, ConnectStreams
  <1>7. CASE \E n \in Net : Disconnect(n)
    BY <1>7, DisconnectStreams
  <1>8. CASE \E n \in Net : \E len \in 1..2 : HAL_AT_Read_Tcp(n, len)
    BY <1>8, QueryStreams
  <1>9. CASE esp8266_init
    BY <1>9, InitStreams
  <1>10. CASE HAL_AT_TCP_Connect_Started
    BY <1>10, StartedStreams
  <1>11. CASE HAL_AT_Read_Tcp_Asked
    BY <1>11, AskedStreams
  <1>12. CASE HAL_AT_Read_Tcp_Returns
    BY <1>12, BytesStreams
  <1>13. CASE \/ HAL_AT_TCP_Connect_Returns \/ HAL_AT_TCP_Disconnect_Returns
              \/ HAL_AT_Write_Tcp_Returns \/ HAL_AT_Write_Tcp_Data
              \/ \E n \in Net : HAL_AT_Write_Tcp(n)
    BY <1>13, PlainStreams
  <1> QED
    BY <1>1, <1>2, <1>3, <1>4, <1>5, <1>6, <1>7, <1>8, <1>9, <1>10, <1>11, <1>12, <1>13 DEF Next

LEMMA ReadInvHolds == Init => ReadInv
  <1> SUFFICES ASSUME Init
               PROVE  ReadInv
    OBVIOUS
  <1>1. Types /\ Room
    BY InitHolds DEF StepInv
  <1>2. cmd.name = "none" /\ \A n \in Net : ~up[n]
    BY DEF Init, NoCmd
  <1>3. Keeps
    BY NewLinkHolds DEF Init, NoConn, Keeps
  <1>4. Owned
    BY <1>2 DEF Owned
  <1>5. Streams
    BY <1>2 DEF Streams, Starts, Counts, Reads, Flow, InUse
  <1> QED
    BY <1>1, <1>3, <1>4, <1>5 DEF ReadInv

LEMMA ReadInvariance == Spec => []ReadInv
  <1>1. ASSUME ReadInv, [Next]_vars
        PROVE  ReadInv'
    <2>1. Base /\ Keeps /\ Owned /\ Streams
      BY <1>1 DEF ReadInv, Base
    <2>2. Base'
      BY <1>1, <2>1, NextBase
    <2>3. Keeps' /\ Owned' /\ Streams'
      BY <1>1, <2>1, <2>2, NextKeeps, NextOwned, NextStreams
    <2> QED
      BY <2>2, <2>3 DEF ReadInv, Base
  <1> QED
    BY <1>1, ReadInvHolds, PTL DEF Spec

(* What is read on a connection is what its peer sent on it, from the      *)
(* first byte on: none is lost, doubled or taken from another connection,  *)
(* as long as commands are ended by their own answers and in time, and no  *)
(* network has closed the link of another.                                 *)
THEOREM ReadsArriveInOrder == Spec => []ReadInOrder
  <1>1. ASSUME ReadInv, NEW n \in Net, Straight, up[n], handle[n] <= Buffers
        PROVE  received[n] = [i \in 1..Len(received[n]) |-> <<conn_of[n], i>>]
    <2>1. Run(received[n], conn_of[n], 0) /\ received[n] \in Words
      BY <1>1 DEF ReadInv, Streams, Flow, InUse, Types
    <2>2. PICK s \in Seq((Nat \X Nat) \cup Nat) : s = received[n]
      BY <2>1 DEF Words
    <2>3. \A i \in 1..Len(s) : s[i] = <<conn_of[n], i>>
      <3>1. \A i \in 1..Len(s) : 0 + i = i
        OBVIOUS
      <3> QED
        BY <2>1, <2>2, <3>1 DEF Run
    <2>4. s = [i \in 1..Len(s) |-> s[i]]
      BY ONLY <2>2
    <2> QED
      BY <2>2, <2>3, <2>4
  <1>2. ReadInv => ReadInOrder
    BY <1>1 DEF ReadInOrder, Straight
  <1> QED
    BY <1>2, ReadInvariance, PTL
=============================================================================
