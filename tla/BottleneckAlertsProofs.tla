----------------------- MODULE BottleneckAlertsProofs -----------------------
(***************************************************************************)
(* Proofs about BottleneckAlerts for every set of bottlenecks, handlers    *)
(* and clients and every length of the window.                             *)
(***************************************************************************)
EXTENDS BottleneckAlerts, TLAPS

-----------------------------------------------------------------------------
(* Types *)

LEMMA Records ==
    /\ Idle \in HandlerRecord
    /\ Idle.pc = "idle"
    /\ Closed \in ClientRecord
    /\ Closed.pc = "closed"
BY DEF Idle, HandlerRecord, Closed, ClientRecord

LEMMA EmptyAlerts == <<>> \in Seq(Time)
OBVIOUS

(* What each step of handleAlert makes of its handler has the type of one. *)
LEMMA HandlerTypes ==
    ASSUME TypeOK, NEW h \in Handler,
           \/ \E k \in Key : Message(h, k)
           \/ GetBottlenecks(h) \/ CheckWindow(h) \/ MailSent(h) \/ Mark(h)
    PROVE  handlers' \in [Handler -> HandlerRecord]
<1> DEFINE Becomes(r) == handlers' = [handlers EXCEPT ![h] = r]
<1>1. handlers \in [Handler -> HandlerRecord] /\ handlers[h] \in HandlerRecord
  BY DEF TypeOK
<1>2. \E r \in HandlerRecord : Becomes(r)
  <2>1. ASSUME NEW k \in Key, Message(h, k) PROVE \E r \in HandlerRecord : Becomes(r)
    <3>1. [Idle EXCEPT !.pc = "query", !.key = k] \in HandlerRecord
      BY DEF Idle, HandlerRecord
    <3> QED
      BY <2>1, <3>1 DEF Message
  <2>2. CASE GetBottlenecks(h)
    <3> DEFINE F == {b \in Bottleneck : KeyOf[b] = handlers[h].key /\ rows[b] = "new"}
               r == [handlers[h] EXCEPT !.pc = "check", !.found = F]
    <3>1. F \in SUBSET Bottleneck
      OBVIOUS
    <3>2. Becomes(r)
      BY <2>2 DEF GetBottlenecks
    <3> HIDE DEF F
    <3>3. r \in HandlerRecord
      BY <1>1, <3>1 DEF HandlerRecord
    <3> QED
      BY <3>2, <3>3
  <2>3. CASE CheckWindow(h)
    <3>1. CASE handlers' = [handlers EXCEPT ![h] = Idle]
      BY <3>1, Records
    <3>2. ASSUME NEW b \in handlers[h].found,
                 handlers' = [handlers EXCEPT ![h] =
                       [Idle EXCEPT !.pc = "alert", !.key = handlers[h].key,
                                    !.target = b, !.todo = {"mail", "mark"}]]
          PROVE  \E r \in HandlerRecord : Becomes(r)
      <4>1. b \in Bottleneck /\ handlers[h].key \in Key \cup {NoKey}
        BY <1>1 DEF HandlerRecord
      <4>2. [Idle EXCEPT !.pc = "alert", !.key = handlers[h].key,
                         !.target = b, !.todo = {"mail", "mark"}] \in HandlerRecord
        BY <4>1 DEF Idle, HandlerRecord
      <4> QED
        BY <3>2, <4>2
    <3> QED
      BY <2>3, <3>1, <3>2 DEF CheckWindow
  <2>4. ASSUME NEW part \in {"mail", "mark"}, Done(h, part)
        PROVE  \E r \in HandlerRecord : Becomes(r)
    <3> DEFINE r == [handlers[h] EXCEPT !.todo = @ \ {part}]
    <3>1. r \in HandlerRecord
      BY <1>1 DEF HandlerRecord
    <3>2. CASE handlers[h].todo = {part}
      BY <2>4, <3>2, Records DEF Done
    <3>3. CASE handlers[h].todo # {part}
      <4>1. handlers' = [handlers EXCEPT ![h] = r]
        BY <1>1, <2>4, <3>3 DEF Done
      <4> HIDE DEF r
      <4> QED
        BY <3>1, <4>1
    <3> QED
      BY <3>2, <3>3
  <2> QED
    BY <2>1, <2>2, <2>3, <2>4 DEF MailSent, Mark
<1> QED
  BY <1>1, <1>2

LEMMA TypeInit == Init => TypeOK
BY AlertAssumption, Records, EmptyAlerts DEF Init, TypeOK, Time, RowState

LEMMA DeathTypes ==
    ASSUME TypeOK, ProcessDies, UNCHANGED <<rows, now>> PROVE TypeOK'
BY Records, EmptyAlerts DEF TypeOK, ProcessDies

LEMMA TypeStep == TypeOK /\ [Next]_vars => TypeOK'
<1> SUFFICES ASSUME TypeOK, [Next]_vars PROVE TypeOK'
  OBVIOUS
<1> USE DEF streams, handling
<1>1. ASSUME NEW h \in Handler, NEW k \in Key, Message(h, k) PROVE TypeOK'
  <2>1. handlers' \in [Handler -> HandlerRecord]
    BY <1>1, HandlerTypes
  <2> QED
    BY <1>1, <2>1 DEF TypeOK, Message
<1>2. ASSUME NEW h \in Handler, GetBottlenecks(h) PROVE TypeOK'
  <2>1. handlers' \in [Handler -> HandlerRecord]
    BY <1>2, HandlerTypes
  <2> QED
    BY <1>2, <2>1 DEF TypeOK, GetBottlenecks
<1>3. ASSUME NEW h \in Handler, CheckWindow(h) PROVE TypeOK'
  <2>1. handlers' \in [Handler -> HandlerRecord]
    BY <1>3, HandlerTypes
  <2>2. handlers[h].found \subseteq Bottleneck
    BY DEF TypeOK, HandlerRecord
  <2>3. \A k \in Key : Append(alerts[k], now) \in Seq(Time)
    BY DEF TypeOK
  <2>4. /\ last' \in [Key -> {0} \cup Time]
        /\ alerts' \in [Key -> Seq(Time)]
        /\ mailed' \subseteq Bottleneck
        /\ missed' \subseteq Client
    <3>1. last' \in [Key -> {0} \cup Time]
      BY <1>3 DEF TypeOK, CheckWindow
    <3>2. alerts' \in [Key -> Seq(Time)]
      <4>1. \/ alerts' = alerts
            \/ alerts' = [alerts EXCEPT ![handlers[h].key] =
                              Append(alerts[handlers[h].key], now)]
        BY <1>3 DEF CheckWindow
      <4>2. alerts \in [Key -> Seq(Time)]
        BY DEF TypeOK
      <4>3. CASE handlers[h].key \in Key
        BY <2>3, <4>1, <4>2, <4>3
      <4>4. CASE handlers[h].key \notin Key
        BY <4>1, <4>2, <4>4
      <4> QED
        BY <4>3, <4>4
    <3>3. mailed' \subseteq Bottleneck
      <4>1. mailed' = mailed \/ \E b \in handlers[h].found : mailed' = mailed \cup {b}
        BY <1>3 DEF CheckWindow
      <4> QED
        BY <2>2, <4>1 DEF TypeOK
    <3>4. missed' \subseteq Client
      BY <1>3 DEF TypeOK, CheckWindow, EmitAlert
    <3> QED
      BY <3>1, <3>2, <3>3, <3>4
  <2> QED
    BY <1>3, <2>1, <2>4 DEF TypeOK, CheckWindow
<1>4. ASSUME NEW h \in Handler, MailSent(h) PROVE TypeOK'
  <2>1. handlers' \in [Handler -> HandlerRecord]
    BY <1>4, HandlerTypes
  <2> QED
    BY <1>4, <2>1 DEF TypeOK, MailSent
<1>5. ASSUME NEW h \in Handler, Mark(h) PROVE TypeOK'
  <2>1. handlers' \in [Handler -> HandlerRecord]
    BY <1>5, HandlerTypes
  <2> QED
    BY <1>5, <2>1 DEF TypeOK, Mark, RowState
<1>6. ASSUME NEW h \in Handler, UnhandledRejection(h) PROVE TypeOK'
  BY <1>6, DeathTypes DEF UnhandledRejection
<1>7. CASE Crash
  BY <1>7, DeathTypes DEF Crash
<1>8. CASE Boot
  BY <1>8 DEF TypeOK, Boot
<1>9. ASSUME NEW c \in Client, ClientSteps(c) PROVE TypeOK'
  <2>1. CASE SubscribeToUserAlerts(c)
    <3>1. stream' \in Stream \cup {NoStream}
      BY <2>1 DEF SubscribeToUserAlerts, TypeOK
    <3>2. [pc |-> "called", stream |-> stream'] \in ClientRecord
      BY <3>1 DEF ClientRecord
    <3> QED
      BY <2>1, <3>1, <3>2 DEF TypeOK, SubscribeToUserAlerts
  <2>2. CASE Open(c)
    <3>1. [clients[c] EXCEPT !.pc = "open"] \in ClientRecord
      BY DEF TypeOK, ClientRecord
    <3> QED
      BY <2>2, <3>1 DEF TypeOK, Open
  <2>3. CASE Leave(c)
    BY <2>3, Records DEF TypeOK, Leave
  <2> QED
    BY <1>9, <2>1, <2>2, <2>3 DEF ClientSteps
<1>10. ASSUME NEW b \in Bottleneck, Detected(b) PROVE TypeOK'
  BY <1>10 DEF TypeOK, Detected, RowState
<1>11. ASSUME NEW k \in Key, RowsRemoved(k) PROVE TypeOK'
  BY <1>11 DEF TypeOK, RowsRemoved, RowState
<1>12. CASE TimePasses
  BY <1>12, AlertAssumption DEF TypeOK, TimePasses, Time
<1>13. CASE UNCHANGED vars
  BY <1>13 DEF TypeOK, vars
<1> QED
  BY <1>1, <1>2, <1>3, <1>4, <1>5, <1>6, <1>7, <1>8, <1>9, <1>10, <1>11, <1>12, <1>13
     DEF Next, HandleAlert

-----------------------------------------------------------------------------
(* The alerts of a key and the clock *)

LEMMA Appended ==
    ASSUME NEW S, NEW s \in Seq(S), NEW e \in S
    PROVE  /\ DOMAIN s = 1..Len(s) /\ Len(s) \in Nat
           /\ DOMAIN Append(s, e) = 1..(Len(s) + 1)
           /\ \A i \in 1..Len(s) : Append(s, e)[i] = s[i]
           /\ Append(s, e)[Len(s) + 1] = e
OBVIOUS

Spaced == LastAlerts /\ AlertsAreSpaced

LEMMA CheckWindowSpaced ==
    ASSUME AlertInv, NEW h \in Handler, CheckWindow(h)
    PROVE  Spaced'
<1>1. TypeOK
  BY DEF AlertInv
<1>2. CASE UNCHANGED <<last, alerts>>
  BY <1>1, <1>2 DEF AlertInv, Spaced, LastAlerts, AlertsAreSpaced, CheckWindow
<1>3. ASSUME NEW k, k = handlers[h].key, WindowIsOver(k),
             last' = [last EXCEPT ![k] = now],
             alerts' = [alerts EXCEPT ![k] = Append(@, now)]
      PROVE  Spaced'
  <2> SUFFICES ASSUME NEW j \in Key
               PROVE  /\ last'[j] <= now'
                      /\ alerts'[j] # <<>> => last'[j] # 0
                      /\ \A i \in DOMAIN alerts'[j] : alerts'[j][i] <= last'[j]
                      /\ \A i, n \in DOMAIN alerts'[j] :
                            i < n => alerts'[j][i] + Window < alerts'[j][n]
    BY DEF Spaced, LastAlerts, AlertsAreSpaced
  <2>1. /\ last[j] \in {0} \cup Time /\ alerts[j] \in Seq(Time) /\ now \in Time
        /\ now' = now /\ now \in Nat \ {0} /\ Window \in Nat
    <3>1. last[j] \in {0} \cup Time /\ alerts[j] \in Seq(Time) /\ now \in Time
      BY <1>1 DEF TypeOK
    <3>2. now' = now
      BY DEF CheckWindow
    <3>3. now \in Nat \ {0} /\ Window \in Nat
      BY <3>1, AlertAssumption DEF Time
    <3> QED
      BY <3>1, <3>2, <3>3
  <2>2. /\ last[j] <= now
        /\ alerts[j] # <<>> => last[j] # 0
        /\ \A i \in DOMAIN alerts[j] : alerts[j][i] <= last[j]
        /\ \A i, n \in DOMAIN alerts[j] :
              i < n => alerts[j][i] + Window < alerts[j][n]
    BY DEF AlertInv, LastAlerts, AlertsAreSpaced
  <2>3. CASE j # k
    <3>1. last'[j] = last[j] /\ alerts'[j] = alerts[j]
      BY <1>1, <1>3, <2>3 DEF TypeOK
    <3> QED
      BY <2>1, <2>2, <3>1
  <2>4. CASE j = k
    <3>1. last'[j] = now /\ alerts'[j] = Append(alerts[j], now)
      BY <1>1, <1>3, <2>4 DEF TypeOK
    <3>2. /\ DOMAIN alerts[j] = 1..Len(alerts[j]) /\ Len(alerts[j]) \in Nat
          /\ DOMAIN Append(alerts[j], now) = 1..(Len(alerts[j]) + 1)
          /\ \A i \in 1..Len(alerts[j]) : /\ Append(alerts[j], now)[i] = alerts[j][i]
                                          /\ alerts[j][i] \in Nat
          /\ Append(alerts[j], now)[Len(alerts[j]) + 1] = now
      <4>1. \A i \in 1..Len(alerts[j]) : alerts[j][i] \in Time
        BY <2>1
      <4>2. \A t \in Time : t \in Nat
        BY DEF Time
      <4> QED
        <5>1. /\ DOMAIN alerts[j] = 1..Len(alerts[j]) /\ Len(alerts[j]) \in Nat
              /\ DOMAIN Append(alerts[j], now) = 1..(Len(alerts[j]) + 1)
              /\ \A i \in 1..Len(alerts[j]) : Append(alerts[j], now)[i] = alerts[j][i]
              /\ Append(alerts[j], now)[Len(alerts[j]) + 1] = now
          BY <2>1, Appended
        <5> QED
          BY <4>1, <4>2, <5>1
    <3>3. \A i \in 1..Len(alerts[j]) : alerts[j][i] + Window < now
      <4>1. alerts[j] # <<>> => last[j] + Window < now
        BY <1>3, <2>2, <2>4 DEF WindowIsOver
      <4>2. \A i \in 1..Len(alerts[j]) : alerts[j][i] <= last[j]
        BY <2>2, <3>2
      <4>3. last[j] \in Nat
        BY <2>1 DEF Time
      <4> QED
        BY <2>1, <3>2, <4>1, <4>2, <4>3
    <3>4. \A i, n \in 1..(Len(alerts[j]) + 1) : i < n =>
              Append(alerts[j], now)[i] + Window < Append(alerts[j], now)[n]
      <4> TAKE i, n \in 1..(Len(alerts[j]) + 1)
      <4> HAVE i < n
      <4>1. i \in 1..Len(alerts[j])
        BY <3>2
      <4>2. CASE n = Len(alerts[j]) + 1
        BY <3>2, <3>3, <4>1, <4>2
      <4>3. CASE n \in 1..Len(alerts[j])
        BY <2>2, <3>2, <4>1, <4>3
      <4> QED
        BY <3>2, <4>2, <4>3
    <3>5. \A i \in 1..(Len(alerts[j]) + 1) : Append(alerts[j], now)[i] <= now
      BY <2>1, <3>2, <3>3
    <3> QED
      BY <2>1, <3>1, <3>2, <3>4, <3>5
  <2> QED
    BY <2>3, <2>4
<1> QED
  BY <1>2, <1>3 DEF CheckWindow

LEMMA SpacedStep ==
    ASSUME AlertInv, [Next]_vars PROVE Spaced'
<1> USE DEF streams, handling
<1>1. ASSUME UNCHANGED <<last, alerts, now>> PROVE Spaced'
  BY <1>1 DEF AlertInv, Spaced, LastAlerts, AlertsAreSpaced
<1>2. ASSUME ProcessDies, UNCHANGED now PROVE Spaced'
  <2>1. /\ \A k \in Key : last'[k] = 0 /\ alerts'[k] = <<>>
        /\ now' \in Nat
    BY <1>2, AlertAssumption DEF ProcessDies, AlertInv, TypeOK, Time
  <2> QED
    BY <2>1 DEF Spaced, LastAlerts, AlertsAreSpaced
<1>3. ASSUME NEW h \in Handler, HandleAlert(h) PROVE Spaced'
  BY <1>1, <1>2, <1>3, CheckWindowSpaced
     DEF HandleAlert, GetBottlenecks, MailSent, Mark, UnhandledRejection
<1>4. CASE TimePasses
  <2>1. /\ \A k \in Key : last[k] \in Nat
        /\ now \in Nat
    BY AlertAssumption DEF AlertInv, TypeOK, Time
  <2> QED
    BY <1>4, <2>1 DEF AlertInv, Spaced, LastAlerts, AlertsAreSpaced, TimePasses
<1> QED
  BY <1>1, <1>2, <1>3, <1>4
     DEF Next, vars, Message, ClientSteps, SubscribeToUserAlerts, Open, Leave, Crash,
         Boot, Detected, RowsRemoved

-----------------------------------------------------------------------------
(* The clients and the subject of their user *)

LEMMA ClientInv ==
    ASSUME AlertInv, NEW c \in Client, ClientSteps(c)
    PROVE  SharedStream' /\ AlertsReachClients'
<1>1. TypeOK /\ clients[c] \in ClientRecord
  BY DEF AlertInv, TypeOK
<1>2. CASE SubscribeToUserAlerts(c)
  <2>1. clients'[c].stream = stream'
    BY <1>1, <1>2 DEF SubscribeToUserAlerts, TypeOK
  <2>2. \A d \in Client : d # c => clients'[d] = clients[d]
    BY <1>1, <1>2 DEF SubscribeToUserAlerts, TypeOK
  <2>3. stream' # NoStream /\ (stream # NoStream => stream' = stream)
    BY <1>2, AlertAssumption DEF SubscribeToUserAlerts
  <2> QED
    BY <1>2, <2>1, <2>2, <2>3
       DEF SubscribeToUserAlerts, AlertInv, SharedStream, AlertsReachClients, Connected
<1>3. CASE Open(c)
  <2>1. /\ clients'[c].stream = clients[c].stream
        /\ clients[c].pc = "called"
        /\ \A d \in Client : d # c => clients'[d] = clients[d]
    BY <1>1, <1>3 DEF Open, TypeOK, ClientRecord
  <2> QED
    BY <1>3, <2>1 DEF Open, AlertInv, SharedStream, AlertsReachClients, Connected
<1>4. CASE Leave(c)
  <2>1. /\ clients'[c].pc = "closed"
        /\ \A d \in Client : d # c => clients'[d] = clients[d]
    BY <1>1, <1>4, Records DEF Leave, TypeOK
  <2>2. \A d \in Client : Connected(d)' => d \in bereft'
    BY <1>4, <2>1 DEF Leave, Connected
  <2>3. missed' \subseteq bereft'
    BY <1>1, <1>4 DEF Leave, AlertInv, AlertsReachClients, TypeOK
  <2> QED
    BY <2>2, <2>3 DEF SharedStream, AlertsReachClients
<1> QED
  BY <1>2, <1>3, <1>4 DEF ClientSteps

LEMMA StreamStep ==
    ASSUME AlertInv, [Next]_vars PROVE SharedStream' /\ AlertsReachClients'
<1> USE DEF streams, handling
<1>1. ASSUME UNCHANGED streams PROVE SharedStream' /\ AlertsReachClients'
  BY <1>1 DEF AlertInv, SharedStream, AlertsReachClients, Connected
<1>2. ASSUME ProcessDies PROVE SharedStream' /\ AlertsReachClients'
  BY <1>2, Records DEF ProcessDies, SharedStream, AlertsReachClients, Connected
<1>3. ASSUME NEW h \in Handler, CheckWindow(h) PROVE SharedStream' /\ AlertsReachClients'
  <2>1. SharedStream'
    BY <1>3 DEF CheckWindow, AlertInv, SharedStream, Connected
  <2>2. \A c \in Client : clients[c].pc = "open" /\ clients[c].stream # stream =>
            c \in bereft
    BY DEF AlertInv, SharedStream, Connected
  <2>3. AlertsReachClients'
    BY <1>3, <2>2 DEF CheckWindow, EmitAlert, AlertInv, AlertsReachClients
  <2> QED
    BY <2>1, <2>3
<1> QED
  BY <1>1, <1>2, <1>3, ClientInv
     DEF Next, vars, HandleAlert, Message, GetBottlenecks, MailSent, Mark,
         UnhandledRejection, Crash, Boot, Detected, RowsRemoved, TimePasses

-----------------------------------------------------------------------------
(* Mails and marks *)

(* A step of one handler that mails nothing, on what its mark becomes.     *)
LEMMA MarksKept ==
    ASSUME AlertInv, NEW h \in Handler,
           handlers' = [handlers EXCEPT ![h] = handlers'[h]],
           mailed' = mailed,
           handlers'[h].pc # "alert" => handlers'[h].todo = {},
           \A b \in mailed : rows[b] \in {"alerted", "removed"}
                => rows'[b] \in {"alerted", "removed"},
           \A b \in mailed :
                handlers[h].target = b /\ "mark" \in handlers[h].todo
                => \/ rows'[b] \in {"alerted", "removed"}
                   \/ handlers'[h].target = b /\ "mark" \in handlers'[h].todo
    PROVE  PendingMarks'
<1>1. \A g \in Handler : g # h => handlers'[g] = handlers[g]
  BY DEF AlertInv, TypeOK
<1>2. \A g \in Handler : handlers'[g].pc # "alert" => handlers'[g].todo = {}
  BY <1>1 DEF AlertInv, PendingMarks
<1>3. ASSUME NEW b \in mailed
      PROVE  \/ rows'[b] \in {"alerted", "removed"}
             \/ \E g \in Handler : handlers'[g].target = b /\ "mark" \in handlers'[g].todo
  <2>1. CASE rows[b] \in {"alerted", "removed"}
    BY <2>1
  <2>2. ASSUME NEW g \in Handler, handlers[g].target = b, "mark" \in handlers[g].todo
        PROVE  \/ rows'[b] \in {"alerted", "removed"}
               \/ \E i \in Handler : handlers'[i].target = b /\ "mark" \in handlers'[i].todo
    BY <1>1, <2>2
  <2> QED
    BY <2>1, <2>2 DEF AlertInv, PendingMarks
<1> QED
  BY <1>2, <1>3 DEF PendingMarks

LEMMA HandlersMark ==
    ASSUME AlertInv, NEW h \in Handler,
           \/ \E k \in Key : Message(h, k)
           \/ GetBottlenecks(h) \/ CheckWindow(h) \/ MailSent(h) \/ Mark(h)
    PROVE  PendingMarks'
<1>1. /\ handlers \in [Handler -> HandlerRecord] /\ handlers[h] \in HandlerRecord
      /\ rows \in [Bottleneck -> RowState] /\ mailed \subseteq Bottleneck
      /\ handlers[h].pc # "alert" => handlers[h].todo = {}
  BY DEF AlertInv, TypeOK, PendingMarks
<1>2. Idle.pc = "idle" /\ Idle.todo = {}
  BY DEF Idle
<1>3. ASSUME NEW k \in Key, Message(h, k) PROVE PendingMarks'
  <2>1. handlers'[h] = [Idle EXCEPT !.pc = "query", !.key = k]
    BY <1>1, <1>3 DEF Message
  <2>2. handlers'[h].todo = {}
    BY <2>1 DEF Idle
  <2>3. handlers' = [handlers EXCEPT ![h] = handlers'[h]]
    BY <1>1, <1>3, <2>1 DEF Message
  <2> QED
    BY <1>1, <1>3, <2>2, <2>3, MarksKept DEF Message
<1>4. CASE GetBottlenecks(h)
  <2> DEFINE F == {b \in Bottleneck : KeyOf[b] = handlers[h].key /\ rows[b] = "new"}
             r == [handlers[h] EXCEPT !.pc = "check", !.found = F]
  <2>1. handlers' = [handlers EXCEPT ![h] = r] /\ handlers[h].pc = "query"
    BY <1>4 DEF GetBottlenecks
  <2> HIDE DEF F
  <2>2. r.todo = handlers[h].todo /\ r.target = handlers[h].target
    BY <1>1 DEF HandlerRecord
  <2> HIDE DEF r
  <2>3. handlers'[h] = r
    BY <1>1, <2>1
  <2>4. handlers'[h].todo = {} /\ handlers[h].todo = {}
    BY <1>1, <2>1, <2>2, <2>3
  <2> QED
    BY <1>4, <2>1, <2>3, <2>4, MarksKept DEF GetBottlenecks
<1>5. CASE CheckWindow(h)
  <2>1. handlers[h].todo = {} /\ rows' = rows
    BY <1>1, <1>5 DEF CheckWindow
  <2>2. CASE handlers' = [handlers EXCEPT ![h] = Idle] /\ mailed' = mailed
    <3>1. handlers'[h] = Idle
      BY <1>1, <2>2
    <3> QED
      BY <1>2, <2>1, <2>2, <3>1, MarksKept
  <2>3. ASSUME NEW b \in handlers[h].found,
               handlers' = [handlers EXCEPT ![h] =
                       [Idle EXCEPT !.pc = "alert", !.key = handlers[h].key,
                                    !.target = b, !.todo = {"mail", "mark"}]],
               mailed' = mailed \cup {b}
        PROVE  PendingMarks'
    <3>1. /\ handlers'[h].pc = "alert" /\ handlers'[h].target = b
          /\ "mark" \in handlers'[h].todo
      BY <1>1, <2>3 DEF Idle
    <3>2. \A g \in Handler : g # h => handlers'[g] = handlers[g]
      BY <1>1, <2>3
    <3> QED
      BY <2>1, <2>3, <3>1, <3>2 DEF AlertInv, PendingMarks
  <2> QED
    BY <1>5, <2>2, <2>3 DEF CheckWindow
<1>6. ASSUME NEW part \in {"mail", "mark"}, part \in handlers[h].todo, Done(h, part),
             mailed' = mailed,
             \A b \in mailed : rows[b] \in {"alerted", "removed"}
                => rows'[b] \in {"alerted", "removed"},
             part = "mark" => rows'[handlers[h].target] \in {"alerted", "removed"}
      PROVE  PendingMarks'
  <2>1. handlers[h].pc = "alert"
    BY <1>1, <1>6
  <2>2. CASE handlers[h].todo = {part}
    <3>1. handlers' = [handlers EXCEPT ![h] = Idle]
      BY <1>6, <2>2 DEF Done
    <3>2. handlers'[h] = Idle
      BY <1>1, <3>1
    <3> QED
      BY <1>2, <1>6, <2>2, <3>1, <3>2, MarksKept
  <2>3. CASE handlers[h].todo # {part}
    <3> DEFINE r == [handlers[h] EXCEPT !.todo = handlers[h].todo \ {part}]
    <3>1. handlers' = [handlers EXCEPT ![h] = r]
      BY <1>1, <1>6, <2>3 DEF Done
    <3>2. /\ r.pc = "alert" /\ r.target = handlers[h].target
          /\ r.todo = handlers[h].todo \ {part}
      BY <1>1, <2>1 DEF HandlerRecord
    <3> HIDE DEF r
    <3>3. handlers'[h] = r
      BY <1>1, <3>1
    <3> QED
      BY <1>6, <3>1, <3>2, <3>3, MarksKept
  <2> QED
    BY <2>2, <2>3
<1>7. CASE MailSent(h)
  BY <1>6, <1>7 DEF MailSent
<1>8. CASE Mark(h)
  <2>1. "mark" \in handlers[h].todo /\ Done(h, "mark") /\ mailed' = mailed
    BY <1>8 DEF Mark
  <2>2. \A b \in mailed : rows[b] \in {"alerted", "removed"}
                => rows'[b] \in {"alerted", "removed"}
    BY <1>1, <1>8 DEF Mark
  <2>3. ASSUME handlers[h].target \in Bottleneck
        PROVE  rows'[handlers[h].target] \in {"alerted", "removed"}
    BY <1>1, <1>8, <2>3 DEF Mark
  <2>4. CASE handlers[h].target \in Bottleneck
    BY <1>6, <2>1, <2>2, <2>3, <2>4
  <2>5. CASE handlers[h].target \notin Bottleneck
    <3>1. PICK r : handlers' = [handlers EXCEPT ![h] = r] /\ (r.pc # "alert" => r.todo = {})
      <4>1. handlers[h].pc = "alert"
        BY <1>1, <2>1
      <4>2. [handlers[h] EXCEPT !.todo = handlers[h].todo \ {"mark"}].pc = "alert"
        BY <1>1, <4>1 DEF HandlerRecord
      <4> QED
        BY <1>1, <1>2, <2>1, <4>2 DEF Done
    <3>2. handlers'[h] = r
      BY <1>1, <3>1
    <3> QED
      BY <1>1, <2>1, <2>2, <2>5, <3>1, <3>2, MarksKept
  <2> QED
    BY <2>4, <2>5
<1> QED
  BY <1>3, <1>4, <1>5, <1>7, <1>8

LEMMA MarkStep ==
    ASSUME AlertInv, [Next]_vars PROVE PendingMarks'
<1> USE DEF streams, handling
<1>1. ASSUME UNCHANGED <<handlers, mailed, rows>> PROVE PendingMarks'
  BY <1>1 DEF AlertInv, PendingMarks
<1>2. ASSUME ProcessDies PROVE PendingMarks'
  <2>1. \A h \in Handler : handlers'[h].todo = {}
    BY <1>2 DEF ProcessDies, Idle
  <2> QED
    BY <1>2, <2>1 DEF ProcessDies, PendingMarks
<1>3. ASSUME UNCHANGED <<handlers, mailed>>,
             \A b \in Bottleneck : rows[b] \in {"alerted", "removed"}
                => rows'[b] \in {"alerted", "removed"}
      PROVE  PendingMarks'
  <2>1. mailed \subseteq Bottleneck
    BY DEF AlertInv, TypeOK
  <2> QED
    BY <1>3, <2>1 DEF AlertInv, PendingMarks
<1>4. ASSUME NEW b \in Bottleneck, Detected(b) PROVE PendingMarks'
  <2>1. \A c \in Bottleneck : rows[c] \in {"alerted", "removed"} => rows'[c] = rows[c]
    BY <1>4 DEF Detected, AlertInv, TypeOK
  <2> QED
    BY <1>3, <1>4, <2>1 DEF Detected
<1>5. ASSUME NEW k \in Key, RowsRemoved(k) PROVE PendingMarks'
  BY <1>3, <1>5 DEF RowsRemoved
<1> QED
  BY <1>1, <1>2, <1>4, <1>5, HandlersMark
     DEF Next, vars, HandleAlert, UnhandledRejection, ClientSteps,
         SubscribeToUserAlerts, Open, Leave, Crash, Boot, TimePasses

-----------------------------------------------------------------------------
LEMMA InitInv == Init => AlertInv
<1> SUFFICES ASSUME Init PROVE AlertInv
  OBVIOUS
<1>1. LastAlerts /\ AlertsAreSpaced
  BY DEF Init, LastAlerts, AlertsAreSpaced
<1>2. SharedStream /\ AlertsReachClients
  BY Records DEF Init, SharedStream, AlertsReachClients, Connected
<1>3. PendingMarks
  BY DEF Init, PendingMarks, Idle
<1> QED
  BY <1>1, <1>2, <1>3, TypeInit DEF AlertInv

LEMMA NextInv == AlertInv /\ [Next]_vars => AlertInv'
BY TypeStep, SpacedStep, MarkStep, StreamStep DEF AlertInv, Spaced

(* Handlers, alerts, clients and subjects agree in every reachable state. *)
THEOREM AlertsCorrect == Spec => []AlertInv
BY InitInv, NextInv, PTL DEF Spec

(* However the handlers of one step overlap, its alerts are more than the  *)
(* window apart as long as the process lives.                              *)
THEOREM AlertsSpaced == Spec => []AlertsAreSpaced
<1>1. AlertInv => AlertsAreSpaced
  BY DEF AlertInv
<1> QED
  BY <1>1, AlertsCorrect, PTL

(* An open client misses an alert only if another client has left while it *)
(* was connected.                                                          *)
THEOREM ClientsReached == Spec => []AlertsReachClients
<1>1. AlertInv => AlertsReachClients
  BY DEF AlertInv
<1> QED
  BY <1>1, AlertsCorrect, PTL

(* A bottleneck for which a mail went out is marked when its handler is    *)
(* done, however many handlers have found it, unless its row is gone.      *)
THEOREM MailsAreMarked == Spec => []MailedAreMarked
<1>1. AlertInv => MailedAreMarked
  BY DEF AlertInv, PendingMarks, MailedAreMarked
<1> QED
  BY <1>1, AlertsCorrect, PTL

=============================================================================
