-------------------------- MODULE BottleneckAlerts --------------------------
(***************************************************************************)
(* BottlenecksService of testify-server: the events of the AI service that *)
(* become mails, marks in the database and server-sent events, and the     *)
(* streams over which the clients of a user receive the latter.            *)
(*                                                                         *)
(* The module follows one user: the map of streams has an entry for each   *)
(* user and no step touches two of them.  The ping events, the text of     *)
(* mails and events and the read-only queries of the API are left out.     *)
(***************************************************************************)
EXTENDS Naturals, Sequences, FiniteSets

CONSTANTS
    Bottleneck,  \* rows the AI service writes
    Key,         \* user:run:step, what the window of ten minutes is kept for
    KeyOf,       \* the key of each bottleneck
    Handler,     \* events that can be handled at once
    Client,      \* open pages of the user
    Stream,      \* subjects the process can create
    Window,      \* ten minutes
    MaxNow,      \* bound: the clock stops there
    NoKey,       \* no key
    NoBottleneck,
    NoStream     \* no subject

ASSUME AlertAssumption ==
    /\ KeyOf \in [Bottleneck -> Key]
    /\ Window \in Nat
    /\ MaxNow \in Nat \ {0}
    /\ NoKey \notin Key
    /\ NoBottleneck \notin Bottleneck
    /\ NoStream \notin Stream

VARIABLES
    rows,      \* the bottleneck table
    last,      \* lastAlertTimestamp, 0 where the map has no entry
    handlers,  \* calls of handleAlert
    stream,    \* the subject in usersSubjects
    clients,   \* the clients and the subject each listens to
    now,       \* the clock, from 1
    up,        \* is the process running?
    alerts,    \* history: when each key was alerted, since the process started
    mailed,    \* history: the bottlenecks mailed since then
    missed,    \* history: clients that an alert passed by while they were open
    bereft     \* history: clients that were connected when another one left

vars == <<rows, last, handlers, stream, clients, now, up,
          alerts, mailed, missed, bereft>>

-----------------------------------------------------------------------------
Time == 1..MaxNow

RowState == {"none", "new", "alerted", "removed"}

Idle == [pc |-> "idle", key |-> NoKey, found |-> {}, target |-> NoBottleneck,
         todo |-> {}]

HandlerRecord ==
    [pc : {"idle", "query", "check", "alert"}, key : Key \cup {NoKey},
     found : SUBSET Bottleneck, target : Bottleneck \cup {NoBottleneck},
     todo : SUBSET {"mail", "mark"}]

Closed == [pc |-> "closed", stream |-> NoStream]

ClientRecord == [pc : {"closed", "called", "open"}, stream : Stream \cup {NoStream}]

TypeOK ==
    /\ rows \in [Bottleneck -> RowState]
    /\ last \in [Key -> {0} \cup Time]
    /\ handlers \in [Handler -> HandlerRecord]
    /\ stream \in Stream \cup {NoStream}
    /\ clients \in [Client -> ClientRecord]
    /\ now \in Time
    /\ up \in BOOLEAN
    /\ alerts \in [Key -> Seq(Time)]
    /\ mailed \subseteq Bottleneck
    /\ missed \subseteq Client
    /\ bereft \subseteq Client

Init ==
    /\ rows = [b \in Bottleneck |-> "none"]
    /\ last = [k \in Key |-> 0]
    /\ handlers = [h \in Handler |-> Idle]
    /\ stream = NoStream
    /\ clients = [c \in Client |-> Closed]
    /\ now = 1
    /\ up = TRUE
    /\ alerts = [k \in Key |-> <<>>]
    /\ mailed = {}
    /\ missed = {}
    /\ bereft = {}

streams == <<stream, clients, missed, bereft>>
handling == <<last, handlers, alerts, mailed>>

-----------------------------------------------------------------------------
(* handleAlert *)

Message(h, k) ==
    /\ up
    /\ handlers[h].pc = "idle"
    /\ handlers' = [handlers EXCEPT ![h] = [Idle EXCEPT !.pc = "query", !.key = k]]
    /\ UNCHANGED <<rows, last, alerts, mailed, now, up, streams>>

GetBottlenecks(h) ==
    /\ handlers[h].pc = "query"
    /\ handlers' = [handlers EXCEPT ![h].pc = "check",
            ![h].found = {b \in Bottleneck : /\ KeyOf[b] = handlers[h].key
                                             /\ rows[b] = "new"}]
    /\ UNCHANGED <<rows, last, alerts, mailed, now, up, streams>>

(* More than ten minutes ago, or not since the process started. *)
WindowIsOver(k) == last[k] = 0 \/ last[k] + Window < now

Connected(c) == clients[c].pc # "closed"

(* The subject in the map passes an alert to those who listen to it. *)
EmitAlert ==
    missed' = missed \cup {c \in Client : /\ clients[c].pc = "open"
                                          /\ clients[c].stream # stream}

(* Mutant of CheckWindow: the window is not closed by the alert. *)
CheckWindow_Open(h) ==
    LET k == handlers[h].key IN
    /\ handlers[h].pc = "check"
    /\ IF handlers[h].found # {} /\ WindowIsOver(k)
       THEN /\ \E b \in handlers[h].found :
                /\ handlers' = [handlers EXCEPT ![h] =
                       [Idle EXCEPT !.pc = "alert", !.key = k, !.target = b,
                                    !.todo = {"mail", "mark"}]]
                /\ mailed' = mailed \cup {b}
            /\ alerts' = [alerts EXCEPT ![k] = Append(@, now)]
            /\ EmitAlert
       ELSE /\ handlers' = [handlers EXCEPT ![h] = Idle]
            /\ UNCHANGED <<alerts, mailed, missed>>
    /\ UNCHANGED <<rows, last, stream, clients, now, up, bereft>>

(* The loop over the rows runs without an await up to its first alert, and *)
(* that alert closes the window for the rows after it.                     *)
CheckWindow(h) ==
    LET k == handlers[h].key IN
    /\ handlers[h].pc = "check"
    /\ IF handlers[h].found # {} /\ WindowIsOver(k)
       THEN /\ \E b \in handlers[h].found :
                /\ handlers' = [handlers EXCEPT ![h] =
                       [Idle EXCEPT !.pc = "alert", !.key = k, !.target = b,
                                    !.todo = {"mail", "mark"}]]
                /\ mailed' = mailed \cup {b}
            /\ last' = [last EXCEPT ![k] = now]
            /\ alerts' = [alerts EXCEPT ![k] = Append(@, now)]
            /\ EmitAlert
       ELSE /\ handlers' = [handlers EXCEPT ![h] = Idle]
            /\ UNCHANGED <<last, alerts, mailed, missed>>
    /\ UNCHANGED <<rows, stream, clients, now, up, bereft>>

(* Mutant of Done: the handler is done with the first of the two. *)
Done_First(h, part) == handlers' = [handlers EXCEPT ![h] = Idle]

(* Promise.all: the mail and the mark are under way side by side. *)
Done(h, part) ==
    IF handlers[h].todo = {part}
    THEN handlers' = [handlers EXCEPT ![h] = Idle]
    ELSE handlers' = [handlers EXCEPT ![h].todo = @ \ {part}]

MailSent(h) ==
    /\ "mail" \in handlers[h].todo
    /\ Done(h, "mail")
    /\ UNCHANGED <<rows, last, alerts, mailed, now, up, streams>>

Mark(h) ==
    /\ "mark" \in handlers[h].todo
    /\ rows[handlers[h].target] # "removed"
    /\ rows' = [rows EXCEPT ![handlers[h].target] = "alerted"]
    /\ Done(h, "mark")
    /\ UNCHANGED <<last, alerts, mailed, now, up, streams>>

-----------------------------------------------------------------------------
(* The process *)

ProcessDies ==
    /\ up' = FALSE
    /\ handlers' = [h \in Handler |-> Idle]
    /\ last' = [k \in Key |-> 0]
    /\ stream' = NoStream
    /\ clients' = [c \in Client |-> Closed]
    /\ alerts' = [k \in Key |-> <<>>]
    /\ mailed' = {}
    /\ missed' = {}
    /\ bereft' = {}

(* A query or a mail that fails, or an update of a row that is gone, ends  *)
(* the process: nobody awaits handleAlert or the functions of its loop.    *)
UnhandledRejection(h) ==
    /\ \/ handlers[h].pc = "query"
       \/ "mail" \in handlers[h].todo
       \/ "mark" \in handlers[h].todo
    /\ ProcessDies
    /\ UNCHANGED <<rows, now>>

Crash ==
    /\ up
    /\ ProcessDies
    /\ UNCHANGED <<rows, now>>

Boot ==
    /\ ~up
    /\ up' = TRUE
    /\ UNCHANGED <<rows, now, handling, streams>>

-----------------------------------------------------------------------------
(* Streams *)

(* Mutant of SubscribeToUserAlerts: every client gets a subject of its own. *)
SubscribeToUserAlerts_Always(c) ==
    /\ up
    /\ clients[c].pc = "closed"
    /\ stream' \in {s \in Stream : \A d \in Client : clients[d].stream # s}
    /\ clients' = [clients EXCEPT ![c] = [pc |-> "called", stream |-> stream']]
    /\ UNCHANGED <<rows, now, up, handling, missed, bereft>>

SubscribeToUserAlerts(c) ==
    /\ up
    /\ clients[c].pc = "closed"
    /\ IF stream = NoStream
       THEN stream' \in {s \in Stream : \A d \in Client : clients[d].stream # s}
       ELSE UNCHANGED stream
    /\ clients' = [clients EXCEPT ![c] = [pc |-> "called", stream |-> stream']]
    /\ UNCHANGED <<rows, now, up, handling, missed, bereft>>

(* The framework subscribes to the Observable once it has been returned. *)
Open(c) ==
    /\ clients[c].pc = "called"
    /\ clients' = [clients EXCEPT ![c].pc = "open"]
    /\ UNCHANGED <<rows, now, up, handling, stream, missed, bereft>>

(* The one who leaves deletes the entry of the user, whoever uses it. *)
Leave(c) ==
    /\ clients[c].pc = "open"
    /\ clients' = [clients EXCEPT ![c] = Closed]
    /\ stream' = NoStream
    /\ missed' = missed \ {c}
    /\ bereft' = {d \in Client \ {c} : d \in bereft \/ Connected(d)}
    /\ UNCHANGED <<rows, now, up, handling>>

-----------------------------------------------------------------------------
(* The AI service, the database and the clock *)

Detected(b) ==
    /\ rows[b] = "none"
    /\ rows' = [rows EXCEPT ![b] = "new"]
    /\ UNCHANGED <<now, up, handling, streams>>

(* The run, the scenario or the step goes, and its bottlenecks with it. *)
RowsRemoved(k) ==
    /\ \E b \in Bottleneck : KeyOf[b] = k /\ rows[b] \in {"new", "alerted"}
    /\ rows' = [b \in Bottleneck |->
                   IF KeyOf[b] = k /\ rows[b] # "none" THEN "removed" ELSE rows[b]]
    /\ UNCHANGED <<now, up, handling, streams>>

TimePasses ==
    /\ now < MaxNow
    /\ now' = now + 1
    /\ UNCHANGED <<rows, up, handling, streams>>

-----------------------------------------------------------------------------
HandleAlert(h) ==
    \/ GetBottlenecks(h) \/ CheckWindow(h) \/ MailSent(h) \/ Mark(h)
    \/ UnhandledRejection(h)

ClientSteps(c) == SubscribeToUserAlerts(c) \/ Open(c) \/ Leave(c)

Next ==
    \/ \E h \in Handler : HandleAlert(h) \/ \E k \in Key : Message(h, k)
    \/ \E c \in Client : ClientSteps(c)
    \/ Crash
    \/ Boot
    \/ \E b \in Bottleneck : Detected(b)
    \/ \E k \in Key : RowsRemoved(k)
    \/ TimePasses

Spec == Init /\ [][Next]_vars

-----------------------------------------------------------------------------
(* Properties *)

(* However the handlers of one step overlap, and however long their        *)
(* queries take, the mails for one step are more than ten minutes apart    *)
(* as long as the process lives.                                           *)
AlertsAreSpaced ==
    \A k \in Key : \A i, j \in DOMAIN alerts[k] :
        i < j => alerts[k][i] + Window < alerts[k][j]

(* A bottleneck for which a mail went out is marked when its handler is    *)
(* done, so that no later event alerts it again.                           *)
MailedAreMarked ==
    \A b \in mailed :
        \/ rows[b] \in {"alerted", "removed"}
        \/ \E h \in Handler : handlers[h].target = b

(* An open client misses an alert only if another client of the user has   *)
(* left while it was connected.                                            *)
AlertsReachClients == missed \subseteq bereft

-----------------------------------------------------------------------------
(* The inductive strengthening of these properties. *)

(* The last alert of a key is what the process remembers of it. *)
LastAlerts ==
    \A k \in Key :
        /\ last[k] <= now
        /\ alerts[k] # <<>> => last[k] # 0
        /\ \A i \in DOMAIN alerts[k] : alerts[k][i] <= last[k]

(* A client whom nobody has left alone listens to the subject of the map.  *)
SharedStream ==
    \A c \in Client : Connected(c) /\ c \notin bereft =>
        /\ stream # NoStream
        /\ clients[c].stream = stream

(* A handler has something under way after its alert only, and until the  *)
(* mark of what it has mailed is set, that is under way.                   *)
PendingMarks ==
    /\ \A h \in Handler : handlers[h].pc # "alert" => handlers[h].todo = {}
    /\ \A b \in mailed :
        \/ rows[b] \in {"alerted", "removed"}
        \/ \E h \in Handler : handlers[h].target = b /\ "mark" \in handlers[h].todo

AlertInv ==
    /\ TypeOK
    /\ LastAlerts
    /\ AlertsAreSpaced
    /\ PendingMarks
    /\ SharedStream
    /\ AlertsReachClients

=============================================================================
