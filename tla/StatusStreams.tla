---------------------------- MODULE StatusStreams ----------------------------
(***************************************************************************)
(* What a user is told of the runs: the status events that starts, stops   *)
(* and completions send, and the server-sent-event streams of              *)
(* LoadTestsService on which the user's clients hear them.                 *)
(*                                                                         *)
(* The runs are those of RunLifecycle, which LoadTestRuns implements.  A   *)
(* handler is what is left of a start, a stop or a completion here: it     *)
(* makes its step of the life cycle and then announces it.  All streams    *)
(* are of one user, as the map of subjects has one entry for each.         *)
(*                                                                         *)
(* A ping only keeps a connection alive, so of the ping timers the module  *)
(* keeps whether they run.  A client goes away once its stream is open.    *)
(***************************************************************************)
EXTENDS Naturals, FiniteSets

CONSTANTS
    Run,        \* run-history ids
    Handler,    \* starts, stops and completions at work at once
    Client,     \* clients of the user: browser tabs
    Stream,     \* subjects the process can create; bounds their number
    NoRun,      \* no run
    NoStream    \* no subject

ASSUME StreamsAssumption == NoRun \notin Run /\ NoStream \notin Stream

VARIABLES
    runs,       \* what the run-history table says of each run
    handler,    \* starts, stops and completions
    entry,      \* usersSubjects: the subject of the user, if there is one
    pinging,    \* the subjects whose ping timer is set
    client,     \* the user's clients and what they have heard
    left,       \* history: the subjects whose first client has left
    overtaken,  \* history: runs announced as RUNNING after their end
    hushed      \* history: runs of which the event of a stop got lost

told == <<left, overtaken, hushed>>
vars == <<runs, handler, entry, pinging, client, told>>

Runs == INSTANCE RunLifecycle

Status == Runs!RunHistoryStatus
Ended(r) == runs[r].status \in Runs!Terminal

-----------------------------------------------------------------------------
(* A handler that starts holds the run; one that has written an outcome    *)
(* measures and announces it.                                              *)
HandlerPc == {"idle", "starting", "measuring", "announcing"}
IdleHandler == [pc |-> "idle", run |-> NoRun, status |-> "NONE"]

HandlerRecord == [pc : HandlerPc, run : Run \cup {NoRun}, status : Status \cup {"NONE"}]

(* A client that finds no subject makes one and waits for the running jobs *)
(* ("asking"), then for them to be sent ("sending"); any client is without *)
(* a subscription until its response is set up ("opening").                *)
ClientPc == {"off", "asking", "sending", "opening", "open"}

NothingHeard == [r \in Run |-> "NONE"]
IdleClient == [pc |-> "off", stream |-> NoStream, first |-> FALSE, early |-> FALSE,
               jobs |-> {}, heard |-> NothingHeard]

(* early is history: a subject was joined before its first client had the  *)
(* running jobs sent.                                                      *)
ClientRecord == [pc : ClientPc, stream : Stream \cup {NoStream}, first : BOOLEAN,
                 early : BOOLEAN, jobs : SUBSET Run,
                 heard : [Run -> Status \cup {"NONE"}]]

RunRecord == [status : Status \cup {"NONE", "DELETED"}, runAt : BOOLEAN,
              endAt : BOOLEAN, measured : BOOLEAN]

TypeOK ==
    /\ runs \in [Run -> RunRecord]
    /\ handler \in [Handler -> HandlerRecord]
    /\ entry \in Stream \cup {NoStream}
    /\ pinging \subseteq Stream
    /\ client \in [Client -> ClientRecord]
    /\ left \subseteq Stream
    /\ overtaken \subseteq Run
    /\ hushed \subseteq Run

Init ==
    /\ Runs!Init
    /\ handler = [h \in Handler |-> IdleHandler]
    /\ entry = NoStream
    /\ pinging = {}
    /\ client = [c \in Client |-> IdleClient]
    /\ left = {} /\ overtaken = {} /\ hushed = {}

streams == <<entry, pinging, client, told>>

-----------------------------------------------------------------------------
(* Starts, stops and completions *)

Takes(h, pc, r, status) ==
    handler' = [handler EXCEPT ![h] = [pc |-> pc, run |-> r, status |-> status]]

(* runTest creates a row or takes a RUNNING one up again. *)
StartRun(h, r) ==
    /\ handler[h].pc = "idle"
    /\ Runs!Create(r) \/ (runs[r].status = "RUNNING" /\ UNCHANGED runs)
    /\ Takes(h, "starting", r, "NONE")
    /\ UNCHANGED streams

Started(h) ==
    /\ handler[h].pc = "starting"
    /\ Runs!SetRunAt(handler[h].run)
    /\ Takes(h, "announcing", handler[h].run, "RUNNING")
    /\ UNCHANGED streams

StartFailed(h) ==
    /\ handler[h].pc = "starting"
    /\ Runs!FailToStart(handler[h].run)
    /\ Takes(h, "announcing", handler[h].run, "FAILED")
    /\ UNCHANGED streams

(* Its row is gone, or there is no point to date the failure with. *)
StartGivesUp(h) ==
    /\ handler[h].pc = "starting"
    /\ handler' = [handler EXCEPT ![h] = IdleHandler]
    /\ UNCHANGED <<runs, streams>>

StopRun(h, r) ==
    /\ handler[h].pc = "idle"
    /\ Runs!End(r, "ABORTED")
    /\ Takes(h, "announcing", r, "ABORTED")
    /\ UNCHANGED streams

CompleteRun(h, r, status) ==
    /\ handler[h].pc = "idle"
    /\ Runs!End(r, status)
    /\ Takes(h, "measuring", r, status)
    /\ UNCHANGED streams

(* Mutant: a completion that is measured is not announced. *)
MeasureRun_Silent(h) ==
    /\ handler[h].pc = "measuring"
    /\ Runs!Measure(handler[h].run, handler[h].status)
    /\ handler' = [handler EXCEPT ![h] = IdleHandler]
    /\ UNCHANGED streams

MeasureRun(h) ==
    /\ handler[h].pc = "measuring"
    /\ Runs!Measure(handler[h].run, handler[h].status)
    /\ Takes(h, "announcing", handler[h].run, handler[h].status)
    /\ UNCHANGED streams

RemoveRuns(S) ==
    /\ S # {}
    /\ Runs!Remove(S)
    /\ UNCHANGED <<handler, streams>>

-----------------------------------------------------------------------------
(* Events *)

(* Subject.next on the subject that is in the map by now, if there is one. *)
Hearing(c) == client[c].pc = "open" /\ client[c].stream = entry

Tell(R, status) ==
    [c \in Client |->
        IF Hearing(c)
        THEN [client[c] EXCEPT !.heard =
                [r \in Run |-> IF r \in R THEN status ELSE @[r]]]
        ELSE client[c]]

(* emitStatusUpdate: Redis answers in the order of the publications, so    *)
(* the publication and the event of the stream are one step.               *)
Announce(h) ==
    /\ handler[h].pc = "announcing"
    /\ client' = Tell({handler[h].run}, handler[h].status)
    /\ overtaken' = IF handler[h].status = "RUNNING" /\ Ended(handler[h].run)
                    THEN overtaken \cup {handler[h].run} ELSE overtaken
    /\ handler' = [handler EXCEPT ![h] = IdleHandler]
    /\ UNCHANGED <<runs, entry, pinging, left, hushed>>

(* Redis refuses the publication: stopTest answers 500, its event is lost. *)
StopUnannounced(h) ==
    /\ handler[h].pc = "announcing"
    /\ handler[h].status = "ABORTED"
    /\ handler' = [handler EXCEPT ![h] = IdleHandler]
    /\ hushed' = hushed \cup {handler[h].run}
    /\ UNCHANGED <<runs, entry, pinging, client, left, overtaken>>

(* The process ends, with or without onModuleDestroy: streams, timers and  *)
(* handlers go, rows stay.                                                 *)
ProcessDies ==
    /\ handler' = [h \in Handler |-> IdleHandler]
    /\ entry' = NoStream
    /\ pinging' = {}
    /\ client' = [c \in Client |-> IdleClient]
    /\ left' = {} /\ overtaken' = {} /\ hushed' = {}
    /\ UNCHANGED runs

Crash == ProcessDies

(* Nobody awaits the event of a start, nor a completion: the first of its  *)
(* calls that fails ends the process.                                      *)
UnhandledRejection(h) ==
    /\ handler[h].pc \in {"measuring", "announcing"}
    /\ handler[h].status # "ABORTED"
    /\ ProcessDies

-----------------------------------------------------------------------------
(* Streams *)

Connecting(s) ==
    \E c \in Client : client[c].stream = s /\ client[c].pc \in {"asking", "sending"}

(* Mutant: the map is asked before an await and not again. *)
Subscribe_Unchecked(c, s) ==
    /\ client[c].pc = "off"
    /\ s \notin pinging
    /\ entry' = s
    /\ pinging' = pinging \cup {s}
    /\ client' = [client EXCEPT ![c] =
            [IdleClient EXCEPT !.pc = "asking", !.stream = s, !.first = TRUE]]
    /\ UNCHANGED <<runs, handler, told>>

(* subscribeToUserStatus: the first client makes the subject and its timer *)
(* and asks for the running jobs.                                          *)
Subscribe(c, s) ==
    /\ client[c].pc = "off"
    /\ entry = NoStream
    /\ s \notin pinging
    /\ entry' = s
    /\ pinging' = pinging \cup {s}
    /\ client' = [client EXCEPT ![c] =
            [IdleClient EXCEPT !.pc = "asking", !.stream = s, !.first = TRUE]]
    /\ UNCHANGED <<runs, handler, told>>

(* getCurrentUserStatus: the others take the subject they find. *)
Join(c) ==
    /\ client[c].pc = "off"
    /\ entry # NoStream
    /\ client' = [client EXCEPT ![c] =
            [IdleClient EXCEPT !.pc = "opening", !.stream = entry,
                               !.early = Connecting(entry)]]
    /\ UNCHANGED <<runs, handler, entry, pinging, told>>

FindRunningJobs(c) ==
    /\ client[c].pc = "asking"
    /\ client' = [client EXCEPT ![c].pc = "sending",
                       ![c].jobs = {r \in Run : runs[r].status = "RUNNING"}]
    /\ UNCHANGED <<runs, handler, entry, pinging, told>>

(* The query fails: the client gets a 500, its subject stays in the map.   *)
FindFails(c) ==
    /\ client[c].pc = "asking"
    /\ client' = [client EXCEPT ![c] = IdleClient]
    /\ UNCHANGED <<runs, handler, entry, pinging, told>>

(* The running jobs go to whoever has subscribed by now. *)
SendJobs(c) ==
    /\ client[c].pc = "sending"
    /\ client' = [Tell(client[c].jobs, "RUNNING")
                    EXCEPT ![c].pc = "opening", ![c].jobs = {}]
    /\ UNCHANGED <<runs, handler, entry, pinging, told>>

Open(c) ==
    /\ client[c].pc = "opening"
    /\ client' = [client EXCEPT ![c].pc = "open"]
    /\ UNCHANGED <<runs, handler, entry, pinging, told>>

(* Mutant: the timer is cleared with the entry of the map. *)
Leave_Silences(c) ==
    /\ client[c].pc = "open"
    /\ client' = [client EXCEPT ![c] = IdleClient]
    /\ IF client[c].first
       THEN /\ entry' = NoStream
            /\ left' = left \cup {client[c].stream}
            /\ pinging' = pinging \ {client[c].stream}
       ELSE UNCHANGED <<entry, left, pinging>>
    /\ UNCHANGED <<runs, handler, overtaken, hushed>>

(* Mutant: every client that leaves takes the entry of the map with it. *)
Leave_Any(c) ==
    /\ client[c].pc = "open"
    /\ client' = [client EXCEPT ![c] = IdleClient]
    /\ entry' = NoStream
    /\ left' = IF client[c].first THEN left \cup {client[c].stream} ELSE left
    /\ UNCHANGED <<runs, handler, pinging, overtaken, hushed>>

(* The connection is closed.  Only the observable of the first client has  *)
(* a teardown of its own: it drops the user's entry, whoever else is on    *)
(* the subject, and leaves its timer.                                      *)
Leave(c) ==
    /\ client[c].pc = "open"
    /\ client' = [client EXCEPT ![c] = IdleClient]
    /\ IF client[c].first
       THEN entry' = NoStream /\ left' = left \cup {client[c].stream}
       ELSE UNCHANGED <<entry, left>>
    /\ UNCHANGED <<runs, handler, pinging, overtaken, hushed>>

-----------------------------------------------------------------------------
Work(h) ==
    \/ Started(h) \/ StartFailed(h) \/ StartGivesUp(h)
    \/ MeasureRun(h) \/ Announce(h) \/ StopUnannounced(h) \/ UnhandledRejection(h)

Connect(c) ==
    \/ \E s \in Stream : Subscribe(c, s)
    \/ Join(c) \/ FindRunningJobs(c) \/ FindFails(c) \/ SendJobs(c) \/ Open(c)

Next ==
    \/ \E h \in Handler, r \in Run : StartRun(h, r) \/ StopRun(h, r)
    \/ \E h \in Handler, r \in Run, v \in {"SUCCESS", "FAILED"} : CompleteRun(h, r, v)
    \/ \E h \in Handler : Work(h)
    \/ \E S \in SUBSET Run : RemoveRuns(S)
    \/ \E c \in Client : Connect(c) \/ Leave(c)
    \/ Crash

Spec == Init /\ [][Next]_vars

(* Node goes on with a handler when the call it awaits has ended.          *)
Fairness == \A h \in Handler : WF_vars(Work(h))

FairSpec == Spec /\ Fairness

-----------------------------------------------------------------------------
(* Properties *)

Busy(r) == \E h \in Handler :
    handler[h].run = r /\ handler[h].pc \in {"measuring", "announcing"}

(* What may leave a client with an outdated view of run r: the client that *)
(* made its subject has left, it came before that client was served, a     *)
(* stop overtook the start of the run, or the event of a stop got lost.    *)
Excused(c, r) ==
    \/ client[c].stream \in left \/ client[c].early
    \/ r \in overtaken \/ r \in hushed

OutdatedView(c, r) ==
    client[c].pc = "open" /\ client[c].heard[r] = "RUNNING" /\ Ended(r)

(* A client that takes an ended run for a running one will be told: some   *)
(* handler is about to announce the end, and that in whatever order        *)
(* starts, ends, arrivals, departures and the jobs sent to a new stream    *)
(* came.  There are no other ways to an outdated view than those Excused   *)
(* names.                                                                  *)
ViewsSettle ==
    \A c \in Client, r \in Run : OutdatedView(c, r) => Excused(c, r) \/ Busy(r)

(* And it is told in the end, unless it leaves or the row goes first.      *)
EndsAreTold ==
    \A c \in Client, r \in Run :
        OutdatedView(c, r) ~> (~OutdatedView(c, r) \/ Excused(c, r))

(* A connection that nobody writes to is cut by proxies: whoever waits on  *)
(* a subject is pinged there, also after the client that made it has left. *)
ClientsArePinged ==
    \A c \in Client : client[c].pc # "off" => client[c].stream \in pinging

-----------------------------------------------------------------------------
(* The inductive strengthening *)

(* A busy handler has the run and, past its write, the outcome in hand.    *)
HandlersHoldRuns ==
    \A h \in Handler :
        /\ handler[h].pc # "idle" => handler[h].run \in Run
        /\ handler[h].pc = "measuring" => handler[h].status \in {"SUCCESS", "FAILED"}
        /\ handler[h].pc = "announcing" => handler[h].status \in Status

(* The entry is pinged, was not left, and is where every client is that    *)
(* the first one has not left.                                             *)
SharedEntry ==
    /\ left \subseteq pinging
    /\ entry # NoStream => entry \in pinging \ left
    /\ \A c \in Client : client[c].pc # "off" =>
            client[c].stream \in pinging /\ client[c].stream \in left \cup {entry}

(* No two clients make a subject side by side, and the one that has made   *)
(* the present one keeps it in the map.                                    *)
OneFirst ==
    /\ \A c \in Client : client[c].first =>
            client[c].pc # "off" /\ client[c].stream = entry
    /\ \A c, d \in Client : client[c].first /\ client[d].first => c = d
    /\ \A c \in Client : client[c].pc \in {"asking", "sending"} => client[c].first

(* While the first client is not served, the others on its subject know.   *)
EarlyOnesKnow ==
    \A c, d \in Client :
        /\ client[c].pc \in {"asking", "sending"}
        /\ d # c /\ client[d].pc # "off" /\ client[d].stream = client[c].stream
        => client[d].early

(* Nothing is heard before the response is set up. *)
DeafUntilOpen ==
    \A c \in Client, r \in Run :
        client[c].pc # "open" => client[c].heard[r] = "NONE"

StreamsInv ==
    /\ TypeOK /\ HandlersHoldRuns /\ SharedEntry /\ OneFirst /\ EarlyOnesKnow
    /\ DeafUntilOpen /\ ViewsSettle

=============================================================================
