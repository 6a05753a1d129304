------------------------ MODULE StatusStreamsProofs ------------------------
(***************************************************************************)
(* Proofs about StatusStreams, for any sets of runs, handlers, clients and *)
(* subjects.  StreamsInv is inductive: whoever can hear an event waits on  *)
(* the entry of the map, whoever cannot was left by the client that made   *)
(* its subject, and an end is in some handler's hand until it is heard.    *)
(***************************************************************************)
EXTENDS StatusStreams, TLAPS

(* Steps of the life cycle keep the type of the rows. *)
LEMMA RunsType ==
    ASSUME runs \in [Run -> RunRecord], NEW r \in Run, NEW st \in Status,
           \/ Runs!Create(r) \/ Runs!SetRunAt(r) \/ Runs!FailToStart(r)
           \/ Runs!End(r, st) \/ Runs!Measure(r, st)
    PROVE  /\ runs' \in [Run -> RunRecord]
           /\ \A q \in Run : q # r => runs'[q] = runs[q]
<1>1. CASE Runs!Create(r)
  BY <1>1 DEF Runs!Create, Runs!Write, Runs!Fresh, RunRecord, Status,
     Runs!RunHistoryStatus
<1>2. CASE Runs!SetRunAt(r)
  <2>1. [runs[r] EXCEPT !.runAt = TRUE] \in RunRecord
    BY DEF RunRecord
  <2> QED
    BY <1>2, <2>1 DEF Runs!SetRunAt, Runs!Write
<1>3. CASE Runs!FailToStart(r)
  <2>1. [runs[r] EXCEPT !.status = "FAILED", !.runAt = TRUE, !.endAt = TRUE] \in RunRecord
    BY DEF RunRecord, Status, Runs!RunHistoryStatus, Runs!Terminal
  <2> QED
    BY <1>3, <2>1 DEF Runs!FailToStart, Runs!Write
<1>4. CASE Runs!End(r, st)
  <2>1. [runs[r] EXCEPT !.status = st, !.endAt = TRUE] \in RunRecord
    BY DEF RunRecord
  <2> QED
    BY <1>4, <2>1 DEF Runs!End, Runs!Write
<1>5. CASE Runs!Measure(r, st)
  <2>1. [runs[r] EXCEPT !.status = st, !.measured = TRUE] \in RunRecord
    BY DEF RunRecord
  <2> QED
    BY <1>5, <2>1 DEF Runs!Measure, Runs!Write
<1> QED
  BY <1>1, <1>2, <1>3, <1>4, <1>5

(* A step of a handler that touches no stream: it may end only the run it  *)
(* goes on to announce, and drops no announcement.                         *)
LEMMA HandlerInv ==
    ASSUME StreamsInv, NEW h \in Handler, NEW rec \in HandlerRecord,
           handler' = [handler EXCEPT ![h] = rec],
           runs' \in [Run -> RunRecord], UNCHANGED streams,
           rec.pc # "idle" => rec.run \in Run,
           rec.pc = "measuring" => rec.status \in {"SUCCESS", "FAILED"},
           rec.pc = "announcing" => rec.status \in Status,
           handler[h].pc \in {"measuring", "announcing"} =>
               rec.pc \in {"measuring", "announcing"} /\ rec.run = handler[h].run,
           \A r \in Run : runs'[r].status \in Runs!Terminal =>
               Ended(r) \/ (rec.run = r /\ rec.pc \in {"measuring", "announcing"})
    PROVE  StreamsInv'
<1>1. /\ handler' \in [Handler -> HandlerRecord]
      /\ handler'[h] = rec
      /\ \A g \in Handler : g # h => handler'[g] = handler[g]
  BY DEF StreamsInv, TypeOK
<1>2. TypeOK'
  BY <1>1 DEF StreamsInv, TypeOK, streams, told
<1>3. HandlersHoldRuns'
  BY <1>1 DEF StreamsInv, HandlersHoldRuns
<1>4. SharedEntry' /\ OneFirst' /\ EarlyOnesKnow' /\ DeafUntilOpen'
  BY DEF StreamsInv, SharedEntry, OneFirst, EarlyOnesKnow, DeafUntilOpen, streams, told
<1>5. ASSUME NEW c \in Client, NEW r \in Run, OutdatedView(c, r)'
      PROVE  Excused(c, r)' \/ Busy(r)'
  <2>1. CASE Ended(r)
    <3>1. Excused(c, r) \/ Busy(r)
      BY <1>5, <2>1 DEF StreamsInv, ViewsSettle, OutdatedView, streams
    <3>2. Excused(c, r) => Excused(c, r)'
      BY DEF Excused, streams, told
    <3>3. Busy(r) => Busy(r)'
      BY <1>1 DEF Busy
    <3> QED
      BY <3>1, <3>2, <3>3
  <2>2. CASE ~Ended(r)
    <3>1. rec.run = r /\ rec.pc \in {"measuring", "announcing"}
      BY <1>5, <2>2 DEF OutdatedView, Ended
    <3> QED
      BY <1>1, <3>1 DEF Busy
  <2> QED
    BY <2>1, <2>2
<1>6. ViewsSettle'
  BY <1>5 DEF ViewsSettle
<1> QED
  BY <1>2, <1>3, <1>4, <1>6 DEF StreamsInv

(* What Takes stores is a record of a handler. *)
LEMMA TakesRecord ==
    ASSUME NEW pc \in HandlerPc, NEW r \in Run, NEW st \in Status \cup {"NONE"}
    PROVE  [pc |-> pc, run |-> r, status |-> st] \in HandlerRecord
BY DEF HandlerRecord

LEMMA StartRunInv ==
    ASSUME StreamsInv, NEW h \in Handler, NEW r \in Run, StartRun(h, r)
    PROVE  StreamsInv'
<1> DEFINE rec == [pc |-> "starting", run |-> r, status |-> "NONE"]
<1>1. rec \in HandlerRecord
  BY TakesRecord DEF HandlerPc
<1>2. runs' \in [Run -> RunRecord] /\ \A q \in Run : q # r => runs'[q] = runs[q]
  BY RunsType DEF StreamsInv, TypeOK, StartRun, Status, Runs!RunHistoryStatus
<1>3. \A q \in Run : runs'[q].status \in Runs!Terminal => Ended(q)
  BY <1>2 DEF StartRun, Runs!Create, Runs!Write, Runs!Fresh, Runs!Terminal, Ended,
     StreamsInv, TypeOK
<1>4. handler[h].pc = "idle" /\ handler' = [handler EXCEPT ![h] = rec] /\ UNCHANGED streams
  BY DEF StartRun, Takes
<1> QED
  BY <1>1, <1>2, <1>3, <1>4, HandlerInv

LEMMA StartedInv ==
    ASSUME StreamsInv, NEW h \in Handler, Started(h)
    PROVE  StreamsInv'
<1> DEFINE r == handler[h].run
           rec == [pc |-> "announcing", run |-> r, status |-> "RUNNING"]
<1>1. r \in Run /\ handler[h].pc = "starting"
  BY DEF StreamsInv, HandlersHoldRuns, Started
<1>2. rec \in HandlerRecord /\ "RUNNING" \in Status
  BY <1>1, TakesRecord DEF HandlerPc, Status, Runs!RunHistoryStatus
<1>3. runs' \in [Run -> RunRecord] /\ \A q \in Run : q # r => runs'[q] = runs[q]
  BY <1>1, <1>2, RunsType DEF StreamsInv, TypeOK, Started
<1>4. runs'[r].status = runs[r].status
  BY <1>1 DEF Started, Runs!SetRunAt, Runs!Write, StreamsInv, TypeOK, RunRecord
<1>5. \A q \in Run : runs'[q].status \in Runs!Terminal => Ended(q)
  BY <1>3, <1>4 DEF Ended
<1>6. handler' = [handler EXCEPT ![h] = rec] /\ UNCHANGED streams
  BY DEF Started, Takes
<1> QED
  BY <1>1, <1>2, <1>3, <1>5, <1>6, HandlerInv

(* The steps that write an outcome go on to measure or to announce it. *)
LEMMA OutcomeInv ==
    ASSUME StreamsInv, NEW h \in Handler, NEW r \in Run, NEW pc \in HandlerPc,
           NEW st \in Status, Takes(h, pc, r, st), UNCHANGED streams,
           pc \in {"measuring", "announcing"},
           pc = "measuring" => st \in {"SUCCESS", "FAILED"},
           handler[h].pc \in {"measuring", "announcing"} => handler[h].run = r,
           Runs!FailToStart(r) \/ Runs!End(r, st) \/ Runs!Measure(r, st)
    PROVE  StreamsInv'
<1> DEFINE rec == [pc |-> pc, run |-> r, status |-> st]
<1>1. rec \in HandlerRecord
  BY TakesRecord
<1>2. runs' \in [Run -> RunRecord] /\ \A q \in Run : q # r => runs'[q] = runs[q]
  BY RunsType DEF StreamsInv, TypeOK
<1>3. \A q \in Run : runs'[q].status \in Runs!Terminal => Ended(q) \/ rec.run = q
  BY <1>2 DEF Ended
<1>4. handler' = [handler EXCEPT ![h] = rec]
  BY DEF Takes
<1> QED
  BY <1>1, <1>2, <1>3, <1>4, HandlerInv

(* A handler that has nothing to announce is over. *)
LEMMA StartGivesUpInv ==
    ASSUME StreamsInv, NEW h \in Handler, StartGivesUp(h)
    PROVE  StreamsInv'
<1>1. IdleHandler \in HandlerRecord /\ IdleHandler.pc = "idle"
  BY DEF IdleHandler, HandlerRecord, HandlerPc
<1>2. /\ handler[h].pc = "starting" /\ handler' = [handler EXCEPT ![h] = IdleHandler]
      /\ runs' = runs /\ UNCHANGED streams
  BY DEF StartGivesUp
<1>3. runs' \in [Run -> RunRecord]
  BY <1>2 DEF StreamsInv, TypeOK
<1>4. \A q \in Run : runs'[q].status \in Runs!Terminal => Ended(q)
  BY <1>2 DEF Ended
<1> QED
  BY <1>1, <1>2, <1>3, <1>4, HandlerInv

LEMMA RemoveRunsInv ==
    ASSUME StreamsInv, NEW S \in SUBSET Run, RemoveRuns(S)
    PROVE  StreamsInv'
<1>1. handler' = handler /\ UNCHANGED streams
  BY DEF RemoveRuns
<1>2. Runs!Fresh("DELETED") \in RunRecord /\ Runs!Fresh("DELETED").status = "DELETED"
  BY DEF Runs!Fresh, RunRecord
<1>3. runs' \in [Run -> RunRecord]
  BY <1>2 DEF RemoveRuns, Runs!Remove, StreamsInv, TypeOK
<1>4. \A r \in Run : Ended(r)' => Ended(r)
  BY <1>2 DEF RemoveRuns, Runs!Remove, Ended, Runs!Terminal
<1>5. TypeOK'
  BY <1>1, <1>3 DEF StreamsInv, TypeOK, streams, told
<1>6. HandlersHoldRuns' /\ SharedEntry' /\ OneFirst' /\ EarlyOnesKnow' /\ DeafUntilOpen'
  BY <1>1 DEF StreamsInv, HandlersHoldRuns, SharedEntry, OneFirst, EarlyOnesKnow,
     DeafUntilOpen, streams, told
<1>7. ViewsSettle'
  BY <1>1, <1>4 DEF StreamsInv, ViewsSettle, OutdatedView, Excused, Busy, streams, told
<1> QED
  BY <1>5, <1>6, <1>7 DEF StreamsInv

-----------------------------------------------------------------------------
(* Events *)

(* Where a client is, whatever it has heard. *)
SamePlace(x, y) ==
    x.pc = y.pc /\ x.stream = y.stream /\ x.first = y.first /\ x.early = y.early

(* Only those that are on the entry hear, and only of the runs told. *)
LEMMA TellHears ==
    ASSUME TypeOK, NEW R \in SUBSET Run, NEW st \in Status \cup {"NONE"},
           NEW c \in Client
    PROVE  /\ Tell(R, st)[c] \in ClientRecord
           /\ SamePlace(Tell(R, st)[c], client[c])
           /\ \A r \in Run :
                (Hearing(c) /\ r \in R) => (Tell(R, st)[c].heard[r] = st)
           /\ \A r \in Run :
                (~Hearing(c) \/ r \notin R) =>
                    (Tell(R, st)[c].heard[r] = client[c].heard[r])
<1> DEFINE hd == [r \in Run |-> IF r \in R THEN st ELSE client[c].heard[r]]
<1>1. client[c] \in ClientRecord
  BY DEF TypeOK
<1>2. hd \in [Run -> Status \cup {"NONE"}]
  BY <1>1 DEF ClientRecord
<1>3. Tell(R, st)[c] = IF Hearing(c) THEN [client[c] EXCEPT !.heard = hd] ELSE client[c]
  BY <1>1 DEF Tell, ClientRecord
<1>4. /\ [client[c] EXCEPT !.heard = hd] \in ClientRecord
      /\ [client[c] EXCEPT !.heard = hd].heard = hd
      /\ SamePlace([client[c] EXCEPT !.heard = hd], client[c])
  <2> HIDE DEF hd
  <2> QED
    BY <1>1, <1>2 DEF ClientRecord, SamePlace
<1>5. SamePlace(client[c], client[c])
  BY DEF SamePlace
<1> QED
  BY <1>1, <1>3, <1>4, <1>5

(* The streams stay what they are when only what is heard changes. *)
LEMMA HeardOnly ==
    ASSUME StreamsInv, UNCHANGED <<entry, pinging, left>>,
           client' \in [Client -> ClientRecord],
           \A c \in Client : SamePlace(client'[c], client[c])
    PROVE  SharedEntry' /\ OneFirst' /\ EarlyOnesKnow'
BY DEF SamePlace, StreamsInv, SharedEntry, OneFirst, EarlyOnesKnow

LEMMA AnnounceInv ==
    ASSUME StreamsInv, NEW h \in Handler, Announce(h)
    PROVE  StreamsInv'
<1> DEFINE r == handler[h].run
           st == handler[h].status
<1>1. r \in Run /\ st \in Status /\ handler[h].pc = "announcing"
  BY DEF StreamsInv, HandlersHoldRuns, Announce
<1>2. /\ client' = Tell({r}, st)
      /\ handler' = [handler EXCEPT ![h] = IdleHandler]
      /\ UNCHANGED <<runs, entry, pinging, left, hushed>>
      /\ overtaken \subseteq overtaken' /\ overtaken' \subseteq overtaken \cup {r}
      /\ st = "RUNNING" /\ Ended(r) => r \in overtaken'
  BY DEF Announce
<1>3. /\ client' \in [Client -> ClientRecord]
      /\ \A c \in Client : SamePlace(client'[c], client[c])
      /\ \A c \in Client, q \in Run :
            (Hearing(c) /\ q = r) => (client'[c].heard[q] = st)
      /\ \A c \in Client, q \in Run :
            (~Hearing(c) \/ q # r) => (client'[c].heard[q] = client[c].heard[q])
  <2> DEFINE R == {r}
  <2>1. /\ TypeOK /\ R \in SUBSET Run /\ st \in Status \cup {"NONE"}
        /\ \A q : q \in R <=> q = r
    BY <1>1 DEF StreamsInv
  <2>2. client' = [c \in Client |-> Tell(R, st)[c]]
    BY <1>2 DEF Tell
  <2> HIDE DEF R, r, st
  <2>3. ASSUME NEW c \in Client
        PROVE  /\ Tell(R, st)[c] \in ClientRecord
               /\ SamePlace(Tell(R, st)[c], client[c])
               /\ \A q \in Run :
                    (Hearing(c) /\ q \in R) => (Tell(R, st)[c].heard[q] = st)
               /\ \A q \in Run :
                    (~Hearing(c) \/ q \notin R) =>
                        (Tell(R, st)[c].heard[q] = client[c].heard[q])
    BY <2>1, TellHears
  <2>4. \A c \in Client : client'[c] = Tell(R, st)[c]
    BY <2>2
  <2>5. client' \in [Client -> ClientRecord]
    BY <2>2, <2>3
  <2> QED
    BY <2>1, <2>3, <2>4, <2>5
<1>4. /\ handler' \in [Handler -> HandlerRecord]
      /\ handler'[h].pc = "idle"
      /\ \A g \in Handler : g # h => handler'[g] = handler[g]
  BY <1>2 DEF IdleHandler, HandlerRecord, HandlerPc, StreamsInv, TypeOK
<1>5. TypeOK'
  BY <1>1, <1>2, <1>3, <1>4 DEF StreamsInv, TypeOK
<1>6. HandlersHoldRuns'
  BY <1>4 DEF StreamsInv, HandlersHoldRuns
<1>7. SharedEntry' /\ OneFirst' /\ EarlyOnesKnow'
  BY <1>2, <1>3, HeardOnly
<1>8. DeafUntilOpen'
  BY <1>3 DEF SamePlace, StreamsInv, DeafUntilOpen, Hearing
<1>9. ASSUME NEW c \in Client, NEW q \in Run, OutdatedView(c, q)'
      PROVE  Excused(c, q)' \/ Busy(q)'
  <2>1. Ended(q) /\ client[c].pc = "open"
    BY <1>2, <1>3, <1>9 DEF SamePlace, OutdatedView, Ended
  <2>2. Excused(c, q) => Excused(c, q)'
    BY <1>2, <1>3 DEF SamePlace, Excused
  <2>3. CASE q # r
    <3>1. Excused(c, q) \/ Busy(q)
      BY <1>3, <1>9, <2>1, <2>3 DEF SamePlace, OutdatedView, StreamsInv, ViewsSettle
    <3>2. Busy(q) => Busy(q)'
      BY <1>4, <2>3 DEF Busy
    <3> QED
      BY <2>2, <3>1, <3>2
  <2>4. CASE q = r /\ Hearing(c)
    <3>1. st = "RUNNING"
      BY <1>3, <1>9, <2>4 DEF OutdatedView
    <3> QED
      BY <1>2, <2>1, <2>4, <3>1 DEF Excused
  <2>5. CASE ~Hearing(c)
    <3>1. client[c].stream \in left
      BY <2>1, <2>5 DEF Hearing, StreamsInv, SharedEntry
    <3> QED
      BY <1>2, <1>3, <3>1 DEF SamePlace, Excused
  <2> QED
    BY <2>3, <2>4, <2>5
<1>10. ViewsSettle'
  BY <1>9 DEF ViewsSettle
<1> QED
  BY <1>5, <1>6, <1>7, <1>8, <1>10 DEF StreamsInv

LEMMA StopUnannouncedInv ==
    ASSUME StreamsInv, NEW h \in Handler, StopUnannounced(h)
    PROVE  StreamsInv'
<1> DEFINE r == handler[h].run
<1>1. /\ r \in Run
      /\ handler' = [handler EXCEPT ![h] = IdleHandler]
      /\ hushed' = hushed \cup {r}
      /\ UNCHANGED <<runs, entry, pinging, client, left, overtaken>>
  BY DEF StopUnannounced, StreamsInv, HandlersHoldRuns
<1>2. /\ handler' \in [Handler -> HandlerRecord]
      /\ handler'[h].pc = "idle"
      /\ \A g \in Handler : g # h => handler'[g] = handler[g]
  BY <1>1 DEF IdleHandler, HandlerRecord, HandlerPc, StreamsInv, TypeOK
<1>3. TypeOK' /\ HandlersHoldRuns'
  BY <1>1, <1>2 DEF StreamsInv, TypeOK, HandlersHoldRuns
<1>4. SharedEntry' /\ OneFirst' /\ EarlyOnesKnow' /\ DeafUntilOpen'
  BY <1>1 DEF StreamsInv, SharedEntry, OneFirst, EarlyOnesKnow, DeafUntilOpen
<1>5. ASSUME NEW c \in Client, NEW q \in Run, OutdatedView(c, q)'
      PROVE  Excused(c, q)' \/ Busy(q)'
  <2>1. Excused(c, q) \/ Busy(q)
    BY <1>1, <1>5 DEF OutdatedView, Ended, StreamsInv, ViewsSettle
  <2>2. Excused(c, q) \/ q = r => Excused(c, q)'
    BY <1>1 DEF Excused
  <2>3. q # r /\ Busy(q) => Busy(q)'
    BY <1>2 DEF Busy
  <2> QED
    BY <2>1, <2>2, <2>3
<1>6. ViewsSettle'
  BY <1>5 DEF ViewsSettle
<1> QED
  BY <1>3, <1>4, <1>6 DEF StreamsInv

(* A process that has just started holds what StreamsInv asks for. *)
LEMMA FreshInv ==
    ASSUME runs \in [Run -> RunRecord],
           handler = [h \in Handler |-> IdleHandler], entry = NoStream,
           pinging = {}, client = [c \in Client |-> IdleClient],
           left = {}, overtaken = {}, hushed = {}
    PROVE  StreamsInv
<1>1. /\ IdleHandler \in HandlerRecord /\ IdleHandler.pc = "idle"
      /\ IdleClient \in ClientRecord /\ IdleClient.pc = "off" /\ ~IdleClient.first
      /\ \A r \in Run : IdleClient.heard[r] = "NONE"
  BY DEF IdleHandler, HandlerRecord, HandlerPc, IdleClient, ClientRecord, ClientPc,
     NothingHeard
<1>2. /\ \A h \in Handler : handler[h] = IdleHandler
      /\ \A c \in Client : client[c] = IdleClient
  OBVIOUS
<1>3. TypeOK
  BY <1>1 DEF TypeOK
<1>4. HandlersHoldRuns /\ DeafUntilOpen /\ ViewsSettle
  BY <1>1, <1>2 DEF HandlersHoldRuns, DeafUntilOpen, ViewsSettle, OutdatedView
<1>5. SharedEntry /\ OneFirst /\ EarlyOnesKnow
  BY <1>1, <1>2 DEF SharedEntry, OneFirst, EarlyOnesKnow
<1> QED
  BY <1>3, <1>4, <1>5 DEF StreamsInv

-----------------------------------------------------------------------------
(* Streams.  A client that is not open has nothing to be outdated about,   *)
(* so a step of one client that tells nobody anything keeps ViewsSettle.   *)
LEMMA OneClient ==
    ASSUME StreamsInv, NEW c \in Client, NEW rec \in ClientRecord,
           client' = [client EXCEPT ![c] = rec],
           UNCHANGED <<runs, handler, overtaken, hushed>>,
           left \subseteq left', left' \subseteq Stream,
           entry' \in Stream \cup {NoStream}, pinging' \subseteq Stream,
           \A r \in Run : rec.heard[r] = "NONE"
    PROVE  /\ client'[c] = rec
           /\ \A d \in Client : d # c => client'[d] = client[d]
           /\ TypeOK' /\ HandlersHoldRuns' /\ DeafUntilOpen' /\ ViewsSettle'
<1>1. /\ client' \in [Client -> ClientRecord]
      /\ client'[c] = rec
      /\ \A d \in Client : d # c => client'[d] = client[d]
  BY DEF StreamsInv, TypeOK
<1>2. TypeOK'
  BY <1>1 DEF StreamsInv, TypeOK
<1>3. HandlersHoldRuns' /\ DeafUntilOpen'
  BY <1>1 DEF StreamsInv, HandlersHoldRuns, DeafUntilOpen
<1>4. ASSUME NEW d \in Client, NEW r \in Run, OutdatedView(d, r)'
      PROVE  Excused(d, r)' \/ Busy(r)'
  <2>1. d # c
    BY <1>1, <1>4 DEF OutdatedView
  <2>2. Excused(d, r) \/ Busy(r)
    BY <1>1, <1>4, <2>1 DEF OutdatedView, Ended, StreamsInv, ViewsSettle
  <2> QED
    BY <1>1, <2>1, <2>2 DEF Excused, Busy
<1>5. ViewsSettle'
  BY <1>4 DEF ViewsSettle
<1> QED
  BY <1>1, <1>2, <1>3, <1>5

(* A client that connects or goes; f says whether it made the subject. *)
LEMMA PlaceRecord ==
    ASSUME NEW pc \in ClientPc, NEW s \in Stream, NEW f \in BOOLEAN, NEW e \in BOOLEAN
    PROVE  LET rec == [IdleClient EXCEPT !.pc = pc, !.stream = s, !.first = f, !.early = e]
           IN  /\ rec \in ClientRecord /\ rec.pc = pc /\ rec.stream = s
               /\ (rec.first <=> f) /\ (rec.early <=> e)
               /\ \A r \in Run : rec.heard[r] = "NONE"
BY DEF IdleClient, ClientRecord, NothingHeard

LEMMA IdleRecord ==
    /\ IdleClient \in ClientRecord
    /\ IdleClient.pc = "off" /\ ~IdleClient.first
    /\ \A r \in Run : IdleClient.heard[r] = "NONE"
BY DEF IdleClient, ClientRecord, ClientPc, NothingHeard

LEMMA SubscribeInv ==
    ASSUME StreamsInv, NEW c \in Client, NEW s \in Stream, Subscribe(c, s)
    PROVE  StreamsInv'
<1> DEFINE rec == [IdleClient EXCEPT !.pc = "asking", !.stream = s, !.first = TRUE]
<1>1. /\ rec \in ClientRecord /\ rec.pc = "asking" /\ rec.stream = s /\ rec.first
      /\ \A r \in Run : rec.heard[r] = "NONE"
  BY DEF IdleClient, ClientRecord, ClientPc, NothingHeard
<1>2. /\ client' = [client EXCEPT ![c] = rec]
      /\ client[c].pc = "off" /\ entry = NoStream /\ s \notin pinging
      /\ entry' = s /\ pinging' = pinging \cup {s}
      /\ UNCHANGED <<runs, handler, left, overtaken, hushed>>
  BY DEF Subscribe, told
<1>3. left \subseteq Stream /\ pinging' \subseteq Stream
  BY <1>2 DEF StreamsInv, TypeOK
<1> HIDE DEF rec
<1>4. /\ client'[c] = rec
      /\ \A d \in Client : d # c => client'[d] = client[d]
      /\ TypeOK' /\ HandlersHoldRuns' /\ DeafUntilOpen' /\ ViewsSettle'
  BY <1>1, <1>2, <1>3, OneClient
<1>5. \A d \in Client : ~client[d].first
  BY <1>2, StreamsAssumption DEF StreamsInv, OneFirst, SharedEntry, TypeOK, ClientRecord
<1>6. SharedEntry'
  BY <1>1, <1>2, <1>4, StreamsAssumption DEF StreamsInv, SharedEntry, TypeOK
<1>7. OneFirst'
  BY <1>1, <1>2, <1>4, <1>5 DEF StreamsInv, OneFirst
<1>8. EarlyOnesKnow'
  BY <1>1, <1>2, <1>4, <1>5 DEF StreamsInv, EarlyOnesKnow, SharedEntry, OneFirst
<1> QED
  BY <1>4, <1>6, <1>7, <1>8 DEF StreamsInv

LEMMA JoinInv ==
    ASSUME StreamsInv, NEW c \in Client, Join(c)
    PROVE  StreamsInv'
<1> DEFINE e == Connecting(entry)
           rec == [IdleClient EXCEPT !.pc = "opening", !.stream = entry, !.early = e]
<1>1. entry \in Stream /\ e \in BOOLEAN
  BY DEF Join, StreamsInv, TypeOK, Connecting
<1>2. /\ rec \in ClientRecord /\ rec.pc = "opening" /\ rec.stream = entry
      /\ ~rec.first /\ (rec.early <=> e)
      /\ \A r \in Run : rec.heard[r] = "NONE"
  <2> HIDE DEF e
  <2> QED
    BY <1>1 DEF IdleClient, ClientRecord, ClientPc, NothingHeard
<1>3. /\ client' = [client EXCEPT ![c] = rec]
      /\ client[c].pc = "off" /\ entry # NoStream
      /\ UNCHANGED <<runs, handler, entry, pinging, left, overtaken, hushed>>
  BY DEF Join, told
<1>4. left' \subseteq Stream /\ pinging' \subseteq Stream /\ entry' \in Stream \cup {NoStream}
  BY <1>3 DEF StreamsInv, TypeOK
<1>5. \A d \in Client : client[d].stream = entry /\ client[d].pc \in {"asking", "sending"} => e
  BY DEF Connecting
<1> HIDE DEF rec, e
<1>6. /\ client'[c] = rec
      /\ \A d \in Client : d # c => client'[d] = client[d]
      /\ TypeOK' /\ HandlersHoldRuns' /\ DeafUntilOpen' /\ ViewsSettle'
  BY <1>2, <1>3, <1>4, OneClient
<1>7. SharedEntry'
  BY <1>2, <1>3, <1>6 DEF StreamsInv, SharedEntry
<1>8. OneFirst'
  BY <1>2, <1>3, <1>6 DEF StreamsInv, OneFirst
<1>9. EarlyOnesKnow'
  BY <1>2, <1>3, <1>5, <1>6 DEF StreamsInv, EarlyOnesKnow
<1> QED
  BY <1>6, <1>7, <1>8, <1>9 DEF StreamsInv

(* The query of the running jobs, and the set-up of the response. *)
LEMMA MoveInv ==
    ASSUME StreamsInv, NEW c \in Client, FindRunningJobs(c) \/ Open(c)
    PROVE  StreamsInv'
<1> DEFINE rec == client'[c]
<1>1. client[c] \in ClientRecord
  BY DEF StreamsInv, TypeOK
<1>2. /\ rec \in ClientRecord /\ rec.stream = client[c].stream /\ rec.pc # "off"
      /\ (rec.first <=> client[c].first) /\ (rec.early <=> client[c].early)
      /\ rec.heard = client[c].heard
      /\ rec.pc \in {"asking", "sending"} <=> client[c].pc \in {"asking", "sending"}
      /\ client[c].pc \in {"asking", "opening"}
      /\ client' = [client EXCEPT ![c] = rec]
      /\ UNCHANGED <<runs, handler, entry, pinging, left, overtaken, hushed>>
  <2>1. CASE FindRunningJobs(c)
    BY <1>1, <2>1 DEF FindRunningJobs, ClientRecord, ClientPc, told, StreamsInv, TypeOK
  <2>2. CASE Open(c)
    BY <1>1, <2>2 DEF Open, ClientRecord, ClientPc, told, StreamsInv, TypeOK
  <2> QED
    BY <2>1, <2>2
<1>3. left' \subseteq Stream /\ pinging' \subseteq Stream /\ entry' \in Stream \cup {NoStream}
  BY <1>2 DEF StreamsInv, TypeOK
<1>4. \A r \in Run : rec.heard[r] = "NONE"
  BY <1>2 DEF StreamsInv, DeafUntilOpen
<1> HIDE DEF rec
<1>5. /\ client'[c] = rec
      /\ \A d \in Client : d # c => client'[d] = client[d]
      /\ TypeOK' /\ HandlersHoldRuns' /\ DeafUntilOpen' /\ ViewsSettle'
  BY <1>2, <1>3, <1>4, OneClient
<1>6. SharedEntry'
  BY <1>2, <1>5 DEF StreamsInv, SharedEntry
<1>7. OneFirst'
  BY <1>2, <1>5 DEF StreamsInv, OneFirst
<1>8. EarlyOnesKnow'
  BY <1>2, <1>5 DEF StreamsInv, EarlyOnesKnow
<1> QED
  BY <1>5, <1>6, <1>7, <1>8 DEF StreamsInv

(* A client without a response, or one that had one, is gone. *)
LEMMA GoneInv ==
    ASSUME StreamsInv, NEW c \in Client, FindFails(c) \/ Leave(c)
    PROVE  StreamsInv'
<1>1. /\ client' = [client EXCEPT ![c] = IdleClient]
      /\ client[c].pc # "off"
      /\ UNCHANGED <<runs, handler, pinging, overtaken, hushed>>
      /\ \/ UNCHANGED <<entry, left>>
         \/ client[c].first /\ entry' = NoStream /\ left' = left \cup {client[c].stream}
  BY DEF FindFails, Leave, told
<1>2. client[c].first => client[c].stream = entry /\ entry \in pinging
  BY <1>1 DEF StreamsInv, OneFirst, SharedEntry
<1>3. left \subseteq left' /\ left' \subseteq Stream
  BY <1>1, <1>2 DEF StreamsInv, TypeOK
<1>4. entry' \in Stream \cup {NoStream} /\ pinging' \subseteq Stream
  BY <1>1 DEF StreamsInv, TypeOK
<1>5. /\ client'[c] = IdleClient
      /\ \A d \in Client : d # c => client'[d] = client[d]
      /\ TypeOK' /\ HandlersHoldRuns' /\ DeafUntilOpen' /\ ViewsSettle'
  BY <1>1, <1>3, <1>4, IdleRecord, OneClient
<1>6. SharedEntry'
  BY <1>1, <1>2, <1>5, IdleRecord DEF StreamsInv, SharedEntry
<1>7. OneFirst'
  BY <1>1, <1>5, IdleRecord DEF StreamsInv, OneFirst
<1>8. EarlyOnesKnow'
  BY <1>1, <1>5, IdleRecord DEF StreamsInv, EarlyOnesKnow
<1> QED
  BY <1>5, <1>6, <1>7, <1>8 DEF StreamsInv

(* The first client has the running jobs sent: whoever hears of them came  *)
(* before it was served.                                                   *)
LEMMA SendJobsInv ==
    ASSUME StreamsInv, NEW c \in Client, SendJobs(c)
    PROVE  StreamsInv'
<1> DEFINE R == client[c].jobs
           T == Tell(R, "RUNNING")
           rec == [T[c] EXCEPT !.pc = "opening", !.jobs = {}]
<1>1. /\ client[c].pc = "sending" /\ client[c] \in ClientRecord
      /\ R \in SUBSET Run /\ "RUNNING" \in Status \cup {"NONE"} /\ TypeOK
      /\ runs' = runs /\ handler' = handler /\ entry' = entry /\ pinging' = pinging
      /\ left' = left /\ overtaken' = overtaken /\ hushed' = hushed
  BY DEF SendJobs, StreamsInv, TypeOK, ClientRecord, Status, Runs!RunHistoryStatus, told
<1>2. client' = [T EXCEPT ![c].pc = "opening", ![c].jobs = {}]
  BY DEF SendJobs
<1>3. T = [d \in Client |-> T[d]]
  BY DEF Tell
<1>4. R \in SUBSET Run /\ "RUNNING" \in Status \cup {"NONE"} /\ TypeOK
  BY <1>1
<1> HIDE DEF R
<1>5. ASSUME NEW d \in Client
      PROVE  /\ T[d] \in ClientRecord /\ SamePlace(T[d], client[d])
             /\ \A q \in Run : (~Hearing(d)) => (T[d].heard[q] = client[d].heard[q])
  BY <1>4, TellHears
<1> HIDE DEF T
<1>6. /\ rec \in ClientRecord /\ rec.pc = "opening" /\ rec.heard = T[c].heard
      /\ rec.stream = T[c].stream /\ (rec.first <=> T[c].first) /\ (rec.early <=> T[c].early)
  BY <1>5 DEF ClientRecord, ClientPc
<1>7. /\ client' = [T EXCEPT ![c] = rec]
      /\ T \in [Client -> ClientRecord]
  BY <1>2, <1>3, <1>5
<1> HIDE DEF rec
<1>8. /\ client' \in [Client -> ClientRecord]
      /\ client'[c] = rec
      /\ \A d \in Client : d # c => client'[d] = T[d]
  BY <1>6, <1>7
<1>9. /\ rec.stream = client[c].stream /\ (rec.first <=> client[c].first)
      /\ (rec.early <=> client[c].early)
      /\ \A r \in Run : rec.heard[r] = "NONE"
  BY <1>1, <1>5, <1>6 DEF SamePlace, Hearing, StreamsInv, DeafUntilOpen
<1>10. \A d \in Client : d # c =>
        /\ client'[d].pc = client[d].pc /\ client'[d].stream = client[d].stream
        /\ (client'[d].first <=> client[d].first) /\ (client'[d].early <=> client[d].early)
        /\ \A q \in Run : (~Hearing(d)) => (client'[d].heard[q] = client[d].heard[q])
  BY <1>5, <1>8 DEF SamePlace
<1>11. TypeOK' /\ HandlersHoldRuns'
  BY <1>1, <1>8 DEF StreamsInv, TypeOK, HandlersHoldRuns
<1>12. SharedEntry'
  BY <1>1, <1>6, <1>8, <1>9, <1>10 DEF StreamsInv, SharedEntry
<1>13. OneFirst'
  BY <1>1, <1>6, <1>8, <1>9, <1>10 DEF StreamsInv, OneFirst
<1>14. EarlyOnesKnow'
  BY <1>1, <1>6, <1>8, <1>9, <1>10 DEF StreamsInv, EarlyOnesKnow
<1>15. DeafUntilOpen'
  BY <1>8, <1>9, <1>10 DEF StreamsInv, DeafUntilOpen, Hearing
<1>16. ASSUME NEW d \in Client, NEW r \in Run, OutdatedView(d, r)'
       PROVE  Excused(d, r)' \/ Busy(r)'
  <2>1. d # c /\ Ended(r) /\ client[d].pc = "open"
    BY <1>1, <1>6, <1>8, <1>10, <1>16 DEF OutdatedView, Ended
  <2>2. CASE Hearing(d)
    <3>1. client[d].stream = client[c].stream
      BY <1>1, <2>2 DEF Hearing, StreamsInv, OneFirst
    <3>2. client[d].early
      BY <1>1, <2>1, <3>1 DEF StreamsInv, EarlyOnesKnow
    <3> QED
      BY <1>10, <2>1, <3>2 DEF Excused
  <2>3. CASE ~Hearing(d)
    <3>1. client[d].stream \in left
      BY <2>1, <2>3 DEF Hearing, StreamsInv, SharedEntry
    <3> QED
      BY <1>1, <1>10, <2>1, <3>1 DEF Excused
  <2> QED
    BY <2>2, <2>3
<1>17. ViewsSettle'
  BY <1>16 DEF ViewsSettle
<1> QED
  BY <1>11, <1>12, <1>13, <1>14, <1>15, <1>17 DEF StreamsInv

-----------------------------------------------------------------------------
LEMMA InitStreamsInv == Init => StreamsInv
<1> SUFFICES ASSUME Init PROVE StreamsInv
  OBVIOUS
<1>1. Runs!Unborn \in RunRecord
  BY DEF Runs!Unborn, Runs!Fresh, RunRecord
<1>2. runs \in [Run -> RunRecord]
  BY <1>1 DEF Init, Runs!Init
<1> QED
  BY <1>2, FreshInv DEF Init

LEMMA DeadInv == ASSUME StreamsInv, ProcessDies PROVE StreamsInv'
<1>1. runs' \in [Run -> RunRecord]
  BY DEF ProcessDies, StreamsInv, TypeOK
<1>2. /\ IdleHandler \in HandlerRecord /\ IdleHandler.pc = "idle"
      /\ handler' = [h \in Handler |-> IdleHandler]
      /\ client' = [c \in Client |-> IdleClient]
      /\ entry' = NoStream /\ pinging' = {} /\ left' = {}
      /\ overtaken' = {} /\ hushed' = {}
  BY DEF ProcessDies, IdleHandler, HandlerRecord, HandlerPc
<1>3. /\ \A h \in Handler : handler'[h] = IdleHandler
      /\ \A c \in Client : client'[c] = IdleClient
  BY <1>2
<1>4. TypeOK' /\ HandlersHoldRuns'
  BY <1>1, <1>2, <1>3, IdleRecord DEF TypeOK, HandlersHoldRuns
<1>5. SharedEntry' /\ OneFirst' /\ EarlyOnesKnow' /\ DeafUntilOpen' /\ ViewsSettle'
  BY <1>2, <1>3, IdleRecord DEF SharedEntry, OneFirst, EarlyOnesKnow, DeafUntilOpen,
     ViewsSettle, OutdatedView
<1> QED
  BY <1>4, <1>5 DEF StreamsInv

LEMMA NextStreamsInv == StreamsInv /\ [Next]_vars => StreamsInv'
<1> SUFFICES ASSUME StreamsInv, [Next]_vars PROVE StreamsInv'
  OBVIOUS
<1>1. ASSUME NEW h \in Handler, NEW r \in Run, StartRun(h, r) PROVE StreamsInv'
  BY <1>1, StartRunInv
<1>2. ASSUME NEW h \in Handler, NEW r \in Run, StopRun(h, r) PROVE StreamsInv'
  BY <1>2, OutcomeInv DEF StopRun, Status, Runs!RunHistoryStatus, Runs!Terminal, HandlerPc
<1>3. ASSUME NEW h \in Handler, NEW r \in Run, NEW v \in {"SUCCESS", "FAILED"},
             CompleteRun(h, r, v)
      PROVE  StreamsInv'
  <2>1. v \in Status /\ "measuring" \in HandlerPc
    BY DEF Status, Runs!RunHistoryStatus, Runs!Terminal, HandlerPc
  <2> QED
    BY <1>3, <2>1, OutcomeInv DEF CompleteRun
<1>4. ASSUME NEW h \in Handler, Work(h) PROVE StreamsInv'
  <2>1. CASE Started(h)
    BY <2>1, StartedInv
  <2>2. CASE StartFailed(h)
    <3>1. handler[h].run \in Run /\ "FAILED" \in Status /\ "announcing" \in HandlerPc
      BY <2>2 DEF StartFailed, StreamsInv, HandlersHoldRuns, Status,
         Runs!RunHistoryStatus, Runs!Terminal, HandlerPc
    <3> QED
      BY <2>2, <3>1, OutcomeInv DEF StartFailed
  <2>3. CASE StartGivesUp(h)
    BY <2>3, StartGivesUpInv
  <2>4. CASE MeasureRun(h)
    <3>1. /\ handler[h].run \in Run /\ handler[h].status \in {"SUCCESS", "FAILED"}
          /\ "announcing" \in HandlerPc
      BY <2>4 DEF MeasureRun, StreamsInv, HandlersHoldRuns, HandlerPc
    <3>2. handler[h].status \in Status
      BY <3>1 DEF Status, Runs!RunHistoryStatus, Runs!Terminal
    <3> QED
      BY <2>4, <3>1, <3>2, OutcomeInv DEF MeasureRun
  <2>5. CASE Announce(h)
    BY <2>5, AnnounceInv
  <2>6. CASE StopUnannounced(h)
    BY <2>6, StopUnannouncedInv
  <2>7. CASE UnhandledRejection(h)
    BY <2>7, DeadInv DEF UnhandledRejection
  <2> QED
    BY <1>4, <2>1, <2>2, <2>3, <2>4, <2>5, <2>6, <2>7 DEF Work
<1>5. ASSUME NEW S \in SUBSET Run, RemoveRuns(S) PROVE StreamsInv'
  BY <1>5, RemoveRunsInv
<1>6. ASSUME NEW c \in Client, Connect(c) \/ Leave(c) PROVE StreamsInv'
  BY <1>6, SubscribeInv, JoinInv, MoveInv, GoneInv, SendJobsInv DEF Connect
<1>7. CASE Crash
  BY <1>7, DeadInv DEF Crash
<1>8. CASE UNCHANGED vars
  BY <1>8 DEF vars, told, StreamsInv, TypeOK, HandlersHoldRuns, SharedEntry, OneFirst,
     EarlyOnesKnow, DeafUntilOpen, ViewsSettle, OutdatedView, Excused, Busy, Ended
<1> QED
  BY <1>1, <1>2, <1>3, <1>4, <1>5, <1>6, <1>7, <1>8 DEF Next

(* The types and the parts the properties rest on, for any sets of runs,   *)
(* handlers, clients and subjects.                                         *)
THEOREM StreamsSafe == Spec => []StreamsInv
BY InitStreamsInv, NextStreamsInv, PTL DEF Spec

(* A client takes an ended run for a running one only while a handler has  *)
(* the end in hand, or for one of the reasons Excused names.               *)
THEOREM NoOtherOutdatedViews == Spec => []ViewsSettle
<1>1. StreamsInv => ViewsSettle
  BY DEF StreamsInv
<1> QED
  BY <1>1, StreamsSafe, PTL

(* No connection waits on a subject that nobody pings.                     *)
THEOREM EveryClientIsPinged == Spec => []ClientsArePinged
<1>1. StreamsInv => ClientsArePinged
  BY DEF StreamsInv, SharedEntry, ClientsArePinged
<1> QED
  BY <1>1, StreamsSafe, PTL

=============================================================================
