---------------------------- MODULE LoadTestRuns ----------------------------
(***************************************************************************)
(* The life of a load-test run in testify-server: LoadTestsService.runTest *)
(* and stopTest, the watch on the Kubernetes job that a started run leaves *)
(* behind, and the rows, jobs and ConfigMaps they share.                   *)
(*                                                                         *)
(* Every await of the code is a place where another handler may run, so a  *)
(* handler is a process that advances one awaited call at a time.  What    *)
(* the calls do outside the process (PostgreSQL, Kubernetes, InfluxDB) is  *)
(* one atomic step each.                                                   *)
(*                                                                         *)
(* A pod lives and dies with its job: the clean-up of pods on their own is *)
(* part of deleting the job.                                               *)
(*                                                                         *)
(* Left out: the log stream of a started run, which writes the progress    *)
(* column only and whose one other effect, ending the process when its pod *)
(* never gets ready, is a case of Crash; and what becomes of a published   *)
(* status event.                                                           *)
(***************************************************************************)
EXTENDS Naturals, FiniteSets

CONSTANTS
    Scenario,      \* scenario ids
    Removable,     \* the scenarios their owner may delete
    Run,           \* run-history ids the database can hand out
    Starter,       \* calls of runTest that can be in flight at once
    Stopper,       \* calls of stopTest that can be in flight at once
    Follower,      \* started runs the process can be following at once
    DeleteMayFail, \* may the Kubernetes API refuse a delete?
    NoRun,         \* no run history
    NoScenario     \* no scenario

ASSUME RunsAssumption ==
    /\ NoRun \notin Run
    /\ NoScenario \notin Scenario
    /\ IsFiniteSet(Starter)
    /\ DeleteMayFail \in BOOLEAN

VARIABLES
    scenarios,   \* the scenario table
    rows,        \* the run-history table
    configMaps,  \* the runs whose k6 script is stored in the cluster
    jobs,        \* what the cluster says of the job of each run
    crashed,     \* the runs of which a k6 pod has ended in failure
    samples,     \* the runs with k6 points of the last hour in InfluxDB
    starter,     \* calls of runTest
    stopper,     \* calls of stopTest
    follower     \* background work of the started runs

db      == <<scenarios, rows>>
cluster == <<configMaps, jobs, crashed, samples>>
vars    == <<db, cluster, starter, stopper, follower>>

-----------------------------------------------------------------------------
(* Rows and statuses *)

Terminal == {"SUCCESS", "FAILED", "ABORTED"}
RunHistoryStatus == {"RUNNING"} \cup Terminal

NoRow == [status |-> "NONE", scenario |-> NoScenario, runAt |-> FALSE,
          endAt |-> FALSE, measured |-> FALSE]

Exists(r) == rows[r].status \in RunHistoryStatus

(* runHistoryRepository.update: by id alone, and it throws without a row. *)
Update(r, row) == Exists(r) /\ rows' = [rows EXCEPT ![r] = row]

(* findRunningJobsByScenarioId *)
RunningRows(s) ==
    {r \in Run : rows[r].status = "RUNNING" /\ rows[r].scenario = s}

(* ORDER BY runAt DESC puts the rows without a runAt first. *)
FirstRows(s) ==
    LET undated == {r \in RunningRows(s) : ~rows[r].runAt}
    IN  IF undated # {} THEN undated ELSE RunningRows(s)

-----------------------------------------------------------------------------
(* The cluster *)

(* "new" is a job the job controller has not looked at: its status is an   *)
(* empty object.  "pending" and "active" have a pod that counts as active, *)
(* in "active" its container runs.  "uncounted" has a failed pod that is   *)
(* not counted yet, "idle" has no active pod and nothing uncounted.        *)
JobState == {"none", "new", "pending", "active", "uncounted", "idle"}

Resources == {"job", "configMap"}

(* cleanUpK6Job waits for every delete and swallows each rejection. *)
CleanUpOutcomes == IF DeleteMayFail THEN SUBSET Resources ELSE {Resources}

(* What the handler of watchJobCompletion can tell of a job state: active  *)
(* pods make it return, so only the other states matter.                   *)
EventOf(job) ==
    CASE job \in {"new", "idle"} -> {"idle"}
      [] job = "uncounted"       -> {"uncounted"}
      [] OTHER                   -> {}

(* An event on the job of r reaches every follower that listens to it: the *)
(* watch selects the job by name.                                          *)
Notified(followers, r, event) ==
    [f \in Follower |->
        IF followers[f].run = r /\ followers[f].watch = "listening"
        THEN [followers[f] EXCEPT !.events = @ \cup event]
        ELSE followers[f]]

(* Deleting the resources in gone.  followers is the state of the          *)
(* followers before the DELETED event reaches them.                        *)
Delete(r, gone, followers) ==
    /\ configMaps' = IF "configMap" \in gone THEN configMaps \ {r} ELSE configMaps
    /\ jobs' = IF "job" \in gone THEN [jobs EXCEPT ![r] = "none"] ELSE jobs
    /\ follower' = IF "job" \in gone
                   THEN Notified(followers, r, EventOf(jobs[r]))
                   ELSE followers
    /\ UNCHANGED <<crashed, samples>>

-----------------------------------------------------------------------------
(* The processes *)

StartPc == {"idle", "find", "jobCheck", "scenario", "create", "configMap",
            "job", "runAt", "saveRunAt", "cleanUp", "failTimes", "markFailed",
            "announce"}

(* The steps inside the try block of runTest. *)
Guarded == {"configMap", "job", "runAt", "saveRunAt"}

IdleStarter == [pc |-> "idle", scenario |-> NoScenario, run |-> NoRun]

Branch == {"off", "cleanUp", "endAt", "abort", "announce", "done", "failed"}

IdleStopper == [pc |-> "idle", scenario |-> NoScenario, answer |-> "none",
                branch |-> [r \in Run |-> "off"]]

(* The statuses watchJobCompletion hands to onComplete, and its steps. *)
Verdict == {"SUCCESS", "FAILED"}
CompletionPc == {"off", "endAt", "status", "metrics", "announce"}
WatchState == {"off", "starting", "listening", "complete"}

IdleFollower == [run |-> NoRun, watch |-> "off", events |-> {}, clean |-> FALSE,
                 done |-> [v \in Verdict |-> "off"]]

(* Nothing of it is left to run. *)
Settled(f) ==
    /\ ~follower[f].clean
    /\ follower[f].watch \notin {"starting", "listening"}
    /\ \A v \in Verdict : follower[f].done[v] = "off"

RowRecord == [status : RunHistoryStatus \cup {"NONE", "DELETED"},
              scenario : Scenario \cup {NoScenario},
              runAt : BOOLEAN, endAt : BOOLEAN, measured : BOOLEAN]

StarterRecord == [pc : StartPc, scenario : Scenario \cup {NoScenario},
                  run : Run \cup {NoRun}]

StopperRecord == [pc : {"idle", "find", "work"},
                  scenario : Scenario \cup {NoScenario},
                  answer : {"none", "ok", "500"}, branch : [Run -> Branch]]

FollowerRecord == [run : Run \cup {NoRun}, watch : WatchState,
                   events : SUBSET {"idle", "uncounted"}, clean : BOOLEAN,
                   done : [Verdict -> CompletionPc]]

TypeOK ==
    /\ scenarios \subseteq Scenario
    /\ rows \in [Run -> RowRecord]
    /\ configMaps \subseteq Run
    /\ jobs \in [Run -> JobState]
    /\ crashed \subseteq Run
    /\ samples \subseteq Run
    /\ starter \in [Starter -> StarterRecord]
    /\ stopper \in [Stopper -> StopperRecord]
    /\ follower \in [Follower -> FollowerRecord]

Init ==
    /\ scenarios = Scenario
    /\ rows = [r \in Run |-> NoRow]
    /\ configMaps = {}
    /\ jobs = [r \in Run |-> "none"]
    /\ crashed = {}
    /\ samples = {}
    /\ starter = [h \in Starter |-> IdleStarter]
    /\ stopper = [t \in Stopper |-> IdleStopper]
    /\ follower = [f \in Follower |-> IdleFollower]

-----------------------------------------------------------------------------
(* runTest *)

Goto(h, pc, r) == starter' = [starter EXCEPT ![h].pc = pc, ![h].run = r]

(* The call returns or throws; which of them is in the name of the action. *)
Answer(h) == starter' = [starter EXCEPT ![h] = IdleStarter]

(* A request of a user, or a tick of a scheduler's cron job. *)
RunTest(h, s) ==
    /\ starter[h].pc = "idle"
    /\ starter' = [starter EXCEPT ![h] =
                      [IdleStarter EXCEPT !.pc = "find", !.scenario = s]]
    /\ UNCHANGED <<db, cluster, stopper, follower>>

FindRunning(h) ==
    /\ starter[h].pc = "find"
    /\ \/ RunningRows(starter[h].scenario) = {} /\ Goto(h, "scenario", NoRun)
       \/ \E r \in FirstRows(starter[h].scenario) : Goto(h, "jobCheck", r)
    /\ UNCHANGED <<db, cluster, stopper, follower>>

(* Mutant: a RUNNING row without a job is not reused. *)
IsExistingJob_Forgets(h) ==
    /\ starter[h].pc = "jobCheck"
    /\ \/ jobs[starter[h].run] # "none" /\ Answer(h)
       \/ Goto(h, "scenario", NoRun)
    /\ UNCHANGED <<db, cluster, stopper, follower>>

(* isExistingJob answers false when the read fails, too. *)
IsExistingJob(h) ==
    /\ starter[h].pc = "jobCheck"
    /\ \/ jobs[starter[h].run] # "none" /\ Answer(h)
       \/ Goto(h, "scenario", starter[h].run)
    /\ UNCHANGED <<db, cluster, stopper, follower>>

(* scenarioRepository.findOne turns its own NotFoundException into a 500. *)
FindScenario(h) ==
    /\ starter[h].pc = "scenario"
    /\ IF starter[h].scenario \in scenarios
       THEN Goto(h, IF starter[h].run = NoRun THEN "create" ELSE "configMap",
                 starter[h].run)
       ELSE Answer(h)
    /\ UNCHANGED <<db, cluster, stopper, follower>>

CreateRow(h) ==
    /\ starter[h].pc = "create"
    /\ starter[h].scenario \in scenarios
    /\ \E r \in Run :
        /\ rows[r].status = "NONE"
        /\ rows' = [rows EXCEPT ![r] = [NoRow EXCEPT
                        !.status = "RUNNING", !.scenario = starter[h].scenario]]
        /\ Goto(h, "configMap", r)
    /\ UNCHANGED <<scenarios, cluster, stopper, follower>>

(* createK6Job, first call: a ConfigMap of that name is a conflict. *)
CreateConfigMap(h) ==
    /\ starter[h].pc = "configMap"
    /\ starter[h].run \notin configMaps
    /\ configMaps' = configMaps \cup {starter[h].run}
    /\ Goto(h, "job", starter[h].run)
    /\ UNCHANGED <<db, jobs, crashed, samples, stopper, follower>>

(* createK6Job, second call.  The new job has an empty status: a watch     *)
(* that is still open on this name sees a job without active pods.         *)
CreateJob(h) ==
    LET r == starter[h].run IN
    /\ starter[h].pc = "job"
    /\ jobs[r] = "none"
    /\ jobs' = [jobs EXCEPT ![r] = "new"]
    /\ follower' = Notified(follower, r, EventOf("new"))
    /\ Goto(h, "runAt", r)
    /\ UNCHANGED <<db, configMaps, crashed, samples, stopper>>

GetRunAt(h) ==
    /\ starter[h].pc = "runAt"
    /\ starter[h].run \in samples
    /\ Goto(h, "saveRunAt", starter[h].run)
    /\ UNCHANGED <<db, cluster, stopper, follower>>

(* Mutant: the update of runAt says that the run is RUNNING, too. *)
SaveRunAt_Revives(h) ==
    LET r == starter[h].run IN
    /\ starter[h].pc = "saveRunAt"
    /\ Update(r, [rows[r] EXCEPT !.status = "RUNNING", !.runAt = TRUE])
    /\ \E f \in Follower :
        /\ Settled(f)
        /\ follower' = [follower EXCEPT
              ![f] = [IdleFollower EXCEPT !.run = r, !.watch = "starting"]]
    /\ Answer(h)
    /\ UNCHANGED <<scenarios, cluster, stopper>>

(* The update of runAt, the setImmediate calls and the answer. *)
SaveRunAt(h) ==
    LET r == starter[h].run IN
    /\ starter[h].pc = "saveRunAt"
    /\ Update(r, [rows[r] EXCEPT !.runAt = TRUE])
    /\ \E f \in Follower :
        /\ Settled(f)
        /\ follower' = [follower EXCEPT
              ![f] = [IdleFollower EXCEPT !.run = r, !.watch = "starting"]]
    /\ Answer(h)
    /\ UNCHANGED <<scenarios, cluster, stopper>>

(* A call inside the try block throws: a conflict, an API or database      *)
(* error, or sixty polls without a point.                                  *)
StartFails(h) ==
    /\ starter[h].pc \in Guarded
    /\ Goto(h, "cleanUp", starter[h].run)
    /\ UNCHANGED <<db, cluster, stopper, follower>>

CleanUpFailedStart(h) ==
    /\ starter[h].pc = "cleanUp"
    /\ \E gone \in CleanUpOutcomes : Delete(starter[h].run, gone, follower)
    /\ Goto(h, "failTimes", starter[h].run)
    /\ UNCHANGED <<db, stopper>>

GetFailTimes(h) ==
    /\ starter[h].pc = "failTimes"
    /\ starter[h].run \in samples
    /\ Goto(h, "markFailed", starter[h].run)
    /\ UNCHANGED <<db, cluster, stopper, follower>>

MarkFailed(h) ==
    LET r == starter[h].run IN
    /\ starter[h].pc = "markFailed"
    /\ Update(r, [rows[r] EXCEPT !.status = "FAILED",
                                 !.runAt = TRUE, !.endAt = TRUE])
    /\ Goto(h, "announce", r)
    /\ UNCHANGED <<scenarios, cluster, stopper, follower>>

AnnounceFailed(h) ==
    /\ starter[h].pc = "announce"
    /\ Answer(h)
    /\ UNCHANGED <<db, cluster, stopper, follower>>

(* A call outside the try block throws: the database fails, the row or the *)
(* scenario is gone, or InfluxDB has no point of a failed start.           *)
StartThrows(h) ==
    /\ starter[h].pc \in {"find", "scenario", "create", "failTimes", "markFailed"}
    /\ Answer(h)
    /\ UNCHANGED <<db, cluster, stopper, follower>>

-----------------------------------------------------------------------------
(* stopTest *)

SetBranch(t, r, b) == stopper' = [stopper EXCEPT ![t].branch[r] = b]

StopTest(t, s) ==
    /\ stopper[t].pc = "idle"
    /\ \A r \in Run : stopper[t].branch[r] \in {"off", "done", "failed"}
    /\ stopper' = [stopper EXCEPT ![t] =
                      [IdleStopper EXCEPT !.pc = "find", !.scenario = s]]
    /\ UNCHANGED <<db, cluster, starter, follower>>

(* findMany never answers null, so the 404 of stopTest is unreachable. *)
StopFind(t) ==
    /\ stopper[t].pc = "find"
    /\ stopper' = [stopper EXCEPT ![t].pc = "work",
          ![t].branch = [r \in Run |-> IF r \in RunningRows(stopper[t].scenario)
                                       THEN "cleanUp" ELSE "off"]]
    /\ UNCHANGED <<db, cluster, starter, follower>>

(* One branch per row.  cleanUpK6Job and getEndAt run together; getEndAt   *)
(* may fail whatever the cluster does, so taking it second loses nothing.  *)
StopCleanUp(t, r) ==
    /\ stopper[t].branch[r] = "cleanUp"
    /\ \E gone \in CleanUpOutcomes : Delete(r, gone, follower)
    /\ SetBranch(t, r, "endAt")
    /\ UNCHANGED <<db, starter>>

StopGetEndAt(t, r) ==
    /\ stopper[t].branch[r] = "endAt"
    /\ r \in samples
    /\ SetBranch(t, r, "abort")
    /\ UNCHANGED <<db, cluster, starter, follower>>

StopAbort(t, r) ==
    /\ stopper[t].branch[r] = "abort"
    /\ Update(r, [rows[r] EXCEPT !.status = "ABORTED", !.endAt = TRUE])
    /\ SetBranch(t, r, "announce")
    /\ UNCHANGED <<scenarios, cluster, starter, follower>>

StopAnnounce(t, r) ==
    /\ stopper[t].branch[r] = "announce"
    /\ SetBranch(t, r, "done")
    /\ UNCHANGED <<db, cluster, starter, follower>>

StopBranchFails(t, r) ==
    /\ stopper[t].branch[r] \in {"endAt", "abort", "announce"}
    /\ SetBranch(t, r, "failed")
    /\ UNCHANGED <<db, cluster, starter, follower>>

(* Mutant: the answer is given by the last branch that ends. *)
StopAnswers_NoneFound(t) ==
    /\ stopper[t].pc = "work"
    /\ \A r \in Run : stopper[t].branch[r] \in {"off", "done"}
    /\ \E r \in Run : stopper[t].branch[r] = "done"
    /\ stopper' = [stopper EXCEPT ![t] = [@ EXCEPT !.pc = "idle", !.answer = "ok"]]
    /\ UNCHANGED <<db, cluster, starter, follower>>

StopAnswers(t) ==
    /\ stopper[t].pc = "work"
    /\ \A r \in Run : stopper[t].branch[r] \in {"off", "done"}
    /\ stopper' = [stopper EXCEPT ![t] = [@ EXCEPT !.pc = "idle", !.answer = "ok"]]
    /\ UNCHANGED <<db, cluster, starter, follower>>

(* Promise.all rejects with the first branch that fails; the others go on. *)
StopThrows(t) ==
    /\ \/ stopper[t].pc = "find"
       \/ /\ stopper[t].pc = "work"
          /\ \E r \in Run : stopper[t].branch[r] = "failed"
    /\ stopper' = [stopper EXCEPT ![t] = [@ EXCEPT !.pc = "idle", !.answer = "500"]]
    /\ UNCHANGED <<db, cluster, starter, follower>>

-----------------------------------------------------------------------------
(* Following a started run *)

Follow(f, record) == follower' = [follower EXCEPT ![f] = record]

(* A watch begins with an ADDED event for a job that is already there. *)
StartWatch(f) ==
    /\ follower[f].watch = "starting"
    /\ Follow(f, [follower[f] EXCEPT !.watch = "listening",
                                     !.events = EventOf(jobs[follower[f].run])])
    /\ UNCHANGED <<db, cluster, starter, stopper>>

(* A failed pod that is not counted yet counts as success.  A second event *)
(* of that kind while onComplete runs is folded into the first.            *)
JobFailedUncounted(f) ==
    /\ follower[f].watch = "listening"
    /\ "uncounted" \in follower[f].events
    /\ Follow(f, [follower[f] EXCEPT
          !.events = @ \ {"uncounted"},
          !.done["SUCCESS"] = IF @ = "off" THEN "endAt" ELSE @])
    /\ UNCHANGED <<db, cluster, starter, stopper>>

(* Mutant: any end of the job is reported as a success. *)
JobIdle_Success(f) ==
    /\ follower[f].watch = "listening"
    /\ "idle" \in follower[f].events
    /\ Follow(f, [follower[f] EXCEPT !.watch = "complete", !.events = {},
                                     !.clean = TRUE, !.done["SUCCESS"] = "endAt"])
    /\ UNCHANGED <<db, cluster, starter, stopper>>

(* No active pod and nothing uncounted: the watch is aborted, with what it *)
(* has not delivered, and the job cleaned up; onComplete is not called.    *)
JobIdle(f) ==
    /\ follower[f].watch = "listening"
    /\ "idle" \in follower[f].events
    /\ Follow(f, [follower[f] EXCEPT !.watch = "complete", !.events = {},
                                     !.clean = TRUE])
    /\ UNCHANGED <<db, cluster, starter, stopper>>

(* The done callback with an error: onComplete is not awaited. *)
WatchFails(f) ==
    /\ follower[f].watch \in {"starting", "listening"}
    /\ Follow(f, [follower[f] EXCEPT !.watch = "off", !.events = {}, !.clean = TRUE,
                                     !.done["FAILED"] = "endAt"])
    /\ UNCHANGED <<db, cluster, starter, stopper>>

(* The done callback without an error, when the API server ends the watch. *)
WatchCloses(f) ==
    /\ follower[f].watch = "listening"
    /\ Follow(f, [follower[f] EXCEPT !.watch = "off", !.events = {}])
    /\ UNCHANGED <<db, cluster, starter, stopper>>

CleanUpFollowed(f) ==
    /\ follower[f].clean
    /\ \E gone \in CleanUpOutcomes :
        Delete(follower[f].run, gone, [follower EXCEPT ![f].clean = FALSE])
    /\ UNCHANGED <<db, starter, stopper>>

CompletionGetEndAt(f, v) ==
    /\ follower[f].done[v] = "endAt"
    /\ follower[f].run \in samples
    /\ Follow(f, [follower[f] EXCEPT !.done[v] = "status"])
    /\ UNCHANGED <<db, cluster, starter, stopper>>

(* Mutant: endAt is left to the metrics. *)
CompletionSaveStatus_Undated(f, v) ==
    LET r == follower[f].run IN
    /\ follower[f].done[v] = "status"
    /\ Update(r, [rows[r] EXCEPT !.status = v])
    /\ Follow(f, [follower[f] EXCEPT !.done[v] = "metrics"])
    /\ UNCHANGED <<scenarios, cluster, starter, stopper>>

(* The row is written whatever its status is by now. *)
CompletionSaveStatus(f, v) ==
    LET r == follower[f].run IN
    /\ follower[f].done[v] = "status"
    /\ Update(r, [rows[r] EXCEPT !.status = v, !.endAt = TRUE])
    /\ Follow(f, [follower[f] EXCEPT !.done[v] = "metrics"])
    /\ UNCHANGED <<scenarios, cluster, starter, stopper>>

(* updateRunHistoryWithMetrics needs both dates and writes the status anew. *)
CompletionSaveMetrics(f, v) ==
    LET r == follower[f].run IN
    /\ follower[f].done[v] = "metrics"
    /\ rows[r].runAt /\ rows[r].endAt
    /\ Update(r, [rows[r] EXCEPT !.status = v, !.measured = TRUE])
    /\ Follow(f, [follower[f] EXCEPT !.done[v] = "announce"])
    /\ UNCHANGED <<scenarios, cluster, starter, stopper>>

(* The awaited SUCCESS is followed by the abort of the watch and the       *)
(* clean-up; the FAILED of a broken watch has started them already.        *)
CompletionAnnounce(f, v) ==
    /\ follower[f].done[v] = "announce"
    /\ IF v = "FAILED"
       THEN Follow(f, [follower[f] EXCEPT !.done[v] = "off"])
       ELSE Follow(f, [follower[f] EXCEPT
               !.done[v] = "off", !.clean = TRUE, !.events = {},
               !.watch = IF @ = "listening" THEN "complete" ELSE @])
    /\ UNCHANGED <<db, cluster, starter, stopper>>

-----------------------------------------------------------------------------
(* The process and its surroundings *)

(* Handlers, watches and streams are in memory only. *)
ProcessDies ==
    /\ starter' = [h \in Starter |-> IdleStarter]
    /\ stopper' = [t \in Stopper |-> IdleStopper]
    /\ follower' = [f \in Follower |-> IdleFollower]
    /\ UNCHANGED <<db, cluster>>

Crash == ProcessDies

(* Mutant: a completion without an endAt is dropped without a trace. *)
UnhandledRejection_Lost(f) ==
    LET r == follower[f].run IN
    /\ \E v \in Verdict :
        \/ follower[f].done[v] \in {"status", "metrics"} /\ ~Exists(r)
        \/ follower[f].done[v] = "metrics" /\ ~(rows[r].runAt /\ rows[r].endAt)
    /\ ProcessDies

(* A promise nobody awaits is rejected; Node ends the process.  The callers *)
(* of runTest catch, the background work does not.                          *)
UnhandledRejection(f) ==
    LET r == follower[f].run IN
    /\ \E v \in Verdict :
        \/ follower[f].done[v] = "endAt" /\ r \notin samples
        \/ follower[f].done[v] \in {"status", "metrics"} /\ ~Exists(r)
        \/ follower[f].done[v] = "metrics" /\ ~(rows[r].runAt /\ rows[r].endAt)
    /\ ProcessDies

(* ScenarioRepository.remove: the rows of the scenario go with it. *)
RemoveScenario(s) ==
    /\ s \in scenarios \cap Removable
    /\ scenarios' = scenarios \ {s}
    /\ rows' = [r \in Run |-> IF Exists(r) /\ rows[r].scenario = s
                              THEN [NoRow EXCEPT !.status = "DELETED"]
                              ELSE rows[r]]
    /\ UNCHANGED <<cluster, starter, stopper, follower>>

(* The job controller starts the pod, sees it end, and counts it. *)
JobMoves(r, from, to) ==
    /\ jobs[r] = from
    /\ jobs' = [jobs EXCEPT ![r] = to]
    /\ follower' = Notified(follower, r, EventOf(to))
    /\ crashed' = IF to = "uncounted" THEN crashed \cup {r} ELSE crashed
    /\ UNCHANGED <<db, configMaps, samples, starter, stopper>>

(* The container mounts the script: without the ConfigMap it never runs. *)
PodCreated(r)  == JobMoves(r, "new", "pending")
PodRuns(r)     == r \in configMaps /\ JobMoves(r, "pending", "active")
PodFails(r)    == JobMoves(r, "active", "uncounted")
PodSucceeds(r) == JobMoves(r, "active", "idle")
PodCounted(r)  == JobMoves(r, "uncounted", "idle")

(* The job has no backoffLimit: the controller tries a failed pod again.   *)
PodRetried(r) == r \in crashed /\ JobMoves(r, "idle", "pending")

(* ttlSecondsAfterFinished deletes the job and leaves the ConfigMap. *)
JobExpires(r) ==
    /\ jobs[r] = "idle"
    /\ Delete(r, {"job"}, follower)
    /\ UNCHANGED <<db, starter, stopper>>

K6Writes(r) ==
    /\ jobs[r] = "active"
    /\ r \notin samples
    /\ samples' = samples \cup {r}
    /\ UNCHANGED <<db, configMaps, jobs, crashed, starter, stopper, follower>>

(* getRunAt and getEndAt look at the last hour only. *)
SamplesAge(r) ==
    /\ r \in samples
    /\ jobs[r] # "active"
    /\ samples' = samples \ {r}
    /\ UNCHANGED <<db, configMaps, jobs, crashed, starter, stopper, follower>>

-----------------------------------------------------------------------------
StarterNext(h) ==
    \/ FindRunning(h) \/ IsExistingJob(h) \/ FindScenario(h) \/ CreateRow(h)
    \/ CreateConfigMap(h) \/ CreateJob(h) \/ GetRunAt(h) \/ SaveRunAt(h)
    \/ StartFails(h) \/ CleanUpFailedStart(h) \/ GetFailTimes(h)
    \/ MarkFailed(h) \/ AnnounceFailed(h) \/ StartThrows(h)

StopperNext(t) ==
    \/ StopFind(t) \/ StopAnswers(t) \/ StopThrows(t)
    \/ \E r \in Run : \/ StopCleanUp(t, r) \/ StopGetEndAt(t, r) \/ StopAbort(t, r)
                      \/ StopAnnounce(t, r) \/ StopBranchFails(t, r)

FollowerNext(f) ==
    \/ StartWatch(f) \/ JobFailedUncounted(f) \/ JobIdle(f)
    \/ WatchFails(f) \/ WatchCloses(f) \/ CleanUpFollowed(f)
    \/ \E v \in Verdict : \/ CompletionGetEndAt(f, v) \/ CompletionSaveStatus(f, v)
                          \/ CompletionSaveMetrics(f, v) \/ CompletionAnnounce(f, v)
    \/ UnhandledRejection(f)

Surroundings ==
    \/ \E s \in Scenario : RemoveScenario(s)
    \/ \E r \in Run : \/ PodCreated(r) \/ PodRuns(r) \/ PodFails(r)
                      \/ PodSucceeds(r) \/ PodCounted(r) \/ PodRetried(r)
                      \/ JobExpires(r)
                      \/ K6Writes(r) \/ SamplesAge(r)

Next ==
    \/ \E h \in Starter, s \in Scenario : RunTest(h, s)
    \/ \E t \in Stopper, s \in Scenario : StopTest(t, s)
    \/ \E h \in Starter : StarterNext(h)
    \/ \E t \in Stopper : StopperNext(t)
    \/ \E f \in Follower : FollowerNext(f)
    \/ Surroundings
    \/ Crash

Spec == Init /\ [][Next]_vars

-----------------------------------------------------------------------------
(* Properties *)

(* The rows never mix the marks of different outcomes, in whatever order   *)
(* starts, stops, watches and log streams write them: a row that has ended *)
(* has an endAt, one that succeeded or failed a runAt as well, and metrics *)
(* are only on a row that has ended.                                       *)
RowsAreDated ==
    \A r \in Run :
        /\ rows[r].status \in Terminal => rows[r].endAt
        /\ rows[r].status \in {"SUCCESS", "FAILED"} => rows[r].runAt
        /\ rows[r].measured => rows[r].status \in Terminal

(* A run is recorded as SUCCESS only if one of its pods has really ended,  *)
(* and with the uncounted failure the watch handler asks for: no delayed   *)
(* or duplicated watch event, nor a watch left over from an earlier job of *)
(* the run, makes a running test a successful one.                         *)
SuccessFollowsPodEnd ==
    \A r \in Run : rows[r].status = "SUCCESS" => r \in crashed

(* A client is told that a run is over only when its row says so: between  *)
(* the write of the outcome and its event no start, stop or watch makes    *)
(* the row RUNNING again.                                                  *)
AnnouncedEndIsRecorded ==
    /\ \A h \in Starter : starter[h].pc = "announce" =>
            rows[starter[h].run].status # "RUNNING"
    /\ \A f \in Follower, v \in Verdict : follower[f].done[v] = "announce" =>
            rows[follower[f].run].status # "RUNNING"

(* When stopTest has answered OK, none of the rows it found is RUNNING,    *)
(* however the starts and watches of the same rows interleaved with it.    *)
StoppedRowsHaveEnded ==
    \A t \in Stopper, r \in Run :
        stopper[t].branch[r] \in {"announce", "done"} =>
            rows[r].status # "RUNNING"

(* runTest looks for a RUNNING row and creates one in separate steps, so a *)
(* scenario can get several; but never more than there are runTest calls   *)
(* in flight at once.  With one caller at a time there is at most one.     *)
RunningRowsBounded ==
    \A s \in Scenario : Cardinality(RunningRows(s)) <= Cardinality(Starter)

(* What has been written of a run stays: no step makes an ended or deleted *)
(* row RUNNING, clears a date, or moves a row to another scenario.         *)
RowStep(r) ==
    /\ rows[r].status \notin {"NONE", "RUNNING"} => rows'[r].status # "RUNNING"
    /\ Exists(r) /\ Exists(r)' =>
        /\ rows'[r].scenario = rows[r].scenario
        /\ rows[r].runAt => rows'[r].runAt
        /\ rows[r].endAt => rows'[r].endAt
RowsOnlyAdvance == [][\A r \in Run : RowStep(r)]_rows

(* What is left of a row when nobody asks whose it is. *)
Seen(row) == [status |-> row.status, runAt |-> row.runAt,
              endAt |-> row.endAt, measured |-> row.measured]

History == [r \in Run |-> Seen(rows[r])]

Lifecycle == INSTANCE RunLifecycle WITH runs <- History

(* Whatever starts, stops, watches, crashes and removals overlap, the      *)
(* history of a run is one RunLifecycle allows: each of their writes is    *)
(* one of its steps, and none of them revives, undates or half removes a   *)
(* run.                                                                    *)
RunsKeepLifecycle == Lifecycle!Spec

(* The watch is there to record the end of a run.  When it has seen the    *)
(* job end and has nothing left to do, the row should not be RUNNING.      *)
CompletionIsRecorded ==
    \A f \in Follower :
        follower[f].watch = "complete" /\ Settled(f) =>
            rows[follower[f].run].status # "RUNNING"

-----------------------------------------------------------------------------
(* The inductive strengthening of the invariants above.  Each part says    *)
(* what a process in the middle of its work may rely on.                   *)

(* An id the database has not handed out has an empty row. *)
UnusedRows == \A r \in Run : rows[r].status = "NONE" => rows[r] = NoRow

(* A call past its lookups and a follower at work have a run in hand; a    *)
(* call that is about to create one has none.                              *)
RunsInHand ==
    /\ \A h \in Starter : starter[h].pc = "create" => starter[h].run = NoRun
    /\ \A h \in Starter :
        starter[h].pc \notin {"idle", "find", "scenario", "create"} =>
            starter[h].run # NoRun
    /\ \A f \in Follower : ~Settled(f) => follower[f].run # NoRun

(* Whoever holds a run got it from a row. *)
HeldRunsHaveRows ==
    /\ \A h \in Starter :
        starter[h].run # NoRun => rows[starter[h].run].status # "NONE"
    /\ \A t \in Stopper, r \in Run :
        stopper[t].branch[r] # "off" => rows[r].status # "NONE"
    /\ \A f \in Follower :
        follower[f].run # NoRun => rows[follower[f].run].status # "NONE"

(* A run is followed after its runAt was saved, and a completion that has  *)
(* written its outcome finds the row ended.                                *)
FollowedRowsAreDated ==
    \A f \in Follower :
        LET r == follower[f].run IN
        /\ r # NoRun /\ Exists(r) => rows[r].runAt
        /\ \A v \in Verdict :
            follower[f].done[v] \in {"metrics", "announce"} =>
                rows[r].status # "RUNNING"

(* A pending success goes back to a pod that failed. *)
SuccessHasEvidence ==
    /\ \A r \in Run : jobs[r] = "uncounted" => r \in crashed
    /\ \A f \in Follower :
        "uncounted" \in follower[f].events \/ follower[f].done["SUCCESS"] # "off"
            => follower[f].run \in crashed

SafetyInv ==
    /\ TypeOK
    /\ RunsInHand
    /\ UnusedRows
    /\ HeldRunsHaveRows
    /\ FollowedRowsAreDated
    /\ SuccessHasEvidence
    /\ RowsAreDated
    /\ SuccessFollowsPodEnd
    /\ AnnouncedEndIsRecorded
    /\ StoppedRowsHaveEnded

(* The calls that found no RUNNING row and have not created theirs yet. *)
Creating(s) ==
    {h \in Starter : /\ starter[h].pc \in {"scenario", "create"}
                     /\ starter[h].scenario = s
                     /\ starter[h].run = NoRun}

(* A call joins Creating only while there is no RUNNING row, and leaves it *)
(* with at most one more: the sum never exceeds the number of calls.       *)
BoundInv ==
    \A s \in Scenario :
        /\ IsFiniteSet(RunningRows(s))
        /\ Cardinality(RunningRows(s)) + Cardinality(Creating(s))
               <= Cardinality(Starter)

-----------------------------------------------------------------------------
(* Fairness: Node keeps running the handlers and callbacks that are ready, *)
(* and every awaited call ends, in an answer or an error.  Nothing is      *)
(* assumed of users, of Kubernetes or of k6.                               *)

Completion(f, v) ==
    \/ CompletionGetEndAt(f, v) \/ CompletionSaveStatus(f, v)
    \/ CompletionSaveMetrics(f, v) \/ CompletionAnnounce(f, v)
    \/ UnhandledRejection(f)

Fairness ==
    /\ \A h \in Starter : WF_vars(StarterNext(h))
    /\ \A t \in Stopper : WF_vars(StopperNext(t))
    /\ \A f \in Follower, v \in Verdict : WF_vars(Completion(f, v))

FairSpec == Spec /\ Fairness

(* Every call of runTest and stopTest ends, whatever the other handlers,   *)
(* the cluster and the owner of the scenario do meanwhile.                 *)
RequestsAreAnswered ==
    /\ \A h \in Starter : starter[h].pc # "idle" ~> starter[h].pc = "idle"
    /\ \A t \in Stopper : stopper[t].pc # "idle" ~> stopper[t].pc = "idle"

(* Once a watch has called onComplete the row leaves RUNNING, unless the   *)
(* process dies first: no other writer of the row can hold it back.        *)
CompletionsLand ==
    \A f \in Follower, v \in Verdict, r \in Run :
        (follower[f].run = r /\ follower[f].done[v] = "endAt")
            ~> (rows[r].status # "RUNNING" \/ follower[f] = IdleFollower)

=============================================================================
