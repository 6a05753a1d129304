------------------------- MODULE LoadTestRunsProofs -------------------------
(***************************************************************************)
(* Proofs about LoadTestRuns for every set of scenarios, runs, callers and *)
(* followers: its invariants and action properties, and that it implements *)
(* RunLifecycle.                                                           *)
(***************************************************************************)
EXTENDS LoadTestRuns, FiniteSetTheorems, TLAPS

-----------------------------------------------------------------------------
(* Types *)

(* The records the processes are reset to have the types of their arrays. *)
LEMMA IdleTypes ==
    /\ NoRow \in RowRecord
    /\ IdleStarter \in StarterRecord
    /\ IdleStopper \in StopperRecord
    /\ IdleFollower \in FollowerRecord
BY DEF NoRow, RowRecord, RunHistoryStatus, Terminal, IdleStarter, StarterRecord,
       StartPc, IdleStopper, StopperRecord, Branch, IdleFollower, FollowerRecord,
       WatchState, Verdict, CompletionPc

(* What a watch handler sees of a job is one of the two events. *)
LEMMA EventOfType == ASSUME NEW j PROVE EventOf(j) \subseteq {"idle", "uncounted"}
BY DEF EventOf

(* Only a job with an uncounted failed pod gives the event of that name. *)
LEMMA EventOfUncounted == \A j : "uncounted" \in EventOf(j) => j = "uncounted"
BY DEF EventOf

(* Notifying the followers of an event keeps them well formed. *)
LEMMA NotifiedType ==
    ASSUME NEW fs \in [Follower -> FollowerRecord], NEW r,
           NEW e \in SUBSET {"idle", "uncounted"}
    PROVE  Notified(fs, r, e) \in [Follower -> FollowerRecord]
<1> SUFFICES ASSUME NEW f \in Follower
             PROVE  Notified(fs, r, e)[f] \in FollowerRecord
  BY DEF Notified
<1>1. fs[f] \in FollowerRecord
  OBVIOUS
<1>2. [fs[f] EXCEPT !.events = @ \cup e] \in FollowerRecord
  BY <1>1 DEF FollowerRecord
<1> QED
  BY <1>1, <1>2 DEF Notified

(* cleanUpK6Job keeps the cluster and the followers well formed. *)
LEMMA DeleteType ==
    ASSUME TypeOK, NEW r \in Run, NEW gone,
           NEW fs \in [Follower -> FollowerRecord], Delete(r, gone, fs)
    PROVE  /\ configMaps' \subseteq Run
           /\ jobs' \in [Run -> JobState]
           /\ crashed' \subseteq Run
           /\ samples' \subseteq Run
           /\ follower' \in [Follower -> FollowerRecord]
<1>1. Notified(fs, r, EventOf(jobs[r])) \in [Follower -> FollowerRecord]
  BY NotifiedType, EventOfType
<1>2. jobs' \in [Run -> JobState]
  BY DEF Delete, TypeOK, JobState
<1> QED
  BY <1>1, <1>2 DEF Delete, TypeOK

(* The four kinds of update leave a well-formed table. *)
LEMMA UpdateType ==
    ASSUME TypeOK, NEW r
    PROVE  /\ Update(r, [rows[r] EXCEPT !.runAt = TRUE]) => rows' \in [Run -> RowRecord]
           /\ \A st \in Terminal :
                /\ Update(r, [rows[r] EXCEPT !.status = st, !.runAt = TRUE, !.endAt = TRUE])
                        => rows' \in [Run -> RowRecord]
                /\ Update(r, [rows[r] EXCEPT !.status = st, !.endAt = TRUE])
                        => rows' \in [Run -> RowRecord]
                /\ Update(r, [rows[r] EXCEPT !.status = st, !.measured = TRUE])
                        => rows' \in [Run -> RowRecord]
<1>1. CASE r \in Run
  <2>1. rows[r] \in RowRecord
    BY <1>1 DEF TypeOK
  <2>2. [rows[r] EXCEPT !.runAt = TRUE] \in RowRecord
    BY <2>1 DEF RowRecord
  <2>3. ASSUME NEW st \in Terminal
        PROVE  /\ [rows[r] EXCEPT !.status = st, !.runAt = TRUE, !.endAt = TRUE] \in RowRecord
               /\ [rows[r] EXCEPT !.status = st, !.endAt = TRUE] \in RowRecord
               /\ [rows[r] EXCEPT !.status = st, !.measured = TRUE] \in RowRecord
    BY <2>1 DEF RowRecord, RunHistoryStatus
  <2> QED
    BY <1>1, <2>2, <2>3 DEF Update, TypeOK
<1>2. CASE r \notin Run
  BY <1>2 DEF Update, TypeOK
<1> QED
  BY <1>1, <1>2

(* Moving one call of runTest keeps the calls well formed. *)
LEMMA StarterTypes ==
    ASSUME TypeOK, NEW h \in Starter
    PROVE  /\ \A pc \in StartPc, r \in Run \cup {NoRun} : Goto(h, pc, r) =>
                starter' \in [Starter -> StarterRecord]
           /\ Answer(h) => starter' \in [Starter -> StarterRecord]
<1>1. ASSUME NEW pc \in StartPc, NEW r \in Run \cup {NoRun}, Goto(h, pc, r)
      PROVE  starter' \in [Starter -> StarterRecord]
  BY <1>1 DEF Goto, TypeOK, StarterRecord
<1>2. ASSUME Answer(h) PROVE starter' \in [Starter -> StarterRecord]
  BY <1>2, IdleTypes DEF Answer, TypeOK
<1> QED
  BY <1>1, <1>2

(* So does moving one branch of a call of stopTest. *)
LEMMA StopperTypes ==
    ASSUME TypeOK, NEW t \in Stopper, NEW r \in Run, NEW b \in Branch,
           SetBranch(t, r, b)
    PROVE  stopper' \in [Stopper -> StopperRecord]
BY DEF SetBranch, TypeOK, StopperRecord

(* A call of runTest in the middle of a start has a run. *)
LEMMA StarterRun ==
    ASSUME TypeOK, RunsInHand, NEW h \in Starter,
           starter[h].pc \notin {"idle", "find", "scenario", "create"}
    PROVE  starter[h].run \in Run
BY DEF TypeOK, RunsInHand, StarterRecord

(* A follower with something left to do has a run. *)
LEMMA FollowerRun ==
    ASSUME TypeOK, RunsInHand, NEW f \in Follower, ~Settled(f)
    PROVE  follower[f].run \in Run
BY DEF TypeOK, RunsInHand, FollowerRecord

(* Every step of runTest keeps the types. *)
LEMMA StarterTypeStep ==
    ASSUME TypeOK, RunsInHand, NEW h \in Starter, StarterNext(h)
    PROVE  TypeOK'
<1> DEFINE r == starter[h].run
<1>0. r \in Run \cup {NoRun}
  BY DEF TypeOK, StarterRecord
<1> USE DEF vars, db, cluster
<1>1. CASE FindRunning(h)
  <2>1. FirstRows(starter[h].scenario) \subseteq Run
    BY DEF FirstRows, RunningRows
  <2>2. starter' \in [Starter -> StarterRecord]
    BY <1>1, <2>1, StarterTypes DEF FindRunning, StartPc
  <2> QED
    BY <1>1, <2>2 DEF FindRunning, TypeOK
<1>2. CASE IsExistingJob(h)
  <2>1. starter' \in [Starter -> StarterRecord]
    BY <1>0, <1>2, StarterTypes DEF IsExistingJob, StartPc
  <2> QED
    BY <1>2, <2>1 DEF IsExistingJob, TypeOK
<1>3. CASE FindScenario(h)
  <2>1. starter' \in [Starter -> StarterRecord]
    BY <1>0, <1>3, StarterTypes DEF FindScenario, StartPc
  <2> QED
    BY <1>3, <2>1 DEF FindScenario, TypeOK
<1>4. CASE CreateRow(h)
  <2>1. starter' \in [Starter -> StarterRecord]
    BY <1>4, StarterTypes DEF CreateRow, StartPc
  <2>2. starter[h].scenario \in Scenario \cup {NoScenario}
    BY DEF TypeOK, StarterRecord
  <2>3. [NoRow EXCEPT !.status = "RUNNING", !.scenario = starter[h].scenario]
            \in RowRecord
    BY <2>2 DEF NoRow, RowRecord, RunHistoryStatus
  <2>4. rows' \in [Run -> RowRecord]
    BY <1>4, <2>3 DEF CreateRow, TypeOK
  <2> QED
    BY <1>4, <2>1, <2>4 DEF CreateRow, TypeOK
<1>5. CASE CreateConfigMap(h)
  <2>1. starter' \in [Starter -> StarterRecord]
    BY <1>0, <1>5, StarterTypes DEF CreateConfigMap, StartPc
  <2> QED
    BY <1>5, <2>1, StarterRun DEF CreateConfigMap, TypeOK
<1>6. CASE CreateJob(h)
  <2>1. starter' \in [Starter -> StarterRecord]
    BY <1>0, <1>6, StarterTypes DEF CreateJob, StartPc
  <2>2. follower' \in [Follower -> FollowerRecord]
    BY <1>6, NotifiedType, EventOfType DEF CreateJob, TypeOK
  <2>3. jobs' \in [Run -> JobState]
    BY <1>6 DEF CreateJob, TypeOK, JobState
  <2> QED
    BY <1>6, <2>1, <2>2, <2>3 DEF CreateJob, TypeOK
<1>7. CASE GetRunAt(h)
  <2>1. starter' \in [Starter -> StarterRecord]
    BY <1>0, <1>7, StarterTypes DEF GetRunAt, StartPc
  <2> QED
    BY <1>7, <2>1 DEF GetRunAt, TypeOK
<1>8. CASE SaveRunAt(h)
  <2>1. starter' \in [Starter -> StarterRecord]
    BY <1>8, StarterTypes DEF SaveRunAt
  <2>2. rows' \in [Run -> RowRecord]
    BY <1>8, UpdateType DEF SaveRunAt
  <2>3. [IdleFollower EXCEPT !.run = r, !.watch = "starting"] \in FollowerRecord
    BY <1>0, IdleTypes DEF FollowerRecord, WatchState
  <2>4. follower' \in [Follower -> FollowerRecord]
    BY <1>8, <2>3 DEF SaveRunAt, TypeOK
  <2> QED
    BY <1>8, <2>1, <2>2, <2>4 DEF SaveRunAt, TypeOK
<1>9. CASE StartFails(h)
  <2>1. starter' \in [Starter -> StarterRecord]
    BY <1>0, <1>9, StarterTypes DEF StartFails, StartPc
  <2> QED
    BY <1>9, <2>1 DEF StartFails, TypeOK
<1>10. CASE CleanUpFailedStart(h)
  <2>1. starter' \in [Starter -> StarterRecord]
    BY <1>0, <1>10, StarterTypes DEF CleanUpFailedStart, StartPc
  <2>2. r \in Run
    BY <1>10, StarterRun DEF CleanUpFailedStart
  <2>3. follower \in [Follower -> FollowerRecord]
    BY DEF TypeOK
  <2> QED
    BY <1>10, <2>1, <2>2, <2>3, DeleteType DEF CleanUpFailedStart, TypeOK
<1>11. CASE GetFailTimes(h)
  <2>1. starter' \in [Starter -> StarterRecord]
    BY <1>0, <1>11, StarterTypes DEF GetFailTimes, StartPc
  <2> QED
    BY <1>11, <2>1 DEF GetFailTimes, TypeOK
<1>12. CASE MarkFailed(h)
  <2>1. starter' \in [Starter -> StarterRecord]
    BY <1>0, <1>12, StarterTypes DEF MarkFailed, StartPc
  <2>2. rows' \in [Run -> RowRecord]
    BY <1>12, UpdateType DEF MarkFailed, Terminal
  <2> QED
    BY <1>12, <2>1, <2>2 DEF MarkFailed, TypeOK
<1>13. CASE AnnounceFailed(h)
  BY <1>13, StarterTypes DEF AnnounceFailed, TypeOK
<1>14. CASE StartThrows(h)
  BY <1>14, StarterTypes DEF StartThrows, TypeOK
<1> QED
  BY <1>1, <1>2, <1>3, <1>4, <1>5, <1>6, <1>7, <1>8, <1>9, <1>10, <1>11, <1>12,
     <1>13, <1>14 DEF StarterNext

(* Every step of stopTest keeps the types. *)
LEMMA StopperTypeStep ==
    ASSUME TypeOK, NEW t \in Stopper, StopperNext(t)
    PROVE  TypeOK'
<1> USE DEF vars, db, cluster
<1>0. stopper[t] \in StopperRecord /\ follower \in [Follower -> FollowerRecord]
  BY DEF TypeOK
<1>1. CASE StopFind(t)
  <2>1. [stopper[t] EXCEPT !.pc = "work", !.branch =
            [r \in Run |-> IF r \in RunningRows(stopper[t].scenario)
                           THEN "cleanUp" ELSE "off"]] \in StopperRecord
    BY <1>0 DEF StopperRecord, Branch
  <2>2. stopper' \in [Stopper -> StopperRecord]
    BY <1>1, <2>1 DEF StopFind, TypeOK
  <2> QED
    BY <1>1, <2>2 DEF StopFind, TypeOK
<1>2. CASE StopAnswers(t) \/ StopThrows(t)
  <2>1. \A a \in {"ok", "500"} :
            [stopper[t] EXCEPT !.pc = "idle", !.answer = a] \in StopperRecord
    BY <1>0 DEF StopperRecord
  <2>2. stopper' \in [Stopper -> StopperRecord]
    BY <1>2, <2>1 DEF StopAnswers, StopThrows, TypeOK
  <2> QED
    BY <1>2, <2>2 DEF StopAnswers, StopThrows, TypeOK
<1>3. ASSUME NEW r \in Run, StopCleanUp(t, r)
      PROVE  TypeOK'
  <2>1. stopper' \in [Stopper -> StopperRecord]
    BY <1>3, StopperTypes DEF StopCleanUp, Branch
  <2> QED
    BY <1>0, <1>3, <2>1, DeleteType DEF StopCleanUp, TypeOK
<1>4. ASSUME NEW r \in Run, StopAbort(t, r)
      PROVE  TypeOK'
  <2>1. stopper' \in [Stopper -> StopperRecord]
    BY <1>4, StopperTypes DEF StopAbort, Branch
  <2>2. rows' \in [Run -> RowRecord]
    BY <1>4, UpdateType DEF StopAbort, Terminal
  <2> QED
    BY <1>4, <2>1, <2>2 DEF StopAbort, TypeOK
<1>5. ASSUME NEW r \in Run, StopGetEndAt(t, r) \/ StopAnnounce(t, r) \/ StopBranchFails(t, r)
      PROVE  TypeOK'
  <2>1. stopper' \in [Stopper -> StopperRecord]
    BY <1>5, StopperTypes DEF StopGetEndAt, StopAnnounce, StopBranchFails, Branch
  <2> QED
    BY <1>5, <2>1 DEF StopGetEndAt, StopAnnounce, StopBranchFails, TypeOK
<1> QED
  BY <1>1, <1>2, <1>3, <1>4, <1>5 DEF StopperNext

(* Replacing the record of one follower keeps the followers well formed. *)
LEMMA FollowType ==
    ASSUME TypeOK, NEW f \in Follower, NEW record \in FollowerRecord, Follow(f, record)
    PROVE  follower' \in [Follower -> FollowerRecord]
BY DEF Follow, TypeOK

(* The process that dies leaves only idle records. *)
LEMMA ProcessDiesType == TypeOK /\ ProcessDies => TypeOK'
BY IdleTypes DEF ProcessDies, TypeOK, db, cluster

(* Every step of a follower keeps the types. *)
LEMMA FollowerTypeStep ==
    ASSUME TypeOK, RunsInHand, NEW f \in Follower, FollowerNext(f)
    PROVE  TypeOK'
<1> USE DEF vars, db, cluster
<1>0. follower[f] \in FollowerRecord /\ follower \in [Follower -> FollowerRecord]
  BY DEF TypeOK
<1>1. CASE StartWatch(f)
  <2>1. [follower[f] EXCEPT !.watch = "listening",
                            !.events = EventOf(jobs[follower[f].run])] \in FollowerRecord
    BY <1>0, EventOfType DEF FollowerRecord, WatchState
  <2> QED
    BY <1>1, <2>1, FollowType DEF StartWatch, TypeOK
<1>2. CASE JobFailedUncounted(f)
  <2>1. [follower[f] EXCEPT !.events = @ \ {"uncounted"},
            !.done["SUCCESS"] = IF @ = "off" THEN "endAt" ELSE @] \in FollowerRecord
    BY <1>0 DEF FollowerRecord, Verdict, CompletionPc
  <2> QED
    BY <1>2, <2>1, FollowType DEF JobFailedUncounted, TypeOK
<1>3. CASE JobIdle(f)
  <2>1. [follower[f] EXCEPT !.watch = "complete", !.events = {}, !.clean = TRUE]
            \in FollowerRecord
    BY <1>0 DEF FollowerRecord, WatchState
  <2> QED
    BY <1>3, <2>1, FollowType DEF JobIdle, TypeOK
<1>4. CASE WatchFails(f)
  <2>1. [follower[f] EXCEPT !.watch = "off", !.events = {}, !.clean = TRUE,
                            !.done["FAILED"] = "endAt"] \in FollowerRecord
    BY <1>0 DEF FollowerRecord, WatchState, Verdict, CompletionPc
  <2> QED
    BY <1>4, <2>1, FollowType DEF WatchFails, TypeOK
<1>5. CASE WatchCloses(f)
  <2>1. [follower[f] EXCEPT !.watch = "off", !.events = {}] \in FollowerRecord
    BY <1>0 DEF FollowerRecord, WatchState
  <2> QED
    BY <1>5, <2>1, FollowType DEF WatchCloses, TypeOK
<1>6. CASE CleanUpFollowed(f)
  <2>1. follower[f].run \in Run
    BY <1>6, FollowerRun DEF CleanUpFollowed, Settled
  <2>2. [follower[f] EXCEPT !.clean = FALSE] \in FollowerRecord
    BY <1>0 DEF FollowerRecord
  <2>3. [follower EXCEPT ![f].clean = FALSE] \in [Follower -> FollowerRecord]
    BY <1>0, <2>2
  <2> QED
    BY <1>6, <2>1, <2>3, DeleteType DEF CleanUpFollowed, TypeOK
<1>7. ASSUME NEW v \in Verdict,
             CompletionGetEndAt(f, v) \/ CompletionSaveStatus(f, v)
                \/ CompletionSaveMetrics(f, v) \/ CompletionAnnounce(f, v)
      PROVE  TypeOK'
  <2>1. ASSUME NEW pc \in CompletionPc
        PROVE  [follower[f] EXCEPT !.done[v] = pc] \in FollowerRecord
    BY <1>0, <2>1 DEF FollowerRecord
  <2>2. CASE CompletionGetEndAt(f, v)
    BY <2>1, <2>2, FollowType DEF CompletionGetEndAt, CompletionPc, TypeOK
  <2>3. CASE CompletionSaveStatus(f, v)
    <3>1. rows' \in [Run -> RowRecord]
      BY <2>3, UpdateType DEF CompletionSaveStatus, Terminal, Verdict
    <3>2. follower' \in [Follower -> FollowerRecord]
      BY <2>1, <2>3, FollowType DEF CompletionSaveStatus, CompletionPc
    <3> QED
      BY <2>3, <3>1, <3>2 DEF CompletionSaveStatus, TypeOK
  <2>4. CASE CompletionSaveMetrics(f, v)
    <3>1. rows' \in [Run -> RowRecord]
      BY <2>4, UpdateType DEF CompletionSaveMetrics, Terminal, Verdict
    <3>2. follower' \in [Follower -> FollowerRecord]
      BY <2>1, <2>4, FollowType DEF CompletionSaveMetrics, CompletionPc
    <3> QED
      BY <2>4, <3>1, <3>2 DEF CompletionSaveMetrics, TypeOK
  <2>5. CASE CompletionAnnounce(f, v)
    <3>1. [follower[f] EXCEPT !.done[v] = "off", !.clean = TRUE, !.events = {},
              !.watch = IF @ = "listening" THEN "complete" ELSE @] \in FollowerRecord
      BY <1>0 DEF FollowerRecord, WatchState, CompletionPc
    <3>2. follower' \in [Follower -> FollowerRecord]
      BY <2>1, <2>5, <3>1, FollowType DEF CompletionAnnounce, CompletionPc
    <3> QED
      BY <2>5, <3>2 DEF CompletionAnnounce, TypeOK
  <2> QED
    BY <1>7, <2>2, <2>3, <2>4, <2>5
<1>8. CASE UnhandledRejection(f)
  BY <1>8, ProcessDiesType DEF UnhandledRejection
<1> QED
  BY <1>1, <1>2, <1>3, <1>4, <1>5, <1>6, <1>7, <1>8 DEF FollowerNext

(* The owner, the cluster and k6 keep the types. *)
LEMMA SurroundingsTypeStep == TypeOK /\ Surroundings => TypeOK'
<1> SUFFICES ASSUME TypeOK, Surroundings PROVE TypeOK'
  OBVIOUS
<1> USE DEF vars, db, cluster
<1>1. ASSUME NEW s \in Scenario, RemoveScenario(s) PROVE TypeOK'
  <2>1. [NoRow EXCEPT !.status = "DELETED"] \in RowRecord
    BY DEF NoRow, RowRecord
  <2>2. rows' \in [Run -> RowRecord]
    BY <1>1, <2>1 DEF RemoveScenario, TypeOK
  <2> QED
    BY <1>1, <2>2 DEF RemoveScenario, TypeOK
<1>2. ASSUME NEW r \in Run, NEW from, NEW to \in JobState, JobMoves(r, from, to)
      PROVE  TypeOK'
  <2>1. follower' \in [Follower -> FollowerRecord]
    BY <1>2, NotifiedType, EventOfType DEF JobMoves, TypeOK
  <2>2. jobs' \in [Run -> JobState]
    BY <1>2 DEF JobMoves, TypeOK
  <2> QED
    BY <1>2, <2>1, <2>2 DEF JobMoves, TypeOK
<1>3. ASSUME NEW r \in Run,
             PodCreated(r) \/ PodRuns(r) \/ PodFails(r) \/ PodSucceeds(r) \/ PodCounted(r) \/ PodRetried(r)
      PROVE  TypeOK'
  BY <1>2, <1>3 DEF PodCreated, PodRuns, PodFails, PodSucceeds, PodCounted, PodRetried, JobState
<1>4. ASSUME NEW r \in Run, JobExpires(r) PROVE TypeOK'
  <2>1. follower \in [Follower -> FollowerRecord]
    BY DEF TypeOK
  <2> QED
    BY <1>4, <2>1, DeleteType DEF JobExpires, TypeOK
<1>5. ASSUME NEW r \in Run, K6Writes(r) \/ SamplesAge(r) PROVE TypeOK'
  BY <1>5 DEF K6Writes, SamplesAge, TypeOK
<1> QED
  BY <1>1, <1>3, <1>4, <1>5 DEF Surroundings

-----------------------------------------------------------------------------
(* Runs in hand *)

(* The followers as a step that deletes or moves a job leaves them: only   *)
(* the events of those that listen to the job of r have changed.           *)
LEMMA NotifiedKeeps ==
    ASSUME NEW fs \in [Follower -> FollowerRecord], NEW r, NEW e, NEW f \in Follower
    PROVE  /\ Notified(fs, r, e)[f].run = fs[f].run
           /\ Notified(fs, r, e)[f].watch = fs[f].watch
           /\ Notified(fs, r, e)[f].clean = fs[f].clean
           /\ Notified(fs, r, e)[f].done = fs[f].done
           /\ \/ Notified(fs, r, e)[f].events = fs[f].events
              \/ /\ Notified(fs, r, e)[f].events = fs[f].events \cup e
                 /\ fs[f].run = r /\ fs[f].watch = "listening"
<1>1. fs[f] \in FollowerRecord
  OBVIOUS
<1>2. CASE fs[f].run = r /\ fs[f].watch = "listening"
  <2>1. Notified(fs, r, e)[f] = [fs[f] EXCEPT !.events = @ \cup e]
    BY <1>2 DEF Notified
  <2> QED
    BY <1>1, <1>2, <2>1 DEF FollowerRecord
<1>3. CASE ~(fs[f].run = r /\ fs[f].watch = "listening")
  <2>1. Notified(fs, r, e)[f] = fs[f]
    BY <1>3 DEF Notified
  <2> QED
    BY <2>1
<1> QED
  BY <1>2, <1>3

(* The callbacks of the watch stay with their run. *)
LEMMA WatchKeepsRun ==
    ASSUME follower \in [Follower -> FollowerRecord], NEW g \in Follower,
           \/ StartWatch(g) \/ JobFailedUncounted(g) \/ JobIdle(g)
           \/ WatchFails(g) \/ WatchCloses(g)
    PROVE  /\ follower'[g].run = follower[g].run
           /\ \E record : Follow(g, record)
<1>1. CASE StartWatch(g)
  BY <1>1 DEF StartWatch, Follow, FollowerRecord
<1>2. CASE JobFailedUncounted(g)
  BY <1>2 DEF JobFailedUncounted, Follow, FollowerRecord
<1>3. CASE JobIdle(g)
  BY <1>3 DEF JobIdle, Follow, FollowerRecord
<1>4. CASE WatchFails(g)
  BY <1>4 DEF WatchFails, Follow, FollowerRecord
<1>5. CASE WatchCloses(g)
  BY <1>5 DEF WatchCloses, Follow, FollowerRecord
<1> QED
  BY <1>1, <1>2, <1>3, <1>4, <1>5

(* So do the steps of onComplete. *)
LEMMA CompletionKeepsRun ==
    ASSUME follower \in [Follower -> FollowerRecord], NEW g \in Follower, NEW v,
           \/ CompletionGetEndAt(g, v) \/ CompletionSaveStatus(g, v)
           \/ CompletionSaveMetrics(g, v) \/ CompletionAnnounce(g, v)
    PROVE  /\ follower'[g].run = follower[g].run
           /\ \E record : Follow(g, record)
<1>1. CASE CompletionGetEndAt(g, v)
  BY <1>1 DEF CompletionGetEndAt, Follow, FollowerRecord
<1>2. CASE CompletionSaveStatus(g, v)
  BY <1>2 DEF CompletionSaveStatus, Follow, FollowerRecord
<1>3. CASE CompletionSaveMetrics(g, v)
  BY <1>3 DEF CompletionSaveMetrics, Follow, FollowerRecord
<1>4. CASE CompletionAnnounce(g, v)
  BY <1>4 DEF CompletionAnnounce, Follow, FollowerRecord
<1> QED
  BY <1>1, <1>2, <1>3, <1>4

(* A follower whose record a step changes only by telling it of the end of *)
(* a job, or by having done its clean-up.                                  *)
Told(f) ==
    /\ follower'[f].run = follower[f].run
    /\ follower'[f].watch = follower[f].watch
    /\ follower'[f].done = follower[f].done
    /\ follower'[f].clean => follower[f].clean
    /\ "uncounted" \in follower'[f].events =>
        \/ "uncounted" \in follower[f].events
        \/ jobs[follower[f].run] = "uncounted" /\ follower[f].watch = "listening"
        \/ follower[f].run \in crashed'

(* A notification of something true tells a follower no more than that.   *)
LEMMA NotifiedTells ==
    ASSUME NEW fs \in [Follower -> FollowerRecord], NEW r, NEW e, NEW f \in Follower,
           fs[f].run = follower[f].run, fs[f].watch = follower[f].watch,
           fs[f].done = follower[f].done, fs[f].events = follower[f].events,
           fs[f].clean => follower[f].clean,
           "uncounted" \in e => jobs[r] = "uncounted" \/ r \in crashed',
           follower'[f] = Notified(fs, r, e)[f] \/ follower'[f] = fs[f]
    PROVE  Told(f)
<1>1. /\ follower'[f].run = fs[f].run /\ follower'[f].watch = fs[f].watch
      /\ follower'[f].clean = fs[f].clean /\ follower'[f].done = fs[f].done
      /\ \/ follower'[f].events = fs[f].events
         \/ /\ follower'[f].events = fs[f].events \cup e
            /\ fs[f].run = r /\ fs[f].watch = "listening"
  BY NotifiedKeeps
<1> QED
  BY <1>1 DEF Told

(* So does the DELETED event of cleanUpK6Job. *)
LEMMA DeleteTells ==
    ASSUME NEW fs \in [Follower -> FollowerRecord], NEW r, NEW gone, NEW f \in Follower,
           fs[f].run = follower[f].run, fs[f].watch = follower[f].watch,
           fs[f].done = follower[f].done, fs[f].events = follower[f].events,
           fs[f].clean => follower[f].clean,
           Delete(r, gone, fs)
    PROVE  Told(f)
<1>1. "uncounted" \in EventOf(jobs[r]) => jobs[r] = "uncounted"
  BY EventOfUncounted
<1>2. follower' = Notified(fs, r, EventOf(jobs[r])) \/ follower' = fs
  BY DEF Delete
<1> QED
  BY <1>1, <1>2, NotifiedTells

(* What a step may do to a follower: reset it, give it a run, be one of    *)
(* its own steps, or tell it something.                                    *)
FollowerMove(f) ==
    \/ follower'[f] = IdleFollower
    \/ \E h \in Starter :
        /\ SaveRunAt(h)
        /\ follower'[f] = [IdleFollower EXCEPT !.run = starter[h].run,
                                              !.watch = "starting"]
    \/ StartWatch(f) \/ JobFailedUncounted(f) \/ JobIdle(f)
    \/ WatchFails(f) \/ WatchCloses(f)
    \/ \E v \in Verdict : \/ CompletionGetEndAt(f, v) \/ CompletionSaveStatus(f, v)
                          \/ CompletionSaveMetrics(f, v) \/ CompletionAnnounce(f, v)
    \/ Told(f)

(* No step does anything else to a follower. *)
LEMMA FollowerMoves ==
    ASSUME TypeOK, [Next]_vars, NEW f \in Follower
    PROVE  FollowerMove(f)
<1> USE DEF vars
<1>0. /\ follower \in [Follower -> FollowerRecord]
      /\ follower[f] \in FollowerRecord
  BY DEF TypeOK
<1>1. ASSUME follower'[f] = follower[f] PROVE FollowerMove(f)
  BY <1>1 DEF Told, FollowerMove
<1>2. ASSUME NEW r, NEW gone, Delete(r, gone, follower) PROVE FollowerMove(f)
  BY <1>0, <1>2, DeleteTells DEF FollowerMove
<1>3. ASSUME NEW h \in Starter, StarterNext(h) PROVE FollowerMove(f)
  <2>1. CASE CreateJob(h)
    <3>1. follower' = Notified(follower, starter[h].run, EventOf("new"))
      BY <2>1 DEF CreateJob
    <3>2. "uncounted" \notin EventOf("new")
      BY EventOfUncounted
    <3> QED
      BY <1>0, <3>1, <3>2, NotifiedTells DEF FollowerMove
  <2>2. CASE CleanUpFailedStart(h)
    BY <1>2, <2>2 DEF CleanUpFailedStart
  <2>3. CASE SaveRunAt(h)
    BY <1>0, <1>1, <1>3, <2>3 DEF SaveRunAt, FollowerMove
  <2>4. CASE UNCHANGED follower
    BY <1>1, <2>4
  <2> QED
    BY <1>3, <2>1, <2>2, <2>3, <2>4 DEF StarterNext, FindRunning, IsExistingJob,
       FindScenario, CreateRow, CreateConfigMap, GetRunAt, StartFails, GetFailTimes,
       MarkFailed, AnnounceFailed, StartThrows
<1>4. ASSUME NEW t \in Stopper, StopperNext(t) PROVE FollowerMove(f)
  <2>1. ASSUME NEW r \in Run, StopCleanUp(t, r) PROVE FollowerMove(f)
    BY <1>2, <2>1 DEF StopCleanUp
  <2>2. CASE UNCHANGED follower
    BY <1>1, <2>2
  <2> QED
    BY <1>4, <2>1, <2>2 DEF StopperNext, StopFind, StopGetEndAt, StopAbort, StopAnnounce,
       StopBranchFails, StopAnswers, StopThrows
<1>5. ASSUME NEW g \in Follower, FollowerNext(g) PROVE FollowerMove(f)
  <2>1. CASE UnhandledRejection(g)
    BY <2>1 DEF UnhandledRejection, ProcessDies, FollowerMove
  <2>2. CASE CleanUpFollowed(g)
    <3> DEFINE fs == [follower EXCEPT ![g].clean = FALSE]
    <3>1. PICK gone \in CleanUpOutcomes : Delete(follower[g].run, gone, fs)
      BY <2>2 DEF CleanUpFollowed
    <3>2. /\ fs \in [Follower -> FollowerRecord]
          /\ fs[f].run = follower[f].run /\ fs[f].watch = follower[f].watch
          /\ fs[f].done = follower[f].done /\ fs[f].events = follower[f].events
          /\ fs[f].clean => follower[f].clean
      BY <1>0 DEF FollowerRecord
    <3> HIDE DEF fs
    <3> QED
      BY <3>1, <3>2, DeleteTells DEF FollowerMove
  <2>3. ASSUME g # f, \E record : Follow(g, record) PROVE FollowerMove(f)
    BY <1>0, <1>1, <2>3 DEF Follow
  <2>4. CASE StartWatch(g) \/ JobFailedUncounted(g) \/ JobIdle(g) \/ WatchFails(g) \/ WatchCloses(g)
    BY <1>0, <2>3, <2>4, WatchKeepsRun DEF FollowerMove
  <2>5. ASSUME NEW v \in Verdict,
               CompletionGetEndAt(g, v) \/ CompletionSaveStatus(g, v)
                  \/ CompletionSaveMetrics(g, v) \/ CompletionAnnounce(g, v)
        PROVE FollowerMove(f)
    BY <1>0, <2>3, <2>5, CompletionKeepsRun DEF FollowerMove
  <2> QED
    BY <1>5, <2>1, <2>2, <2>4, <2>5 DEF FollowerNext
<1>6. ASSUME Surroundings PROVE FollowerMove(f)
  <2>1. ASSUME NEW r \in Run, NEW from, NEW to, JobMoves(r, from, to) PROVE FollowerMove(f)
    <3>1. follower' = Notified(follower, r, EventOf(to))
      BY <2>1 DEF JobMoves
    <3>2. "uncounted" \in EventOf(to) => r \in crashed'
      BY <2>1, EventOfUncounted DEF JobMoves
    <3> QED
      BY <1>0, <3>1, <3>2, NotifiedTells DEF FollowerMove
  <2>2. ASSUME NEW r \in Run, JobExpires(r) PROVE FollowerMove(f)
    BY <1>2, <2>2 DEF JobExpires
  <2>3. CASE UNCHANGED follower
    BY <1>1, <2>3
  <2> QED
    BY <1>6, <2>1, <2>2, <2>3 DEF Surroundings, RemoveScenario, PodCreated, PodRuns,
       PodFails, PodSucceeds, PodCounted, PodRetried, K6Writes, SamplesAge
<1>7. ASSUME UNCHANGED follower PROVE FollowerMove(f)
  BY <1>1, <1>7
<1>8. ASSUME Crash PROVE FollowerMove(f)
  BY <1>8 DEF Crash, ProcessDies, FollowerMove
<1> QED
  BY <1>3, <1>4, <1>5, <1>6, <1>7, <1>8 DEF Next, RunTest, StopTest

(* What a step may do to one call of runTest: leave it, end it, begin it,  *)
(* one of its four steps that look up or write a row, or move it on with   *)
(* the run it has.                                                         *)
LEMMA StarterMoves ==
    ASSUME TypeOK, [Next]_vars, NEW h \in Starter
    PROVE  \/ starter'[h] = starter[h]
           \/ starter'[h] = IdleStarter
           \/ starter'[h].pc = "find" /\ starter'[h].run = NoRun
           \/ FindRunning(h) \/ FindScenario(h) \/ CreateRow(h) \/ MarkFailed(h)
           \/ /\ starter[h].pc \notin {"idle", "find", "scenario", "create"}
              /\ starter'[h].pc \notin {"announce", "create"}
              /\ starter'[h].run = starter[h].run
<1> USE DEF vars
<1>0. starter \in [Starter -> StarterRecord]
  BY DEF TypeOK
<1>1. ASSUME NEW g \in Starter, NEW s \in Scenario, RunTest(g, s), starter'[h] # starter[h]
      PROVE  starter'[h].pc = "find" /\ starter'[h].run = NoRun
  BY <1>0, <1>1 DEF RunTest, IdleStarter
<1>2. ASSUME NEW g \in Starter, NEW pc, NEW r, Goto(g, pc, r)
      PROVE  /\ g # h => starter'[h] = starter[h]
             /\ starter'[g].pc = pc /\ starter'[g].run = r
  BY <1>0, <1>2 DEF Goto, StarterRecord
<1>3. ASSUME NEW g \in Starter, Answer(g)
      PROVE  starter'[h] = starter[h] \/ starter'[h] = IdleStarter
  BY <1>0, <1>3 DEF Answer
<1>4. ASSUME NEW g \in Starter, StarterNext(g), g # h
      PROVE  starter'[h] = starter[h]
  <2>1. Answer(g) \/ \E pc, r : Goto(g, pc, r)
    BY <1>4 DEF StarterNext, FindRunning, IsExistingJob, FindScenario, CreateRow,
       CreateConfigMap, CreateJob, GetRunAt, SaveRunAt, StartFails, CleanUpFailedStart,
       GetFailTimes, MarkFailed, AnnounceFailed, StartThrows
  <2>2. ASSUME Answer(g) PROVE starter'[h] = starter[h]
    BY <1>0, <1>4, <2>2 DEF Answer
  <2> QED
    BY <1>2, <1>4, <2>1, <2>2
<1>5. ASSUME StarterNext(h), ~Answer(h),
             ~(FindRunning(h) \/ FindScenario(h) \/ CreateRow(h) \/ MarkFailed(h))
      PROVE  /\ starter[h].pc \notin {"idle", "find", "scenario", "create"}
             /\ starter'[h].pc \notin {"announce", "create"}
             /\ starter'[h].run = starter[h].run
  <2>1. CASE IsExistingJob(h)
    BY <1>2, <1>5, <2>1 DEF IsExistingJob
  <2>2. CASE CreateConfigMap(h) \/ CreateJob(h) \/ GetRunAt(h)
    BY <1>2, <2>2 DEF CreateConfigMap, CreateJob, GetRunAt
  <2>3. CASE StartFails(h) \/ CleanUpFailedStart(h) \/ GetFailTimes(h)
    BY <1>2, <2>3 DEF StartFails, CleanUpFailedStart, GetFailTimes, Guarded
  <2>4. ~SaveRunAt(h) /\ ~AnnounceFailed(h) /\ ~StartThrows(h)
    BY <1>5 DEF SaveRunAt, AnnounceFailed, StartThrows
  <2> QED
    BY <1>5, <2>1, <2>2, <2>3, <2>4 DEF StarterNext
<1>6. ASSUME NEW g \in Follower, FollowerNext(g)
      PROVE  starter'[h] = starter[h] \/ starter'[h] = IdleStarter
  BY <1>6 DEF FollowerNext, StartWatch, JobFailedUncounted, JobIdle, WatchFails,
     WatchCloses, CleanUpFollowed, CompletionGetEndAt, CompletionSaveStatus,
     CompletionSaveMetrics, CompletionAnnounce, UnhandledRejection, ProcessDies
<1>7. ASSUME NEW t \in Stopper, StopperNext(t) PROVE starter'[h] = starter[h]
  BY <1>7 DEF StopperNext, StopFind, StopCleanUp, StopGetEndAt, StopAbort, StopAnnounce,
     StopBranchFails, StopAnswers, StopThrows
<1>8. ASSUME Surroundings PROVE starter'[h] = starter[h]
  BY <1>8 DEF Surroundings, RemoveScenario, PodCreated, PodRuns, PodFails, PodSucceeds,
     PodCounted, PodRetried, JobMoves, JobExpires, K6Writes, SamplesAge
<1>9. ASSUME NEW t \in Stopper, NEW s \in Scenario, StopTest(t, s)
      PROVE starter'[h] = starter[h]
  BY <1>9 DEF StopTest
<1>10. ASSUME Crash PROVE starter'[h] = IdleStarter
  BY <1>10 DEF Crash, ProcessDies
<1>11. ASSUME NEW g \in Starter, StarterNext(g)
       PROVE  \/ starter'[h] = starter[h]
              \/ starter'[h] = IdleStarter
              \/ FindRunning(h) \/ FindScenario(h) \/ CreateRow(h) \/ MarkFailed(h)
              \/ /\ starter[h].pc \notin {"idle", "find", "scenario", "create"}
                 /\ starter'[h].pc \notin {"announce", "create"}
                 /\ starter'[h].run = starter[h].run
  BY <1>3, <1>4, <1>5, <1>11
<1> QED
  BY <1>1, <1>6, <1>7, <1>8, <1>9, <1>10, <1>11 DEF Next

(* Every step keeps a run in the hand of every call and follower at work.  *)
LEMMA RunsInHandStep ==
    ASSUME TypeOK, RunsInHand, [Next]_vars
    PROVE  RunsInHand'
<1>1. ASSUME NEW h \in Starter,
             starter'[h].pc \notin {"idle", "find", "scenario", "create"}
      PROVE  starter'[h].run # NoRun
  <2>0. starter[h] \in StarterRecord
    BY DEF TypeOK
  <2>1. CASE FindRunning(h)
    <3>1. \A r \in FirstRows(starter[h].scenario) : r \in Run
      BY DEF FirstRows, RunningRows
    <3> QED
      BY <1>1, <2>0, <2>1, <3>1, RunsAssumption DEF FindRunning, Goto, TypeOK, StarterRecord
  <2>2. CASE FindScenario(h)
    BY <1>1, <2>0, <2>2 DEF FindScenario, Goto, Answer, TypeOK, StarterRecord, IdleStarter
  <2>3. CASE CreateRow(h)
    BY <2>0, <2>3, RunsAssumption DEF CreateRow, Goto, TypeOK, StarterRecord
  <2>4. CASE MarkFailed(h)
    BY <2>0, <2>4 DEF MarkFailed, Goto, TypeOK, StarterRecord, RunsInHand
  <2> QED
    BY <1>1, <2>1, <2>2, <2>3, <2>4, StarterMoves DEF RunsInHand, IdleStarter
<1>3. ASSUME NEW h \in Starter, starter'[h].pc = "create"
      PROVE  starter'[h].run = NoRun
  <2>0. starter[h] \in StarterRecord
    BY DEF TypeOK
  <2>1. CASE FindRunning(h)
    BY <1>3, <2>0, <2>1 DEF FindRunning, Goto, TypeOK, StarterRecord
  <2>2. CASE FindScenario(h)
    BY <1>3, <2>0, <2>2 DEF FindScenario, Goto, Answer, TypeOK, StarterRecord, IdleStarter
  <2>3. CASE CreateRow(h)
    BY <1>3, <2>0, <2>3 DEF CreateRow, Goto, TypeOK, StarterRecord
  <2>4. CASE MarkFailed(h)
    BY <1>3, <2>0, <2>4 DEF MarkFailed, Goto, TypeOK, StarterRecord
  <2> QED
    BY <1>3, <2>1, <2>2, <2>3, <2>4, StarterMoves DEF RunsInHand, IdleStarter
<1>2. ASSUME NEW f \in Follower, ~Settled(f)' PROVE follower'[f].run # NoRun
  <2>0. follower \in [Follower -> FollowerRecord]
    BY DEF TypeOK
  <2>1. CASE follower'[f] = IdleFollower
    BY <1>2, <2>1 DEF Settled, IdleFollower
  <2>2. ASSUME NEW h \in Starter, SaveRunAt(h),
               follower'[f] = [IdleFollower EXCEPT !.run = starter[h].run,
                                                   !.watch = "starting"]
        PROVE  follower'[f].run # NoRun
    <3>1. follower'[f].run = starter[h].run
      BY <2>2, IdleTypes DEF FollowerRecord
    <3>2. starter[h].run \in Run
      BY <2>2, StarterRun DEF SaveRunAt
    <3> QED
      BY <3>1, <3>2, RunsAssumption
  <2>3. ASSUME ~Settled(f), follower'[f].run = follower[f].run
        PROVE  follower'[f].run # NoRun
    BY <2>3 DEF RunsInHand
  <2>4. CASE StartWatch(f) \/ JobFailedUncounted(f) \/ JobIdle(f) \/ WatchFails(f) \/ WatchCloses(f)
    <3>1. ~Settled(f)
      BY <2>4 DEF Settled, StartWatch, JobFailedUncounted, JobIdle, WatchFails, WatchCloses
    <3> QED
      BY <2>0, <2>3, <2>4, <3>1, WatchKeepsRun
  <2>5. ASSUME NEW v \in Verdict,
               CompletionGetEndAt(f, v) \/ CompletionSaveStatus(f, v)
                  \/ CompletionSaveMetrics(f, v) \/ CompletionAnnounce(f, v)
        PROVE  follower'[f].run # NoRun
    <3>1. ~Settled(f)
      BY <2>5 DEF Settled, CompletionGetEndAt, CompletionSaveStatus, CompletionSaveMetrics,
         CompletionAnnounce
    <3> QED
      BY <2>0, <2>3, <2>5, <3>1, CompletionKeepsRun
  <2>6. CASE Told(f)
    BY <1>2, <2>3, <2>6 DEF Told, Settled
  <2> QED
    BY <2>1, <2>2, <2>4, <2>5, <2>6, FollowerMoves DEF FollowerMove
<1> QED
  BY <1>1, <1>2, <1>3 DEF RunsInHand

(* Initially no call and no follower is at work. *)
LEMMA InitTypes == Init => TypeOK /\ RunsInHand
BY IdleTypes DEF Init, TypeOK, RunsInHand, Settled, IdleStarter, IdleFollower, JobState

(* Every step keeps the types. *)
LEMMA TypeStep ==
    ASSUME TypeOK, RunsInHand, [Next]_vars
    PROVE  TypeOK'
<1>1. ASSUME NEW h \in Starter, NEW s \in Scenario, RunTest(h, s) PROVE TypeOK'
  <2>1. [IdleStarter EXCEPT !.pc = "find", !.scenario = s] \in StarterRecord
    BY IdleTypes DEF StarterRecord, StartPc
  <2> QED
    BY <1>1, <2>1 DEF RunTest, TypeOK, db, cluster
<1>2. ASSUME NEW t \in Stopper, NEW s \in Scenario, StopTest(t, s) PROVE TypeOK'
  <2>1. [IdleStopper EXCEPT !.pc = "find", !.scenario = s] \in StopperRecord
    BY IdleTypes DEF StopperRecord
  <2> QED
    BY <1>2, <2>1 DEF StopTest, TypeOK, db, cluster
<1>3. CASE UNCHANGED vars
  BY <1>3 DEF vars, db, cluster, TypeOK
<1> QED
  BY <1>1, <1>2, <1>3, StarterTypeStep, StopperTypeStep, FollowerTypeStep,
     SurroundingsTypeStep, ProcessDiesType DEF Next, Crash

(* Type correctness: whatever the interleaving of starts, stops, watches,  *)
(* crashes and removals, every variable keeps its type, and every call and *)
(* every follower that still works has a run to work on.                   *)
THEOREM TypeCorrect == Spec => [](TypeOK /\ RunsInHand)
<1>1. TypeOK /\ RunsInHand /\ [Next]_vars => (TypeOK /\ RunsInHand)'
  BY TypeStep, RunsInHandStep
<1> QED
  BY <1>1, InitTypes, PTL DEF Spec

-----------------------------------------------------------------------------
(* Rows *)

(* The writers of the run-history table, and what each leaves of a row.   *)
RowMove(r) ==
    \/ rows'[r] = rows[r]
    \/ \E h \in Starter :
         /\ CreateRow(h) /\ rows[r].status = "NONE"
         /\ rows'[r] = [NoRow EXCEPT !.status = "RUNNING",
                                     !.scenario = starter[h].scenario]
    \/ \E h \in Starter :
         /\ SaveRunAt(h) /\ starter[h].run = r /\ Exists(r)
         /\ rows'[r] = [rows[r] EXCEPT !.runAt = TRUE]
    \/ \E h \in Starter :
         /\ MarkFailed(h) /\ starter[h].run = r /\ Exists(r)
         /\ rows'[r] = [rows[r] EXCEPT !.status = "FAILED",
                                       !.runAt = TRUE, !.endAt = TRUE]
    \/ \E t \in Stopper :
         /\ StopAbort(t, r) /\ Exists(r)
         /\ rows'[r] = [rows[r] EXCEPT !.status = "ABORTED", !.endAt = TRUE]
    \/ \E f \in Follower, v \in Verdict :
         /\ CompletionSaveStatus(f, v) /\ follower[f].run = r /\ Exists(r)
         /\ rows'[r] = [rows[r] EXCEPT !.status = v, !.endAt = TRUE]
    \/ \E f \in Follower, v \in Verdict :
         /\ CompletionSaveMetrics(f, v) /\ follower[f].run = r /\ Exists(r)
         /\ rows'[r] = [rows[r] EXCEPT !.status = v, !.measured = TRUE]
    \/ Exists(r) /\ rows'[r] = [NoRow EXCEPT !.status = "DELETED"]

(* No step does anything else to a row. *)
LEMMA RowMoves ==
    ASSUME TypeOK, [Next]_vars, NEW r \in Run
    PROVE  RowMove(r)
<1> USE DEF vars, db
<1>0. rows \in [Run -> RowRecord]
  BY DEF TypeOK
<1>1. ASSUME NEW q, NEW row, Update(q, row)
      PROVE  /\ q # r => rows'[r] = rows[r]
             /\ q = r => Exists(r) /\ rows'[r] = row
  BY <1>0, <1>1 DEF Update
<1>2. ASSUME NEW h \in Starter, CreateRow(h) PROVE RowMove(r)
  BY <1>0, <1>2 DEF CreateRow, RowMove
<1>3. ASSUME NEW h \in Starter, SaveRunAt(h) PROVE RowMove(r)
  BY <1>1, <1>3 DEF SaveRunAt, RowMove
<1>4. ASSUME NEW h \in Starter, MarkFailed(h) PROVE RowMove(r)
  <2> DEFINE q == starter[h].run
  <2>1. Update(q, [rows[q] EXCEPT !.status = "FAILED", !.runAt = TRUE, !.endAt = TRUE])
    BY <1>4 DEF MarkFailed
  <2> QED
    BY <1>0, <1>4, <2>1 DEF Update, RowMove
<1>5. ASSUME NEW t \in Stopper, NEW q \in Run, StopAbort(t, q) PROVE RowMove(r)
  <2>1. Update(q, [rows[q] EXCEPT !.status = "ABORTED", !.endAt = TRUE])
    BY <1>5 DEF StopAbort
  <2> QED
    BY <1>0, <1>5, <2>1 DEF Update, RowMove
<1>6. ASSUME NEW f \in Follower, NEW v \in Verdict, CompletionSaveStatus(f, v) PROVE RowMove(r)
  <2> DEFINE q == follower[f].run
  <2>1. Update(q, [rows[q] EXCEPT !.status = v, !.endAt = TRUE])
    BY <1>6 DEF CompletionSaveStatus
  <2> QED
    BY <1>0, <1>6, <2>1 DEF Update, RowMove
<1>7. ASSUME NEW f \in Follower, NEW v \in Verdict, CompletionSaveMetrics(f, v) PROVE RowMove(r)
  <2> DEFINE q == follower[f].run
  <2>1. Update(q, [rows[q] EXCEPT !.status = v, !.measured = TRUE])
    BY <1>7 DEF CompletionSaveMetrics
  <2> QED
    BY <1>0, <1>7, <2>1 DEF Update, RowMove
<1>8. ASSUME NEW s \in Scenario, RemoveScenario(s) PROVE RowMove(r)
  BY <1>8 DEF RemoveScenario, RowMove
<1>9. ASSUME UNCHANGED rows PROVE RowMove(r)
  BY <1>9 DEF RowMove
<1>10. ASSUME NEW h \in Starter, StarterNext(h) PROVE RowMove(r)
  BY <1>2, <1>3, <1>4, <1>9, <1>10 DEF StarterNext, FindRunning, IsExistingJob,
     FindScenario, CreateConfigMap, CreateJob, GetRunAt, StartFails, CleanUpFailedStart,
     GetFailTimes, AnnounceFailed, StartThrows
<1>11. ASSUME NEW t \in Stopper, StopperNext(t) PROVE RowMove(r)
  BY <1>5, <1>9, <1>11 DEF StopperNext, StopFind, StopCleanUp, StopGetEndAt, StopAnnounce,
     StopBranchFails, StopAnswers, StopThrows
<1>12. ASSUME NEW f \in Follower, FollowerNext(f) PROVE RowMove(r)
  BY <1>6, <1>7, <1>9, <1>12 DEF FollowerNext, StartWatch, JobFailedUncounted, JobIdle,
     WatchFails, WatchCloses, CleanUpFollowed, CompletionGetEndAt, CompletionAnnounce,
     UnhandledRejection, ProcessDies
<1>13. ASSUME Surroundings PROVE RowMove(r)
  BY <1>8, <1>9, <1>13 DEF Surroundings, PodCreated, PodRuns, PodFails, PodSucceeds,
     PodCounted, PodRetried, JobMoves, JobExpires, K6Writes, SamplesAge
<1> QED
  BY <1>9, <1>10, <1>11, <1>12, <1>13 DEF Next, RunTest, StopTest, Crash, ProcessDies

(* What is kept of a row, whoever writes it. *)
LEMMA RowKeeps ==
    ASSUME TypeOK, [Next]_vars, NEW r \in Run
    PROVE  /\ rows[r].status # "NONE" => rows'[r].status # "NONE"
           /\ rows'[r].status = "NONE" => rows'[r] = rows[r]
           /\ rows'[r].status = "RUNNING" /\ rows[r].status # "RUNNING" =>
                \E h \in Starter : CreateRow(h) /\ rows[r].status = "NONE"
           /\ rows[r].status = "DELETED" => rows'[r] = rows[r]
           /\ RowStep(r)
<1>0. rows[r] \in RowRecord
  BY DEF TypeOK
<1>1. RowMove(r)
  BY RowMoves
<1> QED
  BY <1>0, <1>1 DEF RowMove, RowStep, Exists, RowRecord, RunHistoryStatus, Terminal,
     Verdict, NoRow

(* A pod that has failed has failed for ever. *)
LEMMA CrashedGrows ==
    ASSUME TypeOK, [Next]_vars
    PROVE  crashed \subseteq crashed'
<1> USE DEF vars, cluster
<1>1. ASSUME NEW r, NEW gone, NEW fs, Delete(r, gone, fs) PROVE crashed' = crashed
  BY <1>1 DEF Delete
<1>2. ASSUME NEW r, NEW from, NEW to, JobMoves(r, from, to) PROVE crashed \subseteq crashed'
  BY <1>2 DEF JobMoves
<1>3. ASSUME NEW h \in Starter, StarterNext(h) PROVE crashed' = crashed
  BY <1>1, <1>3 DEF StarterNext, FindRunning, IsExistingJob, FindScenario, CreateRow,
     CreateConfigMap, CreateJob, GetRunAt, SaveRunAt, StartFails, CleanUpFailedStart,
     GetFailTimes, MarkFailed, AnnounceFailed, StartThrows
<1>4. ASSUME NEW t \in Stopper, StopperNext(t) PROVE crashed' = crashed
  BY <1>1, <1>4 DEF StopperNext, StopFind, StopCleanUp, StopGetEndAt, StopAbort,
     StopAnnounce, StopBranchFails, StopAnswers, StopThrows
<1>5. ASSUME NEW f \in Follower, FollowerNext(f) PROVE crashed' = crashed
  BY <1>1, <1>5 DEF FollowerNext, StartWatch, JobFailedUncounted, JobIdle, WatchFails,
     WatchCloses, CleanUpFollowed, CompletionGetEndAt, CompletionSaveStatus,
     CompletionSaveMetrics, CompletionAnnounce, UnhandledRejection, ProcessDies
<1>6. ASSUME Surroundings PROVE crashed \subseteq crashed'
  BY <1>1, <1>2, <1>6 DEF Surroundings, RemoveScenario, PodCreated, PodRuns, PodFails,
     PodSucceeds, PodCounted, PodRetried, JobExpires, K6Writes, SamplesAge
<1> QED
  BY <1>3, <1>4, <1>5, <1>6 DEF Next, RunTest, StopTest, Crash, ProcessDies

(* The invariants of the table alone: each of its writers keeps them.      *)
LEMMA RowsStep ==
    ASSUME SafetyInv, [Next]_vars
    PROVE  UnusedRows' /\ RowsAreDated' /\ SuccessFollowsPodEnd'
<1> SUFFICES ASSUME NEW r \in Run
             PROVE  /\ rows'[r].status = "NONE" => rows'[r] = NoRow
                    /\ rows'[r].status \in Terminal => rows'[r].endAt
                    /\ rows'[r].status \in {"SUCCESS", "FAILED"} => rows'[r].runAt
                    /\ rows'[r].measured => rows'[r].status \in Terminal
                    /\ rows'[r].status = "SUCCESS" => r \in crashed'
  BY DEF UnusedRows, RowsAreDated, SuccessFollowsPodEnd
<1>0. /\ rows[r] \in RowRecord
      /\ rows[r].status = "NONE" => rows[r] = NoRow
      /\ rows[r].status \in Terminal => rows[r].endAt
      /\ rows[r].status \in {"SUCCESS", "FAILED"} => rows[r].runAt
      /\ rows[r].measured => rows[r].status \in Terminal
      /\ rows[r].status = "SUCCESS" => r \in crashed
      /\ crashed \subseteq crashed'
  BY CrashedGrows DEF SafetyInv, TypeOK, UnusedRows, RowsAreDated, SuccessFollowsPodEnd
<1> DEFINE Goal == /\ rows'[r].status = "NONE" => rows'[r] = NoRow
                   /\ rows'[r].status \in Terminal => rows'[r].endAt
                   /\ rows'[r].status \in {"SUCCESS", "FAILED"} => rows'[r].runAt
                   /\ rows'[r].measured => rows'[r].status \in Terminal
                   /\ rows'[r].status = "SUCCESS" => r \in crashed'
<1>1. ASSUME NEW f \in Follower, NEW v \in Verdict, follower[f].done[v] # "off",
             follower[f].run = r, Exists(r)
      PROVE  rows[r].runAt /\ (v = "SUCCESS" => r \in crashed)
  BY <1>1, RunsAssumption DEF SafetyInv, FollowedRowsAreDated, SuccessHasEvidence
<1>2. CASE rows'[r] = rows[r]
  BY <1>0, <1>2
<1>3. ASSUME NEW h \in Starter,
             rows'[r] = [NoRow EXCEPT !.status = "RUNNING",
                                      !.scenario = starter[h].scenario]
      PROVE  Goal
  BY <1>3 DEF NoRow, Terminal
<1>4. CASE rows'[r] = [rows[r] EXCEPT !.runAt = TRUE] /\ Exists(r)
  BY <1>0, <1>4 DEF Exists, RowRecord, RunHistoryStatus, Terminal
<1>5. CASE rows'[r] = [rows[r] EXCEPT !.status = "FAILED", !.runAt = TRUE, !.endAt = TRUE]
  BY <1>0, <1>5 DEF RowRecord, Terminal
<1>6. CASE rows'[r] = [rows[r] EXCEPT !.status = "ABORTED", !.endAt = TRUE]
  BY <1>0, <1>6 DEF RowRecord, Terminal
<1>7. ASSUME NEW f \in Follower, NEW v \in Verdict, CompletionSaveStatus(f, v),
             follower[f].run = r, Exists(r),
             rows'[r] = [rows[r] EXCEPT !.status = v, !.endAt = TRUE]
      PROVE  Goal
  BY <1>0, <1>1, <1>7 DEF CompletionSaveStatus, RowRecord, Terminal, Verdict
<1>8. ASSUME NEW f \in Follower, NEW v \in Verdict, CompletionSaveMetrics(f, v),
             follower[f].run = r, Exists(r),
             rows'[r] = [rows[r] EXCEPT !.status = v, !.measured = TRUE]
      PROVE  Goal
  BY <1>0, <1>1, <1>8 DEF CompletionSaveMetrics, RowRecord, Terminal, Verdict
<1>9. CASE rows'[r] = [NoRow EXCEPT !.status = "DELETED"]
  BY <1>9 DEF NoRow, Terminal
<1>10. RowMove(r)
  BY RowMoves DEF SafetyInv
<1> QED
  BY <1>2, <1>3, <1>4, <1>5, <1>6, <1>7, <1>8, <1>9, <1>10 DEF RowMove

-----------------------------------------------------------------------------
(* What the processes hold *)

(* What a step can tell of the outcome a follower is writing: a completion *)
(* past its write is where it was or has just written, and a success       *)
(* starts from an uncounted failure.                                       *)
LEMMA FollowerOutcome ==
    ASSUME TypeOK, [Next]_vars, NEW f \in Follower, NEW v \in Verdict
    PROVE  /\ \/ follower'[f].run = follower[f].run
              \/ follower'[f].events = {} /\ follower'[f].done[v] = "off"
           /\ follower'[f].done[v] \in {"metrics", "announce"} =>
                \/ follower[f].done[v] \in {"metrics", "announce"}
                \/ CompletionSaveStatus(f, v)
           /\ v = "SUCCESS" /\ follower'[f].done[v] # "off" =>
                follower[f].done[v] # "off" \/ "uncounted" \in follower[f].events
           /\ "uncounted" \in follower'[f].events =>
                \/ "uncounted" \in follower[f].events
                \/ jobs[follower[f].run] = "uncounted" /\ ~Settled(f)
                \/ follower[f].run \in crashed'
<1> DEFINE Goal ==
       /\ \/ follower'[f].run = follower[f].run
          \/ follower'[f].events = {} /\ follower'[f].done[v] = "off"
       /\ follower'[f].done[v] \in {"metrics", "announce"} =>
            \/ follower[f].done[v] \in {"metrics", "announce"}
            \/ CompletionSaveStatus(f, v)
       /\ v = "SUCCESS" /\ follower'[f].done[v] # "off" =>
            follower[f].done[v] # "off" \/ "uncounted" \in follower[f].events
       /\ "uncounted" \in follower'[f].events =>
            \/ "uncounted" \in follower[f].events
            \/ jobs[follower[f].run] = "uncounted" /\ ~Settled(f)
            \/ follower[f].run \in crashed'
<1>0. follower[f] \in FollowerRecord /\ follower \in [Follower -> FollowerRecord]
  BY DEF TypeOK
<1>1. CASE follower'[f] = IdleFollower
  BY <1>1 DEF IdleFollower
<1>2. ASSUME NEW h \in Starter,
             follower'[f] = [IdleFollower EXCEPT !.run = starter[h].run,
                                                 !.watch = "starting"]
      PROVE  Goal
  BY <1>2 DEF IdleFollower
<1>3. CASE StartWatch(f)
  BY <1>0, <1>3, EventOfUncounted DEF StartWatch, Follow, FollowerRecord, Settled
<1>4. CASE JobFailedUncounted(f)
  BY <1>0, <1>4 DEF JobFailedUncounted, Follow, FollowerRecord
<1>5. CASE JobIdle(f)
  BY <1>0, <1>5 DEF JobIdle, Follow, FollowerRecord
<1>6. CASE WatchFails(f)
  BY <1>0, <1>6 DEF WatchFails, Follow, FollowerRecord
<1>7. CASE WatchCloses(f)
  BY <1>0, <1>7 DEF WatchCloses, Follow, FollowerRecord
<1>8. ASSUME NEW u \in Verdict, CompletionGetEndAt(f, u) PROVE Goal
  BY <1>0, <1>8 DEF CompletionGetEndAt, Follow, FollowerRecord
<1>9. ASSUME NEW u \in Verdict, CompletionSaveStatus(f, u) PROVE Goal
  <2>1. /\ follower[f].done[u] = "status"
        /\ follower' = [follower EXCEPT ![f] = [follower[f] EXCEPT !.done[u] = "metrics"]]
    BY <1>9 DEF CompletionSaveStatus, Follow
  <2>2. u # v => follower'[f].done[v] = follower[f].done[v]
    BY <1>0, <2>1 DEF FollowerRecord
  <2> QED
    BY <1>0, <1>9, <2>1, <2>2 DEF FollowerRecord
<1>10. ASSUME NEW u \in Verdict, CompletionSaveMetrics(f, u) PROVE Goal
  BY <1>0, <1>10 DEF CompletionSaveMetrics, Follow, FollowerRecord
<1>11. ASSUME NEW u \in Verdict, CompletionAnnounce(f, u) PROVE Goal
  <2>1. /\ follower'[f].run = follower[f].run
        /\ follower'[f].done = [follower[f].done EXCEPT ![u] = "off"]
        /\ follower'[f].events \subseteq follower[f].events
    <3>1. CASE u = "FAILED"
      BY <1>0, <1>11, <3>1 DEF CompletionAnnounce, Follow, FollowerRecord
    <3>2. CASE u # "FAILED"
      <4> DEFINE done == [follower[f].done EXCEPT ![u] = "off"]
                 watch == IF follower[f].watch = "listening" THEN "complete"
                          ELSE follower[f].watch
      <4>1. follower'[f] = [follower[f] EXCEPT !.done = done, !.clean = TRUE,
                                               !.events = {}, !.watch = watch]
        BY <1>0, <1>11, <3>2 DEF CompletionAnnounce, Follow
      <4> HIDE DEF done, watch
      <4>2. /\ follower'[f].run = follower[f].run
            /\ follower'[f].done = done
            /\ follower'[f].events = {}
        BY <1>0, <4>1 DEF FollowerRecord
      <4> QED
        BY <4>2 DEF done
    <3> QED
      BY <3>1, <3>2
  <2> QED
    BY <1>0, <2>1 DEF FollowerRecord
<1>12. CASE Told(f)
  BY <1>12 DEF Told, Settled
<1> QED
  BY <1>1, <1>2, <1>3, <1>4, <1>5, <1>6, <1>7, <1>8, <1>9, <1>10, <1>11, <1>12,
     FollowerMoves DEF FollowerMove

(* A follower keeps its run until it is reset or given another.            *)
LEMMA FollowerRunMoves ==
    ASSUME TypeOK, [Next]_vars, NEW f \in Follower
    PROVE  \/ follower'[f] = IdleFollower
           \/ \E h \in Starter :
                /\ SaveRunAt(h)
                /\ follower'[f] = [IdleFollower EXCEPT !.run = starter[h].run,
                                                      !.watch = "starting"]
           \/ follower'[f].run = follower[f].run
<1>0. follower \in [Follower -> FollowerRecord]
  BY DEF TypeOK
<1>1. CASE StartWatch(f) \/ JobFailedUncounted(f) \/ JobIdle(f)
              \/ WatchFails(f) \/ WatchCloses(f)
  BY <1>0, <1>1, WatchKeepsRun
<1>2. ASSUME NEW v \in Verdict,
             CompletionGetEndAt(f, v) \/ CompletionSaveStatus(f, v)
                \/ CompletionSaveMetrics(f, v) \/ CompletionAnnounce(f, v)
      PROVE  follower'[f].run = follower[f].run
  BY <1>0, <1>2, CompletionKeepsRun
<1>3. CASE Told(f)
  BY <1>3 DEF Told
<1>4. FollowerMove(f)
  BY FollowerMoves
<1> QED
  BY <1>1, <1>2, <1>3, <1>4 DEF FollowerMove

(* What a step may do to the branch of a stopTest call for one row.        *)
LEMMA StopperMoves ==
    ASSUME TypeOK, [Next]_vars, NEW t \in Stopper, NEW r \in Run
    PROVE  \/ stopper'[t].branch[r] = stopper[t].branch[r]
           \/ stopper'[t].branch[r] = "off"
           \/ rows[r].status = "RUNNING" /\ stopper'[t].branch[r] = "cleanUp"
           \/ /\ stopper[t].branch[r] # "off"
              /\ stopper'[t].branch[r] \in {"endAt", "abort", "failed"}
           \/ StopAbort(t, r)
           \/ stopper[t].branch[r] = "announce" /\ stopper'[t].branch[r] = "done"
<1> USE DEF vars
<1> DEFINE Goal ==
       \/ stopper'[t].branch[r] = stopper[t].branch[r]
       \/ stopper'[t].branch[r] = "off"
       \/ rows[r].status = "RUNNING" /\ stopper'[t].branch[r] = "cleanUp"
       \/ /\ stopper[t].branch[r] # "off"
          /\ stopper'[t].branch[r] \in {"endAt", "abort", "failed"}
       \/ StopAbort(t, r)
       \/ stopper[t].branch[r] = "announce" /\ stopper'[t].branch[r] = "done"
<1>0. stopper \in [Stopper -> StopperRecord] /\ stopper[t] \in StopperRecord
  BY DEF TypeOK
<1>1. ASSUME NEW u \in Stopper, NEW s, StopTest(u, s) PROVE Goal
  BY <1>0, <1>1 DEF StopTest, IdleStopper
<1>2. ASSUME NEW u \in Stopper, StopFind(u) PROVE Goal
  <2>1. CASE u = t
    BY <1>0, <1>2, <2>1 DEF StopFind, RunningRows, StopperRecord
  <2>2. CASE u # t
    BY <1>0, <1>2, <2>2 DEF StopFind
  <2> QED
    BY <2>1, <2>2
<1>3. ASSUME NEW u \in Stopper, StopAnswers(u) \/ StopThrows(u) PROVE Goal
  <2>0. \A x \in StopperRecord, a \in {"ok", "500"} :
            [x EXCEPT !.pc = "idle", !.answer = a].branch = x.branch
    BY DEF StopperRecord
  <2>1. CASE u = t
    <3>1. stopper'[t] \in {[stopper[t] EXCEPT !.pc = "idle", !.answer = a] : a \in {"ok", "500"}}
      BY <1>0, <1>3, <2>1 DEF StopAnswers, StopThrows
    <3> QED
      BY <1>0, <2>0, <3>1
  <2>2. CASE u # t
    BY <1>0, <1>3, <2>2 DEF StopAnswers, StopThrows
  <2> QED
    BY <2>1, <2>2
<1>4. ASSUME NEW u \in Stopper, NEW q \in Run, NEW b, SetBranch(u, q, b)
      PROVE  /\ u # t \/ q # r => stopper'[t].branch[r] = stopper[t].branch[r]
             /\ u = t /\ q = r => stopper'[t].branch[r] = b
  BY <1>0, <1>4 DEF SetBranch, StopperRecord
<1>5. ASSUME NEW u \in Stopper, NEW q \in Run,
             StopCleanUp(u, q) \/ StopGetEndAt(u, q) \/ StopBranchFails(u, q)
      PROVE  Goal
  BY <1>4, <1>5 DEF StopCleanUp, StopGetEndAt, StopBranchFails
<1>6. ASSUME NEW u \in Stopper, NEW q \in Run, StopAbort(u, q) \/ StopAnnounce(u, q)
      PROVE  Goal
  <2>1. CASE u = t /\ q = r
    BY <1>4, <1>6, <2>1 DEF StopAnnounce
  <2>2. CASE u # t \/ q # r
    BY <1>4, <1>6, <2>2 DEF StopAnnounce, StopAbort
  <2> QED
    BY <2>1, <2>2
<1>7. ASSUME UNCHANGED stopper PROVE Goal
  BY <1>7
<1>8. ASSUME ProcessDies PROVE Goal
  BY <1>8 DEF ProcessDies, IdleStopper
<1>9. ASSUME NEW h \in Starter, StarterNext(h) PROVE UNCHANGED stopper
  BY <1>9 DEF StarterNext, FindRunning, IsExistingJob, FindScenario, CreateRow,
     CreateConfigMap, CreateJob, GetRunAt, SaveRunAt, StartFails, CleanUpFailedStart,
     GetFailTimes, MarkFailed, AnnounceFailed, StartThrows
<1>10. ASSUME NEW f \in Follower, FollowerNext(f) PROVE UNCHANGED stopper \/ ProcessDies
  BY <1>10 DEF FollowerNext, StartWatch, JobFailedUncounted, JobIdle, WatchFails,
     WatchCloses, CleanUpFollowed, CompletionGetEndAt, CompletionSaveStatus,
     CompletionSaveMetrics, CompletionAnnounce, UnhandledRejection
<1>11. ASSUME Surroundings PROVE UNCHANGED stopper
  BY <1>11 DEF Surroundings, RemoveScenario, PodCreated, PodRuns, PodFails, PodSucceeds,
     PodCounted, PodRetried, JobMoves, JobExpires, K6Writes, SamplesAge
<1>12. ASSUME NEW u \in Stopper, StopperNext(u) PROVE Goal
  BY <1>2, <1>3, <1>5, <1>6, <1>12 DEF StopperNext
<1> QED
  BY <1>1, <1>7, <1>8, <1>9, <1>10, <1>11, <1>12 DEF Next, RunTest, Crash

(* Every step keeps a row behind each run somebody holds.                  *)
LEMMA HeldRunsStep ==
    ASSUME SafetyInv, [Next]_vars
    PROVE  HeldRunsHaveRows'
<1>0. TypeOK
  BY DEF SafetyInv
<1>1. ASSUME NEW h \in Starter, starter'[h].run # NoRun
      PROVE  rows'[starter'[h].run].status # "NONE"
  <2>0. starter[h] \in StarterRecord /\ starter \in [Starter -> StarterRecord]
    BY <1>0 DEF TypeOK
  <2>1. ASSUME starter'[h].run = starter[h].run
        PROVE  rows'[starter'[h].run].status # "NONE"
    <3>1. starter[h].run \in Run /\ rows[starter[h].run].status # "NONE"
      BY <1>1, <2>0, <2>1 DEF SafetyInv, HeldRunsHaveRows, StarterRecord
    <3> QED
      BY <1>0, <2>1, <3>1, RowKeeps
  <2>2. CASE FindRunning(h)
    <3>1. PICK r \in Run : rows[r].status = "RUNNING" /\ starter'[h].run = r
      BY <1>1, <2>0, <2>2 DEF FindRunning, Goto, StarterRecord, FirstRows, RunningRows
    <3> QED
      BY <1>0, <3>1, RowKeeps
  <2>3. CASE FindScenario(h)
    BY <1>1, <2>0, <2>1, <2>3 DEF FindScenario, Goto, Answer, StarterRecord, IdleStarter
  <2>4. CASE CreateRow(h)
    <3>1. PICK r \in Run :
            /\ rows' = [rows EXCEPT ![r] = [NoRow EXCEPT
                            !.status = "RUNNING", !.scenario = starter[h].scenario]]
            /\ Goto(h, "configMap", r)
      BY <2>4 DEF CreateRow
    <3>2. starter'[h].run = r
      BY <2>0, <3>1 DEF Goto, StarterRecord
    <3> QED
      BY <1>0, <3>1, <3>2 DEF TypeOK, NoRow
  <2>5. CASE MarkFailed(h)
    BY <2>0, <2>1, <2>5 DEF MarkFailed, Goto, StarterRecord
  <2> QED
    BY <1>0, <1>1, <2>1, <2>2, <2>3, <2>4, <2>5, StarterMoves DEF IdleStarter
<1>2. ASSUME NEW t \in Stopper, NEW r \in Run, stopper'[t].branch[r] # "off"
      PROVE  rows'[r].status # "NONE"
  <2>1. rows[r].status # "NONE"
    BY <1>0, <1>2, StopperMoves DEF SafetyInv, HeldRunsHaveRows, StopAbort
  <2> QED
    BY <1>0, <2>1, RowKeeps
<1>3. ASSUME NEW f \in Follower, follower'[f].run # NoRun
      PROVE  rows'[follower'[f].run].status # "NONE"
  <2>0. /\ follower[f] \in FollowerRecord
        /\ follower \in [Follower -> FollowerRecord]
    BY <1>0 DEF TypeOK
  <2>1. ASSUME follower'[f].run = follower[f].run
        PROVE  rows'[follower'[f].run].status # "NONE"
    <3>1. follower[f].run \in Run /\ rows[follower[f].run].status # "NONE"
      BY <1>3, <2>0, <2>1 DEF SafetyInv, HeldRunsHaveRows, FollowerRecord
    <3> QED
      BY <1>0, <2>1, <3>1, RowKeeps
  <2>2. ASSUME NEW h \in Starter, SaveRunAt(h),
               follower'[f] = [IdleFollower EXCEPT !.run = starter[h].run,
                                                   !.watch = "starting"]
        PROVE  rows'[follower'[f].run].status # "NONE"
    <3>1. follower'[f].run = starter[h].run
      BY <2>2 DEF IdleFollower
    <3>2. starter[h].run \in Run /\ rows[starter[h].run].status # "NONE"
      BY <1>0, <2>2, StarterRun DEF SafetyInv, HeldRunsHaveRows, SaveRunAt, RunsInHand
    <3> QED
      BY <1>0, <3>1, <3>2, RowKeeps
  <2>3. follower'[f] # IdleFollower
    BY <1>3 DEF IdleFollower
  <2> QED
    BY <1>0, <1>3, <2>1, <2>2, <2>3, FollowerRunMoves
<1> QED
  BY <1>1, <1>2, <1>3 DEF HeldRunsHaveRows

(* A row that is not RUNNING is not made RUNNING behind its holder's back. *)
LEMMA EndedStays ==
    ASSUME SafetyInv, [Next]_vars, NEW r \in Run,
           rows[r].status # "NONE", rows[r].status # "RUNNING"
    PROVE  rows'[r].status # "RUNNING"
BY RowKeeps DEF SafetyInv, RowStep

(* A completion that has written its outcome finds the row ended.          *)
LEMMA FollowedRowsStep ==
    ASSUME SafetyInv, [Next]_vars
    PROVE  FollowedRowsAreDated'
<1>0. TypeOK
  BY DEF SafetyInv
<1> SUFFICES ASSUME NEW f \in Follower
             PROVE  /\ /\ follower'[f].run # NoRun
                       /\ rows'[follower'[f].run].status \in RunHistoryStatus
                       => rows'[follower'[f].run].runAt
                    /\ \A v \in Verdict :
                        follower'[f].done[v] \in {"metrics", "announce"} =>
                            rows'[follower'[f].run].status # "RUNNING"
  BY DEF FollowedRowsAreDated, Exists
<1> DEFINE r == follower[f].run
<1>1. /\ follower[f] \in FollowerRecord
      /\ follower \in [Follower -> FollowerRecord]
      /\ r \in Run \cup {NoRun}
      /\ r # NoRun => rows[r].status # "NONE"
  BY <1>0 DEF TypeOK, FollowerRecord, SafetyInv, HeldRunsHaveRows
<1>2. ASSUME follower'[f].run # NoRun, rows'[follower'[f].run].status \in RunHistoryStatus
      PROVE  rows'[follower'[f].run].runAt
  <2>1. ASSUME follower'[f].run = r PROVE rows'[r].runAt
    <3>1. r \in Run /\ rows[r] \in RowRecord
      BY <1>0, <1>1, <1>2, <2>1 DEF TypeOK
    <3>2. rows[r].status \in RunHistoryStatus
      <4>1. rows[r].status # "NONE"
        BY <1>1, <1>2, <2>1
      <4>2. rows[r].status # "DELETED"
        BY <1>0, <1>2, <2>1, <3>1, RowKeeps DEF RunHistoryStatus, Terminal
      <4> QED
        BY <3>1, <4>1, <4>2 DEF RowRecord
    <3>3. rows[r].runAt
      BY <1>2, <2>1, <3>2 DEF SafetyInv, FollowedRowsAreDated, Exists
    <3>4. RowStep(r)
      BY <1>0, <3>1, RowKeeps
    <3> QED
      BY <1>2, <2>1, <3>2, <3>3, <3>4 DEF RowStep, Exists
  <2>2. ASSUME NEW h \in Starter, SaveRunAt(h),
               follower'[f] = [IdleFollower EXCEPT !.run = starter[h].run,
                                                   !.watch = "starting"]
        PROVE  rows'[follower'[f].run].runAt
    <3>1. follower'[f].run = starter[h].run
      BY <2>2 DEF IdleFollower
    <3>2. starter[h].run \in Run /\ rows[starter[h].run] \in RowRecord
      BY <1>0, <2>2, StarterRun DEF SafetyInv, SaveRunAt, TypeOK
    <3>3. rows'[starter[h].run] = [rows[starter[h].run] EXCEPT !.runAt = TRUE]
      BY <1>0, <2>2, <3>2 DEF SaveRunAt, Update, TypeOK
    <3> QED
      BY <3>1, <3>2, <3>3 DEF RowRecord
  <2>3. follower'[f] # IdleFollower
    BY <1>2 DEF IdleFollower
  <2> QED
    BY <1>0, <1>2, <2>1, <2>2, <2>3, FollowerRunMoves
<1>3. ASSUME NEW v \in Verdict, follower'[f].done[v] \in {"metrics", "announce"}
      PROVE  rows'[follower'[f].run].status # "RUNNING"
  <2>1. follower'[f].run = r
    BY <1>0, <1>3, FollowerOutcome
  <2>2. CASE follower[f].done[v] \in {"metrics", "announce"}
    <3>1. rows[r].status # "RUNNING"
      BY <2>2 DEF SafetyInv, FollowedRowsAreDated
    <3>2. r \in Run
      BY <1>0, <2>2, FollowerRun DEF SafetyInv, Settled
    <3> QED
      BY <1>1, <2>1, <3>1, <3>2, RunsAssumption, EndedStays
  <2>3. CASE CompletionSaveStatus(f, v)
    <3>1. r \in Run /\ rows[r] \in RowRecord
      BY <1>0, <2>3, FollowerRun DEF SafetyInv, Settled, CompletionSaveStatus, TypeOK
    <3>2. rows'[r] = [rows[r] EXCEPT !.status = v, !.endAt = TRUE]
      BY <1>0, <2>3, <3>1 DEF CompletionSaveStatus, Update, TypeOK
    <3>3. rows'[r].status = v
      BY <3>1, <3>2 DEF RowRecord
    <3> QED
      BY <2>1, <3>3 DEF Verdict
  <2> QED
    BY <1>0, <1>3, <2>2, <2>3, FollowerOutcome
<1> QED
  BY <1>2, <1>3

(* How a job of a run comes to have an uncounted failure.                  *)
LEMMA UncountedJobs ==
    ASSUME TypeOK, [Next]_vars, NEW r \in Run, jobs'[r] = "uncounted"
    PROVE  jobs[r] = "uncounted" \/ r \in crashed'
<1> USE DEF vars, cluster
<1>0. jobs \in [Run -> JobState]
  BY DEF TypeOK
<1>1. ASSUME NEW q, NEW gone, NEW fs, Delete(q, gone, fs) PROVE jobs[r] = "uncounted"
  BY <1>0, <1>1 DEF Delete
<1>2. ASSUME NEW q \in Run, NEW from, NEW to, JobMoves(q, from, to)
      PROVE  jobs[r] = "uncounted" \/ r \in crashed'
  BY <1>0, <1>2 DEF JobMoves
<1>3. ASSUME NEW h \in Starter, StarterNext(h) PROVE jobs[r] = "uncounted"
  <2>1. CASE CreateJob(h)
    BY <1>0, <2>1 DEF CreateJob
  <2> QED
    BY <1>1, <1>3, <2>1 DEF StarterNext, FindRunning, IsExistingJob, FindScenario,
       CreateRow, CreateConfigMap, GetRunAt, SaveRunAt, StartFails, CleanUpFailedStart,
       GetFailTimes, MarkFailed, AnnounceFailed, StartThrows
<1>4. ASSUME NEW t \in Stopper, StopperNext(t) PROVE jobs[r] = "uncounted"
  BY <1>1, <1>4 DEF StopperNext, StopFind, StopCleanUp, StopGetEndAt, StopAbort,
     StopAnnounce, StopBranchFails, StopAnswers, StopThrows
<1>5. ASSUME NEW f \in Follower, FollowerNext(f) PROVE jobs[r] = "uncounted"
  BY <1>1, <1>5 DEF FollowerNext, StartWatch, JobFailedUncounted, JobIdle, WatchFails,
     WatchCloses, CleanUpFollowed, CompletionGetEndAt, CompletionSaveStatus,
     CompletionSaveMetrics, CompletionAnnounce, UnhandledRejection, ProcessDies
<1>6. ASSUME Surroundings PROVE jobs[r] = "uncounted" \/ r \in crashed'
  BY <1>1, <1>2, <1>6 DEF Surroundings, RemoveScenario, PodCreated, PodRuns, PodFails,
     PodSucceeds, PodCounted, PodRetried, JobExpires, K6Writes, SamplesAge
<1> QED
  BY <1>3, <1>4, <1>5, <1>6 DEF Next, RunTest, StopTest, Crash, ProcessDies

(* Every step keeps the evidence of the successes under way.               *)
LEMMA SuccessStep ==
    ASSUME SafetyInv, [Next]_vars
    PROVE  SuccessHasEvidence'
<1>0. TypeOK /\ crashed \subseteq crashed'
  BY CrashedGrows DEF SafetyInv
<1>1. ASSUME NEW r \in Run, jobs'[r] = "uncounted" PROVE r \in crashed'
  BY <1>0, <1>1, UncountedJobs DEF SafetyInv, SuccessHasEvidence
<1>2. ASSUME NEW f \in Follower, "uncounted" \in follower'[f].events
      PROVE  follower'[f].run \in crashed'
  <2>1. follower'[f].run = follower[f].run
    BY <1>0, <1>2, FollowerOutcome DEF Verdict
  <2>2. \/ "uncounted" \in follower[f].events
        \/ jobs[follower[f].run] = "uncounted" /\ ~Settled(f)
        \/ follower[f].run \in crashed'
    BY <1>0, <1>2, FollowerOutcome DEF Verdict
  <2>3. ~Settled(f) => follower[f].run \in Run
    BY <1>0, FollowerRun DEF SafetyInv
  <2> QED
    BY <1>0, <2>1, <2>2, <2>3 DEF SafetyInv, SuccessHasEvidence
<1>3. ASSUME NEW f \in Follower, follower'[f].done["SUCCESS"] # "off"
      PROVE  follower'[f].run \in crashed'
  <2>0. "SUCCESS" \in Verdict
    BY DEF Verdict
  <2>1. follower'[f].run = follower[f].run
    BY <1>0, <1>3, <2>0, FollowerOutcome
  <2>2. follower[f].done["SUCCESS"] # "off" \/ "uncounted" \in follower[f].events
    BY <1>0, <1>3, <2>0, FollowerOutcome
  <2> QED
    BY <1>0, <2>1, <2>2 DEF SafetyInv, SuccessHasEvidence
<1> QED
  BY <1>1, <1>2, <1>3 DEF SuccessHasEvidence

(* Every step keeps an announced end recorded.                             *)
LEMMA AnnouncedStep ==
    ASSUME SafetyInv, [Next]_vars
    PROVE  AnnouncedEndIsRecorded'
<1>0. TypeOK
  BY DEF SafetyInv
<1>1. ASSUME NEW h \in Starter, starter'[h].pc = "announce"
      PROVE  rows'[starter'[h].run].status # "RUNNING"
  <2>0. starter[h] \in StarterRecord /\ starter \in [Starter -> StarterRecord]
    BY <1>0 DEF TypeOK
  <2>1. CASE starter'[h] = starter[h]
    <3>1. starter[h].run \in Run
      BY <1>0, <1>1, <2>1, StarterRun DEF SafetyInv
    <3>2. rows[starter[h].run].status \notin {"RUNNING", "NONE"}
      BY <1>1, <2>1, <3>1, RunsAssumption DEF SafetyInv, AnnouncedEndIsRecorded, HeldRunsHaveRows
    <3> QED
      BY <2>1, <3>1, <3>2, EndedStays
  <2>2. CASE MarkFailed(h)
    <3>1. starter[h].run \in Run /\ rows[starter[h].run] \in RowRecord
      BY <1>0, <2>2, StarterRun DEF SafetyInv, MarkFailed, TypeOK
    <3>2. rows'[starter[h].run] =
            [rows[starter[h].run] EXCEPT !.status = "FAILED", !.runAt = TRUE, !.endAt = TRUE]
      BY <1>0, <2>2, <3>1 DEF MarkFailed, Update, TypeOK
    <3>3. rows'[starter[h].run].status = "FAILED"
      BY <3>1, <3>2 DEF RowRecord
    <3>4. starter'[h].run = starter[h].run
      BY <2>0, <2>2 DEF MarkFailed, Goto, StarterRecord
    <3> QED
      BY <3>3, <3>4
  <2>3. ~FindRunning(h)
    BY <1>1, <2>0 DEF FindRunning, Goto, StarterRecord
  <2>4. ~FindScenario(h)
    BY <1>1, <2>0 DEF FindScenario, Goto, Answer, StarterRecord, IdleStarter
  <2>5. ~CreateRow(h)
    BY <1>1, <2>0 DEF CreateRow, Goto, StarterRecord
  <2>6. starter'[h] # IdleStarter
    BY <1>1 DEF IdleStarter
  <2> QED
    BY <1>0, <1>1, <2>1, <2>2, <2>3, <2>4, <2>5, <2>6, StarterMoves
<1>2. ASSUME NEW f \in Follower, NEW v \in Verdict, follower'[f].done[v] = "announce"
      PROVE  rows'[follower'[f].run].status # "RUNNING"
  BY <1>2, FollowedRowsStep DEF FollowedRowsAreDated
<1> QED
  BY <1>1, <1>2 DEF AnnouncedEndIsRecorded

(* Every step keeps the rows a stopTest call has aborted ended.            *)
LEMMA StoppedStep ==
    ASSUME SafetyInv, [Next]_vars
    PROVE  StoppedRowsHaveEnded'
<1>0. TypeOK
  BY DEF SafetyInv
<1> SUFFICES ASSUME NEW t \in Stopper, NEW r \in Run,
                    stopper'[t].branch[r] \in {"announce", "done"}
             PROVE  rows'[r].status # "RUNNING"
  BY DEF StoppedRowsHaveEnded
<1>1. CASE stopper[t].branch[r] \in {"announce", "done"}
  <2>1. rows[r].status \notin {"RUNNING", "NONE"}
    BY <1>1 DEF SafetyInv, StoppedRowsHaveEnded, HeldRunsHaveRows
  <2> QED
    BY <2>1, EndedStays
<1>2. CASE StopAbort(t, r)
  <2>1. rows[r] \in RowRecord
    BY <1>0 DEF TypeOK
  <2>2. rows'[r] = [rows[r] EXCEPT !.status = "ABORTED", !.endAt = TRUE]
    BY <1>0, <1>2 DEF StopAbort, Update, TypeOK
  <2> QED
    BY <2>1, <2>2 DEF RowRecord
<1> QED
  BY <1>0, <1>1, <1>2, StopperMoves

(* The inductive invariant: its parts support each other.                  *)
LEMMA SafetyStep == SafetyInv /\ [Next]_vars => SafetyInv'
<1> SUFFICES ASSUME SafetyInv, [Next]_vars PROVE SafetyInv'
  OBVIOUS
<1>1. TypeOK' /\ RunsInHand'
  BY TypeStep, RunsInHandStep DEF SafetyInv
<1> QED
  BY <1>1, RowsStep, HeldRunsStep, FollowedRowsStep, SuccessStep, AnnouncedStep,
     StoppedStep DEF SafetyInv

(* It holds before the first request.                                      *)
LEMMA SafetyInit == Init => SafetyInv
<1> SUFFICES ASSUME Init PROVE SafetyInv
  OBVIOUS
<1>1. TypeOK /\ RunsInHand
  BY InitTypes
<1>2. UnusedRows /\ RowsAreDated /\ SuccessFollowsPodEnd
  BY DEF Init, UnusedRows, RowsAreDated, SuccessFollowsPodEnd, NoRow, Terminal
<1>3. HeldRunsHaveRows /\ FollowedRowsAreDated
  BY DEF Init, HeldRunsHaveRows, FollowedRowsAreDated, IdleStarter, IdleStopper, IdleFollower
<1>4. SuccessHasEvidence /\ AnnouncedEndIsRecorded /\ StoppedRowsHaveEnded
  BY DEF Init, SuccessHasEvidence, AnnouncedEndIsRecorded, StoppedRowsHaveEnded,
     IdleStarter, IdleStopper, IdleFollower, Verdict
<1> QED
  BY <1>1, <1>2, <1>3, <1>4 DEF SafetyInv

(* The safety of the run life cycle: rows, handlers and followers agree in *)
(* every reachable state, for any number of calls, runs and followers.     *)
THEOREM Safety == Spec => []SafetyInv
BY SafetyInit, SafetyStep, PTL DEF Spec

(* Rows never mix the marks of different outcomes.                         *)
THEOREM RowsDated == Spec => []RowsAreDated
<1>1. SafetyInv => RowsAreDated
  BY DEF SafetyInv
<1> QED
  BY <1>1, Safety, PTL

(* A SUCCESS goes back to a pod that really ended.                         *)
THEOREM SuccessEvidence == Spec => []SuccessFollowsPodEnd
<1>1. SafetyInv => SuccessFollowsPodEnd
  BY DEF SafetyInv
<1> QED
  BY <1>1, Safety, PTL

(* Clients hear of an end only when the row has it.                        *)
THEOREM AnnouncedRecorded == Spec => []AnnouncedEndIsRecorded
<1>1. SafetyInv => AnnouncedEndIsRecorded
  BY DEF SafetyInv
<1> QED
  BY <1>1, Safety, PTL

(* What stopTest aborted stays ended.                                      *)
THEOREM StoppedEnded == Spec => []StoppedRowsHaveEnded
<1>1. SafetyInv => StoppedRowsHaveEnded
  BY DEF SafetyInv
<1> QED
  BY <1>1, Safety, PTL

(* No step takes back what the table says of a run.                        *)
THEOREM RowsAdvance == Spec => RowsOnlyAdvance
<1>1. TypeOK /\ [Next]_vars => [\A r \in Run : RowStep(r)]_rows
  BY RowKeeps
<1>2. SafetyInv => TypeOK
  BY DEF SafetyInv
<1> QED
  BY <1>1, <1>2, Safety, PTL DEF Spec, RowsOnlyAdvance

-----------------------------------------------------------------------------
(* The number of RUNNING rows of a scenario *)

(* Only CreateRow gives a scenario one more RUNNING row.                   *)
LEMMA RunningGrows ==
    ASSUME TypeOK, [Next]_vars, NEW s \in Scenario, NEW r \in RunningRows(s)',
           r \notin RunningRows(s)
    PROVE  \E h \in Starter :
              /\ starter[h].pc = "create" /\ starter[h].scenario = s
              /\ rows' = [rows EXCEPT ![r] = [NoRow EXCEPT
                            !.status = "RUNNING", !.scenario = starter[h].scenario]]
              /\ Goto(h, "configMap", r)
<1>0. r \in Run /\ rows'[r].status = "RUNNING" /\ rows'[r].scenario = s
  BY DEF RunningRows
<1>1. rows[r].status # "RUNNING"
  <2>1. rows[r].status = "RUNNING" => rows[r].scenario = s
    BY <1>0, RowKeeps DEF RowStep, Exists, RunHistoryStatus
  <2> QED
    BY <1>0, <2>1 DEF RunningRows
<1>2. PICK h \in Starter : CreateRow(h)
  BY <1>0, <1>1, RowKeeps
<1>3. PICK q \in Run :
        /\ rows' = [rows EXCEPT ![q] = [NoRow EXCEPT
                        !.status = "RUNNING", !.scenario = starter[h].scenario]]
        /\ Goto(h, "configMap", q)
  BY <1>2 DEF CreateRow
<1>4. q = r
  BY <1>0, <1>1, <1>3 DEF TypeOK
<1>5. starter[h].scenario = s
  BY <1>0, <1>3, <1>4 DEF TypeOK, NoRow
<1> QED
  BY <1>2, <1>3, <1>4, <1>5 DEF CreateRow

(* A call is on its way to a new row only if it has found none RUNNING.    *)
LEMMA CreatingGrows ==
    ASSUME TypeOK, RunsInHand, [Next]_vars, NEW s \in Scenario,
           NEW h \in Creating(s)', h \notin Creating(s)
    PROVE  RunningRows(s) = {} /\ UNCHANGED rows
<1>0. /\ h \in Starter
      /\ starter[h] \in StarterRecord /\ starter \in [Starter -> StarterRecord]
      /\ starter'[h].pc \in {"scenario", "create"}
      /\ starter'[h].scenario = s /\ starter'[h].run = NoRun
  BY DEF Creating, TypeOK
<1>1. ASSUME NEW pc, NEW r, Goto(h, pc, r)
      PROVE  /\ starter'[h].pc = pc /\ starter'[h].run = r
             /\ starter'[h].scenario = starter[h].scenario
  BY <1>0, <1>1 DEF Goto, StarterRecord
<1>2. CASE FindRunning(h)
  BY <1>0, <1>1, <1>2 DEF FindRunning, db
<1>3. ~FindScenario(h)
  <2> SUFFICES ASSUME FindScenario(h) PROVE FALSE
    OBVIOUS
  <2>1. CASE Answer(h)
    BY <1>0, <2>1 DEF Answer, IdleStarter
  <2>2. CASE \E pc : Goto(h, pc, starter[h].run)
    BY <1>0, <1>1, <2>2 DEF FindScenario, Creating
  <2> QED
    BY <2>1, <2>2 DEF FindScenario
<1>4. ~CreateRow(h) /\ ~MarkFailed(h)
  BY <1>0, <1>1 DEF CreateRow, MarkFailed
<1>5. starter'[h] # starter[h]
  BY <1>0 DEF Creating
<1>6. starter'[h] # IdleStarter /\ starter'[h].pc # "find"
  BY <1>0 DEF IdleStarter
<1>7. ~(/\ starter[h].pc \notin {"idle", "find", "scenario", "create"}
        /\ starter'[h].run = starter[h].run)
  BY <1>0 DEF RunsInHand
<1> QED
  BY <1>0, <1>2, <1>3, <1>4, <1>5, <1>6, <1>7, StarterMoves

(* Every step keeps RUNNING rows and calls on their way to one within the  *)
(* number of calls.                                                        *)
LEMMA BoundStep ==
    ASSUME TypeOK, RunsInHand, BoundInv, [Next]_vars
    PROVE  BoundInv'
<1> SUFFICES ASSUME NEW s \in Scenario
             PROVE  /\ IsFiniteSet(RunningRows(s)')
                    /\ Cardinality(RunningRows(s)') + Cardinality(Creating(s)')
                           <= Cardinality(Starter)
  BY DEF BoundInv
<1> DEFINE R  == RunningRows(s)
           R1 == RunningRows(s)'
           C  == Creating(s)
           C1 == Creating(s)'
<1>1. /\ IsFiniteSet(Starter) /\ IsFiniteSet(R)
      /\ Cardinality(R) + Cardinality(C) <= Cardinality(Starter)
  BY RunsAssumption DEF BoundInv
<1>2. C \subseteq Starter /\ C1 \subseteq Starter
  BY DEF Creating
<1>3. /\ IsFiniteSet(C) /\ IsFiniteSet(C1)
      /\ Cardinality(C1) <= Cardinality(Starter)
  BY <1>1, <1>2, FS_Subset
<1>4. /\ Cardinality(R) \in Nat /\ Cardinality(C) \in Nat
      /\ Cardinality(C1) \in Nat /\ Cardinality(Starter) \in Nat
  BY <1>1, <1>3, FS_CardinalityType
<1>5. CASE \E r \in R1 : r \notin R
  <2>1. PICK r \in R1 : r \notin R
    BY <1>5
  <2>2. PICK h \in Starter :
          /\ starter[h].pc = "create" /\ starter[h].scenario = s
          /\ rows' = [rows EXCEPT ![r] = [NoRow EXCEPT
                        !.status = "RUNNING", !.scenario = starter[h].scenario]]
          /\ Goto(h, "configMap", r)
    BY <2>1, RunningGrows
  <2>3. R1 \subseteq R \cup {r}
    BY <2>2 DEF TypeOK, RunningRows
  <2>4. h \in C
    BY <2>2 DEF Creating, RunsInHand
  <2>5. C1 \subseteq C \ {h}
    BY <2>2 DEF Goto, Creating, TypeOK, StarterRecord
  <2>6. /\ IsFiniteSet(R \cup {r})
        /\ Cardinality(R \cup {r}) = Cardinality(R) + 1
    BY <1>1, <2>1, FS_AddElement
  <2>7. /\ IsFiniteSet(R1)
        /\ Cardinality(R1) <= Cardinality(R) + 1
    BY <2>3, <2>6, FS_Subset
  <2>8. /\ IsFiniteSet(C \ {h})
        /\ Cardinality(C \ {h}) = Cardinality(C) - 1
    BY <1>3, <2>4, FS_RemoveElement
  <2>9. Cardinality(C1) <= Cardinality(C) - 1
    BY <2>5, <2>8, FS_Subset
  <2>10. Cardinality(R1) \in Nat
    BY <2>7, FS_CardinalityType
  <2> QED
    BY <1>1, <1>4, <2>7, <2>9, <2>10
<1>6. CASE R1 \subseteq R
  <2>1. IsFiniteSet(R1) /\ Cardinality(R1) <= Cardinality(R)
    BY <1>1, <1>6, FS_Subset
  <2>2. Cardinality(R1) \in Nat
    BY <2>1, FS_CardinalityType
  <2>3. CASE C1 \subseteq C
    <3>1. Cardinality(C1) <= Cardinality(C)
      BY <1>3, <2>3, FS_Subset
    <3> QED
      BY <1>1, <1>4, <2>1, <2>2, <3>1
  <2>4. CASE \E h \in C1 : h \notin C
    <3>1. R = {}
      BY <2>4, CreatingGrows
    <3>2. Cardinality(R) = 0
      BY <3>1, FS_EmptySet
    <3> QED
      BY <1>3, <1>4, <2>1, <2>2, <3>2
  <2> QED
    BY <2>3, <2>4
<1> QED
  BY <1>5, <1>6

(* However many calls of runTest race for a scenario, it never has more    *)
(* RUNNING rows than calls in flight at once.                              *)
THEOREM RunningBounded == Spec => []RunningRowsBounded
<1>1. Init => BoundInv
  <2> SUFFICES ASSUME Init, NEW s \in Scenario
               PROVE  /\ IsFiniteSet(RunningRows(s))
                      /\ Cardinality(RunningRows(s)) + Cardinality(Creating(s))
                             <= Cardinality(Starter)
    BY DEF BoundInv
  <2>1. RunningRows(s) = {} /\ Creating(s) = {}
    BY DEF Init, RunningRows, Creating, NoRow, IdleStarter
  <2>2. Cardinality(Starter) \in Nat
    BY RunsAssumption, FS_CardinalityType
  <2>3. IsFiniteSet({}) /\ Cardinality({}) = 0
    BY FS_EmptySet
  <2> QED
    BY <2>1, <2>2, <2>3
<1>2. TypeOK /\ RunsInHand /\ BoundInv /\ [Next]_vars => BoundInv'
  BY BoundStep
<1>3. BoundInv => RunningRowsBounded
  <2> SUFFICES ASSUME BoundInv, NEW s \in Scenario
               PROVE  Cardinality(RunningRows(s)) <= Cardinality(Starter)
    BY DEF RunningRowsBounded
  <2>1. /\ IsFiniteSet(RunningRows(s)) /\ IsFiniteSet(Starter)
        /\ Cardinality(RunningRows(s)) + Cardinality(Creating(s)) <= Cardinality(Starter)
    BY RunsAssumption DEF BoundInv
  <2>2. IsFiniteSet(Creating(s))
    BY <2>1, FS_Subset DEF Creating
  <2> QED
    BY <2>1, <2>2, FS_CardinalityType
<1> QED
  BY <1>1, <1>2, <1>3, TypeCorrect, PTL DEF Spec

-----------------------------------------------------------------------------
(* The refinement: LoadTestRuns implements RunLifecycle.  Seen through     *)
(* History, each of its steps is a step of the abstract specification or   *)
(* leaves it alone.                                                        *)

(* Records.  Seen commutes with every update the code makes to a row.      *)

RunRecord == [status : RunHistoryStatus \cup {"NONE", "DELETED"},
              runAt : BOOLEAN, endAt : BOOLEAN, measured : BOOLEAN]

(* Runs with the same fields are the same. *)
LEMMA SameRun ==
    ASSUME NEW x \in RunRecord, NEW y \in RunRecord, x.status = y.status,
           x.runAt <=> y.runAt, x.endAt <=> y.endAt, x.measured <=> y.measured
    PROVE  x = y
BY DEF RunRecord

LEMMA SeenType == ASSUME NEW row \in RowRecord PROVE Seen(row) \in RunRecord
BY DEF Seen, RunRecord, RowRecord

(* The update of runAt. *)
LEMMA SeenRunAt ==
    ASSUME NEW row \in RowRecord
    PROVE  Seen([row EXCEPT !.runAt = TRUE]) = [Seen(row) EXCEPT !.runAt = TRUE]
<1> DEFINE x == Seen([row EXCEPT !.runAt = TRUE])
           y == [Seen(row) EXCEPT !.runAt = TRUE]
<1>1. Seen(row) \in RunRecord /\ [row EXCEPT !.runAt = TRUE] \in RowRecord
  BY SeenType DEF RowRecord
<1>2. x \in RunRecord
  BY <1>1, SeenType
<1>3. y \in RunRecord
  BY <1>1 DEF RunRecord
<1>4. /\ x.status = row.status /\ x.runAt
      /\ (x.endAt <=> row.endAt) /\ (x.measured <=> row.measured)
  BY DEF Seen, RowRecord
<1>5. /\ y.status = Seen(row).status /\ y.runAt
      /\ (y.endAt <=> Seen(row).endAt) /\ (y.measured <=> Seen(row).measured)
  BY <1>1 DEF RunRecord
<1>6. /\ Seen(row).status = row.status
      /\ (Seen(row).endAt <=> row.endAt) /\ (Seen(row).measured <=> row.measured)
  BY DEF Seen
<1>7. x = y
  <2> HIDE DEF x, y
  <2> QED
    BY <1>2, <1>3, <1>4, <1>5, <1>6, SameRun
<1> QED
  BY <1>7

(* The update of a status with both dates. *)
LEMMA SeenFailed ==
    ASSUME NEW row \in RowRecord, NEW st \in RunHistoryStatus
    PROVE  Seen([row EXCEPT !.status = st, !.runAt = TRUE, !.endAt = TRUE])
             = [Seen(row) EXCEPT !.status = st, !.runAt = TRUE, !.endAt = TRUE]
<1> DEFINE x == Seen([row EXCEPT !.status = st, !.runAt = TRUE, !.endAt = TRUE])
           y == [Seen(row) EXCEPT !.status = st, !.runAt = TRUE, !.endAt = TRUE]
<1>1. /\ Seen(row) \in RunRecord
      /\ [row EXCEPT !.status = st, !.runAt = TRUE, !.endAt = TRUE] \in RowRecord
  BY SeenType DEF RowRecord
<1>2. x \in RunRecord
  BY <1>1, SeenType
<1>3. y \in RunRecord
  BY <1>1 DEF RunRecord
<1>4. x.status = st /\ x.runAt /\ x.endAt /\ (x.measured <=> row.measured)
  BY DEF Seen, RowRecord
<1>5. y.status = st /\ y.runAt /\ y.endAt /\ (y.measured <=> Seen(row).measured)
  BY <1>1 DEF RunRecord
<1>6. Seen(row).measured <=> row.measured
  BY DEF Seen
<1>7. x = y
  <2> HIDE DEF x, y
  <2> QED
    BY <1>2, <1>3, <1>4, <1>5, <1>6, SameRun
<1> QED
  BY <1>7

(* The update of a status with the date of the end. *)
LEMMA SeenEnded ==
    ASSUME NEW row \in RowRecord, NEW st \in RunHistoryStatus
    PROVE  Seen([row EXCEPT !.status = st, !.endAt = TRUE])
             = [Seen(row) EXCEPT !.status = st, !.endAt = TRUE]
<1> DEFINE x == Seen([row EXCEPT !.status = st, !.endAt = TRUE])
           y == [Seen(row) EXCEPT !.status = st, !.endAt = TRUE]
<1>1. Seen(row) \in RunRecord /\ [row EXCEPT !.status = st, !.endAt = TRUE] \in RowRecord
  BY SeenType DEF RowRecord
<1>2. x \in RunRecord
  BY <1>1, SeenType
<1>3. y \in RunRecord
  BY <1>1 DEF RunRecord
<1>4. /\ x.status = st /\ x.endAt
      /\ (x.runAt <=> row.runAt) /\ (x.measured <=> row.measured)
  BY DEF Seen, RowRecord
<1>5. /\ y.status = st /\ y.endAt
      /\ (y.runAt <=> Seen(row).runAt) /\ (y.measured <=> Seen(row).measured)
  BY <1>1 DEF RunRecord
<1>6. (Seen(row).runAt <=> row.runAt) /\ (Seen(row).measured <=> row.measured)
  BY DEF Seen
<1>7. x = y
  <2> HIDE DEF x, y
  <2> QED
    BY <1>2, <1>3, <1>4, <1>5, <1>6, SameRun
<1> QED
  BY <1>7

(* The update of a status with the metrics. *)
LEMMA SeenMeasured ==
    ASSUME NEW row \in RowRecord, NEW st \in RunHistoryStatus
    PROVE  Seen([row EXCEPT !.status = st, !.measured = TRUE])
             = [Seen(row) EXCEPT !.status = st, !.measured = TRUE]
<1> DEFINE x == Seen([row EXCEPT !.status = st, !.measured = TRUE])
           y == [Seen(row) EXCEPT !.status = st, !.measured = TRUE]
<1>1. Seen(row) \in RunRecord /\ [row EXCEPT !.status = st, !.measured = TRUE] \in RowRecord
  BY SeenType DEF RowRecord
<1>2. x \in RunRecord
  BY <1>1, SeenType
<1>3. y \in RunRecord
  BY <1>1 DEF RunRecord
<1>4. /\ x.status = st /\ x.measured
      /\ (x.runAt <=> row.runAt) /\ (x.endAt <=> row.endAt)
  BY DEF Seen, RowRecord
<1>5. /\ y.status = st /\ y.measured
      /\ (y.runAt <=> Seen(row).runAt) /\ (y.endAt <=> Seen(row).endAt)
  BY <1>1 DEF RunRecord
<1>6. (Seen(row).runAt <=> row.runAt) /\ (Seen(row).endAt <=> row.endAt)
  BY DEF Seen
<1>7. x = y
  <2> HIDE DEF x, y
  <2> QED
    BY <1>2, <1>3, <1>4, <1>5, <1>6, SameRun
<1> QED
  BY <1>7

-----------------------------------------------------------------------------
(* Steps *)

(* Writing one row is writing one run of the history. *)
LEMMA HistoryWrite ==
    ASSUME TypeOK, NEW r \in Run, NEW row, rows' = [rows EXCEPT ![r] = row]
    PROVE  Lifecycle!Write(r, Seen(row))
BY DEF TypeOK, Lifecycle!Write, History

(* An update finds a row that is there, with fields of the right types. *)
LEMMA HistoryUpdate ==
    ASSUME TypeOK, NEW r \in Run, NEW row, Update(r, row)
    PROVE  /\ Lifecycle!Known(r)
           /\ Lifecycle!Write(r, Seen(row))
           /\ rows[r] \in RowRecord
           /\ History[r] = Seen(rows[r])
<1>1. Exists(r) /\ rows' = [rows EXCEPT ![r] = row]
  BY DEF Update
<1>2. History[r] = Seen(rows[r]) /\ Seen(rows[r]).status = rows[r].status
  BY DEF History, Seen
<1>3. Lifecycle!Known(r)
  BY <1>1, <1>2 DEF Exists, RunHistoryStatus, Terminal, Lifecycle!Known,
     Lifecycle!RunHistoryStatus, Lifecycle!Terminal
<1> QED
  BY <1>1, <1>2, <1>3, HistoryWrite DEF TypeOK

(* CreateRow: a row the database has not handed out is empty. *)
LEMMA CreateRefines ==
    ASSUME SafetyInv, NEW h \in Starter, CreateRow(h)
    PROVE  \E r \in Run : Lifecycle!Create(r)
<1> DEFINE new == [NoRow EXCEPT !.status = "RUNNING", !.scenario = starter[h].scenario]
<1>1. PICK r \in Run : rows[r].status = "NONE" /\ rows' = [rows EXCEPT ![r] = new]
  BY DEF CreateRow
<1>2. History[r] = Seen(NoRow)
  BY <1>1 DEF SafetyInv, UnusedRows, History
<1>3. Seen(NoRow) = Lifecycle!Unborn
  BY DEF Seen, NoRow, Lifecycle!Unborn, Lifecycle!Fresh
<1>4. Lifecycle!Write(r, Seen(new))
  BY <1>1, HistoryWrite DEF SafetyInv
<1>5. Seen(new) = Lifecycle!Fresh("RUNNING")
  BY DEF Seen, NoRow, Lifecycle!Fresh
<1> QED
  BY <1>2, <1>3, <1>4, <1>5 DEF Lifecycle!Create

(* SaveRunAt dates the beginning of a run that may have ended by then. *)
LEMMA RunAtRefines ==
    ASSUME SafetyInv, NEW h \in Starter, SaveRunAt(h)
    PROVE  \E r \in Run : Lifecycle!SetRunAt(r)
<1> DEFINE r == starter[h].run
<1>0. TypeOK /\ r \in Run
  BY StarterRun DEF SafetyInv, SaveRunAt
<1>1. Update(r, [rows[r] EXCEPT !.runAt = TRUE])
  BY DEF SaveRunAt
<1>2. /\ Lifecycle!Known(r) /\ rows[r] \in RowRecord /\ History[r] = Seen(rows[r])
      /\ Lifecycle!Write(r, Seen([rows[r] EXCEPT !.runAt = TRUE]))
  BY <1>0, <1>1, HistoryUpdate
<1> QED
  BY <1>0, <1>2, SeenRunAt DEF Lifecycle!SetRunAt

(* MarkFailed sets both dates at once. *)
LEMMA FailRefines ==
    ASSUME SafetyInv, NEW h \in Starter, MarkFailed(h)
    PROVE  \E r \in Run : Lifecycle!FailToStart(r)
<1> DEFINE r == starter[h].run
           new == [rows[r] EXCEPT !.status = "FAILED", !.runAt = TRUE, !.endAt = TRUE]
<1>0. TypeOK /\ r \in Run
  BY StarterRun DEF SafetyInv, MarkFailed
<1>1. Update(r, new)
  BY DEF MarkFailed
<1>2. /\ Lifecycle!Known(r) /\ rows[r] \in RowRecord /\ History[r] = Seen(rows[r])
      /\ Lifecycle!Write(r, Seen(new))
  BY <1>0, <1>1, HistoryUpdate
<1>3. Seen(new) = [Seen(rows[r]) EXCEPT !.status = "FAILED", !.runAt = TRUE, !.endAt = TRUE]
  BY <1>2, SeenFailed DEF RunHistoryStatus, Terminal
<1> QED
  BY <1>0, <1>2, <1>3 DEF Lifecycle!FailToStart

(* An end that is not a stop is written on a row that has a runAt. *)
LEMMA EndRefines ==
    ASSUME TypeOK, NEW r \in Run, NEW st \in Terminal,
           Update(r, [rows[r] EXCEPT !.status = st, !.endAt = TRUE]),
           st # "ABORTED" => rows[r].runAt
    PROVE  Lifecycle!End(r, st)
<1> DEFINE new == [rows[r] EXCEPT !.status = st, !.endAt = TRUE]
<1>1. /\ Lifecycle!Known(r) /\ rows[r] \in RowRecord /\ History[r] = Seen(rows[r])
      /\ Lifecycle!Write(r, Seen(new))
  BY HistoryUpdate
<1>2. Seen(new) = [Seen(rows[r]) EXCEPT !.status = st, !.endAt = TRUE]
  BY <1>1, SeenEnded DEF RunHistoryStatus
<1>3. st # "ABORTED" => History[r].runAt
  BY <1>1 DEF Seen
<1> QED
  BY <1>1, <1>2, <1>3 DEF Lifecycle!End

(* A completion saves its outcome on the row of a run that was followed,   *)
(* so it has a runAt.                                                      *)
LEMMA CompletionRefines ==
    ASSUME SafetyInv, NEW f \in Follower, NEW v \in Verdict, CompletionSaveStatus(f, v)
    PROVE  \E r \in Run : Lifecycle!End(r, v)
<1> DEFINE r == follower[f].run
<1>0. ~Settled(f)
  BY DEF CompletionSaveStatus, Settled
<1>1. TypeOK /\ r \in Run /\ r # NoRun
  BY <1>0, FollowerRun DEF SafetyInv, RunsInHand
<1>2. Update(r, [rows[r] EXCEPT !.status = v, !.endAt = TRUE])
  BY DEF CompletionSaveStatus
<1>3. rows[r].runAt
  BY <1>1, <1>2 DEF Update, SafetyInv, FollowedRowsAreDated
<1> QED
  BY <1>1, <1>2, <1>3, EndRefines DEF Verdict, Terminal

(* When the metrics are written, the completion has written its outcome.   *)
LEMMA MetricsRefine ==
    ASSUME SafetyInv, NEW f \in Follower, NEW v \in Verdict, CompletionSaveMetrics(f, v)
    PROVE  \E r \in Run : Lifecycle!Measure(r, v)
<1> DEFINE r == follower[f].run
           new == [rows[r] EXCEPT !.status = v, !.measured = TRUE]
<1>0. ~Settled(f)
  BY DEF CompletionSaveMetrics, Settled
<1>1. TypeOK /\ r \in Run
  BY <1>0, FollowerRun DEF SafetyInv
<1>2. Update(r, new) /\ rows[r].runAt /\ rows[r].endAt
  BY DEF CompletionSaveMetrics
<1>3. /\ rows[r] \in RowRecord /\ History[r] = Seen(rows[r])
      /\ Lifecycle!Write(r, Seen(new))
  BY <1>1, <1>2, HistoryUpdate
<1>4. Seen(new) = [Seen(rows[r]) EXCEPT !.status = v, !.measured = TRUE]
  BY <1>3, SeenMeasured DEF RunHistoryStatus, Terminal, Verdict
<1>5. Exists(r) /\ rows[r].status # "RUNNING"
  BY <1>2 DEF Update, CompletionSaveMetrics, SafetyInv, FollowedRowsAreDated
<1>6. History[r].status \in Lifecycle!Terminal /\ History[r].runAt /\ History[r].endAt
  BY <1>2, <1>3, <1>5 DEF Seen, Exists, RunHistoryStatus, Terminal, Lifecycle!Terminal
<1> QED
  BY <1>1, <1>3, <1>4, <1>6 DEF Lifecycle!Measure

(* The cascade removes the known rows of one scenario. *)
LEMMA RemoveRefines ==
    ASSUME TypeOK, NEW s \in Scenario, RemoveScenario(s)
    PROVE  \E S \in SUBSET Run : Lifecycle!Remove(S)
<1> DEFINE gone == {r \in Run : Exists(r) /\ rows[r].scenario = s}
<1>1. ASSUME NEW r \in gone PROVE Lifecycle!Known(r)
  BY <1>1 DEF Exists, RunHistoryStatus, Terminal, Lifecycle!Known, History, Seen,
     Lifecycle!RunHistoryStatus, Lifecycle!Terminal
<1>2. Seen([NoRow EXCEPT !.status = "DELETED"]) = Lifecycle!Fresh("DELETED")
  BY DEF Seen, NoRow, Lifecycle!Fresh
<1>3. \A r \in Run : rows'[r] = IF r \in gone THEN [NoRow EXCEPT !.status = "DELETED"]
                                             ELSE rows[r]
  BY DEF RemoveScenario
<1>4. History' = [r \in Run |-> IF r \in gone THEN Lifecycle!Fresh("DELETED") ELSE History[r]]
  <2> HIDE DEF gone
  <2> QED
    BY <1>2, <1>3 DEF History
<1> QED
  BY <1>1, <1>4 DEF Lifecycle!Remove

-----------------------------------------------------------------------------
(* Every step of the code is a step of RunLifecycle or leaves the history. *)
LEMMA LifecycleStep ==
    ASSUME SafetyInv, [Next]_vars
    PROVE  [Lifecycle!Next]_History
<1>1. ASSUME UNCHANGED rows PROVE UNCHANGED History
  BY <1>1 DEF History
<1>2. ASSUME NEW h \in Starter, StarterNext(h)
      PROVE  Lifecycle!Next \/ UNCHANGED rows
  BY <1>2, CreateRefines, RunAtRefines, FailRefines
     DEF StarterNext, FindRunning, IsExistingJob, FindScenario, CreateConfigMap,
         CreateJob, GetRunAt, StartFails, CleanUpFailedStart, GetFailTimes,
         AnnounceFailed, StartThrows, db, Lifecycle!Next
<1>3. ASSUME NEW t \in Stopper, StopperNext(t)
      PROVE  Lifecycle!Next \/ UNCHANGED rows
  <2>1. ASSUME NEW r \in Run, StopAbort(t, r) PROVE Lifecycle!End(r, "ABORTED")
    BY <2>1, EndRefines DEF StopAbort, Terminal, SafetyInv
  <2> QED
    BY <1>3, <2>1 DEF StopperNext, StopFind, StopCleanUp, StopGetEndAt, StopAnnounce,
       StopBranchFails, StopAnswers, StopThrows, db, Lifecycle!Next, Lifecycle!Terminal
<1>4. ASSUME NEW f \in Follower, FollowerNext(f)
      PROVE  Lifecycle!Next \/ UNCHANGED rows
  <2>1. ASSUME NEW v \in Verdict, CompletionSaveStatus(f, v) PROVE Lifecycle!Next
    BY <2>1, CompletionRefines DEF Lifecycle!Next, Lifecycle!Terminal, Verdict
  <2>2. ASSUME NEW v \in Verdict, CompletionSaveMetrics(f, v) PROVE Lifecycle!Next
    BY <2>2, MetricsRefine DEF Lifecycle!Next, Verdict
  <2> QED
    BY <1>4, <2>1, <2>2 DEF FollowerNext, StartWatch, JobFailedUncounted, JobIdle,
       WatchFails, WatchCloses, CleanUpFollowed, CompletionGetEndAt, CompletionAnnounce,
       UnhandledRejection, ProcessDies, db
<1>5. ASSUME Surroundings PROVE Lifecycle!Next \/ UNCHANGED rows
  BY <1>5, RemoveRefines DEF SafetyInv, Surroundings, PodCreated, PodRuns, PodFails,
     PodSucceeds, PodCounted, PodRetried, JobMoves, JobExpires, K6Writes, SamplesAge,
     db, Lifecycle!Next
<1> QED
  BY <1>1, <1>2, <1>3, <1>4, <1>5
     DEF Next, RunTest, StopTest, Crash, ProcessDies, vars, db

LEMMA LifecycleInit == Init => Lifecycle!Init
<1>1. Seen(NoRow) = Lifecycle!Unborn
  BY DEF Seen, NoRow, Lifecycle!Unborn, Lifecycle!Fresh
<1> QED
  BY <1>1 DEF Init, Lifecycle!Init, History

(* LoadTestRuns implements RunLifecycle: in every overlap of starts, stops, *)
(* watches, crashes and removals, for any number of runs and callers, each  *)
(* write of the code is one the life cycle of a run allows.                 *)
THEOREM RunsImplementLifecycle == Spec => RunsKeepLifecycle
<1>1. SafetyInv /\ [Next]_vars => [Lifecycle!Next]_History
  BY LifecycleStep
<1> QED
  BY <1>1, LifecycleInit, Safety, PTL DEF Spec, Lifecycle!Spec, RunsKeepLifecycle

=============================================================================
