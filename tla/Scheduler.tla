----------------------------- MODULE Scheduler -----------------------------
(***************************************************************************)
(* SchedulerService of testify-server: the scheduler rows in the database, *)
(* the cron jobs that serve them in the registry of the process, and the   *)
(* create, update and delete requests, ended ticks and restarts that have  *)
(* to keep the two together.                                               *)
(*                                                                         *)
(* A request is a handler that may be overtaken at every await.  The await *)
(* of job.stop() counts as one, although the installed cron library ends   *)
(* it at once.  An ordinary tick of a job calls runTest and changes        *)
(* nothing here: it is RunTest of LoadTestRuns.  The hours a cron          *)
(* expression stands for, the other columns of the row and the check of    *)
(* timeStart are left out.                                                 *)
(***************************************************************************)
EXTENDS Naturals, FiniteSets

CONSTANTS
    Sched,    \* scheduler ids the database can hand out
    Request,  \* create, update and delete calls that can be in flight at once
    Plan,     \* cron expressions with their time zones
    BadPlan,  \* those the cron library refuses
    MaxNow,   \* bound: the clock stops there
    Never,    \* a timeEnd of NULL
    Keep,     \* an update that does not mention timeEnd
    NoSched,  \* no scheduler
    NoPlan,   \* no plan
    NoJob     \* no cron job

Time == 0..MaxNow
End  == Time \cup {Never}

ASSUME SchedulerAssumption ==
    /\ MaxNow \in Nat
    /\ BadPlan \subseteq Plan
    /\ NoSched \notin Sched
    /\ NoPlan \notin Plan
    /\ Never \notin Nat
    /\ Keep \notin End
    /\ NoJob \notin [plan : Plan, end : End, running : BOOLEAN]

VARIABLES
    rows,      \* the scheduler table
    registry,  \* the cron jobs of the process, by scheduler id
    strays,    \* schedulers with a running job the registry does not know
    requests,  \* create, update and delete calls
    ending,    \* what an ended tick of each scheduler has left to do
    told,      \* the last answer users got about each scheduler
    now,       \* the clock
    up,        \* is the process running?
    clashed    \* history: schedulers that had two calls in flight at once
               \* since the process started

vars == <<rows, registry, strays, requests, ending, told, now, up, clashed>>

-----------------------------------------------------------------------------
Pc == {"idle", "insert", "schedule", "write", "apply", "swap",
       "unschedule", "unregister", "drop"}

NoRow == [state |-> "none", plan |-> NoPlan, end |-> Never, active |-> FALSE]

RowRecord == [state : {"none", "row", "dropped", "cascaded"},
              plan : Plan \cup {NoPlan}, end : End, active : BOOLEAN]

JobRecord == [plan : Plan, end : End, running : BOOLEAN]

Idle == [pc |-> "idle", sched |-> NoSched, plan |-> NoPlan, end |-> Never]

RequestRecord == [pc : Pc, sched : Sched \cup {NoSched},
                  plan : Plan \cup {NoPlan}, end : End \cup {Keep}]

Leftover == {"unregister", "deactivate"}

TypeOK ==
    /\ rows \in [Sched -> RowRecord]
    /\ registry \in [Sched -> JobRecord \cup {NoJob}]
    /\ strays \subseteq Sched
    /\ requests \in [Request -> RequestRecord]
    /\ ending \in [Sched -> SUBSET Leftover]
    /\ told \in [Sched -> {"nothing", "created", "updated", "refused", "gone"}]
    /\ now \in Time
    /\ up \in BOOLEAN
    /\ clashed \subseteq Sched

Exists(s) == rows[s].state = "row"

Job(plan, end) == [plan |-> plan, end |-> end, running |-> TRUE]

(* A plan becomes a cron expression, whatever its time or date: what is    *)
(* left out or cannot be read becomes NaN or undefined in the expression,  *)
(* and the cron library refuses it, as it does an unknown time zone.       *)
Accepts(plan) == plan \notin BadPlan

Ended(end) == end # Never /\ now > end

Init ==
    /\ rows = [s \in Sched |-> NoRow]
    /\ registry = [s \in Sched |-> NoJob]
    /\ strays = {}
    /\ requests = [q \in Request |-> Idle]
    /\ ending = [s \in Sched |-> {}]
    /\ told = [s \in Sched |-> "nothing"]
    /\ now = 0
    /\ up = TRUE
    /\ clashed = {}

-----------------------------------------------------------------------------
(* Calls and their answers *)

InFlight(s) == \E q \in Request : requests[q].sched = s

Start(q, request) ==
    /\ up
    /\ requests[q].pc = "idle"
    /\ requests' = [requests EXCEPT ![q] = request]
    /\ clashed' = clashed \cup {s \in Sched : /\ s = request.sched
                                             /\ InFlight(s)}
    /\ UNCHANGED <<rows, registry, strays, ending, told, now, up>>

Goto(q, pc) == requests' = [requests EXCEPT ![q].pc = pc]

Promise == {"created", "updated"}

(* A call that succeeds tells its user so; one that fails takes back an    *)
(* earlier promise that the scheduler runs.                                *)
Succeed(q, s, answer) ==
    /\ requests' = [requests EXCEPT ![q] = Idle]
    /\ told' = [told EXCEPT ![s] = answer]

Fail(q, s) ==
    /\ requests' = [requests EXCEPT ![q] = Idle]
    /\ told' = IF s \in Sched /\ told[s] \in Promise
               THEN [told EXCEPT ![s] = "refused"] ELSE told

Stop(s) == registry' = [registry EXCEPT ![s].running = FALSE]

Unregister(s) == registry' = [registry EXCEPT ![s] = NoJob]

-----------------------------------------------------------------------------
(* create *)

(* The scenario has been found; the rest is the row and its job. *)
Create(q, p, e) ==
    Start(q, [Idle EXCEPT !.pc = "insert", !.plan = p, !.end = e])

Insert(q) ==
    /\ requests[q].pc = "insert"
    /\ \E s \in Sched :
        /\ rows[s].state = "none"
        /\ rows' = [rows EXCEPT ![s] = [state |-> "row", active |-> TRUE,
                        plan |-> requests[q].plan, end |-> requests[q].end]]
        /\ requests' = [requests EXCEPT ![q].pc = "schedule", ![q].sched = s]
    /\ UNCHANGED <<registry, strays, ending, told, now, up, clashed>>

(* scheduleJob throws for a plan the cron library refuses, and for an id   *)
(* that is registered already; in the second case the new job is running.  *)
ScheduleJob(q) ==
    LET s     == requests[q].sched
        valid == Accepts(requests[q].plan)
    IN
    /\ requests[q].pc = "schedule"
    /\ strays' = IF valid /\ registry[s] # NoJob THEN strays \cup {s} ELSE strays
    /\ \/ /\ valid /\ registry[s] = NoJob
          /\ registry' = [registry EXCEPT
                  ![s] = Job(requests[q].plan, requests[q].end)]
          /\ Succeed(q, s, "created")
       \/ /\ ~valid \/ registry[s] # NoJob
          /\ Fail(q, s)
          /\ UNCHANGED registry
    /\ UNCHANGED <<rows, ending, now, up, clashed>>

-----------------------------------------------------------------------------
(* update *)

UpdateScheduler(q, s, p, e) ==
    /\ Exists(s)
    /\ Start(q, [pc |-> "write", sched |-> s, plan |-> p, end |-> e])

(* Mutant: the handler goes on with the row it found, not the updated one. *)
Write_Stale(q) ==
    LET s   == requests[q].sched
        end == IF requests[q].end = Keep THEN rows[s].end ELSE requests[q].end
    IN
    /\ requests[q].pc = "write"
    /\ Exists(s)
    /\ rows' = [rows EXCEPT ![s] = [@ EXCEPT !.plan = requests[q].plan, !.end = end]]
    /\ requests' = [requests EXCEPT ![q] = [@ EXCEPT !.pc = "apply",
                        !.plan = rows[s].plan, !.end = rows[s].end]]
    /\ UNCHANGED <<registry, strays, ending, told, now, up, clashed>>

(* Prisma leaves a column alone that is undefined.  isActive is never      *)
(* written, and the handler goes on with the row the database returns.     *)
Write(q) ==
    LET s   == requests[q].sched
        end == IF requests[q].end = Keep THEN rows[s].end ELSE requests[q].end
    IN
    /\ requests[q].pc = "write"
    /\ Exists(s)
    /\ rows' = [rows EXCEPT ![s] = [@ EXCEPT !.plan = requests[q].plan, !.end = end]]
    /\ requests' = [requests EXCEPT ![q] = [@ EXCEPT !.pc = "apply", !.end = end]]
    /\ UNCHANGED <<registry, strays, ending, told, now, up, clashed>>

(* handleUpdateJob: getCronJob throws without a job. *)
ApplyUpdate(q) ==
    LET s == requests[q].sched IN
    /\ requests[q].pc = "apply"
    /\ \/ registry[s] # NoJob /\ Stop(s) /\ Goto(q, "swap") /\ UNCHANGED told
       \/ registry[s] = NoJob /\ Fail(q, s) /\ UNCHANGED registry
    /\ UNCHANGED <<rows, strays, ending, now, up, clashed>>

(* Mutant: the new job is added without deleting the old one. *)
SwapJob_Adds(q) ==
    LET s == requests[q].sched IN
    /\ requests[q].pc = "swap"
    /\ registry[s] # NoJob
    /\ strays' = strays \cup {s}
    /\ Fail(q, s)
    /\ UNCHANGED <<rows, registry, ending, now, up, clashed>>

(* Mutant: the old job is deleted after the new one was built. *)
SwapJob_Late(q) ==
    LET s == requests[q].sched IN
    /\ requests[q].pc = "swap"
    /\ ~Accepts(requests[q].plan)
    /\ Fail(q, s)
    /\ UNCHANGED <<rows, registry, strays, ending, now, up, clashed>>

(* deleteCronJob throws without a job; then scheduleJob finds the id free. *)
SwapJob(q) ==
    LET s == requests[q].sched IN
    /\ requests[q].pc = "swap"
    /\ \/ /\ registry[s] = NoJob
          /\ Fail(q, s)
          /\ UNCHANGED registry
       \/ /\ registry[s] # NoJob
          /\ ~Accepts(requests[q].plan)
          /\ Unregister(s)
          /\ Fail(q, s)
       \/ /\ registry[s] # NoJob
          /\ Accepts(requests[q].plan)
          /\ registry' = [registry EXCEPT
                  ![s] = Job(requests[q].plan, requests[q].end)]
          /\ Succeed(q, s, "updated")
    /\ UNCHANGED <<rows, strays, ending, now, up, clashed>>

-----------------------------------------------------------------------------
(* delete *)

DeleteScheduler(q, s) ==
    /\ Exists(s)
    /\ Start(q, [Idle EXCEPT !.pc = "unschedule", !.sched = s])

(* Mutant: only the row is deleted. *)
Unschedule_Skips(q) ==
    /\ requests[q].pc = "unschedule"
    /\ Goto(q, "drop")
    /\ UNCHANGED <<rows, registry, strays, ending, told, now, up, clashed>>

(* handleDeleteJob swallows what getCronJob and deleteCronJob throw. *)
Unschedule(q) ==
    LET s == requests[q].sched IN
    /\ requests[q].pc = "unschedule"
    /\ \/ registry[s] # NoJob /\ Stop(s) /\ Goto(q, "unregister")
       \/ registry[s] = NoJob /\ Goto(q, "drop") /\ UNCHANGED registry
    /\ UNCHANGED <<rows, strays, ending, told, now, up, clashed>>

UnregisterDeleted(q) ==
    /\ requests[q].pc = "unregister"
    /\ Unregister(requests[q].sched)
    /\ Goto(q, "drop")
    /\ UNCHANGED <<rows, strays, ending, told, now, up, clashed>>

Drop(q) ==
    LET s == requests[q].sched IN
    /\ requests[q].pc = "drop"
    /\ Exists(s)
    /\ rows' = [rows EXCEPT ![s].state = "dropped"]
    /\ Succeed(q, s, "gone")
    /\ UNCHANGED <<registry, strays, ending, now, up, clashed>>

(* A database call of a handler throws: the database fails, or the row or  *)
(* the scenario is gone.                                                   *)
CallThrows(q) ==
    /\ requests[q].pc \in {"insert", "write", "drop"}
    /\ Fail(q, requests[q].sched)
    /\ UNCHANGED <<rows, registry, strays, ending, now, up, clashed>>

-----------------------------------------------------------------------------
(* A tick past timeEnd: handleDeleteJob and updateStatus side by side.     *)
(* Bound: the next ended tick of a scheduler waits for the last one.       *)

(* Mutant: the ended tick only updates the status of the row. *)
EndedTick_Deactivates(s) ==
    /\ registry[s] # NoJob
    /\ registry[s].running
    /\ Ended(registry[s].end)
    /\ ending[s] = {}
    /\ ending' = [ending EXCEPT ![s] = {"deactivate"}]
    /\ UNCHANGED <<rows, registry, strays, requests, told, now, up, clashed>>

EndedTick(s) ==
    /\ registry[s] # NoJob
    /\ registry[s].running
    /\ Ended(registry[s].end)
    /\ ending[s] = {}
    /\ Stop(s)
    /\ ending' = [ending EXCEPT ![s] = Leftover]
    /\ UNCHANGED <<rows, strays, requests, told, now, up, clashed>>

UnregisterEnded(s) ==
    /\ "unregister" \in ending[s]
    /\ Unregister(s)
    /\ ending' = [ending EXCEPT ![s] = @ \ {"unregister"}]
    /\ UNCHANGED <<rows, strays, requests, told, now, up, clashed>>

Deactivate(s) ==
    /\ "deactivate" \in ending[s]
    /\ Exists(s)
    /\ rows' = [rows EXCEPT ![s].active = FALSE]
    /\ ending' = [ending EXCEPT ![s] = @ \ {"deactivate"}]
    /\ UNCHANGED <<registry, strays, requests, told, now, up, clashed>>

(* Jobs, ticks and calls are in memory only. *)
ProcessDies ==
    /\ registry' = [s \in Sched |-> NoJob]
    /\ strays' = {}
    /\ requests' = [q \in Request |-> Idle]
    /\ ending' = [s \in Sched |-> {}]
    /\ up' = FALSE
    /\ clashed' = {}
    /\ UNCHANGED <<rows, told, now>>

(* Nobody awaits a tick: updateStatus of a row that is gone is an unhandled *)
(* rejection, and Node ends the process.                                   *)
DeactivateFails(s) ==
    /\ "deactivate" \in ending[s]
    /\ ~Exists(s)
    /\ ProcessDies

-----------------------------------------------------------------------------
(* The process and its surroundings *)

Crash == up /\ ProcessDies

(* Mutant: the comparison with timeEnd is the wrong way round. *)
Restored_Past == {s \in Sched : /\ Exists(s)
                                /\ rows[s].active
                                /\ rows[s].end # Never
                                /\ rows[s].end < now}

(* findActiveSchedulers: timeEnd > now holds of no NULL. *)
Restored == {s \in Sched : /\ Exists(s)
                           /\ rows[s].active
                           /\ rows[s].end # Never
                           /\ rows[s].end > now}

(* onModuleInit: a plan that cannot be scheduled makes the start fail, and *)
(* the requests are served when it has succeeded.                          *)
Boot ==
    /\ ~up
    /\ \A s \in Restored : Accepts(rows[s].plan)
    /\ up' = TRUE
    /\ registry' = [s \in Sched |-> IF s \in Restored
                        THEN Job(rows[s].plan, rows[s].end) ELSE NoJob]
    /\ UNCHANGED <<rows, strays, requests, ending, told, now, clashed>>

(* ScenarioRepository.remove takes the rows of a scenario with it. *)
RemoveScenario(S) ==
    /\ S # {}
    /\ \A s \in S : Exists(s)
    /\ rows' = [s \in Sched |-> IF s \in S
                    THEN [rows[s] EXCEPT !.state = "cascaded"] ELSE rows[s]]
    /\ UNCHANGED <<registry, strays, requests, ending, told, now, up, clashed>>

TimePasses ==
    /\ now < MaxNow
    /\ now' = now + 1
    /\ UNCHANGED <<rows, registry, strays, requests, ending, told, up, clashed>>

-----------------------------------------------------------------------------
Arrive(q) ==
    \/ \E p \in Plan, e \in End : Create(q, p, e)
    \/ \E s \in Sched, p \in Plan, e \in End \cup {Keep} : UpdateScheduler(q, s, p, e)
    \/ \E s \in Sched : DeleteScheduler(q, s)

Advance(q) ==
    \/ Insert(q) \/ ScheduleJob(q)
    \/ Write(q) \/ ApplyUpdate(q) \/ SwapJob(q)
    \/ Unschedule(q) \/ UnregisterDeleted(q) \/ Drop(q)
    \/ CallThrows(q)

TickSteps(s) ==
    EndedTick(s) \/ UnregisterEnded(s) \/ Deactivate(s) \/ DeactivateFails(s)

Next ==
    \/ \E q \in Request : Arrive(q) \/ Advance(q)
    \/ \E s \in Sched : TickSteps(s)
    \/ Crash
    \/ Boot
    \/ \E S \in SUBSET Sched : RemoveScenario(S)
    \/ TimePasses

Spec == Init /\ [][Next]_vars

-----------------------------------------------------------------------------
(* Properties *)

(* However creates, updates, deletes, ended ticks and restarts overlap, no *)
(* cron job runs that the registry does not know: such a job would start   *)
(* load tests until the next restart and nobody could stop it.             *)
NoStrays == strays = {}

(* The calls and ticks that have stopped the job of s and will replace or  *)
(* remove it.                                                              *)
Busy(s) ==
    \/ \E q \in Request : requests[q].sched = s
                       /\ requests[q].pc \in {"swap", "unregister"}
    \/ "unregister" \in ending[s]

(* handleUpdateJob, handleDeleteJob and an ended tick stop a job first and *)
(* take it out of the registry after an await.  No failure and no overlap  *)
(* of them leaves a stopped job behind, which would never tick again.      *)
StoppedMeansBusy ==
    \A s \in Sched : registry[s] # NoJob /\ ~registry[s].running => Busy(s)

(* Once a user was told that a scheduler is deleted, no tick, no restart   *)
(* and no call brings its job back, unless two calls on it overlapped: a   *)
(* create that was not answered yet registers its job after the delete.    *)
DeletedStaysQuiet ==
    \A s \in Sched \ clashed : told[s] = "gone" => registry[s] = NoJob

(* No call and no tick is at work on s. *)
Quiet(s) ==
    /\ ~InFlight(s)
    /\ ending[s] = {}

(* The process owes s a job: a user was told that it runs, and nothing in  *)
(* its row or in flight says otherwise.                                    *)
Due(s) ==
    /\ up
    /\ told[s] \in Promise
    /\ Exists(s)
    /\ rows[s].active
    /\ Accepts(rows[s].plan)
    /\ Quiet(s)

(* A scheduler with a timeEnd that is still to come has its job, whatever  *)
(* updates, ended ticks and restarts have come before.                     *)
DatedSchedulersRun ==
    \A s \in Sched :
        Due(s) /\ rows[s].end # Never /\ rows[s].end > now => registry[s] # NoJob

(* When nothing is in flight a job runs by the plan and the end that its   *)
(* row shows to the user.                                                  *)
FollowsRow(s) ==
    Exists(s) /\ Quiet(s) /\ registry[s] # NoJob =>
        registry[s].plan = rows[s].plan /\ registry[s].end = rows[s].end

(* As long as the calls on it do not overlap, neither failed updates nor   *)
(* ticks nor restarts leave a scheduler with a job that its row does not   *)
(* show, whatever happens to the others.                                   *)
JobFollowsRow == \A s \in Sched \ clashed : FollowsRow(s)

(* A call that was refused for its invalid input should leave nothing that *)
(* keeps the process from starting again.                                  *)
BootIsPossible == \A s \in Restored : Quiet(s) => Accepts(rows[s].plan)

-----------------------------------------------------------------------------
(* The inductive strengthening of NoStrays and StoppedMeansBusy. *)

(* An id the database has not handed out is in nobody's hands, and every   *)
(* row has a plan.                                                         *)
UnusedIds ==
    \A s \in Sched :
        \/ /\ rows[s].state = "none"
           /\ registry[s] = NoJob
           /\ \A q \in Request : requests[q].sched # s
        \/ /\ rows[s].state # "none"
           /\ rows[s].plan \in Plan

(* A call past its first step has a scheduler in hand, and every call has  *)
(* a plan to schedule where it may come to that.                           *)
CallsInHand ==
    \A q \in Request :
        /\ requests[q].pc \notin {"idle", "insert"} => requests[q].sched \in Sched
        /\ requests[q].pc \in {"insert", "schedule", "write", "apply", "swap"} =>
                requests[q].plan \in Plan
        /\ requests[q].pc # "write" => requests[q].end \in End

(* Nobody but its creator can register the first job of a scheduler: the   *)
(* others register only where they have found a job.                       *)
FirstJobIsFree ==
    \A q \in Request : requests[q].pc = "schedule" =>
        /\ registry[requests[q].sched] = NoJob
        /\ \A p \in Request \ {q} :
              requests[p].pc = "schedule" => requests[p].sched # requests[q].sched

(* Nothing of the process is left when it is down. *)
DownMeansEmpty ==
    ~up => /\ \A s \in Sched : registry[s] = NoJob /\ ending[s] = {}
           /\ \A q \in Request : requests[q] = Idle

RegistryInv ==
    /\ TypeOK
    /\ UnusedIds
    /\ CallsInHand
    /\ FirstJobIsFree
    /\ DownMeansEmpty
    /\ NoStrays
    /\ StoppedMeansBusy

-----------------------------------------------------------------------------
(* The inductive strengthening of DatedSchedulersRun, DeletedStaysQuiet    *)
(* and JobFollowsRow, on top of RegistryInv.                               *)

(* No two calls on a scheduler that had no clash. *)
SoleCalls ==
    \A s \in Sched \ clashed : \A p, q \in Request :
        requests[p].sched = s /\ requests[q].sched = s => p = q

(* Nobody was told of an id that is not handed out, and none has ended. *)
UntoldIds ==
    \A s \in Sched :
        rows[s].state = "none" => told[s] = "nothing" /\ ending[s] = {}

(* A delete that is to drop the row has left no job behind, and once the   *)
(* row is dropped nobody can bring one back.                               *)
DropsAreQuiet ==
    /\ \A q \in Request : requests[q].pc = "drop" /\ requests[q].sched \notin clashed
            => registry[requests[q].sched] = NoJob
    /\ \A s \in Sched : told[s] = "gone" =>
            /\ rows[s].state = "dropped"
            /\ s \notin clashed => registry[s] = NoJob /\ ~InFlight(s)

ShowsRow(s, item) == item.plan = rows[s].plan /\ item.end = rows[s].end

(* What a call will schedule is what the row shows, and so is what is      *)
(* scheduled, except where an update has written the row and not yet come  *)
(* to the job.                                                             *)
CallsShowRow ==
    \A q \in Request :
        /\ requests[q].pc \in {"schedule", "apply", "swap"}
        /\ requests[q].sched \notin clashed /\ Exists(requests[q].sched)
        => ShowsRow(requests[q].sched, requests[q])

JobsShowRow ==
    \A s \in Sched \ clashed : Exists(s) /\ registry[s] # NoJob =>
        \/ ShowsRow(s, registry[s])
        \/ \E q \in Request : requests[q].sched = s /\ requests[q].pc \in {"apply", "swap"}

(* The job of an ended scheduler goes from the registry only beside the    *)
(* mark in its row.                                                        *)
EndedRowsGo ==
    \A s \in Sched : "unregister" \in ending[s] =>
        "deactivate" \in ending[s] \/ ~Exists(s) \/ ~rows[s].active

(* A promise without a job is about to be taken back, unless the scheduler *)
(* has ended, or has no end and was not restored.                          *)
PromisesKept ==
    \A s \in Sched :
        up /\ told[s] \in Promise /\ Exists(s) /\ rows[s].active /\ registry[s] = NoJob =>
            \/ rows[s].end = Never \/ rows[s].end <= now
            \/ "deactivate" \in ending[s]
            \/ \E q \in Request : /\ requests[q].sched = s
                                  /\ requests[q].pc \in {"apply", "swap", "drop"}

AgreementInv ==
    /\ SoleCalls /\ UntoldIds /\ DropsAreQuiet
    /\ CallsShowRow /\ JobsShowRow
    /\ EndedRowsGo /\ PromisesKept

SchedulerInv == RegistryInv /\ AgreementInv

-----------------------------------------------------------------------------
(* Fairness: the timers of running jobs fire, and what a tick has started  *)
(* is carried on.                                                          *)
FairSpec == Spec /\ \A s \in Sched : WF_vars(TickSteps(s))

(* A job does not run on past its timeEnd. *)
EndedJobsStop ==
    \A s \in Sched :
        (registry[s] # NoJob /\ registry[s].running /\ Ended(registry[s].end))
            ~> ~(registry[s] # NoJob /\ registry[s].running /\ Ended(registry[s].end))

=============================================================================
