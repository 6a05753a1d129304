--------------------------- MODULE SchedulerProofs ---------------------------
(***************************************************************************)
(* Proofs about Scheduler for every set of schedulers, calls and plans and *)
(* every bound of the clock.                                               *)
(***************************************************************************)
EXTENDS Scheduler, TLAPS

-----------------------------------------------------------------------------
(* Records *)

LEMMA JobTypes ==
    /\ \A p \in Plan, e \in End : Job(p, e) \in JobRecord
    /\ \A p, e : Job(p, e).running
    /\ \A j \in JobRecord : [j EXCEPT !.running = FALSE] \in JobRecord
    /\ NoJob \notin JobRecord
BY SchedulerAssumption DEF Job, JobRecord

LEMMA RequestTypes ==
    /\ Idle \in RequestRecord
    /\ Idle.pc = "idle" /\ Idle.sched = NoSched /\ Idle.end \in End
    /\ \A r \in RequestRecord, pc \in Pc :
        /\ [r EXCEPT !.pc = pc] \in RequestRecord
        /\ [r EXCEPT !.pc = pc].pc = pc
        /\ [r EXCEPT !.pc = pc].sched = r.sched
        /\ [r EXCEPT !.pc = pc].plan = r.plan
        /\ [r EXCEPT !.pc = pc].end = r.end
BY DEF Idle, RequestRecord, Pc, End

LEMMA RowTypes ==
    /\ NoRow \in RowRecord
    /\ \A r \in RowRecord :
        /\ [r EXCEPT !.active = FALSE] \in RowRecord
        /\ [r EXCEPT !.active = FALSE].state = r.state
        /\ [r EXCEPT !.active = FALSE].plan = r.plan
        /\ [r EXCEPT !.active = FALSE].end = r.end
        /\ [r EXCEPT !.active = FALSE].active = FALSE
        /\ [r EXCEPT !.state = "dropped"] \in RowRecord
        /\ [r EXCEPT !.state = "cascaded"] \in RowRecord
        /\ [r EXCEPT !.state = "dropped"].state = "dropped"
        /\ [r EXCEPT !.state = "cascaded"].state = "cascaded"
        /\ [r EXCEPT !.state = "dropped"].plan = r.plan
        /\ [r EXCEPT !.state = "cascaded"].plan = r.plan
BY DEF NoRow, RowRecord, End

-----------------------------------------------------------------------------
(* The steps of a call that all calls share *)

(* A call that goes on keeps its scheduler and its plan. *)
LEMMA GotoKeeps ==
    ASSUME TypeOK, NEW q \in Request, NEW pc \in Pc, Goto(q, pc)
    PROVE  /\ requests' \in [Request -> RequestRecord]
           /\ requests'[q].pc = pc
           /\ requests'[q].sched = requests[q].sched
           /\ requests'[q].plan = requests[q].plan
           /\ requests'[q].end = requests[q].end
           /\ \A p \in Request \ {q} : requests'[p] = requests[p]
BY RequestTypes DEF Goto, TypeOK

(* A call that ends leaves nothing in its place, whatever it answers. *)
LEMMA AnswerKeeps ==
    ASSUME TypeOK, NEW q \in Request, NEW s,
           Fail(q, s) \/ (\E a \in {"created", "updated", "gone"} : Succeed(q, s, a))
    PROVE  /\ requests' \in [Request -> RequestRecord]
           /\ requests'[q] = Idle
           /\ \A p \in Request \ {q} : requests'[p] = requests[p]
           /\ told' \in [Sched -> {"nothing", "created", "updated", "refused", "gone"}]
BY RequestTypes DEF Fail, Succeed, TypeOK

-----------------------------------------------------------------------------
LEMMA InitInv == Init => RegistryInv
<1> SUFFICES ASSUME Init PROVE RegistryInv
  OBVIOUS
<1>1. TypeOK
  <2>1. 0 \in Time
    BY SchedulerAssumption DEF Time
  <2> QED
    BY <2>1, RequestTypes, RowTypes DEF Init, TypeOK
<1>2. UnusedIds /\ CallsInHand /\ FirstJobIsFree
  BY SchedulerAssumption, RequestTypes
     DEF Init, NoRow, UnusedIds, CallsInHand, FirstJobIsFree
<1>3. DownMeansEmpty /\ NoStrays /\ StoppedMeansBusy
  BY DEF Init, DownMeansEmpty, NoStrays, StoppedMeansBusy
<1> QED
  BY <1>1, <1>2, <1>3 DEF RegistryInv

LEMMA CreateInv ==
    ASSUME RegistryInv, NEW q \in Request, NEW p \in Plan, NEW e \in End,
           Create(q, p, e)
    PROVE  RegistryInv'
<1> DEFINE new == [Idle EXCEPT !.pc = "insert", !.plan = p, !.end = e]
<1>1. /\ new \in RequestRecord
      /\ new.pc = "insert" /\ new.plan = p /\ new.end = e /\ new.sched = NoSched
  BY DEF Idle, RequestRecord, Pc, End
<1>2. /\ up /\ requests[q].pc = "idle"
      /\ requests' = [requests EXCEPT ![q] = new]
      /\ UNCHANGED <<rows, registry, strays, ending, told, now, up>>
      /\ clashed' \subseteq Sched
  BY DEF Create, Start, RegistryInv, TypeOK
<1> HIDE DEF new
<1> QED
  BY <1>1, <1>2, SchedulerAssumption
     DEF RegistryInv, TypeOK, UnusedIds, CallsInHand, FirstJobIsFree,
         DownMeansEmpty, NoStrays, StoppedMeansBusy, Busy

LEMMA UpdateSchedulerInv ==
    ASSUME RegistryInv, NEW q \in Request, NEW s \in Sched, NEW p \in Plan,
           NEW e \in End \cup {Keep}, UpdateScheduler(q, s, p, e)
    PROVE  RegistryInv'
<1> DEFINE new == [pc |-> "write", sched |-> s, plan |-> p, end |-> e]
<1>1. /\ new \in RequestRecord
      /\ new.pc = "write" /\ new.plan = p /\ new.sched = s
  BY DEF RequestRecord, Pc
<1>2. /\ up /\ Exists(s) /\ requests[q].pc = "idle"
      /\ requests' = [requests EXCEPT ![q] = new]
      /\ UNCHANGED <<rows, registry, strays, ending, told, now, up>>
      /\ clashed' \subseteq Sched
  BY DEF UpdateScheduler, Start, RegistryInv, TypeOK
<1> HIDE DEF new
<1> QED
  BY <1>1, <1>2
     DEF Exists, RegistryInv, TypeOK, UnusedIds, CallsInHand, FirstJobIsFree,
         DownMeansEmpty, NoStrays, StoppedMeansBusy, Busy

LEMMA DeleteSchedulerInv ==
    ASSUME RegistryInv, NEW q \in Request, NEW s \in Sched, DeleteScheduler(q, s)
    PROVE  RegistryInv'
<1> DEFINE new == [Idle EXCEPT !.pc = "unschedule", !.sched = s]
<1>1. /\ new \in RequestRecord
      /\ new.pc = "unschedule" /\ new.sched = s /\ new.end \in End
  BY DEF Idle, RequestRecord, Pc, End
<1>2. /\ up /\ Exists(s) /\ requests[q].pc = "idle"
      /\ requests' = [requests EXCEPT ![q] = new]
      /\ UNCHANGED <<rows, registry, strays, ending, told, now, up>>
      /\ clashed' \subseteq Sched
  BY DEF DeleteScheduler, Start, RegistryInv, TypeOK
<1> HIDE DEF new
<1> QED
  BY <1>1, <1>2
     DEF Exists, RegistryInv, TypeOK, UnusedIds, CallsInHand, FirstJobIsFree,
         DownMeansEmpty, NoStrays, StoppedMeansBusy, Busy

LEMMA InsertInv ==
    ASSUME RegistryInv, NEW q \in Request, Insert(q)
    PROVE  RegistryInv'
<1>1. PICK s \in Sched :
        /\ rows[s].state = "none"
        /\ rows' = [rows EXCEPT ![s] = [state |-> "row", active |-> TRUE,
                        plan |-> requests[q].plan, end |-> requests[q].end]]
        /\ requests' = [requests EXCEPT ![q].pc = "schedule", ![q].sched = s]
  BY DEF Insert
<1>2. /\ requests[q].pc = "insert"
      /\ UNCHANGED <<registry, strays, ending, told, now, up, clashed>>
  BY DEF Insert
<1> DEFINE new == [requests[q] EXCEPT !.pc = "schedule", !.sched = s]
           row == [state |-> "row", active |-> TRUE,
                   plan |-> requests[q].plan, end |-> requests[q].end]
<1>3. requests' = [requests EXCEPT ![q] = new]
  BY <1>1
<1>4. requests[q] \in RequestRecord
      /\ requests[q].plan \in Plan /\ requests[q].end \in End
  BY <1>2 DEF RegistryInv, TypeOK, CallsInHand
<1>5. /\ new \in RequestRecord
      /\ new.pc = "schedule" /\ new.sched = s
      /\ new.plan \in Plan /\ new.end \in End
  BY <1>4 DEF RequestRecord, Pc
<1>6. /\ row \in RowRecord /\ row.state = "row" /\ row.plan \in Plan
      /\ rows' = [rows EXCEPT ![s] = row]
  BY <1>1, <1>4 DEF RowRecord
<1>7. Idle.pc = "idle"
  BY DEF Idle
<1> HIDE DEF new, row
<1>8. TypeOK'
  BY <1>2, <1>3, <1>5, <1>6 DEF RegistryInv, TypeOK
<1>9. registry[s] = NoJob /\ \A p \in Request : requests[p].sched # s
  BY <1>1 DEF RegistryInv, UnusedIds
<1>10. UnusedIds' /\ CallsInHand' /\ FirstJobIsFree'
  BY <1>2, <1>3, <1>5, <1>6, <1>9
     DEF RegistryInv, TypeOK, UnusedIds, CallsInHand, FirstJobIsFree
<1>11. DownMeansEmpty' /\ NoStrays' /\ StoppedMeansBusy'
  BY <1>2, <1>3, <1>7
     DEF RegistryInv, TypeOK, DownMeansEmpty, NoStrays, StoppedMeansBusy, Busy
<1> QED
  BY <1>8, <1>10, <1>11 DEF RegistryInv

LEMMA ScheduleJobInv ==
    ASSUME RegistryInv, NEW q \in Request, ScheduleJob(q)
    PROVE  RegistryInv'
<1> DEFINE s == requests[q].sched
<1>1. /\ requests[q].pc = "schedule" /\ s \in Sched /\ registry[s] = NoJob
      /\ requests[q].plan \in Plan /\ requests[q].end \in End
      /\ rows[s].state # "none"
  BY DEF ScheduleJob, RegistryInv, CallsInHand, FirstJobIsFree, UnusedIds
<1>2. /\ UNCHANGED <<rows, strays, ending, now, up, clashed>>
      /\ requests' \in [Request -> RequestRecord]
      /\ requests'[q] = Idle
      /\ \A p \in Request \ {q} : requests'[p] = requests[p]
      /\ told' \in [Sched -> {"nothing", "created", "updated", "refused", "gone"}]
  BY <1>1, AnswerKeeps DEF ScheduleJob, RegistryInv
<1>3. \/ registry' = registry
      \/ registry' = [registry EXCEPT ![s] = Job(requests[q].plan, requests[q].end)]
  BY <1>1 DEF ScheduleJob
<1>4. \A j : j = Job(requests[q].plan, requests[q].end) => j \in JobRecord /\ j.running
  BY <1>1, JobTypes
<1> HIDE DEF s
<1>5. TypeOK'
  BY <1>1, <1>2, <1>3, <1>4 DEF RegistryInv, TypeOK
<1>6. UnusedIds' /\ CallsInHand' /\ FirstJobIsFree'
  BY <1>1, <1>2, <1>3, RequestTypes, SchedulerAssumption
     DEF RegistryInv, TypeOK, UnusedIds, CallsInHand, FirstJobIsFree, s
<1>7. DownMeansEmpty' /\ NoStrays'
  BY <1>1, <1>2, RequestTypes DEF RegistryInv, DownMeansEmpty, NoStrays
<1>8. StoppedMeansBusy'
  BY <1>1, <1>2, <1>3, <1>4 DEF RegistryInv, TypeOK, StoppedMeansBusy, Busy
<1> QED
  BY <1>5, <1>6, <1>7, <1>8 DEF RegistryInv
LEMMA WriteInv ==
    ASSUME RegistryInv, NEW q \in Request, Write(q)
    PROVE  RegistryInv'
<1> DEFINE s   == requests[q].sched
           end == IF requests[q].end = Keep THEN rows[s].end ELSE requests[q].end
           new == [requests[q] EXCEPT !.pc = "apply", !.end = end]
           row == [rows[s] EXCEPT !.plan = requests[q].plan, !.end = end]
<1>1. /\ requests[q].pc = "write" /\ Exists(s)
      /\ rows' = [rows EXCEPT ![s] = row]
      /\ requests' = [requests EXCEPT ![q] = new]
      /\ UNCHANGED <<registry, strays, ending, told, now, up, clashed>>
  BY DEF Write
<1>2. /\ s \in Sched /\ requests[q] \in RequestRecord /\ rows[s] \in RowRecord
      /\ requests[q].plan \in Plan
  BY <1>1 DEF RegistryInv, TypeOK, CallsInHand
<1>3. end \in End
  BY <1>2 DEF RequestRecord, RowRecord
<1> HIDE DEF end
<1>4. /\ new \in RequestRecord /\ new.pc = "apply" /\ new.sched = s
      /\ new.plan = requests[q].plan /\ new.end = end
  BY <1>2, <1>3 DEF RequestRecord, Pc
<1>5. row \in RowRecord /\ row.state = rows[s].state /\ row.plan \in Plan
  BY <1>2, <1>3 DEF RowRecord
<1> HIDE DEF new, row
<1>6. TypeOK'
  BY <1>1, <1>2, <1>4, <1>5 DEF RegistryInv, TypeOK
<1>7. UnusedIds' /\ CallsInHand' /\ FirstJobIsFree'
  BY <1>1, <1>2, <1>3, <1>4, <1>5
     DEF Exists, RegistryInv, TypeOK, UnusedIds, CallsInHand, FirstJobIsFree, s
<1>8. DownMeansEmpty' /\ NoStrays' /\ StoppedMeansBusy'
  BY <1>1, <1>2, <1>4, RequestTypes
     DEF RegistryInv, TypeOK, DownMeansEmpty, NoStrays, StoppedMeansBusy, Busy, s
<1> QED
  BY <1>6, <1>7, <1>8 DEF RegistryInv

(* A call that ends without a change of the tables and the registry, and   *)
(* that has not left a stopped job in the registry, keeps the invariant.   *)
LEMMA CallEndsInv ==
    ASSUME RegistryInv, NEW q \in Request, Fail(q, requests[q].sched),
           requests[q].pc \in {"swap", "unregister"} =>
                registry[requests[q].sched] = NoJob,
           UNCHANGED <<rows, registry, strays, ending, now, up, clashed>>
    PROVE  RegistryInv'
<1>1. /\ requests' \in [Request -> RequestRecord]
      /\ requests'[q] = Idle
      /\ \A p \in Request \ {q} : requests'[p] = requests[p]
      /\ told' \in [Sched -> {"nothing", "created", "updated", "refused", "gone"}]
  BY AnswerKeeps DEF RegistryInv
<1>2. TypeOK'
  BY <1>1 DEF RegistryInv, TypeOK
<1>3. UnusedIds' /\ CallsInHand' /\ FirstJobIsFree'
  BY <1>1, RequestTypes, SchedulerAssumption
     DEF RegistryInv, UnusedIds, CallsInHand, FirstJobIsFree
<1>4. DownMeansEmpty' /\ NoStrays' /\ StoppedMeansBusy'
  BY <1>1 DEF RegistryInv, DownMeansEmpty, NoStrays, StoppedMeansBusy, Busy
<1> QED
  BY <1>2, <1>3, <1>4 DEF RegistryInv

LEMMA ApplyUpdateInv ==
    ASSUME RegistryInv, NEW q \in Request, ApplyUpdate(q)
    PROVE  RegistryInv'
<1> DEFINE s == requests[q].sched
           stopped == [registry[s] EXCEPT !.running = FALSE]
<1>1. /\ requests[q].pc = "apply" /\ s \in Sched
      /\ requests[q].plan \in Plan /\ requests[q].end \in End
      /\ UNCHANGED <<rows, strays, ending, now, up, clashed>>
  BY DEF ApplyUpdate, RegistryInv, CallsInHand
<1>2. CASE registry[s] # NoJob /\ Stop(s) /\ Goto(q, "swap") /\ UNCHANGED told
  <2>1. stopped \in JobRecord /\ registry' = [registry EXCEPT ![s] = stopped]
    BY <1>1, <1>2, JobTypes DEF Stop, RegistryInv, TypeOK
  <2>2. /\ requests' \in [Request -> RequestRecord]
        /\ requests'[q].pc = "swap"
        /\ requests'[q].sched = s
        /\ requests'[q].plan = requests[q].plan
        /\ requests'[q].end = requests[q].end
        /\ \A p \in Request \ {q} : requests'[p] = requests[p]
    BY <1>2, GotoKeeps DEF Pc, RegistryInv
  <2> HIDE DEF stopped
  <2>3. TypeOK'
    BY <1>1, <1>2, <2>1, <2>2 DEF RegistryInv, TypeOK
  <2>4. UnusedIds' /\ CallsInHand' /\ FirstJobIsFree'
    BY <1>1, <1>2, <2>1, <2>2, SchedulerAssumption
       DEF RegistryInv, TypeOK, UnusedIds, CallsInHand, FirstJobIsFree, s
  <2>5. DownMeansEmpty' /\ NoStrays' /\ StoppedMeansBusy'
    BY <1>1, <1>2, <2>1, <2>2, RequestTypes
       DEF RegistryInv, TypeOK, DownMeansEmpty, NoStrays, StoppedMeansBusy, Busy
  <2> QED
    BY <2>3, <2>4, <2>5 DEF RegistryInv
<1>3. CASE Fail(q, s) /\ UNCHANGED registry
  BY <1>1, <1>3, CallEndsInv
<1> QED
  BY <1>2, <1>3 DEF ApplyUpdate
LEMMA SwapJobInv ==
    ASSUME RegistryInv, NEW q \in Request, SwapJob(q)
    PROVE  RegistryInv'
<1> DEFINE s == requests[q].sched
           new == Job(requests[q].plan, requests[q].end)
<1>1. /\ requests[q].pc = "swap" /\ s \in Sched
      /\ requests[q].plan \in Plan /\ requests[q].end \in End
      /\ UNCHANGED <<rows, strays, ending, now, up, clashed>>
  BY DEF SwapJob, RegistryInv, CallsInHand
<1>2. CASE registry[s] = NoJob /\ Fail(q, s) /\ UNCHANGED registry
  BY <1>1, <1>2, CallEndsInv
<1>3. CASE /\ registry[s] # NoJob
           /\ \/ Unregister(s) /\ Fail(q, s)
              \/ registry' = [registry EXCEPT ![s] = new] /\ Succeed(q, s, "updated")
  <2>1. /\ requests' \in [Request -> RequestRecord]
        /\ requests'[q] = Idle
        /\ \A p \in Request \ {q} : requests'[p] = requests[p]
        /\ told' \in [Sched -> {"nothing", "created", "updated", "refused", "gone"}]
    BY <1>3, AnswerKeeps DEF RegistryInv
  <2>2. new \in JobRecord /\ new.running
    BY <1>1, JobTypes
  <2> HIDE DEF new
  <2>3. PICK j \in JobRecord \cup {NoJob} :
          /\ registry' = [registry EXCEPT ![s] = j]
          /\ j = NoJob \/ j.running
    BY <1>3, <2>2 DEF Unregister
  <2>4. rows[s].state # "none"
    BY <1>1, <1>3 DEF RegistryInv, UnusedIds
  <2>5. TypeOK'
    BY <1>1, <2>1, <2>3 DEF RegistryInv, TypeOK
  <2>6. UnusedIds' /\ CallsInHand' /\ FirstJobIsFree'
    BY <1>1, <1>3, <2>1, <2>3, <2>4, RequestTypes, SchedulerAssumption
       DEF RegistryInv, TypeOK, UnusedIds, CallsInHand, FirstJobIsFree
  <2>7. up
    BY <1>1, RequestTypes DEF RegistryInv, DownMeansEmpty
  <2>8. DownMeansEmpty' /\ NoStrays' /\ StoppedMeansBusy'
    BY <1>1, <2>1, <2>3, <2>7
       DEF RegistryInv, TypeOK, DownMeansEmpty, NoStrays, StoppedMeansBusy, Busy
  <2> QED
    BY <2>5, <2>6, <2>8 DEF RegistryInv
<1> QED
  BY <1>2, <1>3 DEF SwapJob

LEMMA UnscheduleInv ==
    ASSUME RegistryInv, NEW q \in Request, Unschedule(q)
    PROVE  RegistryInv'
<1> DEFINE s == requests[q].sched
           stopped == [registry[s] EXCEPT !.running = FALSE]
<1>1. /\ requests[q].pc = "unschedule" /\ s \in Sched /\ requests[q].end \in End
      /\ UNCHANGED <<rows, strays, ending, told, now, up, clashed>>
  BY DEF Unschedule, RegistryInv, CallsInHand
<1>2. PICK pc \in {"unregister", "drop"} :
        /\ Goto(q, pc)
        /\ \/ registry[s] # NoJob /\ Stop(s) /\ pc = "unregister"
           \/ registry[s] = NoJob /\ UNCHANGED registry
  BY DEF Unschedule
<1>3. /\ requests' \in [Request -> RequestRecord]
      /\ requests'[q].pc = pc
      /\ requests'[q].sched = s
      /\ requests'[q].plan = requests[q].plan
      /\ requests'[q].end = requests[q].end
      /\ \A p \in Request \ {q} : requests'[p] = requests[p]
  BY <1>2, GotoKeeps DEF Pc, RegistryInv
<1>4. registry[s] # NoJob => stopped \in JobRecord
  BY <1>1, JobTypes DEF RegistryInv, TypeOK
<1>5. \/ /\ registry[s] # NoJob /\ stopped \in JobRecord /\ pc = "unregister"
         /\ registry' = [registry EXCEPT ![s] = stopped]
      \/ registry[s] = NoJob /\ registry' = registry
  BY <1>2, <1>4 DEF Stop
<1> HIDE DEF stopped
<1>6. TypeOK'
  BY <1>1, <1>3, <1>5 DEF RegistryInv, TypeOK
<1>7. UnusedIds' /\ CallsInHand' /\ FirstJobIsFree'
  BY <1>1, <1>3, <1>5, SchedulerAssumption
     DEF RegistryInv, TypeOK, UnusedIds, CallsInHand, FirstJobIsFree, s
<1>8. up
  BY <1>1, RequestTypes DEF RegistryInv, DownMeansEmpty
<1>9. DownMeansEmpty' /\ NoStrays' /\ StoppedMeansBusy'
  BY <1>1, <1>3, <1>5, <1>8
     DEF RegistryInv, TypeOK, DownMeansEmpty, NoStrays, StoppedMeansBusy, Busy, s
<1> QED
  BY <1>6, <1>7, <1>9 DEF RegistryInv
LEMMA UnregisterDeletedInv ==
    ASSUME RegistryInv, NEW q \in Request, UnregisterDeleted(q)
    PROVE  RegistryInv'
<1> DEFINE s == requests[q].sched
<1>1. /\ requests[q].pc = "unregister" /\ s \in Sched /\ requests[q].end \in End
      /\ registry' = [registry EXCEPT ![s] = NoJob]
      /\ UNCHANGED <<rows, strays, ending, told, now, up, clashed>>
  BY DEF UnregisterDeleted, Unregister, RegistryInv, CallsInHand
<1>2. /\ requests' \in [Request -> RequestRecord]
      /\ requests'[q].pc = "drop"
      /\ requests'[q].sched = s
      /\ requests'[q].plan = requests[q].plan
      /\ requests'[q].end = requests[q].end
      /\ \A p \in Request \ {q} : requests'[p] = requests[p]
  BY GotoKeeps DEF UnregisterDeleted, Pc, RegistryInv
<1>3. TypeOK'
  BY <1>1, <1>2 DEF RegistryInv, TypeOK
<1>4. UnusedIds' /\ CallsInHand' /\ FirstJobIsFree'
  BY <1>1, <1>2, SchedulerAssumption
     DEF RegistryInv, TypeOK, UnusedIds, CallsInHand, FirstJobIsFree, s
<1>5. up
  BY <1>1, RequestTypes DEF RegistryInv, DownMeansEmpty
<1>6. DownMeansEmpty' /\ NoStrays' /\ StoppedMeansBusy'
  BY <1>1, <1>2, <1>5
     DEF RegistryInv, TypeOK, DownMeansEmpty, NoStrays, StoppedMeansBusy, Busy, s
<1> QED
  BY <1>3, <1>4, <1>6 DEF RegistryInv

LEMMA DropInv ==
    ASSUME RegistryInv, NEW q \in Request, Drop(q)
    PROVE  RegistryInv'
<1> DEFINE s   == requests[q].sched
           row == [rows[s] EXCEPT !.state = "dropped"]
<1>1. /\ requests[q].pc = "drop" /\ s \in Sched /\ Exists(s)
      /\ rows' = [rows EXCEPT ![s] = row]
      /\ UNCHANGED <<registry, strays, ending, now, up, clashed>>
  BY DEF Drop, RegistryInv, CallsInHand
<1>2. row \in RowRecord /\ row.state = "dropped" /\ row.plan = rows[s].plan
  BY <1>1, RowTypes DEF RegistryInv, TypeOK
<1>3. /\ requests' \in [Request -> RequestRecord]
      /\ requests'[q] = Idle
      /\ \A p \in Request \ {q} : requests'[p] = requests[p]
      /\ told' \in [Sched -> {"nothing", "created", "updated", "refused", "gone"}]
  BY AnswerKeeps DEF Drop, RegistryInv
<1> HIDE DEF row
<1>4. TypeOK'
  BY <1>1, <1>2, <1>3 DEF RegistryInv, TypeOK
<1>5. UnusedIds' /\ CallsInHand' /\ FirstJobIsFree'
  BY <1>1, <1>2, <1>3, RequestTypes, SchedulerAssumption
     DEF RegistryInv, TypeOK, UnusedIds, CallsInHand, FirstJobIsFree, Exists
<1>6. DownMeansEmpty' /\ NoStrays' /\ StoppedMeansBusy'
  BY <1>1, <1>3
     DEF RegistryInv, TypeOK, DownMeansEmpty, NoStrays, StoppedMeansBusy, Busy
<1> QED
  BY <1>4, <1>5, <1>6 DEF RegistryInv

LEMMA EndedTickInv ==
    ASSUME RegistryInv, NEW s \in Sched, EndedTick(s)
    PROVE  RegistryInv'
<1> DEFINE stopped == [registry[s] EXCEPT !.running = FALSE]
<1>1. /\ registry[s] # NoJob
      /\ registry' = [registry EXCEPT ![s] = stopped]
      /\ ending' = [ending EXCEPT ![s] = Leftover]
      /\ UNCHANGED <<rows, strays, requests, told, now, up, clashed>>
  BY DEF EndedTick, Stop
<1>2. stopped \in JobRecord
  BY <1>1, JobTypes DEF RegistryInv, TypeOK
<1>3. up
  BY <1>1 DEF RegistryInv, DownMeansEmpty
<1> HIDE DEF stopped
<1>4. TypeOK'
  BY <1>1, <1>2 DEF RegistryInv, TypeOK
<1>5. UnusedIds' /\ CallsInHand' /\ FirstJobIsFree'
  BY <1>1, <1>2 DEF RegistryInv, TypeOK, UnusedIds, CallsInHand, FirstJobIsFree
<1>6. DownMeansEmpty' /\ NoStrays' /\ StoppedMeansBusy'
  BY <1>1, <1>2, <1>3
     DEF RegistryInv, TypeOK, DownMeansEmpty, NoStrays, StoppedMeansBusy, Busy, Leftover
<1> QED
  BY <1>4, <1>5, <1>6 DEF RegistryInv

LEMMA UnregisterEndedInv ==
    ASSUME RegistryInv, NEW s \in Sched, UnregisterEnded(s)
    PROVE  RegistryInv'
<1>1. /\ registry' = [registry EXCEPT ![s] = NoJob]
      /\ ending' = [ending EXCEPT ![s] = @ \ {"unregister"}]
      /\ UNCHANGED <<rows, strays, requests, told, now, up, clashed>>
      /\ ending[s] # {}
  BY DEF UnregisterEnded, Unregister
<1>2. up
  BY <1>1 DEF RegistryInv, DownMeansEmpty
<1>3. TypeOK'
  BY <1>1 DEF RegistryInv, TypeOK
<1>4. UnusedIds' /\ CallsInHand' /\ FirstJobIsFree'
  BY <1>1 DEF RegistryInv, TypeOK, UnusedIds, CallsInHand, FirstJobIsFree
<1>5. DownMeansEmpty' /\ NoStrays' /\ StoppedMeansBusy'
  BY <1>1, <1>2
     DEF RegistryInv, TypeOK, DownMeansEmpty, NoStrays, StoppedMeansBusy, Busy
<1> QED
  BY <1>3, <1>4, <1>5 DEF RegistryInv

LEMMA DeactivateInv ==
    ASSUME RegistryInv, NEW s \in Sched, Deactivate(s)
    PROVE  RegistryInv'
<1> DEFINE row == [rows[s] EXCEPT !.active = FALSE]
<1>1. /\ Exists(s)
      /\ rows' = [rows EXCEPT ![s] = row]
      /\ ending' = [ending EXCEPT ![s] = @ \ {"deactivate"}]
      /\ UNCHANGED <<registry, strays, requests, told, now, up, clashed>>
  BY DEF Deactivate
<1>2. row \in RowRecord /\ row.state = rows[s].state /\ row.plan = rows[s].plan
  BY RowTypes DEF RegistryInv, TypeOK
<1> HIDE DEF row
<1>3. TypeOK'
  BY <1>1, <1>2 DEF RegistryInv, TypeOK
<1>4. UnusedIds' /\ CallsInHand' /\ FirstJobIsFree'
  BY <1>1, <1>2 DEF RegistryInv, TypeOK, UnusedIds, CallsInHand, FirstJobIsFree
<1>5. DownMeansEmpty' /\ NoStrays' /\ StoppedMeansBusy'
  BY <1>1 DEF RegistryInv, TypeOK, DownMeansEmpty, NoStrays, StoppedMeansBusy, Busy
<1> QED
  BY <1>3, <1>4, <1>5 DEF RegistryInv

LEMMA ProcessDiesInv ==
    ASSUME RegistryInv, ProcessDies
    PROVE  RegistryInv'
<1>1. TypeOK'
  BY RequestTypes DEF ProcessDies, RegistryInv, TypeOK
<1>2. UnusedIds' /\ CallsInHand' /\ FirstJobIsFree'
  BY RequestTypes, SchedulerAssumption
     DEF ProcessDies, RegistryInv, UnusedIds, CallsInHand, FirstJobIsFree
<1>3. DownMeansEmpty' /\ NoStrays' /\ StoppedMeansBusy'
  BY DEF ProcessDies, DownMeansEmpty, NoStrays, StoppedMeansBusy
<1> QED
  BY <1>1, <1>2, <1>3 DEF RegistryInv

LEMMA BootInv ==
    ASSUME RegistryInv, Boot
    PROVE  RegistryInv'
<1>1. /\ ~up /\ up' = TRUE
      /\ \A s \in Restored : Accepts(rows[s].plan)
      /\ registry' = [s \in Sched |-> IF s \in Restored
                          THEN Job(rows[s].plan, rows[s].end) ELSE NoJob]
      /\ UNCHANGED <<rows, strays, requests, ending, told, now, clashed>>
  BY DEF Boot
<1>2. \A q \in Request : requests[q] = Idle
  BY <1>1 DEF RegistryInv, DownMeansEmpty
<1>3. \A s \in Restored : rows[s].state = "row"
  BY DEF Restored, Exists
<1>4. \A s \in Restored : Job(rows[s].plan, rows[s].end) \in JobRecord
  <2> SUFFICES ASSUME NEW s \in Restored
               PROVE  Job(rows[s].plan, rows[s].end) \in JobRecord
    OBVIOUS
  <2>1. s \in Sched /\ rows[s] \in RowRecord /\ rows[s].plan \in Plan
    BY <1>3 DEF Restored, RegistryInv, TypeOK, UnusedIds
  <2> QED
    BY <2>1, JobTypes DEF RowRecord
<1>5. \A s \in Restored : Job(rows[s].plan, rows[s].end).running
  BY JobTypes
<1>6. TypeOK'
  BY <1>1, <1>4 DEF RegistryInv, TypeOK
<1>7. UnusedIds' /\ CallsInHand' /\ FirstJobIsFree'
  BY <1>1, <1>2, <1>3, RequestTypes
     DEF RegistryInv, UnusedIds, CallsInHand, FirstJobIsFree
<1>8. DownMeansEmpty' /\ NoStrays' /\ StoppedMeansBusy'
  BY <1>1, <1>5 DEF RegistryInv, DownMeansEmpty, NoStrays, StoppedMeansBusy
<1> QED
  BY <1>6, <1>7, <1>8 DEF RegistryInv

LEMMA RemoveScenarioInv ==
    ASSUME RegistryInv, NEW S \in SUBSET Sched, RemoveScenario(S)
    PROVE  RegistryInv'
<1>1. /\ \A s \in S : Exists(s)
      /\ rows' = [s \in Sched |-> IF s \in S
                     THEN [rows[s] EXCEPT !.state = "cascaded"] ELSE rows[s]]
      /\ UNCHANGED <<registry, strays, requests, ending, told, now, up, clashed>>
  BY DEF RemoveScenario
<1>2. /\ rows' \in [Sched -> RowRecord]
      /\ \A s \in Sched : /\ rows'[s].state = "none" <=> rows[s].state = "none"
                         /\ rows'[s].plan = rows[s].plan
  BY <1>1, RowTypes DEF RegistryInv, TypeOK, Exists
<1>3. TypeOK'
  BY <1>1, <1>2 DEF RegistryInv, TypeOK
<1>4. UnusedIds' /\ CallsInHand' /\ FirstJobIsFree'
  BY <1>1, <1>2 DEF RegistryInv, UnusedIds, CallsInHand, FirstJobIsFree
<1>5. DownMeansEmpty' /\ NoStrays' /\ StoppedMeansBusy'
  BY <1>1 DEF RegistryInv, DownMeansEmpty, NoStrays, StoppedMeansBusy, Busy
<1> QED
  BY <1>3, <1>4, <1>5 DEF RegistryInv

LEMMA TimePassesInv ==
    ASSUME RegistryInv, TimePasses
    PROVE  RegistryInv'
BY SchedulerAssumption
   DEF TimePasses, RegistryInv, TypeOK, Time, UnusedIds, CallsInHand, FirstJobIsFree,
       DownMeansEmpty, NoStrays, StoppedMeansBusy, Busy

LEMMA StutterInv ==
    ASSUME RegistryInv, UNCHANGED vars
    PROVE  RegistryInv'
BY DEF vars, RegistryInv, TypeOK, UnusedIds, CallsInHand, FirstJobIsFree,
       DownMeansEmpty, NoStrays, StoppedMeansBusy, Busy

(* One case per operation: a request arriving or going on, a tick, and the *)
(* process with its surroundings.                                          *)
LEMMA StepInv == RegistryInv /\ [Next]_vars => RegistryInv'
<1> SUFFICES ASSUME RegistryInv, [Next]_vars PROVE RegistryInv'
  OBVIOUS
<1>1. ASSUME NEW q \in Request, Arrive(q) PROVE RegistryInv'
  BY <1>1, CreateInv, UpdateSchedulerInv, DeleteSchedulerInv DEF Arrive
<1>2. ASSUME NEW q \in Request, Advance(q) PROVE RegistryInv'
  <2>1. CASE CallThrows(q)
    BY <2>1, CallEndsInv DEF CallThrows
  <2>2. CASE ~CallThrows(q)
    BY <1>2, <2>2, InsertInv, ScheduleJobInv, WriteInv, ApplyUpdateInv, SwapJobInv,
       UnscheduleInv, UnregisterDeletedInv, DropInv DEF Advance
  <2> QED
    BY <2>1, <2>2
<1>3. ASSUME NEW s \in Sched, TickSteps(s) PROVE RegistryInv'
  BY <1>3, EndedTickInv, UnregisterEndedInv, DeactivateInv, ProcessDiesInv
     DEF TickSteps, DeactivateFails
<1>4. CASE Crash
  BY <1>4, ProcessDiesInv DEF Crash
<1>5. CASE Boot
  BY <1>5, BootInv
<1>6. ASSUME NEW S \in SUBSET Sched, RemoveScenario(S) PROVE RegistryInv'
  BY <1>6, RemoveScenarioInv
<1>7. CASE TimePasses
  BY <1>7, TimePassesInv
<1>8. CASE UNCHANGED vars
  BY <1>8, StutterInv
<1> QED
  BY <1>1, <1>2, <1>3, <1>4, <1>5, <1>6, <1>7, <1>8 DEF Next

-----------------------------------------------------------------------------
(* Calls, jobs, rows and answers agree *)

LEMMA InitAgrees == Init => AgreementInv
<1> SUFFICES ASSUME Init PROVE AgreementInv
  OBVIOUS
<1>1. /\ \A q \in Request : requests[q].pc = "idle" /\ requests[q].sched \notin Sched
      /\ \A s \in Sched : /\ told[s] = "nothing" /\ ending[s] = {}
                         /\ registry[s] = NoJob /\ rows[s].state = "none"
  BY SchedulerAssumption DEF Init, Idle, NoRow
<1>2. SoleCalls /\ UntoldIds /\ DropsAreQuiet /\ CallsShowRow
  BY <1>1 DEF SoleCalls, UntoldIds, DropsAreQuiet, CallsShowRow
<1>3. JobsShowRow /\ EndedRowsGo /\ PromisesKept
  BY <1>1 DEF JobsShowRow, EndedRowsGo, PromisesKept, Exists
<1> QED
  BY <1>2, <1>3 DEF AgreementInv

(* A call that arrives clashes with those it finds on its scheduler, which *)
(* is there.                                                               *)
LEMMA ArriveAgrees ==
    ASSUME RegistryInv, AgreementInv, NEW q \in Request, NEW r,
           r.pc \in {"insert", "write", "unschedule"},
           r.sched = NoSched \/ (r.sched \in Sched /\ Exists(r.sched)),
           Start(q, r)
    PROVE  AgreementInv'
<1>1. /\ requests[q].pc = "idle"
      /\ requests'[q] = r
      /\ \A p \in Request \ {q} : requests'[p] = requests[p]
      /\ clashed \subseteq clashed'
      /\ r.sched \in Sched /\ InFlight(r.sched) => r.sched \in clashed'
      /\ UNCHANGED <<rows, registry, strays, ending, told, now, up>>
  BY DEF Start, RegistryInv, TypeOK
<1>2. NoSched \notin Sched
  BY SchedulerAssumption
<1>3. SoleCalls'
  BY <1>1, <1>2 DEF AgreementInv, SoleCalls, InFlight
<1>4. UntoldIds' /\ EndedRowsGo'
  BY <1>1 DEF AgreementInv, UntoldIds, EndedRowsGo, Exists
<1>5. DropsAreQuiet'
  BY <1>1, <1>2 DEF AgreementInv, DropsAreQuiet, InFlight, Exists
<1>6. CallsShowRow'
  BY <1>1 DEF AgreementInv, CallsShowRow, ShowsRow, Exists
<1>7. JobsShowRow' /\ PromisesKept'
  BY <1>1 DEF AgreementInv, JobsShowRow, PromisesKept, ShowsRow, Exists
<1> QED
  BY <1>3, <1>4, <1>5, <1>6, <1>7 DEF AgreementInv

LEMMA InsertAgrees ==
    ASSUME RegistryInv, AgreementInv, NEW q \in Request, Insert(q)
    PROVE  AgreementInv'
<1>1. PICK s \in Sched :
        /\ rows[s].state = "none"
        /\ rows' = [rows EXCEPT ![s] = [state |-> "row", active |-> TRUE,
                        plan |-> requests[q].plan, end |-> requests[q].end]]
        /\ requests' = [requests EXCEPT ![q].pc = "schedule", ![q].sched = s]
  BY DEF Insert
<1> DEFINE new == [requests[q] EXCEPT !.pc = "schedule", !.sched = s]
<1>2. /\ requests[q].pc = "insert"
      /\ UNCHANGED <<registry, strays, ending, told, now, up, clashed>>
  BY DEF Insert
<1>3. requests[q] \in RequestRecord
  BY DEF RegistryInv, TypeOK
<1>4. /\ new.pc = "schedule" /\ new.sched = s
      /\ new.plan = requests[q].plan /\ new.end = requests[q].end
  BY <1>3 DEF RequestRecord
<1>5. requests' = [requests EXCEPT ![q] = new]
  BY <1>1
<1> HIDE DEF new
<1>6. /\ requests'[q] = new
      /\ \A p \in Request \ {q} : requests'[p] = requests[p]
      /\ rows'[s].plan = new.plan /\ rows'[s].end = new.end /\ rows'[s].state = "row"
      /\ \A t \in Sched \ {s} : rows'[t] = rows[t]
  BY <1>1, <1>4, <1>5 DEF RegistryInv, TypeOK
<1>7. /\ registry[s] = NoJob /\ told[s] = "nothing" /\ ending[s] = {}
      /\ \A p \in Request : requests[p].sched # s
  BY <1>1 DEF RegistryInv, UnusedIds, AgreementInv, UntoldIds
<1>8. SoleCalls' /\ UntoldIds' /\ EndedRowsGo'
  BY <1>2, <1>4, <1>6, <1>7 DEF AgreementInv, SoleCalls, UntoldIds, EndedRowsGo, Exists
<1>9. DropsAreQuiet'
  BY <1>2, <1>4, <1>6, <1>7 DEF AgreementInv, DropsAreQuiet, InFlight
<1>10. CallsShowRow'
  BY <1>2, <1>4, <1>6, <1>7
     DEF AgreementInv, CallsShowRow, ShowsRow, Exists, RegistryInv, CallsInHand
<1>11. JobsShowRow' /\ PromisesKept'
  BY <1>2, <1>4, <1>6, <1>7
     DEF AgreementInv, JobsShowRow, PromisesKept, ShowsRow, Exists, Promise
<1> QED
  BY <1>8, <1>9, <1>10, <1>11 DEF AgreementInv

(* A call that ends with an error takes a promise back. *)
LEMMA FailAgrees ==
    ASSUME RegistryInv, AgreementInv, NEW q \in Request, NEW s,
           s = requests[q].sched, Fail(q, s),
           requests[q].pc # "idle",
           requests[q].pc \in {"apply", "swap"} => registry'[s] = NoJob,
           \/ UNCHANGED registry
           \/ s \in Sched /\ registry' = [registry EXCEPT ![s] = NoJob],
           UNCHANGED <<rows, ending, now, up, clashed>>
    PROVE  AgreementInv'
<1>1. /\ requests'[q] = Idle
      /\ \A p \in Request \ {q} : requests'[p] = requests[p]
  BY AnswerKeeps DEF RegistryInv
<1>2. /\ \A t \in Sched : t # s => told'[t] = told[t] /\ registry'[t] = registry[t]
      /\ s \in Sched => told'[s] \notin Promise
      /\ \A t \in Sched : told'[t] = told[t] \/ told'[t] = "refused"
      /\ \A t \in Sched : told[t] = "nothing" => told'[t] = told[t]
  BY DEF Fail, Promise, RegistryInv, TypeOK
<1>3. \A t \in Sched : registry'[t] = registry[t] \/ (t = s /\ registry'[t] = NoJob)
  BY <1>2 DEF RegistryInv, TypeOK
<1>4. Idle.pc = "idle" /\ Idle.sched \notin Sched
  BY SchedulerAssumption DEF Idle
<1>5. SoleCalls'
  BY <1>1, <1>4 DEF AgreementInv, SoleCalls
<1>6. UntoldIds' /\ EndedRowsGo'
  BY <1>2 DEF AgreementInv, UntoldIds, EndedRowsGo, Exists
<1>7. DropsAreQuiet'
  BY <1>1, <1>2, <1>3, <1>4
     DEF AgreementInv, DropsAreQuiet, InFlight, RegistryInv, CallsInHand
<1>8. CallsShowRow'
  BY <1>1, <1>4 DEF AgreementInv, CallsShowRow, ShowsRow, Exists
<1>9. JobsShowRow'
  BY <1>1, <1>3, <1>4 DEF AgreementInv, JobsShowRow, ShowsRow, Exists
<1>10. PromisesKept'
  BY <1>1, <1>2, <1>3, <1>4 DEF AgreementInv, PromisesKept, Exists, Promise
<1> QED
  BY <1>5, <1>6, <1>7, <1>8, <1>9, <1>10 DEF AgreementInv

(* A call that succeeds with its job registered for what its row shows.    *)
LEMMA JobAgrees ==
    ASSUME RegistryInv, AgreementInv, NEW q \in Request, NEW s \in Sched,
           s = requests[q].sched, requests[q].pc \in {"schedule", "swap"},
           registry' = [registry EXCEPT ![s] = Job(requests[q].plan, requests[q].end)],
           NEW a \in Promise, Succeed(q, s, a),
           UNCHANGED <<rows, ending, now, up, clashed>>
    PROVE  AgreementInv'
<1>1. /\ requests'[q] = Idle
      /\ \A p \in Request \ {q} : requests'[p] = requests[p]
  BY AnswerKeeps DEF RegistryInv, Promise
<1>2. /\ \A t \in Sched : t # s => told'[t] = told[t] /\ registry'[t] = registry[t]
      /\ told'[s] = a /\ a # "gone"
  BY DEF Succeed, Promise, RegistryInv, TypeOK
<1>3. /\ requests[q].plan \in Plan /\ requests[q].end \in End
      /\ rows[s].state # "none"
  BY DEF RegistryInv, CallsInHand, UnusedIds
<1>4. /\ registry'[s] # NoJob
      /\ registry'[s].plan = requests[q].plan /\ registry'[s].end = requests[q].end
  <2>1. registry'[s] = Job(requests[q].plan, requests[q].end)
    BY DEF RegistryInv, TypeOK
  <2>2. Job(requests[q].plan, requests[q].end) # NoJob
    BY <1>3, JobTypes
  <2> QED
    BY <2>1, <2>2 DEF Job
<1>5. Idle.pc = "idle" /\ Idle.sched \notin Sched
  BY SchedulerAssumption DEF Idle
<1>6. SoleCalls'
  BY <1>1, <1>5 DEF AgreementInv, SoleCalls
<1>7. UntoldIds' /\ EndedRowsGo'
  BY <1>2, <1>3 DEF AgreementInv, UntoldIds, EndedRowsGo, Exists
<1>8. DropsAreQuiet'
  <2>1. \A p \in Request \ {q} : requests[p].sched = s => s \in clashed
    BY DEF AgreementInv, SoleCalls
  <2> QED
    BY <1>1, <1>2, <1>5, <2>1
       DEF AgreementInv, DropsAreQuiet, InFlight, RegistryInv, CallsInHand
<1>9. CallsShowRow'
  BY <1>1, <1>5 DEF AgreementInv, CallsShowRow, ShowsRow, Exists
<1>10. JobsShowRow'
  BY <1>1, <1>2, <1>4, <1>5
     DEF AgreementInv, JobsShowRow, CallsShowRow, ShowsRow, Exists
<1>11. PromisesKept'
  BY <1>1, <1>2, <1>4, <1>5 DEF AgreementInv, PromisesKept, Exists, Promise
<1> QED
  BY <1>6, <1>7, <1>8, <1>9, <1>10, <1>11 DEF AgreementInv

LEMMA WriteAgrees ==
    ASSUME RegistryInv, AgreementInv, NEW q \in Request, Write(q)
    PROVE  AgreementInv'
<1> DEFINE s   == requests[q].sched
           end == IF requests[q].end = Keep THEN rows[s].end ELSE requests[q].end
           new == [requests[q] EXCEPT !.pc = "apply", !.end = end]
           row == [rows[s] EXCEPT !.plan = requests[q].plan, !.end = end]
<1>1. /\ requests[q].pc = "write" /\ Exists(s)
      /\ rows' = [rows EXCEPT ![s] = row]
      /\ requests' = [requests EXCEPT ![q] = new]
      /\ UNCHANGED <<registry, strays, ending, told, now, up, clashed>>
  BY DEF Write
<1>2. s \in Sched /\ requests[q] \in RequestRecord /\ rows[s] \in RowRecord
  BY <1>1 DEF RegistryInv, TypeOK, CallsInHand
<1> HIDE DEF end
<1>3. /\ new.pc = "apply" /\ new.sched = s
      /\ new.plan = requests[q].plan /\ new.end = end
      /\ row.state = rows[s].state /\ row.active = rows[s].active
      /\ row.plan = requests[q].plan /\ row.end = end
  BY <1>2 DEF RequestRecord, RowRecord
<1> HIDE DEF new, row
<1>4. /\ requests'[q] = new
      /\ \A p \in Request \ {q} : requests'[p] = requests[p]
      /\ rows'[s] = row
      /\ \A t \in Sched \ {s} : rows'[t] = rows[t]
  BY <1>1, <1>2 DEF RegistryInv, TypeOK
<1>5. \A p \in Request \ {q} : requests[p].sched = s => s \in clashed
  BY <1>2 DEF AgreementInv, SoleCalls
<1> HIDE DEF s
<1>6. requests[q].sched = s
  BY DEF s
<1>7. SoleCalls'
  BY <1>1, <1>3, <1>4, <1>6 DEF AgreementInv, SoleCalls
<1>8. UntoldIds' /\ EndedRowsGo'
  BY <1>1, <1>3, <1>4 DEF AgreementInv, UntoldIds, EndedRowsGo, Exists
<1>9. DropsAreQuiet'
  BY <1>1, <1>3, <1>4, <1>6 DEF AgreementInv, DropsAreQuiet, InFlight
<1>10. CallsShowRow'
  BY <1>1, <1>3, <1>4, <1>5, <1>6
     DEF AgreementInv, CallsShowRow, ShowsRow, Exists, RegistryInv, CallsInHand
<1>11. JobsShowRow'
  BY <1>1, <1>3, <1>4, <1>6 DEF AgreementInv, JobsShowRow, ShowsRow, Exists
<1>12. PromisesKept'
  BY <1>1, <1>3, <1>4, <1>6 DEF AgreementInv, PromisesKept, Exists
<1> QED
  BY <1>7, <1>8, <1>9, <1>10, <1>11, <1>12 DEF AgreementInv

(* A call that goes on after it has stopped or taken out a job.            *)
LEMMA GoesOnAgrees ==
    ASSUME RegistryInv, AgreementInv, NEW q \in Request, NEW s \in Sched,
           s = requests[q].sched, NEW pc \in {"swap", "unregister", "drop"}, Goto(q, pc),
           requests[q].pc = (IF pc = "swap" THEN "apply"
                             ELSE IF pc = "unregister" THEN "unschedule"
                             ELSE requests[q].pc),
           pc = "drop" => /\ requests[q].pc \in {"unschedule", "unregister"}
                          /\ registry'[s] = NoJob,
           pc # "drop" => registry[s] # NoJob /\ Stop(s),
           pc = "drop" => UNCHANGED registry \/ Unregister(s),
           UNCHANGED <<rows, ending, told, now, up, clashed>>
    PROVE  AgreementInv'
<1>1. /\ requests'[q].pc = pc
      /\ requests'[q].sched = s
      /\ requests'[q].plan = requests[q].plan
      /\ requests'[q].end = requests[q].end
      /\ \A p \in Request \ {q} : requests'[p] = requests[p]
  BY GotoKeeps DEF Pc, RegistryInv
<1>2. /\ \A t \in Sched \ {s} : registry'[t] = registry[t]
      /\ pc = "drop" => registry'[s] = NoJob
      /\ pc # "drop" => /\ registry[s] # NoJob /\ registry'[s] # NoJob
                        /\ registry'[s].plan = registry[s].plan
                        /\ registry'[s].end = registry[s].end
  <2>1. CASE pc = "drop"
    BY <2>1 DEF Unregister, RegistryInv, TypeOK
  <2>2. CASE pc # "drop"
    <3> DEFINE stopped == [registry[s] EXCEPT !.running = FALSE]
    <3>1. registry[s] \in JobRecord /\ registry[s] # NoJob
      BY <2>2 DEF RegistryInv, TypeOK
    <3>2. /\ stopped \in JobRecord
          /\ stopped.plan = registry[s].plan /\ stopped.end = registry[s].end
      BY <3>1 DEF JobRecord
    <3>3. registry' = [registry EXCEPT ![s] = stopped]
      BY <2>2 DEF Stop
    <3> HIDE DEF stopped
    <3>4. registry'[s] = stopped /\ \A t \in Sched \ {s} : registry'[t] = registry[t]
      BY <3>3 DEF RegistryInv, TypeOK
    <3> QED
      BY <2>2, <3>1, <3>2, <3>4, JobTypes
  <2> QED
    BY <2>1, <2>2
<1>3. SoleCalls'
  BY <1>1 DEF AgreementInv, SoleCalls
<1>4. UntoldIds' /\ EndedRowsGo'
  BY DEF AgreementInv, UntoldIds, EndedRowsGo, Exists
<1>5. DropsAreQuiet'
  BY <1>1, <1>2 DEF AgreementInv, DropsAreQuiet, InFlight, RegistryInv, CallsInHand
<1>6. CallsShowRow'
  BY <1>1 DEF AgreementInv, CallsShowRow, ShowsRow, Exists
<1>7. JobsShowRow'
  BY <1>1, <1>2 DEF AgreementInv, JobsShowRow, ShowsRow, Exists
<1>8. PromisesKept'
  BY <1>1, <1>2 DEF AgreementInv, PromisesKept, Exists
<1> QED
  BY <1>3, <1>4, <1>5, <1>6, <1>7, <1>8 DEF AgreementInv

LEMMA DropAgrees ==
    ASSUME RegistryInv, AgreementInv, NEW q \in Request, Drop(q)
    PROVE  AgreementInv'
<1> DEFINE s   == requests[q].sched
           row == [rows[s] EXCEPT !.state = "dropped"]
<1>1. /\ requests[q].pc = "drop" /\ s \in Sched /\ Exists(s)
      /\ rows' = [rows EXCEPT ![s] = row]
      /\ Succeed(q, s, "gone")
      /\ UNCHANGED <<registry, strays, ending, now, up, clashed>>
  BY DEF Drop, RegistryInv, CallsInHand
<1>2. row.state = "dropped"
  BY <1>1, RowTypes DEF RegistryInv, TypeOK
<1>3. /\ requests'[q] = Idle
      /\ \A p \in Request \ {q} : requests'[p] = requests[p]
  BY <1>1, AnswerKeeps DEF RegistryInv
<1> HIDE DEF row
<1>4. /\ rows'[s] = row /\ told'[s] = "gone"
      /\ \A t \in Sched \ {s} : rows'[t] = rows[t] /\ told'[t] = told[t]
  BY <1>1 DEF Succeed, RegistryInv, TypeOK
<1>5. Idle.pc = "idle" /\ Idle.sched \notin Sched
  BY SchedulerAssumption DEF Idle
<1>6. s \notin clashed => /\ registry[s] = NoJob
                          /\ \A p \in Request \ {q} : requests[p].sched # s
  BY <1>1 DEF AgreementInv, DropsAreQuiet, SoleCalls
<1> HIDE DEF s
<1>7. SoleCalls'
  BY <1>1, <1>3, <1>5 DEF AgreementInv, SoleCalls
<1>8. UntoldIds' /\ EndedRowsGo'
  BY <1>1, <1>2, <1>4 DEF AgreementInv, UntoldIds, EndedRowsGo, Exists
<1>9. DropsAreQuiet'
  BY <1>1, <1>2, <1>3, <1>4, <1>5, <1>6 DEF AgreementInv, DropsAreQuiet, InFlight
<1>10. CallsShowRow'
  BY <1>1, <1>2, <1>3, <1>4, <1>5
     DEF AgreementInv, CallsShowRow, ShowsRow, Exists, RegistryInv, CallsInHand
<1>11. JobsShowRow' /\ PromisesKept'
  <2>1. \A p \in Request : requests[p].pc \in {"apply", "swap"} => p # q
    BY <1>1
  <2>2. \A t \in Sched : Exists(t)' => t # s /\ rows'[t] = rows[t] /\ told'[t] = told[t]
    BY <1>2, <1>4 DEF Exists
  <2>3. \A t \in Sched \ {s}, p \in Request : requests[p].sched = t => p # q
    BY DEF s
  <2> QED
    BY <1>1, <1>3, <2>1, <2>2, <2>3
       DEF AgreementInv, JobsShowRow, PromisesKept, ShowsRow, Exists
<1> QED
  BY <1>7, <1>8, <1>9, <1>10, <1>11 DEF AgreementInv

-----------------------------------------------------------------------------
(* Ticks, restarts and the rest agree as well *)

LEMMA EndedTickAgrees ==
    ASSUME RegistryInv, AgreementInv, NEW s \in Sched, EndedTick(s)
    PROVE  AgreementInv'
<1> DEFINE stopped == [registry[s] EXCEPT !.running = FALSE]
<1>1. /\ registry[s] # NoJob
      /\ registry' = [registry EXCEPT ![s] = stopped]
      /\ ending' = [ending EXCEPT ![s] = Leftover]
      /\ UNCHANGED <<rows, strays, requests, told, now, up, clashed>>
  BY DEF EndedTick, Stop
<1>2. registry[s] \in JobRecord
  BY <1>1 DEF RegistryInv, TypeOK
<1>3. /\ stopped # NoJob
      /\ stopped.plan = registry[s].plan /\ stopped.end = registry[s].end
  BY <1>2, JobTypes DEF JobRecord
<1> HIDE DEF stopped
<1>4. /\ registry'[s] = stopped /\ ending'[s] = Leftover
      /\ \A t \in Sched \ {s} : registry'[t] = registry[t] /\ ending'[t] = ending[t]
  BY <1>1 DEF RegistryInv, TypeOK
<1>5. rows[s].state # "none"
  BY <1>1 DEF RegistryInv, UnusedIds
<1>6. SoleCalls' /\ UntoldIds' /\ CallsShowRow'
  BY <1>1, <1>4, <1>5
     DEF AgreementInv, SoleCalls, UntoldIds, CallsShowRow, ShowsRow, Exists
<1>7. DropsAreQuiet'
  BY <1>1, <1>4 DEF AgreementInv, DropsAreQuiet, InFlight
<1>8. JobsShowRow'
  BY <1>1, <1>3, <1>4 DEF AgreementInv, JobsShowRow, ShowsRow, Exists
<1>9. EndedRowsGo' /\ PromisesKept'
  BY <1>1, <1>3, <1>4 DEF AgreementInv, EndedRowsGo, PromisesKept, Exists, Leftover
<1> QED
  BY <1>6, <1>7, <1>8, <1>9 DEF AgreementInv

LEMMA UnregisterEndedAgrees ==
    ASSUME RegistryInv, AgreementInv, NEW s \in Sched, UnregisterEnded(s)
    PROVE  AgreementInv'
<1>1. /\ registry' = [registry EXCEPT ![s] = NoJob]
      /\ ending' = [ending EXCEPT ![s] = @ \ {"unregister"}]
      /\ UNCHANGED <<rows, strays, requests, told, now, up, clashed>>
      /\ "unregister" \in ending[s]
  BY DEF UnregisterEnded, Unregister
<1>2. /\ registry'[s] = NoJob /\ ending'[s] = ending[s] \ {"unregister"}
      /\ \A t \in Sched \ {s} : registry'[t] = registry[t] /\ ending'[t] = ending[t]
  BY <1>1 DEF RegistryInv, TypeOK
<1>3. SoleCalls' /\ UntoldIds' /\ CallsShowRow'
  BY <1>1, <1>2
     DEF AgreementInv, SoleCalls, UntoldIds, CallsShowRow, ShowsRow, Exists
<1>4. DropsAreQuiet'
  BY <1>1, <1>2 DEF AgreementInv, DropsAreQuiet, InFlight, RegistryInv, CallsInHand
<1>5. JobsShowRow'
  BY <1>1, <1>2 DEF AgreementInv, JobsShowRow, ShowsRow, Exists
<1>6. EndedRowsGo' /\ PromisesKept'
  BY <1>1, <1>2 DEF AgreementInv, EndedRowsGo, PromisesKept, Exists
<1> QED
  BY <1>3, <1>4, <1>5, <1>6 DEF AgreementInv

LEMMA DeactivateAgrees ==
    ASSUME RegistryInv, AgreementInv, NEW s \in Sched, Deactivate(s)
    PROVE  AgreementInv'
<1> DEFINE row == [rows[s] EXCEPT !.active = FALSE]
<1>1. /\ Exists(s)
      /\ rows' = [rows EXCEPT ![s] = row]
      /\ ending' = [ending EXCEPT ![s] = @ \ {"deactivate"}]
      /\ UNCHANGED <<registry, strays, requests, told, now, up, clashed>>
  BY DEF Deactivate
<1>2. /\ row.state = rows[s].state /\ row.plan = rows[s].plan /\ row.end = rows[s].end
      /\ row.active = FALSE
  BY RowTypes DEF RegistryInv, TypeOK
<1> HIDE DEF row
<1>3. /\ rows'[s] = row /\ ending'[s] = ending[s] \ {"deactivate"}
      /\ \A t \in Sched \ {s} : rows'[t] = rows[t] /\ ending'[t] = ending[t]
  BY <1>1 DEF RegistryInv, TypeOK
<1>4. \A t \in Sched : /\ rows'[t].state = rows[t].state
                       /\ rows'[t].plan = rows[t].plan /\ rows'[t].end = rows[t].end
  BY <1>2, <1>3
<1>5. SoleCalls' /\ UntoldIds' /\ DropsAreQuiet'
  BY <1>1, <1>2, <1>3, <1>4
     DEF AgreementInv, SoleCalls, UntoldIds, DropsAreQuiet, InFlight
<1>6. CallsShowRow'
  <2>1. \A q \in Request : requests[q].pc \in {"schedule", "apply", "swap"} =>
            requests[q].sched \in Sched
    BY DEF RegistryInv, CallsInHand
  <2> QED
    BY <1>1, <1>4, <2>1 DEF AgreementInv, CallsShowRow, ShowsRow, Exists
<1>7. JobsShowRow'
  BY <1>1, <1>4 DEF AgreementInv, JobsShowRow, ShowsRow, Exists
<1>8. EndedRowsGo' /\ PromisesKept'
  BY <1>1, <1>2, <1>3 DEF AgreementInv, EndedRowsGo, PromisesKept, Exists
<1> QED
  BY <1>5, <1>6, <1>7, <1>8 DEF AgreementInv

LEMMA ProcessDiesAgrees ==
    ASSUME RegistryInv, AgreementInv, ProcessDies
    PROVE  AgreementInv'
<1>1. /\ \A s \in Sched : registry'[s] = NoJob /\ ending'[s] = {}
      /\ \A q \in Request : requests'[q].pc = "idle" /\ requests'[q].sched \notin Sched
      /\ ~up' /\ UNCHANGED <<rows, told, now>>
  BY SchedulerAssumption DEF ProcessDies, Idle
<1>2. SoleCalls' /\ UntoldIds' /\ DropsAreQuiet' /\ CallsShowRow'
  BY <1>1 DEF AgreementInv, SoleCalls, UntoldIds, DropsAreQuiet, InFlight, CallsShowRow
<1>3. JobsShowRow' /\ EndedRowsGo' /\ PromisesKept'
  BY <1>1 DEF JobsShowRow, EndedRowsGo, PromisesKept
<1> QED
  BY <1>2, <1>3 DEF AgreementInv

LEMMA BootAgrees ==
    ASSUME RegistryInv, AgreementInv, Boot
    PROVE  AgreementInv'
<1>1. /\ ~up /\ up' = TRUE
      /\ registry' = [s \in Sched |-> IF s \in Restored
                          THEN Job(rows[s].plan, rows[s].end) ELSE NoJob]
      /\ UNCHANGED <<rows, strays, requests, ending, told, now, clashed>>
  BY DEF Boot
<1>2. /\ \A q \in Request : requests[q].pc = "idle" /\ requests[q].sched \notin Sched
      /\ \A s \in Sched : ending[s] = {}
  BY <1>1, RequestTypes, SchedulerAssumption DEF RegistryInv, DownMeansEmpty
<1>3. \A s \in Restored : Exists(s) /\ s \in Sched
  BY DEF Restored
<1>4. \A s \in Restored :
          /\ registry'[s].plan = rows[s].plan /\ registry'[s].end = rows[s].end
          /\ registry'[s] # NoJob
  <2> SUFFICES ASSUME NEW s \in Restored
               PROVE  /\ registry'[s].plan = rows[s].plan
                      /\ registry'[s].end = rows[s].end
                      /\ registry'[s] # NoJob
    OBVIOUS
  <2>1. s \in Sched /\ rows[s] \in RowRecord /\ rows[s].plan \in Plan
    BY <1>3 DEF Exists, RegistryInv, TypeOK, UnusedIds
  <2>2. Job(rows[s].plan, rows[s].end) \in JobRecord
    BY <2>1, JobTypes DEF RowRecord
  <2>3. registry'[s] = Job(rows[s].plan, rows[s].end)
    BY <1>1, <2>1
  <2>4. registry'[s] # NoJob
    BY <2>2, <2>3, JobTypes
  <2> QED
    BY <2>3, <2>4 DEF Job
<1>5. \A s \in Sched : s \notin Restored => registry'[s] = NoJob
  BY <1>1
<1>6. SoleCalls' /\ UntoldIds' /\ CallsShowRow' /\ EndedRowsGo'
  BY <1>1, <1>2
     DEF AgreementInv, SoleCalls, UntoldIds, CallsShowRow, EndedRowsGo, Exists
<1>7. DropsAreQuiet'
  BY <1>1, <1>2, <1>3, <1>5 DEF AgreementInv, DropsAreQuiet, InFlight, Exists
<1>8. JobsShowRow'
  BY <1>1, <1>4, <1>5 DEF JobsShowRow, ShowsRow, Exists
<1>9. PromisesKept'
  <2> SUFFICES ASSUME NEW s \in Sched, Exists(s), rows[s].active, s \notin Restored,
                      rows[s].end # Never
               PROVE  rows[s].end <= now
    BY <1>1, <1>4 DEF PromisesKept, Exists
  <2>1. ~(rows[s].end > now)
    BY DEF Restored
  <2>2. rows[s].end \in Nat /\ now \in Nat
    BY SchedulerAssumption DEF RegistryInv, TypeOK, RowRecord, End, Time
  <2> QED
    BY <2>1, <2>2
<1> QED
  BY <1>6, <1>7, <1>8, <1>9 DEF AgreementInv

LEMMA RemoveScenarioAgrees ==
    ASSUME RegistryInv, AgreementInv, NEW S \in SUBSET Sched, RemoveScenario(S)
    PROVE  AgreementInv'
<1>1. /\ \A s \in S : Exists(s)
      /\ rows' = [s \in Sched |-> IF s \in S
                     THEN [rows[s] EXCEPT !.state = "cascaded"] ELSE rows[s]]
      /\ UNCHANGED <<registry, strays, requests, ending, told, now, up, clashed>>
  BY DEF RemoveScenario
<1>2. \A s \in Sched : IF s \in S THEN rows'[s].state = "cascaded" /\ rows[s].state = "row"
                       ELSE rows'[s] = rows[s]
  BY <1>1, RowTypes DEF RegistryInv, TypeOK, Exists
<1>3. SoleCalls' /\ UntoldIds' /\ DropsAreQuiet'
  BY <1>1, <1>2 DEF AgreementInv, SoleCalls, UntoldIds, DropsAreQuiet, InFlight
<1>4. CallsShowRow'
  BY <1>1, <1>2
     DEF AgreementInv, CallsShowRow, ShowsRow, Exists, RegistryInv, CallsInHand
<1>5. JobsShowRow'
  BY <1>1, <1>2 DEF AgreementInv, JobsShowRow, ShowsRow, Exists
<1>6. EndedRowsGo' /\ PromisesKept'
  BY <1>1, <1>2 DEF AgreementInv, EndedRowsGo, PromisesKept, Exists
<1> QED
  BY <1>3, <1>4, <1>5, <1>6 DEF AgreementInv

LEMMA TimePassesAgrees ==
    ASSUME RegistryInv, AgreementInv, TimePasses
    PROVE  AgreementInv'
<1>1. /\ UNCHANGED <<rows, registry, strays, requests, ending, told, up, clashed>>
      /\ now' = now + 1
  BY DEF TimePasses
<1>2. SoleCalls' /\ UntoldIds' /\ DropsAreQuiet' /\ CallsShowRow'
  BY <1>1 DEF AgreementInv, SoleCalls, UntoldIds, DropsAreQuiet, InFlight, CallsShowRow,
               ShowsRow, Exists
<1>3. JobsShowRow' /\ EndedRowsGo'
  BY <1>1 DEF AgreementInv, JobsShowRow, ShowsRow, EndedRowsGo, Exists
<1>4. PromisesKept'
  <2>1. \A s \in Sched : rows[s].end = Never \/ rows[s].end \in Nat
    BY SchedulerAssumption DEF RegistryInv, TypeOK, RowRecord, End, Time
  <2>2. now \in Nat
    BY SchedulerAssumption DEF RegistryInv, TypeOK, Time
  <2> QED
    BY <1>1, <2>1, <2>2 DEF AgreementInv, PromisesKept, Exists
<1> QED
  BY <1>2, <1>3, <1>4 DEF AgreementInv

LEMMA StutterAgrees ==
    ASSUME AgreementInv, UNCHANGED vars
    PROVE  AgreementInv'
<1>1. SoleCalls' /\ UntoldIds' /\ DropsAreQuiet' /\ CallsShowRow'
  BY DEF vars, AgreementInv, SoleCalls, UntoldIds, DropsAreQuiet, InFlight, CallsShowRow,
         ShowsRow, Exists
<1>2. JobsShowRow' /\ EndedRowsGo' /\ PromisesKept'
  BY DEF vars, AgreementInv, JobsShowRow, ShowsRow, EndedRowsGo, PromisesKept, Exists
<1> QED
  BY <1>1, <1>2 DEF AgreementInv

LEMMA ArrivalAgrees ==
    ASSUME RegistryInv, AgreementInv, NEW q \in Request, Arrive(q)
    PROVE  AgreementInv'
<1>1. ASSUME NEW p \in Plan, NEW e \in End, Create(q, p, e) PROVE AgreementInv'
  <2> DEFINE new == [Idle EXCEPT !.pc = "insert", !.plan = p, !.end = e]
  <2>1. new.pc = "insert" /\ new.sched = NoSched
    BY DEF Idle
  <2>2. Start(q, new)
    BY <1>1 DEF Create
  <2> HIDE DEF new
  <2> QED
    BY <2>1, <2>2, ArriveAgrees
<1>2. ASSUME NEW s \in Sched, NEW p \in Plan, NEW e \in End \cup {Keep},
             UpdateScheduler(q, s, p, e)
      PROVE  AgreementInv'
  <2> DEFINE new == [pc |-> "write", sched |-> s, plan |-> p, end |-> e]
  <2>1. new.pc = "write" /\ new.sched = s
    OBVIOUS
  <2>2. Start(q, new) /\ Exists(s)
    BY <1>2 DEF UpdateScheduler
  <2> HIDE DEF new
  <2> QED
    BY <2>1, <2>2, ArriveAgrees
<1>3. ASSUME NEW s \in Sched, DeleteScheduler(q, s) PROVE AgreementInv'
  <2> DEFINE new == [Idle EXCEPT !.pc = "unschedule", !.sched = s]
  <2>1. new.pc = "unschedule" /\ new.sched = s
    BY DEF Idle
  <2>2. Start(q, new) /\ Exists(s)
    BY <1>3 DEF DeleteScheduler
  <2> HIDE DEF new
  <2> QED
    BY <2>1, <2>2, ArriveAgrees
<1> QED
  BY <1>1, <1>2, <1>3 DEF Arrive

LEMMA AdvanceAgrees ==
    ASSUME RegistryInv, AgreementInv, NEW q \in Request, Advance(q)
    PROVE  AgreementInv'
<1> DEFINE s == requests[q].sched
<1>1. requests[q].pc \notin {"idle", "insert"} => s \in Sched
  BY DEF RegistryInv, CallsInHand
<1>2. CASE ScheduleJob(q)
  <2>1. registry[s] = NoJob /\ s \in Sched
    BY <1>1, <1>2 DEF ScheduleJob, RegistryInv, FirstJobIsFree
  <2>2. CASE Fail(q, s) /\ UNCHANGED registry
    BY <1>2, <2>2, FailAgrees DEF ScheduleJob
  <2>3. CASE /\ registry' = [registry EXCEPT ![s] = Job(requests[q].plan, requests[q].end)]
             /\ Succeed(q, s, "created")
    BY <1>2, <2>1, <2>3, JobAgrees DEF ScheduleJob, Promise
  <2> QED
    BY <1>2, <2>2, <2>3 DEF ScheduleJob
<1>3. CASE ApplyUpdate(q)
  <2>1. CASE registry[s] # NoJob /\ Stop(s) /\ Goto(q, "swap") /\ UNCHANGED told
    BY <1>1, <1>3, <2>1, GoesOnAgrees DEF ApplyUpdate
  <2>2. CASE registry[s] = NoJob /\ Fail(q, s) /\ UNCHANGED registry
    BY <1>1, <1>3, <2>2, FailAgrees DEF ApplyUpdate
  <2> QED
    BY <1>3, <2>1, <2>2 DEF ApplyUpdate
<1>4. CASE SwapJob(q)
  <2>1. CASE registry[s] = NoJob /\ Fail(q, s) /\ UNCHANGED registry
    BY <1>1, <1>4, <2>1, FailAgrees DEF SwapJob
  <2>2. CASE Unregister(s) /\ Fail(q, s)
    <3>1. registry'[s] = NoJob
      BY <1>1, <1>4, <2>2 DEF SwapJob, Unregister, RegistryInv, TypeOK
    <3> QED
      BY <1>1, <1>4, <2>2, <3>1, FailAgrees DEF SwapJob, Unregister
  <2>3. CASE /\ registry' = [registry EXCEPT ![s] = Job(requests[q].plan, requests[q].end)]
             /\ Succeed(q, s, "updated")
    BY <1>1, <1>4, <2>3, JobAgrees DEF SwapJob, Promise
  <2> QED
    BY <1>4, <2>1, <2>2, <2>3 DEF SwapJob
<1>5. CASE Unschedule(q)
  <2>1. CASE registry[s] # NoJob /\ Stop(s) /\ Goto(q, "unregister")
    BY <1>1, <1>5, <2>1, GoesOnAgrees DEF Unschedule
  <2>2. CASE registry[s] = NoJob /\ Goto(q, "drop") /\ UNCHANGED registry
    BY <1>1, <1>5, <2>2, GoesOnAgrees DEF Unschedule
  <2> QED
    BY <1>5, <2>1, <2>2 DEF Unschedule
<1>6. CASE UnregisterDeleted(q)
  <2>1. registry'[s] = NoJob
    BY <1>1, <1>6 DEF UnregisterDeleted, Unregister, RegistryInv, TypeOK
  <2> QED
    BY <1>1, <1>6, <2>1, GoesOnAgrees DEF UnregisterDeleted
<1>7. CASE CallThrows(q)
  BY <1>7, FailAgrees DEF CallThrows
<1> QED
  BY <1>2, <1>3, <1>4, <1>5, <1>6, <1>7, InsertAgrees, WriteAgrees, DropAgrees DEF Advance

LEMMA StepAgrees == RegistryInv /\ AgreementInv /\ [Next]_vars => AgreementInv'
<1> SUFFICES ASSUME RegistryInv, AgreementInv, [Next]_vars PROVE AgreementInv'
  OBVIOUS
<1>1. ASSUME NEW s \in Sched, TickSteps(s) PROVE AgreementInv'
  BY <1>1, EndedTickAgrees, UnregisterEndedAgrees, DeactivateAgrees, ProcessDiesAgrees
     DEF TickSteps, DeactivateFails
<1>2. CASE Crash
  BY <1>2, ProcessDiesAgrees DEF Crash
<1> QED
  BY <1>1, <1>2, ArrivalAgrees, AdvanceAgrees, BootAgrees, RemoveScenarioAgrees,
     TimePassesAgrees, StutterAgrees DEF Next

-----------------------------------------------------------------------------
(* The calls, the ticks and the restarts of any number of schedulers keep  *)
(* the registry in order: the invariant holds of every reachable state.    *)
THEOREM RegistryCorrect == Spec => []RegistryInv
<1>1. Init => RegistryInv
  BY InitInv
<1>2. RegistryInv /\ [Next]_vars => RegistryInv'
  BY StepInv
<1> QED
  BY <1>1, <1>2, PTL DEF Spec

(* Every variable keeps its type. *)
THEOREM SchedulerTypes == Spec => []TypeOK
<1>1. RegistryInv => TypeOK
  BY DEF RegistryInv
<1> QED
  BY <1>1, RegistryCorrect, PTL

(* No cron job ever runs that the registry does not know. *)
THEOREM NoStrayJobs == Spec => []NoStrays
<1>1. RegistryInv => NoStrays
  BY DEF RegistryInv
<1> QED
  BY <1>1, RegistryCorrect, PTL

(* A stopped job is always about to be replaced or removed. *)
THEOREM StoppedJobsGo == Spec => []StoppedMeansBusy
<1>1. RegistryInv => StoppedMeansBusy
  BY DEF RegistryInv
<1> QED
  BY <1>1, RegistryCorrect, PTL

(* Calls, jobs, rows and answers agree in every reachable state. *)
THEOREM SchedulerCorrect == Spec => []SchedulerInv
<1>1. Init => SchedulerInv
  BY InitInv, InitAgrees DEF SchedulerInv
<1>2. SchedulerInv /\ [Next]_vars => SchedulerInv'
  BY StepInv, StepAgrees DEF SchedulerInv
<1> QED
  BY <1>1, <1>2, PTL DEF Spec

(* A deleted scheduler has no job and gets none, unless calls on it clash. *)
THEOREM DeletedAreQuiet == Spec => []DeletedStaysQuiet
<1>1. SchedulerInv => DeletedStaysQuiet
  BY DEF SchedulerInv, AgreementInv, DropsAreQuiet, DeletedStaysQuiet
<1> QED
  BY <1>1, SchedulerCorrect, PTL

(* A job runs by the plan and the end of its row, unless calls clash.      *)
THEOREM JobsFollowRows == Spec => []JobFollowsRow
<1>1. SchedulerInv => JobFollowsRow
  <2> SUFFICES ASSUME SchedulerInv, NEW s \in Sched \ clashed,
                      Exists(s), Quiet(s), registry[s] # NoJob
               PROVE  ShowsRow(s, registry[s])
    BY DEF JobFollowsRow, FollowsRow, ShowsRow
  <2> QED
    BY DEF SchedulerInv, AgreementInv, JobsShowRow, Quiet, InFlight
<1> QED
  BY <1>1, SchedulerCorrect, PTL

(* A promised scheduler whose timeEnd is still to come has its job, also   *)
(* when calls on it clash and after every restart.                         *)
THEOREM DatedSchedulersHaveJobs == Spec => []DatedSchedulersRun
<1>1. SchedulerInv => DatedSchedulersRun
  <2> SUFFICES ASSUME SchedulerInv, NEW s \in Sched, Due(s),
                      rows[s].end # Never, rows[s].end > now, registry[s] = NoJob
               PROVE  FALSE
    BY DEF DatedSchedulersRun
  <2>1. rows[s].end \in Nat /\ now \in Nat
    BY SchedulerAssumption DEF SchedulerInv, RegistryInv, TypeOK, RowRecord, End, Time
  <2>2. /\ up /\ told[s] \in Promise /\ Exists(s) /\ rows[s].active
        /\ ending[s] = {}
        /\ \A q \in Request : requests[q].sched # s
    BY DEF Due, Quiet, InFlight
  <2> QED
    BY <2>1, <2>2 DEF SchedulerInv, AgreementInv, PromisesKept
<1> QED
  BY <1>1, SchedulerCorrect, PTL

=============================================================================
