------------------------ MODULE ScenarioFlowsProofs ------------------------
(***************************************************************************)
(* Proofs about ScenarioFlows, for any sets of flows, steps and calls.     *)
(* FlowsInv is inductive: an update that has seen no other in flight has   *)
(* none beside it, so nobody deletes a flow it has read before it does so  *)
(* itself, in the statement that ends its writing.                         *)
(***************************************************************************)
EXTENDS ScenarioFlows, FiniteSetTheorems, TLAPS

(* What Put stores is the record it was given or an idle call. *)
LEMMA PutCall ==
    ASSUME TypeOK, NEW c \in Call, NEW r \in CallRecord, Put(c, r)
    PROVE  /\ calls' \in [Call -> CallRecord]
           /\ calls'[c] \in {r, Idle}
           /\ \A d \in Call \ {c} : calls'[d] = calls[d]
<1>1. Idle \in CallRecord
  BY FlowsAssumption DEF Idle, CallRecord, Nothing, Asked, Pc
<1> QED
  BY <1>1 DEF Put, TypeOK

(* A step of one call that stays in its place or is over, and at most adds *)
(* to the flows.                                                           *)
LEMMA QuietStepInv ==
    ASSUME FlowsInv, NEW c \in Call, NEW r \in CallRecord, Put(c, r),
           Active(c), r.sole = calls[c].sole,
           r.pc # "write" => r.todo = {} /\ ~(r.open > 0) /\ ~r.failed,
           r.pc = "write" => \/ r.seenFlows = flows
                             \/ Writing(c) /\ r.seenFlows = calls[c].seenFlows,
           scenario' = scenario,
           flows \subseteq flows', flows' \subseteq Flow,
           steps' \subseteq StepsOf(flows')
    PROVE  FlowsInv'
<1>1. /\ calls' \in [Call -> CallRecord]
      /\ calls'[c] \in {r, Idle}
      /\ \A d \in Call \ {c} : calls'[d] = calls[d]
  BY PutCall DEF FlowsInv
<1>2. Idle.pc = "idle" /\ ~Idle.sole /\ Idle.todo = {} /\ ~(Idle.open > 0) /\ ~Idle.failed
  BY DEF Idle
<1>3. TypeOK'
  BY <1>1 DEF TypeOK, FlowsInv
<1>4. SoleIsAlone'
  BY <1>1, <1>2 DEF SoleIsAlone, Active, FlowsInv
<1>5. WritesAreAwaited'
  BY <1>1, <1>2 DEF WritesAreAwaited, Writing, FlowsInv
<1>6. FlowsAreKept'
  BY <1>1, <1>2 DEF FlowsAreKept, WritesAreAwaited, Writing, FlowsInv
<1> QED
  BY <1>3, <1>4, <1>5, <1>6 DEF FlowsInv

(* A call that ends without a statement, alone or with all the others. *)
LEMMA EndInv ==
    ASSUME FlowsInv, calls' \in [Call -> CallRecord],
           \A c \in Call : calls'[c] \in {calls[c], Idle},
           UNCHANGED <<scenario, flows, steps>>
    PROVE  FlowsInv'
<1>1. Idle.pc = "idle" /\ ~Idle.sole /\ Idle.todo = {} /\ ~(Idle.open > 0) /\ ~Idle.failed
  BY DEF Idle
<1>2. TypeOK'
  BY DEF FlowsInv, TypeOK
<1>3. SoleIsAlone'
  BY <1>1 DEF FlowsInv, SoleIsAlone, Active
<1>4. WritesAreAwaited' /\ FlowsAreKept'
  BY <1>1 DEF FlowsInv, WritesAreAwaited, FlowsAreKept, Writing
<1> QED
  BY <1>2, <1>3, <1>4 DEF FlowsInv

-----------------------------------------------------------------------------
LEMMA InitInv == Init => FlowsInv
<1> SUFFICES ASSUME Init PROVE FlowsInv
  OBVIOUS
<1>1. /\ Idle \in CallRecord
      /\ ~Idle.sole /\ Idle.todo = {} /\ ~(Idle.open > 0) /\ ~Idle.failed
  BY FlowsAssumption DEF Idle, CallRecord, Nothing, Asked, Pc
<1> QED
  BY <1>1 DEF Init, FlowsInv, TypeOK, SoleIsAlone, WritesAreAwaited, Writing, FlowsAreKept

LEMMA RemoveInv == ASSUME FlowsInv, RemoveScenario PROVE FlowsInv'
BY DEF RemoveScenario, FlowsInv, TypeOK, SoleIsAlone, Active, WritesAreAwaited, Writing,
       FlowsAreKept

LEMMA UpdateScenarioInv ==
    ASSUME FlowsInv, NEW c \in Call, UpdateScenario(c)
    PROVE  FlowsInv'
<1>1. PICK asked \in Asked : Begin(c, asked)
  <2>1. PICK F \in SUBSET flows, G \in SUBSET flows, n \in 0..MaxNew :
          \E S \in SUBSET (steps \cap StepsOf(F)) :
             Begin(c, [flows |-> F, steps |-> S, grow |-> G, new |-> n])
    BY DEF UpdateScenario
  <2>2. PICK S \in SUBSET (steps \cap StepsOf(F)) :
           Begin(c, [flows |-> F, steps |-> S, grow |-> G, new |-> n])
    BY <2>1
  <2>3. [flows |-> F, steps |-> S, grow |-> G, new |-> n] \in Asked
    BY DEF Asked, FlowsInv, TypeOK, StepsOf, Step
  <2> QED
    BY <2>2, <2>3
<1> DEFINE alone == \A e \in Call : ~Active(e)
           new == [Idle EXCEPT !.pc = "read", !.asked = asked, !.sole = alone]
<1>3. UNCHANGED <<scenario, flows, steps>>
  BY DEF UpdateScenario
<1>5. alone \in BOOLEAN
  BY DEF Active
<1>6. /\ new \in CallRecord /\ new.pc = "read" /\ new.sole = alone
      /\ new.todo = {} /\ ~(new.open > 0) /\ ~new.failed
      /\ calls'[c] = new
      /\ \A d \in Call \ {c} : calls'[d] = [calls[d] EXCEPT !.sole = FALSE]
  <2> HIDE DEF alone
  <2>1. new \in CallRecord /\ new.pc = "read" /\ new.sole = alone
    <3>1. Idle \in CallRecord
      BY FlowsAssumption DEF Idle, CallRecord, Nothing, Asked, Pc
    <3>2. \A i \in CallRecord, b \in BOOLEAN, a \in Asked :
             LET j == [i EXCEPT !.pc = "read", !.asked = a, !.sole = b]
             IN  j \in CallRecord /\ j.pc = "read" /\ j.sole = b
      BY DEF CallRecord, Pc
    <3> QED
      BY <1>5, <3>1, <3>2
  <2>1a. new.todo = {} /\ ~(new.open > 0) /\ ~new.failed
    BY DEF Idle
  <2>2. calls'[c] = new /\ \A d \in Call \ {c} : calls'[d] = [calls[d] EXCEPT !.sole = FALSE]
    BY <1>1 DEF Begin, alone
  <2> QED
    BY <2>1, <2>1a, <2>2
<1> HIDE DEF new
<1>7. \A d \in Call \ {c} :
        /\ calls'[d] \in CallRecord /\ ~calls'[d].sole
        /\ calls'[d].pc = calls[d].pc /\ calls'[d].todo = calls[d].todo
        /\ calls'[d].open = calls[d].open /\ calls'[d].failed = calls[d].failed
  <2>1. \A i \in CallRecord : [i EXCEPT !.sole = FALSE] \in CallRecord
    BY DEF CallRecord
  <2>2. \A i \in CallRecord : /\ ~[i EXCEPT !.sole = FALSE].sole
                              /\ [i EXCEPT !.sole = FALSE].pc = i.pc
                              /\ [i EXCEPT !.sole = FALSE].todo = i.todo
                              /\ [i EXCEPT !.sole = FALSE].open = i.open
                              /\ [i EXCEPT !.sole = FALSE].failed = i.failed
    BY DEF CallRecord
  <2> TAKE d \in Call \ {c}
  <2>3. calls[d] \in CallRecord
    BY DEF FlowsInv, TypeOK
  <2>4. calls'[d] = [calls[d] EXCEPT !.sole = FALSE]
    BY <1>6
  <2> QED
    BY <2>1, <2>2, <2>3, <2>4, Zenon
<1>8. calls' \in [Call -> CallRecord]
  <2>1. DOMAIN calls' = Call /\ calls' = [d \in Call |-> calls'[d]]
    BY <1>1 DEF Begin
  <2> QED
    BY <2>1, <1>6, <1>7
<1>9. TypeOK'
  BY <1>3, <1>8 DEF TypeOK, FlowsInv
<1>10. SoleIsAlone'
  BY <1>6, <1>7 DEF SoleIsAlone, Active
<1>11. WritesAreAwaited'
  <2>1. ~Writing(c)'
    BY <1>6 DEF Writing
  <2> QED
    BY <1>7, <2>1 DEF WritesAreAwaited, Writing, FlowsInv
<1>12. FlowsAreKept'
  <2>1. ~Writing(c)'
    BY <1>6 DEF Writing
  <2> QED
    BY <1>7, <2>1 DEF FlowsAreKept
<1> QED
  BY <1>9, <1>10, <1>11, <1>12 DEF FlowsInv

LEMMA ReadFlowsInv ==
    ASSUME FlowsInv, NEW c \in Call, ReadFlows(c)
    PROVE  FlowsInv'
<1> DEFINE r == [calls[c] EXCEPT !.pc = "write", !.seenFlows = flows, !.seenSteps = steps,
                    !.todo = calls[c].asked.flows, !.open = calls[c].asked.new]
<1>1. /\ r \in CallRecord /\ r.sole = calls[c].sole /\ r.seenFlows = flows
      /\ r.pc = "write"
  BY DEF FlowsInv, TypeOK, CallRecord, Asked, Pc, StepsOf, Step
<1>2. Put(c, r) /\ Active(c) /\ UNCHANGED <<scenario, flows, steps>>
  BY DEF ReadFlows, Active
<1> HIDE DEF r
<1> QED
  BY <1>1, <1>2, QuietStepInv DEF FlowsInv, TypeOK

LEMMA UpdateFlowInv ==
    ASSUME FlowsInv, NEW c \in Call, NEW f \in Flow, UpdateFlow(c, f)
    PROVE  FlowsInv'
<1> DEFINE r == [calls[c] EXCEPT !.todo = @ \ {f}]
<1>1. /\ r \in CallRecord /\ r.sole = calls[c].sole
      /\ r.seenFlows = calls[c].seenFlows /\ r.pc = calls[c].pc
  BY DEF FlowsInv, TypeOK, CallRecord
<1>2. /\ Put(c, r) /\ calls[c].pc = "write" /\ Writing(c) /\ f \in flows
      /\ UNCHANGED <<scenario, flows>>
  BY DEF UpdateFlow, Writing
<1>3. steps' \subseteq StepsOf(flows')
  <2>1. PICK A \in SUBSET NewStep(f) : steps' = (steps \ Unasked(calls[c], f)) \cup A
    BY DEF UpdateFlow
  <2>2. A \subseteq StepsOf(flows)
    BY <1>2 DEF NewStep, StepsOf
  <2> QED
    BY <1>2, <2>1, <2>2 DEF FlowsInv, TypeOK
<1> HIDE DEF r
<1> QED
  BY <1>1, <1>2, <1>3, QuietStepInv DEF FlowsInv, TypeOK, Active

LEMMA UpdateFlowFailsInv ==
    ASSUME FlowsInv, NEW c \in Call, NEW f \in Flow, UpdateFlowFails(c, f)
    PROVE  FlowsInv'
<1> DEFINE r == [calls[c] EXCEPT !.todo = @ \ {f}, !.failed = TRUE]
<1>1. /\ r \in CallRecord /\ r.sole = calls[c].sole
      /\ r.seenFlows = calls[c].seenFlows /\ r.pc = calls[c].pc
  BY DEF FlowsInv, TypeOK, CallRecord
<1>2. /\ Put(c, r) /\ calls[c].pc = "write" /\ Writing(c)
      /\ UNCHANGED <<scenario, flows, steps>>
  BY DEF UpdateFlowFails, Writing
<1> HIDE DEF r
<1> QED
  BY <1>1, <1>2, QuietStepInv DEF FlowsInv, TypeOK, Active

LEMMA CreateFlowInv ==
    ASSUME FlowsInv, NEW c \in Call, CreateFlow(c)
    PROVE  FlowsInv'
<1> DEFINE r == [calls[c] EXCEPT !.open = @ - 1]
<1>1. calls[c].open > 0 /\ calls[c].open \in 0..MaxNew
  BY DEF CreateFlow, FlowsInv, TypeOK, CallRecord
<1>2. /\ r \in CallRecord /\ r.sole = calls[c].sole
      /\ r.seenFlows = calls[c].seenFlows /\ r.pc = calls[c].pc
  <2>1. calls[c].open - 1 \in 0..MaxNew
    BY <1>1, FlowsAssumption
  <2> QED
    BY <2>1 DEF FlowsInv, TypeOK, CallRecord
<1>3. Put(c, r) /\ calls[c].pc = "write" /\ Writing(c) /\ UNCHANGED scenario
  BY DEF CreateFlow, Writing
<1>4. /\ flows \subseteq flows' /\ flows' \subseteq Flow
      /\ steps' \subseteq StepsOf(flows')
  <2>1. PICK f \in NewFlow : \E s \in NewStep(f) :
           flows' = flows \cup {f} /\ steps' = steps \cup {s}
    BY DEF CreateFlow
  <2>2. PICK s \in NewStep(f) : flows' = flows \cup {f} /\ steps' = steps \cup {s}
    BY <2>1
  <2> QED
    BY <2>1, <2>2 DEF NewFlow, NewStep, StepsOf, FlowsInv, TypeOK
<1> HIDE DEF r
<1> QED
  BY <1>2, <1>3, <1>4, QuietStepInv DEF Active

LEMMA CreateFlowFailsInv ==
    ASSUME FlowsInv, NEW c \in Call, CreateFlowFails(c)
    PROVE  FlowsInv'
<1> DEFINE r == [calls[c] EXCEPT !.open = @ - 1, !.failed = TRUE]
<1>1. calls[c].open > 0 /\ calls[c].open \in 0..MaxNew
  BY DEF CreateFlowFails, FlowsInv, TypeOK, CallRecord
<1>2. /\ r \in CallRecord /\ r.sole = calls[c].sole
      /\ r.seenFlows = calls[c].seenFlows /\ r.pc = calls[c].pc
  <2>1. calls[c].open - 1 \in 0..MaxNew
    BY <1>1, FlowsAssumption
  <2> QED
    BY <2>1 DEF FlowsInv, TypeOK, CallRecord
<1>3. /\ Put(c, r) /\ calls[c].pc = "write" /\ Writing(c)
      /\ UNCHANGED <<scenario, flows, steps>>
  BY DEF CreateFlowFails, Writing
<1> HIDE DEF r
<1> QED
  BY <1>2, <1>3, QuietStepInv DEF Active, FlowsInv, TypeOK

(* The one step that takes flows away: an update that is still sole has    *)
(* no other beside it.                                                     *)
LEMMA DeleteFlowsInv ==
    ASSUME FlowsInv, NEW c \in Call, DeleteFlows(c)
    PROVE  FlowsInv'
<1> DEFINE r == [calls[c] EXCEPT !.pc = "sweep"]
<1>1. /\ r \in CallRecord /\ r.sole = calls[c].sole /\ r.pc = "sweep"
      /\ r.todo = {} /\ ~(r.open > 0) /\ ~r.failed
  BY DEF DeleteFlows, Written, FlowsInv, TypeOK, CallRecord, Pc
<1>2. /\ Put(c, r) /\ calls[c].pc = "write"
      /\ flows' = flows \ Dropped(calls[c])
      /\ steps' = steps \ StepsOf(Dropped(calls[c]))
      /\ UNCHANGED scenario
  BY DEF DeleteFlows, Written
<1> HIDE DEF r
<1>3. /\ calls' \in [Call -> CallRecord]
      /\ calls'[c] \in {r, Idle}
      /\ \A d \in Call \ {c} : calls'[d] = calls[d]
  BY <1>1, <1>2, PutCall DEF FlowsInv
<1>4. Idle.pc = "idle" /\ ~Idle.sole /\ Idle.todo = {} /\ ~(Idle.open > 0) /\ ~Idle.failed
  BY DEF Idle
<1>5. TypeOK'
  BY <1>2, <1>3 DEF TypeOK, FlowsInv, StepsOf
<1>6. SoleIsAlone'
  BY <1>1, <1>2, <1>3, <1>4 DEF SoleIsAlone, Active, FlowsInv
<1>7. WritesAreAwaited'
  BY <1>1, <1>3, <1>4 DEF WritesAreAwaited, Writing, FlowsInv
<1>8. FlowsAreKept'
  BY <1>1, <1>2, <1>3, <1>4
     DEF FlowsAreKept, SoleIsAlone, Active, Writing, FlowsInv
<1> QED
  BY <1>5, <1>6, <1>7, <1>8 DEF FlowsInv

LEMMA DeleteStepsInv ==
    ASSUME FlowsInv, NEW c \in Call, DeleteSteps(c)
    PROVE  FlowsInv'
<1> DEFINE r == [calls[c] EXCEPT !.pc = "synced"]
<1>1. /\ r \in CallRecord /\ r.sole = calls[c].sole /\ r.pc = "synced"
      /\ r.todo = {} /\ ~(r.open > 0) /\ ~r.failed
  BY DEF DeleteSteps, FlowsInv, WritesAreAwaited, Writing, TypeOK, CallRecord, Pc
<1>2. /\ Put(c, r) /\ calls[c].pc = "sweep" /\ steps' \subseteq steps
      /\ UNCHANGED <<scenario, flows>>
  BY DEF DeleteSteps
<1> HIDE DEF r
<1> QED
  BY <1>1, <1>2, QuietStepInv DEF Active, FlowsInv, TypeOK

LEMMA LeaveInv ==
    ASSUME FlowsInv, NEW c \in Call, SyncFails(c) \/ AnswerUpdate(c)
    PROVE  FlowsInv'
<1>1. Idle \in CallRecord
  BY FlowsAssumption DEF Idle, CallRecord, Nothing, Asked, Pc
<1>2. calls' = [calls EXCEPT ![c] = Idle] /\ UNCHANGED <<scenario, flows, steps>>
  BY DEF SyncFails, AnswerUpdate
<1> QED
  BY <1>1, <1>2, EndInv DEF FlowsInv, TypeOK

LEMMA CrashInv == ASSUME FlowsInv, Crash PROVE FlowsInv'
<1>1. Idle \in CallRecord
  BY FlowsAssumption DEF Idle, CallRecord, Nothing, Asked, Pc
<1> QED
  BY <1>1, EndInv DEF Crash

-----------------------------------------------------------------------------
LEMMA NextInv == ASSUME FlowsInv, [Next]_vars PROVE FlowsInv'
<1>1. CASE UNCHANGED vars
  BY <1>1 DEF vars, FlowsInv, TypeOK, SoleIsAlone, Active, WritesAreAwaited, Writing,
       FlowsAreKept
<1>2. CASE RemoveScenario
  BY <1>2, RemoveInv
<1>3. CASE Crash
  BY <1>3, CrashInv
<1>4. ASSUME NEW c \in Call, CallNext(c) PROVE FlowsInv'
  BY <1>4, UpdateScenarioInv, ReadFlowsInv, UpdateFlowInv, UpdateFlowFailsInv,
     CreateFlowInv, CreateFlowFailsInv, DeleteFlowsInv, DeleteStepsInv, LeaveInv
     DEF CallNext
<1> QED
  BY <1>1, <1>2, <1>3, <1>4 DEF Next

-----------------------------------------------------------------------------
(* UpdateIsExact: what a lone update has done after each of its statements *)

(* No step is a step of two flows. *)
LEMMA StepsApart ==
    ASSUME NEW f, NEW g, NEW x, x \in StepsOf({f}), x \in StepsOf({g})
    PROVE  f = g
BY DEF StepsOf

(* The updates beside one that is at work were overlapped. *)
LEMMA StepExact ==
    ASSUME FlowsInv, ExactInv, NEW c \in Call, Active(c),
           \A d \in Call \ {c} : calls'[d] = calls[d],
           calls'[c].asked.steps \subseteq StepsOf(calls'[c].asked.flows),
           Exact(c)'
    PROVE  ExactInv'
<1>1. StepsHaveFlows'
  BY DEF ExactInv, StepsHaveFlows
<1>2. ASSUME NEW d \in Call, d # c PROVE Exact(d)'
  <2>1. ~calls'[d].sole
    BY <1>2 DEF FlowsInv, SoleIsAlone
  <2> QED
    BY <2>1 DEF Exact
<1> QED
  BY <1>1, <1>2 DEF ExactInv

(* A statement of an update: it is over, has failed, or has come to r. *)
LEMMA PutExact ==
    ASSUME FlowsInv, ExactInv, NEW c \in Call, NEW r \in CallRecord, Put(c, r),
           Active(c), r.asked = calls[c].asked,
           calls'[c] = r /\ ~r.failed => Exact(c)',
           r.failed => r.pc = "write"
    PROVE  ExactInv'
<1>1. /\ calls'[c] \in {r, Idle}
      /\ \A d \in Call \ {c} : calls'[d] = calls[d]
  BY PutCall DEF FlowsInv
<1>2. Idle.pc = "idle" /\ ~Idle.sole /\ Idle.asked.steps = {}
  BY DEF Idle, Nothing
<1>3. calls'[c].asked.steps \subseteq StepsOf(calls'[c].asked.flows)
  BY <1>1, <1>2 DEF ExactInv, StepsHaveFlows
<1>4. Exact(c)'
  <2>1. CASE calls'[c] = Idle
    BY <2>1, <1>2 DEF Exact
  <2>2. CASE calls'[c] = r /\ r.failed
    BY <2>2 DEF Exact
  <2> QED
    BY <1>1, <2>1, <2>2
<1> QED
  BY <1>1, <1>3, <1>4, StepExact

(* Calls that end, and a scenario that is gone. *)
LEMMA EndExact ==
    ASSUME FlowsInv, ExactInv,
           \A c \in Call : calls'[c] \in {calls[c], Idle},
           (UNCHANGED <<scenario, flows, steps>>) \/ ~scenario'
    PROVE  ExactInv'
<1>1. ~Idle.sole /\ Idle.asked.steps = {}
  BY DEF Idle, Nothing
<1>2. StepsHaveFlows'
  BY <1>1 DEF ExactInv, StepsHaveFlows
<1>3. ASSUME NEW c \in Call PROVE Exact(c)'
  <2>1. CASE calls'[c] = Idle \/ ~scenario'
    BY <2>1, <1>1 DEF Exact
  <2>2. CASE calls'[c] = calls[c] /\ UNCHANGED <<scenario, flows, steps>>
    <3>1. Exact(c)
      BY DEF ExactInv
    <3>2. Progress(calls[c], calls[c].todo, calls[c].open) =>
             Progress(calls[c], calls[c].todo, calls[c].open)'
      BY <2>2 DEF Progress, Unnamed, Due
    <3>3. AsAsked(calls[c]) => AsAsked(calls[c])'
      BY <2>2 DEF AsAsked, Unnamed, Due
    <3> QED
      BY <2>2, <3>1, <3>2, <3>3 DEF Exact, Dropped
  <2> QED
    BY <2>1, <2>2
<1> QED
  BY <1>2, <1>3 DEF ExactInv

LEMMA InitExact == Init => ExactInv
BY DEF Init, ExactInv, StepsHaveFlows, Exact, Idle, Nothing

LEMMA UpdateScenarioExact ==
    ASSUME FlowsInv, ExactInv, NEW c \in Call, UpdateScenario(c)
    PROVE  ExactInv'
<1>1. PICK F \in SUBSET flows, G \in SUBSET flows, n \in 0..MaxNew :
        \E S \in SUBSET (steps \cap StepsOf(F)) :
           Begin(c, [flows |-> F, steps |-> S, grow |-> G, new |-> n])
  BY DEF UpdateScenario
<1>2. PICK S \in SUBSET (steps \cap StepsOf(F)) :
         Begin(c, [flows |-> F, steps |-> S, grow |-> G, new |-> n])
  BY <1>1
<1> DEFINE asked == [flows |-> F, steps |-> S, grow |-> G, new |-> n]
           alone == \A e \in Call : ~Active(e)
<1>3. asked.steps \subseteq StepsOf(asked.flows)
  OBVIOUS
<1> HIDE DEF asked
<1>4. calls'[c] = [Idle EXCEPT !.pc = "read", !.asked = asked, !.sole = alone]
  BY <1>2 DEF Begin, asked
<1>5. calls'[c].pc = "read" /\ calls'[c].asked = asked
  <2> HIDE DEF alone
  <2> QED
    BY <1>4 DEF Idle
<1>6. ASSUME NEW d \in Call, d # c
      PROVE  ~calls'[d].sole /\ calls'[d].asked = calls[d].asked
  <2>1. calls'[d] = [calls[d] EXCEPT !.sole = FALSE] /\ calls[d] \in CallRecord
    BY <1>2, <1>6 DEF Begin, FlowsInv, TypeOK
  <2>2. \A i \in CallRecord : /\ ~[i EXCEPT !.sole = FALSE].sole
                              /\ [i EXCEPT !.sole = FALSE].asked = i.asked
    BY DEF CallRecord
  <2> QED
    BY <2>1, <2>2, Zenon
<1>7. StepsHaveFlows'
  BY <1>3, <1>5, <1>6 DEF ExactInv, StepsHaveFlows
<1>8. ASSUME NEW d \in Call PROVE Exact(d)'
  BY <1>5, <1>6 DEF Exact
<1> QED
  BY <1>7, <1>8 DEF ExactInv

LEMMA ReadFlowsExact ==
    ASSUME FlowsInv, ExactInv, NEW c \in Call, ReadFlows(c)
    PROVE  ExactInv'
<1> DEFINE r == [calls[c] EXCEPT !.pc = "write", !.seenFlows = flows, !.seenSteps = steps,
                    !.todo = calls[c].asked.flows, !.open = calls[c].asked.new]
<1>1. r \in CallRecord
  BY DEF FlowsInv, TypeOK, CallRecord, Asked, Pc, StepsOf, Step
<1>2. /\ r.asked = calls[c].asked /\ r.pc = "write"
      /\ r.seenFlows = flows /\ r.seenSteps = steps
      /\ r.todo = r.asked.flows /\ r.open = r.asked.new /\ r.asked.new \in Nat
  BY FlowsAssumption DEF FlowsInv, TypeOK, CallRecord, Asked
<1>3. Put(c, r) /\ Active(c) /\ UNCHANGED <<scenario, flows, steps>>
  BY DEF ReadFlows, Active
<1> HIDE DEF r
<1>4. ASSUME calls'[c] = r PROVE Exact(c)'
  <2>1. flows \ r.seenFlows = {} /\ IsFiniteSet({}) /\ Cardinality({}) = 0
    BY <1>2, FS_EmptySet
  <2>2. Progress(r, r.todo, r.open)
    BY <1>2, <2>1 DEF Progress
  <2>3. Progress(calls[c], calls[c].todo, calls[c].open)'
    BY <1>3, <1>4, <2>2 DEF Progress, Unnamed, Due
  <2> QED
    BY <1>2, <1>4, <2>3 DEF Exact
<1> QED
  BY <1>1, <1>2, <1>3, <1>4, PutExact

LEMMA UpdateFlowExact ==
    ASSUME FlowsInv, ExactInv, NEW c \in Call, NEW f \in Flow, UpdateFlow(c, f)
    PROVE  ExactInv'
<1> DEFINE o == calls[c]
           r == [o EXCEPT !.todo = @ \ {f}]
<1>1. r \in CallRecord
  BY DEF FlowsInv, TypeOK, CallRecord
<1>2. /\ r.asked = o.asked /\ r.pc = o.pc /\ r.sole = o.sole /\ r.failed = o.failed
      /\ r.seenFlows = o.seenFlows /\ r.seenSteps = o.seenSteps
      /\ r.todo = o.todo \ {f} /\ r.open = o.open
  BY DEF FlowsInv, TypeOK, CallRecord
<1>3. /\ Put(c, r) /\ Active(c) /\ o.pc = "write"
      /\ UNCHANGED <<scenario, flows>>
      /\ f \in o.todo /\ f \in o.seenFlows /\ f \in flows
      /\ o.asked.steps \cap StepsOf({f}) \subseteq steps
  BY DEF UpdateFlow, Active
<1>4. PICK A \in SUBSET NewStep(f) :
         /\ Cardinality(A) = IF f \in o.asked.grow THEN 1 ELSE 0
         /\ steps' = (steps \ Unasked(o, f)) \cup A
  BY DEF UpdateFlow
<1> HIDE DEF r
<1>5. ASSUME calls'[c] = r, scenario, o.sole, ~o.failed
      PROVE  Progress(calls[c], calls[c].todo, calls[c].open)'
  <2>1. Progress(o, o.todo, o.open)
    BY <1>3, <1>5 DEF ExactInv, Exact
  <2>2. f \in o.asked.flows
    BY <1>3, <2>1 DEF Progress
  <2>3. \A g : g # f => steps' \cap StepsOf({g}) = steps \cap StepsOf({g})
    BY <1>4, StepsApart DEF Unasked, NewStep
  <2>4. o.asked.steps \cap StepsOf({f}) \subseteq steps'
    BY <1>3, <1>4 DEF Unasked
  <2>5. (steps' \ o.asked.steps) \cap StepsOf({f}) = A
    <3>1. steps \cap StepsOf({f}) \subseteq o.seenSteps
      BY <1>3, <2>1 DEF Progress
    <3> QED
      BY <3>1, <1>4 DEF Unasked, NewStep
  <2>6. \A g \in flows \ (r.todo \cup (r.seenFlows \ r.asked.flows)) :
           Cardinality((steps' \ r.asked.steps) \cap StepsOf({g})) = Due(r, g)
    <3> SUFFICES ASSUME NEW g \in flows \ (r.todo \cup (r.seenFlows \ r.asked.flows))
                 PROVE  Cardinality((steps' \ r.asked.steps) \cap StepsOf({g})) = Due(r, g)
      OBVIOUS
    <3>1. CASE g = f
      BY <3>1, <1>2, <1>4, <2>2, <2>5 DEF Due
    <3>2. CASE g # f
      <4>1. (steps' \ r.asked.steps) \cap StepsOf({g}) = Unnamed(o, g)
        BY <3>2, <1>2, <2>3 DEF Unnamed
      <4>2. g \in flows \ (o.todo \cup (o.seenFlows \ o.asked.flows))
        BY <3>2, <1>2
      <4>3. Cardinality(Unnamed(o, g)) = Due(o, g)
        BY <4>2, <2>1 DEF Progress
      <4> QED
        BY <4>1, <4>3, <1>2 DEF Due
    <3> QED
      BY <3>1, <3>2
  <2>7. \A g \in r.todo : steps' \cap StepsOf({g}) \subseteq r.seenSteps
    BY <1>2, <2>1, <2>3 DEF Progress
  <2>8. \A g \in r.asked.flows \ r.todo : r.asked.steps \cap StepsOf({g}) \subseteq steps'
    BY <1>2, <2>1, <2>3, <2>4 DEF Progress
  <2>9. /\ r.seenFlows \subseteq flows /\ r.todo \subseteq r.asked.flows
        /\ r.asked.flows \ r.todo \subseteq r.seenFlows
        /\ (flows \ r.seenFlows) \cap r.asked.flows = {}
        /\ IsFiniteSet(flows \ r.seenFlows)
        /\ Cardinality(flows \ r.seenFlows) + r.open = r.asked.new
    BY <1>2, <1>3, <2>1 DEF Progress
  <2> QED
    BY <1>3, <1>5, <2>6, <2>7, <2>8, <2>9 DEF Progress, Unnamed, Due
<1>6. ASSUME calls'[c] = r, ~r.failed PROVE Exact(c)'
  BY <1>2, <1>3, <1>5, <1>6 DEF Exact
<1> QED
  BY <1>1, <1>2, <1>3, <1>6, PutExact

LEMMA UpdateFlowFailsExact ==
    ASSUME FlowsInv, ExactInv, NEW c \in Call, NEW f \in Flow, UpdateFlowFails(c, f)
    PROVE  ExactInv'
<1> DEFINE r == [calls[c] EXCEPT !.todo = @ \ {f}, !.failed = TRUE]
<1>1. r \in CallRecord /\ r.asked = calls[c].asked /\ r.failed /\ r.pc = calls[c].pc
  BY DEF FlowsInv, TypeOK, CallRecord
<1>2. Put(c, r) /\ calls[c].pc = "write" /\ Active(c)
  BY DEF UpdateFlowFails, Active
<1> HIDE DEF r
<1> QED
  BY <1>1, <1>2, PutExact

LEMMA CreateFlowExact ==
    ASSUME FlowsInv, ExactInv, NEW c \in Call, CreateFlow(c)
    PROVE  ExactInv'
<1> DEFINE o == calls[c]
           r == [o EXCEPT !.open = @ - 1]
<1>1. o.open \in 0..MaxNew /\ o.open > 0
  BY DEF CreateFlow, FlowsInv, TypeOK, CallRecord
<1>2. r \in CallRecord
  <2>1. o.open - 1 \in 0..MaxNew
    BY <1>1, FlowsAssumption
  <2> QED
    BY <2>1 DEF FlowsInv, TypeOK, CallRecord
<1>3. /\ r.asked = o.asked /\ r.pc = o.pc /\ r.sole = o.sole /\ r.failed = o.failed
      /\ r.seenFlows = o.seenFlows /\ r.seenSteps = o.seenSteps
      /\ r.todo = o.todo /\ r.open = o.open - 1
  BY DEF FlowsInv, TypeOK, CallRecord
<1>4. Put(c, r) /\ Active(c) /\ o.pc = "write" /\ UNCHANGED scenario
  BY DEF CreateFlow, Active
<1>5. PICK f \in NewFlow : \E s \in NewStep(f) :
         flows' = flows \cup {f} /\ steps' = steps \cup {s}
  BY DEF CreateFlow
<1>6. PICK s \in NewStep(f) : flows' = flows \cup {f} /\ steps' = steps \cup {s}
  BY <1>5
<1>7. /\ f \notin flows /\ f \notin o.asked.flows /\ f \notin o.seenFlows
      /\ s \in StepsOf({f}) /\ s \notin o.asked.steps
  BY <1>5, <1>6 DEF NewFlow, NewStep
<1> HIDE DEF r
<1>8. ASSUME calls'[c] = r, scenario, o.sole, ~o.failed
      PROVE  Progress(calls[c], calls[c].todo, calls[c].open)'
  <2>1. Progress(o, o.todo, o.open)
    BY <1>4, <1>8 DEF ExactInv, Exact
  <2>2. \A g : g # f => steps' \cap StepsOf({g}) = steps \cap StepsOf({g})
    BY <1>6, <1>7, StepsApart
  <2>3. (steps' \ o.asked.steps) \cap StepsOf({f}) = {s}
    <3>1. steps \cap StepsOf({f}) = {}
      BY <1>7 DEF FlowsInv, TypeOK, StepsOf
    <3> QED
      BY <3>1, <1>6, <1>7
  <2>4. /\ IsFiniteSet(flows' \ o.seenFlows)
        /\ Cardinality(flows' \ o.seenFlows) + (o.open - 1) = o.asked.new
    <3>1. flows' \ o.seenFlows = (flows \ o.seenFlows) \cup {f}
      BY <1>6, <1>7
    <3>2. /\ IsFiniteSet(flows \ o.seenFlows) /\ f \notin flows \ o.seenFlows
          /\ Cardinality(flows \ o.seenFlows) + o.open = o.asked.new
      BY <1>7, <2>1 DEF Progress
    <3>3. /\ IsFiniteSet((flows \ o.seenFlows) \cup {f})
          /\ Cardinality((flows \ o.seenFlows) \cup {f}) = Cardinality(flows \ o.seenFlows) + 1
      BY <3>2, FS_AddElement
    <3>4. Cardinality(flows \ o.seenFlows) \in Nat
      BY <3>2, FS_CardinalityType
    <3> DEFINE n == Cardinality(flows \ o.seenFlows)
               m == Cardinality(flows' \ o.seenFlows)
    <3>5. n \in Nat /\ m = n + 1 /\ n + o.open = o.asked.new /\ o.open \in Nat
      BY <3>1, <3>2, <3>3, <3>4, <1>1
    <3>6. m + (o.open - 1) = o.asked.new
      <4> HIDE DEF n, m
      <4> QED
        BY <3>5
    <3> QED
      BY <3>1, <3>3, <3>6
  <2>5. \A g \in flows' \ (r.todo \cup (r.seenFlows \ r.asked.flows)) :
           Cardinality((steps' \ r.asked.steps) \cap StepsOf({g})) = Due(r, g)
    <3> SUFFICES ASSUME NEW g \in flows' \ (r.todo \cup (r.seenFlows \ r.asked.flows))
                 PROVE  Cardinality((steps' \ r.asked.steps) \cap StepsOf({g})) = Due(r, g)
      OBVIOUS
    <3>1. CASE g = f
      <4>1. Cardinality({s}) = 1
        BY FS_Singleton
      <4> QED
        BY <3>1, <4>1, <1>3, <1>7, <2>3 DEF Due
    <3>2. CASE g # f
      <4>1. (steps' \ r.asked.steps) \cap StepsOf({g}) = Unnamed(o, g)
        BY <3>2, <1>3, <2>2 DEF Unnamed
      <4>2. g \in flows \ (o.todo \cup (o.seenFlows \ o.asked.flows))
        BY <3>2, <1>3, <1>6
      <4>3. Cardinality(Unnamed(o, g)) = Due(o, g)
        BY <4>2, <2>1 DEF Progress
      <4> QED
        BY <4>1, <4>3, <1>3 DEF Due
    <3> QED
      BY <3>1, <3>2
  <2>6. \A g \in r.todo : steps' \cap StepsOf({g}) \subseteq r.seenSteps
    BY <1>3, <1>7, <2>1, <2>2 DEF Progress
  <2>7. \A g \in r.asked.flows \ r.todo : r.asked.steps \cap StepsOf({g}) \subseteq steps'
    BY <1>3, <1>6, <2>1 DEF Progress
  <2>8. /\ r.seenFlows \subseteq flows' /\ r.todo \subseteq r.asked.flows
        /\ r.asked.flows \ r.todo \subseteq r.seenFlows
        /\ (flows' \ r.seenFlows) \cap r.asked.flows = {}
    BY <1>3, <1>6, <1>7, <2>1 DEF Progress
  <2>9. /\ IsFiniteSet(flows' \ r.seenFlows)
        /\ Cardinality(flows' \ r.seenFlows) + r.open = r.asked.new
    BY <1>3, <2>4
  <2> QED
    BY <1>8, <2>5, <2>6, <2>7, <2>8, <2>9 DEF Progress, Unnamed, Due
<1>9. ASSUME calls'[c] = r, ~r.failed PROVE Exact(c)'
  BY <1>3, <1>4, <1>8, <1>9 DEF Exact
<1> QED
  BY <1>2, <1>3, <1>4, <1>9, PutExact

LEMMA CreateFlowFailsExact ==
    ASSUME FlowsInv, ExactInv, NEW c \in Call, CreateFlowFails(c)
    PROVE  ExactInv'
<1> DEFINE r == [calls[c] EXCEPT !.open = @ - 1, !.failed = TRUE]
<1>1. r \in CallRecord /\ r.asked = calls[c].asked /\ r.failed /\ r.pc = calls[c].pc
  <2>1. calls[c].open - 1 \in 0..MaxNew
    BY FlowsAssumption DEF CreateFlowFails, FlowsInv, TypeOK, CallRecord
  <2> QED
    BY <2>1 DEF FlowsInv, TypeOK, CallRecord
<1>2. Put(c, r) /\ calls[c].pc = "write" /\ Active(c)
  BY DEF CreateFlowFails, Active
<1> HIDE DEF r
<1> QED
  BY <1>1, <1>2, PutExact

(* The deletes leave what was asked for: all that is named was seen, and   *)
(* what is new is neither.                                                 *)
LEMMA DeleteFlowsExact ==
    ASSUME FlowsInv, ExactInv, NEW c \in Call, DeleteFlows(c)
    PROVE  ExactInv'
<1> DEFINE o == calls[c]
           r == [o EXCEPT !.pc = "sweep"]
           D == Dropped(o)
<1>1. r \in CallRecord
  BY DEF FlowsInv, TypeOK, CallRecord, Pc
<1>2. /\ r.asked = o.asked /\ r.pc = "sweep" /\ r.sole = o.sole /\ ~r.failed
      /\ r.seenFlows = o.seenFlows
  BY DEF DeleteFlows, Written, FlowsInv, TypeOK, CallRecord
<1>3. /\ Put(c, r) /\ Active(c) /\ o.pc = "write" /\ o.todo = {} /\ o.open = 0 /\ ~o.failed
      /\ flows' = flows \ D /\ steps' = steps \ StepsOf(D)
      /\ UNCHANGED scenario
  BY DEF DeleteFlows, Written, Active
<1> HIDE DEF r
<1>4. ASSUME calls'[c] = r, scenario, o.sole PROVE AsAsked(calls[c])'
  <2>1. Progress(o, {}, 0)
    BY <1>3, <1>4 DEF ExactInv, Exact
  <2>2. o.asked.flows \subseteq flows'
    BY <1>3, <2>1 DEF Progress, Dropped
  <2>3. Cardinality(flows' \ o.asked.flows) = o.asked.new
    <3>1. flows' \ o.asked.flows = flows \ o.seenFlows
      BY <1>3, <2>1 DEF Progress, Dropped
    <3>2. Cardinality(flows \ o.seenFlows) \in Nat
      BY <2>1, FS_CardinalityType DEF Progress
    <3> QED
      BY <3>1, <3>2, <2>1 DEF Progress
  <2>4. o.asked.steps \subseteq steps'
    <3> SUFFICES ASSUME NEW x \in o.asked.steps PROVE x \in steps'
      OBVIOUS
    <3>1. PICK g \in o.asked.flows : x \in StepsOf({g})
      BY DEF ExactInv, StepsHaveFlows, StepsOf
    <3>2. x \in steps
      BY <3>1, <2>1 DEF Progress
    <3>3. x \notin StepsOf(D)
      BY <3>1 DEF Dropped, StepsOf
    <3> QED
      BY <3>2, <3>3, <1>3
  <2>5. ASSUME NEW g \in flows'
        PROVE  Cardinality((steps' \ o.asked.steps) \cap StepsOf({g})) = Due(o, g)
    <3>1. g \in flows /\ g \notin D
      BY <1>3
    <3>2. (steps' \ o.asked.steps) \cap StepsOf({g}) = Unnamed(o, g)
      BY <3>1, <1>3 DEF Unnamed, StepsOf
    <3>3. Cardinality(Unnamed(o, g)) = Due(o, g)
      BY <3>1, <2>1 DEF Progress, Dropped
    <3> QED
      BY <3>2, <3>3
  <2> QED
    BY <1>2, <1>4, <2>2, <2>3, <2>4, <2>5 DEF AsAsked, Unnamed, Due
<1>5. ASSUME calls'[c] = r PROVE Exact(c)'
  BY <1>2, <1>3, <1>4, <1>5 DEF Exact, Dropped
<1> QED
  BY <1>1, <1>2, <1>3, <1>5, PutExact

LEMMA DeleteStepsExact ==
    ASSUME FlowsInv, ExactInv, NEW c \in Call, DeleteSteps(c)
    PROVE  ExactInv'
<1> DEFINE o == calls[c]
           r == [o EXCEPT !.pc = "synced"]
<1>1. r \in CallRecord
  BY DEF FlowsInv, TypeOK, CallRecord, Pc
<1>2. /\ r.asked = o.asked /\ r.pc = "synced" /\ r.sole = o.sole /\ r.failed = o.failed
      /\ r.seenFlows = o.seenFlows
  BY DEF FlowsInv, TypeOK, CallRecord
<1>3. /\ Put(c, r) /\ Active(c) /\ o.pc = "sweep" /\ ~o.failed
      /\ steps' = steps \ (o.seenSteps \cap StepsOf(Dropped(o)))
      /\ UNCHANGED <<scenario, flows>>
  BY DEF DeleteSteps, Active, FlowsInv, WritesAreAwaited, Writing
<1> HIDE DEF r
<1>4. ASSUME calls'[c] = r PROVE Exact(c)'
  <2>1. ASSUME scenario, o.sole PROVE AsAsked(o) /\ Dropped(o) \cap flows = {} /\ steps' = steps
    <3>1. AsAsked(o) /\ Dropped(o) \cap flows = {}
      BY <1>3, <2>1 DEF ExactInv, Exact
    <3>2. steps' = steps
      BY <1>3, <3>1 DEF FlowsInv, TypeOK, StepsOf
    <3> QED
      BY <3>1, <3>2
  <2> QED
    BY <1>2, <1>3, <1>4, <2>1 DEF Exact, AsAsked, Dropped, Unnamed, Due
<1> QED
  BY <1>1, <1>2, <1>3, <1>4, PutExact

LEMMA NextExact == ASSUME FlowsInv, ExactInv, [Next]_vars PROVE ExactInv'
<1>1. CASE UNCHANGED vars
  BY <1>1 DEF vars, ExactInv, StepsHaveFlows, Exact, Progress, AsAsked, Dropped, Unnamed, Due
<1>2. CASE RemoveScenario
  BY <1>2, EndExact DEF RemoveScenario
<1>3. CASE Crash
  BY <1>3, EndExact DEF Crash
<1>4. ASSUME NEW c \in Call, SyncFails(c) \/ AnswerUpdate(c) PROVE ExactInv'
  BY <1>4, EndExact DEF SyncFails, AnswerUpdate, FlowsInv, TypeOK
<1>5. ASSUME NEW c \in Call, CallNext(c) PROVE ExactInv'
  BY <1>4, <1>5, UpdateScenarioExact, ReadFlowsExact, UpdateFlowExact, UpdateFlowFailsExact,
     CreateFlowExact, CreateFlowFailsExact, DeleteFlowsExact, DeleteStepsExact
     DEF CallNext
<1> QED
  BY <1>1, <1>2, <1>3, <1>5 DEF Next

-----------------------------------------------------------------------------
(* The inductive invariant of the updates holds in every reachable state,  *)
(* for any number of flows, steps and updates.                             *)
THEOREM FlowsCorrect == Spec => []FlowsInv
<1>1. Init => FlowsInv
  BY InitInv
<1>2. FlowsInv /\ [Next]_vars => FlowsInv'
  BY NextInv
<1> QED
  BY <1>1, <1>2, PTL DEF Spec

(* Tables and calls keep their types, and no step is left without a flow.  *)
THEOREM FlowTypes == Spec => []TypeOK
<1>1. FlowsInv => TypeOK
  BY DEF FlowsInv
<1> QED
  BY <1>1, FlowsCorrect, PTL

(* Until its last statement has succeeded, syncFlows has taken no flow     *)
(* from the scenario, as long as it is the only update.                    *)
THEOREM NothingLostEarly == Spec => []FlowsAreKept
<1>1. FlowsInv => FlowsAreKept
  BY DEF FlowsInv
<1> QED
  BY <1>1, FlowsCorrect, PTL

(* What lone updates have done after each of their statements is exact in  *)
(* every reachable state.                                                  *)
THEOREM UpdatesCorrect == Spec => []UpdatesInv
<1>1. Init => UpdatesInv
  BY InitInv, InitExact DEF UpdatesInv
<1>2. UpdatesInv /\ [Next]_vars => UpdatesInv'
  BY NextInv, NextExact DEF UpdatesInv
<1> QED
  BY <1>1, <1>2, PTL DEF Spec

(* An update that comes through alone leaves what it was asked for: the    *)
(* flows and steps it names, one step for each flow that was to grow, the  *)
(* new flows, and nothing else.                                            *)
THEOREM UpdatesAreExact == Spec => []UpdateIsExact
<1>1. UpdatesInv => UpdateIsExact
  BY DEF UpdatesInv, ExactInv, Exact, UpdateIsExact
<1> QED
  BY <1>1, UpdatesCorrect, PTL

(* However updates overlap, each deletes only flows it has seen and was    *)
(* not asked for.                                                          *)
THEOREM StrangersSurvive == Spec => OnlySeenFlowsGo
<1> DEFINE Seen == scenario' => \A f \in flows \ flows' : \E c \in Call :
                       f \in calls[c].seenFlows \ calls[c].asked.flows
<1>1. [Next]_vars => [Seen]_vars
  <2> SUFFICES ASSUME Next PROVE Seen
    OBVIOUS
  <2>1. CASE RemoveScenario
    BY <2>1 DEF RemoveScenario
  <2>2. CASE Crash
    BY <2>2 DEF Crash
  <2>3. ASSUME NEW c \in Call, CallNext(c) PROVE Seen
    <3>1. CASE DeleteFlows(c)
      BY <3>1 DEF DeleteFlows, Dropped
    <3>2. CASE CreateFlow(c)
      BY <3>2 DEF CreateFlow
    <3>3. ASSUME ~DeleteFlows(c), ~CreateFlow(c) PROVE flows' = flows
      BY <2>3, <3>3 DEF CallNext, UpdateScenario, ReadFlows, UpdateFlow, UpdateFlowFails,
         CreateFlowFails, DeleteSteps, SyncFails, AnswerUpdate
    <3> QED
      BY <3>1, <3>2, <3>3
  <2> QED
    BY <2>1, <2>2, <2>3 DEF Next
<1> QED
  BY <1>1, PTL DEF Spec, OnlySeenFlowsGo

=============================================================================
