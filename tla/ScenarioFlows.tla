--------------------------- MODULE ScenarioFlows ---------------------------
(***************************************************************************)
(* The flows and steps of one scenario of testify-server, and the updates  *)
(* that replace them: ScenarioRepository.syncFlows is a series of          *)
(* statements without a transaction.  ScenarioService.update runs findOne  *)
(* and updateMetadata beside it; they touch no flow and do not stop it, so *)
(* they decide what the user is told and are left out.                     *)
(*                                                                         *)
(* One statement of the database is one step, with the writes nested in    *)
(* it.  Scenarios do not share flows, so one is enough.  The columns of    *)
(* flows and steps are left out: what an update writes to them it writes   *)
(* in the same statement.                                                  *)
(***************************************************************************)
EXTENDS Naturals, FiniteSets

CONSTANTS
    Flow,    \* flow ids
    Serial,  \* tells the steps of a flow apart
    Call,    \* updates that can be in flight at once
    MaxNew   \* bound: flows and steps of kept flows without an id in one request

ASSUME FlowsAssumption == MaxNew \in Nat

(* A step never moves to another flow. *)
Step == Flow \X Serial

StepsOf(F) == F \X Serial

VARIABLES
    scenario,  \* is the row of the scenario there?
    flows,     \* the flow table
    steps,     \* the step table
    calls      \* the updates in flight

vars == <<scenario, flows, steps, calls>>

-----------------------------------------------------------------------------
(* A request names the flows and steps it keeps by their ids, the kept     *)
(* flows that get one step more, and how many flows come without an id.    *)
Asked == [flows : SUBSET Flow, steps : SUBSET Step, grow : SUBSET Flow,
          new : 0..MaxNew]

Nothing == [flows |-> {}, steps |-> {}, grow |-> {}, new |-> 0]

(* Where syncFlows is. *)
Pc == {"idle", "read", "write", "sweep", "synced"}

CallRecord ==
    [pc : Pc,
     asked : Asked,
     seenFlows : SUBSET Flow,    \* existingFlows ...
     seenSteps : SUBSET Step,    \* ... with their steps
     todo : SUBSET Flow,         \* update statements that have not answered
     open : 0..MaxNew,           \* create statements that have not answered
     failed : BOOLEAN,           \* has a statement of syncFlows failed?
     sole : BOOLEAN]             \* history: has no other update overlapped it?

Idle == [pc |-> "idle", asked |-> Nothing,
         seenFlows |-> {}, seenSteps |-> {}, todo |-> {}, open |-> 0,
         failed |-> FALSE, sole |-> FALSE]

TypeOK ==
    /\ scenario \in BOOLEAN
    /\ flows \subseteq Flow
    /\ steps \subseteq StepsOf(flows)
    /\ calls \in [Call -> CallRecord]

(* create is one statement with all its flows and steps. *)
Init ==
    /\ scenario = TRUE
    /\ flows \in SUBSET Flow
    /\ steps \in SUBSET StepsOf(flows)
    /\ calls = [c \in Call |-> Idle]

-----------------------------------------------------------------------------
(* The database takes the flows and their steps with the scenario. *)
RemoveScenario ==
    /\ scenario
    /\ scenario' = FALSE
    /\ flows' = {}
    /\ steps' = {}
    /\ UNCHANGED calls

-----------------------------------------------------------------------------
(* update *)

Active(c) == calls[c].pc # "idle"

(* A failed update is gone when its last statement has answered. *)
Put(c, r) ==
    calls' = [calls EXCEPT ![c] =
        IF r.failed /\ r.todo = {} /\ r.open = 0 THEN Idle ELSE r]

Begin(c, asked) ==
    calls' = [d \in Call |->
        IF d = c
        THEN [Idle EXCEPT !.pc = "read", !.asked = asked,
                          !.sole = \A e \in Call : ~Active(e)]
        ELSE [calls[d] EXCEPT !.sole = FALSE]]

(* The client knows the flows and steps of the tables; they may be gone    *)
(* when the update comes to read them.  A request without flows fails      *)
(* before the first statement and changes nothing here.                    *)
UpdateScenario(c) ==
    /\ ~Active(c)
    /\ \E F \in SUBSET flows, G \in SUBSET flows, n \in 0..MaxNew :
       \E S \in SUBSET (steps \cap StepsOf(F)) :
        /\ G \subseteq F
        /\ Cardinality(G) + n <= MaxNew
        /\ Begin(c, [flows |-> F, steps |-> S, grow |-> G, new |-> n])
    /\ UNCHANGED <<scenario, flows, steps>>

-----------------------------------------------------------------------------
(* syncFlows *)

(* The database never hands out an id twice.  One that no row and no call  *)
(* has is as good as new.                                                  *)
NewFlow == {f \in Flow \ flows :
               \A c \in Call : f \notin calls[c].asked.flows \cup calls[c].seenFlows}

NewStep(f) == {s \in StepsOf({f}) \ steps :
                  \A c \in Call : s \notin calls[c].asked.steps \cup calls[c].seenSteps}

(* findMany of the flows with their steps starts every statement. *)
ReadFlows(c) ==
    LET r == calls[c] IN
    /\ r.pc = "read"
    /\ Put(c, [r EXCEPT !.pc = "write", !.seenFlows = flows, !.seenSteps = steps,
                        !.todo = r.asked.flows, !.open = r.asked.new])
    /\ UNCHANGED <<scenario, flows, steps>>

(* The steps of f the update has seen and does not ask for. *)
Unasked(r, f) == (r.seenSteps \ r.asked.steps) \cap StepsOf({f})

(* Mutant: the update statement leaves the steps it was not asked for. *)
UpdateFlow_Keeps(c, f) ==
    LET r == calls[c] IN
    /\ r.pc = "write"
    /\ f \in r.todo \cap r.seenFlows \cap flows
    /\ r.asked.steps \cap StepsOf({f}) \subseteq steps
    /\ \E A \in SUBSET NewStep(f) :
        /\ Cardinality(A) = IF f \in r.asked.grow THEN 1 ELSE 0
        /\ steps' = steps \cup A
    /\ Put(c, [r EXCEPT !.todo = @ \ {f}])
    /\ UNCHANGED <<scenario, flows>>

(* A flow the snapshot does not know makes the callback throw before its   *)
(* statement.  The statement fails when the flow, a step to be updated or  *)
(* a step to be deleted is gone.                                           *)
UpdateFlow(c, f) ==
    LET r == calls[c] IN
    /\ r.pc = "write"
    /\ f \in r.todo \cap r.seenFlows \cap flows
    /\ (r.asked.steps \cap StepsOf({f})) \cup Unasked(r, f) \subseteq steps
    /\ \E A \in SUBSET NewStep(f) :
        /\ Cardinality(A) = IF f \in r.asked.grow THEN 1 ELSE 0
        /\ steps' = (steps \ Unasked(r, f)) \cup A
    /\ Put(c, [r EXCEPT !.todo = @ \ {f}])
    /\ UNCHANGED <<scenario, flows>>

UpdateFlowFails(c, f) ==
    LET r == calls[c] IN
    /\ r.pc = "write"
    /\ f \in r.todo
    /\ Put(c, [r EXCEPT !.todo = @ \ {f}, !.failed = TRUE])
    /\ UNCHANGED <<scenario, flows, steps>>

(* Bound: a new flow comes with one step. *)
CreateFlow(c) ==
    LET r == calls[c] IN
    /\ r.pc = "write"
    /\ r.open > 0
    /\ scenario
    /\ \E f \in NewFlow : \E s \in NewStep(f) :
        /\ flows' = flows \cup {f}
        /\ steps' = steps \cup {s}
    /\ Put(c, [r EXCEPT !.open = @ - 1])
    /\ UNCHANGED scenario

CreateFlowFails(c) ==
    LET r == calls[c] IN
    /\ r.pc = "write"
    /\ r.open > 0
    /\ Put(c, [r EXCEPT !.open = @ - 1, !.failed = TRUE])
    /\ UNCHANGED <<scenario, flows, steps>>

(* Mutant: the flows to delete are looked up when the others are written. *)
Dropped_Now(r) == flows \ r.asked.flows

(* The flows the update has seen and was not asked for. *)
Dropped(r) == r.seenFlows \ r.asked.flows

(* Mutant: the deletes do not wait for the other statements. *)
Written_Early(r) == r.pc = "write"

(* Promise.all lets the deletes begin when every statement has succeeded. *)
Written(r) == r.pc = "write" /\ r.todo = {} /\ r.open = 0 /\ ~r.failed

(* deleteMany; the database takes the steps with their flows. *)
DeleteFlows(c) ==
    LET r == calls[c] IN
    /\ Written(r)
    /\ flows' = flows \ Dropped(r)
    /\ steps' = steps \ StepsOf(Dropped(r))
    /\ Put(c, [r EXCEPT !.pc = "sweep"])
    /\ UNCHANGED scenario

DeleteSteps(c) ==
    LET r == calls[c] IN
    /\ r.pc = "sweep"
    /\ steps' = steps \ (r.seenSteps \cap StepsOf(Dropped(r)))
    /\ Put(c, [r EXCEPT !.pc = "synced"])
    /\ UNCHANGED <<scenario, flows>>

(* The read or one of the deletes of syncFlows fails. *)
SyncFails(c) ==
    /\ calls[c].pc \in {"read", "sweep"} \/ Written(calls[c])
    /\ calls' = [calls EXCEPT ![c] = Idle]
    /\ UNCHANGED <<scenario, flows, steps>>

(* The other two calls have answered, too. *)
AnswerUpdate(c) ==
    /\ calls[c].pc = "synced"
    /\ calls' = [calls EXCEPT ![c] = Idle]
    /\ UNCHANGED <<scenario, flows, steps>>

(* A restart ends every call, and nothing else is in memory. *)
Crash ==
    /\ \E c \in Call : Active(c)
    /\ calls' = [c \in Call |-> Idle]
    /\ UNCHANGED <<scenario, flows, steps>>

-----------------------------------------------------------------------------
CallNext(c) ==
    \/ UpdateScenario(c)
    \/ ReadFlows(c)
    \/ \E f \in Flow : UpdateFlow(c, f) \/ UpdateFlowFails(c, f)
    \/ CreateFlow(c) \/ CreateFlowFails(c)
    \/ DeleteFlows(c) \/ DeleteSteps(c) \/ SyncFails(c)
    \/ AnswerUpdate(c)

Next ==
    \/ RemoveScenario
    \/ \E c \in Call : CallNext(c)
    \/ Crash

Spec == Init /\ [][Next]_vars

-----------------------------------------------------------------------------
(* Properties *)

(* The steps of f that the update did not name. *)
Unnamed(r, f) == (steps \ r.asked.steps) \cap StepsOf({f})

(* How many of those its request leaves a flow with: one if it is new or   *)
(* was to grow.                                                            *)
Due(r, f) == IF f \in r.asked.flows \ r.asked.grow THEN 0 ELSE 1

AsAsked(r) ==
    /\ r.asked.flows \subseteq flows
    /\ Cardinality(flows \ r.asked.flows) = r.asked.new
    /\ r.asked.steps \subseteq steps
    /\ \A f \in flows : Cardinality(Unnamed(r, f)) = Due(r, f)

(* An update that no other update has overlapped and that has come through *)
(* leaves exactly the flows and steps it was asked for: kept ones, a step  *)
(* for every flow that was to grow and the new flows, and nothing else.    *)
UpdateIsExact ==
    \A c \in Call :
        scenario /\ calls[c].sole /\ calls[c].pc \in {"sweep", "synced"} =>
            AsAsked(calls[c])

(* Has a statement before the deletes still to answer, or failed? *)
Writing(c) == calls[c].todo # {} \/ calls[c].open > 0 \/ calls[c].failed

(* syncFlows deletes last.  As long as a statement is to come, and after   *)
(* one has failed, no flow is gone of those that an update found alone:    *)
(* neither a refused update nor a crash loses a flow, and a test that is   *)
(* started meanwhile finds one.                                            *)
FlowsAreKept ==
    \A c \in Call :
        scenario /\ calls[c].sole /\ Writing(c) =>
            calls[c].seenFlows \subseteq flows

(* However updates overlap, one never deletes a flow that another has      *)
(* created since it read the flows: a flow goes away because its scenario  *)
(* does or by an update that has seen it and was not asked for it.         *)
OnlySeenFlowsGo ==
    [][ scenario' =>
          \A f \in flows \ flows' : \E c \in Call :
              f \in calls[c].seenFlows \ calls[c].asked.flows ]_vars

-----------------------------------------------------------------------------
(* The inductive strengthening of FlowsAreKept. *)

(* No other update is in flight while one has not been overlapped. *)
SoleIsAlone ==
    \A c, d \in Call : calls[c].sole /\ Active(d) => d = c

(* The statements are under way while syncFlows waits for them. *)
WritesAreAwaited == \A c \in Call : Writing(c) => calls[c].pc = "write"

FlowsInv == TypeOK /\ SoleIsAlone /\ WritesAreAwaited /\ FlowsAreKept

(* The inductive strengthening of UpdateIsExact. *)

(* The steps of a request are steps of flows it names. *)
StepsHaveFlows == \A c \in Call : calls[c].asked.steps \subseteq StepsOf(calls[c].asked.flows)

(* What an update has come to when each statement but those of F and n     *)
(* creations have succeeded: nothing it has seen is gone, the other flows  *)
(* it names are as they should be, and what is new is its own.             *)
Progress(r, F, n) ==
    /\ r.seenFlows \subseteq flows
    /\ F \subseteq r.asked.flows
    /\ r.asked.flows \ F \subseteq r.seenFlows
    /\ (flows \ r.seenFlows) \cap r.asked.flows = {}
    /\ IsFiniteSet(flows \ r.seenFlows)
    /\ Cardinality(flows \ r.seenFlows) + n = r.asked.new
    /\ \A f \in F : steps \cap StepsOf({f}) \subseteq r.seenSteps
    /\ \A f \in r.asked.flows \ F : r.asked.steps \cap StepsOf({f}) \subseteq steps
    /\ \A f \in flows \ (F \cup (r.seenFlows \ r.asked.flows)) :
          Cardinality(Unnamed(r, f)) = Due(r, f)

(* A lone update that has not failed is as far as its statements, and the  *)
(* flows it has dropped do not come back to be swept.                      *)
Exact(c) ==
    LET r == calls[c] IN
    scenario /\ r.sole =>
        /\ r.pc = "write" /\ ~r.failed => Progress(r, r.todo, r.open)
        /\ r.pc \in {"sweep", "synced"} => AsAsked(r) /\ Dropped(r) \cap flows = {}

ExactInv == StepsHaveFlows /\ \A c \in Call : Exact(c)

UpdatesInv == FlowsInv /\ ExactInv

=============================================================================
