-------------------------- MODULE RunResultsProofs --------------------------
(* Proofs about RunResults, for every scenario, every number of virtual    *)
(* users and completions and every length of a run: the numbers stored are *)
(* final, announced runs have them, and the script shares its draws out as *)
(* the weights say.                                                        *)
EXTENDS RunResults, FiniteSetTheorems, WellFoundedInduction, TLAPS

-----------------------------------------------------------------------------
(* The inductive invariant.  Nothing that is stored or about to be stored  *)
(* looks beyond the clock, and no point is added behind it.                *)

PastDates ==
    /\ \A q \in points : q.at <= now
    /\ row.endAt <= now
    /\ \A c \in Completion : completion[c].to <= now

(* The points of a step inside an interval that was over at time t. *)
Final(ps, t, s, from, to, count) ==
    /\ from < to /\ to <= t
    /\ \E q \in ps : q.step = s /\ from < q.at /\ q.at < to
    /\ count = Cardinality({q \in ps : q.step = s /\ from < q.at /\ q.at < to})

FinalNumbers ==
    \A n \in metrics \cup row.numbers : Final(points, now, n.step, n.from, n.to, n.count)

FinalAnswers ==
    \A c \in Completion : \A g \in completion[c].got :
        /\ Final(points, now, g.step, completion[c].from, completion[c].to, g.count)
        /\ g.of # Whole => g.step = g.of

(* A completion asks for the steps of a version the scenario has had.  *)
AskedVersions ==
    version # 0 =>
        \A c \in Completion :
            \/ completion[c].asked = {}
            \/ \E p \in Version : p <= version /\ completion[c].asked = StepsOf(p)

(* What a completion has asked for is yet to be read, about to be stored   *)
(* or stored, unless its step is gone.                                     *)
StepIsKept(c, s) ==
    \/ s \in completion[c].todo
    \/ \E g \in completion[c].got : g.of = s
    \/ \E n \in metrics : n.by = c /\ n.step = s

RunIsKept(c) ==
    \/ Whole \in completion[c].todo
    \/ \E g \in completion[c].got : g.of = Whole
    \/ row.numbers # {}

NothingForgotten ==
    version # 0 =>
        \A c \in Completion :
            completion[c].pc \in {"measure", "announced"} =>
                /\ RunIsKept(c)
                /\ \A s \in completion[c].asked \cap StepsOf(version) : StepIsKept(c, s)

AnnouncedAreDone ==
    \A c \in Completion :
        completion[c].pc = "announced" =>
            completion[c].todo = {} /\ completion[c].got = {}

Types == TypeOK /\ IsFiniteSet(points)

IInv ==
    /\ Types /\ PastDates /\ FinalNumbers /\ FinalAnswers
    /\ AskedVersions /\ NothingForgotten /\ AnnouncedAreDone

-----------------------------------------------------------------------------
(* Dates, steps and records *)

LEMMA FloorIsEarlier ==
    ASSUME NEW t \in Nat
    PROVE  Floor(t) \in Nat /\ Floor(t) <= t
<1>1. Grain \in Nat \ {0}
  BY ResultsAssumption
<1>2. t % Grain \in 0..(Grain - 1)
  BY <1>1, SMT
<1>3. t % Grain <= t
  BY <1>1, SMTT(30)
<1>. QED
  BY <1>2, <1>3 DEF Floor

LEMMA MaxTimeIsNat == MaxTime \in Nat
  BY ResultsAssumption

LEMMA StepsAreSteps ==
    ASSUME NEW p \in 0..Len(Plans)
    PROVE  StepsOf(p) \subseteq Step
<1>1. Plans \in Seq(Seq(Flow))
  BY ResultsAssumption
<1>2. ASSUME NEW i \in DOMAIN Plans[p], NEW j \in DOMAIN Plans[p][i].steps, p # 0
      PROVE  Plans[p][i].steps[j] \in Step
  <2>1. Plans[p] \in Seq(Flow)
    BY <1>1, <1>2
  <2>2. Plans[p][i] \in Flow
    BY <2>1
  <2>3. Plans[p][i].steps \in Seq(Step)
    BY <2>2 DEF Flow
  <2>. QED
    BY <2>3
<1>. QED
  BY <1>2 DEF StepsOf

(* A step that is gone does not come back. *)
LEMMA StepsStayGone ==
    ASSUME NEW p \in Version, NEW q \in Version, NEW r \in Version, p <= q, q < r
    PROVE  StepsOf(p) \cap StepsOf(r) \subseteq StepsOf(q)
<1>1. CASE p = q
  BY <1>1
<1>2. CASE p < q
  BY <1>2, ResultsAssumption
<1>. QED
  BY <1>1, <1>2 DEF Version

LEMMA WaitingRecords ==
    ASSUME NEW pc \in Pc, NEW t \in 0..MaxTime, NEW asked \in SUBSET Step
    PROVE  Waiting(pc, t, asked) \in CompletionRecord
  BY ResultsAssumption DEF Waiting, CompletionRecord

(* A completion that has another record. *)
LEMMA PutRecord ==
    ASSUME TypeOK, NEW c \in Completion, NEW r \in CompletionRecord, Put(c, r)
    PROVE  /\ completion' \in [Completion -> CompletionRecord]
           /\ completion'[c] = r
           /\ \A d \in Completion \ {c} : completion'[d] = completion[d]
  BY DEF TypeOK, Put

(* A step of a completion is one of its own actions. *)
LEMMA CompletionCases ==
    ASSUME NEW c \in Completion, CompletionNext(c), NEW G,
           SaveEndAt(c) => G, FindRun(c) => G, Announce(c) => G,
           UnhandledRejection(c) => G,
           \A x \in completion[c].todo : GetMetrics(c, x) => G,
           \A g \in completion[c].got : StoreMetrics(c, g) => G,
           \A g \in completion[c].got : StoreRun(c, g) => G
    PROVE  G
  BY DEF CompletionNext

-----------------------------------------------------------------------------
(* Types *)

LEMMA InitTypes == Init => Types
<1>. SUFFICES ASSUME Init PROVE Types
  OBVIOUS
<1>1. Idle("off") \in CompletionRecord
  BY WaitingRecords, ResultsAssumption DEF Idle, Pc
<1>2. completion \in [Completion -> CompletionRecord]
  BY <1>1 DEF Init
<1>3. Len(Plans) \in Nat /\ Len(Plans) # 0
  BY ResultsAssumption
<1>4. user \in [User -> [rest : Seq(Step), wake : Nat]]
  BY DEF Init
<1>5. row \in RowRecord
  BY ResultsAssumption DEF Init, NoRow, RowRecord
<1>6. IsFiniteSet(points)
  BY FS_EmptySet DEF Init
<1>. QED
  BY <1>2, <1>3, <1>4, <1>5, <1>6, ResultsAssumption DEF Init, Types, TypeOK, Time

LEMMA RequestTypes ==
    ASSUME Types, NEW u \in User, NEW steps \in Seq(Step), Request(u, steps)
    PROVE  Types'
<1>. USE DEF Types
<1>1. steps # <<>> /\ Head(steps) \in Step /\ Tail(steps) \in Seq(Step)
  BY DEF Request
<1>2. now \in Time
  BY DEF TypeOK
<1>3. [user |-> u, step |-> Head(steps), at |-> now] \in Point
  BY <1>1, <1>2 DEF Point
<1>4. points' \subseteq Point
  BY <1>3 DEF Request, TypeOK
<1>5. IsFiniteSet(points')
  BY FS_AddElement DEF Request
<1>6. [rest |-> Tail(steps), wake |-> now + Pause] \in [rest : Seq(Step), wake : Nat]
  BY <1>1, <1>2, ResultsAssumption DEF Time
<1>7. user' \in [User -> [rest : Seq(Step), wake : Nat]]
  BY <1>6 DEF Request, TypeOK
<1>. QED
  BY <1>4, <1>5, <1>7 DEF Request, TypeOK, results

LEMMA CompletionTypes ==
    ASSUME Types, NEW c \in Completion, CompletionNext(c)
    PROVE  Types'
<1>. USE DEF Types
<1>1. completion[c] \in CompletionRecord /\ row \in RowRecord
  BY DEF TypeOK
<1>2. /\ completion[c].from \in 0..MaxTime /\ completion[c].to \in 0..MaxTime
      /\ completion[c].asked \in SUBSET Step
      /\ completion[c].todo \in SUBSET (Step \cup {Whole})
      /\ completion[c].got \in SUBSET [of : Step \cup {Whole}, step : Step, count : Nat]
  BY <1>1 DEF CompletionRecord
<1>3. /\ row.runAt \in 0..MaxTime /\ row.endAt \in 0..MaxTime
      /\ row.dated \in BOOLEAN /\ row.numbers \in SUBSET Number
  BY <1>1 DEF RowRecord
<1>4. ASSUME NEW r \in CompletionRecord, Put(c, r)
      PROVE  completion' \in [Completion -> CompletionRecord]
  BY <1>4 DEF TypeOK, Put
<1>5. \A pc \in Pc : Idle(pc) \in CompletionRecord
  BY WaitingRecords, ResultsAssumption DEF Idle
<1>7. ASSUME NEW g \in completion[c].got
      PROVE  NumberOf(c, g) \in Number
  BY <1>2 DEF NumberOf, Number
<1>8. ASSUME NEW g \in completion[c].got, Answered(c, g)
      PROVE  completion' \in [Completion -> CompletionRecord]
  <2>1. [pc |-> "measure", from |-> completion[c].from, to |-> completion[c].to,
         asked |-> completion[c].asked, todo |-> completion[c].todo,
         got |-> completion[c].got \ {g}] \in CompletionRecord
    BY <1>2 DEF CompletionRecord, Pc
  <2>. QED
    BY <2>1, <1>8, <1>4 DEF Answered, Goto
<1>9. CASE SaveEndAt(c)
  <2>1. row' \in RowRecord
    BY <1>9, <1>2, <1>3 DEF SaveEndAt, RowRecord
  <2>2. completion' \in [Completion -> CompletionRecord]
    BY <1>9, <1>4, <1>5 DEF SaveEndAt, Pc
  <2>. QED
    BY <2>1, <2>2, <1>9 DEF SaveEndAt, TypeOK, k6
<1>10. CASE FindRun(c)
  <2>1. StepsOf(version) \subseteq Step
    BY StepsAreSteps DEF TypeOK
  <2>2. [pc |-> "measure", from |-> row.runAt, to |-> row.endAt,
         asked |-> StepsOf(version), todo |-> StepsOf(version) \cup {Whole},
         got |-> {}] \in CompletionRecord
    BY <2>1, <1>3 DEF CompletionRecord, Pc
  <2>3. completion' \in [Completion -> CompletionRecord]
    BY <2>2, <1>10, <1>4 DEF FindRun
  <2>. QED
    BY <2>3, <1>10 DEF FindRun, TypeOK, k6
<1>11. CASE Announce(c)
  <2>1. Waiting("announced", 0, completion[c].asked) \in CompletionRecord
    BY WaitingRecords, <1>2, ResultsAssumption DEF Pc
  <2>2. completion' \in [Completion -> CompletionRecord]
    BY <2>1, <1>11, <1>4 DEF Announce
  <2>. QED
    BY <2>2, <1>11 DEF Announce, TypeOK, k6
<1>12. CASE UnhandledRejection(c)
  <2>1. completion' \in [Completion -> CompletionRecord]
    BY <1>12, <1>5 DEF UnhandledRejection, ProcessDies, TypeOK, Pc
  <2>. QED
    BY <2>1, <1>12 DEF UnhandledRejection, ProcessDies, TypeOK, k6
<1>13. ASSUME NEW x \in completion[c].todo, GetMetrics(c, x) PROVE Types'
  <2>1. PICK s \in Groups(x, completion[c].from, completion[c].to) :
            Goto(c, completion[c].todo \ {x}, completion[c].got \cup
                {[of |-> x, step |-> s, count |-> Cardinality(
                    Inside(s, completion[c].from, completion[c].to))]})
    BY <1>13 DEF GetMetrics
  <2>2. s \in Step
    BY DEF Groups
  <2>3. IsFiniteSet(Inside(s, completion[c].from, completion[c].to))
    BY FS_Subset DEF Inside
  <2>4. Cardinality(Inside(s, completion[c].from, completion[c].to)) \in Nat
    BY <2>3, FS_CardinalityType
  <2>5. x \in Step \cup {Whole}
    BY <1>2
  <2>6. [of |-> x, step |-> s, count |-> Cardinality(
            Inside(s, completion[c].from, completion[c].to))]
            \in [of : Step \cup {Whole}, step : Step, count : Nat]
    BY <2>2, <2>4, <2>5
  <2> DEFINE
        got == completion[c].got \cup
                {[of |-> x, step |-> s, count |-> Cardinality(
                    Inside(s, completion[c].from, completion[c].to))]}
        r == [pc |-> "measure", from |-> completion[c].from, to |-> completion[c].to,
              asked |-> completion[c].asked, todo |-> completion[c].todo \ {x},
              got |-> got]
  <2>7. got \in SUBSET [of : Step \cup {Whole}, step : Step, count : Nat]
    BY <1>2, <2>6
  <2>8. Put(c, r)
    BY <2>1 DEF Goto
  <2>. HIDE DEF got
  <2>9. r \in CompletionRecord
    BY <1>2, <2>7 DEF CompletionRecord, Pc
  <2>10. completion' \in [Completion -> CompletionRecord]
    BY <2>8, <2>9, <1>4
  <2>. QED
    BY <2>10, <1>13 DEF GetMetrics, TypeOK, k6
<1>14. ASSUME NEW g \in completion[c].got, StoreMetrics(c, g) PROVE Types'
  <2>1. metrics' \subseteq Number
    BY <1>14, <1>7 DEF StoreMetrics, TypeOK
  <2>2. completion' \in [Completion -> CompletionRecord]
    BY <1>14, <1>8 DEF StoreMetrics
  <2>. QED
    BY <2>1, <2>2, <1>14 DEF StoreMetrics, TypeOK, k6
<1>15. ASSUME NEW g \in completion[c].got, StoreRun(c, g) PROVE Types'
  <2>1. row' \in RowRecord
    BY <1>15, <1>3, <1>7 DEF StoreRun, RowRecord
  <2>2. completion' \in [Completion -> CompletionRecord]
    BY <1>15, <1>8 DEF StoreRun
  <2>. QED
    BY <2>1, <2>2, <1>15 DEF StoreRun, TypeOK, k6
<1>. QED
  BY CompletionCases, <1>9, <1>10, <1>11, <1>12, <1>13, <1>14, <1>15

LEMMA NextTypes == Types /\ [Next]_vars => Types'
<1>. SUFFICES ASSUME Types, [Next]_vars PROVE Types'
  OBVIOUS
<1>. USE DEF Types
<1>1. CASE UpdateScenario
  BY <1>1 DEF UpdateScenario, TypeOK, Version, k6
<1>2. CASE RemoveScenario
  <2>1. row' \in RowRecord
    BY <1>2, ResultsAssumption DEF RemoveScenario, NoRow, RowRecord
  <2>. QED
    BY <2>1, <1>2, ResultsAssumption DEF RemoveScenario, TypeOK, k6
<1>3. CASE StartK6
  BY <1>3 DEF StartK6, TypeOK, results
<1>4. CASE SaveRunAt
  <2>1. PICK first \in points : row' = [runAt |-> Floor(first.at), endAt |-> row.endAt,
                dated |-> TRUE, numbers |-> row.numbers]
    BY <1>4 DEF SaveRunAt
  <2>2. first.at \in Nat /\ first.at <= MaxTime
    BY ResultsAssumption DEF TypeOK, Point, Time
  <2>3. Floor(first.at) \in 0..MaxTime
    BY <2>2, FloorIsEarlier, MaxTimeIsNat
  <2>4. row' \in RowRecord
    BY <2>1, <2>3 DEF TypeOK, RowRecord
  <2>. QED
    BY <2>4, <1>4 DEF SaveRunAt, TypeOK, k6
<1>5. CASE TimePasses
  BY <1>5, ResultsAssumption DEF TimePasses, TypeOK, Time, k6, results
<1>6. ASSUME NEW u \in User, PickFlow(u) PROVE Types'
  <2>1. script \in Version
    BY <1>6, ResultsAssumption DEF PickFlow, Awake, TypeOK, Version
  <2>2. PICK i \in DOMAIN Plans[script] : Request(u, Plans[script][i].steps)
    BY <1>6 DEF PickFlow
  <2>3. Plans[script] \in Seq(Flow)
    BY <2>1, ResultsAssumption DEF Version
  <2>4. Plans[script][i] \in Flow
    BY <2>3
  <2>5. Plans[script][i].steps \in Seq(Step)
    BY <2>4 DEF Flow
  <2>. QED
    BY <2>2, <2>5, RequestTypes
<1>7. ASSUME NEW u \in User, NextStep(u) PROVE Types'
  <2>1. user[u].rest \in Seq(Step)
    BY DEF TypeOK
  <2>. QED
    BY <2>1, <1>7, RequestTypes DEF NextStep
<1>8. ASSUME NEW c \in Completion, Complete(c) PROVE Types'
  <2>1. PICK last \in points : Put(c, Waiting("save", Floor(last.at), {}))
    BY <1>8 DEF Complete
  <2>2. last.at \in Nat /\ last.at <= MaxTime
    BY ResultsAssumption DEF TypeOK, Point, Time
  <2>3. Floor(last.at) \in 0..MaxTime
    BY <2>2, FloorIsEarlier, MaxTimeIsNat
  <2>4. Waiting("save", Floor(last.at), {}) \in CompletionRecord
    BY <2>3, WaitingRecords DEF Pc
  <2>5. completion' \in [Completion -> CompletionRecord]
    BY <2>1, <2>4, PutRecord
  <2>. QED
    BY <2>5, <1>8 DEF Complete, TypeOK, k6
<1>9. ASSUME NEW c \in Completion, CompletionNext(c) PROVE Types'
  BY <1>9, CompletionTypes
<1>10. CASE Crash
  <2>1. \A pc \in Pc : Idle(pc) \in CompletionRecord
    BY WaitingRecords, ResultsAssumption DEF Idle
  <2>2. completion' \in [Completion -> CompletionRecord]
    BY <2>1, <1>10 DEF Crash, ProcessDies, TypeOK, Pc
  <2>. QED
    BY <2>2, <1>10 DEF Crash, ProcessDies, TypeOK, k6
<1>11. CASE UNCHANGED vars
  BY <1>11 DEF vars, TypeOK
<1>. QED
  BY <1>1, <1>2, <1>3, <1>4, <1>5, <1>6, <1>7, <1>8, <1>9, <1>10, <1>11 DEF Next

-----------------------------------------------------------------------------
(* Dates *)

(* Points are added at the time they are made, and time does not go back.  *)
LEMMA PointsGrow ==
    ASSUME Types, [Next]_vars
    PROVE  /\ now \in Nat /\ now' \in Nat /\ now <= now'
           /\ \/ points' = points
              \/ \E q : q.at = now /\ points' = points \cup {q}
<1>1. Types'
  BY NextTypes
<1>2. now \in Nat /\ now' \in Nat
  BY <1>1 DEF Types, TypeOK, Time
<1>3. ASSUME NEW u \in User, NEW steps, Request(u, steps)
      PROVE  now' = now /\ \E q : q.at = now /\ points' = points \cup {q}
  BY <1>3 DEF Request
<1>4. ASSUME NEW u \in User, PickFlow(u) \/ NextStep(u)
      PROVE  now' = now /\ \E q : q.at = now /\ points' = points \cup {q}
  BY <1>3, <1>4 DEF PickFlow, NextStep
<1>5. ASSUME NEW c \in Completion, Complete(c) \/ CompletionNext(c)
      PROVE  now' = now /\ points' = points
  BY <1>5 DEF Complete, CompletionNext, SaveEndAt, FindRun, Announce, UnhandledRejection,
              ProcessDies, GetMetrics, StoreMetrics, StoreRun, k6
<1>6. CASE TimePasses
  BY <1>6, <1>2 DEF TimePasses, k6
<1>7. CASE UpdateScenario \/ RemoveScenario \/ StartK6 \/ SaveRunAt \/ Crash \/ UNCHANGED vars
  <2>1. now' = now /\ points' = points
    BY <1>7 DEF UpdateScenario, RemoveScenario, StartK6, SaveRunAt, Crash, ProcessDies,
                k6, results, vars
  <2>. QED
    BY <2>1, <1>2
<1>. QED
  BY <1>2, <1>4, <1>5, <1>6, <1>7 DEF Next

LEMMA FinalStays ==
    ASSUME Types, [Next]_vars, NEW s, NEW from, NEW to \in Nat, NEW count,
           Final(points, now, s, from, to, count)
    PROVE  Final(points', now', s, from, to, count)
<1>1. {q \in points' : q.step = s /\ from < q.at /\ q.at < to}
        = {q \in points : q.step = s /\ from < q.at /\ q.at < to}
  <2>1. ASSUME NEW q, q.at = now PROVE ~(q.at < to)
    BY <2>1, PointsGrow DEF Final
  <2>. QED
    BY <2>1, PointsGrow
<1>2. to <= now'
  BY PointsGrow DEF Final
<1>3. \E q \in points' : q.step = s /\ from < q.at /\ q.at < to
  BY PointsGrow DEF Final
<1>. QED
  BY <1>1, <1>2, <1>3 DEF Final

(* What the actions other than those of completions leave alone. *)
LEMMA OtherActions ==
    ASSUME UpdateScenario \/ RemoveScenario \/ StartK6 \/ SaveRunAt \/ TimePasses
                \/ (\E u \in User : PickFlow(u) \/ NextStep(u)) \/ UNCHANGED vars
    PROVE  /\ completion' = completion
           /\ (row'.endAt = row.endAt \/ row'.endAt = 0)
           /\ (row'.numbers = row.numbers \/ (version' = 0 /\ row'.numbers = {}))
           /\ metrics' \subseteq metrics
<1>1. CASE UpdateScenario
  BY <1>1 DEF UpdateScenario
<1>2. CASE RemoveScenario
  BY <1>2 DEF RemoveScenario, NoRow
<1>3. CASE StartK6
  BY <1>3 DEF StartK6, results
<1>4. CASE SaveRunAt
  BY <1>4 DEF SaveRunAt
<1>5. CASE TimePasses
  BY <1>5 DEF TimePasses, results
<1>6. ASSUME NEW u \in User, NEW steps, Request(u, steps)
      PROVE  completion' = completion /\ row' = row /\ metrics' = metrics
  BY <1>6 DEF Request, results
<1>7. CASE \E u \in User : PickFlow(u) \/ NextStep(u)
  BY <1>6, <1>7 DEF PickFlow, NextStep
<1>8. CASE UNCHANGED vars
  BY <1>8 DEF vars
<1>. QED
  BY <1>1, <1>2, <1>3, <1>4, <1>5, <1>7, <1>8

(* The fields of a completion that is put. *)
LEMMA PutFields ==
    ASSUME TypeOK, NEW c \in Completion, NEW r, Put(c, r)
    PROVE  /\ completion'[c] = r
           /\ \A d \in Completion \ {c} : completion'[d] = completion[d]
  BY DEF TypeOK, Put

LEMMA GotoFields ==
    ASSUME TypeOK, NEW c \in Completion, NEW todo, NEW got, Goto(c, todo, got)
    PROVE  /\ completion'[c].pc = "measure"
           /\ completion'[c].from = completion[c].from
           /\ completion'[c].to = completion[c].to
           /\ completion'[c].asked = completion[c].asked
           /\ completion'[c].todo = todo
           /\ completion'[c].got = got
           /\ \A d \in Completion \ {c} : completion'[d] = completion[d]
  BY PutFields DEF Goto

LEMMA DeadFields ==
    ASSUME NEW by, ProcessDies(by), NEW c \in Completion
    PROVE  \/ completion'[c] = completion[c]
           \/ completion'[c] = Idle("rejected")
           \/ completion'[c] = Idle("crashed")
  BY DEF ProcessDies

LEMMA NextPastDates == IInv /\ [Next]_vars => PastDates'
<1>. SUFFICES ASSUME IInv, [Next]_vars PROVE PastDates'
  OBVIOUS
<1>. USE DEF IInv, Types
<1>1. \A q \in points' : q.at <= now'
  <2>1. \A q \in points : q.at \in Nat /\ q.at <= now
    BY DEF PastDates, TypeOK, Point, Time
  <2>. QED
    BY <2>1, PointsGrow
<1>2. /\ now \in Nat /\ now' \in Nat /\ now <= now'
      /\ row.endAt \in Nat /\ row.endAt <= now
      /\ \A c \in Completion : completion[c].to \in Nat /\ completion[c].to <= now
  BY PointsGrow DEF PastDates, TypeOK, RowRecord, CompletionRecord
<1>3. ASSUME NEW by, ProcessDies(by) PROVE PastDates'
  <2>1. \A c \in Completion : completion'[c].to <= now'
    BY <1>2, <1>3, DeadFields DEF Idle, Waiting
  <2>. QED
    BY <1>1, <1>2, <1>3, <2>1 DEF ProcessDies, PastDates
<1>4. ASSUME NEW c \in Completion, Complete(c) PROVE PastDates'
  <2>1. PICK last \in points : Put(c, Waiting("save", Floor(last.at), {}))
    BY <1>4 DEF Complete
  <2>2. last.at \in Nat /\ last.at <= now
    BY DEF PastDates, TypeOK, Point, Time
  <2>3. Floor(last.at) <= now'
    BY <2>2, <1>2, FloorIsEarlier
  <2>4. completion'[c].to = Floor(last.at)
    BY <2>1, PutFields DEF Waiting
  <2>5. \A d \in Completion : completion'[d].to <= now'
    BY <2>1, <2>3, <2>4, <1>2, PutFields
  <2>. QED
    BY <2>5, <1>1, <1>2, <1>4 DEF Complete, PastDates
<1>5. ASSUME NEW c \in Completion, CompletionNext(c) PROVE PastDates'
  <2>1. CASE SaveEndAt(c)
    <3>1. row'.endAt <= now'
      BY <2>1, <1>2 DEF SaveEndAt
    <3>2. \A d \in Completion : completion'[d].to <= now'
      BY <2>1, <1>2, PutFields DEF SaveEndAt, Idle, Waiting
    <3>. QED
      BY <3>1, <3>2, <1>1 DEF PastDates
  <2>2. CASE FindRun(c)
    <3>1. \A d \in Completion : completion'[d].to <= now'
      BY <2>2, <1>2, PutFields DEF FindRun
    <3>. QED
      BY <3>1, <2>2, <1>1, <1>2 DEF FindRun, PastDates
  <2>3. CASE Announce(c)
    <3>1. \A d \in Completion : completion'[d].to <= now'
      BY <2>3, <1>2, PutFields DEF Announce, Waiting
    <3>. QED
      BY <3>1, <2>3, <1>1, <1>2 DEF Announce, PastDates
  <2>4. CASE UnhandledRejection(c)
    BY <2>4, <1>3 DEF UnhandledRejection
  <2>5. ASSUME NEW todo, NEW got, Goto(c, todo, got), row'.endAt = row.endAt
        PROVE  PastDates'
    <3>1. \A d \in Completion : completion'[d].to <= now'
      BY <2>5, <1>2, GotoFields
    <3>. QED
      BY <3>1, <2>5, <1>1, <1>2 DEF PastDates
  <2>6. ASSUME NEW x, GetMetrics(c, x) PROVE PastDates'
    BY <2>6, <2>5 DEF GetMetrics
  <2>7. ASSUME NEW g, StoreMetrics(c, g) PROVE PastDates'
    BY <2>7, <2>5 DEF StoreMetrics, Answered
  <2>8. ASSUME NEW g, StoreRun(c, g) PROVE PastDates'
    <3>1. row'.endAt = row.endAt
      BY <2>8 DEF StoreRun
    <3>. QED
      BY <2>8, <2>5, <3>1 DEF StoreRun, Answered
  <2>. QED
    BY <1>5, CompletionCases, <2>1, <2>2, <2>3, <2>4, <2>6, <2>7, <2>8
<1>6. CASE UpdateScenario \/ RemoveScenario \/ StartK6 \/ SaveRunAt \/ TimePasses
            \/ (\E u \in User : PickFlow(u) \/ NextStep(u)) \/ UNCHANGED vars
  <2>1. row'.endAt <= now' /\ completion' = completion
    BY <1>2, <1>6, OtherActions
  <2>. QED
    BY <2>1, <1>1, <1>2 DEF PastDates
<1>. QED
  BY <1>3, <1>4, <1>5, <1>6 DEF Next, Crash

-----------------------------------------------------------------------------
(* Numbers *)

LEMMA NextFinalNumbers == IInv /\ [Next]_vars => FinalNumbers'
<1>. SUFFICES ASSUME IInv, [Next]_vars, NEW n \in metrics' \cup row'.numbers
              PROVE  Final(points', now', n.step, n.from, n.to, n.count)
  BY DEF FinalNumbers
<1>. USE DEF IInv, Types
<1>1. ASSUME NEW m \in metrics \cup row.numbers, n = m
      PROVE  Final(points', now', n.step, n.from, n.to, n.count)
  <2>1. m.to \in Nat
    BY DEF TypeOK, RowRecord, Number
  <2>2. Final(points, now, m.step, m.from, m.to, m.count)
    BY DEF FinalNumbers
  <2>. QED
    BY <2>1, <2>2, <1>1, FinalStays
<1>2. ASSUME NEW c \in Completion, NEW g \in completion[c].got, n = NumberOf(c, g)
      PROVE  Final(points', now', n.step, n.from, n.to, n.count)
  <2>1. Final(points, now, g.step, completion[c].from, completion[c].to, g.count)
    BY DEF FinalAnswers
  <2>2. completion[c].to \in Nat
    BY DEF TypeOK, CompletionRecord
  <2>3. Final(points, now, n.step, n.from, n.to, n.count)
    BY <2>1, <1>2 DEF NumberOf
  <2>4. n.to \in Nat
    BY <2>2, <1>2 DEF NumberOf
  <2>. QED
    BY <2>3, <2>4, FinalStays
<1>3. CASE metrics' \subseteq metrics /\ row'.numbers \subseteq row.numbers
  BY <1>1, <1>3
<1>4. ASSUME NEW c \in Completion, CompletionNext(c)
      PROVE  \/ metrics' \subseteq metrics /\ row'.numbers \subseteq row.numbers
             \/ \E g \in completion[c].got :
                    /\ metrics' \subseteq metrics \cup {NumberOf(c, g)}
                    /\ row'.numbers \subseteq row.numbers \cup {NumberOf(c, g)}
  <2>1. CASE SaveEndAt(c)
    BY <2>1 DEF SaveEndAt
  <2>2. CASE FindRun(c) \/ Announce(c) \/ UnhandledRejection(c)
    BY <2>2 DEF FindRun, Announce, UnhandledRejection, ProcessDies
  <2>3. ASSUME NEW x, GetMetrics(c, x) PROVE metrics' = metrics /\ row' = row
    BY <2>3 DEF GetMetrics
  <2>4. ASSUME NEW g \in completion[c].got, StoreMetrics(c, g)
        PROVE  metrics' = metrics \cup {NumberOf(c, g)} /\ row' = row
    BY <2>4 DEF StoreMetrics
  <2>5. ASSUME NEW g \in completion[c].got, StoreRun(c, g)
        PROVE  metrics' = metrics /\ row'.numbers = {NumberOf(c, g)}
    BY <2>5 DEF StoreRun
  <2>. QED
    BY <1>4, <2>1, <2>2, <2>3, <2>4, <2>5 DEF CompletionNext
<1>5. ASSUME NEW c \in Completion, CompletionNext(c)
      PROVE  Final(points', now', n.step, n.from, n.to, n.count)
  BY <1>1, <1>2, <1>4, <1>5
<1>6. ASSUME NEW c \in Completion, Complete(c)
      PROVE  metrics' = metrics /\ row' = row
  BY <1>6 DEF Complete
<1>7. CASE Crash
  <2>1. metrics' = metrics /\ row' = row
    BY <1>7 DEF Crash, ProcessDies
  <2>. QED
    BY <2>1, <1>3
<1>8. CASE UpdateScenario \/ RemoveScenario \/ StartK6 \/ SaveRunAt \/ TimePasses
            \/ (\E u \in User : PickFlow(u) \/ NextStep(u)) \/ UNCHANGED vars
  <2>1. metrics' \subseteq metrics /\ row'.numbers \subseteq row.numbers
    BY <1>8, OtherActions
  <2>. QED
    BY <2>1, <1>3
<1>. QED
  BY <1>3, <1>5, <1>6, <1>7, <1>8 DEF Next

LEMMA NextFinalAnswers == IInv /\ [Next]_vars => FinalAnswers'
<1>. SUFFICES ASSUME IInv, [Next]_vars, NEW d \in Completion, NEW h \in completion'[d].got
              PROVE  /\ Final(points', now', h.step, completion'[d].from,
                              completion'[d].to, h.count)
                     /\ (h.of # Whole => h.step = h.of)
  BY DEF FinalAnswers
<1>. USE DEF IInv, Types
<1> DEFINE
      Goal == /\ Final(points', now', h.step, completion'[d].from,
                       completion'[d].to, h.count)
              /\ (h.of # Whole => h.step = h.of)
<1>1. ASSUME h \in completion[d].got, completion'[d].from = completion[d].from,
             completion'[d].to = completion[d].to
      PROVE  Goal
  <2>1. completion[d].to \in Nat
    BY DEF TypeOK, CompletionRecord
  <2>2. Final(points, now, h.step, completion[d].from, completion[d].to, h.count)
    BY <1>1 DEF FinalAnswers
  <2>3. Final(points', now', h.step, completion[d].from, completion[d].to, h.count)
    BY <2>1, <2>2, FinalStays
  <2>4. h.of # Whole => h.step = h.of
    BY <1>1 DEF FinalAnswers
  <2>. QED
    BY <2>3, <2>4, <1>1
<1>2. CASE completion'[d] = completion[d]
  BY <1>1, <1>2
<1>3. CASE completion'[d].got = {}
  BY <1>3
<1>4. ASSUME NEW by, ProcessDies(by) PROVE Goal
  BY <1>2, <1>3, <1>4, DeadFields DEF Idle, Waiting
<1>5. ASSUME NEW c \in Completion, Complete(c) PROVE Goal
  <2>1. PICK last \in points : Put(c, Waiting("save", Floor(last.at), {}))
    BY <1>5 DEF Complete
  <2>2. completion'[d] = completion[d] \/ completion'[d].got = {}
    BY <2>1, PutFields DEF Waiting
  <2>. QED
    BY <2>2, <1>2, <1>3
<1>6. ASSUME NEW c \in Completion, CompletionNext(c) PROVE Goal
  <2>1. CASE SaveEndAt(c) \/ FindRun(c) \/ Announce(c)
    <3>1. completion'[d] = completion[d] \/ completion'[d].got = {}
      BY <2>1, PutFields DEF SaveEndAt, FindRun, Announce, Idle, Waiting
    <3>. QED
      BY <3>1, <1>2, <1>3
  <2>2. CASE UnhandledRejection(c)
    BY <2>2, <1>4 DEF UnhandledRejection
  <2>3. ASSUME NEW x \in completion[c].todo, GetMetrics(c, x) PROVE Goal
    <3>1. PICK s \in Groups(x, completion[c].from, completion[c].to) :
            Goto(c, completion[c].todo \ {x}, completion[c].got \cup
                {[of |-> x, step |-> s, count |-> Cardinality(
                    Inside(s, completion[c].from, completion[c].to))]})
      BY <2>3 DEF GetMetrics
    <3> DEFINE new == [of |-> x, step |-> s, count |-> Cardinality(
                    Inside(s, completion[c].from, completion[c].to))]
    <3>2. CASE d # c
      <4>1. completion'[d] = completion[d]
        BY <3>1, <3>2, GotoFields
      <4>. QED
        BY <4>1, <1>2
    <3>3. CASE d = c
      <4>1. /\ completion'[d].from = completion[d].from
            /\ completion'[d].to = completion[d].to
            /\ completion'[d].got = completion[d].got \cup {new}
        BY <3>1, <3>3, GotoFields
      <4>2. ASSUME h = new PROVE Goal
        <5>1. completion[c].from \in Nat /\ completion[c].to \in Nat
          BY DEF TypeOK, CompletionRecord
        <5>2. Inside(s, completion[c].from, completion[c].to) # {} /\ (x = Whole \/ x = s)
          BY DEF Groups
        <5>3. PICK q \in points :
                 q.step = s /\ completion[c].from < q.at /\ q.at < completion[c].to
          BY <5>2 DEF Inside
        <5>4. q.at \in Nat
          BY DEF TypeOK, Point, Time
        <5>5. completion[c].from < completion[c].to
          BY <5>1, <5>3, <5>4
        <5>6. completion[c].to <= now
          BY DEF PastDates
        <5>7. h.step = s /\ h.of = x
                /\ h.count = Cardinality(Inside(s, completion[c].from, completion[c].to))
          BY <4>2
        <5>8. Final(points, now, h.step, completion[c].from, completion[c].to, h.count)
          BY <5>3, <5>5, <5>6, <5>7 DEF Final, Inside
        <5>9. Final(points', now', h.step, completion[c].from, completion[c].to, h.count)
          BY <5>1, <5>8, FinalStays
        <5>10. Final(points', now', h.step, completion'[d].from, completion'[d].to, h.count)
          BY <5>9, <4>1, <3>3
        <5>. QED
          BY <5>10, <5>2, <5>7
      <4>3. CASE h \in completion[d].got
        BY <4>1, <4>3, <1>1
      <4>. QED
        BY <4>1, <4>2, <4>3
    <3>. QED
      BY <3>2, <3>3
  <2>4. ASSUME NEW g \in completion[c].got, Answered(c, g) PROVE Goal
    <3>1. \/ completion'[d] = completion[d]
          \/ /\ completion'[d].from = completion[d].from
             /\ completion'[d].to = completion[d].to
             /\ h \in completion[d].got
      BY <2>4, GotoFields DEF Answered
    <3>. QED
      BY <3>1, <1>1, <1>2
  <2>. QED
    BY <1>6, <2>1, <2>2, <2>3, <2>4 DEF CompletionNext, StoreMetrics, StoreRun
<1>7. CASE UpdateScenario \/ RemoveScenario \/ StartK6 \/ SaveRunAt \/ TimePasses
            \/ (\E u \in User : PickFlow(u) \/ NextStep(u)) \/ UNCHANGED vars
  BY <1>7, <1>2, OtherActions
<1>. QED
  BY <1>4, <1>5, <1>6, <1>7 DEF Next, Crash

-----------------------------------------------------------------------------
(* Announcements *)

LEMMA NextAnnouncedAreDone == IInv /\ [Next]_vars => AnnouncedAreDone'
<1>. SUFFICES ASSUME IInv, [Next]_vars, NEW d \in Completion,
                     completion'[d].pc = "announced"
              PROVE  completion'[d].todo = {} /\ completion'[d].got = {}
  BY DEF AnnouncedAreDone
<1>. USE DEF IInv, Types
<1>1. CASE completion'[d] = completion[d]
  BY <1>1 DEF AnnouncedAreDone
<1>2. CASE completion'[d].todo = {} /\ completion'[d].got = {}
  BY <1>2
<1>3. ASSUME NEW by, ProcessDies(by)
      PROVE  completion'[d].todo = {} /\ completion'[d].got = {}
  BY <1>1, <1>3, DeadFields DEF Idle, Waiting
<1>4. ASSUME NEW c \in Completion, NEW r, Put(c, r), r.todo = {}, r.got = {}
      PROVE  completion'[d].todo = {} /\ completion'[d].got = {}
  BY <1>1, <1>4, PutFields
<1>5. ASSUME NEW c \in Completion, NEW r, Put(c, r), r.pc = "measure"
      PROVE  completion'[d].todo = {} /\ completion'[d].got = {}
  BY <1>1, <1>5, PutFields
<1>6. ASSUME NEW c \in Completion, Complete(c)
      PROVE  completion'[d].todo = {} /\ completion'[d].got = {}
  <2>1. PICK last \in points : Put(c, Waiting("save", Floor(last.at), {}))
    BY <1>6 DEF Complete
  <2>. QED
    BY <2>1, <1>4 DEF Waiting
<1>7. ASSUME NEW c \in Completion, CompletionNext(c)
      PROVE  completion'[d].todo = {} /\ completion'[d].got = {}
  <2>1. CASE SaveEndAt(c)
    BY <2>1, <1>4 DEF SaveEndAt, Idle, Waiting
  <2>2. CASE Announce(c)
    BY <2>2, <1>4 DEF Announce, Waiting
  <2>3. CASE FindRun(c)
    BY <2>3, <1>5 DEF FindRun
  <2>4. CASE UnhandledRejection(c)
    BY <2>4, <1>3 DEF UnhandledRejection
  <2>5. ASSUME NEW todo, NEW got, Goto(c, todo, got)
        PROVE  completion'[d].todo = {} /\ completion'[d].got = {}
    BY <2>5, <1>5 DEF Goto
  <2>. QED
    BY <1>7, <2>1, <2>2, <2>3, <2>4, <2>5
       DEF CompletionNext, GetMetrics, StoreMetrics, StoreRun, Answered
<1>8. CASE UpdateScenario \/ RemoveScenario \/ StartK6 \/ SaveRunAt \/ TimePasses
            \/ (\E u \in User : PickFlow(u) \/ NextStep(u)) \/ UNCHANGED vars
  BY <1>8, <1>1, OtherActions
<1>. QED
  BY <1>3, <1>6, <1>7, <1>8 DEF Next, Crash

(* Only a save and a removal of the scenario change its version.           *)
LEMMA Versions ==
    ASSUME Types, [Next]_vars, version' # 0
    PROVE  /\ version \in Version /\ version' \in Version /\ version <= version'
           /\ version' # version => completion' = completion
<1>. USE DEF Types
<1>1. version \in 0..Len(Plans) /\ version' \in 0..Len(Plans)
  BY NextTypes DEF TypeOK
<1>2. ASSUME version' = version
      PROVE  version \in Version /\ version' \in Version /\ version <= version'
  BY <1>1, <1>2, ResultsAssumption DEF Version
<1>3. CASE UpdateScenario
  BY <1>1, <1>3, ResultsAssumption DEF UpdateScenario, Version
<1>4. ~RemoveScenario
  BY DEF RemoveScenario
<1>5. ASSUME NEW u \in User, NEW steps, Request(u, steps)
      PROVE  version' = version
  BY <1>5 DEF Request
<1>6. ASSUME NEW c \in Completion, Complete(c) \/ CompletionNext(c)
      PROVE  version' = version
  BY <1>6 DEF Complete, CompletionNext, SaveEndAt, FindRun, Announce, UnhandledRejection,
              ProcessDies, GetMetrics, StoreMetrics, StoreRun
<1>7. ASSUME StartK6 \/ SaveRunAt \/ TimePasses \/ Crash \/ UNCHANGED vars
      PROVE  version' = version
  BY <1>7 DEF StartK6, SaveRunAt, TimePasses, Crash, ProcessDies, vars
<1>8. UpdateScenario \/ version' = version
  BY <1>4, <1>5, <1>6, <1>7 DEF Next, PickFlow, NextStep
<1>. QED
  BY <1>2, <1>3, <1>8

LEMMA NextAskedVersions == IInv /\ [Next]_vars => AskedVersions'
<1>. SUFFICES ASSUME IInv, [Next]_vars, version' # 0, NEW d \in Completion,
                     completion'[d].asked # {}
              PROVE  \E p \in Version : p <= version' /\ completion'[d].asked = StepsOf(p)
  BY DEF AskedVersions
<1>. USE DEF IInv, Types
<1>1. version \in Version /\ version' \in Version /\ version <= version' /\ version # 0
  BY Versions, ResultsAssumption DEF Version
<1>2. CASE completion'[d].asked = completion[d].asked
  <2>1. PICK p \in Version : p <= version /\ completion[d].asked = StepsOf(p)
    BY <1>1, <1>2 DEF AskedVersions
  <2>2. p <= version'
    BY <1>1, <2>1, ResultsAssumption DEF Version
  <2>. QED
    BY <2>1, <2>2, <1>2
<1>3. ASSUME NEW by, ProcessDies(by) PROVE completion'[d].asked = completion[d].asked
  BY <1>3, DeadFields DEF Idle, Waiting
<1>4. ASSUME NEW c \in Completion, NEW r, Put(c, r),
             r.asked = completion[c].asked \/ r.asked = {}
      PROVE  completion'[d].asked = completion[d].asked
  BY <1>4, PutFields
<1>5. ASSUME NEW c \in Completion, Complete(c)
      PROVE  completion'[d].asked = completion[d].asked
  <2>1. PICK last \in points : Put(c, Waiting("save", Floor(last.at), {}))
    BY <1>5 DEF Complete
  <2>. QED
    BY <2>1, <1>4 DEF Waiting
<1>6. ASSUME NEW c \in Completion, FindRun(c)
      PROVE  \E p \in Version : p <= version' /\ completion'[d].asked = StepsOf(p)
  <2>1. CASE d = c
    <3>1. completion'[d].asked = StepsOf(version)
      BY <1>6, <2>1, PutFields DEF FindRun
    <3>. QED
      BY <3>1, <1>1
  <2>2. CASE d # c
    BY <1>2, <1>6, <2>2, PutFields DEF FindRun
  <2>. QED
    BY <2>1, <2>2
<1>7. ASSUME NEW c \in Completion, CompletionNext(c), ~FindRun(c)
      PROVE  completion'[d].asked = completion[d].asked
  <2>1. CASE SaveEndAt(c)
    BY <2>1, <1>4 DEF SaveEndAt, Idle, Waiting
  <2>2. CASE Announce(c)
    BY <2>2, <1>4 DEF Announce, Waiting
  <2>3. CASE UnhandledRejection(c)
    BY <2>3, <1>3 DEF UnhandledRejection
  <2>4. ASSUME NEW todo, NEW got, Goto(c, todo, got)
        PROVE  completion'[d].asked = completion[d].asked
    BY <2>4, GotoFields
  <2>. QED
    BY <1>7, <2>1, <2>2, <2>3, <2>4
       DEF CompletionNext, GetMetrics, StoreMetrics, StoreRun, Answered
<1>8. CASE UpdateScenario \/ RemoveScenario \/ StartK6 \/ SaveRunAt \/ TimePasses
            \/ (\E u \in User : PickFlow(u) \/ NextStep(u)) \/ UNCHANGED vars
  BY <1>8, <1>2, OtherActions
<1>. QED
  BY <1>2, <1>3, <1>5, <1>6, <1>7, <1>8 DEF Next, Crash

-----------------------------------------------------------------------------
(* Nothing is forgotten *)

LEMMA NextNothingForgotten == IInv /\ [Next]_vars => NothingForgotten'
<1>. SUFFICES ASSUME IInv, [Next]_vars, version' # 0, NEW d \in Completion,
                     completion'[d].pc \in {"measure", "announced"}
              PROVE  /\ RunIsKept(d)'
                     /\ \A s \in completion'[d].asked \cap StepsOf(version') :
                            StepIsKept(d, s)'
  BY DEF NothingForgotten
<1>. USE DEF IInv, Types
<1> DEFINE
      Goal == /\ RunIsKept(d)'
              /\ \A s \in completion'[d].asked \cap StepsOf(version') : StepIsKept(d, s)'
<1>1. version \in Version /\ version' \in Version /\ version <= version' /\ version # 0
  BY Versions, ResultsAssumption DEF Version
<1>2. ASSUME completion[d].pc \in {"measure", "announced"}
      PROVE  /\ RunIsKept(d)
             /\ \A s \in completion[d].asked \cap StepsOf(version) : StepIsKept(d, s)
  BY <1>1, <1>2 DEF NothingForgotten
<1>3. ASSUME completion'[d] = completion[d], version' = version,
             metrics \subseteq metrics', row.numbers # {} => row'.numbers # {}
      PROVE  Goal
  BY <1>2, <1>3 DEF RunIsKept, StepIsKept
<1>4. ASSUME NEW by, ProcessDies(by) PROVE Goal
  <2>1. completion'[d] = completion[d]
    BY <1>4, DeadFields DEF Idle, Waiting
  <2>. QED
    BY <2>1, <1>3, <1>4 DEF ProcessDies
<1>5. CASE UpdateScenario
  <2>1. completion' = completion /\ row' = row
    BY <1>5 DEF UpdateScenario
  <2>2. ASSUME NEW s \in completion'[d].asked \cap StepsOf(version')
        PROVE  StepIsKept(d, s)'
    <3>1. PICK p \in Version : p <= version /\ completion[d].asked = StepsOf(p)
      BY <1>1, <2>1, <2>2 DEF AskedVersions
    <3>2. version < version'
      BY <1>5 DEF UpdateScenario
    <3>3. s \in StepsOf(version)
      BY <3>1, <3>2, <2>1, <2>2, <1>1, StepsStayGone
    <3>4. StepIsKept(d, s)
      BY <1>2, <2>1, <2>2, <3>3
    <3>5. ASSUME NEW n \in metrics, n.step = s PROVE n \in metrics'
      BY <1>5, <2>2, <3>5 DEF UpdateScenario
    <3>. QED
      BY <3>4, <3>5, <2>1 DEF StepIsKept
  <2>3. RunIsKept(d)'
    BY <1>2, <2>1 DEF RunIsKept
  <2>. QED
    BY <2>2, <2>3
<1>6. ASSUME NEW c \in Completion, Complete(c) PROVE Goal
  <2>1. PICK last \in points : Put(c, Waiting("save", Floor(last.at), {}))
    BY <1>6 DEF Complete
  <2>2. completion'[d] = completion[d]
    BY <2>1, PutFields DEF Waiting
  <2>. QED
    BY <2>2, <1>3, <1>6 DEF Complete
<1>7. ASSUME NEW c \in Completion, CompletionNext(c) PROVE Goal
  <2>1. CASE SaveEndAt(c)
    <3>1. completion'[d] = completion[d]
      BY <2>1, PutFields DEF SaveEndAt, Idle, Waiting
    <3>2. row'.numbers = row.numbers
      BY <2>1 DEF SaveEndAt
    <3>. QED
      BY <3>1, <3>2, <2>1, <1>3 DEF SaveEndAt
  <2>2. CASE FindRun(c)
    <3>1. CASE d = c
      <4>1. /\ completion'[d].asked = StepsOf(version)
            /\ completion'[d].todo = StepsOf(version) \cup {Whole}
        BY <2>2, <3>1, PutFields DEF FindRun
      <4>. QED
        BY <4>1 DEF RunIsKept, StepIsKept
    <3>2. CASE d # c
      <4>1. completion'[d] = completion[d]
        BY <2>2, <3>2, PutFields DEF FindRun
      <4>. QED
        BY <4>1, <2>2, <1>3 DEF FindRun
    <3>. QED
      BY <3>1, <3>2
  <2>3. CASE Announce(c)
    <3>1. CASE d = c
      <4>1. /\ completion'[d].asked = completion[d].asked
            /\ completion'[d].todo = {} /\ completion'[d].got = {}
            /\ completion[d].todo = {} /\ completion[d].got = {}
            /\ completion[d].pc = "measure"
        BY <2>3, <3>1, PutFields DEF Announce, Waiting
      <4>2. metrics' = metrics /\ row' = row /\ version' = version
        BY <2>3 DEF Announce
      <4>. QED
        BY <4>1, <4>2, <1>2 DEF RunIsKept, StepIsKept
    <3>2. CASE d # c
      <4>1. completion'[d] = completion[d]
        BY <2>3, <3>2, PutFields DEF Announce
      <4>. QED
        BY <4>1, <2>3, <1>3 DEF Announce
    <3>. QED
      BY <3>1, <3>2
  <2>4. CASE UnhandledRejection(c)
    BY <2>4, <1>4 DEF UnhandledRejection
  <2>5. ASSUME NEW x \in completion[c].todo, GetMetrics(c, x) PROVE Goal
    <3>1. PICK s \in Groups(x, completion[c].from, completion[c].to) :
            Goto(c, completion[c].todo \ {x}, completion[c].got \cup
                {[of |-> x, step |-> s, count |-> Cardinality(
                    Inside(s, completion[c].from, completion[c].to))]})
      BY <2>5 DEF GetMetrics
    <3>2. metrics' = metrics /\ row' = row /\ version' = version
      BY <2>5 DEF GetMetrics
    <3>3. CASE d = c
      <4>1. completion[d].pc = "measure"
        BY <2>5, <3>3 DEF GetMetrics
      <4> DEFINE new == [of |-> x, step |-> s, count |-> Cardinality(
                    Inside(s, completion[c].from, completion[c].to))]
      <4>2. /\ completion'[d].asked = completion[d].asked
            /\ completion'[d].todo = completion[d].todo \ {x}
            /\ completion'[d].got = completion[d].got \cup {new}
        BY <3>1, <3>3, GotoFields
      <4>3. new.of = x
        OBVIOUS
      <4>. HIDE DEF new
      <4>. QED
        BY <4>1, <4>2, <4>3, <3>2, <1>2 DEF RunIsKept, StepIsKept
    <3>4. CASE d # c
      <4>1. completion'[d] = completion[d]
        BY <3>1, <3>4, GotoFields
      <4>. QED
        BY <4>1, <3>2, <1>3
    <3>. QED
      BY <3>3, <3>4
  <2>6. ASSUME NEW g \in completion[c].got, Answered(c, g), d = c
        PROVE  /\ completion[d].pc = "measure"
               /\ completion'[d].asked = completion[d].asked
               /\ completion'[d].todo = completion[d].todo
               /\ completion'[d].got = completion[d].got \ {g}
    BY <2>6, GotoFields DEF Answered
  <2>7. ASSUME NEW g \in completion[c].got, StoreMetrics(c, g) PROVE Goal
    <3>1. row' = row /\ version' = version /\ metrics' = metrics \cup {NumberOf(c, g)}
            /\ Answered(c, g) /\ g.of # Whole
      BY <2>7 DEF StoreMetrics
    <3>2. CASE d = c
      <4>1. g.step = g.of
        BY <3>1 DEF FinalAnswers
      <4>2. NumberOf(c, g).by = d /\ NumberOf(c, g).step = g.of
        BY <4>1, <3>2 DEF NumberOf
      <4>3. RunIsKept(d)'
        BY <3>1, <3>2, <2>6, <1>2 DEF RunIsKept
      <4>4. ASSUME NEW s \in completion'[d].asked \cap StepsOf(version')
            PROVE  StepIsKept(d, s)'
        BY <4>2, <4>4, <3>1, <3>2, <2>6, <1>2 DEF StepIsKept
      <4>. QED
        BY <4>3, <4>4
    <3>3. CASE d # c
      <4>1. completion'[d] = completion[d]
        BY <3>1, <3>3, GotoFields DEF Answered
      <4>. QED
        BY <4>1, <3>1, <1>3
    <3>. QED
      BY <3>2, <3>3
  <2>8. ASSUME NEW g \in completion[c].got, StoreRun(c, g) PROVE Goal
    <3>1. version' = version /\ metrics' = metrics /\ row'.numbers # {}
            /\ Answered(c, g) /\ g.of = Whole
      BY <2>8 DEF StoreRun
    <3>2. CASE d = c
      <4>1. RunIsKept(d)'
        BY <3>1 DEF RunIsKept
      <4>2. ASSUME NEW s \in completion'[d].asked \cap StepsOf(version')
            PROVE  StepIsKept(d, s)'
        <5>1. s # Whole
          BY <4>2, <1>1, StepsAreSteps, ResultsAssumption DEF Version
        <5>. QED
          BY <5>1, <4>2, <3>1, <3>2, <2>6, <1>2 DEF StepIsKept
      <4>. QED
        BY <4>1, <4>2
    <3>3. CASE d # c
      <4>1. completion'[d] = completion[d]
        BY <3>1, <3>3, GotoFields DEF Answered
      <4>. QED
        BY <4>1, <3>1, <1>3
    <3>. QED
      BY <3>2, <3>3
  <2>. QED
    BY <1>7, CompletionCases, <2>1, <2>2, <2>3, <2>4, <2>5, <2>7, <2>8
<1>8. CASE StartK6 \/ SaveRunAt \/ TimePasses
            \/ (\E u \in User : PickFlow(u) \/ NextStep(u)) \/ UNCHANGED vars
  <2>1. ASSUME NEW u \in User, NEW steps, Request(u, steps)
        PROVE  completion' = completion /\ version' = version /\ metrics' = metrics
                  /\ row' = row
    BY <2>1 DEF Request, results
  <2>2. completion' = completion /\ version' = version /\ metrics' = metrics
    BY <1>8, <2>1 DEF StartK6, SaveRunAt, TimePasses, PickFlow, NextStep, results, vars
  <2>3. row'.numbers = row.numbers
    BY <1>8, <1>1, OtherActions, <2>2
  <2>. QED
    BY <2>2, <2>3, <1>3
<1>9. ~RemoveScenario
  BY DEF RemoveScenario
<1>. QED
  BY <1>4, <1>5, <1>6, <1>7, <1>8, <1>9 DEF Next, Crash

-----------------------------------------------------------------------------
(* Theorems *)

LEMMA InitIInv == Init => IInv
<1>. SUFFICES ASSUME Init PROVE IInv
  OBVIOUS
<1>1. Types
  BY InitTypes
<1>2. PastDates
  BY DEF Init, PastDates, NoRow, Idle, Waiting
<1>3. FinalNumbers
  BY DEF Init, FinalNumbers, NoRow
<1>4. FinalAnswers /\ AskedVersions /\ NothingForgotten /\ AnnouncedAreDone
  BY DEF Init, FinalAnswers, AskedVersions, NothingForgotten, AnnouncedAreDone, Idle, Waiting
<1>. QED
  BY <1>1, <1>2, <1>3, <1>4 DEF IInv

LEMMA NextIInv == IInv /\ [Next]_vars => IInv'
<1>1. IInv /\ [Next]_vars => Types'
  BY NextTypes DEF IInv
<1>. QED
  BY <1>1, NextPastDates, NextFinalNumbers, NextFinalAnswers, NextAskedVersions,
     NextNothingForgotten, NextAnnouncedAreDone DEF IInv

LEMMA IInvImpliesResultsInv == IInv => ResultsInv
<1>. SUFFICES ASSUME IInv PROVE ResultsInv
  OBVIOUS
<1>. USE DEF IInv
<1>1. NumbersAreFinal
  BY DEF FinalNumbers, Final, NumbersAreFinal, Inside
<1>2. ASSUME NEW c \in Completion, completion[c].pc = "announced", version # 0
      PROVE  /\ row.numbers # {}
             /\ \A s \in completion[c].asked \cap StepsOf(version) :
                    \E n \in metrics : n.by = c /\ n.step = s
  <2>1. completion[c].todo = {} /\ completion[c].got = {}
    BY <1>2 DEF AnnouncedAreDone
  <2>2. RunIsKept(c)
          /\ \A s \in completion[c].asked \cap StepsOf(version) : StepIsKept(c, s)
    BY <1>2 DEF NothingForgotten
  <2>. QED
    BY <2>1, <2>2 DEF RunIsKept, StepIsKept
<1>. QED
  BY <1>1, <1>2 DEF ResultsInv, AnnouncedRunsAreMeasured, Types

(* What is stored of a run is of an interval that is over, and a run whose *)
(* end is announced has its numbers and those of its steps, however saves  *)
(* and removals of the scenario, other completions and crashes come        *)
(* between.                                                                *)
THEOREM ResultsSafe == Spec => []ResultsInv
<1>1. Spec => []IInv
  BY InitIInv, NextIInv, PTL DEF Spec
<1>. QED
  BY <1>1, IInvImpliesResultsInv, PTL

(* No announced run lacks its numbers or those of a step it still has.     *)
THEOREM AnnouncedMeasured == Spec => []AnnouncedRunsAreMeasured
<1>1. ResultsInv => AnnouncedRunsAreMeasured
  BY DEF ResultsInv
<1>. QED
  BY <1>1, ResultsSafe, PTL

-----------------------------------------------------------------------------
(* Induction.  That the numbers are well founded gives it in a form with a *)
(* set instead of a predicate.                                             *)

(* A non-empty set of numbers has a least one. *)
LEMMA LeastNumber ==
    ASSUME NEW S \in SUBSET Nat, S # {}
    PROVE  \E n \in S : \A m \in S : n <= m
<1>1. IsWellFoundedOn(OpToRel(<, Nat), Nat)
  BY NatLessThanWellFounded
<1>2. PICK n \in S : \A m \in S : ~(<<m, n>> \in OpToRel(<, Nat))
  BY <1>1, WFMin, Zenon
<1>3. \A m \in S : ~(m < n)
  BY <1>2 DEF OpToRel
<1> QED
  BY <1>3

LEMMA Counting ==
    ASSUME NEW S, 0 \in S, \A n \in Nat : n \in S => n + 1 \in S
    PROVE  Nat \subseteq S
<1> DEFINE T == Nat \ S
<1>1. SUFFICES ASSUME T # {} PROVE FALSE
  OBVIOUS
<1>2. PICK n \in T : \A m \in T : n <= m
  BY <1>1, LeastNumber
<1>3. n # 0 /\ n \in Nat
  OBVIOUS
<1>4. n - 1 \in Nat /\ ~(n <= n - 1)
  BY <1>3
<1>5. n - 1 \in S
  BY <1>2, <1>4
<1>6. (n - 1) + 1 = n
  BY <1>3
<1> QED
  BY <1>4, <1>5, <1>6

(* Sums of numbers exist: there is a function that satisfies the recursion. *)
LEMMA SumsExist ==
    ASSUME NEW N \in Nat, NEW w, \A i \in 1..N : w[i] \in Nat
    PROVE  \E g : g = [i \in 0..N |-> IF i = 0 THEN 0 ELSE g[i - 1] + w[i]]
<1> DEFINE Sums(g, n) == /\ g \in [0..n -> Nat] /\ g[0] = 0
                         /\ \A i \in 1..n : g[i] = g[i - 1] + w[i]
           S == {n \in Nat : n <= N => \E g : Sums(g, n)}
<1>1. 0 \in S
  <2>1. Sums([i \in 0..0 |-> 0], 0)
    OBVIOUS
  <2> QED
    BY <2>1
<1>2. ASSUME NEW n \in Nat, n \in S, n + 1 <= N PROVE \E g : Sums(g, n + 1)
  <2>1. PICK g : Sums(g, n)
    BY <1>2
  <2> DEFINE h == [i \in 0..(n + 1) |-> IF i = n + 1 THEN g[n] + w[n + 1] ELSE g[i]]
  <2>2. n + 1 \in 1..N /\ w[n + 1] \in Nat /\ g[n] \in Nat
    BY <1>2, <2>1
  <2>3. \A i \in 0..n : i \in 0..(n + 1) /\ i # n + 1 /\ h[i] = g[i] /\ g[i] \in Nat
    BY <2>1
  <2>4. n + 1 \in 0..(n + 1) /\ h[n + 1] = g[n] + w[n + 1]
    OBVIOUS
  <2>5. h \in [0..(n + 1) -> Nat]
    <3>1. ASSUME NEW i \in 0..(n + 1)
          PROVE  (IF i = n + 1 THEN g[n] + w[n + 1] ELSE g[i]) \in Nat
      <4>1. i = n + 1 \/ i \in 0..n
        OBVIOUS
      <4>2. g[n] + w[n + 1] \in Nat
        BY <2>2
      <4> QED
        BY <4>1, <4>2, <2>3
    <3> QED
      BY <3>1, Zenon
  <2> HIDE DEF h
  <2>6. h[0] = 0
    BY <2>1, <2>3
  <2>7. ASSUME NEW i \in 1..(n + 1) PROVE h[i] = h[i - 1] + w[i]
    <3>1. CASE i = n + 1
      <4>1. i - 1 = n /\ n \in 0..n
        BY <3>1
      <4> QED
        BY <3>1, <4>1, <2>3, <2>4
    <3>2. CASE i # n + 1
      <4>1. i \in 1..n /\ i \in 0..n /\ i - 1 \in 0..n
        BY <3>2
      <4> QED
        BY <4>1, <2>1, <2>3
    <3> QED
      BY <3>1, <3>2
  <2> QED
    BY <2>5, <2>6, <2>7
<1>3. ASSUME NEW n \in Nat, n \in S PROVE n + 1 \in S
  <2>1. n + 1 <= N => \E g : Sums(g, n + 1)
    BY <1>2, <1>3, Zenon
  <2>2. n + 1 \in Nat
    OBVIOUS
  <2> QED
    BY <2>1, <2>2, Zenon
<1>4. N \in S
  <2> HIDE DEF S
  <2> QED
    BY <1>1, <1>3, Counting
<1>5. PICK g : Sums(g, N)
  BY <1>4
<1>6. g = [i \in 0..N |-> IF i = 0 THEN 0 ELSE g[i - 1] + w[i]]
  <2>1. ASSUME NEW i \in 0..N PROVE g[i] = IF i = 0 THEN 0 ELSE g[i - 1] + w[i]
    <3>1. CASE i = 0
      BY <3>1, <1>5
    <3>2. CASE i # 0
      <4>1. i \in 1..N
        BY <3>2
      <4> QED
        BY <3>2, <4>1, <1>5
    <3> QED
      BY <3>1, <3>2
  <2>2. g = [i \in 0..N |-> g[i]]
    BY <1>5
  <2> QED
    BY <2>1, <2>2, Zenon
<1> QED
  BY <1>6

(* What the cumulative weights of a version are. *)
LEMMA CumulativeSums ==
    ASSUME NEW p \in Version
    PROVE  LET N == Len(Plans[p])
               C == Cumulative(p)
           IN  /\ N \in Nat /\ DOMAIN Plans[p] = 1..N
               /\ \A i \in 1..N : Plans[p][i].weight \in Nat \ {0}
               /\ C[0] = 0
               /\ \A i \in 0..N : C[i] \in Nat
               /\ \A i \in 1..N : C[i] = C[i - 1] + Plans[p][i].weight
               /\ \A i, j \in 0..N : i <= j => C[i] <= C[j]
<1> DEFINE N == Len(Plans[p])
           C == Cumulative(p)
           w == [i \in 1..N |-> Plans[p][i].weight]
<1>1. Plans[p] \in Seq(Flow)
  BY ResultsAssumption DEF Version
<1>2. N \in Nat /\ DOMAIN Plans[p] = 1..N /\ \A i \in 1..N : Plans[p][i] \in Flow
  BY <1>1
<1>3. \A i \in 1..N : Plans[p][i].weight \in Nat \ {0} /\ w[i] = Plans[p][i].weight
  BY <1>2 DEF Flow
<1> HIDE DEF w
<1>4. \E g : g = [i \in 0..N |-> IF i = 0 THEN 0 ELSE g[i - 1] + Plans[p][i].weight]
  <2>1. PICK g : g = [i \in 0..N |-> IF i = 0 THEN 0 ELSE g[i - 1] + w[i]]
    <3> HIDE DEF N
    <3> QED
      BY <1>2, <1>3, SumsExist
  <2>2. [i \in 0..N |-> IF i = 0 THEN 0 ELSE g[i - 1] + w[i]]
          = [i \in 0..N |-> IF i = 0 THEN 0 ELSE g[i - 1] + Plans[p][i].weight]
    <3>1. \A i \in 0..N : i # 0 => w[i] = Plans[p][i].weight
      BY <1>2, <1>3
    <3> QED
      BY <3>1
  <2> QED
    BY <2>1, <2>2
<1>5. C = [i \in 0..N |-> IF i = 0 THEN 0 ELSE C[i - 1] + Plans[p][i].weight]
  <2>1. C = CHOOSE g : g = [i \in 0..N |-> IF i = 0 THEN 0 ELSE g[i - 1] + Plans[p][i].weight]
    BY DEF Cumulative
  <2> HIDE DEF C, N
  <2> QED
    BY <1>4, <2>1, Zenon
<1> HIDE DEF C, N
<1>6. C[0] = 0 /\ \A i \in 1..N : C[i] = C[i - 1] + Plans[p][i].weight
  <2>1. \A i \in 0..N : C[i] = IF i = 0 THEN 0 ELSE C[i - 1] + Plans[p][i].weight
    BY <1>5, Zenon
  <2> QED
    BY <2>1, <1>2
<1>7. \A i \in 0..N : C[i] \in Nat
  <2> DEFINE S == {n \in Nat : n <= N => C[n] \in Nat}
  <2>1. 0 \in S /\ \A n \in Nat : n \in S => n + 1 \in S
    <3>1. ASSUME NEW n \in Nat, n \in S, n + 1 <= N PROVE C[n + 1] \in Nat
      <4>1. n + 1 \in 1..N /\ (n + 1) - 1 = n /\ C[n] \in Nat
        BY <3>1, <1>2
      <4>2. C[n + 1] = C[n] + Plans[p][n + 1].weight /\ Plans[p][n + 1].weight \in Nat
        BY <4>1, <1>3, <1>6
      <4> QED
        BY <4>1, <4>2
    <3> QED
      BY <3>1, <1>6
  <2>2. Nat \subseteq S
    <3> HIDE DEF S
    <3> QED
      BY <2>1, Counting
  <2> QED
    BY <2>2, <1>2
<1>8. \A i, j \in 0..N : i <= j => C[i] <= C[j]
  <2> DEFINE S == {k \in Nat : \A i \in 0..N : i + k <= N => C[i] <= C[i + k]}
  <2>1. 0 \in S
    BY <1>2, <1>7
  <2>2. ASSUME NEW k \in Nat, k \in S, NEW i \in 0..N, i + (k + 1) <= N
        PROVE  C[i] <= C[i + (k + 1)]
    <3>1. /\ i + (k + 1) \in 1..N /\ i + k \in 0..N /\ (i + (k + 1)) - 1 = i + k
          /\ C[i] <= C[i + k]
      BY <2>2, <1>2
    <3>2. /\ C[i + (k + 1)] = C[i + k] + Plans[p][i + (k + 1)].weight
          /\ Plans[p][i + (k + 1)].weight \in Nat /\ C[i + k] \in Nat /\ C[i] \in Nat
      BY <3>1, <1>3, <1>6, <1>7
    <3> QED
      BY <3>1, <3>2
  <2>3. Nat \subseteq S
    <3>1. ASSUME NEW k \in Nat, k \in S PROVE k + 1 \in S
      <4>1. \A i \in 0..N : i + (k + 1) <= N => C[i] <= C[i + (k + 1)]
        BY <2>2, <3>1, Zenon
      <4>2. k + 1 \in Nat
        OBVIOUS
      <4> QED
        BY <4>1, <4>2, Zenon
    <3> HIDE DEF S
    <3> QED
      BY <2>1, <3>1, Counting
  <2>4. ASSUME NEW i \in 0..N, NEW j \in 0..N, i <= j PROVE C[i] <= C[j]
    <3>1. j - i \in Nat /\ i + (j - i) = j /\ i + (j - i) <= N
      BY <2>4, <1>2
    <3>2. j - i \in S
      BY <3>1, <2>3
    <3> QED
      BY <3>1, <3>2
  <2> QED
    BY <2>4
<1> QED
  BY <1>2, <1>3, <1>6, <1>7, <1>8 DEF C, N

(* A flow is selected by as many numbers as its weight says. *)
LEMMA SharesAreWeights ==
    ASSUME NEW p \in Version, NEW i \in DOMAIN Plans[p]
    PROVE  Cardinality({d \in 0..(TotalWeight(p) - 1) : Selects(p, 2 * d + 1, i)})
             = Plans[p][i].weight
<1> DEFINE N == Len(Plans[p])
           C == Cumulative(p)
           D == {d \in 0..(TotalWeight(p) - 1) : Selects(p, 2 * d + 1, i)}
<1>1. /\ N \in Nat /\ DOMAIN Plans[p] = 1..N
      /\ \A k \in 1..N : Plans[p][k].weight \in Nat \ {0}
      /\ C[0] = 0
      /\ \A k \in 0..N : C[k] \in Nat
      /\ \A k \in 1..N : C[k] = C[k - 1] + Plans[p][k].weight
      /\ \A k, j \in 0..N : k <= j => C[k] <= C[j]
  BY CumulativeSums
<1>2. TotalWeight(p) = C[N]
  BY DEF TotalWeight
<1>3. \A x : Selects(p, x, i) <=> x <= 2 * C[i] /\ \A j \in 1..N : j < i => x > 2 * C[j]
  BY <1>1 DEF Selects
<1> HIDE DEF C, N
<1>4. i \in 1..N /\ i \in 0..N /\ i - 1 \in 0..N /\ N \in 0..N
  BY <1>1
<1> DEFINE a == C[i - 1]
           b == C[i]
           t == C[N]
<1>5. /\ a \in Nat /\ b \in Nat /\ t \in Nat /\ b <= t
      /\ b = a + Plans[p][i].weight /\ Plans[p][i].weight \in Nat \ {0}
  BY <1>1, <1>4
<1>6. \A j \in 1..N : j < i => C[j] \in Nat /\ C[j] <= a
  <2>1. ASSUME NEW j \in 1..N, j < i PROVE j \in 0..N /\ j <= i - 1
    BY <2>1, <1>1, <1>4
  <2> QED
    BY <2>1, <1>1, <1>4
<1>7. i - 1 = 0 \/ i - 1 \in 1..N
  BY <1>1, <1>4
<1>8. ASSUME NEW d \in Nat
      PROVE  Selects(p, 2 * d + 1, i) <=> a <= d /\ d < b
  <2>1. 2 * d + 1 <= 2 * b <=> d < b
    <3> HIDE DEF b
    <3> QED
      BY <1>5
  <2>2. \A c \in Nat : 2 * d + 1 > 2 * c <=> c <= d
    OBVIOUS
  <2>3. ASSUME a <= d, NEW j \in 1..N, j < i PROVE 2 * d + 1 > 2 * C[j]
    <3>1. C[j] \in Nat /\ C[j] <= a
      BY <1>6, <2>3
    <3>2. C[j] <= d
      <4> HIDE DEF a
      <4> QED
        BY <3>1, <2>3, <1>5
    <3> QED
      BY <3>1, <3>2, <2>2
  <2>4. ASSUME \A j \in 1..N : j < i => 2 * d + 1 > 2 * C[j] PROVE a <= d
    <3>1. CASE i - 1 = 0
      BY <3>1, <1>1
    <3>2. CASE i - 1 \in 1..N
      <4>1. i - 1 < i
        BY <1>4
      <4>2. 2 * d + 1 > 2 * a
        BY <3>2, <4>1, <2>4
      <4> QED
        BY <4>2, <2>2, <1>5
    <3> QED
      BY <3>1, <3>2, <1>7
  <2> QED
    BY <1>3, <2>1, <2>3, <2>4
<1>9. D = a..(b - 1)
  <2>1. \A d : d \in 0..(TotalWeight(p) - 1) <=> d \in Nat /\ d < t
    <3> HIDE DEF t
    <3>1. TotalWeight(p) = t
      BY <1>2 DEF t
    <3> QED
      BY <1>5, <3>1
  <2>2. \A d : d \in D <=> d \in Nat /\ d < t /\ a <= d /\ d < b
    BY <2>1, <1>8
  <2>3. \A d : d \in a..(b - 1) <=> d \in Nat /\ d < t /\ a <= d /\ d < b
    <3> HIDE DEF a, b, t
    <3> QED
      BY <1>5
  <2> HIDE DEF D, a, b, t
  <2> QED
    BY <2>2, <2>3
<1> HIDE DEF a, b, t
<1>10. Cardinality(a..(b - 1)) = (b - 1) - a + 1
  <2>1. a \in Int /\ b - 1 \in Int /\ ~(a > b - 1)
    BY <1>5
  <2> QED
    BY <2>1, FS_Interval, Zenon
<1>11. Cardinality(D) = Plans[p][i].weight
  <2> HIDE DEF D
  <2> QED
    BY <1>5, <1>9, <1>10
<1> QED
  BY <1>11

(* The script picks each flow of the scenario as often as its weight asks  *)
(* for, whatever the flows and their weights.                              *)
THEOREM WeightsAreShares == Spec => []FlowSharesAreWeights
<1>1. TypeOK => FlowSharesAreWeights
  <2> SUFFICES ASSUME TypeOK, script # 0, NEW i \in DOMAIN Plans[script]
               PROVE  Cardinality({d \in 0..(TotalWeight(script) - 1) :
                                      Selects(script, 2 * d + 1, i)})
                          = Plans[script][i].weight
    BY DEF FlowSharesAreWeights
  <2>1. script \in Version
    BY ResultsAssumption DEF TypeOK, Version
  <2> QED
    BY <2>1, SharesAreWeights
<1>2. ResultsInv => TypeOK
  BY DEF ResultsInv
<1> QED
  BY <1>1, <1>2, ResultsSafe, PTL

=============================================================================
