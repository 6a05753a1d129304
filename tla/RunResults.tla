----------------------------- MODULE RunResults -----------------------------
(***************************************************************************)
(* What becomes of the results of one run: the script K6Service writes     *)
(* from the scenario, the points its virtual users leave in InfluxDB, and  *)
(* the completions that ask for them and store numbers for the run and for *)
(* every step of the scenario as it is by then.                            *)
(*                                                                         *)
(* The scenario is saved anew, or removed, at any time; the versions it    *)
(* goes through are in Plans.  A run is completed more than once when its  *)
(* watch breaks after it has reported the end, and k6 may still be at work *)
(* then, as the job controller retries its pod.  LoadTestRuns says when    *)
(* completions come; here they come at any time once the run is dated.     *)
(*                                                                         *)
(* InfluxDB has a point as soon as its request has ended.  Points have     *)
(* finer times than dates: Grain instants of the clock make a millisecond. *)
(* A request leaves its points in the measurements at once.  Of the        *)
(* numbers of a step only the number of its requests is kept, and a step   *)
(* stands for its flow, too.                                               *)
(***************************************************************************)
EXTENDS Naturals, Sequences, FiniteSets

CONSTANTS
    Step,        \* step ids
    NameOf,      \* their names, as far as they differ in the script
    User,        \* virtual users
    Completion,  \* calls of onComplete for the run
    Plans,       \* the versions of the scenario, in the order they are saved
    Pause,       \* how long a user sleeps after a request
    Grain,       \* instants of a millisecond
    MaxTime,     \* bound: the clock stops there
    Whole        \* the query for the run, which names no step

Version == 1..Len(Plans)
Time == 1..MaxTime

(* The validation asks for weights of at least 1; a version may be empty. *)
Flow == [name : STRING, weight : Nat \ {0}, steps : Seq(Step)]

StepsOf(p) ==
    IF p = 0 THEN {}
    ELSE UNION {{Plans[p][i].steps[j] : j \in DOMAIN Plans[p][i].steps} :
                    i \in DOMAIN Plans[p]}

(* A step that is gone does not come back: new steps get new ids. *)
ASSUME ResultsAssumption ==
    /\ Plans \in Seq(Seq(Flow)) /\ Plans # <<>>
    /\ \A p, q, r \in Version :
            p < q /\ q < r => StepsOf(p) \cap StepsOf(r) \subseteq StepsOf(q)
    /\ Pause \in Nat \ {0} /\ Grain \in Nat \ {0} /\ MaxTime \in Nat \ {0}
    /\ Whole \notin Step

VARIABLES
    version,     \* the saved version of the scenario, 0 once it is removed
    script,      \* the version k6 runs, 0 before the start
    user,        \* what the virtual users have yet to do, and from when on
    points,      \* http_req_duration of the run
    row,         \* the row of the run: its dates, and numbers of the run
    metrics,     \* the rows of RunHistoryMetrics
    completion,  \* the completions
    now          \* the clock

vars == <<version, script, user, points, row, metrics, completion, now>>

-----------------------------------------------------------------------------
(* The script *)

(* Selected by the script when random is half of x, an odd number: there   *)
(* are as many of them below 2 * TotalWeight as shares of the same size.   *)
Cumulative(p) ==
    LET sum[i \in 0..Len(Plans[p])] ==
            IF i = 0 THEN 0 ELSE sum[i - 1] + Plans[p][i].weight
    IN  sum

TotalWeight(p) == Cumulative(p)[Len(Plans[p])]

(* Mutant: the weights are not added up. *)
Selects_Alone(p, x, i) ==
    /\ x <= 2 * Plans[p][i].weight
    /\ \A j \in DOMAIN Plans[p] : j < i => x > 2 * Plans[p][j].weight

(* The first flow whose cumulative weight reaches random.  The fallback to *)
(* the first flow is never needed, as random is below the total weight.    *)
Selects(p, x, i) ==
    /\ x <= 2 * Cumulative(p)[i]
    /\ \A j \in DOMAIN Plans[p] : j < i => x > 2 * Cumulative(p)[j]

(* Flows become functions and steps constants of their function: k6 does   *)
(* not load a script that declares one of them twice.                      *)
Loads(p) ==
    /\ \A i, k \in DOMAIN Plans[p] : Plans[p][i].name = Plans[p][k].name => i = k
    /\ \A i \in DOMAIN Plans[p] : \A a, b \in DOMAIN Plans[p][i].steps :
            NameOf[Plans[p][i].steps[a]] = NameOf[Plans[p][i].steps[b]] => a = b

-----------------------------------------------------------------------------
(* Points and dates *)

(* convertNanoDateToDate *)
Floor(t) == t - (t % Grain)

(* Mutant: the end belongs to the interval. *)
Inside_Closed(s, from, to) == {q \in points : q.step = s /\ from < q.at /\ q.at <= to}

(* queryMetrics leaves out both ends of the interval. *)
Inside(s, from, to) == {q \in points : q.step = s /\ from < q.at /\ q.at < to}

(* Mutant: the query for the run filters by the empty tags of the options. *)
Groups_Untagged(x, from, to) ==
    {s \in Step : x = s /\ Inside(s, from, to) # {}}

(* The groups of the answer, which are those of single steps whether or    *)
(* not the query names one; a group without points is not in the answer.   *)
Groups(x, from, to) ==
    {s \in Step : (x = Whole \/ x = s) /\ Inside(s, from, to) # {}}

Point == [user : User, step : Step, at : Time]

Number == [by : Completion, step : Step, from : 0..MaxTime, to : 0..MaxTime,
           count : Nat]

RowRecord == [runAt : 0..MaxTime, endAt : 0..MaxTime, dated : BOOLEAN,
              numbers : SUBSET Number]

NoRow == [runAt |-> 0, endAt |-> 0, dated |-> FALSE, numbers |-> {}]

Pc == {"off", "save", "read", "measure", "announced", "rejected", "crashed"}

Waiting(pc, to, asked) ==
    [pc |-> pc, from |-> 0, to |-> to, asked |-> asked, todo |-> {}, got |-> {}]

Idle(pc) == Waiting(pc, 0, {})

CompletionRecord ==
    [pc : Pc, from : 0..MaxTime, to : 0..MaxTime, asked : SUBSET Step,
     todo : SUBSET (Step \cup {Whole}),
     got : SUBSET [of : Step \cup {Whole}, step : Step, count : Nat]]

TypeOK ==
    /\ version \in 0..Len(Plans)
    /\ script \in 0..Len(Plans)
    /\ user \in [User -> [rest : Seq(Step), wake : Nat]]
    /\ points \subseteq Point
    /\ row \in RowRecord
    /\ metrics \subseteq Number
    /\ completion \in [Completion -> CompletionRecord]
    /\ now \in Time

Init ==
    /\ version = 1
    /\ script = 0
    /\ user = [u \in User |-> [rest |-> <<>>, wake |-> 0]]
    /\ points = {}
    /\ row = NoRow
    /\ metrics = {}
    /\ completion = [c \in Completion |-> Idle("off")]
    /\ now = 1

k6 == <<script, user, points>>
results == <<row, metrics, completion>>

-----------------------------------------------------------------------------
(* The scenario.  The steps that a new version no longer has take their    *)
(* rows with them.                                                         *)
UpdateScenario ==
    /\ version # 0
    /\ \E p \in Version : p > version /\ version' = p
    /\ metrics' = {n \in metrics : n.step \in StepsOf(version')}
    /\ UNCHANGED <<k6, row, completion, now>>

RemoveScenario ==
    /\ version # 0
    /\ version' = 0
    /\ row' = NoRow
    /\ metrics' = {}
    /\ UNCHANGED <<k6, completion, now>>

-----------------------------------------------------------------------------
(* The run.  A scenario without flows has no first flow to fall back to:   *)
(* the script is never written.                                            *)
StartK6 ==
    /\ script = 0
    /\ version # 0
    /\ Plans[version] # <<>>
    /\ script' = version
    /\ UNCHANGED <<version, user, points, results, now>>

Awake(u) == script # 0 /\ Loads(script) /\ user[u].wake <= now

Request(u, steps) ==
    /\ steps # <<>>
    /\ points' = points \cup {[user |-> u, step |-> Head(steps), at |-> now]}
    /\ user' = [user EXCEPT ![u] = [rest |-> Tail(steps), wake |-> now + Pause]]
    /\ UNCHANGED <<version, script, results, now>>

(* A new iteration: the first request of the flow it picks. *)
PickFlow(u) ==
    /\ Awake(u) /\ user[u].rest = <<>>
    /\ \E d \in 0..(TotalWeight(script) - 1), i \in DOMAIN Plans[script] :
        Selects(script, 2 * d + 1, i) /\ Request(u, Plans[script][i].steps)

NextStep(u) ==
    /\ Awake(u) /\ user[u].rest # <<>>
    /\ Request(u, user[u].rest)

(* The start knows the first point and stores its date. *)
SaveRunAt ==
    /\ version # 0 /\ ~row.dated
    /\ \E first \in points :
        /\ \A q \in points : first.at <= q.at
        /\ row' = [runAt |-> Floor(first.at), endAt |-> row.endAt, dated |-> TRUE,
                   numbers |-> row.numbers]
    /\ UNCHANGED <<version, k6, metrics, completion, now>>

TimePasses ==
    /\ now < MaxTime
    /\ now' = now + 1
    /\ UNCHANGED <<version, k6, results>>

-----------------------------------------------------------------------------
(* Completions *)

Put(c, record) == completion' = [completion EXCEPT ![c] = record]

(* onComplete: getEndAt. *)
Complete(c) ==
    /\ completion[c].pc = "off"
    /\ version # 0 => row.dated
    /\ \E last \in points :
        /\ \A q \in points : q.at <= last.at
        /\ Put(c, Waiting("save", Floor(last.at), {}))
    /\ UNCHANGED <<version, k6, row, metrics, now>>

SaveEndAt(c) ==
    /\ completion[c].pc = "save"
    /\ version # 0
    /\ row' = [runAt |-> row.runAt, endAt |-> completion[c].to, dated |-> row.dated,
               numbers |-> row.numbers]
    /\ Put(c, Idle("read"))
    /\ UNCHANGED <<version, k6, metrics, now>>

(* updateRunHistoryWithMetrics: findUnique gives the dates of the row and  *)
(* the flows of the scenario as they are now.                              *)
FindRun(c) ==
    /\ completion[c].pc = "read"
    /\ version # 0
    /\ Put(c, [pc |-> "measure", from |-> row.runAt, to |-> row.endAt,
               asked |-> StepsOf(version), todo |-> StepsOf(version) \cup {Whole},
               got |-> {}])
    /\ UNCHANGED <<version, k6, row, metrics, now>>

(* The metrics that are asked for run side by side. *)
Goto(c, todo, got) ==
    Put(c, [pc |-> "measure", from |-> completion[c].from, to |-> completion[c].to,
            asked |-> completion[c].asked, todo |-> todo, got |-> got])

(* getMetrics, of a step or of the run: the first group of the answer is   *)
(* taken.                                                                  *)
GetMetrics(c, x) ==
    LET me == completion[c] IN
    /\ me.pc = "measure" /\ x \in me.todo
    /\ version # 0
    /\ \E s \in Groups(x, me.from, me.to) :
        Goto(c, me.todo \ {x}, me.got \cup
            {[of |-> x, step |-> s, count |-> Cardinality(Inside(s, me.from, me.to))]})
    /\ UNCHANGED <<version, k6, row, metrics, now>>

NumberOf(c, g) ==
    [by |-> c, step |-> g.step, from |-> completion[c].from, to |-> completion[c].to,
     count |-> g.count]

Answered(c, g) ==
    /\ completion[c].pc = "measure" /\ g \in completion[c].got
    /\ Goto(c, completion[c].todo, completion[c].got \ {g})

(* Mutant: a step that is gone is passed over, and so is one that is not. *)
StoreMetrics_Skips(c, g) ==
    /\ g.of # Whole
    /\ Answered(c, g)
    /\ UNCHANGED <<version, k6, row, metrics, now>>

(* The row of a step refers to the step. *)
StoreMetrics(c, g) ==
    /\ g.of # Whole /\ g.step \in StepsOf(version)
    /\ metrics' = metrics \cup {NumberOf(c, g)}
    /\ Answered(c, g)
    /\ UNCHANGED <<version, k6, row, now>>

StoreRun(c, g) ==
    /\ g.of = Whole /\ version # 0
    /\ row' = [runAt |-> row.runAt, endAt |-> row.endAt, dated |-> row.dated,
               numbers |-> {NumberOf(c, g)}]
    /\ Answered(c, g)
    /\ UNCHANGED <<version, k6, metrics, now>>

Announce(c) ==
    /\ completion[c].pc = "measure"
    /\ completion[c].todo = {} /\ completion[c].got = {}
    /\ Put(c, Waiting("announced", 0, completion[c].asked))
    /\ UNCHANGED <<version, k6, row, metrics, now>>

UnderWay(c) == completion[c].pc \in {"save", "read", "measure"}

(* A rejection nobody catches ends the process, and with it the others. *)
ProcessDies(by) ==
    /\ completion' = [c \in Completion |->
            IF ~UnderWay(c) THEN completion[c]
            ELSE IF c \in by THEN Idle("rejected") ELSE Idle("crashed")]
    /\ UNCHANGED <<version, k6, row, metrics, now>>

Crash == (\E c \in Completion : UnderWay(c)) /\ ProcessDies({})

(* A row or a step that is gone, or a step without a point in the          *)
(* interval: the code reads the first group of an empty answer.            *)
Rejects(c) ==
    LET me == completion[c] IN
    \/ me.pc \in {"save", "read"} /\ version = 0
    \/ /\ me.pc = "measure"
       /\ \/ \E x \in me.todo : version = 0 \/ Groups(x, me.from, me.to) = {}
          \/ \E g \in me.got :
                version = 0 \/ (g.of # Whole /\ g.step \notin StepsOf(version))

UnhandledRejection(c) == Rejects(c) /\ ProcessDies({c})

-----------------------------------------------------------------------------
CompletionNext(c) ==
    \/ SaveEndAt(c) \/ FindRun(c) \/ Announce(c) \/ UnhandledRejection(c)
    \/ \E x \in completion[c].todo : GetMetrics(c, x)
    \/ \E g \in completion[c].got : StoreMetrics(c, g) \/ StoreRun(c, g)

Next ==
    \/ UpdateScenario \/ RemoveScenario
    \/ StartK6 \/ SaveRunAt \/ TimePasses
    \/ \E u \in User : PickFlow(u) \/ NextStep(u)
    \/ \E c \in Completion : Complete(c) \/ CompletionNext(c)
    \/ Crash

Spec == Init /\ [][Next]_vars

(* Node goes on with a completion when the call it awaits has ended. *)
FairSpec == Spec /\ \A c \in Completion : WF_vars(CompletionNext(c))

-----------------------------------------------------------------------------
(* Properties *)

(* The numbers that are stored, of a step as of the run, are of an         *)
(* interval that is over: points that k6 adds later, when its pod is       *)
(* retried or the watch was wrong about its end, do not belong to it, and  *)
(* neither do their milliseconds.  The interval has a length, by which the *)
(* throughput is divided.                                                  *)
NumbersAreFinal ==
    \A n \in metrics \cup row.numbers :
        /\ n.from < n.to
        /\ Inside(n.step, n.from, n.to) # {}
        /\ n.count = Cardinality(Inside(n.step, n.from, n.to))

(* When a completion is announced, the run has its numbers and every step  *)
(* the completion has found has them as well, if the scenario still has    *)
(* it, whatever other completions and updates came between.                *)
AnnouncedRunsAreMeasured ==
    \A c \in Completion :
        completion[c].pc = "announced" /\ version # 0 =>
            /\ row.numbers # {}
            /\ \A s \in completion[c].asked \cap StepsOf(version) :
                    \E n \in metrics : n.by = c /\ n.step = s

ResultsInv == TypeOK /\ NumbersAreFinal /\ AnnouncedRunsAreMeasured

(* A flow is run as often as its weight asks for. *)
FlowSharesAreWeights ==
    script # 0 =>
        \A i \in DOMAIN Plans[script] :
            Cardinality({d \in 0..(TotalWeight(script) - 1) :
                            Selects(script, 2 * d + 1, i)})
                = Plans[script][i].weight

(* Nothing but a missing step or a crash keeps a completion that has begun *)
(* to measure from being announced: if k6 has run every step inside the    *)
(* interval and the scenario stays as it is, it is.                        *)
Measurable(c) ==
    /\ completion[c].pc = "measure"
    /\ completion[c].asked = StepsOf(version) /\ StepsOf(version) # {}
    /\ \A s \in StepsOf(version) :
            Inside(s, completion[c].from, completion[c].to) # {}

SteadyRunsAreMeasured ==
    \A c \in Completion :
        Measurable(c)
            ~> \/ completion[c].pc \in {"announced", "crashed"}
               \/ completion[c].pc = "measure" /\ completion[c].asked # StepsOf(version)

=============================================================================
