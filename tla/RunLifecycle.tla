---------------------------- MODULE RunLifecycle ----------------------------
(***************************************************************************)
(* What the server promises of the history of its runs, whichever starts,  *)
(* stops, watches and removals are under way: the row of a run appears as  *)
(* RUNNING, gets its dates, ends, may be measured, and may vanish with its *)
(* scenario.  It never runs again.                                         *)
(*                                                                         *)
(* This is the abstract specification of the rows.  LoadTestRuns says how  *)
(* the code gets there and implements it; StatusStreams builds on it to    *)
(* say what the users are told.                                            *)
(***************************************************************************)
CONSTANT Run   \* run-history ids the database can hand out

VARIABLE runs  \* what the run-history table says of each run

Terminal == {"SUCCESS", "FAILED", "ABORTED"}
RunHistoryStatus == {"RUNNING"} \cup Terminal

Fresh(status) ==
    [status |-> status, runAt |-> FALSE, endAt |-> FALSE, measured |-> FALSE]

Unborn == Fresh("NONE")

Known(r) == runs[r].status \in RunHistoryStatus

Write(r, row) == runs' = [runs EXCEPT ![r] = row]

Init == runs = [r \in Run |-> Unborn]

Create(r) ==
    /\ runs[r] = Unborn
    /\ Write(r, Fresh("RUNNING"))

(* The first point of k6 is known.  The status is left alone: the run may  *)
(* have ended meanwhile.                                                   *)
SetRunAt(r) ==
    /\ Known(r)
    /\ Write(r, [runs[r] EXCEPT !.runAt = TRUE])

(* A start that fails has found out both dates. *)
FailToStart(r) ==
    /\ Known(r)
    /\ Write(r, [runs[r] EXCEPT !.status = "FAILED", !.runAt = TRUE, !.endAt = TRUE])

(* Only a stopped run may have ended without a beginning.  The last writer *)
(* has its way.                                                            *)
End(r, status) ==
    /\ Known(r)
    /\ status # "ABORTED" => runs[r].runAt
    /\ Write(r, [runs[r] EXCEPT !.status = status, !.endAt = TRUE])

(* Metrics are of an interval, so they come after both dates; the outcome  *)
(* is written with them once more.                                         *)
Measure(r, status) ==
    /\ runs[r].status \in Terminal
    /\ runs[r].runAt /\ runs[r].endAt
    /\ Write(r, [runs[r] EXCEPT !.status = status, !.measured = TRUE])

(* The rows of a scenario go together. *)
Remove(S) ==
    /\ \A r \in S : Known(r)
    /\ runs' = [r \in Run |-> IF r \in S THEN Fresh("DELETED") ELSE runs[r]]

Next ==
    \/ \E r \in Run : Create(r) \/ SetRunAt(r) \/ FailToStart(r)
    \/ \E r \in Run, status \in Terminal : End(r, status)
    \/ \E r \in Run, status \in {"SUCCESS", "FAILED"} : Measure(r, status)
    \/ \E S \in SUBSET Run : Remove(S)

Spec == Init /\ [][Next]_runs

=============================================================================
