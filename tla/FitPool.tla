------------------------------- MODULE FitPool -------------------------------
(***************************************************************************)
(* The pool that fits the charge spectra: the last part of                 *)
(* reanalyze_led_charge_run and all of fit_cpp_histograms_parallel.        *)
(*                                                                         *)
(* The tasks are submitted to a process pool, and their rows collected in  *)
(* the order in which the tasks end.  If the pool cannot be used, the rows *)
(* so far are thrown away and every task is run again in a thread pool.    *)
(* Leaving the pool's with block waits for the tasks that still run or     *)
(* wait.  A task writes its result to a file of its own, so two executions *)
(* of one task must never overlap.                                         *)
(***************************************************************************)
EXTENDS Integers, Sequences, FiniteSets, FiniteSetsExt, SequencesExt

CONSTANTS
  Tasks,   \* the tasks: numbers in the order of (channel, intensity)
  Jobs     \* bound: workers asked for

(* The tasks are a list that is built before the pool.                     *)
ASSUME PoolAssumption ==
  Tasks \subseteq Nat /\ IsFiniteSet(Tasks) /\ Tasks # {} /\ Jobs \in Nat \ {0}

Executor == {"process", "thread"}

(* What an execution of a task comes to: a row, a row that says the fit    *)
(* failed (the reanalysis only), a PermissionError or another exception.   *)
Outcome == {"ok", "failed", "permission", "exception"}
IsRow(o) == o \in {"ok", "failed"}

VARIABLES
  jobs,     \* the --jobs argument
  script,   \* "reanalyze" or "cpp"
  fstep,    \* "off", "submit", "serial", "collect", "leave", "summary",
            \* "report" or "died"
  pool,     \* the executor in use
  future,   \* per executor and task: "none", "waiting", "running" or an outcome
  taken,    \* futures as_completed has yielded
  rows,     \* fit_rows: pairs of a task and its outcome
  csv,      \* rows of fit_summary.csv
  error     \* the exception that ends the with block

fitvars == <<jobs, script, fstep, pool, future, taken, rows, csv, error>>

NoFutures == [e \in Executor |-> [t \in Tasks |-> "none"]]

PoolRest == /\ pool = "process" /\ future = NoFutures /\ taken = {}
            /\ rows = <<>> /\ csv = <<>> /\ error = "none"
PoolOff == jobs = 1 /\ script = "cpp" /\ fstep = "off" /\ PoolRest
PoolInit == /\ jobs \in 1 .. Jobs /\ script \in {"reanalyze", "cpp"}
            /\ fstep = "submit" /\ PoolRest

(* _resolve_jobs: never more workers than tasks, and one for one task.     *)
_resolve_jobs == IF Cardinality(Tasks) <= 1 THEN 1
                 ELSE Max({1, Min({jobs, Cardinality(Tasks)})})

Waiting == [t \in Tasks |-> "waiting"]

(* One job: no pool at all.  Otherwise the process pool takes every task;  *)
(* it may be refused by the system.                                        *)
SubmitTasks ==
  /\ fstep = "submit"
  /\ \/ /\ _resolve_jobs = 1 /\ fstep' = "serial"
        /\ UNCHANGED <<pool, future, error>>
     \/ /\ _resolve_jobs > 1 /\ fstep' = "collect"
        /\ future' = [future EXCEPT !["process"] = Waiting]
        /\ UNCHANGED <<pool, error>>
     \/ /\ _resolve_jobs > 1 /\ fstep' = "leave" /\ error' = "permission"
        /\ UNCHANGED <<pool, future>>
  /\ UNCHANGED <<jobs, script, taken, rows, csv>>

(* The exceptions a task lets out: the histogram task any, the reanalysis  *)
(* task only those of the mkdir before its try block.  The histogram task  *)
(* has no row for a failed fit.                                            *)
Outcomes == IF script = "cpp" THEN Outcome \ {"failed"} ELSE Outcome

RunSerial ==
  /\ fstep = "serial"
  /\ \E o \in Outcomes, t \in Tasks :
       /\ t = Min(Tasks \ taken)
       /\ taken' = taken \cup {t}
       /\ \/ IsRow(o) /\ rows' = Append(rows, <<t, o>>)
             /\ fstep' = IF Tasks = taken' THEN "summary" ELSE "serial"
          \/ ~IsRow(o) /\ fstep' = "died" /\ UNCHANGED rows
  /\ UNCHANGED <<jobs, script, pool, future, csv, error>>

(* A worker starts the next task in the pool's queue, and ends it.         *)
StartTask(e, t) ==
  /\ future[e][t] = "waiting"
  /\ \A u \in Tasks : u < t => future[e][u] # "waiting"
  /\ Cardinality({u \in Tasks : future[e][u] = "running"}) < _resolve_jobs
  /\ future' = [future EXCEPT ![e][t] = "running"]
  /\ UNCHANGED <<jobs, script, fstep, pool, taken, rows, csv, error>>

EndTask(e, t) ==
  /\ future[e][t] = "running"
  /\ \E o \in Outcomes : future' = [future EXCEPT ![e][t] = o]
  /\ UNCHANGED <<jobs, script, fstep, pool, taken, rows, csv, error>>

(* as_completed yields a future that is done: its row is appended, or its  *)
(* exception raised, which ends the loop.                                  *)
Collect(t) ==
  /\ fstep = "collect" /\ t \notin taken
  /\ future[pool][t] \in Outcome
  /\ taken' = taken \cup {t}
  /\ \/ IsRow(future[pool][t]) /\ rows' = Append(rows, <<t, future[pool][t]>>)
        /\ fstep' = (IF Tasks = taken' THEN "summary" ELSE "collect")
        /\ UNCHANGED error
     \/ ~IsRow(future[pool][t]) /\ error' = future[pool][t] /\ fstep' = "leave"
        /\ UNCHANGED rows
  /\ UNCHANGED <<jobs, script, pool, future, csv>>

(* Mutant: the with block is left while tasks still run.                   *)
AllEnded_No == TRUE

AllEnded == \A t \in Tasks : future[pool][t] \notin {"waiting", "running"}

(* Mutant: the rows of the process pool are kept.                          *)
KeptRows_All == rows

KeptRows == <<>>

(* Mutant: every exception is caught, also that of the thread pool.        *)
Fallback_Always == TRUE

(* The reanalysis catches a PermissionError, the histogram fit any         *)
(* exception, and only that of the process pool.                           *)
Fallback == pool = "process" /\ (script = "cpp" \/ error = "permission")

(* The with block ends once every task has; then all is run again in       *)
(* threads, or the exception leaves main.                                  *)
LeavePool ==
  /\ fstep = "leave" /\ AllEnded
  /\ \/ /\ Fallback
        /\ pool' = "thread" /\ fstep' = "collect" /\ error' = "none"
        /\ rows' = KeptRows /\ taken' = {}
        /\ future' = [future EXCEPT !["thread"] = Waiting]
     \/ /\ ~Fallback
        /\ fstep' = "died" /\ UNCHANGED <<pool, error, rows, taken, future>>
  /\ UNCHANGED <<jobs, script, csv>>

(* The sort by task, which is stable: the place of a row is the number of  *)
(* rows that come before it.                                               *)
Before(h, j) == \/ rows[h][1] < rows[j][1]
                \/ rows[h][1] = rows[j][1] /\ h < j
Place(j) == Cardinality({h \in DOMAIN rows : Before(h, j)}) + 1
Sorted == [p \in DOMAIN rows |-> rows[CHOOSE j \in DOMAIN rows : Place(j) = p]]

(* The rows a DictWriter accepts whose columns are those of the first row: *)
(* a failed fit of the reanalysis has one more, the error.                 *)
Written(s) ==
  LET bad == {j \in DOMAIN s : s[j][2] = "failed" /\ s[1][2] # "failed"}
  IN IF bad = {} THEN s ELSE SubSeq(s, 1, Min(bad) - 1)

(* The rows are sorted and written; a row with an unknown column raises    *)
(* when it is its turn.  The report follows.                               *)
WriteSummary ==
  /\ fstep = "summary"
  /\ rows' = Sorted
  /\ csv' = Written(Sorted)
  /\ fstep' = IF csv' = rows' THEN "report" ELSE "died"
  /\ UNCHANGED <<jobs, script, pool, future, taken, error>>

FitStep ==
  \/ SubmitTasks \/ RunSerial \/ LeavePool \/ WriteSummary
  \/ \E t \in Tasks : Collect(t)
  \/ \E e \in Executor, t \in Tasks : StartTask(e, t) \/ EndTask(e, t)

PoolSpec == PoolInit /\ [][FitStep]_fitvars

-----------------------------------------------------------------------------
(* Properties.                                                             *)

(* When the report is written the summary has exactly one row per task, in *)
(* order, and each is the row of the executor that was used in the end.    *)
OneRowPerTask ==
  fstep = "report" =>
    /\ Len(csv) = Cardinality(Tasks)
    /\ \A j, h \in DOMAIN csv : j < h => csv[j][1] < csv[h][1]
    /\ \A j \in DOMAIN csv : _resolve_jobs > 1 => future[pool][csv[j][1]] = csv[j][2]

(* Two executions of one task never run at the same time: the second would *)
(* write the files of the first.                                           *)
NoOverlap ==
  \A t \in Tasks :
    Cardinality({e \in Executor : future[e][t] = "running"}) <= 1

(* The pool never hangs: every script ends with a report or an exception.  *)
FitEnds == fstep = "submit" ~> fstep \in {"report", "died"}

(* Every script of fits ends, with one row per task and without a task     *)
(* that ran twice at a time.                                               *)
FitsAreSound == [](OneRowPerTask /\ NoOverlap) /\ FitEnds
=============================================================================
