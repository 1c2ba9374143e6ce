------------------------------ MODULE Benchmark ------------------------------
(***************************************************************************)
(* benchmarking/run_benchmark.sh around ParallelRun: every run that the    *)
(* command line asks for is one invocation of run_tests_parallel.sh,       *)
(* repeated as a whole when it is incomplete, and its report is kept.      *)
(***************************************************************************)
EXTENDS ParallelRun

CONSTANTS
  Runs,          \* RUNS times the number of values of --jobs
  RunRetries     \* RUN_RETRIES

ASSUME BenchmarkAssumption == Runs \in Nat \ {0} /\ RunRetries \in Nat

VARIABLES
  run_attempt,      \* attempt of run_once
  results,          \* RESULTS_DIR: the pairs with results, run by run
  incomplete_runs,  \* INCOMPLETE_RUNS: the runs, by number
  bench_rc          \* the exit code, -1 before

benchVars == <<run_attempt, results, incomplete_runs, bench_rc>>
vars == <<runVars, benchVars>>

\* The pairs of the merged report.
Covered == {p \in Pairs : xml[p] \in Complete}

Init ==
  /\ RunInit
  /\ run_attempt = 0
  /\ results = <<>>
  /\ incomplete_runs = {}
  /\ bench_rc = -1

InvocationEnded == pc = "exited" /\ bench_rc = -1

\* run_once: exit code 3 repeats the whole run.
Repeat ==
  /\ InvocationEnded /\ rc = 3
  /\ run_attempt < RunRetries
  /\ run_attempt' = run_attempt + 1
  /\ Prepare
  /\ UNCHANGED <<results, incomplete_runs, bench_rc>>

\* Mutant: only a first attempt is noted.
Incomplete_FirstOnly == rc = 3 /\ run_attempt = 0

Incomplete == rc = 3

\* run_once keeps the reports; an incomplete run is noted.  After the last run
\* the benchmark fails if one was incomplete.
Keep ==
  /\ InvocationEnded
  /\ rc = 0 \/ (rc = 3 /\ run_attempt >= RunRetries)
  /\ results' = Append(results, Covered)
  /\ incomplete_runs' = IF Incomplete THEN incomplete_runs \cup {Len(results')}
                        ELSE incomplete_runs
  /\ run_attempt' = 0
  /\ IF Len(results') < Runs
     THEN Prepare /\ UNCHANGED bench_rc
     ELSE /\ bench_rc' = IF incomplete_runs' = {} THEN 0 ELSE 1
          /\ UNCHANGED runVars

\* Any other exit code ends the benchmark.
Abort ==
  /\ InvocationEnded /\ rc = 1
  /\ bench_rc' = 1
  /\ UNCHANGED <<runVars, run_attempt, results, incomplete_runs>>

Next == \/ RunNext /\ UNCHANGED benchVars
        \/ Repeat \/ Keep \/ Abort

\* The scripts run on, Docker answers, and every container that does not hang
\* comes to its end.
Fairness ==
  /\ WF_vars((Launch \/ Retry \/ Finish \/ KillContainers \/ RemoveNetworks) /\ UNCHANGED benchVars)
  /\ \A p \in Pairs : WF_vars(RunPair(p) /\ UNCHANGED benchVars)
  /\ WF_vars(Repeat \/ Keep \/ Abort)

Spec == Init /\ [][Next]_vars /\ Fairness

----------------------------------------------------------------------------
(* Properties *)

\* Never more than MAX_JOBS pairs are being tested, although RUNNING_PIDS is
\* pruned only when the next pair is to be started and a pass may begin while
\* it still names finished processes.
SlotsKept == Cardinality({p \in Pairs : job[p] \in Alive}) <= MaxJobs

\* Exit code 0 of run_tests_parallel.sh, "All pairs have results": every pair
\* has a report that is not cut off, from this invocation if the old ones could
\* be archived, whatever failed on the way.
ZeroMeansCovered ==
  pc = "exited" /\ rc = 0 =>
    \A p \in Pairs : xml[p] \in Complete /\ (archived => xml[p] # "old")

\* A pair's results are in its report twice only if a copy had failed.
ResultsOnce == \A p \in Pairs : xml[p] = "double" => p \notin copied

\* Success of the benchmark: every run that was asked for is there and has
\* covered all pairs, so that the runs can be compared.
SuccessIsComparable ==
  bench_rc = 0 => Len(results) = Runs /\ \A i \in 1..Runs : results[i] = Pairs

\* Some container hangs, and its shell with it.
Hangs == pc = "launch" /\ \E p \in Pairs : job[p] = "hung"

\* The benchmark comes to its end, whatever fails, unless a container hangs for
\* ever: nothing but an interrupt ends that.
BenchmarkEnds == <>(bench_rc # -1) \/ <>[]Hangs

\* README_INCOMPLETES_RUNS.md: pairs missing after the retries are listed, the
\* reports are generated all the same and the script ends with code 3.
IncompleteIsThree ==
  [][pc = "launch" /\ pc' = "exited" /\ MissingIdx # {} /\ Covered # {} => rc' = 3]_vars

=============================================================================
