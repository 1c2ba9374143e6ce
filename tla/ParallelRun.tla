----------------------------- MODULE ParallelRun -----------------------------
(***************************************************************************)
(* One invocation of benchmarking/run_tests_parallel.sh: every pair of a   *)
(* publisher and a subscriber is tested in a container on a network of its *)
(* own, at most MAX_JOBS at a time; pairs without a report are retried.    *)
(*                                                                         *)
(* Docker, and interoperability_report.py in the container, are seen from  *)
(* outside: networks and containers may fail to appear, a container may    *)
(* die at any point, also while it writes its report, or never end: docker *)
(* run has no time-out, and interoperability_report.py waits for ever for  *)
(* the other side of a process that an exception has ended.                *)
(***************************************************************************)
EXTENDS Integers, Sequences, FiniteSets, FiniteSetsExt

CONSTANTS
  Pairs,         \* the indices of PAIRS_PUB and PAIRS_SUB
  MaxJobs,       \* MAX_JOBS
  PairRetries,   \* PAIR_RETRIES
  ReportsMayFail,\* generate_reports.sh may fail on good reports (its image, xunit-viewer)
  Networks       \* how many networks Docker's address pool has room for

ASSUME ParallelRunAssumption ==
  /\ Pairs \subseteq Nat /\ IsFiniteSet(Pairs)
  /\ MaxJobs \in Nat \ {0}
  /\ PairRetries \in Nat /\ Networks \in Nat /\ ReportsMayFail \in BOOLEAN

VARIABLES
  pc,           \* "launch", "killed", "sweep" or "exited"
  queue,        \* the pairs run_pass has still to start
  running_pids, \* RUNNING_PIDS, by pair
  job,          \* the background shell of a pair: where it is in run_pair
  networks,     \* the pairs whose dds_net_* exists
  containers,   \* the pairs whose container runs
  work,         \* the report in the work-dir of a pair
  xml,          \* the report of a pair in SCRIPT_DIR
  attempt,
  rc,           \* the exit code
  archived,     \* history: the old reports could be moved away
  copied        \* history: the pairs none of whose copies has failed

script == <<pc, queue, running_pids, attempt, rc>>
docker == <<networks, containers>>
history == <<archived, copied>>
runVars == <<script, job, docker, work, xml, history>>

Alive == {"network", "starting", "running", "hung", "copy"}

\* A report is "none" or "empty", "partial" (cut off while it was written),
\* "full", "double" (the results of two attempts) or "old" (of an earlier
\* invocation).
Complete == {"full", "double", "old"}

NoReports == [p \in Pairs |-> "none"]

\* The first invocation, in a directory without reports.
RunInit ==
  /\ pc = "launch" /\ queue = Pairs /\ running_pids = {}
  /\ job = [p \in Pairs |-> "none"]
  /\ networks = {} /\ containers = {}
  /\ work = NoReports /\ xml = NoReports
  /\ attempt = 0 /\ rc = 0
  /\ archived = TRUE /\ copied = Pairs

\* Another invocation.  What is left of an earlier one is killed and removed,
\* the work-dirs are emptied and the reports archived; a failure is ignored, so
\* that some of the networks or of the reports may stay.
Prepare ==
  /\ pc' = "launch" /\ queue' = Pairs /\ running_pids' = {}
  /\ job' = [p \in Pairs |-> "none"]
  /\ networks' \in SUBSET networks /\ containers' = {}
  /\ work' = NoReports
  /\ attempt' = 0 /\ rc' = 0 /\ copied' = Pairs
  /\ \/ archived' = TRUE /\ xml' = NoReports
     \/ /\ archived' = FALSE
        /\ \E kept \in SUBSET Pairs :
             xml' = [p \in Pairs |-> IF p \notin kept THEN "none"
                                    ELSE IF xml[p] \in Complete THEN "old" ELSE xml[p]]

----------------------------------------------------------------------------
(* run_pair, in a shell of its own *)

\* docker network create, five times at most.  Without a network the pair is
\* not run.
CreateNetwork(p) ==
  /\ job[p] = "network"
  /\ \/ /\ Cardinality(networks) < Networks
        /\ networks' = networks \cup {p}
        /\ job' = [job EXCEPT ![p] = "starting"]
     \/ job' = [job EXCEPT ![p] = "done"] /\ UNCHANGED networks
  /\ UNCHANGED <<script, containers, work, xml, history>>

\* docker run: the container comes up, or docker reports an error.
StartContainer(p) ==
  /\ job[p] = "starting"
  /\ \/ containers' = containers \cup {p} /\ job' = [job EXCEPT ![p] = "running"]
     \/ job' = [job EXCEPT ![p] = "copy"] /\ UNCHANGED containers
  /\ UNCHANGED <<script, networks, work, xml, history>>

\* interoperability_report.py -o in the work-dir: a report that is there is
\* parsed first (which fails if it was cut off) and the new results are added.
\* The file is written at the very end, so that a container that dies leaves
\* nothing new, or a file that is cut off.
Reported(old) ==
  IF old \in {"empty", "partial"} THEN {old}
  ELSE {old, "empty", "partial", IF old = "none" THEN "full" ELSE "double"}

EndContainer(p) ==
  /\ job[p] = "running"
  /\ containers' = containers \ {p}
  /\ \E report \in Reported(work[p]) : work' = [work EXCEPT ![p] = report]
  /\ job' = [job EXCEPT ![p] = "copy"]
  /\ UNCHANGED <<script, networks, xml, history>>

\* Two processes of the harness wait for each other for ever.
HangContainer(p) ==
  /\ pc = "launch" /\ job[p] = "running"
  /\ job' = [job EXCEPT ![p] = "hung"]
  /\ UNCHANGED <<script, docker, work, xml, history>>

\* The network is removed (an error is ignored) and the report, if there is
\* one, copied; a copy that fails leaves what was there, or a file cut off.
CopyReport(p) ==
  /\ job[p] = "copy"
  /\ networks' \in {networks, networks \ {p}}
  /\ \/ /\ xml' = IF work[p] = "none" THEN xml ELSE [xml EXCEPT ![p] = work[p]]
        /\ UNCHANGED copied
     \/ /\ work[p] # "none"
        /\ xml' \in {xml, [xml EXCEPT ![p] = "empty"], [xml EXCEPT ![p] = "partial"]}
        /\ copied' = copied \ {p}
  /\ job' = [job EXCEPT ![p] = "done"]
  /\ UNCHANGED <<script, containers, work, archived>>

RunPair(p) ==
  /\ pc = "launch"
  /\ CreateNetwork(p) \/ StartContainer(p) \/ EndContainer(p) \/ CopyReport(p)

----------------------------------------------------------------------------
(* The main script *)

\* Mutant: the processes that ended are not taken off the list.
AlivePids_NoPrune == running_pids

\* The processes of RUNNING_PIDS that kill -0 still finds.
AlivePids == {p \in running_pids : job[p] \in Alive}

\* Mutant: a slot too many.
SlotFree_OffByOne == Cardinality(AlivePids) <= MaxJobs

\* wait_for_slot
SlotFree == Cardinality(AlivePids) < MaxJobs

\* run_pass goes through its indices in ascending order.
NextPair == Min(queue)

\* run_pass: wait_for_slot, then the next pair.
Launch ==
  /\ pc = "launch" /\ queue # {}
  /\ SlotFree
  /\ running_pids' = AlivePids \cup {NextPair}
  /\ job' = [job EXCEPT ![NextPair] = "network"]
  /\ queue' = queue \ {NextPair}
  /\ UNCHANGED <<pc, attempt, rc, docker, work, xml, history>>

\* collect_missing: the pairs without a report that is not empty.
MissingIdx == {p \in Pairs : xml[p] \in {"none", "empty"}}

\* The end of run_pass.
PassEnds == pc = "launch" /\ queue = {} /\ \A p \in Pairs : job[p] \notin Alive

\* Mutant: all pairs are run once more.
Retry_All ==
  /\ PassEnds
  /\ MissingIdx # {} /\ attempt < PairRetries
  /\ attempt' = attempt + 1
  /\ queue' = Pairs
  /\ running_pids' = {} /\ networks' = {} /\ containers' = {}
  /\ UNCHANGED <<pc, rc, job, work, xml, history>>

\* Containers and networks left over are removed (an error is ignored), then
\* the missing pairs are run once more.
Retry ==
  /\ PassEnds
  /\ MissingIdx # {} /\ attempt < PairRetries
  /\ attempt' = attempt + 1
  /\ queue' = MissingIdx
  /\ running_pids' = {} /\ networks' \in SUBSET networks /\ containers' = {}
  /\ UNCHANGED <<pc, rc, job, work, xml, history>>

\* Mutant: the code of generate_reports.sh is not looked at.
ExitCodes_Unchecked == IF MissingIdx = {} THEN {0} ELSE {3}

\* generate_reports.sh merges all reports there are.  Its failure, certain when
\* a report was cut off, ends the script with code 1 (set -e).
ExitCodes ==
  IF (\A p \in Pairs : xml[p] = "none") \/ (\E p \in Pairs : xml[p] \in {"empty", "partial"})
  THEN {1}
  ELSE {IF MissingIdx = {} THEN 0 ELSE 3} \cup (IF ReportsMayFail THEN {1} ELSE {})

\* The work-dirs are removed and the reports generated.
Finish ==
  /\ PassEnds
  /\ MissingIdx = {} \/ attempt >= PairRetries
  /\ pc' = "exited"
  /\ running_pids' = {}
  /\ work' = [p \in Pairs |-> "none"]
  /\ rc' \in ExitCodes
  /\ UNCHANGED <<queue, attempt, job, docker, xml, history>>

\* cleanup_parallel, at SIGINT or SIGTERM: the pass is abandoned.  First the
\* shells are killed, but not a docker command one of them has under way, nor a
\* container.
KillShells ==
  /\ pc = "launch"
  /\ pc' = "killed"
  /\ job' = [p \in Pairs |->
               IF job[p] \in {"running", "hung", "copy"} THEN "done" ELSE job[p]]
  /\ queue' = {} /\ running_pids' = {} /\ attempt' = 0
  /\ UNCHANGED <<rc, docker, work, xml, history>>

\* docker ps | xargs docker kill finds the containers that run now.
KillContainers ==
  /\ pc = "killed"
  /\ pc' = "sweep"
  /\ containers' = {}
  /\ UNCHANGED <<queue, running_pids, attempt, rc, job, networks, work, xml, history>>

\* A second later the networks without a container are removed.
RemoveNetworks ==
  /\ pc = "sweep"
  /\ pc' = "exited" /\ rc' = 1
  /\ networks' = networks \cap containers
  /\ work' = [p \in Pairs |-> "none"]
  /\ UNCHANGED <<queue, running_pids, attempt, job, containers, xml, history>>

\* A docker command whose shell was killed comes to its end: the network
\* exists, or the container runs (not if its network is gone), or neither.
OrphanEnds(p) ==
  /\ pc # "launch" /\ job[p] \in {"network", "starting"}
  /\ job' = [job EXCEPT ![p] = "done"]
  /\ \/ /\ job[p] = "network" /\ Cardinality(networks) < Networks
        /\ networks' = networks \cup {p} /\ UNCHANGED containers
     \/ /\ job[p] = "starting" /\ p \in networks
        /\ containers' = containers \cup {p} /\ UNCHANGED networks
     \/ UNCHANGED docker
  /\ UNCHANGED <<script, work, xml, history>>

RunNext ==
  \/ Launch \/ Retry \/ Finish
  \/ KillShells \/ KillContainers \/ RemoveNetworks
  \/ \E p \in Pairs : RunPair(p) \/ HangContainer(p) \/ OrphanEnds(p)

=============================================================================
