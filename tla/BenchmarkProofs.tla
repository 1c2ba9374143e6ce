--------------------------- MODULE BenchmarkProofs ---------------------------
(***************************************************************************)
(* Proofs about Benchmark, and with it ParallelRun, for any number of      *)
(* pairs, slots, retries, runs and networks.                               *)
(***************************************************************************)
EXTENDS Benchmark, FiniteSetTheorems, WellFoundedInduction, TLAPS

JobStates == {"none", "done"} \cup Alive
Reports == {"none", "empty", "partial"} \cup Complete

RunTypeOK ==
  /\ pc \in {"launch", "killed", "sweep", "exited"}
  /\ queue \subseteq Pairs
  /\ running_pids \subseteq Pairs
  /\ job \in [Pairs -> JobStates]
  /\ work \in [Pairs -> Reports]
  /\ xml \in [Pairs -> Reports]
  /\ rc \in {0, 1, 3}
  /\ archived \in BOOLEAN
  /\ copied \subseteq Pairs

BenchTypeOK ==
  /\ run_attempt \in Nat
  /\ results \in Seq(SUBSET Pairs)
  /\ incomplete_runs \subseteq Nat
  /\ bench_rc \in {-1, 0, 1}

\* RUNNING_PIDS is pruned late but never too early: no process that still runs
\* is missing from it.
PidsListed == pc = "launch" => \A p \in Pairs : job[p] \in Alive => p \in running_pids

\* A pass starts each of its pairs once.
QueuedOnce == pc = "launch" => \A p \in queue : job[p] \notin Alive

\* A report of an earlier invocation is only where the archive failed.
OldOnlyUnarchived ==
  /\ \A p \in Pairs : work[p] # "old"
  /\ archived => \A p \in Pairs : xml[p] # "old"

\* The run of the pair in this pass has not written its report yet.
Pending(p) == p \in queue \/ job[p] \in {"network", "starting", "running"}

\* A pair whose copies have all succeeded is run again only if its work-dir has
\* nothing to add results to.
CopiedOnce ==
  \A p \in copied :
    /\ work[p] # "double" /\ xml[p] # "double"
    /\ pc = "launch" /\ Pending(p) => work[p] \in {"none", "empty"}
    /\ pc = "launch" /\ job[p] # "copy" => work[p] = "none" \/ work[p] = xml[p]

\* The run number i is in the list of the incomplete ones unless it has
\* covered every pair.
RunsCounted ==
  /\ Len(results) <= Runs
  /\ bench_rc = -1 => Len(results) < Runs
  /\ \A i \in 1..Len(results) : i \in incomplete_runs \/ results[i] = Pairs
  /\ bench_rc = 0 => Len(results) = Runs /\ incomplete_runs = {}

RunInv == /\ RunTypeOK /\ PidsListed /\ QueuedOnce /\ OldOnlyUnarchived /\ CopiedOnce
          /\ SlotsKept /\ ZeroMeansCovered

IInv == RunInv /\ BenchTypeOK /\ RunsCounted

----------------------------------------------------------------------------
\* A pass that is not at its end has a next pair.
LEMMA NextPairQueued ==
  ASSUME queue \subseteq Pairs, queue # {}
  PROVE  NextPair \in queue
<1>1. Pairs \subseteq Nat
  BY ParallelRunAssumption
<1>2. \E x \in queue : \A y \in queue : ~(<<y, x>> \in OpToRel(<, Nat))
  BY <1>1, WFMin, NatLessThanWellFounded
<1>3. PICK x \in queue : \A y \in queue : ~(<<y, x>> \in OpToRel(<, Nat))
  BY <1>2
<1>4. \A y \in queue : x <= y
  <2> SUFFICES ASSUME NEW y \in queue PROVE ~(y < x)
    BY <1>1
  <2>1. y < x => <<y, x>> \in OpToRel(<, Nat)
    BY <1>1, Zenon DEF OpToRel
  <2> QED
    BY <1>3, <2>1
<1> QED
  BY <1>4 DEF NextPair, Min

\* The first invocation starts with the invariant.
LEMMA RunInitInv == RunInit => RunInv
<1> SUFFICES ASSUME RunInit PROVE RunInv
  OBVIOUS
<1>1. {p \in Pairs : job[p] \in Alive} = {}
  BY DEF RunInit, Alive
<1>2. SlotsKept
  BY <1>1, FS_EmptySet, ParallelRunAssumption DEF SlotsKept
<1>3. RunTypeOK
  BY DEF RunInit, RunTypeOK, NoReports, JobStates, Reports, Alive
<1> QED
  BY <1>2, <1>3 DEF RunInit, RunInv, PidsListed, QueuedOnce, OldOnlyUnarchived, CopiedOnce,
     ZeroMeansCovered, NoReports, Alive, Complete

\* Every other one starts with it too, whether or not the archive failed.
LEMMA PrepareInv == RunInv /\ Prepare => RunInv'
<1> SUFFICES ASSUME RunInv, Prepare PROVE RunInv'
  OBVIOUS
<1>1. {p \in Pairs : job'[p] \in Alive} = {}
  BY DEF Prepare, Alive
<1>2. SlotsKept'
  BY <1>1, FS_EmptySet, ParallelRunAssumption DEF SlotsKept
<1>3. RunTypeOK'
  <2>1. xml' \in [Pairs -> Reports] /\ archived' \in BOOLEAN
    BY DEF Prepare, RunInv, RunTypeOK, NoReports, Reports, Complete
  <2>2. job' \in [Pairs -> JobStates] /\ work' \in [Pairs -> Reports]
    BY DEF Prepare, NoReports, JobStates, Reports
  <2> QED
    BY <2>1, <2>2 DEF Prepare, RunTypeOK
<1>4. PidsListed' /\ QueuedOnce' /\ ZeroMeansCovered'
  BY DEF Prepare, PidsListed, QueuedOnce, ZeroMeansCovered, Alive
<1>5. OldOnlyUnarchived' /\ CopiedOnce'
  BY DEF Prepare, RunInv, RunTypeOK, NoReports, OldOnlyUnarchived, CopiedOnce, Complete, Reports
<1> QED
  BY <1>2, <1>3, <1>4, <1>5 DEF RunInv

\* SlotsKept is about the jobs alone: it is kept if no job comes to life.
LEMMA FewerAlive ==
  ASSUME RunInv, \A p \in Pairs : job'[p] \in Alive => job[p] \in Alive
  PROVE  SlotsKept'
<1> DEFINE A == {p \in Pairs : job[p] \in Alive}
           B == {p \in Pairs : job'[p] \in Alive}
<1>1. IsFiniteSet(A) /\ B \subseteq A
  BY ParallelRunAssumption, FS_Subset
<1>2. Cardinality(B) <= Cardinality(A) /\ Cardinality(A) \in Nat /\ Cardinality(B) \in Nat
  BY <1>1, FS_Subset, FS_CardinalityType
<1>3. Cardinality(A) <= MaxJobs
  BY DEF RunInv, SlotsKept
<1> QED
  BY <1>2, <1>3, ParallelRunAssumption DEF SlotsKept

\* wait_for_slot lets the next pair start only when a slot is free.
LEMMA LaunchInv == RunInv /\ Launch => RunInv'
<1> SUFFICES ASSUME RunInv, Launch PROVE RunInv'
  OBVIOUS
<1>n. NextPair \in queue /\ NextPair \in Pairs
  BY NextPairQueued DEF RunInv, RunTypeOK, Launch
<1>j. job' = [p \in Pairs |-> IF p = NextPair THEN "network" ELSE job[p]]
  BY <1>n DEF RunInv, RunTypeOK, Launch
<1>1. RunTypeOK'
  BY <1>n, <1>j DEF RunInv, RunTypeOK, Launch, AlivePids, docker, history, JobStates, Alive
<1>2. PidsListed'
  BY <1>j DEF RunInv, PidsListed, Launch, AlivePids
<1>3. SlotsKept'
  <2> DEFINE B == {p \in Pairs : job'[p] \in Alive}
  <2>1. B \subseteq AlivePids \cup {NextPair}
    BY <1>j DEF RunInv, PidsListed, AlivePids, Launch
  <2>2. IsFiniteSet(AlivePids)
    BY FS_Subset, ParallelRunAssumption DEF RunInv, RunTypeOK, AlivePids
  <2>3. Cardinality(AlivePids) < MaxJobs
    BY DEF Launch, SlotFree
  <2> HIDE DEF B
  <2>4. /\ Cardinality(AlivePids) \in Nat
        /\ IsFiniteSet(AlivePids \cup {NextPair})
        /\ Cardinality(AlivePids \cup {NextPair}) <= Cardinality(AlivePids) + 1
        /\ Cardinality(AlivePids \cup {NextPair}) \in Nat
    <3>1. Cardinality(AlivePids) \in Nat
      BY <2>2, FS_CardinalityType
    <3>2. /\ IsFiniteSet(AlivePids \cup {NextPair})
          /\ Cardinality(AlivePids \cup {NextPair}) =
               IF NextPair \in AlivePids THEN Cardinality(AlivePids)
               ELSE Cardinality(AlivePids) + 1
      BY <2>2, FS_AddElement
    <3> QED
      BY <3>1, <3>2
  <2>5. Cardinality(B) <= Cardinality(AlivePids \cup {NextPair}) /\ Cardinality(B) \in Nat
    BY <2>1, <2>4, FS_Subset, FS_CardinalityType
  <2>6. Cardinality(B) <= MaxJobs
    BY <2>3, <2>4, <2>5, ParallelRunAssumption
  <2> QED
    BY <2>6 DEF SlotsKept, B
<1>4. QueuedOnce' /\ OldOnlyUnarchived' /\ ZeroMeansCovered'
  BY <1>j DEF RunInv, QueuedOnce, OldOnlyUnarchived, ZeroMeansCovered, Launch, history
<1>5. CopiedOnce'
  <2> SUFFICES ASSUME NEW p \in copied
               PROVE  /\ work[p] # "double" /\ xml[p] # "double"
                      /\ Pending(p)' => work[p] \in {"none", "empty"}
                      /\ job'[p] # "copy" => work[p] = "none" \/ work[p] = xml[p]
    BY DEF CopiedOnce, Launch, history
  <2>1. p \in Pairs /\ pc = "launch"
    BY DEF RunInv, RunTypeOK, Launch
  <2>2. Pending(p)' => Pending(p)
    BY <1>n, <1>j, <2>1 DEF Pending, Launch
  <2>3. job'[p] # "copy" => job[p] # "copy"
    BY <1>n, <1>j, <2>1 DEF RunInv, QueuedOnce, Alive
  <2> QED
    BY <2>1, <2>2, <2>3 DEF RunInv, CopiedOnce
<1> QED
  BY <1>1, <1>2, <1>3, <1>4, <1>5 DEF RunInv

\* A step of run_pair keeps the invariant.
LEMMA RunPairInv ==
  ASSUME RunInv, NEW p \in Pairs, RunPair(p)
  PROVE  RunInv'
<1> USE DEF script, docker, history
<1>p. pc = "launch" /\ pc' = "launch" /\ UNCHANGED <<queue, running_pids, rc, archived>>
  BY DEF RunPair, CreateNetwork, StartContainer, EndContainer, CopyReport
<1>j. \E s \in JobStates :
        /\ job' = [job EXCEPT ![p] = s]
        /\ job[p] \in Alive
        /\ s \in {"starting", "running"} => job[p] \in {"network", "starting", "running"}
        /\ s # "network"
  BY <1>p DEF RunPair, CreateNetwork, StartContainer, EndContainer, CopyReport, JobStates, Alive
<1>w. /\ work' \in [Pairs -> Reports] /\ xml' \in [Pairs -> Reports] /\ copied' \subseteq copied
      /\ \A q \in Pairs : q # p => work'[q] = work[q] /\ xml'[q] = xml[q]
  <2>1. CASE CreateNetwork(p) \/ StartContainer(p)
    BY <2>1 DEF CreateNetwork, StartContainer, RunInv, RunTypeOK
  <2>2. CASE EndContainer(p)
    BY <2>2 DEF EndContainer, RunInv, RunTypeOK, Reported, Reports, Complete
  <2>3. CASE CopyReport(p)
    BY <2>3 DEF CopyReport, RunInv, RunTypeOK, Reports
  <2> QED
    BY <2>1, <2>2, <2>3 DEF RunPair
<1>1. RunTypeOK'
  BY <1>p, <1>j, <1>w DEF RunInv, RunTypeOK
<1>2. PidsListed' /\ QueuedOnce'
  BY <1>p, <1>j DEF RunInv, RunTypeOK, PidsListed, QueuedOnce
<1>3. SlotsKept'
  <2>1. \A q \in Pairs : job'[q] \in Alive => job[q] \in Alive
    BY <1>j DEF RunInv, RunTypeOK
  <2> QED
    BY <2>1, FewerAlive
<1>4. ZeroMeansCovered'
  BY <1>p DEF ZeroMeansCovered
<1>5. OldOnlyUnarchived'
  <2>1. CASE CreateNetwork(p) \/ StartContainer(p)
    BY <2>1 DEF CreateNetwork, StartContainer, RunInv, OldOnlyUnarchived
  <2>2. CASE EndContainer(p)
    BY <2>2 DEF EndContainer, RunInv, RunTypeOK, OldOnlyUnarchived, Reported
  <2>3. CASE CopyReport(p)
    BY <2>3 DEF CopyReport, RunInv, RunTypeOK, OldOnlyUnarchived
  <2> QED
    BY <2>1, <2>2, <2>3 DEF RunPair
<1>6. CopiedOnce'
  <2> SUFFICES ASSUME NEW q \in copied'
               PROVE  /\ work'[q] # "double" /\ xml'[q] # "double"
                      /\ Pending(q)' => work'[q] \in {"none", "empty"}
                      /\ job'[q] # "copy" => work'[q] = "none" \/ work'[q] = xml'[q]
    BY <1>p DEF CopiedOnce
  <2>1. /\ q \in copied /\ q \in Pairs
        /\ work[q] # "double" /\ xml[q] # "double"
        /\ Pending(q) => work[q] \in {"none", "empty"}
        /\ job[q] # "copy" => work[q] = "none" \/ work[q] = xml[q]
    BY <1>p, <1>w DEF RunInv, RunTypeOK, CopiedOnce
  <2>2. CASE q # p
    BY <2>1, <2>2, <1>p, <1>j, <1>w DEF RunInv, RunTypeOK, Pending
  <2>3. CASE q = p
    <3>q. p \notin queue
      BY <1>p, <1>j DEF RunInv, QueuedOnce
    <3>1. CASE CreateNetwork(p) \/ StartContainer(p)
      BY <3>1, <2>1, <2>3, <3>q DEF CreateNetwork, StartContainer, RunInv, RunTypeOK, Pending
    <3>2. CASE EndContainer(p)
      BY <3>2, <2>1, <2>3, <3>q DEF EndContainer, RunInv, RunTypeOK, Pending, Reported
    <3>3. CASE CopyReport(p)
      BY <3>3, <2>1, <2>3, <3>q DEF CopyReport, RunInv, RunTypeOK, Pending
    <3> QED
      BY <3>1, <3>2, <3>3 DEF RunPair
  <2> QED
    BY <2>2, <2>3
<1> QED
  BY <1>1, <1>2, <1>3, <1>4, <1>5, <1>6 DEF RunInv

\* A container that hangs keeps its slot, and nothing is written.
LEMMA HangInv ==
  ASSUME RunInv, NEW p \in Pairs, HangContainer(p)
  PROVE  RunInv'
<1> USE DEF HangContainer, script, docker, history
<1>1. RunTypeOK'
  BY DEF RunInv, RunTypeOK, JobStates, Alive
<1>2. \A q \in Pairs : job'[q] \in Alive <=> job[q] \in Alive
  BY DEF RunInv, RunTypeOK, Alive
<1>3. PidsListed' /\ QueuedOnce' /\ OldOnlyUnarchived' /\ ZeroMeansCovered'
  BY <1>2 DEF RunInv, RunTypeOK, PidsListed, QueuedOnce, OldOnlyUnarchived, ZeroMeansCovered
<1>4. CopiedOnce'
  BY <1>2 DEF RunInv, RunTypeOK, CopiedOnce, Pending
<1>5. SlotsKept'
  BY <1>2, FewerAlive
<1> QED
  BY <1>1, <1>3, <1>4, <1>5 DEF RunInv

\* The retry finds nothing in the work-dirs of the pairs it runs again, unless
\* a copy has failed.
LEMMA RetryInv == RunInv /\ Retry => RunInv'
<1> SUFFICES ASSUME RunInv, Retry PROVE RunInv'
  OBVIOUS
<1>1. RunTypeOK' /\ PidsListed' /\ QueuedOnce' /\ OldOnlyUnarchived' /\ ZeroMeansCovered'
  BY DEF Retry, PassEnds, MissingIdx, history, RunInv, RunTypeOK, PidsListed, QueuedOnce,
     OldOnlyUnarchived, ZeroMeansCovered
<1>2. SlotsKept'
  BY FewerAlive DEF Retry
<1>3. CopiedOnce'
  BY DEF Retry, PassEnds, MissingIdx, history, RunInv, RunTypeOK, CopiedOnce, Pending, Alive
<1> QED
  BY <1>1, <1>2, <1>3 DEF RunInv

\* Exit code 0 is chosen only when nothing is missing or cut off.
LEMMA FinishInv == RunInv /\ Finish => RunInv'
<1> SUFFICES ASSUME RunInv, Finish PROVE RunInv'
  OBVIOUS
<1>1. RunTypeOK'
  BY DEF Finish, PassEnds, ExitCodes, history, RunInv, RunTypeOK, Reports
<1>2. PidsListed' /\ QueuedOnce' /\ OldOnlyUnarchived' /\ CopiedOnce'
  BY DEF Finish, PassEnds, history, RunInv, RunTypeOK, PidsListed, QueuedOnce,
     OldOnlyUnarchived, CopiedOnce
<1>3. SlotsKept'
  BY FewerAlive DEF Finish
<1>4. ZeroMeansCovered'
  <2> SUFFICES ASSUME rc' = 0, NEW p \in Pairs
               PROVE  xml[p] \in Complete /\ (archived => xml[p] # "old")
    BY DEF ZeroMeansCovered, Finish, history
  <2>1. 0 \in ExitCodes
    BY DEF Finish
  <2>2. xml[p] \notin {"empty", "partial"} /\ MissingIdx = {}
    BY <2>1 DEF ExitCodes
  <2>3. xml[p] \in Complete
    BY <2>2 DEF MissingIdx, RunInv, RunTypeOK, Reports
  <2> QED
    BY <2>3 DEF RunInv, OldOnlyUnarchived
<1> QED
  BY <1>1, <1>2, <1>3, <1>4 DEF RunInv

\* After a signal nothing is started or copied any more.
LEMMA CleanupInv ==
  ASSUME RunInv,
         KillShells \/ KillContainers \/ RemoveNetworks \/ \E p \in Pairs : OrphanEnds(p)
  PROVE  RunInv'
<1> USE DEF KillShells, KillContainers, RemoveNetworks, OrphanEnds, script, docker, history
<1>1. RunTypeOK'
  <2>1. job' \in [Pairs -> JobStates]
    BY DEF RunInv, RunTypeOK, JobStates
  <2>2. work' \in [Pairs -> Reports]
    BY DEF RunInv, RunTypeOK, Reports
  <2> QED
    BY <2>1, <2>2 DEF RunInv, RunTypeOK
<1>2. \A p \in Pairs : job'[p] \in Alive => job[p] \in Alive
  BY DEF RunInv, RunTypeOK, Alive
<1>3. pc' # "launch" /\ UNCHANGED <<xml, copied, archived>>
  OBVIOUS
<1>4. \A p \in Pairs : work'[p] \in {"none", work[p]}
  OBVIOUS
<1>5. PidsListed' /\ QueuedOnce' /\ OldOnlyUnarchived' /\ CopiedOnce'
  BY <1>2, <1>3, <1>4
  DEF RunInv, RunTypeOK, PidsListed, QueuedOnce, OldOnlyUnarchived, CopiedOnce
<1>6. SlotsKept'
  BY <1>2, FewerAlive
<1>7. ZeroMeansCovered'
  BY <1>3 DEF RunInv, ZeroMeansCovered
<1> QED
  BY <1>1, <1>5, <1>6, <1>7 DEF RunInv

LEMMA RunNextInv == RunInv /\ RunNext => RunInv'
  BY LaunchInv, RetryInv, FinishInv, RunPairInv, HangInv, CleanupInv DEF RunNext

LEMMA RunStutterInv == RunInv /\ UNCHANGED runVars => RunInv'
  BY DEF RunInv, RunTypeOK, PidsListed, QueuedOnce, OldOnlyUnarchived, CopiedOnce, Pending,
     SlotsKept, ZeroMeansCovered, runVars, script, history

----------------------------------------------------------------------------
(* The benchmark around the invocations *)

LEMMA InitIInv == Init => IInv
<1> SUFFICES ASSUME Init PROVE IInv
  OBVIOUS
<1>1. RunInv
  BY RunInitInv DEF Init
<1>2. BenchTypeOK /\ RunsCounted
  BY BenchmarkAssumption DEF Init, BenchTypeOK, RunsCounted
<1> QED
  BY <1>1, <1>2 DEF IInv

\* A run is kept with all pairs, or it is noted.
LEMMA KeepInv == IInv /\ Keep => IInv'
<1> SUFFICES ASSUME IInv, Keep PROVE IInv'
  OBVIOUS
<1>1. RunInv'
  BY PrepareInv, RunStutterInv DEF IInv, Keep
<1>2. /\ results \in Seq(SUBSET Pairs) /\ Covered \in SUBSET Pairs
      /\ results' = Append(results, Covered) /\ Len(results) \in Nat
  BY DEF IInv, BenchTypeOK, Covered, Keep
<1>3. /\ results' \in Seq(SUBSET Pairs)
      /\ Len(results') = Len(results) + 1
      /\ results'[Len(results) + 1] = Covered
      /\ \A i \in 1..Len(results) : results'[i] = results[i]
  BY <1>2
<1>4. rc = 0 => Covered = Pairs
  BY DEF Keep, InvocationEnded, IInv, RunInv, ZeroMeansCovered, Covered
<1>5. /\ incomplete_runs \subseteq incomplete_runs' /\ incomplete_runs' \subseteq Nat
      /\ rc # 0 => Len(results) + 1 \in incomplete_runs'
  <2>1. incomplete_runs' = IF rc = 3 THEN incomplete_runs \cup {Len(results')}
                           ELSE incomplete_runs
    BY DEF Keep, Incomplete
  <2>2. (rc = 0 \/ rc = 3) /\ incomplete_runs \subseteq Nat
    BY DEF Keep, IInv, BenchTypeOK
  <2>3. Len(results') = Len(results) + 1 /\ Len(results) + 1 \in Nat
    BY <1>2, <1>3
  <2> QED
    BY <2>1, <2>2, <2>3
<1>6. BenchTypeOK'
  <2>1. bench_rc' \in {-1, 0, 1} /\ run_attempt' \in Nat
    BY DEF Keep, IInv, BenchTypeOK
  <2> QED
    BY <2>1, <1>3, <1>5 DEF BenchTypeOK
<1>7. Len(results) < Runs
  BY DEF IInv, RunsCounted, Keep, InvocationEnded
<1>8. RunsCounted'
  <2>1. Len(results') <= Runs
    BY <1>2, <1>3, <1>7, BenchmarkAssumption
  <2>2. (bench_rc = -1 => Len(results) < Runs)'
    BY DEF Keep
  <2>3. ASSUME NEW i \in 1..Len(results')
        PROVE  i \in incomplete_runs' \/ results'[i] = Pairs
    <3>1. CASE i \in 1..Len(results)
      BY <3>1, <1>3, <1>5 DEF IInv, RunsCounted
    <3>2. CASE i = Len(results) + 1
      BY <3>2, <1>3, <1>4, <1>5
    <3> QED
      BY <3>1, <3>2, <1>2, <1>3
  <2>4. bench_rc' = 0 => Len(results') = Runs /\ incomplete_runs' = {}
    BY <2>1, <1>2, <1>3, BenchmarkAssumption DEF Keep, InvocationEnded
  <2> QED
    BY <2>1, <2>2, <2>3, <2>4 DEF RunsCounted
<1> QED
  BY <1>1, <1>6, <1>8 DEF IInv

LEMMA NextIInv == IInv /\ [Next]_vars => IInv'
<1> SUFFICES ASSUME IInv, [Next]_vars PROVE IInv'
  OBVIOUS
<1>1. CASE RunNext /\ UNCHANGED benchVars
  BY <1>1, RunNextInv DEF IInv, BenchTypeOK, RunsCounted, benchVars
<1>2. CASE Repeat
  BY <1>2, PrepareInv DEF Repeat, IInv, BenchTypeOK, RunsCounted
<1>3. CASE Keep
  BY <1>3, KeepInv
<1>4. CASE Abort
  <2>1. RunInv'
    BY <1>4, RunStutterInv DEF Abort, IInv
  <2> QED
    BY <1>4, <2>1 DEF Abort, InvocationEnded, IInv, BenchTypeOK, RunsCounted
<1>5. CASE UNCHANGED vars
  BY <1>5, RunStutterInv DEF vars, benchVars, IInv, BenchTypeOK, RunsCounted
<1> QED
  BY <1>1, <1>2, <1>3, <1>4, <1>5 DEF Next

LEMMA Inductive == Spec => []IInv
  BY InitIInv, NextIInv, PTL DEF Spec

\* run_tests_parallel.sh never tests more than MAX_JOBS pairs at a time, for
\* any pairs and whatever fails.
THEOREM AtMostMaxJobs == Spec => []SlotsKept
  BY Inductive, PTL DEF IInv, RunInv

\* Exit code 0 of run_tests_parallel.sh means that every pair has results of
\* this invocation, or old ones that could not be archived.
THEOREM ZeroIsComplete == Spec => []ZeroMeansCovered
  BY Inductive, PTL DEF IInv, RunInv

\* A report holds the results of a pair twice only after a copy has failed.
THEOREM NoResultTwice == Spec => []ResultsOnce
<1>1. IInv => ResultsOnce
  BY DEF IInv, RunInv, CopiedOnce, ResultsOnce
<1> QED
  BY <1>1, Inductive, PTL

\* run_benchmark.sh ends with 0 only after the number of runs asked for, each
\* of which covers all pairs.
THEOREM SuccessComparable == Spec => []SuccessIsComparable
<1>1. IInv => SuccessIsComparable
  BY DEF IInv, RunsCounted, SuccessIsComparable
<1> QED
  BY <1>1, Inductive, PTL

=============================================================================
