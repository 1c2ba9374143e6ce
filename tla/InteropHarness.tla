--------------------------- MODULE InteropHarness ---------------------------
(***************************************************************************)
(* One test case of interoperability_report.py.  run_test (the main        *)
(* process) starts one process per application under test.  Each of these  *)
(* processes spawns a shape_main application, follows its console output   *)
(* with pexpect through the steps of the DDS life cycle, and writes the    *)
(* ReturnCode it concludes into the shared list return_codes.  Two lists   *)
(* of events, subscribers_finished and publishers_finished, decide who may *)
(* stop its application first.  run_test joins every process and compares  *)
(* the codes with the expected ones.                                       *)
(*                                                                         *)
(* The applications are the environment: an expect call may match any of   *)
(* its patterns, time out while the application runs, or see EOF once it   *)
(* has exited.                                                             *)
(***************************************************************************)
EXTENDS Naturals, FiniteSets

CONSTANTS
  N,               \* len(parameters): the applications of the test case
  Publishers,      \* the indices whose parameters contain -P
  Writers,         \* the publishers whose parameters also contain -w
  ExpectedLists,   \* the expected_codes lists the test case may declare
  CheckCodes,      \* what the test case's check_function may return
  MaxSamplesSaved, \* MAX_SAMPLES_SAVED
  PipeCapacity,    \* samples the pipe under a multiprocessing.Queue holds
  MayRaise         \* the processes pexpect may raise an uncaught exception in

Entities == 1..N
Subscribers == Entities \ Publishers

ReturnCode ==
  {"OK", "TOPIC_NOT_CREATED", "READER_NOT_CREATED", "WRITER_NOT_CREATED",
   "FILTER_NOT_CREATED", "INCOMPATIBLE_QOS", "READER_NOT_MATCHED",
   "DATA_NOT_RECEIVED", "DATA_NOT_SENT", "DATA_NOT_CORRECT",
   "RECEIVING_FROM_ONE", "RECEIVING_FROM_BOTH", "DEADLINE_MISSED",
   "ORDERED_ACCESS_INSTANCE", "ORDERED_ACCESS_TOPIC",
   "PUB_UNSUPPORTED_FEATURE", "SUB_UNSUPPORTED_FEATURE"}

\* The list is created as range(num_entities): an element no process has
\* written is a plain int, different from every ReturnCode.
Unwritten == "int"

ASSUME HarnessAssumption ==
  /\ N \in Nat \ {0}
  /\ Publishers \subseteq Entities
  /\ Writers \subseteq Publishers
  /\ MayRaise \subseteq Entities
  /\ ExpectedLists \subseteq [Entities -> ReturnCode]
  /\ CheckCodes \subseteq ReturnCode
  /\ MaxSamplesSaved \in Nat \ {0}
  /\ PipeCapacity \in Nat

VARIABLES
  started,         \* run_test has started the processes 1..started
  pc,              \* where each process is
  app,             \* its application: "none", "running", "blocked", "exited"
  return_codes,    \* the shared list
  finished,        \* the events: publishers_finished and subscribers_finished
  samples_sent,    \* how many samples each publisher has queued
  expected_codes,  \* chosen with the test case
  verdict          \* what run_test concluded

vars == <<started, pc, app, return_codes, finished, samples_sent,
          expected_codes, verdict>>

SubscriberSteps == {"reader", "data", "check", "finish", "wait"}
PublisherSteps == {"writer", "match", "first", "save", "drain"}
Steps == {"idle", "spawn", "topic", "stop", "stopping", "exiting", "exited"}
           \cup SubscriberSteps \cup PublisherSteps

TypeOK ==
  /\ started \in 0..N
  /\ pc \in [Entities -> Steps]
  /\ app \in [Entities -> {"none", "running", "blocked", "exited"}]
  /\ return_codes \in [Entities -> ReturnCode \cup {Unwritten}]
  /\ finished \in [Entities -> BOOLEAN]
  /\ samples_sent \in [Entities -> Nat]
  /\ expected_codes \in ExpectedLists
  /\ verdict \in {"none", "OK", "Skipped", "Failure", "AttributeError"}

Init ==
  /\ started = 0
  /\ pc = [e \in Entities |-> "idle"]
  /\ app = [e \in Entities |-> "none"]
  /\ return_codes = [e \in Entities |-> Unwritten]
  /\ finished = [e \in Entities |-> FALSE]
  /\ samples_sent = [e \in Entities |-> 0]
  /\ expected_codes \in ExpectedLists
  /\ verdict = "none"

----------------------------------------------------------------------------
(* run_test: start every process, in the order of the parameters *)

\* Mutant: one process too many.
StartProcess_OffByOne ==
  /\ started <= N
  /\ started' = started + 1
  /\ pc' = [pc EXCEPT ![started + 1] = "spawn"]
  /\ UNCHANGED <<app, return_codes, finished, samples_sent, expected_codes, verdict>>

StartProcess ==
  /\ started < N
  /\ started' = started + 1
  /\ pc' = [pc EXCEPT ![started + 1] = "spawn"]
  /\ UNCHANGED <<app, return_codes, finished, samples_sent, expected_codes, verdict>>

----------------------------------------------------------------------------
(* The steps shared by publishers and subscribers *)

Spawn(e) ==
  /\ pc[e] = "spawn"
  /\ pc' = [pc EXCEPT ![e] = "topic"]
  /\ app' = [app EXCEPT ![e] = "running"]
  /\ UNCHANGED <<started, return_codes, finished, samples_sent, expected_codes, verdict>>

\* Where a process goes once its code is known: a subscriber sets its event,
\* a publisher first waits for the subscribers.
Concluded(e) == IF e \in Publishers THEN "drain" ELSE "finish"

Conclude(e, code) ==
  /\ return_codes' = [return_codes EXCEPT ![e] = code]
  /\ pc' = [pc EXCEPT ![e] = Concluded(e)]

\* One expect call: the pattern of progress leads on to the next step, any
\* other pattern, TIMEOUT or EOF concludes with one of the codes.
Expect(e, step, next, codes) ==
  /\ pc[e] = step
  /\ \/ /\ pc' = [pc EXCEPT ![e] = next]
        /\ UNCHANGED return_codes
     \/ \E c \in codes : Conclude(e, c)
  /\ UNCHANGED <<started, app, finished, samples_sent, expected_codes, verdict>>

\* The steps that call into pexpect.
PexpectSteps == {"spawn", "topic", "reader", "data", "check",
                 "writer", "match", "first", "save", "drain"}

\* An exception nobody catches: the executable is missing, or its output
\* cannot be decoded.  The process unwinds without setting its event, and
\* its terminal closes under the application.
Raise(e) ==
  /\ e \in MayRaise
  /\ pc[e] \in PexpectSteps
  /\ pc' = [pc EXCEPT ![e] = "exiting"]
  /\ app' = [app EXCEPT ![e] = IF @ = "none" THEN @ ELSE "exited"]
  /\ UNCHANGED <<started, return_codes, finished, samples_sent, expected_codes, verdict>>

\* stop_process: interrupt the application if it is still alive ...
StopProcess(e) ==
  /\ pc[e] = "stop"
  /\ pc' = [pc EXCEPT ![e] = IF app[e] = "exited" THEN "exiting" ELSE "stopping"]
  /\ UNCHANGED <<started, app, return_codes, finished, samples_sent, expected_codes, verdict>>

\* ... and kill it when it has not gone before the timeout.  Waiting for EOF
\* may time out too; that exception ends the process just the same.
Terminate(e) ==
  /\ pc[e] = "stopping"
  /\ pc' = [pc EXCEPT ![e] = "exiting"]
  /\ app' = [app EXCEPT ![e] = "exited"]
  /\ UNCHANGED <<started, return_codes, finished, samples_sent, expected_codes, verdict>>

\* A process leaves only when the feeder threads of its queues have flushed:
\* nobody reads samples_sent, so all of it has to fit in the pipe.
Exit(e) ==
  /\ pc[e] = "exiting"
  /\ samples_sent[e] <= PipeCapacity
  /\ pc' = [pc EXCEPT ![e] = "exited"]
  /\ UNCHANGED <<started, app, return_codes, finished, samples_sent, expected_codes, verdict>>

----------------------------------------------------------------------------
(* run_subscriber_shape_main *)

SubTopic(s) ==
  Expect(s, "topic", "reader", {"SUB_UNSUPPORTED_FEATURE", "TOPIC_NOT_CREATED"})

SubReader(s) ==
  Expect(s, "reader", "data",
         {"FILTER_NOT_CREATED", "SUB_UNSUPPORTED_FEATURE", "READER_NOT_CREATED"})

SubData(s) ==
  Expect(s, "data", "check",
         {"INCOMPATIBLE_QOS", "DEADLINE_MISSED", "SUB_UNSUPPORTED_FEATURE",
          "DATA_NOT_RECEIVED"})

SubCheck(s) ==
  /\ pc[s] = "check"
  /\ \E c \in CheckCodes : Conclude(s, c)
  /\ UNCHANGED <<started, app, finished, samples_sent, expected_codes, verdict>>

\* subscriber_finished.set()
SubFinish(s) ==
  /\ pc[s] = "finish"
  /\ finished' = [finished EXCEPT ![s] = TRUE]
  /\ pc' = [pc EXCEPT ![s] = "wait"]
  /\ UNCHANGED <<started, app, return_codes, samples_sent, expected_codes, verdict>>

\* element.wait() for every publisher, without a timeout
SubWait(s) ==
  /\ pc[s] = "wait"
  /\ \A p \in Publishers : finished[p]
  /\ pc' = [pc EXCEPT ![s] = "stop"]
  /\ UNCHANGED <<started, app, return_codes, finished, samples_sent, expected_codes, verdict>>

Subscriber(s) ==
  \/ SubTopic(s) \/ SubReader(s) \/ SubData(s) \/ SubCheck(s)
  \/ SubFinish(s) \/ SubWait(s)

----------------------------------------------------------------------------
(* run_publisher_shape_main *)

PubTopic(p) ==
  Expect(p, "topic", "writer", {"PUB_UNSUPPORTED_FEATURE", "TOPIC_NOT_CREATED"})

PubWriter(p) ==
  Expect(p, "writer", "match", {"PUB_UNSUPPORTED_FEATURE", "WRITER_NOT_CREATED"})

\* Mutant: the match is noticed but the code OK is not saved.
PubMatch_ForgetsCode(p) ==
  /\ pc[p] = "match"
  /\ pc' = [pc EXCEPT ![p] = "drain"]
  /\ UNCHANGED <<started, app, return_codes, finished, samples_sent, expected_codes, verdict>>

\* Without -w a match is all the publisher has to show.
PubMatch(p) ==
  LET failures == {"INCOMPATIBLE_QOS", "PUB_UNSUPPORTED_FEATURE", "READER_NOT_MATCHED"}
  IN  IF p \in Writers
      THEN Expect(p, "match", "first", failures)
      ELSE /\ pc[p] = "match"
           /\ \E c \in failures \cup {"OK"} : Conclude(p, c)
           /\ UNCHANGED <<started, app, finished, samples_sent, expected_codes, verdict>>

SendFailures == {"DEADLINE_MISSED", "PUB_UNSUPPORTED_FEATURE", "DATA_NOT_SENT"}

\* The first sample: the code is OK from here on, unless the loop below
\* overwrites it.
PubFirstSample(p) ==
  /\ pc[p] = "first"
  /\ \/ /\ return_codes' = [return_codes EXCEPT ![p] = "OK"]
        /\ pc' = [pc EXCEPT ![p] = "save"]
     \/ \E c \in SendFailures : Conclude(p, c)
  /\ UNCHANGED <<started, app, finished, samples_sent, expected_codes, verdict>>

\* Mutant: one iteration more than MAX_SAMPLES_SAVED.
PubSaveSample_OffByOne(p) ==
  /\ pc[p] = "save"
  /\ samples_sent' = [samples_sent EXCEPT ![p] = @ + 1]
  /\ pc' = [pc EXCEPT ![p] = IF samples_sent[p] = MaxSamplesSaved THEN "drain" ELSE "save"]
  /\ UNCHANGED <<started, app, return_codes, finished, expected_codes, verdict>>

\* One iteration: queue the sample just printed, then wait for the next one.
\* The loop ends after MAX_SAMPLES_SAVED samples or at the first failure, and
\* then puts the one element of last_sample_saved (a queue nobody reads, left
\* out of the state).
PubSaveSample(p) ==
  /\ pc[p] = "save"
  /\ \/ /\ Conclude(p, "DATA_NOT_CORRECT")
        /\ UNCHANGED samples_sent
     \/ /\ samples_sent' = [samples_sent EXCEPT ![p] = @ + 1]
        /\ \/ \E c \in SendFailures : Conclude(p, c)
           \/ /\ pc' = [pc EXCEPT ![p] =
                          IF samples_sent[p] + 1 = MaxSamplesSaved THEN "drain" ELSE "save"]
              /\ UNCHANGED return_codes
  /\ UNCHANGED <<started, app, finished, expected_codes, verdict>>

\* Mutants: any subscriber is enough; the code is reset to OK on the way out.
PubDrain_AnySubscriber(p) ==
  /\ pc[p] = "drain"
  /\ (\E s \in Subscribers : finished[s]) \/ app[p] = "exited"
  /\ finished' = [finished EXCEPT ![p] = TRUE]
  /\ pc' = [pc EXCEPT ![p] = "stop"]
  /\ UNCHANGED <<started, app, return_codes, samples_sent, expected_codes, verdict>>

PubDrain_SetsOK(p) ==
  /\ pc[p] = "drain"
  /\ (\A s \in Subscribers : finished[s]) \/ app[p] = "exited"
  /\ finished' = [finished EXCEPT ![p] = TRUE]
  /\ return_codes' = [return_codes EXCEPT ![p] = "OK"]
  /\ pc' = [pc EXCEPT ![p] = "stop"]
  /\ UNCHANGED <<started, app, samples_sent, expected_codes, verdict>>

\* The publisher keeps its application alive, and its output drained, until
\* every subscriber is finished or the application has exited by itself.
PubDrain(p) ==
  /\ pc[p] = "drain"
  /\ (\A s \in Subscribers : finished[s]) \/ app[p] = "exited"
  /\ finished' = [finished EXCEPT ![p] = TRUE]
  /\ pc' = [pc EXCEPT ![p] = "stop"]
  /\ UNCHANGED <<started, app, return_codes, samples_sent, expected_codes, verdict>>

Publisher(p) ==
  \/ PubTopic(p) \/ PubWriter(p) \/ PubMatch(p)
  \/ PubFirstSample(p) \/ PubSaveSample(p) \/ PubDrain(p)

----------------------------------------------------------------------------
(* The applications *)

\* An application may end at any time, and does when it is interrupted,
\* unless it is blocked writing to a terminal nobody reads.
AppExits(e) ==
  /\ app[e] = "running"
  /\ app' = [app EXCEPT ![e] = "exited"]
  /\ pc' = [pc EXCEPT ![e] = IF @ = "stopping" THEN "exiting" ELSE @]
  /\ UNCHANGED <<started, return_codes, finished, samples_sent, expected_codes, verdict>>

AppBlocks(e) ==
  /\ app[e] = "running"
  /\ pc[e] \in {"wait", "stop", "stopping"}
  /\ app' = [app EXCEPT ![e] = "blocked"]
  /\ UNCHANGED <<started, pc, return_codes, finished, samples_sent, expected_codes, verdict>>

----------------------------------------------------------------------------
(* run_test: join every process and judge the test case *)

Unsupported == {"PUB_UNSUPPORTED_FEATURE", "SUB_UNSUPPORTED_FEATURE"}

\* Both the skipped and the failed report print the name of every code; an
\* int has none.
TestResult(codes, expected) ==
  IF codes = expected THEN "OK"
  ELSE IF \E e \in Entities : codes[e] = Unwritten THEN "AttributeError"
  ELSE IF \E e \in Entities : codes[e] \in Unsupported THEN "Skipped"
  ELSE "Failure"

\* Mutant: only the first process is joined.
JoinAndJudge_FirstOnly ==
  /\ verdict = "none"
  /\ pc[1] = "exited"
  /\ verdict' = TestResult(return_codes, expected_codes)
  /\ UNCHANGED <<started, pc, app, return_codes, finished, samples_sent, expected_codes>>

JoinAndJudge ==
  /\ verdict = "none"
  /\ \A e \in Entities : pc[e] = "exited"
  /\ verdict' = TestResult(return_codes, expected_codes)
  /\ UNCHANGED <<started, pc, app, return_codes, finished, samples_sent, expected_codes>>

Harness(e) ==
  \/ Spawn(e) \/ StopProcess(e) \/ Terminate(e) \/ Exit(e)
  \/ e \in Subscribers /\ Subscriber(e)
  \/ e \in Publishers /\ Publisher(e)

Next ==
  \/ StartProcess
  \/ \E e \in Entities : Harness(e) \/ Raise(e) \/ AppExits(e) \/ AppBlocks(e)
  \/ JoinAndJudge

Spec == Init /\ [][Next]_vars

\* Every process takes its enabled steps: an expect call ends at its timeout
\* at the latest, stop_process kills after its own.
Fairness ==
  /\ WF_vars(StartProcess)
  /\ WF_vars(JoinAndJudge)
  /\ \A e \in Entities : WF_vars(Harness(e))

FairSpec == Spec /\ Fairness

----------------------------------------------------------------------------
(* Properties *)

\* Neither side pulls the rug from under the other: stop_process interrupts a
\* live publisher application only when every subscriber has its code and has
\* set its event, and a live subscriber application only when every publisher
\* has set its own (the two loops over the finished events).
NoEarlyStop ==
  \A e \in Entities : pc[e] = "stopping" =>
    \A other \in (IF e \in Publishers THEN Subscribers ELSE Publishers) :
      finished[other]

\* When run_test has joined every process, the list return_codes contains the
\* ReturnCode of each application (the comment above its creation says so).
ReturnCodesWritten ==
  (\A e \in Entities : pc[e] = "exited") =>
    \A e \in Entities : return_codes[e] # Unwritten

\* A failure is never papered over: the only code a process may replace is the
\* OK of a -w publisher that fails later, and none once its event is set.
FailureIsFinal ==
  [][\A e \in Entities :
       (return_codes[e] \notin {Unwritten, "OK"} \/ finished[e]) =>
          return_codes'[e] = return_codes[e]]_vars

\* The processes, the events and the shared list implement the abstract test
\* case: every application reports once and the verdict follows the reports.
Reported == [e \in Entities |-> IF finished[e] THEN return_codes[e] ELSE Unwritten]

Abstract == INSTANCE TestVerdict WITH Pending <- Unwritten, report <- Reported

ImplementsTestVerdict == Abstract!ASpec

\* Every test case comes to a verdict: no process waits for ever on an event
\* (lines 215-216 and 406-416), on its application or on its queues.
Terminates == <>(verdict # "none")

=============================================================================
