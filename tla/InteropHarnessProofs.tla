------------------------ MODULE InteropHarnessProofs ------------------------
(***************************************************************************)
(* Proofs about InteropHarness for any number of publishers and            *)
(* subscribers, any expected codes and any check function.                 *)
(***************************************************************************)
EXTENDS InteropHarness, TLAPS

\* What a process knows at each of its steps: its code is unwritten before the
\* first conclusion, OK while a -w publisher saves samples, written after.
CodeOf(e) ==
  /\ pc[e] \in {"idle", "spawn", "topic", "reader", "data", "check",
                "writer", "match", "first"} => return_codes[e] = Unwritten
  /\ pc[e] = "save" => return_codes[e] = "OK"
  /\ pc[e] \in {"finish", "wait", "drain", "stop", "stopping"} =>
        return_codes[e] # Unwritten

\* The event of a process is set after its conclusion, and stays set.
EventOf(e) ==
  /\ finished[e] => pc[e] \in {"wait", "stop", "stopping", "exiting", "exited"}
  /\ finished[e] => return_codes[e] # Unwritten
  /\ pc[e] \in {"wait", "stop", "stopping"} => finished[e]

\* Who is about to stop its application has seen the other side's events, or
\* its application is gone already.
StopOf(e) ==
  /\ e \in Publishers /\ pc[e] \in {"stop", "stopping"} =>
        (\A s \in Subscribers : finished[s]) \/ app[e] = "exited"
  /\ e \in Subscribers /\ pc[e] \in {"stop", "stopping"} =>
        \A p \in Publishers : finished[p]
  /\ pc[e] = "stopping" => app[e] # "exited"

\* run_test starts the processes in order.
IdleOf(e) == pc[e] = "idle" <=> e > started

Holds(e) == CodeOf(e) /\ EventOf(e) /\ StopOf(e) /\ IdleOf(e)

IInv == TypeOK /\ \A e \in Entities : Holds(e)

\* Without exceptions every process that is leaving has set its event.
Leaving == \A e \in Entities : pc[e] \in {"exiting", "exited"} => finished[e]

USE DEF Entities, Subscribers

LEMMA CodesAreNotUnwritten == Unwritten \notin ReturnCode
  BY DEF Unwritten, ReturnCode

LEMMA InitIInv == Init => IInv
  BY HarnessAssumption
  DEF Init, IInv, Holds, TypeOK, CodeOf, EventOf, StopOf, IdleOf, Steps,
      SubscriberSteps, PublisherSteps, Unwritten

\* Concluding with a ReturnCode, and an expect call whose failures are
\* ReturnCodes, keep the types.
LEMMA ConcludeTypeOK ==
  ASSUME NEW e \in Entities, NEW codes \in SUBSET ReturnCode, TypeOK,
         \E c \in codes : Conclude(e, c)
  PROVE  /\ pc' \in [Entities -> Steps]
         /\ return_codes' \in [Entities -> ReturnCode \cup {Unwritten}]
  BY DEF TypeOK, Conclude, Concluded, Steps, SubscriberSteps, PublisherSteps

LEMMA ExpectTypeOK ==
  ASSUME NEW e \in Entities, NEW step, NEW next \in Steps,
         NEW codes \in SUBSET ReturnCode, TypeOK, Expect(e, step, next, codes)
  PROVE  TypeOK'
<1>1. CASE \E c \in codes : Conclude(e, c)
  BY <1>1, ConcludeTypeOK DEF TypeOK, Expect
<1>2. CASE UNCHANGED return_codes /\ pc' = [pc EXCEPT ![e] = next]
  BY <1>2 DEF TypeOK, Expect
<1>3. QED
  BY <1>1, <1>2 DEF Expect

\* Every step of the harness and of the applications preserves the types.
LEMMA NextTypeOK == TypeOK /\ [Next]_vars => TypeOK'
<1> SUFFICES ASSUME TypeOK, [Next]_vars PROVE TypeOK'
  OBVIOUS
<1> USE HarnessAssumption DEF TypeOK, Steps, SubscriberSteps, PublisherSteps
<1>1. CASE StartProcess
  BY <1>1 DEF StartProcess
<1>2. ASSUME NEW e \in Entities, Harness(e) PROVE TypeOK'
  <2>1. CASE Spawn(e) \/ StopProcess(e) \/ Terminate(e) \/ Exit(e)
    BY <2>1 DEF Spawn, StopProcess, Terminate, Exit
  <2>2. CASE SubTopic(e) \/ SubReader(e) \/ SubData(e) \/ SubCheck(e)
    <3>1. CASE SubTopic(e)
      BY <3>1, ExpectTypeOK DEF SubTopic, ReturnCode
    <3>2. CASE SubReader(e)
      BY <3>2, ExpectTypeOK DEF SubReader, ReturnCode
    <3>3. CASE SubData(e)
      BY <3>3, ExpectTypeOK DEF SubData, ReturnCode
    <3>4. CASE SubCheck(e)
      BY <3>4, ConcludeTypeOK DEF SubCheck
    <3>5. QED
      BY <2>2, <3>1, <3>2, <3>3, <3>4
  <2>3. CASE SubFinish(e) \/ SubWait(e)
    BY <2>3 DEF SubFinish, SubWait
  <2>4. CASE PubTopic(e) \/ PubWriter(e) \/ PubMatch(e)
    BY <2>4 DEF PubTopic, PubWriter, PubMatch, Expect, Conclude, Concluded, ReturnCode
  <2>5. CASE PubFirstSample(e) \/ PubSaveSample(e) \/ PubDrain(e)
    <3>0. SendFailures \subseteq ReturnCode /\ {"DATA_NOT_CORRECT", "OK"} \subseteq ReturnCode
      BY DEF SendFailures, ReturnCode
    <3>1. CASE PubFirstSample(e)
      <4>1. CASE \E c \in SendFailures : Conclude(e, c)
        BY <3>0, <3>1, <4>1, ConcludeTypeOK DEF PubFirstSample
      <4>2. QED
        BY <3>0, <3>1, <4>1 DEF PubFirstSample
    <3>2. CASE PubSaveSample(e)
      <4>0. samples_sent' \in [Entities -> Nat]
        BY <3>2 DEF PubSaveSample
      <4>1. CASE \E c \in SendFailures \cup {"DATA_NOT_CORRECT"} : Conclude(e, c)
        <5>1. SendFailures \cup {"DATA_NOT_CORRECT"} \in SUBSET ReturnCode
          BY <3>0
        <5>2. /\ pc' \in [Entities -> Steps]
              /\ return_codes' \in [Entities -> ReturnCode \cup {Unwritten}]
          BY <4>1, <5>1, ConcludeTypeOK
        <5>3. QED
          BY <3>2, <4>0, <5>2 DEF PubSaveSample
      <4>2. CASE UNCHANGED return_codes /\ \E n \in {"drain", "save"} : pc' = [pc EXCEPT ![e] = n]
        BY <3>2, <4>0, <4>2 DEF PubSaveSample
      <4>3. QED
        BY <3>2, <4>1, <4>2 DEF PubSaveSample
    <3>3. CASE PubDrain(e)
      BY <3>3 DEF PubDrain
    <3>4. QED
      BY <2>5, <3>1, <3>2, <3>3
  <2>6. QED
    BY <1>2, <2>1, <2>2, <2>3, <2>4, <2>5 DEF Harness, Subscriber, Publisher
<1>3. ASSUME NEW e \in Entities, Raise(e) \/ AppExits(e) \/ AppBlocks(e) PROVE TypeOK'
  BY <1>3 DEF Raise, AppExits, AppBlocks
<1>4. CASE JoinAndJudge
  BY <1>4 DEF JoinAndJudge, TestResult
<1>5. CASE UNCHANGED vars
  BY <1>5 DEF vars
<1>6. QED
  BY <1>1, <1>2, <1>3, <1>4, <1>5 DEF Next

\* The types of run_test's state hold in every reachable state, whatever the
\* applications do.
THEOREM TypeCorrect == Spec => []TypeOK
<1>1. Init => TypeOK
  BY InitIInv DEF IInv
<1>2. QED
  BY <1>1, NextTypeOK, PTL DEF Spec

\* Every step preserves what each process knows.
LEMMA NextIInv == IInv /\ [Next]_vars => IInv'
<1> SUFFICES ASSUME IInv, [Next]_vars, NEW f \in Entities PROVE Holds(f)'
  BY NextTypeOK DEF IInv
<1>t. /\ started \in 0..N
      /\ pc \in [Entities -> Steps] /\ DOMAIN app = Entities
      /\ return_codes \in [Entities -> ReturnCode \cup {Unwritten}]
      /\ finished \in [Entities -> BOOLEAN]
      /\ Publishers \subseteq Entities /\ N \in Nat
  BY HarnessAssumption DEF IInv, TypeOK
<1>h. Holds(f) /\ \A e \in Entities : Holds(e)
  BY DEF IInv
<1> HIDE DEF Entities, Subscribers
<1> USE <1>t, <1>h DEF Holds, CodeOf, EventOf, StopOf, IdleOf
<1>1. CASE StartProcess
  <2>1. started + 1 \in Entities
    BY <1>1 DEF StartProcess, Entities
  <2>2. pc[started + 1] = "idle"
    BY <2>1
  <2>3. QED
    BY <1>1, <2>1, <2>2 DEF StartProcess, Entities
<1>2. ASSUME NEW e \in Entities, Harness(e) PROVE Holds(f)'
  <2>1. CASE Spawn(e)
    BY <2>1 DEF Spawn
  <2>2. CASE StopProcess(e)
    BY <2>2 DEF StopProcess
  <2>3. CASE Terminate(e) \/ Exit(e)
    BY <2>3 DEF Terminate, Exit
  <2>4. CASE e \in Subscribers /\ SubTopic(e)
    BY <2>4 DEF SubTopic, Expect, Conclude, Concluded, Unwritten, Subscribers
  <2>5. CASE e \in Subscribers /\ SubReader(e)
    BY <2>5 DEF SubReader, Expect, Conclude, Concluded, Unwritten, Subscribers
  <2>6. CASE e \in Subscribers /\ SubData(e)
    BY <2>6 DEF SubData, Expect, Conclude, Concluded, Unwritten, Subscribers
  <2>7. CASE e \in Subscribers /\ SubCheck(e)
    BY <2>7, HarnessAssumption, CodesAreNotUnwritten DEF SubCheck, Conclude, Concluded, Subscribers
  <2>8. CASE e \in Subscribers /\ SubFinish(e)
    BY <2>8 DEF SubFinish, Subscribers
  <2>9. CASE e \in Subscribers /\ SubWait(e)
    BY <2>9 DEF SubWait, Subscribers
  <2>10. CASE e \in Publishers /\ PubTopic(e)
    BY <2>10 DEF PubTopic, Expect, Conclude, Concluded, Unwritten, Subscribers
  <2>11. CASE e \in Publishers /\ PubWriter(e)
    BY <2>11 DEF PubWriter, Expect, Conclude, Concluded, Unwritten, Subscribers
  <2>12. CASE e \in Publishers /\ PubMatch(e)
    BY <2>12 DEF PubMatch, Expect, Conclude, Concluded, Unwritten, Subscribers
  <2>13. CASE e \in Publishers /\ PubFirstSample(e)
    BY <2>13 DEF PubFirstSample, SendFailures, Conclude, Concluded, Unwritten, Subscribers
  <2>14. CASE e \in Publishers /\ PubSaveSample(e)
    BY <2>14 DEF PubSaveSample, SendFailures, Conclude, Concluded, Unwritten, Subscribers
  <2>15. CASE e \in Publishers /\ PubDrain(e)
    BY <2>15 DEF PubDrain, Subscribers
  <2>16. QED
    BY <1>2, <2>1, <2>2, <2>3, <2>4, <2>5, <2>6, <2>7, <2>8, <2>9, <2>10,
       <2>11, <2>12, <2>13, <2>14, <2>15
    DEF Harness, Subscriber, Publisher
<1>3. ASSUME NEW e \in Entities, Raise(e) PROVE Holds(f)'
  BY <1>3 DEF Raise, PexpectSteps
<1>4. ASSUME NEW e \in Entities, AppExits(e) PROVE Holds(f)'
  BY <1>4 DEF AppExits
<1>5. ASSUME NEW e \in Entities, AppBlocks(e) PROVE Holds(f)'
  BY <1>5 DEF AppBlocks
<1>6. CASE JoinAndJudge
  BY <1>6 DEF JoinAndJudge
<1>7. CASE UNCHANGED vars
  BY <1>7 DEF vars
<1>8. QED
  BY <1>1, <1>2, <1>3, <1>4, <1>5, <1>6, <1>7 DEF Next

\* The inductive invariant holds in every reachable state.
LEMMA Invariance == Spec => []IInv
  BY InitIInv, NextIInv, PTL DEF Spec

\* stop_process never interrupts an application while the other side still
\* depends on it, for any number of applications and even if processes die of
\* uncaught exceptions (the loops at lines 215-216 and 406-416).
THEOREM NeverStopsEarly == Spec => []NoEarlyStop
<1>1. IInv => NoEarlyStop
  BY DEF IInv, Holds, StopOf, NoEarlyStop
<1>2. QED
  BY <1>1, Invariance, PTL

\* No step replaces a failure by another code, or any code after the event.
THEOREM FailuresStand == Spec => FailureIsFinal
<1>1. ASSUME IInv, [Next]_vars, NEW f \in Entities,
             return_codes[f] \notin {Unwritten, "OK"} \/ finished[f]
      PROVE  return_codes'[f] = return_codes[f]
  <2>t. return_codes \in [Entities -> ReturnCode \cup {Unwritten}]
    BY <1>1 DEF IInv, TypeOK
  <2>h. Holds(f)
    BY <1>1 DEF IInv
  <2> HIDE DEF Entities, Subscribers
  <2> USE <1>1, <2>t, <2>h DEF Holds, CodeOf, EventOf
  <2>1. CASE StartProcess
    BY <2>1 DEF StartProcess
  <2>2. ASSUME NEW e \in Entities, Harness(e) PROVE return_codes'[f] = return_codes[f]
    <3>1. CASE Spawn(e) \/ StopProcess(e) \/ Terminate(e) \/ Exit(e)
      BY <3>1 DEF Spawn, StopProcess, Terminate, Exit
    <3>2. CASE SubTopic(e) \/ SubReader(e) \/ SubData(e) \/ SubCheck(e)
      BY <3>2 DEF SubTopic, SubReader, SubData, SubCheck, Expect, Conclude
    <3>3. CASE SubFinish(e) \/ SubWait(e) \/ PubDrain(e)
      BY <3>3 DEF SubFinish, SubWait, PubDrain
    <3>4. CASE PubTopic(e) \/ PubWriter(e) \/ PubMatch(e)
      BY <3>4 DEF PubTopic, PubWriter, PubMatch, Expect, Conclude
    <3>5. CASE PubFirstSample(e)
      BY <3>5 DEF PubFirstSample, Conclude
    <3>6. CASE PubSaveSample(e)
      BY <3>6 DEF PubSaveSample, Conclude
    <3>7. QED
      BY <2>2, <3>1, <3>2, <3>3, <3>4, <3>5, <3>6 DEF Harness, Subscriber, Publisher
  <2>3. ASSUME NEW e \in Entities, Raise(e) \/ AppExits(e) \/ AppBlocks(e)
        PROVE  return_codes'[f] = return_codes[f]
    BY <2>3 DEF Raise, AppExits, AppBlocks
  <2>4. CASE JoinAndJudge \/ UNCHANGED vars
    BY <2>4 DEF JoinAndJudge, vars
  <2>5. QED
    BY <2>1, <2>2, <2>3, <2>4 DEF Next
<1>2. IInv /\ [Next]_vars =>
        [\A e \in Entities :
           (return_codes[e] \notin {Unwritten, "OK"} \/ finished[e]) =>
              return_codes'[e] = return_codes[e]]_vars
  BY <1>1
<1>3. QED
  BY <1>2, Invariance, PTL DEF Spec, FailureIsFinal

\* When no process dies of an exception, a process that leaves has set its event.
LEMMA NextLeaving ==
  ASSUME MayRaise = {}, IInv, Leaving, [Next]_vars
  PROVE  Leaving'
<1> SUFFICES ASSUME NEW f \in Entities, pc'[f] \in {"exiting", "exited"}
             PROVE  finished'[f]
  BY DEF Leaving
<1>t. pc \in [Entities -> Steps] /\ finished \in [Entities -> BOOLEAN]
      /\ started \in 0..N /\ Publishers \subseteq Entities
  BY HarnessAssumption DEF IInv, TypeOK
<1>h. Holds(f) /\ (pc[f] \in {"exiting", "exited"} => finished[f])
  BY DEF IInv, Leaving
<1> HIDE DEF Entities, Subscribers
<1> USE <1>t, <1>h DEF Holds, EventOf
<1>1. CASE StartProcess
  BY <1>1 DEF StartProcess
<1>2. ASSUME NEW e \in Entities, Harness(e) PROVE finished'[f]
  <2>1. CASE Spawn(e) \/ StopProcess(e) \/ Terminate(e) \/ Exit(e)
    BY <2>1 DEF Spawn, StopProcess, Terminate, Exit
  <2>2. CASE SubTopic(e) \/ SubReader(e) \/ SubData(e) \/ SubCheck(e)
    BY <2>2 DEF SubTopic, SubReader, SubData, SubCheck, Expect, Conclude, Concluded
  <2>3. CASE SubFinish(e) \/ SubWait(e) \/ PubDrain(e)
    BY <2>3 DEF SubFinish, SubWait, PubDrain
  <2>4. CASE PubTopic(e) \/ PubWriter(e) \/ PubMatch(e)
    BY <2>4 DEF PubTopic, PubWriter, PubMatch, Expect, Conclude, Concluded
  <2>5. CASE PubFirstSample(e)
    BY <2>5 DEF PubFirstSample, Conclude, Concluded
  <2>6. CASE PubSaveSample(e)
    BY <2>6 DEF PubSaveSample, Conclude, Concluded
  <2>7. QED
    BY <1>2, <2>1, <2>2, <2>3, <2>4, <2>5, <2>6 DEF Harness, Subscriber, Publisher
<1>3. ASSUME NEW e \in Entities, Raise(e) PROVE finished'[f]
  BY <1>3 DEF Raise
<1>4. ASSUME NEW e \in Entities, AppExits(e) \/ AppBlocks(e) PROVE finished'[f]
  BY <1>4 DEF AppExits, AppBlocks
<1>5. CASE JoinAndJudge \/ UNCHANGED vars
  BY <1>5 DEF JoinAndJudge, vars
<1>6. QED
  BY <1>1, <1>2, <1>3, <1>4, <1>5 DEF Next

LEMMA LeavingInvariance == ASSUME MayRaise = {} PROVE Spec => [](IInv /\ Leaving)
<1>1. Init => Leaving
  BY DEF Init, Leaving
<1>2. IInv /\ Leaving /\ [Next]_vars => Leaving'
  BY NextLeaving
<1>3. QED
  BY <1>1, <1>2, Invariance, PTL DEF Spec

\* If pexpect raises nowhere, run_test finds every code written when it has
\* joined the processes, as the comment at lines 480-482 promises.
THEOREM CodesWritten == ASSUME MayRaise = {} PROVE Spec => []ReturnCodesWritten
<1>1. IInv /\ Leaving => ReturnCodesWritten
  BY DEF IInv, Holds, EventOf, Leaving, ReturnCodesWritten
<1>2. QED
  BY <1>1, LeavingInvariance, PTL

\* A step of the harness is a report, the decision, or invisible above.
LEMMA StepRefines ==
  ASSUME MayRaise = {}, IInv, IInv', Leaving, [Next]_vars
  PROVE  [Abstract!ANext]_(Abstract!avars)
<1>t. TypeOK /\ TypeOK'
  BY DEF IInv
<1>q. ASSUME UNCHANGED <<return_codes, finished, expected_codes, verdict>>
      PROVE  UNCHANGED Abstract!avars
  BY <1>q DEF Abstract!avars, Reported
<1>w. ASSUME NEW e \in Entities, ~finished[e], UNCHANGED <<finished, expected_codes, verdict>>,
             \A f \in Entities \ {e} : return_codes'[f] = return_codes[f]
      PROVE  UNCHANGED Abstract!avars
  BY <1>w DEF Abstract!avars, Reported
<1>r. ASSUME NEW e \in Entities, ~finished[e], finished' = [finished EXCEPT ![e] = TRUE],
             UNCHANGED <<return_codes, expected_codes, verdict>>
      PROVE  Abstract!Report(e)
  <2>1. return_codes[e] \in ReturnCode
    <3>1. finished'[e] /\ Holds(e)'
      BY <1>t, <1>r DEF IInv, TypeOK
    <3>2. return_codes[e] # Unwritten
      BY <3>1, <1>r DEF Holds, EventOf
    <3>3. QED
      BY <3>2, <1>t DEF TypeOK
  <2>2. Reported' = [Reported EXCEPT ![e] = return_codes[e]] /\ Reported[e] = Unwritten
    BY <1>t, <1>r DEF Reported, TypeOK
  <2>3. QED
    BY <1>r, <2>1, <2>2 DEF Abstract!Report
<1>1. CASE StartProcess
  BY <1>1, <1>q DEF StartProcess
<1>2. ASSUME NEW e \in Entities, Harness(e) PROVE [Abstract!ANext]_(Abstract!avars)
  <2>h. Holds(e)
    BY DEF IInv
  <2>1. CASE Spawn(e) \/ StopProcess(e) \/ Terminate(e) \/ Exit(e) \/ SubWait(e)
    BY <2>1, <1>q DEF Spawn, StopProcess, Terminate, Exit, SubWait
  <2>2. CASE SubTopic(e) \/ SubReader(e) \/ SubData(e) \/ SubCheck(e)
    <3>1. ~finished[e]
      BY <2>2, <2>h DEF Holds, EventOf, SubTopic, SubReader, SubData, SubCheck, Expect
    <3>2. \A f \in Entities \ {e} : return_codes'[f] = return_codes[f]
      BY <2>2, <1>t DEF TypeOK, SubTopic, SubReader, SubData, SubCheck, Expect, Conclude
    <3>3. UNCHANGED <<finished, expected_codes, verdict>>
      BY <2>2 DEF SubTopic, SubReader, SubData, SubCheck, Expect
    <3>4. QED
      BY <3>1, <3>2, <3>3, <1>w
  <2>3. CASE SubFinish(e)
    <3>1. ~finished[e]
      BY <2>3, <2>h DEF Holds, EventOf, SubFinish
    <3>2. QED
      BY <3>1, <2>3, <1>r DEF SubFinish, Abstract!ANext
  <2>4. CASE PubTopic(e) \/ PubWriter(e) \/ PubMatch(e) \/ PubFirstSample(e) \/ PubSaveSample(e)
    <3>1. ~finished[e]
      BY <2>4, <2>h DEF Holds, EventOf, PubTopic, PubWriter, PubMatch, PubFirstSample,
         PubSaveSample, Expect
    <3>2. \A f \in Entities \ {e} : return_codes'[f] = return_codes[f]
      BY <2>4, <1>t DEF TypeOK, PubTopic, PubWriter, PubMatch, PubFirstSample,
         PubSaveSample, Expect, Conclude
    <3>3. UNCHANGED <<finished, expected_codes, verdict>>
      BY <2>4 DEF PubTopic, PubWriter, PubMatch, PubFirstSample, PubSaveSample, Expect
    <3>4. QED
      BY <3>1, <3>2, <3>3, <1>w
  <2>5. CASE PubDrain(e)
    <3>1. ~finished[e]
      BY <2>5, <2>h DEF Holds, EventOf, PubDrain
    <3>2. QED
      BY <3>1, <2>5, <1>r DEF PubDrain, Abstract!ANext
  <2>6. QED
    BY <1>2, <2>1, <2>2, <2>3, <2>4, <2>5 DEF Harness, Subscriber, Publisher
<1>3. ASSUME NEW e \in Entities, Raise(e) \/ AppExits(e) \/ AppBlocks(e)
      PROVE  [Abstract!ANext]_(Abstract!avars)
  BY <1>3, <1>q DEF Raise, AppExits, AppBlocks
<1>4. CASE JoinAndJudge
  <2>1. \A e \in Entities : finished[e] /\ return_codes[e] \in ReturnCode
    <3>1. \A e \in Entities : finished[e]
      BY <1>4 DEF JoinAndJudge, Leaving
    <3>2. \A e \in Entities : return_codes[e] # Unwritten
      BY <3>1 DEF IInv, Holds, EventOf
    <3>3. QED
      BY <3>1, <3>2, <1>t DEF TypeOK
  <2>2. Reported = return_codes
    BY <2>1, <1>t DEF Reported, TypeOK
  <2>3. TestResult(return_codes, expected_codes) = Abstract!Judge(Reported, expected_codes)
    BY <2>1, <2>2, CodesAreNotUnwritten
    DEF TestResult, Abstract!Judge, Unsupported, Abstract!Unsupported
  <2>4. \A e \in Entities : Reported[e] # Unwritten
    BY <2>1, <2>2, CodesAreNotUnwritten
  <2>5. UNCHANGED <<Reported, expected_codes>>
    BY <1>4 DEF JoinAndJudge, Reported
  <2>6. Abstract!Decide
    BY <1>4, <2>3, <2>4, <2>5 DEF JoinAndJudge, Abstract!Decide
  <2>7. QED
    BY <2>6 DEF Abstract!ANext
<1>5. CASE UNCHANGED vars
  BY <1>5, <1>q DEF vars
<1>6. QED
  BY <1>1, <1>2, <1>3, <1>4, <1>5 DEF Next

\* If pexpect raises nowhere, run_test implements TestVerdict: one final report
\* per application, and a verdict that depends on the reports alone.
THEOREM Refinement == ASSUME MayRaise = {} PROVE Spec => ImplementsTestVerdict
<1>1. Init => Abstract!AInit
  BY DEF Init, Abstract!AInit, Reported
<1>2. IInv /\ Leaving /\ IInv' /\ [Next]_vars => [Abstract!ANext]_(Abstract!avars)
  BY StepRefines
<1>3. QED
  BY <1>1, <1>2, LeavingInvariance, PTL DEF Spec, ImplementsTestVerdict, Abstract!ASpec

=============================================================================
