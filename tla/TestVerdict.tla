---------------------------- MODULE TestVerdict ----------------------------
(***************************************************************************)
(* What run_test promises, without the processes that make it work: every  *)
(* shape_main application under test reports exactly one ReturnCode, and   *)
(* when all of them have reported, the test case gets one verdict, a       *)
(* function of the reported and of the expected codes.                     *)
(***************************************************************************)
EXTENDS Naturals

CONSTANTS
  Entities,       \* the applications of the test case
  ReturnCode,     \* the codes an application may be given
  Pending,        \* "has not reported"; not a ReturnCode
  ExpectedLists   \* the lists of expected codes a test case may declare

VARIABLES
  report,         \* the code reported by each application, or Pending
  expected_codes, \* the codes the test case expects
  verdict         \* "none" until the test case is judged

avars == <<report, expected_codes, verdict>>

Unsupported == {"PUB_UNSUPPORTED_FEATURE", "SUB_UNSUPPORTED_FEATURE"}

\* The JUnit result of a test case: passed, skipped or failed.
Judge(codes, expected) ==
  IF codes = expected THEN "OK"
  ELSE IF \E e \in Entities : codes[e] \in Unsupported THEN "Skipped"
  ELSE "Failure"

AInit ==
  /\ report = [e \in Entities |-> Pending]
  /\ expected_codes \in ExpectedLists
  /\ verdict = "none"

\* An application reports; a report is never withdrawn or replaced.
Report(e) ==
  /\ report[e] = Pending
  /\ \E c \in ReturnCode : report' = [report EXCEPT ![e] = c]
  /\ UNCHANGED <<expected_codes, verdict>>

\* The test case is judged once, after the last report.
Decide ==
  /\ verdict = "none"
  /\ \A e \in Entities : report[e] # Pending
  /\ verdict' = Judge(report, expected_codes)
  /\ UNCHANGED <<report, expected_codes>>

ANext == Decide \/ \E e \in Entities : Report(e)

ASpec == AInit /\ [][ANext]_avars

=============================================================================
