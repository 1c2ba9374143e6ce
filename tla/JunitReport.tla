---------------------------- MODULE JunitReport ----------------------------
(***************************************************************************)
(* A JUnit report on disk, as junitparser and the tools that share it see  *)
(* it: a file is absent, broken (a writer was interrupted after open()     *)
(* truncated it) or holds a list of test suites, each a name and a list of *)
(* test cases.  junitparser is not part of this repository: its operators  *)
(* are modelled from how the scripts use them.                             *)
(***************************************************************************)
EXTENDS Naturals, Sequences

Absent == [state |-> "absent", suites |-> <<>>]
Broken == [state |-> "broken", suites |-> <<>>]
Readable(suites) == [state |-> "ok", suites |-> suites]

\* JUnitXml.add_testsuite: the cases of a suite whose name is in the report
\* already are appended to that suite, without a look at their names.
AddTestsuite(suites, suite) ==
  IF \E i \in DOMAIN suites : suites[i].name = suite.name
  THEN LET i == CHOOSE j \in DOMAIN suites : suites[j].name = suite.name
       IN  [suites EXCEPT ![i].cases = @ \o suite.cases]
  ELSE Append(suites, suite)

\* The results a report holds: suite name, case name and result of each case.
ResultsOf(suites) ==
  UNION {{<<suites[i].name, suites[i].cases[k]>> : k \in DOMAIN suites[i].cases} :
         i \in DOMAIN suites}

=============================================================================
