--------------------------- MODULE InteropReport ---------------------------
(***************************************************************************)
(* interoperability_report.py, main(): one pair of executables goes        *)
(* through the selected test cases, and the suite of their results is      *)
(* added to the report only after the last one.  Until then the results    *)
(* exist in this process alone.  run_test is abstracted to what            *)
(* InteropHarness shows it may do: give a verdict, raise, or never return. *)
(***************************************************************************)
EXTENDS JunitReport, SequencesExt

CONSTANT TestSuite  \* the dictionary: a sequence of [name, apps], an app a
                    \* sequence of command line options

\* The keys of a dictionary are different, and no test case gives an
\* application two data representations.
ASSUME SuiteAssumption ==
  /\ TestSuite \in Seq(Range(TestSuite))
  /\ \A i, j \in DOMAIN TestSuite : TestSuite[i].name = TestSuite[j].name => i = j
  /\ \A i \in DOMAIN TestSuite :
       /\ TestSuite[i].apps \in Seq(Seq(STRING))
       /\ \A a \in DOMAIN TestSuite[i].apps : \A o, p \in DOMAIN TestSuite[i].apps[a] :
            TestSuite[i].apps[a][o] = "-x" /\ TestSuite[i].apps[a][p] = "-x" => o = p

VARIABLES
  m_pc,        \* where main() is
  options,     \* the command line
  target,      \* options['filename_report']
  old,         \* the suites fromfile() read
  todo,        \* the test cases the loop has still to visit
  parameters,  \* the apps of each test case, extended in place
  suite,       \* the results of this pair so far
  reports      \* the reports on disk, by name

mvars == <<m_pc, options, target, old, todo, parameters, suite, reports>>

TestNames == {TestSuite[i].name : i \in DOMAIN TestSuite}
Verdicts == {"OK", "Skipped", "Failure"}
Stopped == {"idle", "done", "raised", "killed"}

\* -t or -d, never both (a mutually exclusive group); an option that is not
\* given is the empty set (nargs='+' leaves no other way to have one).
NoOptions == [pair |-> "", tests |-> {}, disabled |-> {}, announce |-> FALSE]

MInit(names) ==
  /\ m_pc = "idle" /\ options = NoOptions /\ target \in names
  /\ old = <<>> /\ todo = <<>> /\ suite = <<>>
  /\ parameters = [t \in TestNames |-> <<>>]
  /\ reports = [n \in names |-> Absent]

\* The module test_suite is loaded anew by every process.
LoadedSuite ==
  [t \in TestNames |-> TestSuite[CHOOSE i \in DOMAIN TestSuite : TestSuite[i].name = t].apps]

\* Mutant: a report that cannot be read is taken for an empty one.
Main_Tolerant(opts, name) ==
  /\ m_pc \in Stopped
  /\ options' = opts /\ target' = name
  /\ old' = reports[name].suites
  /\ m_pc' = "select"
  /\ todo' = TestSuite /\ parameters' = LoadedSuite /\ suite' = <<>>
  /\ UNCHANGED reports

\* The command line is parsed and an existing report is read: ParseError when
\* it is broken, before any test case runs.
Main(opts, name) ==
  /\ m_pc \in Stopped
  /\ options' = opts /\ target' = name
  /\ old' = reports[name].suites
  /\ m_pc' = IF reports[name].state = "broken" THEN "raised" ELSE "select"
  /\ todo' = TestSuite /\ parameters' = LoadedSuite /\ suite' = <<>>
  /\ UNCHANGED reports

are_tests_in_test_suite(test_cases) == test_cases \subseteq TestNames

CheckSelection ==
  /\ m_pc = "select"
  /\ m_pc' = IF /\ are_tests_in_test_suite(options.tests)
                /\ are_tests_in_test_suite(options.disabled)
             THEN "run" ELSE "raised"
  /\ UNCHANGED <<options, target, old, todo, parameters, suite, reports>>

Has(element, option) == \E i \in DOMAIN element : element[i] = option

\* Mutant: -x for every application.
Extended_Always(element) == Append(element, "-x")

\* -x only if the test case does not choose it; the announcements only for a
\* Connext publisher.
Extended(element) ==
  LET e == IF Has(element, "-x") THEN element ELSE Append(element, "-x")
  IN  IF /\ options.announce /\ Has(element, "-P")
         /\ ~Has(element, "--periodic-announcement")
      THEN Append(e, "--periodic-announcement") ELSE e

Skipped(t) == t \in options.disabled \/ (options.tests # {} /\ t \notin options.tests)

SkipCase ==
  /\ m_pc = "run" /\ todo # <<>> /\ Skipped(Head(todo).name)
  /\ todo' = Tail(todo)
  /\ UNCHANGED <<m_pc, options, target, old, parameters, suite, reports>>

\* Extend the parameters and call run_test, which gives a verdict ...
RunCase(verdict) ==
  /\ m_pc = "run" /\ todo # <<>> /\ ~Skipped(Head(todo).name)
  /\ LET t == Head(todo).name IN
     /\ parameters' = [parameters EXCEPT ![t] = [i \in DOMAIN @ |-> Extended(@[i])]]
     /\ suite' = Append(suite, <<t, verdict>>)
  /\ todo' = Tail(todo)
  /\ UNCHANGED <<m_pc, options, target, old, reports>>

\* ... or raises; the results of the cases before it are lost with it.
RunCaseRaises ==
  /\ m_pc = "run" /\ todo # <<>> /\ ~Skipped(Head(todo).name)
  /\ m_pc' = "raised"
  /\ UNCHANGED <<options, target, old, todo, parameters, suite, reports>>

\* ... or never returns: an exception has ended the process of one application,
\* and that of another waits for its event.  Nothing but a signal ends this.
RunCaseHangs ==
  /\ m_pc = "run" /\ todo # <<>> /\ ~Skipped(Head(todo).name)
  /\ m_pc' = "hung"
  /\ UNCHANGED <<options, target, old, todo, parameters, suite, reports>>

\* Mutant: the suites that were read are not written back.
NewSuites_Fresh == <<[name |-> options.pair, cases |-> suite]>>

NewSuites == AddTestsuite(old, [name |-> options.pair, cases |-> suite])

OpenReport ==
  /\ m_pc = "run" /\ todo = <<>>
  /\ m_pc' = "write"
  /\ reports' = [reports EXCEPT ![target] = Broken]
  /\ UNCHANGED <<options, target, old, todo, parameters, suite>>

WriteReport ==
  /\ m_pc = "write"
  /\ m_pc' = "done"
  /\ reports' = [reports EXCEPT ![target] = Readable(NewSuites)]
  /\ UNCHANGED <<options, target, old, todo, parameters, suite>>

KillMain ==
  /\ m_pc \notin Stopped /\ m_pc' = "killed"
  /\ UNCHANGED <<options, target, old, todo, parameters, suite, reports>>

MainStep ==
  \/ CheckSelection \/ SkipCase \/ RunCaseRaises \/ RunCaseHangs \/ OpenReport \/ WriteReport
  \/ \E v \in Verdicts : RunCase(v)

-----------------------------------------------------------------------------

MainTypeOK ==
  /\ m_pc \in Stopped \cup {"select", "run", "hung", "write"}
  /\ target \in DOMAIN reports
  /\ \A n \in DOMAIN reports : reports[n].state \in {"absent", "broken", "ok"}
  /\ IsSuffix(todo, TestSuite)
  /\ \A i \in DOMAIN suite : suite[i] \in TestNames \X Verdicts

=============================================================================
