------------------------- MODULE DiscoveryRunProofs ------------------------
(***************************************************************************)
(* What the reports of main() hold, for any pairs, test suites, selections,*)
(* packets and numbers of runs and kills: no result of a finished run is   *)
(* ever lost from a report that can be read, and a report that a killed    *)
(* main() left half written is broken for good.  What the sniffer's two    *)
(* reports hold: no two suites of a report share a name, and as long as    *)
(* nothing is killed the JSON and the JUnit report of a date agree and     *)
(* hold every run.  And what the sniffer reads from a capture of any       *)
(* length: which masks it reports, and that the order of consistent        *)
(* packets does not matter.                                                *)
(***************************************************************************)
EXTENDS DiscoveryRun, FiniteSetTheorems, NaturalsInduction, WellFoundedInduction, TLAPS

Cases == TestNames \X Verdicts
Suites == [name : STRING, cases : Seq(Cases)]

MainTypes ==
  /\ reports \in [Names -> [state : {"absent", "broken", "ok"}, suites : Seq(Suites)]]
  /\ target \in Names
  /\ m_pc \notin Stopped => options.pair \in STRING
  /\ old \in Seq(Suites)
  /\ suite \in Seq(Cases)
  /\ todo \in Seq(Range(TestSuite))

\* The script starts main() for one of the pairs.
PairTypes ==
  /\ nth \in Nat \ {0}
  /\ script = "sniffing" => mode = "script" /\ nth <= Len(Pairs)

\* A damaged report is broken and main() is not at work on it: the running
\* process could still write it.
DamagedInv ==
  /\ m_pc = "write" => reports[target].state = "broken"
  /\ damaged \subseteq Names
  /\ \A n \in damaged : /\ reports[n].state = "broken"
                        /\ target = n => m_pc \in Stopped

Holds(r, suites) == \A i \in DOMAIN r[3] : <<r[2], r[3][i]>> \in ResultsOf(suites)

\* While main() works on a report, what it read holds the earlier results: the
\* file itself holds nothing between open() and the end of the write.
KeptInv ==
  \A r \in tested :
    /\ r[1] \in Names
    /\ reports[r[1]].state # "absent"
    /\ reports[r[1]].state = "ok" => Holds(r, reports[r[1]].suites)
    /\ (target = r[1] /\ m_pc \notin Stopped) => Holds(r, old)

ReportInv == MainTypes /\ PairTypes /\ DamagedInv /\ KeptInv

Visited == Len(TestSuite) - Len(todo)
OneRepresentation(apps) ==
  \A a \in DOMAIN apps : \E o \in DOMAIN apps[a] :
    {p \in DOMAIN apps[a] : apps[a][p] = "-x"} = {o}

\* The loop of main(): what is still to do is the rest of the test suite.
TodoInv ==
  /\ Len(todo) <= Len(TestSuite)
  /\ \A i \in 1..Len(todo) : todo[i] = TestSuite[Visited + i]
  /\ m_pc \in {"write", "done"} => todo = <<>>

\* What was visited and not skipped has a result, in order, and only that has.
OrderInv ==
  /\ \A i \in 1..Visited : ~Skipped(TestSuite[i].name) =>
       \E k \in 1..Len(suite) : suite[k][1] = TestSuite[i].name
  /\ \A k \in 1..Len(suite) : /\ Place(suite[k][1]) \in 1..Visited
                              /\ TestSuite[Place(suite[k][1])].name = suite[k][1]
                              /\ ~Skipped(suite[k][1])
  /\ \A k, l \in 1..Len(suite) : k < l => Place(suite[k][1]) < Place(suite[l][1])

\* The parameters are extended in place: those still to do are untouched.
ParametersInv ==
  /\ DOMAIN parameters = TestNames
  /\ \A i \in (Visited + 1)..Len(TestSuite) :
       parameters[TestSuite[i].name] = TestSuite[i].apps
  /\ \A k \in 1..Len(suite) : OneRepresentation(parameters[suite[k][1]])

SuiteInv ==
  /\ m_pc \in Stopped \cup {"select", "run", "hung", "write"}
  /\ TodoInv
  /\ m_pc # "idle" => OrderInv /\ ParametersInv
  /\ m_pc \in {"select", "run", "hung", "raised"} => reports[target].suites = old

-----------------------------------------------------------------------------

\* ResultsOf, element by element.
LEMMA ResultIn ==
  ASSUME NEW suites, NEW i \in DOMAIN suites, NEW k \in DOMAIN suites[i].cases
  PROVE  <<suites[i].name, suites[i].cases[k]>> \in ResultsOf(suites)
<1> DEFINE Part(j) == {<<suites[j].name, suites[j].cases[l]>> : l \in DOMAIN suites[j].cases}
<1>1. ResultsOf(suites) = UNION {Part(j) : j \in DOMAIN suites}
  BY DEF ResultsOf
<1>2. <<suites[i].name, suites[i].cases[k]>> \in Part(i)
  OBVIOUS
<1> HIDE DEF Part
<1>3. Part(i) \in {Part(j) : j \in DOMAIN suites}
  OBVIOUS
<1> QED
  BY <1>1, <1>2, <1>3

LEMMA ResultOut ==
  ASSUME NEW suites, NEW x \in ResultsOf(suites)
  PROVE  \E i \in DOMAIN suites : \E k \in DOMAIN suites[i].cases :
           x = <<suites[i].name, suites[i].cases[k]>>
<1> DEFINE Part(j) == {<<suites[j].name, suites[j].cases[l]>> : l \in DOMAIN suites[j].cases}
<1>1. ResultsOf(suites) = UNION {Part(j) : j \in DOMAIN suites}
  BY DEF ResultsOf
<1> HIDE DEF Part
<1>2. PICK i \in DOMAIN suites : x \in Part(i)
  BY <1>1
<1>3. \E k \in DOMAIN suites[i].cases : x = <<suites[i].name, suites[i].cases[k]>>
  BY <1>2 DEF Part
<1> QED
  BY <1>3

\* add_testsuite keeps every result of the report and adds those of the suite,
\* whether it extends a suite or appends one.
LEMMA AddKeeps ==
  ASSUME NEW N, NEW S, NEW suites \in Seq([name : N, cases : Seq(S)]),
         NEW su \in [name : N, cases : Seq(S)]
  PROVE  /\ AddTestsuite(suites, su) \in Seq([name : N, cases : Seq(S)])
         /\ ResultsOf(suites) \subseteq ResultsOf(AddTestsuite(suites, su))
         /\ \A k \in DOMAIN su.cases :
              <<su.name, su.cases[k]>> \in ResultsOf(AddTestsuite(suites, su))
<1> DEFINE new == AddTestsuite(suites, su)
           R == [name : N, cases : Seq(S)]
<1>a. suites \in Seq(R) /\ su \in R
  OBVIOUS
<1>1. CASE \E i \in DOMAIN suites : suites[i].name = su.name
  <2>1. PICK i \in DOMAIN suites :
          /\ suites[i].name = su.name
          /\ new = [suites EXCEPT ![i] = [suites[i] EXCEPT !.cases = suites[i].cases \o su.cases]]
    BY <1>1 DEF AddTestsuite
  <2> HIDE DEF new
  <2>2. \A r \in R : r.name \in N /\ r.cases \in Seq(S)
    OBVIOUS
  <2>3. /\ i \in 1..Len(suites) /\ suites[i] \in R
        /\ suites[i].cases \in Seq(S) /\ su.cases \in Seq(S)
    <3> HIDE DEF R
    <3> QED
      BY <1>a, <2>2
  <2> DEFINE c == suites[i].cases \o su.cases
  <2>4. c \in Seq(S)
    BY <2>3
  <2>5. /\ new \in Seq(R) /\ DOMAIN new = DOMAIN suites
        /\ \A j \in DOMAIN suites : new[j].name = suites[j].name
        /\ \A j \in DOMAIN suites : j # i => new[j] = suites[j]
        /\ new[i].cases = c
    <3> HIDE DEF c
    <3>1. \A r \in R : /\ [r EXCEPT !.cases = c] \in R
                       /\ [r EXCEPT !.cases = c].name = r.name
                       /\ [r EXCEPT !.cases = c].cases = c
      BY <2>4
    <3>2. new = [suites EXCEPT ![i] = [suites[i] EXCEPT !.cases = c]]
      BY <2>1 DEF c
    <3> DEFINE e == [suites[i] EXCEPT !.cases = c]
    <3>3. e \in R /\ e.name = suites[i].name /\ e.cases = c
      BY <2>3, <3>1
    <3> HIDE DEF R, e
    <3>4. new = [suites EXCEPT ![i] = e]
      BY <3>2 DEF e
    <3> QED
      BY <1>a, <2>3, <3>3, <3>4
  <2>6. \A k \in DOMAIN suites[i].cases :
          k \in DOMAIN new[i].cases /\ new[i].cases[k] = suites[i].cases[k]
    BY <2>3, <2>5
  <2>7. \A k \in DOMAIN su.cases :
          /\ Len(suites[i].cases) + k \in DOMAIN new[i].cases
          /\ new[i].cases[Len(suites[i].cases) + k] = su.cases[k]
    BY <2>3, <2>5
  <2>8. ResultsOf(suites) \subseteq ResultsOf(new)
    <3> SUFFICES ASSUME NEW x \in ResultsOf(suites) PROVE x \in ResultsOf(new)
      OBVIOUS
    <3>1. PICK j \in DOMAIN suites : \E k \in DOMAIN suites[j].cases :
            x = <<suites[j].name, suites[j].cases[k]>>
      BY ResultOut
    <3>2. PICK k \in DOMAIN suites[j].cases : x = <<suites[j].name, suites[j].cases[k]>>
      BY <3>1
    <3>3. k \in DOMAIN new[j].cases /\ new[j].cases[k] = suites[j].cases[k]
      BY <2>5, <2>6
    <3>4. <<new[j].name, new[j].cases[k]>> \in ResultsOf(new)
      BY <2>5, <3>3, ResultIn
    <3> QED
      BY <2>5, <3>2, <3>3, <3>4
  <2>9. ASSUME NEW k \in DOMAIN su.cases
        PROVE  <<su.name, su.cases[k]>> \in ResultsOf(new)
    <3> DEFINE l == Len(suites[i].cases) + k
    <3>1. l \in DOMAIN new[i].cases /\ new[i].cases[l] = su.cases[k]
      BY <2>7
    <3> HIDE DEF l
    <3>2. <<new[i].name, new[i].cases[l]>> \in ResultsOf(new)
      BY <2>5, <3>1, ResultIn
    <3> QED
      BY <2>1, <2>5, <3>1, <3>2
  <2> QED
    BY <2>5, <2>8, <2>9 DEF new
<1>2. CASE ~ \E i \in DOMAIN suites : suites[i].name = su.name
  <2>1. new = Append(suites, su)
    BY <1>2 DEF AddTestsuite
  <2>2. /\ new \in Seq(R) /\ DOMAIN suites \subseteq DOMAIN new
        /\ \A j \in DOMAIN suites : new[j] = suites[j]
        /\ Len(suites) + 1 \in DOMAIN new /\ new[Len(suites) + 1] = su
    <3> HIDE DEF R
    <3> QED
      BY <1>a, <2>1
  <2> HIDE DEF new
  <2>3. ResultsOf(suites) \subseteq ResultsOf(new)
    <3> SUFFICES ASSUME NEW x \in ResultsOf(suites) PROVE x \in ResultsOf(new)
      OBVIOUS
    <3>1. PICK j \in DOMAIN suites : \E k \in DOMAIN suites[j].cases :
            x = <<suites[j].name, suites[j].cases[k]>>
      BY ResultOut
    <3>2. PICK k \in DOMAIN suites[j].cases : x = <<suites[j].name, suites[j].cases[k]>>
      BY <3>1
    <3>3. <<new[j].name, new[j].cases[k]>> \in ResultsOf(new)
      BY <2>2, ResultIn
    <3> QED
      BY <2>2, <3>2, <3>3
  <2>4. ASSUME NEW k \in DOMAIN su.cases
        PROVE  <<su.name, su.cases[k]>> \in ResultsOf(new)
    <3> DEFINE l == Len(suites) + 1
    <3>1. l \in DOMAIN new /\ new[l] = su
      BY <2>2
    <3> HIDE DEF l
    <3>2. <<new[l].name, new[l].cases[k]>> \in ResultsOf(new)
      BY <3>1, ResultIn
    <3> QED
      BY <3>1, <3>2
  <2> QED
    BY <2>2, <2>3, <2>4 DEF new
<1> QED
  BY <1>1, <1>2

-----------------------------------------------------------------------------

\* The test cases of the loop have a name of the suite.
LEMMA HeadOfTodo ==
  ASSUME todo \in Seq(Range(TestSuite)), todo # <<>>
  PROVE  Head(todo).name \in TestNames /\ Tail(todo) \in Seq(Range(TestSuite))
<1>1. Head(todo) \in Range(TestSuite) /\ Tail(todo) \in Seq(Range(TestSuite))
  OBVIOUS
<1>2. PICK i \in DOMAIN TestSuite : Head(todo) = TestSuite[i]
  BY <1>1 DEF Range
<1> QED
  BY <1>1, <1>2 DEF TestNames

LEMMA PairNames == Pairs \in Seq(STRING)
BY RunAssumption

LEMMA InitReports == Init => ReportInv
<1> SUFFICES ASSUME Init PROVE ReportInv
  OBVIOUS
<1> USE DEF Init, MInit
<1>1. MainTypes
  <2>1. m_pc \in Stopped
    BY DEF Stopped
  <2>2. reports \in [Names -> [state : {"absent", "broken", "ok"}, suites : Seq(Suites)]]
    BY DEF Absent
  <2> QED
    BY <2>1, <2>2 DEF MainTypes
<1>2. PairTypes
  BY DEF PairTypes
<1>3. DamagedInv
  BY DEF DamagedInv
<1>4. KeptInv
  BY DEF KeptInv
<1> QED
  BY <1>1, <1>2, <1>3, <1>4 DEF ReportInv

\* A step that leaves main(), its reports and the histories alone.
LEMMA Elsewhere ==
  ASSUME ReportInv, PairTypes', UNCHANGED <<mvars, tested, damaged>>
  PROVE  ReportInv'
<1>1. MainTypes'
  BY DEF ReportInv, MainTypes, mvars
<1>2. DamagedInv'
  BY DEF ReportInv, DamagedInv, mvars
<1>3. KeptInv'
  BY DEF ReportInv, KeptInv, mvars, Holds
<1> QED
  BY <1>1, <1>2, <1>3 DEF ReportInv

\* main() starts: a broken report makes it raise, so that what it read is all
\* the report holds.
LEMMA MainStarts ==
  ASSUME ReportInv, PairTypes', NEW opts, NEW name \in Names, opts.pair \in STRING,
         Main(opts, name), UNCHANGED <<tested, damaged>>
  PROVE  ReportInv'
<1> USE DEF Main
<1>1. MainTypes'
  <2>1. reports[name].suites \in Seq(Suites)
    BY DEF ReportInv, MainTypes
  <2>2. TestSuite \in Seq(Range(TestSuite))
    BY SuiteAssumption
  <2>3. <<>> \in Seq(Cases)
    OBVIOUS
  <2> QED
    BY <2>1, <2>2, <2>3 DEF ReportInv, MainTypes
<1>2. DamagedInv'
  BY DEF ReportInv, DamagedInv, Stopped
<1>3. KeptInv'
  <2> SUFFICES ASSUME NEW r \in tested
               PROVE  /\ r[1] \in Names
                      /\ reports[r[1]].state # "absent"
                      /\ reports[r[1]].state = "ok" => Holds(r, reports[r[1]].suites)
                      /\ (name = r[1] /\ m_pc' \notin Stopped) => Holds(r, reports[name].suites)
    BY DEF KeptInv, Holds
  <2>1. /\ r[1] \in Names
        /\ reports[r[1]].state # "absent"
        /\ reports[r[1]].state = "ok" => Holds(r, reports[r[1]].suites)
    BY DEF ReportInv, KeptInv
  <2>2. reports[r[1]].state \in {"absent", "broken", "ok"}
    BY <2>1 DEF ReportInv, MainTypes
  <2>3. reports[name].state = "broken" => m_pc' \in Stopped
    BY DEF Stopped
  <2> QED
    BY <2>1, <2>2, <2>3
<1> QED
  BY <1>1, <1>2, <1>3 DEF ReportInv

\* main() goes on without a look at the report: it may stop, never resume.
LEMMA MainGoesOn ==
  ASSUME ReportInv, PairTypes', m_pc \notin Stopped, m_pc # "write",
         m_pc' # "write", MainTypes',
         UNCHANGED <<target, old, reports, tested, damaged>>
  PROVE  ReportInv'
<1>1. DamagedInv'
  BY DEF ReportInv, DamagedInv
<1>2. KeptInv'
  BY DEF ReportInv, KeptInv, Holds
<1> QED
  BY <1>1, <1>2 DEF ReportInv

LEMMA StepMainKeeps ==
  ASSUME ReportInv, StepMain
  PROVE  ReportInv'
<1> USE DEF StepMain
<1>a. PairTypes'
  BY DEF ReportInv, PairTypes
<1>t. MainTypes
  BY DEF ReportInv
<1>1. CASE CheckSelection
  <2>1. m_pc = "select" /\ m_pc' \in {"run", "raised"} /\ tested' = tested
    BY <1>1 DEF CheckSelection
  <2>2. MainTypes'
    BY <1>1, <1>t DEF CheckSelection, MainTypes, Stopped
  <2> QED
    BY <1>1, <1>a, <2>1, <2>2, MainGoesOn DEF CheckSelection, Stopped
<1>2. CASE SkipCase
  <2>1. m_pc = "run" /\ m_pc' = "run" /\ tested' = tested
    BY <1>2 DEF SkipCase
  <2>2. MainTypes'
    <3>1. Tail(todo) \in Seq(Range(TestSuite))
      BY <1>2, <1>t, HeadOfTodo DEF SkipCase, MainTypes, Stopped
    <3> QED
      BY <1>2, <1>t, <3>1 DEF SkipCase, MainTypes, Stopped
  <2> QED
    BY <1>2, <1>a, <2>1, <2>2, MainGoesOn DEF SkipCase, Stopped
<1>3. CASE RunCaseRaises
  <2>1. m_pc = "run" /\ m_pc' = "raised" /\ tested' = tested
    BY <1>3 DEF RunCaseRaises
  <2>2. MainTypes'
    BY <1>3, <1>t DEF RunCaseRaises, MainTypes, Stopped
  <2> QED
    BY <1>3, <1>a, <2>1, <2>2, MainGoesOn DEF RunCaseRaises, Stopped
<1>h. CASE RunCaseHangs
  <2>1. m_pc = "run" /\ m_pc' = "hung" /\ tested' = tested
    BY <1>h DEF RunCaseHangs
  <2>2. MainTypes'
    BY <1>h, <1>t DEF RunCaseHangs, MainTypes, Stopped
  <2> QED
    BY <1>h, <1>a, <2>1, <2>2, MainGoesOn DEF RunCaseHangs, Stopped
<1>4. ASSUME NEW v \in Verdicts, RunCase(v) PROVE ReportInv'
  <2>1. m_pc = "run" /\ m_pc' = "run" /\ tested' = tested
    BY <1>4 DEF RunCase
  <2>2. MainTypes'
    <3>1. Head(todo).name \in TestNames /\ Tail(todo) \in Seq(Range(TestSuite))
      BY <1>4, <1>t, HeadOfTodo DEF RunCase, MainTypes, Stopped
    <3>2. <<Head(todo).name, v>> \in Cases
      BY <3>1 DEF Cases
    <3>3. suite' = Append(suite, <<Head(todo).name, v>>)
      BY <1>4 DEF RunCase
    <3>4. suite' \in Seq(Cases)
      <4> HIDE DEF StepMain
      <4> QED
        BY <1>t, <3>2, <3>3 DEF MainTypes
    <3> QED
      BY <1>4, <1>t, <3>1, <3>4 DEF RunCase, MainTypes, Stopped
  <2> QED
    BY <1>4, <1>a, <2>1, <2>2, MainGoesOn DEF RunCase, Stopped
\* Not "done" yet: what was read is all there is of the earlier results.
<1>5. CASE OpenReport
  <2>1. /\ m_pc = "run" /\ m_pc' = "write" /\ tested' = tested
        /\ reports' = [reports EXCEPT ![target] = Broken]
        /\ target' = target /\ old' = old
    BY <1>5 DEF OpenReport
  <2>2. Broken.state = "broken"
        /\ Broken \in [state : {"absent", "broken", "ok"}, suites : Seq(Suites)]
    BY DEF Broken
  <2>3. MainTypes'
    BY <1>5, <1>t, <2>1, <2>2 DEF OpenReport, MainTypes, Stopped
  <2>4. DamagedInv'
    BY <1>t, <2>1, <2>2 DEF ReportInv, DamagedInv, MainTypes, Stopped
  <2>5. KeptInv'
    <3> SUFFICES ASSUME NEW r \in tested
                 PROVE  /\ r[1] \in Names
                        /\ reports'[r[1]].state # "absent"
                        /\ reports'[r[1]].state = "ok" => Holds(r, reports'[r[1]].suites)
                        /\ target = r[1] => Holds(r, old)
      BY <2>1 DEF KeptInv, Holds
    <3>1. /\ r[1] \in Names
          /\ reports[r[1]].state # "absent"
          /\ reports[r[1]].state = "ok" => Holds(r, reports[r[1]].suites)
          /\ target = r[1] => Holds(r, old)
      BY <2>1 DEF ReportInv, KeptInv, Stopped
    <3> QED
      BY <1>t, <2>1, <2>2, <3>1 DEF MainTypes
  <2> QED
    BY <1>a, <2>3, <2>4, <2>5 DEF ReportInv
\* The suites that were read, with the new results added.
<1>6. CASE WriteReport
  <2> DEFINE su == [name |-> options.pair, cases |-> suite]
             run == <<target, options.pair, suite>>
  <2>1. /\ m_pc = "write" /\ m_pc' = "done"
        /\ reports' = [reports EXCEPT ![target] = Readable(NewSuites)]
        /\ target' = target /\ old' = old
    BY <1>6 DEF WriteReport
  <2>2. tested' = tested \cup {run}
    BY <2>1
  <2>3. su \in Suites /\ su.name = options.pair /\ su.cases = suite
    <3>1. options.pair \in STRING /\ suite \in Seq(Cases)
      BY <1>t, <2>1 DEF MainTypes, Stopped
    <3> HIDE DEF StepMain
    <3> QED
      BY <3>1 DEF Suites
  <2>4. NewSuites = AddTestsuite(old, su)
    BY DEF NewSuites
  <2> HIDE DEF su
  <2>5. /\ NewSuites \in Seq(Suites)
        /\ ResultsOf(old) \subseteq ResultsOf(NewSuites)
        /\ \A k \in DOMAIN suite : <<options.pair, suite[k]>> \in ResultsOf(NewSuites)
    <3>1. old \in Seq(Suites)
      BY <1>t DEF MainTypes
    <3> QED
      BY <2>3, <2>4, <3>1, AddKeeps DEF Suites
  <2>6. /\ Readable(NewSuites).state = "ok" /\ Readable(NewSuites).suites = NewSuites
        /\ Readable(NewSuites) \in [state : {"absent", "broken", "ok"}, suites : Seq(Suites)]
    <3> HIDE DEF StepMain
    <3> QED
      BY <2>5 DEF Readable
  <2>7. MainTypes'
    BY <1>6, <1>t, <2>1, <2>6 DEF WriteReport, MainTypes, Stopped
  <2>8. /\ DOMAIN reports = Names /\ target \in Names
        /\ reports'[target].state = "ok" /\ reports'[target].suites = NewSuites
        /\ \A n \in Names : n # target => reports'[n] = reports[n]
    BY <1>t, <2>1, <2>6 DEF MainTypes
  <2>9. DamagedInv'
    BY <2>1, <2>8 DEF ReportInv, DamagedInv, Stopped
  <2>10. KeptInv'
    <3> SUFFICES ASSUME NEW r \in tested \cup {run}
                 PROVE  /\ r[1] \in Names
                        /\ reports'[r[1]].state # "absent"
                        /\ reports'[r[1]].state = "ok" => Holds(r, reports'[r[1]].suites)
      BY <2>1, <2>2 DEF KeptInv, Holds, Stopped
    <3>1. CASE r = run
      <4>1. r[1] = target /\ r[2] = options.pair /\ r[3] = suite
        BY <3>1
      <4>2. Holds(r, NewSuites)
        BY <2>5, <4>1 DEF Holds
      <4> QED
        BY <2>8, <4>1, <4>2
    <3>2. CASE r \in tested
      <4>1. /\ r[1] \in Names
            /\ reports[r[1]].state # "absent"
            /\ reports[r[1]].state = "ok" => Holds(r, reports[r[1]].suites)
            /\ target = r[1] => Holds(r, old)
        BY <2>1, <3>2 DEF ReportInv, KeptInv, Stopped
      <4>2. target = r[1] => Holds(r, NewSuites)
        BY <2>5, <4>1 DEF Holds
      <4> QED
        BY <2>8, <4>1, <4>2
    <3> QED
      BY <3>1, <3>2
  <2> QED
    BY <1>a, <2>7, <2>9, <2>10 DEF ReportInv
<1> QED
  BY <1>1, <1>2, <1>3, <1>h, <1>4, <1>5, <1>6 DEF MainStep

\* One step of the specification: its processes, the two scripts' loops and the
\* end of a process.
LEMMA NextKeeps ==
  ASSUME ReportInv, [Next]_vars
  PROVE  ReportInv'
<1>t. PairTypes /\ MainTypes
  BY DEF ReportInv
<1>1. CASE StartSniffer
  <2>1. PairTypes'
    BY <1>1, <1>t DEF StartSniffer, PairTypes, Rest
  <2> QED
    BY <1>1, <2>1, Elsewhere DEF StartSniffer, Rest
<1>2. CASE StartMain
  <2>1. PairTypes'
    BY <1>2, <1>t DEF StartMain, PairTypes, Rest
  <2>2. nth \in DOMAIN Pairs
    BY <1>2, <1>t, PairNames DEF StartMain, PairTypes
  <2>3. Pairs[nth] \in STRING /\ PairReport \in Names
    BY <2>2, PairNames DEF PairReport, Names
  <2> DEFINE opts == Options(Pairs[nth], conf.selection, nth = 1)
  <2>4. opts.pair \in STRING
    BY <2>3 DEF Options
  <2>5. Main(opts, PairReport) /\ UNCHANGED <<tested, damaged>>
    BY <1>2 DEF StartMain, Rest
  <2> HIDE DEF opts
  <2> QED
    BY <2>1, <2>3, <2>4, <2>5, MainStarts
<1>3. CASE NextPair
  <2>1. PairTypes'
    BY <1>3, <1>t DEF NextPair, PairTypes, Rest
  <2> QED
    BY <1>3, <2>1, Elsewhere DEF NextPair, Rest
<1>4. CASE Announce
  <2>1. PairTypes'
    BY <1>4, <1>t DEF Announce, PairTypes, Rest
  <2> QED
    BY <1>4, <2>1, Elsewhere DEF Announce, Rest
<1>5. CASE SniffPcap
  <2>1. nth' = nth + 1 /\ UNCHANGED <<script, mode>> /\ mode = "pcap"
    BY <1>5, Zenon DEF SniffPcap, Rest
  <2>2. PairTypes'
    BY <1>t, <2>1 DEF PairTypes
  <2> QED
    BY <1>5, <2>2, Elsewhere DEF SniffPcap, Rest
<1>6. CASE TestDirectly
  <2>1. PairTypes'
    BY <1>6, <1>t DEF TestDirectly, PairTypes, Rest
  <2>2. PICK i \in DOMAIN Pairs, s \in Selections : Main(Options(Pairs[i], s, FALSE), "out")
    BY <1>6 DEF TestDirectly
  <2>3. Pairs[i] \in STRING /\ "out" \in Names
    BY PairNames DEF Names
  <2> DEFINE opts == Options(Pairs[i], s, FALSE)
  <2>4. opts.pair \in STRING
    BY <2>3 DEF Options
  <2>5. Main(opts, "out") /\ UNCHANGED <<tested, damaged>>
    BY <1>6, <2>2 DEF TestDirectly, Rest
  <2> HIDE DEF opts
  <2> QED
    BY <2>1, <2>3, <2>4, <2>5, MainStarts
<1>7. CASE StepSniffer
  <2>1. PairTypes'
    BY <1>7, <1>t DEF StepSniffer, PairTypes
  <2> QED
    BY <1>7, <2>1, Elsewhere DEF StepSniffer
<1>8. CASE StepMain
  BY <1>8, StepMainKeeps
<1>9. CASE KillOne
  <2>1. PairTypes'
    BY <1>9, <1>t DEF KillOne, PairTypes
  <2>2. CASE UNCHANGED <<mvars, damaged>>
    BY <1>9, <2>1, <2>2, Elsewhere DEF KillOne
  <2>3. CASE /\ KillMain
             /\ damaged' = IF m_pc = "write" THEN damaged \cup {target} ELSE damaged
    <3>1. MainTypes'
      BY <2>3, <1>t DEF KillMain, MainTypes, Stopped
    <3>2. DamagedInv'
      BY <2>3, <1>t DEF ReportInv, DamagedInv, KillMain, MainTypes, Stopped
    <3>3. KeptInv'
      BY <1>9, <2>3 DEF KillOne, ReportInv, KeptInv, KillMain, Holds, Stopped
    <3> QED
      BY <2>1, <3>1, <3>2, <3>3 DEF ReportInv
  <2> QED
    BY <1>9, <2>2, <2>3 DEF KillOne
<1>10. CASE UNCHANGED vars
  <2>1. PairTypes'
    BY <1>10, <1>t DEF vars, PairTypes
  <2> QED
    BY <1>10, <2>1, Elsewhere DEF vars
<1> QED
  BY <1>1, <1>2, <1>3, <1>4, <1>5, <1>6, <1>7, <1>8, <1>9, <1>10 DEF Next, Ended

\* For all the interleavings of the script, the sniffer, main() and their ends:
\* a report that main() was killed over is broken for good.
THEOREM BrokenForGood == Spec => []BrokenStays
<1>1. ReportInv => BrokenStays
  BY DEF ReportInv, DamagedInv, BrokenStays
<1> QED
  BY <1>1, InitReports, NextKeeps, PTL DEF Spec

\* No result of a run of main() that finished is missing from a report that can
\* be read, however many runs shared it and whichever of them were killed.
THEOREM ResultsKept == Spec => []InteropResultsKept
<1>1. ReportInv => InteropResultsKept
  BY DEF ReportInv, KeptInv, Holds, InteropResultsKept
<1> QED
  BY <1>1, InitReports, NextKeeps, PTL DEF Spec

-----------------------------------------------------------------------------
(* The loop of main() over the test suite *)

LEMMA PlaceIs ==
  ASSUME NEW i \in 1..Len(TestSuite)
  PROVE  Place(TestSuite[i].name) = i
BY SuiteAssumption DEF Place

\* Whatever the options, an application is started with one -x.
LEMMA ExtendedOnce ==
  ASSUME NEW S, NEW e \in Seq(S),
         \A o, p \in DOMAIN e : e[o] = "-x" /\ e[p] = "-x" => o = p
  PROVE  \E o \in DOMAIN Extended(e) :
           {p \in DOMAIN Extended(e) : Extended(e)[p] = "-x"} = {o}
<1> DEFINE T == S \cup {"-x", "--periodic-announcement"}
<1>a. e \in Seq(T)
  OBVIOUS
<1> HIDE DEF T
<1> DEFINE x == IF Has(e, "-x") THEN e ELSE Append(e, "-x")
<1>1. /\ x \in Seq(T)
      /\ \E o \in 1..Len(x) : x[o] = "-x" /\ \A p \in 1..Len(x) : x[p] = "-x" => p = o
  <2>1. CASE Has(e, "-x")
    BY <1>a, <2>1 DEF Has
  <2>2. CASE ~Has(e, "-x")
    <3>1. /\ x \in Seq(T) /\ Len(x) = Len(e) + 1 /\ x[Len(e) + 1] = "-x"
          /\ \A p \in 1..Len(e) : x[p] = e[p]
      <4>1. x = Append(e, "-x")
        BY <2>2, Zenon
      <4> HIDE DEF x
      <4>2. "-x" \in T
        BY DEF T
      <4> QED
        BY <1>a, <4>1, <4>2
    <3>2. \A p \in 1..Len(e) : e[p] # "-x"
      BY <2>2 DEF Has
    <3> HIDE DEF x
    <3> QED
      BY <1>a, <3>1, <3>2
  <2> QED
    BY <2>1, <2>2
<1>2. Extended(e) = x \/ Extended(e) = Append(x, "--periodic-announcement")
  BY DEF Extended
<1> HIDE DEF x
<1>3. PICK o \in 1..Len(x) : x[o] = "-x" /\ \A p \in 1..Len(x) : x[p] = "-x" => p = o
  BY <1>1
<1>4. CASE Extended(e) = x
  BY <1>1, <1>3, <1>4
<1>5. CASE Extended(e) = Append(x, "--periodic-announcement")
  <2>1. /\ DOMAIN Extended(e) = 1..(Len(x) + 1)
        /\ \A p \in 1..Len(x) : Extended(e)[p] = x[p]
        /\ Extended(e)[Len(x) + 1] # "-x"
    <3>1. "--periodic-announcement" \in T
      BY DEF T
    <3> QED
      BY <1>1, <1>5, <3>1
  <2>2. {p \in DOMAIN Extended(e) : Extended(e)[p] = "-x"} = {o}
    BY <1>1, <1>3, <2>1
  <2> QED
    BY <1>1, <2>1, <2>2
<1> QED
  BY <1>2, <1>4, <1>5

LEMMA InitSuite == Init => SuiteInv
<1> SUFFICES ASSUME Init PROVE SuiteInv
  OBVIOUS
<1>1. m_pc = "idle" /\ todo = <<>>
  BY DEF Init, MInit
<1>2. Len(TestSuite) \in Nat
  BY SuiteAssumption
<1> QED
  BY <1>1, <1>2 DEF SuiteInv, TodoInv, Stopped

LEMMA SuiteElsewhere ==
  ASSUME SuiteInv, UNCHANGED mvars
  PROVE  SuiteInv'
<1>1. /\ UNCHANGED <<m_pc, options, target, old, todo, parameters, suite, reports>>
      /\ Visited' = Visited
  BY DEF mvars, Visited
<1>2. OrderInv => OrderInv'
  BY <1>1 DEF OrderInv, Skipped
<1>3. ParametersInv => ParametersInv'
  BY <1>1 DEF ParametersInv
<1> QED
  BY <1>1, <1>2, <1>3 DEF SuiteInv, TodoInv

LEMMA SuiteStarts ==
  ASSUME NEW opts, NEW name, Main(opts, name)
  PROVE  SuiteInv'
<1>1. /\ m_pc' \in {"raised", "select"} /\ todo' = TestSuite /\ suite' = <<>>
      /\ parameters' = LoadedSuite /\ reports' = reports /\ target' = name
      /\ old' = reports[name].suites
  BY DEF Main
<1>2. Len(TestSuite) \in Nat
  BY SuiteAssumption
<1>3. Visited' = 0
  BY <1>1, <1>2 DEF Visited
<1>4. TodoInv'
  BY <1>1, <1>2, <1>3 DEF TodoInv
<1>5. OrderInv'
  BY <1>1, <1>3 DEF OrderInv
<1>6. ParametersInv'
  <2>1. \A i \in 1..Len(TestSuite) : LoadedSuite[TestSuite[i].name] = TestSuite[i].apps
    BY SuiteAssumption DEF LoadedSuite, TestNames
  <2>2. DOMAIN LoadedSuite = TestNames
    BY DEF LoadedSuite
  <2> QED
    BY <1>1, <1>2, <1>3, <2>1, <2>2 DEF ParametersInv
<1> QED
  BY <1>1, <1>4, <1>5, <1>6 DEF SuiteInv, Stopped

\* The next test case of the loop.
LEMMA NextCase ==
  ASSUME ReportInv, SuiteInv, todo # <<>>, todo' = Tail(todo)
  PROVE  /\ Visited \in Nat /\ Visited + 1 \in 1..Len(TestSuite)
         /\ Visited' = Visited + 1
         /\ Head(todo) = TestSuite[Visited + 1]
         /\ Len(todo') <= Len(TestSuite)
         /\ \A i \in 1..Len(todo') : todo'[i] = TestSuite[Visited' + i]
<1>1. todo \in Seq(Range(TestSuite)) /\ Len(TestSuite) \in Nat
  BY SuiteAssumption DEF ReportInv, MainTypes
<1>2. /\ Len(todo) <= Len(TestSuite)
      /\ \A i \in 1..Len(todo) : todo[i] = TestSuite[Visited + i]
  BY DEF SuiteInv, TodoInv
<1>3. /\ Len(todo) \in Nat \ {0} /\ Len(todo') = Len(todo) - 1
      /\ Head(todo) = todo[1]
      /\ \A i \in 1..Len(todo') : todo'[i] = todo[i + 1]
  BY <1>1
<1>4. Visited = Len(TestSuite) - Len(todo) /\ Visited' = Len(TestSuite) - Len(todo')
  BY DEF Visited
<1>5. /\ Visited \in Nat /\ Visited + 1 \in 1..Len(TestSuite)
      /\ Visited' = Visited + 1
  BY <1>1, <1>2, <1>3, <1>4
<1>6. ASSUME NEW i \in 1..Len(todo')
      PROVE  todo'[i] = TestSuite[Visited' + i]
  <2>1. i + 1 \in 1..Len(todo)
    BY <1>3
  <2>2. todo'[i] = todo[i + 1] /\ todo[i + 1] = TestSuite[Visited + (i + 1)]
    BY <1>2, <1>3, <2>1
  <2>3. Visited + (i + 1) = Visited' + i
    BY <1>5
  <2> QED
    BY <2>2, <2>3
<1> QED
  BY <1>1, <1>2, <1>3, <1>5, <1>6

\* A case is run: its parameters are those of the suite, extended once.
LEMMA CaseRuns ==
  ASSUME ReportInv, SuiteInv, NEW v \in Verdicts, RunCase(v)
  PROVE  OrderInv' /\ ParametersInv'
<1> DEFINE n == Visited + 1
           t == TestSuite[n].name
<1>1. /\ Visited \in Nat /\ n \in 1..Len(TestSuite) /\ Visited' = n
      /\ Head(todo) = TestSuite[n]
  BY NextCase DEF RunCase
<1>2. /\ ~Skipped(t)
      /\ parameters' = [parameters EXCEPT ![t] = [i \in DOMAIN parameters[t] |-> Extended(parameters[t][i])]]
      /\ suite' = Append(suite, <<t, v>>)
      /\ options' = options
  BY <1>1 DEF RunCase
<1>3. suite \in Seq(Cases) /\ Len(suite) \in Nat
  BY DEF ReportInv, MainTypes
<1>4. /\ Len(suite') = Len(suite) + 1
      /\ \A k \in 1..Len(suite) : suite'[k] = suite[k]
      /\ suite'[Len(suite) + 1] = <<t, v>>
  BY <1>2, <1>3
<1>5. OrderInv /\ ParametersInv
  BY DEF SuiteInv, RunCase
<1>6. Place(t) = n /\ t \in TestNames
  BY <1>1, PlaceIs DEF TestNames
<1>7. \A s : Skipped(s)' <=> Skipped(s)
  BY <1>2 DEF Skipped
<1>8. ASSUME NEW k \in 1..Len(suite)
      PROVE  /\ suite'[k][1] = suite[k][1] /\ suite[k][1] # t
             /\ Place(suite[k][1]) \in 1..Visited
  BY <1>1, <1>4, <1>5, <1>6 DEF OrderInv
<1> HIDE DEF t
<1>9. OrderInv'
  <2>1. ASSUME NEW i \in 1..Visited', ~Skipped(TestSuite[i].name)
        PROVE  \E k \in 1..Len(suite') : suite'[k][1] = TestSuite[i].name
    <3>1. CASE i = n
      <4>1. Len(suite) + 1 \in 1..Len(suite') /\ suite'[Len(suite) + 1][1] = TestSuite[i].name
        BY <1>3, <1>4, <3>1 DEF t
      <4> QED
        BY <4>1
    <3>2. CASE i # n
      <4>1. i \in 1..Visited
        BY <1>1, <3>2
      <4>2. PICK k \in 1..Len(suite) : suite[k][1] = TestSuite[i].name
        BY <1>5, <2>1, <4>1 DEF OrderInv
      <4> QED
        BY <1>3, <1>4, <4>2
    <3> QED
      BY <3>1, <3>2
  <2>2. ASSUME NEW k \in 1..Len(suite')
        PROVE  /\ Place(suite'[k][1]) \in 1..Visited'
               /\ TestSuite[Place(suite'[k][1])].name = suite'[k][1]
               /\ ~Skipped(suite'[k][1])
    <3>1. CASE k = Len(suite) + 1
      <4>1. suite'[k][1] = t
        BY <1>4, <3>1
      <4> QED
        BY <1>1, <1>2, <1>6, <4>1 DEF t
    <3>2. CASE k \in 1..Len(suite)
      BY <1>1, <1>4, <1>5, <1>8, <3>2 DEF OrderInv
    <3> QED
      BY <1>3, <1>4, <3>1, <3>2
  <2>3. ASSUME NEW k \in 1..Len(suite'), NEW l \in 1..Len(suite'), k < l
        PROVE  Place(suite'[k][1]) < Place(suite'[l][1])
    <3>1. k \in 1..Len(suite)
      BY <1>3, <1>4, <2>3
    <3>2. CASE l = Len(suite) + 1
      <4>1. suite'[l][1] = t
        BY <1>4, <3>2
      <4> QED
        BY <1>1, <1>6, <1>8, <3>1, <4>1
    <3>3. CASE l \in 1..Len(suite)
      BY <1>5, <1>8, <2>3, <3>1, <3>3 DEF OrderInv
    <3> QED
      BY <1>3, <1>4, <3>2, <3>3
  <2> QED
    BY <1>7, <2>1, <2>2, <2>3 DEF OrderInv
<1>10. ParametersInv'
  <2>1. /\ DOMAIN parameters = TestNames
        /\ parameters[t] = TestSuite[n].apps
    BY <1>1, <1>5 DEF ParametersInv, t
  <2>2. /\ DOMAIN parameters' = TestNames
        /\ \A s \in TestNames : s # t => parameters'[s] = parameters[s]
        /\ parameters'[t] = [i \in DOMAIN TestSuite[n].apps |-> Extended(TestSuite[n].apps[i])]
    BY <1>2, <1>6, <2>1
  <2>3. OneRepresentation(parameters'[t])
    <3> DEFINE apps == TestSuite[n].apps
    <3> SUFFICES ASSUME NEW a \in DOMAIN apps
                 PROVE  \E o \in DOMAIN Extended(apps[a]) :
                          {p \in DOMAIN Extended(apps[a]) : Extended(apps[a])[p] = "-x"} = {o}
      <4>1. /\ DOMAIN parameters'[t] = DOMAIN apps
            /\ \A b \in DOMAIN apps : parameters'[t][b] = Extended(apps[b])
        BY <2>2
      <4> HIDE DEF apps
      <4> QED
        BY <4>1 DEF OneRepresentation
    <3>1. apps \in Seq(Seq(STRING))
          /\ \A o, p \in DOMAIN apps[a] : apps[a][o] = "-x" /\ apps[a][p] = "-x" => o = p
      BY <1>1, SuiteAssumption
    <3> HIDE DEF apps
    <3>2. apps[a] \in Seq(STRING)
      BY <3>1
    <3> QED
      BY <3>1, <3>2, ExtendedOnce
  <2>4. ASSUME NEW i \in (Visited' + 1)..Len(TestSuite)
        PROVE  parameters'[TestSuite[i].name] = TestSuite[i].apps
    <3>1. i \in (Visited + 1)..Len(TestSuite) /\ i # n /\ i \in 1..Len(TestSuite)
      BY <1>1
    <3>2. TestSuite[i].name # t /\ TestSuite[i].name \in TestNames
      BY <1>1, <3>1, SuiteAssumption DEF t, TestNames
    <3> QED
      BY <1>5, <2>2, <3>1, <3>2 DEF ParametersInv
  <2>5. ASSUME NEW k \in 1..Len(suite')
        PROVE  OneRepresentation(parameters'[suite'[k][1]])
    <3>1. CASE k = Len(suite) + 1
      BY <1>4, <2>3, <3>1
    <3>2. CASE k \in 1..Len(suite)
      <4>1. suite[k] \in Cases
        BY <1>3, <3>2
      <4>2. suite[k][1] \in TestNames
        BY <4>1 DEF Cases
      <4> QED
        BY <1>5, <1>8, <2>2, <3>2, <4>2 DEF ParametersInv
    <3> QED
      BY <1>3, <1>4, <3>1, <3>2
  <2> QED
    BY <2>2, <2>4, <2>5 DEF ParametersInv, OneRepresentation
<1> QED
  BY <1>9, <1>10

LEMMA SuiteStep ==
  ASSUME ReportInv, SuiteInv, MainStep
  PROVE  SuiteInv'
<1>a. m_pc # "idle" /\ OrderInv /\ ParametersInv
  BY DEF SuiteInv, MainStep, CheckSelection, SkipCase, RunCaseRaises, RunCaseHangs, OpenReport, WriteReport, RunCase
<1>1. CASE CheckSelection \/ RunCaseRaises \/ RunCaseHangs \/ OpenReport \/ WriteReport
  <2>1. UNCHANGED <<options, target, old, todo, parameters, suite>>
    BY <1>1 DEF CheckSelection, RunCaseRaises, RunCaseHangs, OpenReport, WriteReport
  <2>2. OrderInv' /\ ParametersInv' /\ Visited' = Visited
    <3>1. Visited' = Visited
      BY <2>1 DEF Visited
    <3>2. OrderInv'
      BY <1>a, <2>1, <3>1 DEF OrderInv, Skipped
    <3>3. ParametersInv'
      BY <1>a, <2>1, <3>1 DEF ParametersInv
    <3> QED
      BY <3>1, <3>2, <3>3
  <2>3. /\ m_pc' \in {"run", "hung", "raised", "write", "done"}
        /\ m_pc' \in {"write", "done"} => todo = <<>>
        /\ m_pc' \in {"run", "hung", "raised"} => m_pc \in {"select", "run"} /\ reports' = reports
    BY <1>1 DEF CheckSelection, RunCaseRaises, RunCaseHangs, OpenReport, WriteReport, SuiteInv, TodoInv
  <2> QED
    BY <2>1, <2>2, <2>3 DEF SuiteInv, TodoInv, Stopped
<1>2. CASE SkipCase
  <2>1. /\ UNCHANGED <<m_pc, options, target, old, parameters, suite, reports>>
        /\ m_pc = "run" /\ todo # <<>> /\ Skipped(Head(todo).name) /\ todo' = Tail(todo)
    BY <1>2 DEF SkipCase
  <2>2. /\ Visited \in Nat /\ Visited + 1 \in 1..Len(TestSuite)
        /\ Visited' = Visited + 1
        /\ Head(todo) = TestSuite[Visited + 1]
        /\ Len(todo') <= Len(TestSuite)
        /\ \A i \in 1..Len(todo') : todo'[i] = TestSuite[Visited' + i]
    BY <2>1, NextCase
  <2>3. \A s : Skipped(s)' <=> Skipped(s)
    BY <2>1 DEF Skipped
  <2>4. OrderInv'
    <3>1. ASSUME NEW i \in 1..Visited', ~Skipped(TestSuite[i].name)
          PROVE  \E k \in 1..Len(suite') : suite'[k][1] = TestSuite[i].name
      <4>1. i \in 1..Visited
        BY <2>1, <2>2, <3>1
      <4> QED
        BY <1>a, <2>1, <3>1, <4>1 DEF OrderInv
    <3>2. \A k \in 1..Len(suite) : Place(suite[k][1]) \in 1..Visited'
      BY <1>a, <2>2 DEF OrderInv
    <3> QED
      BY <1>a, <2>1, <2>3, <3>1, <3>2 DEF OrderInv
  <2>5. ParametersInv'
    <3>1. (Visited' + 1)..Len(TestSuite) \subseteq (Visited + 1)..Len(TestSuite)
      BY <2>2
    <3> QED
      BY <1>a, <2>1, <3>1 DEF ParametersInv, OneRepresentation
  <2> QED
    BY <2>1, <2>2, <2>4, <2>5 DEF SuiteInv, TodoInv, Stopped
<1>3. ASSUME NEW v \in Verdicts, RunCase(v) PROVE SuiteInv'
  <2>1. /\ UNCHANGED <<m_pc, target, old, reports>>
        /\ m_pc = "run" /\ todo # <<>> /\ todo' = Tail(todo)
    BY <1>3 DEF RunCase
  <2>2. /\ Len(todo') <= Len(TestSuite)
        /\ \A i \in 1..Len(todo') : todo'[i] = TestSuite[Visited' + i]
    BY <2>1, NextCase
  <2>3. OrderInv' /\ ParametersInv'
    BY <1>3, CaseRuns
  <2> QED
    BY <2>1, <2>2, <2>3 DEF SuiteInv, TodoInv, Stopped
<1> QED
  BY <1>1, <1>2, <1>3 DEF MainStep

LEMMA SuiteKilled ==
  ASSUME SuiteInv, KillMain
  PROVE  SuiteInv'
<1>1. /\ UNCHANGED <<options, target, old, todo, parameters, suite, reports>>
      /\ m_pc # "idle" /\ m_pc' = "killed"
  BY DEF KillMain, Stopped
<1>2. Visited' = Visited
  BY <1>1 DEF Visited
<1>3. OrderInv'
  BY <1>1, <1>2 DEF SuiteInv, OrderInv, Skipped
<1>4. ParametersInv'
  BY <1>1, <1>2 DEF SuiteInv, ParametersInv
<1> QED
  BY <1>1, <1>2, <1>3, <1>4 DEF SuiteInv, TodoInv, Stopped

LEMMA NextSuite ==
  ASSUME ReportInv, SuiteInv, [Next]_vars
  PROVE  SuiteInv'
<1>1. CASE StartMain
  BY <1>1, SuiteStarts DEF StartMain
<1>2. CASE TestDirectly
  BY <1>2, SuiteStarts DEF TestDirectly
<1>3. CASE StepMain
  BY <1>3, SuiteStep DEF StepMain
<1>4. CASE KillOne
  BY <1>4, SuiteKilled, SuiteElsewhere DEF KillOne
<1>5. CASE StartSniffer \/ NextPair \/ Announce \/ SniffPcap \/ StepSniffer \/ Ended
  <2>1. UNCHANGED mvars
    BY <1>5 DEF StartSniffer, NextPair, Announce, SniffPcap, StepSniffer, Ended, vars
  <2> QED
    BY <2>1, SuiteElsewhere
<1>6. CASE UNCHANGED vars
  BY <1>6, SuiteElsewhere DEF vars
<1> QED
  BY <1>1, <1>2, <1>3, <1>4, <1>5, <1>6 DEF Next

\* What is left of the loop of main() when the report is written: nothing.
LEMMA SuiteComplete ==
  ASSUME ReportInv, SuiteInv
  PROVE  AllOrNothing
<1>1. ASSUME m_pc = "done"
      PROVE  /\ {suite[i][1] : i \in DOMAIN suite} = {t \in TestNames : ~Skipped(t)}
             /\ \A i, j \in DOMAIN suite : i < j => Place(suite[i][1]) < Place(suite[j][1])
             /\ \A i \in DOMAIN suite : \A a \in DOMAIN parameters[suite[i][1]] :
                  Cardinality({o \in DOMAIN parameters[suite[i][1]][a] :
                                 parameters[suite[i][1]][a][o] = "-x"}) = 1
  <2>1. suite \in Seq(Cases) /\ DOMAIN suite = 1..Len(suite) /\ Len(TestSuite) \in Nat
    BY SuiteAssumption DEF ReportInv, MainTypes
  <2>2. todo = <<>> /\ OrderInv /\ ParametersInv
    BY <1>1 DEF SuiteInv, TodoInv
  <2>3. Visited = Len(TestSuite)
    BY <2>1, <2>2 DEF Visited
  <2>4. ASSUME NEW t \in TestNames, ~Skipped(t)
        PROVE  \E i \in DOMAIN suite : suite[i][1] = t
    <3>1. PICK i \in 1..Len(TestSuite) : t = TestSuite[i].name
      BY SuiteAssumption DEF TestNames
    <3> QED
      BY <2>1, <2>2, <2>3, <2>4, <3>1 DEF OrderInv
  <2>5. ASSUME NEW i \in DOMAIN suite
        PROVE  suite[i][1] \in TestNames /\ ~Skipped(suite[i][1])
    <3>1. suite[i] \in Cases
      BY <2>1
    <3>2. suite[i][1] \in TestNames
      BY <3>1 DEF Cases
    <3> QED
      BY <2>1, <2>2, <3>2 DEF OrderInv
  <2>6. ASSUME NEW i \in DOMAIN suite, NEW a \in DOMAIN parameters[suite[i][1]]
        PROVE  Cardinality({o \in DOMAIN parameters[suite[i][1]][a] :
                              parameters[suite[i][1]][a][o] = "-x"}) = 1
    <3>1. PICK o : {p \in DOMAIN parameters[suite[i][1]][a] :
                      parameters[suite[i][1]][a][p] = "-x"} = {o}
      <4>1. OneRepresentation(parameters[suite[i][1]])
        BY <2>1, <2>2 DEF ParametersInv
      <4> QED
        BY <4>1 DEF OneRepresentation
    <3> QED
      BY <3>1, FS_Singleton
  <2>7. \A i, j \in DOMAIN suite : i < j => Place(suite[i][1]) < Place(suite[j][1])
    BY <2>1, <2>2 DEF OrderInv
  <2> QED
    BY <2>4, <2>5, <2>6, <2>7
<1>2. m_pc \in {"select", "run", "hung", "raised"} => reports[target].suites = old
  BY DEF SuiteInv
<1> QED
  BY <1>1, <1>2 DEF AllOrNothing

\* main() reports all of the selected test cases, once, in order and with one
\* data representation each, or leaves the report as it was.
THEOREM AllOrNothingHolds == Spec => []AllOrNothing
<1>1. ReportInv /\ SuiteInv => AllOrNothing
  BY SuiteComplete
<1> QED
  BY <1>1, InitReports, NextKeeps, InitSuite, NextSuite, PTL DEF Spec

-----------------------------------------------------------------------------
(* The sniffer.                                                            *)

Working == {"capture", "dump", "json_read", "json_open", "json_dump",
            "xml_read", "xml_open", "xml_write", "cleanup"}
Failures == SUBSET {"Participant_Discovery", "Protocol_Version", "Builtin_Endpoints",
                    "Topic_Type_Match", "QoS_Compatibility"}
RunNames == {"rtps_discovery_report"} \cup Range(Pairs)
RunSuites == [name : RunNames, cases : Seq(Failures)]
\* Where both reports of a date are complete.
Settled == Resting \cup {"capture", "dump", "json_read", "cleanup"}

SnifferTypes ==
  /\ s_pc \in Resting \cup Working
  /\ key \in {""} \cup Range(Pairs)
  /\ stamp \in Stamps
  /\ temp \in BOOLEAN
  /\ DOMAIN json = Stamps
  /\ xml \in [Stamps -> [state : {"absent", "broken", "ok"}, suites : Seq(RunSuites)]]
  /\ DOMAIN pending = {"json", "suites"}
  /\ pending.suites \in Seq(RunSuites)

\* add_testsuite extends the suite of a name, so that there is one only, and it
\* has a case.
Named(suites) ==
  /\ \A i, j \in DOMAIN suites : suites[i].name = suites[j].name => i = j
  /\ \A i \in DOMAIN suites : suites[i].cases # <<>>

NamedInv == (\A f \in Stamps : Named(xml[f].suites)) /\ Named(pending.suites)

OneRun(j) ==
  /\ j.state \in {"absent", "broken", "single", "runs"}
  /\ j.state = "single" => \E k : DOMAIN j.runs = {k}

JsonInv == (\A f \in Stamps : OneRun(json[f])) /\ OneRun(pending.json)

\* The last result of a pair is that of the summary of the pair.
Judged(suites, runs, pairs) ==
  \A i \in DOMAIN suites : suites[i].name \in pairs =>
    /\ suites[i].name \in DOMAIN runs
    /\ suites[i].cases[Len(suites[i].cases)] = FailedCases(runs[suites[i].name], Args)

Agree(j, x) ==
  /\ j.state \in {"absent", "single", "runs"} /\ x.state \in {"absent", "ok"}
  /\ j.state = "absent" <=> x.state = "absent"
  /\ x.state = "absent" => x.suites = <<>>
  /\ Judged(x.suites, j.runs, Range(Pairs))

\* The JSON report is ahead of the JUnit report by the run being written.
Ahead(j, suites) ==
  /\ j.state \in {"single", "runs"}
  /\ Judged(suites, j.runs, Range(Pairs) \ {key})
  /\ key # "" => key \in DOMAIN j.runs /\ j.runs[key] = summary

AgreeInv ==
  kills = 0 =>
    /\ \A f \in Stamps :
         (f # stamp \/ s_pc \in Settled) =>
           Agree(json[f], xml[f])
    /\ s_pc \in {"json_open", "json_dump"} => Ahead(pending.json, xml[stamp].suites)
    /\ s_pc = "xml_read" => Ahead(json[stamp], xml[stamp].suites)
    /\ s_pc \in {"xml_open", "xml_write"} =>
         /\ json[stamp].state \in {"single", "runs"}
         /\ Judged(pending.suites, json[stamp].runs, Range(Pairs))

Result == <<key, FailedCases(summary, Args)>>

\* Between open() and the end of the write the results are in memory alone.
SniffedInv ==
  kills = 0 =>
    /\ (s_pc \in {"xml_open", "xml_write"} /\ key # "") =>
         Result \in ResultsOf(pending.suites)
    /\ \A r \in sniffed :
         /\ r[1] \in Stamps
         /\ (r[2] # "" /\ ~(r[1] = stamp /\ s_pc = "xml_write")) =>
              <<r[2], r[3]>> \in ResultsOf(xml[r[1]].suites)
         /\ (r[2] # "" /\ r[1] = stamp /\ s_pc \in {"xml_open", "xml_write"}) =>
              <<r[2], r[3]>> \in ResultsOf(pending.suites)

ScriptTypes ==
  /\ script \in {"pair", "sniffing", "testing", "done"}
  /\ kills \in 0..MaxKills

SnifferInv == SnifferTypes /\ NamedInv /\ JsonInv /\ AgreeInv /\ SniffedInv /\ ScriptTypes

-----------------------------------------------------------------------------

LEMMA AppendedAt ==
  ASSUME NEW R, NEW s \in Seq(R), NEW x \in R
  PROVE  /\ Len(s) \in Nat /\ DOMAIN s = 1..Len(s)
         /\ DOMAIN Append(s, x) = 1..(Len(s) + 1)
         /\ \A j \in 1..Len(s) : Append(s, x)[j] = s[j]
         /\ Append(s, x)[Len(s) + 1] = x
OBVIOUS

\* add_testsuite with one case: the suite of its name is the only one that
\* changes, and the case is its last.
LEMMA AddOne ==
  ASSUME NEW N, NEW S, NEW suites \in Seq([name : N, cases : Seq(S)]), Named(suites),
         NEW su \in [name : N, cases : Seq(S)], NEW c, su.cases = <<c>>
  PROVE  /\ Named(AddTestsuite(suites, su))
         /\ \A j \in DOMAIN AddTestsuite(suites, su) :
              LET s == AddTestsuite(suites, su)[j]
              IN  IF s.name = su.name THEN s.cases[Len(s.cases)] = c
                  ELSE j \in DOMAIN suites /\ s = suites[j]
<1> DEFINE R == [name : N, cases : Seq(S)]
           n == su.name
           new == AddTestsuite(suites, su)
<1>a. su \in R /\ su.name = n /\ su.cases = <<c>> /\ new = AddTestsuite(suites, su)
  OBVIOUS
<1>b. \A r \in R : r.name \in N /\ r.cases \in Seq(S)
  OBVIOUS
<1>c. suites \in Seq(R)
  OBVIOUS
<1> HIDE DEF R, n, new
<1>d. su.name = n
  BY DEF n
<1> SUFFICES /\ Named(new)
             /\ \A j \in DOMAIN new : new[j].name # n =>
                  j \in DOMAIN suites /\ new[j] = suites[j]
             /\ \A j \in DOMAIN new : new[j].name = n =>
                  new[j].cases[Len(new[j].cases)] = c
  BY DEF new, n
<1>1. CASE \E i \in DOMAIN suites : suites[i].name = n
  <2>1. PICK i \in DOMAIN suites :
          /\ suites[i].name = n
          /\ new = [suites EXCEPT ![i] = [suites[i] EXCEPT !.cases = suites[i].cases \o <<c>>]]
    BY <1>1, <1>a DEF AddTestsuite
  <2>2. suites[i] \in R /\ suites[i].cases \in Seq(S)
    BY <1>b, <1>c, <2>1
  <2> DEFINE e == [suites[i] EXCEPT !.cases = suites[i].cases \o <<c>>]
  <2>3. e.name = n /\ e.cases = suites[i].cases \o <<c>>
    BY <2>1, <2>2 DEF R
  <2>4. e.cases # <<>> /\ e.cases[Len(e.cases)] = c
    <3> HIDE DEF e
    <3> QED
      BY <2>2, <2>3
  <2>5. /\ DOMAIN new = DOMAIN suites /\ new[i] = e
        /\ \A j \in DOMAIN suites : j # i => new[j] = suites[j]
    BY <2>1
  <2> HIDE DEF e
  <2>6. \A j \in DOMAIN suites : j # i => suites[j].name # n
    BY <2>1 DEF Named
  <2>7. \A j \in DOMAIN new : new[j].name = suites[j].name /\ new[j].cases # <<>>
    BY <2>1, <2>3, <2>4, <2>5 DEF Named
  <2>8. Named(new)
    BY <2>5, <2>7 DEF Named
  <2> QED
    BY <2>1, <2>4, <2>5, <2>6, <2>7, <2>8 DEF n
<1>2. CASE ~ \E i \in DOMAIN suites : suites[i].name = n
  <2>1. new = Append(suites, su)
    BY <1>2, <1>a DEF AddTestsuite
  <2>2. /\ DOMAIN new = DOMAIN suites \cup {Len(suites) + 1}
        /\ \A j \in DOMAIN suites : new[j] = suites[j]
        /\ new[Len(suites) + 1] = su
        /\ Len(suites) + 1 \notin DOMAIN suites
    <3>1. /\ Len(suites) \in Nat /\ DOMAIN suites = 1..Len(suites)
          /\ DOMAIN new = 1..(Len(suites) + 1)
          /\ \A j \in 1..Len(suites) : new[j] = suites[j]
          /\ new[Len(suites) + 1] = su
      <4>1. su \in R
        BY <1>a
      <4>2. /\ Len(suites) \in Nat /\ DOMAIN suites = 1..Len(suites)
            /\ DOMAIN Append(suites, su) = 1..(Len(suites) + 1)
            /\ \A j \in 1..Len(suites) : Append(suites, su)[j] = suites[j]
            /\ Append(suites, su)[Len(suites) + 1] = su
        BY <1>c, <4>1, AppendedAt
      <4> QED
        BY <2>1, <4>2, Zenon
    <3>2. /\ 1..(Len(suites) + 1) = 1..Len(suites) \cup {Len(suites) + 1}
          /\ Len(suites) + 1 \notin 1..Len(suites)
      BY <3>1
    <3> QED
      BY <3>1, <3>2
  <2>3. su.cases # <<>> /\ su.cases[Len(su.cases)] = c
    BY <1>a
  <2> QED
    BY <1>2, <1>d, <2>2, <2>3 DEF Named
<1> QED
  BY <1>1, <1>2

LEMMA FailuresOf == FailedCases(summary, Args) \in Failures
BY DEF FailedCases, Failures

LEMMA PairFacts ==
  /\ \A p \in Range(Pairs) : p \notin {"", "run_1", "run_timestamp", "rtps_discovery_report"}
  /\ 1 \in Stamps /\ 1..Len(Pairs) \subseteq Stamps /\ MaxKills \in Nat
BY RunAssumption

LEMMA InitSniffer == Init => SnifferInv
<1> SUFFICES ASSUME Init PROVE SnifferInv
  OBVIOUS
<1>1. /\ s_pc = "idle" /\ key = "" /\ temp = FALSE /\ stamp \in Stamps
      /\ pending = Nothing
      /\ json = [f \in Stamps |-> NoJson] /\ xml = [f \in Stamps |-> Absent]
      /\ sniffed = {} /\ kills = 0 /\ script = "pair"
  BY DEF Init, SInit
<1>2. /\ DOMAIN Nothing = {"json", "suites"} /\ Nothing.suites = <<>>
      /\ Nothing.json = NoJson /\ NoJson.state = "absent"
      /\ Absent.state = "absent" /\ Absent.suites = <<>>
      /\ Absent \in [state : {"absent", "broken", "ok"}, suites : Seq(RunSuites)]
  BY DEF Nothing, NoJson, Absent
<1>3. SnifferTypes
  <2>1. temp \in BOOLEAN
    BY <1>1, Zenon
  <2> QED
    BY <1>1, <1>2, <2>1 DEF SnifferTypes, Resting
<1>n. Named(<<>>) /\ \A runs, pairs : Judged(<<>>, runs, pairs)
  BY DEF Named, Judged
<1>4. NamedInv
  BY <1>1, <1>2, <1>n DEF NamedInv
<1>5. JsonInv
  BY <1>1, <1>2 DEF JsonInv, OneRun
<1>6. AgreeInv
  <2>1. Agree(NoJson, Absent)
    BY <1>2, <1>n DEF Agree
  <2>2. \A f \in Stamps : Agree(json[f], xml[f])
    BY <1>1, <2>1
  <2> QED
    BY <1>1, <2>2 DEF AgreeInv
<1>7. SniffedInv
  BY <1>1 DEF SniffedInv
<1>8. ScriptTypes
  <2>1. MaxKills \in Nat
    BY PairFacts
  <2>2. kills = 0 /\ script = "pair"
    BY <1>1, Zenon
  <2> QED
    BY <2>1, <2>2 DEF ScriptTypes
<1> QED
  BY <1>3, <1>4, <1>5, <1>6, <1>7, <1>8 DEF SnifferInv

\* Steps that leave both reports alone and do not begin to write one.
LEMMA ReportsRest ==
  ASSUME SnifferInv, s_pc \in Settled, s_pc' \in Settled, SnifferTypes', ScriptTypes',
         pending' \in {pending, Nothing}, kills' = kills,
         UNCHANGED <<json, xml, sniffed>>
  PROVE  SnifferInv'
<1>1. /\ Nothing.suites = <<>> /\ Nothing.json = NoJson /\ NoJson.state = "absent"
  BY DEF Nothing, NoJson
<1>2. /\ s_pc \notin {"json_open", "json_dump", "xml_read", "xml_open", "xml_write"}
      /\ s_pc' \notin {"json_open", "json_dump", "xml_read", "xml_open", "xml_write"}
  BY DEF Settled, Resting
<1>3. NamedInv'
  BY <1>1 DEF SnifferInv, NamedInv, Named
<1>4. JsonInv'
  BY <1>1 DEF SnifferInv, JsonInv, OneRun
<1>5. AgreeInv'
  <2> SUFFICES ASSUME kills = 0, NEW f \in Stamps PROVE Agree(json[f], xml[f])
    BY <1>2 DEF AgreeInv
  <2> QED
    BY DEF SnifferInv, AgreeInv
<1>6. SniffedInv'
  BY <1>2 DEF SnifferInv, SniffedInv
<1> QED
  BY <1>3, <1>4, <1>5, <1>6 DEF SnifferInv

\* The first report of a date has a single run, a later one is told by its key.
LEMMA MergedRuns ==
  ASSUME SnifferInv
  PROVE  /\ OneRun(MergedJson)
         /\ Agree(json[stamp], xml[stamp]) => Ahead(MergedJson, xml[stamp].suites)
<1>t. key \in {""} \cup Range(Pairs) /\ stamp \in Stamps
  BY DEF SnifferInv, SnifferTypes
<1>p. \A p \in Range(Pairs) : p \notin {"", "run_1", "run_timestamp"}
  BY PairFacts
<1>1. CASE json[stamp].state \in {"absent", "broken"}
  <2>1. /\ MergedJson.state = "single"
        /\ MergedJson.runs = [k \in {first_key} |-> summary]
    BY <1>1 DEF MergedJson
  <2>2. OneRun(MergedJson)
    BY <2>1 DEF OneRun
  <2>3. ASSUME Agree(json[stamp], xml[stamp]) PROVE Ahead(MergedJson, xml[stamp].suites)
    <3>1. xml[stamp].suites = <<>>
      BY <1>1, <2>3 DEF Agree
    <3>2. Judged(xml[stamp].suites, MergedJson.runs, Range(Pairs) \ {key})
      BY <3>1 DEF Judged
    <3>3. key # "" => key \in DOMAIN MergedJson.runs /\ MergedJson.runs[key] = summary
      BY <2>1 DEF first_key
    <3> QED
      BY <2>1, <3>2, <3>3 DEF Ahead
  <2> QED
    BY <2>2, <2>3
<1>2. CASE json[stamp].state \notin {"absent", "broken"}
  <2> DEFINE runs == json[stamp].runs
  <2>1. /\ MergedJson.state = "runs"
        /\ MergedJson.runs = [k \in DOMAIN runs \cup {pair_key} |->
                                IF k = pair_key THEN summary ELSE runs[k]]
    BY <1>2 DEF MergedJson
  <2>2. OneRun(MergedJson)
    BY <2>1 DEF OneRun
  <2> HIDE DEF runs
  <2>3. ASSUME Agree(json[stamp], xml[stamp]) PROVE Ahead(MergedJson, xml[stamp].suites)
    <3>1. Judged(xml[stamp].suites, runs, Range(Pairs))
      BY <2>3 DEF Agree, runs
    <3>2. \A p \in Range(Pairs) \ {key} : p # pair_key
      BY <1>p DEF pair_key
    <3>3. ASSUME NEW p \in Range(Pairs) \ {key}, p \in DOMAIN runs
          PROVE  p \in DOMAIN MergedJson.runs /\ MergedJson.runs[p] = runs[p]
      BY <2>1, <3>2, <3>3
    <3>4. Judged(xml[stamp].suites, MergedJson.runs, Range(Pairs) \ {key})
      BY <3>1, <3>3 DEF Judged
    <3>5. key # "" => key \in DOMAIN MergedJson.runs /\ MergedJson.runs[key] = summary
      BY <2>1 DEF pair_key
    <3> QED
      BY <2>1, <3>4, <3>5 DEF Ahead
  <2> QED
    BY <2>2, <2>3
<1> QED
  BY <1>1, <1>2

LEMMA StepReadJson ==
  ASSUME SnifferInv, ReadJson, ScriptTypes', UNCHANGED <<kills, sniffed>>
  PROVE  SnifferInv'
<1>1. /\ s_pc = "json_read" /\ s_pc' = "json_open"
      /\ UNCHANGED <<key, stamp, temp, summary, json, xml>>
      /\ pending' = [pending EXCEPT !.json = MergedJson]
  BY DEF ReadJson, unchanged_run
<1>t. SnifferTypes
  BY DEF SnifferInv
<1>2. /\ DOMAIN pending' = {"json", "suites"} /\ pending'.json = MergedJson
      /\ pending'.suites = pending.suites
  BY <1>1, <1>t DEF SnifferTypes
<1>3. SnifferTypes'
  BY <1>1, <1>2, <1>t DEF SnifferTypes, Working
<1>4. NamedInv'
  BY <1>1, <1>2 DEF SnifferInv, NamedInv, Named
<1>5. JsonInv'
  <2>1. OneRun(pending'.json)
    BY <1>2, MergedRuns
  <2> QED
    BY <1>1, <2>1 DEF SnifferInv, JsonInv, OneRun
<1>6. AgreeInv'
  <2> SUFFICES ASSUME kills = 0
               PROVE  /\ \A f \in Stamps : f # stamp => Agree(json[f], xml[f])
                      /\ Ahead(pending'.json, xml[stamp].suites)
    BY <1>1 DEF AgreeInv, Settled, Resting, Ahead
  <2>1. \A f \in Stamps : Agree(json[f], xml[f])
    BY <1>1 DEF SnifferInv, AgreeInv, Settled
  <2> QED
    BY <1>2, <1>t, <2>1, MergedRuns DEF SnifferTypes
<1>7. SniffedInv'
  BY <1>1 DEF SnifferInv, SniffedInv
<1> QED
  BY <1>3, <1>4, <1>5, <1>6, <1>7 DEF SnifferInv

LEMMA StepOpenJson ==
  ASSUME SnifferInv, OpenJson, ScriptTypes', UNCHANGED <<kills, sniffed>>
  PROVE  SnifferInv'
<1>1. /\ s_pc = "json_open" /\ s_pc' = "json_dump"
      /\ UNCHANGED <<key, stamp, temp, summary, pending, xml>>
      /\ json' = [json EXCEPT ![stamp] = BrokenJson]
  BY DEF OpenJson, unchanged_run
<1>t. SnifferTypes
  BY DEF SnifferInv
<1>2. /\ DOMAIN json' = Stamps /\ json'[stamp] = BrokenJson
      /\ \A f \in Stamps : f # stamp => json'[f] = json[f]
  BY <1>1, <1>t DEF SnifferTypes
<1>3. SnifferTypes'
  BY <1>1, <1>2, <1>t DEF SnifferTypes, Working
<1>4. NamedInv'
  BY <1>1 DEF SnifferInv, NamedInv, Named
<1>5. JsonInv'
  <2>1. OneRun(BrokenJson)
    BY DEF OneRun, BrokenJson
  <2>2. \A f \in Stamps : OneRun(json'[f])
    BY <1>2, <2>1 DEF SnifferInv, JsonInv
  <2> QED
    BY <1>1, <2>2 DEF SnifferInv, JsonInv, OneRun
<1>6. AgreeInv'
  <2> SUFFICES ASSUME kills = 0
               PROVE  /\ \A f \in Stamps : f # stamp => Agree(json'[f], xml[f])
                      /\ Ahead(pending.json, xml[stamp].suites)
    BY <1>1 DEF AgreeInv, Settled, Resting, Ahead
  <2> QED
    BY <1>1, <1>2 DEF SnifferInv, AgreeInv
<1>7. SniffedInv'
  BY <1>1 DEF SnifferInv, SniffedInv
<1> QED
  BY <1>3, <1>4, <1>5, <1>6, <1>7 DEF SnifferInv

LEMMA StepDumpJson ==
  ASSUME SnifferInv, DumpJson, ScriptTypes', UNCHANGED <<kills, sniffed>>
  PROVE  SnifferInv'
<1>1. /\ s_pc = "json_dump" /\ s_pc' = "xml_read"
      /\ UNCHANGED <<key, stamp, temp, summary, pending, xml>>
      /\ json' = [json EXCEPT ![stamp] = pending.json]
  BY DEF DumpJson, unchanged_run
<1>t. SnifferTypes
  BY DEF SnifferInv
<1>2. /\ DOMAIN json' = Stamps /\ json'[stamp] = pending.json
      /\ \A f \in Stamps : f # stamp => json'[f] = json[f]
  BY <1>1, <1>t DEF SnifferTypes
<1>3. SnifferTypes'
  BY <1>1, <1>2, <1>t DEF SnifferTypes, Working
<1>4. NamedInv'
  BY <1>1 DEF SnifferInv, NamedInv, Named
<1>5. JsonInv'
  <2>1. \A f \in Stamps : OneRun(json'[f])
    BY <1>2 DEF SnifferInv, JsonInv
  <2> QED
    BY <1>1, <2>1 DEF SnifferInv, JsonInv, OneRun
<1>6. AgreeInv'
  <2> SUFFICES ASSUME kills = 0
               PROVE  /\ \A f \in Stamps : f # stamp => Agree(json'[f], xml[f])
                      /\ Ahead(json'[stamp], xml[stamp].suites)
    BY <1>1 DEF AgreeInv, Settled, Resting, Ahead
  <2> QED
    BY <1>1, <1>2 DEF SnifferInv, AgreeInv
<1>7. SniffedInv'
  BY <1>1 DEF SnifferInv, SniffedInv
<1> QED
  BY <1>3, <1>4, <1>5, <1>6, <1>7 DEF SnifferInv

\* The suites in memory hold what was read and the result of this run.
LEMMA MergedCases ==
  ASSUME SnifferInv
  PROVE  /\ MergedSuites \in Seq(RunSuites) /\ Named(MergedSuites)
         /\ ResultsOf(xml[stamp].suites) \subseteq ResultsOf(MergedSuites)
         /\ key # "" => Result \in ResultsOf(MergedSuites)
         /\ \A runs : (/\ Judged(xml[stamp].suites, runs, Range(Pairs) \ {key})
                       /\ key # "" => key \in DOMAIN runs /\ runs[key] = summary) =>
              Judged(MergedSuites, runs, Range(Pairs))
<1> DEFINE n == IF key # "" THEN key ELSE "rtps_discovery_report"
           c == FailedCases(summary, Args)
           su == [name |-> n, cases |-> <<c>>]
           suites == xml[stamp].suites
           new == MergedSuites
<1>t. /\ key \in {""} \cup Range(Pairs) /\ stamp \in Stamps
      /\ xml \in [Stamps -> [state : {"absent", "broken", "ok"}, suites : Seq(RunSuites)]]
  BY DEF SnifferInv, SnifferTypes
<1>p. \A p \in Range(Pairs) : p # "" /\ p # "rtps_discovery_report"
  BY PairFacts
<1>1. new = AddTestsuite(suites, su)
  BY DEF MergedSuites
<1>2. n \in RunNames /\ c \in Failures
  BY <1>t, FailuresOf DEF RunNames
<1>3. suites \in Seq(RunSuites) /\ Named(suites)
  BY <1>t DEF SnifferInv, NamedInv
<1>4. /\ key # "" => n = key
      /\ n \in Range(Pairs) => key # ""
  BY <1>p
<1> HIDE DEF n, c, suites, new
<1>5. su \in RunSuites /\ su.name = n /\ su.cases = <<c>> /\ DOMAIN su.cases = {1}
  BY <1>2 DEF RunSuites
<1>6. /\ Named(new)
      /\ \A j \in DOMAIN new : new[j].name # n => j \in DOMAIN suites /\ new[j] = suites[j]
      /\ \A j \in DOMAIN new : new[j].name = n => new[j].cases[Len(new[j].cases)] = c
  <2> HIDE DEF su
  <2>1. /\ Named(AddTestsuite(suites, su))
        /\ \A j \in DOMAIN AddTestsuite(suites, su) :
             LET s == AddTestsuite(suites, su)[j]
             IN  IF s.name = su.name THEN s.cases[Len(s.cases)] = c
                 ELSE j \in DOMAIN suites /\ s = suites[j]
    <3>1. /\ su \in [name : RunNames, cases : Seq(Failures)]
          /\ suites \in Seq([name : RunNames, cases : Seq(Failures)])
      BY <1>3, <1>5 DEF RunSuites
    <3>2. Named(suites) /\ su.cases = <<c>>
      BY <1>3, <1>5
    <3> QED
      BY <3>1, <3>2, AddOne
  <2> QED
    BY <1>1, <1>5, <2>1
<1>7. /\ new \in Seq(RunSuites) /\ ResultsOf(suites) \subseteq ResultsOf(new)
      /\ <<n, c>> \in ResultsOf(new)
  <2> HIDE DEF su
  <2>1. /\ AddTestsuite(suites, su) \in Seq(RunSuites)
        /\ ResultsOf(suites) \subseteq ResultsOf(AddTestsuite(suites, su))
        /\ \A k \in DOMAIN su.cases :
             <<su.name, su.cases[k]>> \in ResultsOf(AddTestsuite(suites, su))
    BY <1>3, <1>5, AddKeeps DEF RunSuites
  <2>2. su.name = n /\ 1 \in DOMAIN su.cases /\ su.cases[1] = c
    BY <1>5
  <2> QED
    BY <1>1, <2>1, <2>2
<1>8. key # "" => Result \in ResultsOf(new)
  BY <1>4, <1>7 DEF Result, c
<1>9. ASSUME NEW runs, Judged(suites, runs, Range(Pairs) \ {key}),
             key # "" => key \in DOMAIN runs /\ runs[key] = summary
      PROVE  Judged(new, runs, Range(Pairs))
  <2> SUFFICES ASSUME NEW j \in DOMAIN new, new[j].name \in Range(Pairs)
               PROVE  /\ new[j].name \in DOMAIN runs
                      /\ new[j].cases[Len(new[j].cases)] = FailedCases(runs[new[j].name], Args)
    BY DEF Judged
  <2>1. CASE new[j].name = n
    BY <1>4, <1>6, <1>9, <2>1 DEF c
  <2>2. CASE new[j].name # n
    <3>1. new[j].name # key
      BY <1>4, <1>p, <2>2
    <3> QED
      BY <1>6, <1>9, <2>2, <3>1 DEF Judged
  <2> QED
    BY <2>1, <2>2
<1> QED
  BY <1>6, <1>7, <1>8, <1>9 DEF suites, new

LEMMA StepReadXml ==
  ASSUME SnifferInv, ReadXml, ScriptTypes', UNCHANGED <<kills, sniffed>>
  PROVE  SnifferInv'
<1>1. /\ s_pc = "xml_read" /\ s_pc' = "xml_open"
      /\ UNCHANGED <<key, stamp, temp, summary, json, xml>>
      /\ pending' = [pending EXCEPT !.suites = MergedSuites]
  BY DEF ReadXml, unchanged_run
<1>t. SnifferTypes
  BY DEF SnifferInv
<1>2. /\ DOMAIN pending' = {"json", "suites"} /\ pending'.json = pending.json
      /\ pending'.suites = MergedSuites
  BY <1>1, <1>t DEF SnifferTypes
<1>m. /\ MergedSuites \in Seq(RunSuites) /\ Named(MergedSuites)
      /\ ResultsOf(xml[stamp].suites) \subseteq ResultsOf(MergedSuites)
      /\ key # "" => Result \in ResultsOf(MergedSuites)
  BY MergedCases
<1>3. SnifferTypes'
  BY <1>1, <1>2, <1>t, <1>m DEF SnifferTypes, Working
<1>4. NamedInv'
  <2>1. Named(pending'.suites)
    BY <1>2, <1>m
  <2> QED
    BY <1>1, <2>1 DEF SnifferInv, NamedInv, Named
<1>5. JsonInv'
  BY <1>1, <1>2 DEF SnifferInv, JsonInv, OneRun
<1>6. AgreeInv'
  <2> SUFFICES ASSUME kills = 0
               PROVE  /\ \A f \in Stamps : f # stamp => Agree(json[f], xml[f])
                      /\ json[stamp].state \in {"single", "runs"}
                      /\ Judged(pending'.suites, json[stamp].runs, Range(Pairs))
    BY <1>1 DEF AgreeInv, Settled, Resting
  <2>1. Ahead(json[stamp], xml[stamp].suites)
    BY <1>1 DEF SnifferInv, AgreeInv
  <2>2. Judged(pending'.suites, json[stamp].runs, Range(Pairs))
    BY <1>2, <2>1, MergedCases DEF Ahead
  <2> QED
    BY <2>1, <2>2 DEF SnifferInv, AgreeInv, Ahead
<1>7. SniffedInv'
  <2> SUFFICES ASSUME kills = 0
               PROVE  /\ key # "" => Result \in ResultsOf(pending'.suites)
                      /\ \A r \in sniffed :
                           /\ r[1] \in Stamps
                           /\ r[2] # "" => <<r[2], r[3]>> \in ResultsOf(xml[r[1]].suites)
                           /\ (r[2] # "" /\ r[1] = stamp) =>
                                <<r[2], r[3]>> \in ResultsOf(pending'.suites)
    BY <1>1 DEF SniffedInv, Result
  <2>1. \A r \in sniffed :
           /\ r[1] \in Stamps
           /\ r[2] # "" => <<r[2], r[3]>> \in ResultsOf(xml[r[1]].suites)
    BY <1>1 DEF SnifferInv, SniffedInv
  <2> QED
    BY <1>2, <1>m, <2>1
<1> QED
  BY <1>3, <1>4, <1>5, <1>6, <1>7 DEF SnifferInv

LEMMA StepOpenXml ==
  ASSUME SnifferInv, OpenXml, ScriptTypes', UNCHANGED <<kills, sniffed>>
  PROVE  SnifferInv'
<1>1. /\ s_pc = "xml_open" /\ s_pc' = "xml_write"
      /\ UNCHANGED <<key, stamp, temp, summary, json, pending>>
      /\ xml' = [xml EXCEPT ![stamp] = Broken]
  BY DEF OpenXml, unchanged_run
<1>t. SnifferTypes
  BY DEF SnifferInv
<1>b. Broken.suites = <<>>
      /\ Broken \in [state : {"absent", "broken", "ok"}, suites : Seq(RunSuites)]
  BY DEF Broken
<1>2. /\ xml'[stamp] = Broken
      /\ xml' \in [Stamps -> [state : {"absent", "broken", "ok"}, suites : Seq(RunSuites)]]
      /\ \A f \in Stamps : f # stamp => xml'[f] = xml[f]
  BY <1>1, <1>b, <1>t DEF SnifferTypes
<1>3. SnifferTypes'
  BY <1>1, <1>2, <1>t DEF SnifferTypes, Working
<1>4. NamedInv'
  <2>1. Named(Broken.suites)
    BY <1>b DEF Named
  <2>2. \A f \in Stamps : Named(xml'[f].suites)
    BY <1>2, <2>1 DEF SnifferInv, NamedInv
  <2> QED
    BY <1>1, <2>2 DEF SnifferInv, NamedInv, Named
<1>5. JsonInv'
  BY <1>1 DEF SnifferInv, JsonInv, OneRun
<1>6. AgreeInv'
  <2> SUFFICES ASSUME kills = 0
               PROVE  /\ \A f \in Stamps : f # stamp => Agree(json[f], xml'[f])
                      /\ json[stamp].state \in {"single", "runs"}
                      /\ Judged(pending.suites, json[stamp].runs, Range(Pairs))
    BY <1>1 DEF AgreeInv, Settled, Resting
  <2> QED
    BY <1>1, <1>2 DEF SnifferInv, AgreeInv
<1>7. SniffedInv'
  <2> SUFFICES ASSUME kills = 0
               PROVE  /\ key # "" => Result \in ResultsOf(pending.suites)
                      /\ \A r \in sniffed :
                           /\ r[1] \in Stamps
                           /\ (r[2] # "" /\ r[1] # stamp) =>
                                <<r[2], r[3]>> \in ResultsOf(xml'[r[1]].suites)
                           /\ (r[2] # "" /\ r[1] = stamp) =>
                                <<r[2], r[3]>> \in ResultsOf(pending.suites)
    BY <1>1 DEF SniffedInv, Result
  <2> QED
    BY <1>1, <1>2 DEF SnifferInv, SniffedInv
<1> QED
  BY <1>3, <1>4, <1>5, <1>6, <1>7 DEF SnifferInv

LEMMA StepWriteXml ==
  ASSUME SnifferInv, WriteXml, ScriptTypes', kills' = kills,
         sniffed' = sniffed \cup {<<stamp, key, FailedCases(summary, Args)>>}
  PROVE  SnifferInv'
<1>1. /\ s_pc = "xml_write" /\ s_pc' = "cleanup"
      /\ UNCHANGED <<key, stamp, temp, summary, json, pending>>
      /\ xml' = [xml EXCEPT ![stamp] = Readable(pending.suites)]
  BY DEF WriteXml, unchanged_run
<1>t. SnifferTypes
  BY DEF SnifferInv
<1>b. /\ Readable(pending.suites).suites = pending.suites
      /\ Readable(pending.suites).state = "ok"
      /\ Readable(pending.suites) \in [state : {"absent", "broken", "ok"}, suites : Seq(RunSuites)]
  BY <1>t DEF Readable, SnifferTypes
<1>2. /\ xml'[stamp] = Readable(pending.suites)
      /\ xml' \in [Stamps -> [state : {"absent", "broken", "ok"}, suites : Seq(RunSuites)]]
      /\ \A f \in Stamps : f # stamp => xml'[f] = xml[f]
  BY <1>1, <1>b, <1>t DEF SnifferTypes
<1>3. SnifferTypes'
  BY <1>1, <1>2, <1>t DEF SnifferTypes, Working
<1>4. NamedInv'
  <2>1. \A f \in Stamps : Named(xml'[f].suites)
    BY <1>2, <1>b DEF SnifferInv, NamedInv
  <2> QED
    BY <1>1, <2>1 DEF SnifferInv, NamedInv, Named
<1>5. JsonInv'
  BY <1>1 DEF SnifferInv, JsonInv, OneRun
<1>6. AgreeInv'
  <2> SUFFICES ASSUME kills = 0, NEW f \in Stamps
               PROVE  Agree(json[f], xml'[f])
    BY <1>1 DEF AgreeInv
  <2>1. CASE f = stamp
    <3>1. /\ json[stamp].state \in {"single", "runs"}
          /\ Judged(pending.suites, json[stamp].runs, Range(Pairs))
      BY <1>1 DEF SnifferInv, AgreeInv
    <3> QED
      BY <1>2, <1>b, <2>1, <3>1 DEF Agree
  <2>2. CASE f # stamp
    BY <1>2, <2>2 DEF SnifferInv, AgreeInv
  <2> QED
    BY <2>1, <2>2
<1>7. SniffedInv'
  <2> DEFINE new == <<stamp, key, FailedCases(summary, Args)>>
  <2> SUFFICES ASSUME kills = 0, NEW r \in sniffed \cup {new}
               PROVE  /\ r[1] \in Stamps
                      /\ r[2] # "" => <<r[2], r[3]>> \in ResultsOf(xml'[r[1]].suites)
    BY <1>1 DEF SniffedInv
  <2>1. CASE r = new
    <3>1. r[1] = stamp /\ r[2] = key /\ <<r[2], r[3]>> = Result
      BY <2>1 DEF Result
    <3>2. key # "" => Result \in ResultsOf(pending.suites)
      BY <1>1 DEF SnifferInv, SniffedInv
    <3> QED
      BY <1>2, <1>b, <1>t, <3>1, <3>2 DEF SnifferTypes
  <2>2. CASE r \in sniffed
    <3>1. /\ r[1] \in Stamps
          /\ (r[2] # "" /\ r[1] # stamp) => <<r[2], r[3]>> \in ResultsOf(xml[r[1]].suites)
          /\ (r[2] # "" /\ r[1] = stamp) => <<r[2], r[3]>> \in ResultsOf(pending.suites)
      BY <1>1, <2>2 DEF SnifferInv, SniffedInv
    <3> QED
      BY <1>2, <1>b, <3>1
  <2> QED
    BY <2>1, <2>2
<1> QED
  BY <1>3, <1>4, <1>5, <1>6, <1>7 DEF SnifferInv

\* A step of the sniffer.
LEMMA SnifferSteps ==
  ASSUME SnifferInv, StepSniffer
  PROVE  SnifferInv'
<1>1. /\ kills' = kills /\ script' = script
      /\ sniffed' = IF s_pc' = "cleanup"
                    THEN sniffed \cup {<<stamp, key, FailedCases(summary, Args)>>} ELSE sniffed
  BY DEF StepSniffer
<1>2. ScriptTypes'
  BY <1>1 DEF SnifferInv, ScriptTypes
<1>t. SnifferTypes
  BY DEF SnifferInv
<1>3. CASE EndCapture \/ Dump(TRUE) \/ Dump(FALSE) \/ DumpRaises
  <2>1. /\ s_pc \in {"capture", "dump"} /\ s_pc' \in {"dump", "json_read", "raised"}
        /\ UNCHANGED <<key, stamp, temp, json, xml, pending>>
    BY <1>3 DEF EndCapture, Dump, DumpRaises, unchanged_run
  <2>2. SnifferTypes'
    BY <1>t, <2>1 DEF SnifferTypes, Working, Resting
  <2>3. sniffed' = sniffed /\ s_pc \in Settled /\ s_pc' \in Settled
    BY <1>1, <2>1 DEF Settled, Resting
  <2> QED
    BY <1>1, <1>2, <2>1, <2>2, <2>3, ReportsRest
<1>4. CASE ReadJson
  BY <1>1, <1>2, <1>4, StepReadJson DEF ReadJson
<1>5. CASE OpenJson
  BY <1>1, <1>2, <1>5, StepOpenJson DEF OpenJson
<1>6. CASE DumpJson
  BY <1>1, <1>2, <1>6, StepDumpJson DEF DumpJson
<1>7. CASE ReadXml
  BY <1>1, <1>2, <1>7, StepReadXml DEF ReadXml
<1>8. CASE OpenXml
  BY <1>1, <1>2, <1>8, StepOpenXml DEF OpenXml
<1>9. CASE WriteXml
  BY <1>1, <1>2, <1>9, StepWriteXml DEF WriteXml
<1>10. CASE Cleanup
  <2>1. /\ s_pc = "cleanup" /\ s_pc' = "done" /\ temp' = FALSE
        /\ UNCHANGED <<key, stamp, json, xml, pending>>
    BY <1>10 DEF Cleanup
  <2>2. SnifferTypes'
    <3>1. temp' \in BOOLEAN
      BY <2>1, Zenon
    <3> QED
      BY <1>t, <2>1, <3>1 DEF SnifferTypes, Resting
  <2>3. sniffed' = sniffed /\ s_pc \in Settled /\ s_pc' \in Settled
    BY <1>1, <2>1 DEF Settled, Resting
  <2> QED
    BY <1>1, <1>2, <2>1, <2>2, <2>3, ReportsRest
<1> QED
  BY <1>3, <1>4, <1>5, <1>6, <1>7, <1>8, <1>9, <1>10 DEF StepSniffer, SnifferStep

LEMMA NothingTyped ==
  DOMAIN Nothing = {"json", "suites"} /\ Nothing.suites \in Seq(RunSuites)
<1>1. DOMAIN Nothing = {"json", "suites"} /\ Nothing.suites = <<>>
  BY DEF Nothing
<1>2. <<>> \in Seq(RunSuites)
  OBVIOUS
<1> QED
  BY <1>1, <1>2, Zenon

\* A run of the sniffer begins.
LEMMA SnifferBegins ==
  ASSUME SnifferInv, ScriptTypes', UNCHANGED <<kills, sniffed, json, xml>>,
         s_pc \in Resting, s_pc' \in {"capture", "raised", "dump"},
         key' \in {""} \cup Range(Pairs), stamp' \in Stamps, temp' \in BOOLEAN,
         pending' = Nothing
  PROVE  SnifferInv'
<1>2. SnifferTypes'
  BY NothingTyped DEF SnifferInv, SnifferTypes, Working, Resting
<1>3. s_pc \in Settled /\ s_pc' \in Settled
  BY DEF Settled, Resting
<1> QED
  BY <1>2, <1>3, ReportsRest

LEMMA SnifferElsewhere ==
  ASSUME SnifferInv, ScriptTypes', UNCHANGED <<svars, kills, sniffed>>
  PROVE  SnifferInv'
<1>1. UNCHANGED <<s_pc, key, captured, temp, summary, stamp, json, xml, pending, kills, sniffed>>
  BY DEF svars
<1>2. SnifferTypes'
  BY <1>1 DEF SnifferInv, SnifferTypes
<1>3. NamedInv'
  BY <1>1 DEF SnifferInv, NamedInv, Named
<1>4. JsonInv'
  BY <1>1 DEF SnifferInv, JsonInv, OneRun
<1>5. AgreeInv'
  BY <1>1 DEF SnifferInv, AgreeInv, Ahead
<1>6. SniffedInv'
  BY <1>1 DEF SnifferInv, SniffedInv, Result
<1> QED
  BY <1>2, <1>3, <1>4, <1>5, <1>6 DEF SnifferInv

LEMMA NextSniffer ==
  ASSUME ReportInv, SnifferInv, [Next]_vars
  PROVE  SnifferInv'
<1>t. ScriptTypes /\ MaxKills \in Nat
  BY PairFacts DEF SnifferInv
<1>1. CASE StartSniffer
  <2>1. ScriptTypes' /\ UNCHANGED <<kills, sniffed>>
    BY <1>1, <1>t DEF StartSniffer, Rest, ScriptTypes
  <2>2. CASE conf.skip_discovery
    BY <1>1, <2>1, <2>2, SnifferElsewhere DEF StartSniffer
  <2>3. CASE ~conf.skip_discovery
    <3>1. PICK tshark \in BOOLEAN : StartCapture(Pairs[nth], PairStamp, tshark)
      BY <1>1, <2>3 DEF StartSniffer
    <3>2. nth \in DOMAIN Pairs /\ nth \in 1..Len(Pairs)
      BY <1>1, PairNames DEF StartSniffer, ReportInv, PairTypes
    <3>3. Pairs[nth] \in Range(Pairs)
      BY <3>2 DEF Range
    <3>4. PairStamp \in Stamps
      BY <3>2, PairFacts DEF PairStamp
    <3>5. /\ s_pc \in Resting /\ s_pc' \in {"capture", "raised", "dump"}
          /\ key' = Pairs[nth] /\ stamp' = PairStamp /\ pending' = Nothing
          /\ UNCHANGED <<json, xml>>
      BY <3>1 DEF StartCapture
    <3>6. temp' \in BOOLEAN
      BY <3>1, Zenon DEF StartCapture
    <3> QED
      BY <2>1, <3>3, <3>4, <3>5, <3>6, SnifferBegins
  <2> QED
    BY <2>2, <2>3
<1>2. CASE StartMain
  BY <1>2, <1>t, SnifferElsewhere DEF StartMain, Rest, ScriptTypes
<1>3. CASE NextPair
  BY <1>3, <1>t, SnifferElsewhere DEF NextPair, Rest, ScriptTypes
<1>4. CASE Announce
  <2>1. ScriptTypes' /\ UNCHANGED <<kills, sniffed>>
    BY <1>4, <1>t DEF Announce, Rest, ScriptTypes
  <2>2. PICK p \in SPDP : Capture(p)
    BY <1>4 DEF Announce
  <2>3. /\ s_pc = "capture"
        /\ UNCHANGED <<s_pc, key, stamp, temp, summary, json, xml, pending>>
    BY <2>2 DEF Capture
  <2>4. SnifferTypes'
    BY <2>3 DEF SnifferInv, SnifferTypes
  <2>5. s_pc \in Settled /\ s_pc' \in Settled
    BY <2>3 DEF Settled
  <2> QED
    BY <2>1, <2>3, <2>4, <2>5, ReportsRest
<1>5. CASE SniffPcap
  <2>1. UNCHANGED <<kills, sniffed, script>>
    BY <1>5, Zenon DEF SniffPcap, Rest
  <2>2. ScriptTypes'
    BY <1>t, <2>1 DEF ScriptTypes
  <2>3. PICK k \in {""} \cup Range(Pairs) : \E packets : ReadPcap(k, 1, packets)
    BY <1>5, Zenon DEF SniffPcap
  <2>4. PICK packets : ReadPcap(k, 1, packets)
    BY <2>3
  <2>5. /\ s_pc \in Resting /\ s_pc' \in {"capture", "raised", "dump"}
        /\ key' = k /\ stamp' = 1 /\ pending' = Nothing
        /\ UNCHANGED <<json, xml>>
    BY <2>4 DEF ReadPcap
  <2>6. temp' \in BOOLEAN
    BY <2>4, Zenon DEF ReadPcap
  <2>7. 1 \in Stamps
    BY PairFacts
  <2> QED
    BY <2>1, <2>2, <2>5, <2>6, <2>7, SnifferBegins
<1>6. CASE TestDirectly
  BY <1>6, <1>t, SnifferElsewhere DEF TestDirectly, Rest, ScriptTypes
<1>7. CASE StepSniffer
  BY <1>7, SnifferSteps
<1>8. CASE StepMain
  BY <1>8, <1>t, SnifferElsewhere DEF StepMain, ScriptTypes
<1>9. CASE KillOne
  <2>1. /\ kills' = kills + 1 /\ kills < MaxKills /\ UNCHANGED <<script, sniffed>>
        /\ Kill \/ UNCHANGED svars
    BY <1>9 DEF KillOne
  <2>2. ScriptTypes' /\ kills' # 0
    BY <1>t, <2>1 DEF ScriptTypes
  <2>3. /\ UNCHANGED <<key, temp, stamp, json, xml, pending>>
        /\ s_pc' \in {s_pc, "killed"}
    BY <2>1 DEF Kill, svars, unchanged_run
  <2>4. SnifferTypes'
    BY <2>3 DEF SnifferInv, SnifferTypes, Resting
  <2>5. NamedInv'
    BY <2>3 DEF SnifferInv, NamedInv, Named
  <2>6. JsonInv'
    BY <2>3 DEF SnifferInv, JsonInv, OneRun
  <2>7. AgreeInv' /\ SniffedInv'
    BY <2>2 DEF AgreeInv, SniffedInv
  <2> QED
    BY <2>2, <2>4, <2>5, <2>6, <2>7 DEF SnifferInv
<1>10. CASE UNCHANGED vars
  BY <1>10, <1>t, SnifferElsewhere DEF vars, ScriptTypes
<1> QED
  BY <1>1, <1>2, <1>3, <1>4, <1>5, <1>6, <1>7, <1>8, <1>9, <1>10 DEF Next, Ended

\* As long as no process is killed, the JSON and the JUnit report of a date
\* agree whenever the sniffer rests, and hold every run it finished.
THEOREM ReportsAgree == Spec => []DiscoveryReportsAgree
<1>1. SnifferInv => DiscoveryReportsAgree
  <2> SUFFICES ASSUME SnifferInv, kills = 0, s_pc \in Resting
               PROVE  /\ \A r \in sniffed : r[2] # "" =>
                           <<r[2], r[3]>> \in ResultsOf(xml[r[1]].suites)
                      /\ \A f \in Stamps : Agree(json[f], xml[f])
    BY DEF DiscoveryReportsAgree, Agree, Judged
  <2>1. s_pc \in Settled /\ s_pc # "xml_write"
    BY DEF Settled, Resting
  <2> QED
    BY <2>1 DEF SnifferInv, AgreeInv, SniffedInv
<1> QED
  BY <1>1, InitReports, NextKeeps, InitSniffer, NextSniffer, PTL DEF Spec

LEMMA Reversed ==
  ASSUME NEW S, NEW s \in Seq(S)
  PROVE  /\ Reverse(s) \in Seq(S) /\ Len(Reverse(s)) = Len(s)
         /\ \A i \in 1..Len(s) : Reverse(s)[i] = s[(Len(s) - i) + 1]
<1>1. Reverse(s) = [i \in 1..Len(s) |-> s[(Len(s) - i) + 1]]
  BY DEF Reverse
<1>2. \A i \in 1..Len(s) : (Len(s) - i) + 1 \in 1..Len(s)
  OBVIOUS
<1>3. \A i \in 1..Len(s) : s[(Len(s) - i) + 1] \in S
  BY <1>2
<1> QED
  BY <1>1, <1>3

\* What is still to do is a suffix of the test suite.
LEMMA TodoIsSuffix ==
  ASSUME ReportInv, SuiteInv
  PROVE  IsSuffix(todo, TestSuite)
<1> DEFINE S == Range(TestSuite)
           r == Reverse(todo)
           q == Reverse(TestSuite)
           n == Len(todo)
           m == Len(TestSuite)
<1>1. todo \in Seq(S) /\ TestSuite \in Seq(S) /\ n \in Nat /\ m \in Nat
  BY SuiteAssumption DEF ReportInv, MainTypes
<1> HIDE DEF S
<1>2. n <= m /\ \A i \in 1..n : todo[i] = TestSuite[(m - n) + i]
  BY DEF SuiteInv, TodoInv, Visited
<1>3. /\ r \in Seq(S) /\ Len(r) = n /\ \A i \in 1..n : r[i] = todo[(n - i) + 1]
      /\ q \in Seq(S) /\ Len(q) = m /\ \A i \in 1..m : q[i] = TestSuite[(m - i) + 1]
  BY <1>1, Reversed
<1> HIDE DEF r, q, n, m
<1>4. ASSUME NEW i \in 1..n PROVE r[i] = q[i]
  <2>1. (n - i) + 1 \in 1..n /\ i \in 1..m /\ (m - n) + ((n - i) + 1) = (m - i) + 1
    BY <1>1, <1>2
  <2>2. r[i] = todo[(n - i) + 1] /\ q[i] = TestSuite[(m - i) + 1]
    BY <1>3, <2>1
  <2>3. todo[(n - i) + 1] = TestSuite[(m - n) + ((n - i) + 1)]
    BY <1>2, <2>1
  <2> QED
    BY <2>1, <2>2, <2>3
<1>5. /\ SubSeq(r, 1, n) = [i \in 1..n |-> r[i]]
      /\ SubSeq(q, 1, n) = [i \in 1..n |-> q[i]]
  BY <1>1, <1>2, <1>3
<1>6. SubSeq(r, 1, n) = SubSeq(q, 1, n)
  BY <1>4, <1>5
<1> QED
  BY <1>2, <1>3, <1>6 DEF IsSuffix, IsPrefix, r, q

\* The state keeps its types: above all, no two suites of a JUnit report of
\* the sniffer share a name, and a JSON report with a single summary holds one
\* run, whatever is killed.
THEOREM TypesCorrect == Spec => []TypeOK
<1>1. SnifferInv => SnifferTypeOK
  <2> SUFFICES ASSUME SnifferInv PROVE SnifferTypeOK
    OBVIOUS
  <2>1. SnifferTypes
    BY DEF SnifferInv
  <2>2. ASSUME NEW f \in Stamps, json[f].state = "single"
        PROVE  Cardinality(DOMAIN json[f].runs) = 1
    <3>1. PICK k : DOMAIN json[f].runs = {k}
      BY <2>2 DEF SnifferInv, JsonInv, OneRun
    <3> QED
      BY <3>1, FS_Singleton
  <2>3. \A f \in Stamps : xml[f].state \in {"absent", "broken", "ok"}
    BY <2>1 DEF SnifferTypes
  <2>4. \A f \in Stamps : json[f].state \in {"absent", "broken", "single", "runs"}
    BY DEF SnifferInv, JsonInv, OneRun
  <2>5. \A f \in Stamps : \A i, j \in DOMAIN xml[f].suites :
          xml[f].suites[i].name = xml[f].suites[j].name => i = j
    BY DEF SnifferInv, NamedInv, Named
  <2>6. /\ temp \in BOOLEAN
        /\ s_pc \in Resting \cup {"capture", "dump", "json_read", "json_open", "json_dump",
                                  "xml_read", "xml_open", "xml_write", "cleanup"}
    BY <2>1 DEF SnifferTypes, Working
  <2> QED
    BY <2>2, <2>3, <2>4, <2>5, <2>6 DEF SnifferTypeOK
<1>2. ReportInv /\ SuiteInv => MainTypeOK
  <2> SUFFICES ASSUME ReportInv, SuiteInv PROVE MainTypeOK
    OBVIOUS
  <2>1. MainTypes
    BY DEF ReportInv
  <2>2. \A i \in DOMAIN suite : suite[i] \in TestNames \X Verdicts
    BY <2>1 DEF MainTypes, Cases
  <2>3. target \in DOMAIN reports
        /\ \A n \in DOMAIN reports : reports[n].state \in {"absent", "broken", "ok"}
    BY <2>1 DEF MainTypes
  <2>4. m_pc \in Stopped \cup {"select", "run", "hung", "write"}
    BY DEF SuiteInv
  <2> QED
    BY <2>2, <2>3, <2>4, TodoIsSuffix DEF MainTypeOK
<1>3. ReportInv /\ SuiteInv /\ SnifferInv => TypeOK
  <2> SUFFICES ASSUME ReportInv, SuiteInv, SnifferInv PROVE TypeOK
    OBVIOUS
  <2>1. nth \in Nat
    BY DEF ReportInv, PairTypes
  <2>2. script \in {"pair", "sniffing", "testing", "done"} /\ kills \in 0..MaxKills
    BY DEF SnifferInv, ScriptTypes
  <2> QED
    BY <1>1, <1>2, <2>1, <2>2 DEF TypeOK
<1> QED
  BY <1>3, InitReports, NextKeeps, InitSuite, NextSuite, InitSniffer, NextSniffer, PTL DEF Spec

-----------------------------------------------------------------------------
(* What parse_discovery_data makes of a capture.  It folds ParsePacket over *)
(* the packets; the fold is unrolled once, into the summaries after 0, 1,   *)
(* 2... packets, and then described by which packets there are.             *)

LEMMA SmallestOf ==
  ASSUME NEW H \in SUBSET Nat, H # {}
  PROVE  \E x \in H : \A y \in H : x <= y
<1>1. PICK x \in H : \A y \in H : ~(<<y, x>> \in OpToRel(<, Nat))
  BY WFMin, NatLessThanWellFounded
<1>2. \A y \in H : x <= y
  <2> SUFFICES ASSUME NEW y \in H PROVE ~(y < x)
    OBVIOUS
  <2>1. y < x => <<y, x>> \in OpToRel(<, Nat)
    BY Zenon DEF OpToRel
  <2> QED
    BY <1>1, <2>1
<1> QED
  BY <1>2

\* The table of a fold: what the packets at the places t give.
Parses(f, s, N) ==
  f = [t \in SUBSET (1..N) |->
         IF t = {} THEN Empty ELSE ParsePacket(f[t \ {Max(t)}], s[Max(t)])]

LEMMA ParseUnfolds ==
  ASSUME NEW s, DOMAIN s = 1..Len(s)
  PROVE  parse_discovery_data(s) = (CHOOSE f : Parses(f, s, Len(s)))[1..Len(s)]
BY DEF parse_discovery_data, FoldLeft, MapThenFoldSet, Parses

LEMMA MaxIs ==
  ASSUME NEW N \in Nat, NEW t \in SUBSET (1..N), NEW m \in t, \A y \in t : y <= m
  PROVE  Max(t) = m
<1>1. \A x \in t : x \in Int
  OBVIOUS
<1>2. \A y \in t : m >= y
  BY <1>1
<1>3. \A x \in t : (\A y \in t : x >= y) => x = m
  BY <1>1, <1>2
<1> QED
  BY <1>2, <1>3 DEF Max

LEMMA MaxOf ==
  ASSUME NEW N \in Nat, NEW t \in SUBSET (1..N), t # {}
  PROVE  Max(t) \in t /\ \A y \in t : y <= Max(t)
<1> DEFINE H == {i \in Nat : N - i \in t}
<1>1. H # {} /\ H \in SUBSET Nat
  <2>1. PICK y \in t : y \in 1..N
    OBVIOUS
  <2>2. N - y \in Nat /\ N - (N - y) = y
    BY <2>1
  <2> QED
    BY <2>2
<1>2. PICK x \in H : \A y \in H : x <= y
  <2> HIDE DEF H
  <2> QED
    BY <1>1, SmallestOf
<1>3. N - x \in t
  OBVIOUS
<1>4. ASSUME NEW y \in t PROVE y <= N - x
  <2>1. y \in 1..N
    OBVIOUS
  <2>2. N - y \in Nat /\ N - (N - y) = y
    BY <2>1
  <2>3. N - y \in H
    BY <2>2
  <2>4. x <= N - y
    BY <1>2, <2>3
  <2>5. x \in Nat
    OBVIOUS
  <2> QED
    BY <2>1, <2>4, <2>5
<1>5. Max(t) = N - x
  BY <1>3, <1>4, MaxIs
<1> QED
  BY <1>3, <1>4, <1>5

\* There is such a table, of any number of packets.
LEMMA ParseExists ==
  ASSUME NEW s, NEW N \in Nat
  PROVE  \E f : Parses(f, s, N)
<1> DEFINE Bad == {k \in Nat : ~(\E f : Parses(f, s, k))}
<1>1. SUFFICES Bad = {}
  OBVIOUS
<1>2. SUFFICES ASSUME Bad # {} PROVE FALSE
  OBVIOUS
<1>3. PICK k \in Bad : \A y \in Bad : k <= y
  <2>1. Bad \in SUBSET Nat
    OBVIOUS
  <2> HIDE DEF Bad
  <2> QED
    BY <1>2, <2>1, SmallestOf
<1>4. k # 0
  <2> DEFINE g == [t \in SUBSET (1..0) |-> Empty]
  <2>1. \A t \in SUBSET (1..0) : t = {}
    OBVIOUS
  <2>2. Parses(g, s, 0)
    BY <2>1 DEF Parses
  <2> QED
    BY <2>2
<1>5. k - 1 \in Nat /\ k - 1 \notin Bad
  BY <1>3, <1>4
<1>6. PICK f : Parses(f, s, k - 1)
  BY <1>5
<1> DEFINE g == [t \in SUBSET (1..k) |->
                   IF k \in t THEN ParsePacket(f[t \ {k}], s[k]) ELSE f[t]]
<1>7. ASSUME NEW t \in SUBSET (1..k), t # {}
      PROVE  g[t] = ParsePacket(g[t \ {Max(t)}], s[Max(t)])
  <2>0. k \in Nat /\ Max(t) \in t
    BY <1>7, MaxOf
  <2>1. CASE k \in t
    <3>0. \A y \in t : y <= k
      BY <2>0
    <3>1. Max(t) = k
      BY <2>0, <2>1, <3>0, MaxIs
    <3>2. t \ {k} \in SUBSET (1..k) /\ k \notin t \ {k}
      OBVIOUS
    <3> QED
      BY <2>1, <3>1, <3>2
  <2>2. CASE k \notin t
    <3>0. \A y \in t : y \in 1..(k - 1)
      BY <2>0, <2>2
    <3>1. t \in SUBSET (1..(k - 1)) /\ t \ {Max(t)} \in SUBSET (1..k) /\ k \notin t \ {Max(t)}
      BY <2>2, <3>0
    <3>2. g[t] = f[t] /\ g[t \ {Max(t)}] = f[t \ {Max(t)}]
      BY <2>2, <3>1
    <3>3. f[t] = ParsePacket(f[t \ {Max(t)}], s[Max(t)])
      BY <1>6, <1>7, <3>1 DEF Parses
    <3> QED
      BY <3>2, <3>3
  <2> QED
    BY <2>1, <2>2
<1>8. g[{}] = Empty
  <2>1. f[{}] = Empty
    <3>1. {} \in SUBSET (1..(k - 1))
      OBVIOUS
    <3> QED
      BY <1>6, <3>1 DEF Parses
  <2> QED
    BY <2>1
<1>9. Parses(g, s, k)
  <2>1. \A t \in SUBSET (1..k) :
          g[t] = IF t = {} THEN Empty ELSE ParsePacket(g[t \ {Max(t)}], s[Max(t)])
    BY <1>7, <1>8
  <2>2. g = [t \in SUBSET (1..k) |-> g[t]]
    OBVIOUS
  <2> HIDE DEF g
  <2> QED
    BY <2>1, <2>2 DEF Parses
<1> HIDE DEF g
<1> QED
  BY <1>3, <1>9

\* The summaries after 0, 1, 2... packets, one packet at a time.
LEMMA ParseStep ==
  ASSUME NEW s, DOMAIN s = 1..Len(s), Len(s) \in Nat
  PROVE  \E P : /\ P[0] = Empty
                /\ \A k \in 1..Len(s) : P[k] = ParsePacket(P[k - 1], s[k])
                /\ parse_discovery_data(s) = P[Len(s)]
<1> DEFINE N == Len(s)
           f == CHOOSE h : Parses(h, s, N)
           P == [k \in 0..N |-> f[1..k]]
<1>1. Parses(f, s, N)
  BY ParseExists
<1> HIDE DEF f
<1>2. P[0] = Empty
  <2>1. 1..0 = {} /\ 1..0 \in SUBSET (1..N)
    OBVIOUS
  <2> QED
    BY <1>1, <2>1 DEF Parses
<1>3. ASSUME NEW k \in 1..N PROVE P[k] = ParsePacket(P[k - 1], s[k])
  <2>0. k \in Nat /\ N \in Nat
    OBVIOUS
  <2>a. (1..k) \ {k} = 1..(k - 1)
    BY <2>0
  <2>1. 1..k \in SUBSET (1..N) /\ k \in 1..k /\ 1..k # {} /\ (1..k) \ {k} = 1..(k - 1)
    BY <2>a
  <2>b. \A y \in 1..k : y <= k
    BY <2>0
  <2>2. Max(1..k) = k
    BY <2>0, <2>1, <2>b, MaxIs
  <2>3. f[1..k] = ParsePacket(f[(1..k) \ {Max(1..k)}], s[Max(1..k)])
    BY <1>1, <2>1 DEF Parses
  <2>4. k \in 0..N /\ k - 1 \in 0..N
    OBVIOUS
  <2> QED
    BY <2>1, <2>2, <2>3, <2>4
<1>4. parse_discovery_data(s) = P[N]
  BY ParseUnfolds DEF f
<1> HIDE DEF P
<1> QED
  BY <1>2, <1>3, <1>4

\* An all-zero mask names no flag.
LEMMA ZeroMaskNamesNone == Flags(0) = {}
<1>1. \A b \in BUILTIN_ENDPOINTS :
        \/ b = 0 \/ b = 1 \/ b = 2 \/ b = 3 \/ b = 4 \/ b = 5 \/ b = 6 \/ b = 7
        \/ b = 8 \/ b = 9 \/ b = 10 \/ b = 11 \/ b = 12 \/ b = 13 \/ b = 14 \/ b = 15
        \/ b = 16 \/ b = 17 \/ b = 18 \/ b = 19 \/ b = 20 \/ b = 21 \/ b = 22 \/ b = 23
  BY DEF BUILTIN_ENDPOINTS
<1>2. /\ 0 \div 2^0 = 0 /\ 0 \div 2^1 = 0 /\ 0 \div 2^2 = 0 /\ 0 \div 2^3 = 0
      /\ 0 \div 2^4 = 0 /\ 0 \div 2^5 = 0 /\ 0 \div 2^6 = 0 /\ 0 \div 2^7 = 0
      /\ 0 \div 2^8 = 0 /\ 0 \div 2^9 = 0 /\ 0 \div 2^10 = 0 /\ 0 \div 2^11 = 0
      /\ 0 \div 2^12 = 0 /\ 0 \div 2^13 = 0 /\ 0 \div 2^14 = 0 /\ 0 \div 2^15 = 0
      /\ 0 \div 2^16 = 0 /\ 0 \div 2^17 = 0 /\ 0 \div 2^18 = 0 /\ 0 \div 2^19 = 0
      /\ 0 \div 2^20 = 0 /\ 0 \div 2^21 = 0 /\ 0 \div 2^22 = 0 /\ 0 \div 2^23 = 0
  OBVIOUS
<1>3. \A b \in BUILTIN_ENDPOINTS : 0 \div 2^b = 0
  BY <1>1, <1>2, Zenon
<1>4. 0 % 2 = 0
  OBVIOUS
<1>5. \A b \in BUILTIN_ENDPOINTS : (0 \div 2^b) % 2 # 1
  BY <1>3, <1>4
<1>6. decode_builtin_endpoints(0) = {}
  BY <1>5, Zenon DEF decode_builtin_endpoints
<1> QED
  BY <1>6 DEF Flags, Unknown

\* The places of a participant's packets among the first k.
From(s, k, g) == {i \in 1..k : guid_p(s[i]) = g}

LEMMA FromStep ==
  ASSUME NEW s, NEW k \in Nat, k # 0, NEW g
  PROVE  From(s, k, g) = IF guid_p(s[k]) = g THEN From(s, k - 1, g) \cup {k}
                         ELSE From(s, k - 1, g)
<1>1. \A i : i \in 1..k <=> i \in 1..(k - 1) \/ i = k
  OBVIOUS
<1>2. \A i : i \in From(s, k, g) <=> i \in 1..k /\ guid_p(s[i]) = g
  BY DEF From
<1>3. \A i : i \in From(s, k - 1, g) <=> i \in 1..(k - 1) /\ guid_p(s[i]) = g
  BY DEF From
<1>4. CASE guid_p(s[k]) = g
  <2>1. \A i : i \in From(s, k, g) <=> i \in From(s, k - 1, g) \cup {k}
    BY <1>1, <1>2, <1>3, <1>4, Zenon
  <2> QED
    BY <1>4, <2>1, Zenon
<1>5. CASE guid_p(s[k]) # g
  <2>1. \A i : i \in From(s, k, g) <=> i \in From(s, k - 1, g)
    BY <1>1, <1>2, <1>3, <1>5, Zenon
  <2> QED
    BY <1>5, <2>1
<1> QED
  BY <1>4, <1>5

\* What is known of a participant, in terms of its packets alone.
Told(part, s, I) ==
  /\ DOMAIN part = {"vendor", "version", "lease", "mask", "locators"}
  /\ \E i \in I : /\ part.vendor = decode_vendor(s[i].vendor)
                  /\ part.version = decode_version(s[i].version)
  /\ \E i \in I : part.mask = s[i].mask
  /\ Flags(part.mask) = {} =>
       /\ \A i \in I : Flags(s[i].mask) = {}
       /\ \E i \in I : part.mask = s[i].mask /\ \A j \in I : j >= i
  /\ part.locators = UNION {s[i].locators : i \in I}

LEMMA ToldFirst ==
  ASSUME NEW s, NEW k \in Nat
  PROVE  Told(NewParticipant(s[k]), s, {k})
<1> DEFINE part == NewParticipant(s[k])
<1>1. /\ DOMAIN part = {"vendor", "version", "lease", "mask", "locators"}
      /\ part.vendor = decode_vendor(s[k].vendor)
      /\ part.version = decode_version(s[k].version)
      /\ part.mask = s[k].mask /\ part.locators = s[k].locators
  BY DEF NewParticipant
<1>2. UNION {s[i].locators : i \in {k}} = s[k].locators
  <2>1. {s[i].locators : i \in {k}} = {s[k].locators}
    OBVIOUS
  <2>2. \A A : UNION {A} = A
    OBVIOUS
  <2> QED
    BY <2>1, <2>2
<1>3. k >= k
  OBVIOUS
<1> HIDE DEF part
<1> QED
  BY <1>1, <1>2, <1>3 DEF Told, part

LEMMA ToldMore ==
  ASSUME NEW s, NEW k \in Nat, NEW I, NEW part, Told(part, s, I), \A i \in I : k >= i
  PROVE  Told(Augment(part, s[k]), s, I \cup {k})
<1> DEFINE new == Augment(part, s[k])
<1>1. /\ DOMAIN new = DOMAIN part
      /\ new.vendor = part.vendor /\ new.version = part.version
      /\ new.mask = IF Flags(part.mask) = {} /\ Flags(s[k].mask) # {} THEN s[k].mask
                    ELSE part.mask
      /\ new.locators = part.locators \cup s[k].locators
  BY DEF Augment, Told
<1> HIDE DEF new
<1>2. UNION {s[i].locators : i \in I \cup {k}} = (UNION {s[i].locators : i \in I}) \cup s[k].locators
  OBVIOUS
<1>3. new.locators = UNION {s[i].locators : i \in I \cup {k}}
  BY <1>1, <1>2 DEF Told
<1>4. \E i \in I \cup {k} : /\ new.vendor = decode_vendor(s[i].vendor)
                            /\ new.version = decode_version(s[i].version)
  BY <1>1 DEF Told
<1>5. \E i \in I \cup {k} : new.mask = s[i].mask
  BY <1>1 DEF Told
<1>6. Flags(new.mask) = {} => \A i \in I \cup {k} : Flags(s[i].mask) = {}
  BY <1>1, Zenon DEF Told
<1>8. Flags(new.mask) = {} =>
        \E i \in I \cup {k} : new.mask = s[i].mask /\ \A j \in I \cup {k} : j >= i
  <2> SUFFICES ASSUME Flags(new.mask) = {}
               PROVE  \E i \in I \cup {k} : new.mask = s[i].mask /\ \A j \in I \cup {k} : j >= i
    OBVIOUS
  <2>1. new.mask = part.mask
    BY <1>1, Zenon
  <2>2. PICK i \in I : part.mask = s[i].mask /\ \A j \in I : j >= i
    BY <2>1 DEF Told
  <2> QED
    BY <2>1, <2>2
<1>7. DOMAIN new = {"vendor", "version", "lease", "mask", "locators"}
  BY <1>1 DEF Told
<1> QED
  BY <1>3, <1>4, <1>5, <1>6, <1>7, <1>8 DEF Told, new

PartsTold(parts, s, k) ==
  /\ \A g : g \in DOMAIN parts <=> g # "" /\ From(s, k, g) # {}
  /\ \A g \in DOMAIN parts : Told(parts[g], s, From(s, k, g))

LEMMA ToldNone == ASSUME NEW s PROVE PartsTold(Empty.participants, s, 0)
<1>1. DOMAIN <<>> = {} /\ Empty.participants = <<>> /\ 1..0 = {}
  BY DEF Empty
<1> QED
  BY <1>1 DEF PartsTold, From

LEMMA ToldStep ==
  ASSUME NEW s, NEW k \in Nat, k # 0, NEW parts, PartsTold(parts, s, k - 1)
  PROVE  PartsTold(inspect_spdp(parts, s[k]), s, k)
<1> DEFINE g == guid_p(s[k])
           new == inspect_spdp(parts, s[k])
<1>1. /\ \A h : h # g => From(s, k, h) = From(s, k - 1, h)
      /\ From(s, k, g) = From(s, k - 1, g) \cup {k}
  BY FromStep
<1>2. CASE g = ""
  <2>1. new = parts
    BY <1>2 DEF inspect_spdp
  <2>2. \A h : h \in DOMAIN parts <=> h # "" /\ From(s, k, h) # {}
    BY <1>1, <1>2 DEF PartsTold
  <2>3. \A h \in DOMAIN parts : Told(parts[h], s, From(s, k, h))
    <3> SUFFICES ASSUME NEW h \in DOMAIN parts PROVE Told(parts[h], s, From(s, k, h))
      OBVIOUS
    <3>1. h # g /\ Told(parts[h], s, From(s, k - 1, h))
      BY <1>2 DEF PartsTold
    <3> QED
      BY <1>1, <3>1
  <2> QED
    BY <2>1, <2>2, <2>3 DEF PartsTold
<1>3. CASE g # ""
  <2>1. /\ DOMAIN new = DOMAIN parts \cup {g}
        /\ \A h \in DOMAIN new : new[h] = IF h # g THEN parts[h]
                                          ELSE IF g \in DOMAIN parts THEN Augment(parts[g], s[k])
                                          ELSE NewParticipant(s[k])
    BY <1>3 DEF inspect_spdp
  <2> HIDE DEF new
  <2>2. \A h : h \in DOMAIN new <=> h # "" /\ From(s, k, h) # {}
    <3> SUFFICES ASSUME NEW h PROVE h \in DOMAIN new <=> h # "" /\ From(s, k, h) # {}
      OBVIOUS
    <3>1. CASE h = g
      BY <1>1, <1>3, <2>1, <3>1
    <3>2. CASE h # g
      BY <1>1, <2>1, <3>2 DEF PartsTold
    <3> QED
      BY <3>1, <3>2
  <2>3. \A h \in DOMAIN new : Told(new[h], s, From(s, k, h))
    <3> SUFFICES ASSUME NEW h \in DOMAIN new PROVE Told(new[h], s, From(s, k, h))
      OBVIOUS
    <3>1. CASE h # g
      <4>1. Told(parts[h], s, From(s, k - 1, h)) /\ new[h] = parts[h]
        BY <2>1, <3>1 DEF PartsTold
      <4> QED
        BY <1>1, <3>1, <4>1
    <3>2. CASE h = g /\ g \in DOMAIN parts
      <4>1. Told(parts[g], s, From(s, k - 1, g)) /\ new[h] = Augment(parts[g], s[k])
        BY <2>1, <3>2 DEF PartsTold
      <4>a. \A i \in From(s, k - 1, g) : k >= i
        BY DEF From
      <4>2. Told(Augment(parts[g], s[k]), s, From(s, k - 1, g) \cup {k})
        BY <4>1, <4>a, ToldMore
      <4> QED
        BY <1>1, <3>2, <4>1, <4>2
    <3>3. CASE h = g /\ g \notin DOMAIN parts
      <4>1. new[h] = NewParticipant(s[k])
        BY <2>1, <3>3
      <4>2. From(s, k - 1, g) = {}
        BY <1>3, <3>3 DEF PartsTold
      <4>3. From(s, k, g) = {k}
        BY <1>1, <4>2
      <4>4. Told(NewParticipant(s[k]), s, {k})
        BY ToldFirst
      <4> QED
        BY <3>3, <4>1, <4>3, <4>4
    <3> QED
      BY <3>1, <3>2, <3>3
  <2> QED
    BY <2>2, <2>3 DEF PartsTold, new
<1> QED
  BY <1>2, <1>3

Complete(cand) == cand.topic_name # "" /\ cand.type_name # "" /\ cand.endpoint_guid # ""
Cand(pkt) == inspect_cand(pkt.sedp)

\* The endpoints after the first k packets: every complete candidate, by its
\* key, and each key once.
EndpointsTold(e, s, k) ==
  /\ e \in Seq({Cand(s[i]) : i \in 1..Len(s)})
  /\ \A i \in DOMAIN e : \E j \in 1..k : e[i] = Cand(s[j]) /\ Complete(e[i])
  /\ \A j \in 1..k : Complete(Cand(s[j])) =>
       \E i \in DOMAIN e : Key(e[i]) = Key(Cand(s[j]))
  /\ \A i, j \in DOMAIN e : Key(e[i]) = Key(e[j]) => i = j

LEMMA EndpointsNone == ASSUME NEW s PROVE EndpointsTold(Empty.endpoints, s, 0)
<1>1. DOMAIN <<>> = {} /\ Empty.endpoints = <<>> /\ 1..0 = {}
  BY DEF Empty
<1>2. <<>> \in Seq({Cand(s[i]) : i \in 1..Len(s)})
  OBVIOUS
<1> QED
  BY <1>1, <1>2 DEF EndpointsTold

LEMMA EndpointsStep ==
  ASSUME NEW s, Len(s) \in Nat, NEW k \in 1..Len(s), NEW e, EndpointsTold(e, s, k - 1)
  PROVE  EndpointsTold(extract_sedp_endpoints(e, s[k]), s, k)
<1> DEFINE cand == Cand(s[k])
           new == extract_sedp_endpoints(e, s[k])
           C == {Cand(s[i]) : i \in 1..Len(s)}
<1>1. k \in 1..k /\ \A j : j \in 1..k <=> j \in 1..(k - 1) \/ j = k
  OBVIOUS
<1>2. new = IF ~Complete(cand) \/ \E i \in DOMAIN e : Key(e[i]) = Key(cand)
            THEN e ELSE Append(e, cand)
  BY DEF extract_sedp_endpoints, Cand, Complete
<1>3. cand \in C /\ e \in Seq(C)
  BY DEF EndpointsTold
<1> HIDE DEF C, new, cand
<1>4. CASE ~Complete(cand) \/ \E i \in DOMAIN e : Key(e[i]) = Key(cand)
  <2>1. new = e
    BY <1>2, <1>4
  <2>2. \A j \in 1..k : Complete(Cand(s[j])) =>
          \E i \in DOMAIN e : Key(e[i]) = Key(Cand(s[j]))
    BY <1>1, <1>4 DEF EndpointsTold, cand
  <2>3. \A i \in DOMAIN e : \E j \in 1..k : e[i] = Cand(s[j]) /\ Complete(e[i])
    BY <1>1 DEF EndpointsTold
  <2> QED
    BY <1>3, <2>1, <2>2, <2>3, Zenon DEF EndpointsTold, C, new
<1>5. CASE Complete(cand) /\ \A i \in DOMAIN e : Key(e[i]) # Key(cand)
  <2>1. new = Append(e, cand)
    BY <1>2, <1>5
  <2>2. /\ new \in Seq(C) /\ DOMAIN new = 1..(Len(e) + 1) /\ DOMAIN e = 1..Len(e)
        /\ Len(e) \in Nat
        /\ new[Len(e) + 1] = cand /\ \A i \in DOMAIN e : new[i] = e[i]
    BY <1>3, <2>1
  <2>3. \A i : i \in DOMAIN new <=> i \in DOMAIN e \/ i = Len(e) + 1
    BY <2>2
  <2>4. \A i \in DOMAIN new : \E j \in 1..k : new[i] = Cand(s[j]) /\ Complete(new[i])
    <3> SUFFICES ASSUME NEW i \in DOMAIN new
                 PROVE  \E j \in 1..k : new[i] = Cand(s[j]) /\ Complete(new[i])
      OBVIOUS
    <3>1. CASE i = Len(e) + 1
      BY <1>1, <1>5, <2>2, <3>1 DEF cand
    <3>2. CASE i \in DOMAIN e
      <4>1. PICK j \in 1..(k - 1) : e[i] = Cand(s[j]) /\ Complete(e[i])
        BY <3>2 DEF EndpointsTold
      <4> QED
        BY <1>1, <2>2, <3>2, <4>1
    <3> QED
      BY <2>3, <3>1, <3>2
  <2>5. \A j \in 1..k : Complete(Cand(s[j])) =>
          \E i \in DOMAIN new : Key(new[i]) = Key(Cand(s[j]))
    <3> SUFFICES ASSUME NEW j \in 1..k, Complete(Cand(s[j]))
                 PROVE  \E i \in DOMAIN new : Key(new[i]) = Key(Cand(s[j]))
      OBVIOUS
    <3>1. CASE j = k
      BY <2>2, <2>3, <3>1 DEF cand
    <3>2. CASE j \in 1..(k - 1)
      <4>1. PICK i \in DOMAIN e : Key(e[i]) = Key(Cand(s[j]))
        BY <3>2 DEF EndpointsTold
      <4> QED
        BY <2>2, <2>3, <4>1
    <3> QED
      BY <1>1, <3>1, <3>2
  <2>6. \A i, j \in DOMAIN new : Key(new[i]) = Key(new[j]) => i = j
    <3> SUFFICES ASSUME NEW i \in DOMAIN new, NEW j \in DOMAIN new, Key(new[i]) = Key(new[j])
                 PROVE  i = j
      OBVIOUS
    <3>1. CASE i \in DOMAIN e /\ j \in DOMAIN e
      BY <2>2, <3>1 DEF EndpointsTold
    <3>2. CASE i \in DOMAIN e /\ j = Len(e) + 1
      BY <1>5, <2>2, <3>2
    <3>3. CASE i = Len(e) + 1 /\ j \in DOMAIN e
      BY <1>5, <2>2, <3>3
    <3> QED
      BY <2>3, <3>1, <3>2, <3>3
  <2> QED
    BY <2>2, <2>4, <2>5, <2>6, Zenon DEF EndpointsTold, C, new
<1> QED
  BY <1>4, <1>5

\* A packet with at most one announcement: what is complete is the
\* announcement itself, under its own key.
LEMMA OneGiven ==
  ASSUME NEW a, NEW field, NEW none
  PROVE  LastGiven(<<a>>, field, none) = a[field]
<1>1. Len(<<a>>) = 1 /\ <<a>>[1] = a /\ 1..1 = {1}
  OBVIOUS
<1>2. CASE a[field] # none
  <2>1. {i \in 1..Len(<<a>>) : <<a>>[i][field] # none} = {1}
    BY <1>1, <1>2
  <2>2. Max({1}) = 1
    BY MaxIs
  <2>3. SelectLastInSeq(<<a>>, LAMBDA x : x[field] # none) = 1
    BY <2>1, <2>2 DEF SelectLastInSeq
  <2> QED
    BY <1>1, <2>3 DEF LastGiven
<1>3. CASE a[field] = none
  <2>1. {i \in 1..Len(<<a>>) : <<a>>[i][field] # none} = {}
    BY <1>1, <1>3
  <2>3. SelectLastInSeq(<<a>>, LAMBDA x : x[field] # none) = 0
    BY <2>1 DEF SelectLastInSeq
  <2> QED
    BY <1>3, <2>3 DEF LastGiven
<1> QED
  BY <1>2, <1>3

LEMMA NoneGiven ==
  ASSUME NEW field, NEW none
  PROVE  LastGiven(<<>>, field, none) = none
<1>1. Len(<<>>) = 0 /\ 1..0 = {}
  OBVIOUS
<1>2. {i \in 1..Len(<<>>) : <<>>[i][field] # none} = {}
  BY <1>1
<1>3. SelectLastInSeq(<<>>, LAMBDA x : x[field] # none) = 0
  BY <1>2 DEF SelectLastInSeq
<1> QED
  BY <1>3 DEF LastGiven

LEMMA CandOfOne ==
  ASSUME NEW pkt, pkt.sedp \in Seq(Range(pkt.sedp)), Len(pkt.sedp) <= 1, Complete(Cand(pkt))
  PROVE  Len(pkt.sedp) = 1 /\ Key(Cand(pkt)) = Key(pkt.sedp[1])
<1> DEFINE q == pkt.sedp
<1>0. Len(q) \in Nat
  OBVIOUS
<1>f. \A s : /\ inspect_cand(s).topic_name = LastGiven(s, "topic_name", "")
             /\ inspect_cand(s).endpoint_guid = LastGiven(s, "endpoint_guid", "")
  BY DEF inspect_cand
<1>1. Len(q) # 0
  <2> SUFFICES ASSUME Len(q) = 0 PROVE FALSE
    OBVIOUS
  <2>1. q = <<>>
    OBVIOUS
  <2>2. Cand(pkt).topic_name = ""
    BY <1>f, <2>1, NoneGiven DEF Cand
  <2> QED
    BY <2>2 DEF Complete
<1>2. Len(q) = 1
  <2>1. \A m \in Nat : m <= 1 /\ m # 0 => m = 1
    OBVIOUS
  <2> QED
    BY <1>0, <1>1, <2>1, Zenon
<1>3. q = <<q[1]>>
  BY <1>2
<1>4. Cand(pkt).topic_name = q[1].topic_name /\ Cand(pkt).endpoint_guid = q[1].endpoint_guid
  <2>1. /\ LastGiven(<<q[1]>>, "topic_name", "") = q[1]["topic_name"]
        /\ LastGiven(<<q[1]>>, "endpoint_guid", "") = q[1]["endpoint_guid"]
    BY OneGiven
  <2> QED
    BY <1>3, <1>f, <2>1 DEF Cand
<1> QED
  BY <1>2, <1>4 DEF Key

NoLease(part) == [part EXCEPT !.lease = 0]

SamePackets(c, I, d, J) ==
  /\ \A i \in I : \E j \in J : d[j] = c[i]
  /\ \A j \in J : \E i \in I : d[j] = c[i]

Uncontradicted(c, I) ==
  /\ \A i, j \in I :
       /\ c[i].vendor = c[j].vendor /\ c[i].version = c[j].version
       /\ c[i].mask = Unknown \/ c[j].mask = Unknown \/ c[i].mask = c[j].mask
  /\ \A i \in I : c[i].mask # Unknown => Flags(c[i].mask) # {}

\* Two captures with the same packets of a participant tell the same of it.
LEMMA ToldAlike ==
  ASSUME NEW c, NEW d, NEW I, NEW J, NEW p, NEW q, Told(p, c, I), Told(q, d, J),
         SamePackets(c, I, d, J), Uncontradicted(c, I)
  PROVE  NoLease(p) = NoLease(q)
<1> USE DEF SamePackets, Uncontradicted
<1>1. /\ DOMAIN p = {"vendor", "version", "lease", "mask", "locators"}
      /\ DOMAIN q = {"vendor", "version", "lease", "mask", "locators"}
  BY DEF Told
<1>2. p.vendor = q.vendor /\ p.version = q.version
  <2>1. PICK i \in I : /\ p.vendor = decode_vendor(c[i].vendor)
                       /\ p.version = decode_version(c[i].version)
    BY DEF Told
  <2>2. PICK j \in J : /\ q.vendor = decode_vendor(d[j].vendor)
                       /\ q.version = decode_version(d[j].version)
    BY DEF Told
  <2>3. PICK k \in I : d[j] = c[k]
    OBVIOUS
  <2> QED
    BY <2>1, <2>2, <2>3
<1>3. p.mask = q.mask
  <2>1. PICK i \in I : p.mask = c[i].mask
    BY DEF Told
  <2>2. PICK j \in J : q.mask = d[j].mask
    BY DEF Told
  <2>3. PICK k \in I : d[j] = c[k]
    OBVIOUS
  <2>4. PICK m \in J : d[m] = c[i]
    OBVIOUS
  <2>5. Flags(Unknown) = {}
    BY DEF Flags
  <2>6. CASE c[i].mask = Unknown
    <3>1. Flags(c[k].mask) = {}
      BY <2>1, <2>5, <2>6 DEF Told
    <3> QED
      BY <2>1, <2>2, <2>3, <2>6, <3>1
  <2>7. CASE c[k].mask = Unknown
    <3>1. Flags(c[i].mask) = {}
      BY <2>2, <2>3, <2>4, <2>5, <2>7 DEF Told
    <3> QED
      BY <2>1, <2>2, <2>3, <2>7, <3>1
  <2>8. CASE c[i].mask # Unknown /\ c[k].mask # Unknown
    BY <2>1, <2>2, <2>3, <2>8
  <2> QED
    BY <2>6, <2>7, <2>8
<1>4. p.locators = q.locators
  <2>1. {c[i].locators : i \in I} = {d[j].locators : j \in J}
    OBVIOUS
  <2> QED
    BY <2>1 DEF Told
<1> QED
  BY <1>1, <1>2, <1>3, <1>4 DEF NoLease

\* Every capture, packet by packet, tells its participants and endpoints.
LEMMA AllTold ==
  ASSUME NEW s, DOMAIN s = 1..Len(s), Len(s) \in Nat
  PROVE  /\ PartsTold(parse_discovery_data(s).participants, s, Len(s))
         /\ EndpointsTold(parse_discovery_data(s).endpoints, s, Len(s))
<1>1. PICK P : /\ P[0] = Empty
               /\ \A k \in 1..Len(s) : P[k] = ParsePacket(P[k - 1], s[k])
               /\ parse_discovery_data(s) = P[Len(s)]
  BY ParseStep
<1> DEFINE Good(k) == PartsTold(P[k].participants, s, k) /\ EndpointsTold(P[k].endpoints, s, k)
           Bad == {k \in 0..Len(s) : ~Good(k)}
<1>2. Bad = {}
  <2> SUFFICES ASSUME Bad # {} PROVE FALSE
    OBVIOUS
  <2>1. PICK k \in Bad : \A y \in Bad : k <= y
    <3>1. Bad \in SUBSET Nat
      OBVIOUS
    <3> HIDE DEF Bad
    <3> QED
      BY <3>1, SmallestOf
  <2>2. k # 0
    BY <1>1, ToldNone, EndpointsNone
  <2>3. k \in 1..Len(s) /\ k \in Nat /\ k - 1 \in 0..Len(s) /\ ~(k <= k - 1)
    BY <2>2
  <2>4. Good(k - 1)
    <3> HIDE DEF Good
    <3> QED
      BY <2>1, <2>3
  <2>5. /\ P[k].participants = inspect_spdp(P[k - 1].participants, s[k])
        /\ P[k].endpoints = extract_sedp_endpoints(P[k - 1].endpoints, s[k])
    <3>1. P[k] = ParsePacket(P[k - 1], s[k])
      BY <1>1, <2>3
    <3>2. \A a, b : /\ ParsePacket(a, b).participants = inspect_spdp(a.participants, b)
                    /\ ParsePacket(a, b).endpoints = extract_sedp_endpoints(a.endpoints, b)
      BY DEF ParsePacket
    <3> QED
      BY <3>1, <3>2, Zenon
  <2>6. PartsTold(P[k].participants, s, k)
    BY <2>2, <2>3, <2>4, <2>5, ToldStep
  <2>7. EndpointsTold(P[k].endpoints, s, k)
    BY <2>3, <2>4, <2>5, EndpointsStep
  <2> QED
    BY <2>6, <2>7
<1>3. Good(Len(s))
  <2> HIDE DEF Good
  <2> QED
    BY <1>2
<1> QED
  BY <1>1, <1>3

\* Sequences without repetition that hold the same are equally long.
LEMMA AsLong ==
  ASSUME NEW S, NEW e \in Seq(S), NEW T, T = {e[i] : i \in DOMAIN e},
         \A i, j \in DOMAIN e : e[i] = e[j] => i = j
  PROVE  Len(e) = Cardinality(T)
<1> DEFINE N == Len(e)
<1>1. DOMAIN e = 1..N /\ N \in Nat /\ e = [i \in 1..N |-> e[i]]
  OBVIOUS
<1>2. e \in Bijection(1..N, T)
  <2>1. e \in [1..N -> T]
    BY <1>1
  <2>2. \A t \in T : \E i \in 1..N : e[i] = t
    BY <1>1
  <2>3. \A i, j \in 1..N : e[i] = e[j] => i = j
    BY <1>1
  <2> QED
    BY <2>1, <2>2, <2>3 DEF Bijection, Injection, Surjection, IsInjective
<1>3. ExistsBijection(1..N, T)
  BY <1>2 DEF ExistsBijection
<1> HIDE DEF N
<1>4. Cardinality(T) = N
  BY <1>1, <1>3, FS_NatBijection, FS_CountingElements
<1> QED
  BY <1>4 DEF N

\* The sniffer's packets are those of the participants or of a capture.
CaptureInv == captured \in Seq(SPDP \cup Packets)

LEMMA InitCapture == Init => CaptureInv
<1>1. <<>> \in Seq(SPDP \cup Packets)
  OBVIOUS
<1> QED
  BY <1>1, Zenon DEF Init, SInit, CaptureInv

LEMMA NextCapture == CaptureInv /\ [Next]_vars => CaptureInv'
<1> SUFFICES ASSUME CaptureInv, [Next]_vars PROVE CaptureInv'
  OBVIOUS
<1> USE DEF CaptureInv
<1>1. CASE StartSniffer
  <2>1. <<>> \in Seq(SPDP \cup Packets)
    OBVIOUS
  <2>2. captured' = captured \/ captured' = <<>>
    BY <1>1 DEF StartSniffer, StartCapture, svars
  <2> QED
    BY <2>1, <2>2, Zenon
<1>2. CASE Announce
  BY <1>2 DEF Announce, Capture
<1>3. CASE SniffPcap
  <2>1. PICK packets \in {<<>>} \cup [1..2 -> SPDP]
                 \cup UNION {[1..n -> Packets] : n \in {m \in 1..MaxPackets : nth = 1}} :
          captured' = packets
    BY <1>3 DEF SniffPcap, ReadPcap
  <2>2. CASE packets = <<>>
    BY <2>1, <2>2
  <2>3. CASE packets \in [1..2 -> SPDP]
    <3>0. \A m \in Nat : packets \in [1..m -> SPDP] => packets \in Seq(SPDP)
      OBVIOUS
    <3>1. packets \in Seq(SPDP)
      BY <2>3, <3>0
    <3> QED
      BY <2>1, <3>1
  <2>4. CASE packets \in UNION {[1..n -> Packets] : n \in {m \in 1..MaxPackets : nth = 1}}
    <3>1. PICK n \in 1..MaxPackets : packets \in [1..n -> Packets]
      BY <2>4
    <3>2. MaxPackets \in Nat
      BY RunAssumption
    <3>n. n \in Nat
      BY <3>2
    <3>3. packets \in Seq(Packets)
      BY <3>1, <3>n
    <3> QED
      BY <2>1, <3>3
  <2> QED
    BY <2>2, <2>3, <2>4
<1>4. CASE StepSniffer
  BY <1>4 DEF StepSniffer, SnifferStep, EndCapture, Dump, DumpRaises, ReadJson, OpenJson, DumpJson,
              ReadXml, OpenXml, WriteXml, Cleanup, unchanged_run
<1>5. CASE KillOne
  BY <1>5 DEF KillOne, Kill, unchanged_run, svars
<1>6. CASE StartMain \/ NextPair \/ TestDirectly \/ StepMain \/ Ended \/ UNCHANGED vars
  BY <1>6 DEF StartMain, NextPair, TestDirectly, StepMain, Ended, vars, svars
<1> QED
  BY <1>1, <1>2, <1>3, <1>4, <1>5, <1>6 DEF Next

\* Whom the sniffer blames for the builtin endpoints, for every capture: the
\* mask it keeps is without a flag, so that no packet named one, and it is that of
\* a packet.
LEMMA BlamedForZero ==
  ASSUME NEW c, DOMAIN c = 1..Len(c), Len(c) \in Nat,
         "Builtin_Endpoints" \in FailedCases(parse_discovery_data(c), Args)
  PROVE  \E i \in DOMAIN c : ZeroMask(c, i)
<1> DEFINE d == parse_discovery_data(c)
           parts == d.participants
<1>1. PartsTold(parts, c, Len(c))
  BY AllTold
<1>2. PICK g \in DOMAIN parts : parts[g].mask = 0
  BY DEF FailedCases, Participants
<1> HIDE DEF d
<1>3. g # "" /\ Told(parts[g], c, From(c, Len(c), g)) /\ Flags(parts[g].mask) = {}
  BY <1>1, <1>2, ZeroMaskNamesNone DEF PartsTold
<1>4. /\ \A i \in From(c, Len(c), g) : Flags(c[i].mask) = {}
      /\ \E i \in From(c, Len(c), g) : parts[g].mask = c[i].mask
  BY <1>3 DEF Told
<1> QED
  BY <1>2, <1>3, <1>4 DEF From, ZeroMask

\* The test case of the builtin endpoints fails only if some participant
\* announced an all-zero mask and never a flag, for captures of any length, any
\* packets and any order of them.
THEOREM BlameJust == Spec => []BlameIsJust
<1>1. CaptureInv => BlameIsJust
  <2> SUFFICES ASSUME CaptureInv, BuiltinEndpointsFail
               PROVE  \E i \in DOMAIN captured : ZeroMask(captured, i)
    BY DEF BlameIsJust
  <2>1. DOMAIN captured = 1..Len(captured) /\ Len(captured) \in Nat
    BY DEF CaptureInv
  <2> QED
    BY <2>1, BlamedForZero DEF BuiltinEndpointsFail
<1> QED
  BY <1>1, InitCapture, NextCapture, PTL DEF Spec

Candidates(c) == {Cand(p) : p \in {r \in Range(c) : Complete(Cand(r))}}

\* The endpoints of consistent packets are their complete candidates, each once.
LEMMA EndpointsAre ==
  ASSUME NEW c, DOMAIN c = 1..Len(c), Len(c) \in Nat, Consistent(c),
         \A i \in DOMAIN c : c[i].sedp \in Seq(Range(c[i].sedp))
  PROVE  /\ Endpoints(parse_discovery_data(c)) = Candidates(c)
         /\ Len(parse_discovery_data(c).endpoints) = Cardinality(Candidates(c))
<1> DEFINE e == parse_discovery_data(c).endpoints
<1>1. EndpointsTold(e, c, Len(c))
  BY AllTold
<1>2. Endpoints(parse_discovery_data(c)) = {e[i] : i \in DOMAIN e}
  BY DEF Endpoints
<1> HIDE DEF e
<1>3. ASSUME NEW i \in DOMAIN c, NEW j \in DOMAIN c, Complete(Cand(c[i])), Complete(Cand(c[j])),
             Key(Cand(c[i])) = Key(Cand(c[j]))
      PROVE  Cand(c[i]) = Cand(c[j])
  <2>1. Len(c[i].sedp) <= 1 /\ Len(c[j].sedp) <= 1
    BY Zenon DEF Consistent
  <2>2. /\ Len(c[i].sedp) = 1 /\ Key(Cand(c[i])) = Key(c[i].sedp[1])
        /\ Len(c[j].sedp) = 1 /\ Key(Cand(c[j])) = Key(c[j].sedp[1])
    BY <1>3, <2>1, CandOfOne
  <2>3. c[i].sedp = c[j].sedp
    BY <1>3, <2>2 DEF Consistent
  <2> QED
    BY <2>3 DEF Cand
<1>4. \A x : x \in Candidates(c) <=> \E j \in DOMAIN c : x = Cand(c[j]) /\ Complete(x)
  BY DEF Candidates, Range
<1>5. {e[i] : i \in DOMAIN e} = Candidates(c)
  <2>1. ASSUME NEW i \in DOMAIN e PROVE e[i] \in Candidates(c)
    BY <1>1, <1>4 DEF EndpointsTold
  <2>2. ASSUME NEW x \in Candidates(c) PROVE \E i \in DOMAIN e : e[i] = x
    <3>1. PICK j \in DOMAIN c : x = Cand(c[j]) /\ Complete(x)
      BY <1>4
    <3>2. PICK i \in DOMAIN e : Key(e[i]) = Key(Cand(c[j]))
      BY <1>1, <3>1 DEF EndpointsTold
    <3>3. PICK k \in DOMAIN c : e[i] = Cand(c[k]) /\ Complete(e[i])
      BY <1>1 DEF EndpointsTold
    <3>4. Cand(c[k]) = Cand(c[j])
      BY <1>3, <3>1, <3>2, <3>3
    <3> QED
      BY <3>1, <3>3, <3>4
  <2> QED
    BY <2>1, <2>2
<1>6. \A i, j \in DOMAIN e : e[i] = e[j] => i = j
  BY <1>1 DEF EndpointsTold
<1>7. e \in Seq({Cand(c[i]) : i \in 1..Len(c)})
  BY <1>1 DEF EndpointsTold
<1>8. Len(e) = Cardinality(Candidates(c))
  BY <1>5, <1>6, <1>7, AsLong
<1> QED
  BY <1>2, <1>5, <1>8 DEF e

\* Consistency is a matter of which packets there are.
LEMMA ConsistentToo ==
  ASSUME NEW c, NEW d \in Arrivals(c), Consistent(c)
  PROVE  Consistent(d)
<1>1. \A i \in DOMAIN d : \E k \in DOMAIN c : d[i] = c[k]
  BY DEF Arrivals, Range
<1>2. ASSUME NEW i \in DOMAIN d, NEW j \in DOMAIN d
      PROVE  /\ guid_p(d[i]) = guid_p(d[j]) =>
                  /\ d[i].vendor = d[j].vendor /\ d[i].version = d[j].version
                  /\ {d[i].mask, d[j].mask} \ {Unknown} \subseteq {d[i].mask} \/ d[i].mask = Unknown
             /\ d[i].mask # Unknown => Flags(d[i].mask) # {}
             /\ Len(d[i].sedp) <= 1
             /\ Len(d[i].sedp) = 1 /\ Len(d[j].sedp) = 1 =>
                  (Key(d[i].sedp[1]) = Key(d[j].sedp[1]) => d[i].sedp = d[j].sedp)
  <2>1. PICK k \in DOMAIN c : d[i] = c[k]
    BY <1>1
  <2>2. PICK m \in DOMAIN c : d[j] = c[m]
    BY <1>1
  <2>3. guid_p(c[k]) = guid_p(c[m]) =>
          /\ c[k].vendor = c[m].vendor /\ c[k].version = c[m].version
          /\ {c[k].mask, c[m].mask} \ {Unknown} \subseteq {c[k].mask} \/ c[k].mask = Unknown
    BY Zenon DEF Consistent
  <2>4. c[k].mask # Unknown => Flags(c[k].mask) # {}
    BY Zenon DEF Consistent
  <2>5. Len(c[k].sedp) <= 1
    BY Zenon DEF Consistent
  <2>6. Len(c[k].sedp) = 1 /\ Len(c[m].sedp) = 1 =>
          (Key(c[k].sedp[1]) = Key(c[m].sedp[1]) => c[k].sedp = c[m].sedp)
    BY Zenon DEF Consistent
  <2> QED
    BY <2>1, <2>2, <2>3, <2>4, <2>5, <2>6, Zenon
<1> QED
  BY <1>2 DEF Consistent

LEMMA ViewAlike ==
  ASSUME NEW c, DOMAIN c = 1..Len(c), Len(c) \in Nat, Consistent(c),
         \A i \in DOMAIN c : c[i].sedp \in Seq(Range(c[i].sedp)), NEW d \in Arrivals(c)
  PROVE  View(parse_discovery_data(d)) = View(parse_discovery_data(c))
<1> DEFINE pc == parse_discovery_data(c).participants
           pd == parse_discovery_data(d).participants
<1>1. DOMAIN d = DOMAIN c /\ Range(d) = Range(c) /\ d \in [1..Len(c) -> Range(c)]
  BY DEF Arrivals
<1>2. Len(d) = Len(c)
  BY <1>1
<1>3. /\ \A j \in DOMAIN d : \E i \in DOMAIN c : d[j] = c[i]
      /\ \A i \in DOMAIN c : \E j \in DOMAIN d : d[j] = c[i]
  BY <1>1 DEF Range
<1>4. Consistent(d)
  BY ConsistentToo
<1>5. \A i \in DOMAIN d : d[i].sedp \in Seq(Range(d[i].sedp))
  BY <1>3
<1>6. /\ Endpoints(parse_discovery_data(d)) = Endpoints(parse_discovery_data(c))
      /\ Len(parse_discovery_data(d).endpoints) = Len(parse_discovery_data(c).endpoints)
  <2>1. Candidates(d) = Candidates(c)
    BY <1>1 DEF Candidates
  <2>2. /\ Endpoints(parse_discovery_data(d)) = Candidates(d)
        /\ Len(parse_discovery_data(d).endpoints) = Cardinality(Candidates(d))
    BY <1>1, <1>2, <1>4, <1>5, EndpointsAre
  <2>3. /\ Endpoints(parse_discovery_data(c)) = Candidates(c)
        /\ Len(parse_discovery_data(c).endpoints) = Cardinality(Candidates(c))
    BY EndpointsAre
  <2> QED
    BY <2>1, <2>2, <2>3
<1>7. PartsTold(pc, c, Len(c)) /\ PartsTold(pd, d, Len(c))
  BY <1>1, <1>2, AllTold
<1> HIDE DEF pc, pd
<1>8. ASSUME NEW g
      PROVE  /\ \A i \in From(c, Len(c), g) : \E j \in From(d, Len(c), g) : d[j] = c[i]
             /\ \A j \in From(d, Len(c), g) : \E i \in From(c, Len(c), g) : d[j] = c[i]
  BY <1>1, <1>3 DEF From
<1>9. DOMAIN pd = DOMAIN pc
  <2>1. \A g : g \in DOMAIN pd <=> g \in DOMAIN pc
    BY <1>7, <1>8 DEF PartsTold
  <2>2. \A g : g \in DOMAIN pd => g \in DOMAIN pc
    BY <2>1
  <2> QED
    BY <2>1
<1>10. ASSUME NEW g \in DOMAIN pc
       PROVE  [pd[g] EXCEPT !.lease = 0] = [pc[g] EXCEPT !.lease = 0]
  <2> DEFINE I == From(c, Len(c), g)
             J == From(d, Len(c), g)
  <2>1. Told(pc[g], c, I) /\ Told(pd[g], d, J)
    BY <1>7, <1>9 DEF PartsTold
  <2>2. Uncontradicted(c, I)
    <3>1. \A i, j \in I :
            /\ c[i].vendor = c[j].vendor /\ c[i].version = c[j].version
            /\ c[i].mask = Unknown \/ c[j].mask = Unknown \/ c[i].mask = c[j].mask
      BY DEF Consistent, From
    <3>2. \A i \in I : c[i].mask # Unknown => Flags(c[i].mask) # {}
      BY DEF Consistent, From
    <3> HIDE DEF I
    <3> QED
      BY <3>1, <3>2 DEF Uncontradicted
  <2>4. SamePackets(c, I, d, J)
    BY <1>8 DEF SamePackets
  <2> HIDE DEF I, J
  <2>5. NoLease(pc[g]) = NoLease(pd[g])
    BY <2>1, <2>2, <2>4, ToldAlike
  <2> QED
    BY <2>5, Zenon DEF NoLease
<1>11. [g \in DOMAIN pd |-> [pd[g] EXCEPT !.lease = 0]]
        = [g \in DOMAIN pc |-> [pc[g] EXCEPT !.lease = 0]]
  BY <1>9, <1>10
<1> QED
  BY <1>6, <1>11 DEF View, pc, pd

\* What the sniffer finds in consistent packets depends neither on the order
\* in which they arrive nor on duplicates, for captures of any length.
THEOREM ArrivalOrder == Spec => []ArrivalOrderIrrelevant
<1>1. CaptureInv => ArrivalOrderIrrelevant
  <2> SUFFICES ASSUME CaptureInv, Consistent(captured), NEW d \in Arrivals(captured)
               PROVE  View(parse_discovery_data(d)) = View(parse_discovery_data(captured))
    BY DEF ArrivalOrderIrrelevant
  <2>1. /\ DOMAIN captured = 1..Len(captured) /\ Len(captured) \in Nat
        /\ \A i \in DOMAIN captured : captured[i] \in SPDP \cup Packets
    BY DEF CaptureInv
  <2>2. \A i \in DOMAIN captured : captured[i].sedp \in Seq(Range(captured[i].sedp))
    BY <2>1, RunAssumption DEF RunAssumption
  <2> QED
    BY <2>1, <2>2, ViewAlike
<1> QED
  BY <1>1, InitCapture, NextCapture, PTL DEF Spec

=============================================================================
