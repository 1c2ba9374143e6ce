--------------------------- MODULE SuiteRunProofs --------------------------
(***************************************************************************)
(* A test case of the table that passes shows that its applications        *)
(* started, for any builds of the applications and any number of create_   *)
(* calls that fail, in whatever order the applications start, find each    *)
(* other and print and the harness reads.                                  *)
(***************************************************************************)
EXTENDS SuiteRun, FiniteSetTheorems, NaturalsInduction, WellFoundedInduction, TLAPS

Lines == {"topic", "entity", "index", "unsupported", "matched", "incompatible",
          "sample", "deadline"}

OneTopic(a) == "num_topics" \notin DOMAIN test.apps[a]
SaidIn(lines, l) == \E i \in DOMAIN lines : lines[i] = l
Says(a, l) == SaidIn(console[a], l)
Running(a) == app_pc[a] = "run" /\ \E pub \in Publishers : app_pc[pub] = "run"

\* The test case that runs is one of the table.
Listed(t) == \E i \in DOMAIN rtps_test_suite_1 : t = WithRepresentation(rtps_test_suite_1[i])

Types ==
  /\ Listed(test)
  /\ DOMAIN app_pc = Apps /\ DOMAIN step = Apps /\ DOMAIN code = Apps
  /\ DOMAIN options = Apps
  /\ created \in [Apps -> Nat]
  /\ console \in [Apps -> Seq(Lines)]

\* An application with one topic has its entity when it runs, and not before.
SetupInv ==
  \A a \in Apps : OneTopic(a) =>
    /\ app_pc[a] # "parse" => options[a].num_topics = 1
    /\ app_pc[a] \in {"parse", "topics", "init", "entities"} => created[a] = 0

\* The lines of the listeners come from an application that has its entities;
\* a sample comes from a publisher that runs, too.
ConsoleInv ==
  \A a \in Apps :
    /\ OneTopic(a) /\ (Says(a, "matched") \/ Says(a, "incompatible") \/ Says(a, "deadline")) =>
         app_pc[a] = "run"
    /\ Says(a, "sample") => Running(a)

\* So do the codes that are not about something missing.
CodeInv ==
  \A a \in Apps :
    /\ step[a] = "samples" => a \in Publishers
    /\ OneTopic(a) /\ (step[a] = "samples" \/ code[a] \notin NotStarted \cup {"none"}) =>
         app_pc[a] = "run"
    /\ (a \in Subscribers /\ code[a] \notin NotStarted \cup
           {"none", "INCOMPATIBLE_QOS", "DEADLINE_MISSED"}) => Running(a)

JudgedInv ==
  /\ verdict # "none" => \A a \in Apps : step[a] = "done"
  /\ verdict = "OK" => code = test.expected_codes

StartInv == Types /\ SetupInv /\ ConsoleInv /\ CodeInv /\ JudgedInv

----------------------------------------------------------------------------
(* The table. *)

LEMMA TableRows ==
  ASSUME NEW t, Listed(t)
  PROVE  /\ DOMAIN t.expected_codes = DOMAIN t.apps
         /\ \A a \in DOMAIN t.apps :
              /\ t.expected_codes[a] # "none"
              /\ t.expected_codes[a] \in NotStarted =>
                   t.expected_codes[a] \in {"READER_NOT_MATCHED", "DATA_NOT_RECEIVED"}
         /\ (\E a \in DOMAIN t.apps : "num_topics" \in DOMAIN t.apps[a]) =>
              /\ DOMAIN t.apps = {1, 2} /\ t.apps[1].role = "P" /\ t.apps[2].role = "S"
              /\ t.expected_codes[2] = "OK"
  <1> HIDE DEF rtps_test_suite_1, NotStarted
  <1>1. PICK i \in DOMAIN rtps_test_suite_1 : t = WithRepresentation(rtps_test_suite_1[i])
    BY DEF Listed
  <1> DEFINE case == rtps_test_suite_1[i]
  <1>2. /\ {"apps", "expected_codes"} \subseteq DOMAIN case
        /\ DOMAIN case.expected_codes = DOMAIN case.apps
        /\ \A a \in DOMAIN case.apps :
             /\ "role" \in DOMAIN case.apps[a]
             /\ case.expected_codes[a] # "none"
             /\ case.expected_codes[a] \in NotStarted =>
                  case.expected_codes[a] \in {"READER_NOT_MATCHED", "DATA_NOT_RECEIVED"}
        /\ (\E a \in DOMAIN case.apps : "num_topics" \in DOMAIN case.apps[a]) =>
             /\ DOMAIN case.apps = {1, 2} /\ case.apps[1].role = "P" /\ case.apps[2].role = "S"
             /\ case.expected_codes[2] = "OK"
    BY TableAssumption
  <1>3. t = WithRepresentation(case)
    BY <1>1
  <1> HIDE DEF case
  <1>4. t.expected_codes = case.expected_codes
    BY <1>2, <1>3 DEF WithRepresentation
  <1>5. /\ DOMAIN t.apps = DOMAIN case.apps
        /\ \A a \in DOMAIN case.apps :
             /\ DOMAIN t.apps[a] = DOMAIN case.apps[a] \cup {"x"}
             /\ \A f \in DOMAIN case.apps[a] : t.apps[a][f] = case.apps[a][f]
    BY <1>2, <1>3 DEF WithRepresentation
  <1>6. \A a \in DOMAIN t.apps :
          /\ "num_topics" \in DOMAIN t.apps[a] => "num_topics" \in DOMAIN case.apps[a]
          /\ t.apps[a].role = case.apps[a].role
    BY <1>2, <1>5
  <1> QED
    BY <1>2, <1>4, <1>5, <1>6

----------------------------------------------------------------------------
(* The consoles. *)

SetupLines == {"topic", "entity", "index", "unsupported"}

\* a may print lines of L; nobody else prints anything.
OnlySays(a, L) ==
  /\ console' \in [Apps -> Seq(Lines)]
  /\ \A b \in Apps, l \in Lines :
       SaidIn(console'[b], l) => SaidIn(console[b], l) \/ (b = a /\ l \in L)

LEMMA Appended ==
  ASSUME NEW s \in Seq(Lines), NEW t \in Seq(Lines), NEW l
  PROVE  /\ s \o t \in Seq(Lines)
         /\ SaidIn(s \o t, l) => SaidIn(s, l) \/ SaidIn(t, l)
  BY DEF SaidIn

LEMMA PrintsOnly ==
  ASSUME console \in [Apps -> Seq(Lines)], NEW a \in Apps, NEW lines \in Seq(Lines),
         NEW L, \A i \in DOMAIN lines : lines[i] \in L, Prints(a, lines)
  PROVE  OnlySays(a, L)
<1>1. console[a] \in Seq(Lines)
  OBVIOUS
<1>2. console' \in [Apps -> Seq(Lines)]
  BY <1>1, Appended DEF Prints
<1>3. ASSUME NEW b \in Apps, NEW l \in Lines, SaidIn(console'[b], l)
      PROVE  SaidIn(console[b], l) \/ (b = a /\ l \in L)
  <2>1. CASE b # a
    BY <1>3, <2>1 DEF Prints
  <2>2. CASE b = a
    <3>1. console'[b] = console[b] \o lines
      BY <2>2 DEF Prints
    <3>2. SaidIn(console[b], l) \/ SaidIn(lines, l)
      BY <1>1, <1>3, <2>2, <3>1, Appended
    <3> QED
      BY <2>2, <3>2 DEF SaidIn
  <2> QED
    BY <2>1, <2>2
<1> QED
  BY <1>2, <1>3 DEF OnlySays

LEMMA Silence ==
  ASSUME console \in [Apps -> Seq(Lines)], UNCHANGED console, NEW a, NEW L
  PROVE  OnlySays(a, L)
  BY DEF OnlySays

\* What an application prints before it runs.
LEMMA SetupPrints ==
  ASSUME console \in [Apps -> Seq(Lines)], NEW a \in Apps, Setup(a)
  PROVE  OnlySays(a, SetupLines)
<1>1. ASSUME NEW x \in SetupLines, Prints(a, <<x>>)
      PROVE  OnlySays(a, SetupLines)
  <2>1. <<x>> \in Seq(Lines) /\ \A i \in DOMAIN <<x>> : <<x>>[i] \in SetupLines
    BY DEF Lines, SetupLines
  <2> QED
    BY <1>1, <2>1, PrintsOnly
<1>2. ASSUME Prints(a, << >>)
      PROVE  OnlySays(a, SetupLines)
  <2>1. << >> \in Seq(Lines) /\ \A i \in DOMAIN << >> : << >>[i] \in SetupLines
    OBVIOUS
  <2> QED
    BY <1>2, <2>1, PrintsOnly
<1>3. ASSUME Prints(a, <<"entity", "index">>)
      PROVE  OnlySays(a, SetupLines)
  <2>1. /\ <<"entity", "index">> \in Seq(Lines)
        /\ \A i \in DOMAIN <<"entity", "index">> : <<"entity", "index">>[i] \in SetupLines
    BY DEF Lines, SetupLines
  <2> QED
    BY <1>3, <2>1, PrintsOnly
<1>4. \/ UNCHANGED console \/ Prints(a, << >>) \/ Prints(a, <<"entity", "index">>)
      \/ Prints(a, <<"topic">>) \/ Prints(a, <<"entity">>) \/ Prints(a, <<"unsupported">>)
  <2>1. CASE ParseOptions(a)
    BY <2>1 DEF ParseOptions
  <2>2. CASE NoParticipant(a) \/ NoFilter(a)
    BY <2>2 DEF NoParticipant, NoFilter
  <2>3. ASSUME NEW ok \in BOOLEAN, CreateTopic(a, ok)
        PROVE  Prints(a, <<"topic">>)
    BY <2>3 DEF CreateTopic
  <2>4. ASSUME NEW ok \in BOOLEAN, InitParent(a, ok)
        PROVE  UNCHANGED console \/ Prints(a, <<"unsupported">>)
    BY <2>4 DEF InitParent
  <2>5. ASSUME NEW ok \in BOOLEAN, CreateEntity(a, ok)
        PROVE  Prints(a, <<"entity">>) \/ Prints(a, <<"entity", "index">>)
    BY <2>5 DEF CreateEntity
  <2> QED
    BY <2>1, <2>2, <2>3, <2>4, <2>5 DEF Setup
<1>5. {"topic", "entity", "unsupported"} \subseteq SetupLines
  BY DEF SetupLines
<1> QED
  BY <1>1, <1>2, <1>3, <1>4, <1>5, Silence

----------------------------------------------------------------------------
(* The steps. *)

\* An application that runs goes on, and the harness does nothing.
RunsOn == \A b \in Apps : app_pc[b] = "run" => app_pc'[b] = "run"

LEMMA OptionsOf ==
  ASSUME NEW flags, NEW v, "num_topics" \notin DOMAIN flags
  PROVE  Validated(v, Parse(flags)).num_topics = 1
<1> DEFINE o == Parse(flags)
<1>1. "num_topics" \in DOMAIN o /\ o.num_topics = 1
  BY DEF Parse, DefaultOptions
<1> HIDE DEF o
<1>2. Validated(v, o).num_topics = 1
  BY <1>1 DEF Validated
<1> QED
  BY <1>2 DEF o

\* What SetupInv says of one application.
SetupOf(pc, o, n) ==
  /\ pc # "parse" => o.num_topics = 1
  /\ pc \in {"parse", "topics", "init", "entities"} => n = 0

LEMMA SetupStep ==
  ASSUME Types, SetupInv, NEW a \in Apps, Setup(a), UNCHANGED harnessVars
  PROVE  test' = test /\ Types' /\ SetupInv' /\ RunsOn
<1> DEFINE
      Shape == /\ test' = test
               /\ DOMAIN app_pc' = Apps /\ DOMAIN options' = Apps
               /\ created' \in [Apps -> Nat]
               /\ \A b \in Apps \ {a} :
                    /\ app_pc'[b] = app_pc[b] /\ options'[b] = options[b]
                    /\ created'[b] = created[b]
               /\ app_pc[a] # "run"
               /\ OneTopic(a) => SetupOf(app_pc'[a], options'[a], created'[a])
<1>1. created[a] \in Nat /\ created[a] + 1 \in Nat /\ 0 \in Nat
  BY DEF Types
<1>2. DOMAIN app_pc = Apps /\ DOMAIN options = Apps /\ created \in [Apps -> Nat]
  BY DEF Types
<1>4. OneTopic(a) => SetupOf(app_pc[a], options[a], created[a])
  BY DEF SetupInv, SetupOf
<1>5. Shape
  <2>1. CASE ParseOptions(a)
    <3> DEFINE new == Validated(vendor[a], Parse(test.apps[a]))
    <3>1. OneTopic(a) => new.num_topics = 1
      BY OptionsOf DEF OneTopic
    <3> HIDE DEF new
    <3>2. /\ test' = test /\ created' = created /\ app_pc[a] = "parse"
          /\ options' = [options EXCEPT ![a] = new]
          /\ \/ app_pc' = [app_pc EXCEPT ![a] = "gone"]
             \/ app_pc' = [app_pc EXCEPT ![a] = "topics"]
      BY <2>1 DEF ParseOptions, Ends, new
    <3> QED
      BY <1>1, <1>2, <1>4, <3>1, <3>2 DEF SetupOf
  <2>2. CASE NoParticipant(a) \/ NoFilter(a)
    <3>1. /\ test' = test /\ created' = created /\ options' = options
          /\ app_pc[a] \in {"topics", "entities"}
          /\ app_pc' = [app_pc EXCEPT ![a] = "gone"]
      BY <2>2 DEF NoParticipant, NoFilter, Ends
    <3> QED
      BY <1>1, <1>2, <1>4, <3>1 DEF SetupOf
  <2>3. ASSUME NEW ok \in BOOLEAN, CreateTopic(a, ok) PROVE Shape
    <3>1. /\ test' = test /\ options' = options /\ app_pc[a] = "topics"
          /\ \/ app_pc' = [app_pc EXCEPT ![a] = "gone"] /\ created' = created
             \/ /\ created[a] + 1 = options[a].num_topics
                /\ app_pc' = [app_pc EXCEPT ![a] = "init"]
                /\ created' = [created EXCEPT ![a] = 0]
             \/ /\ created[a] + 1 # options[a].num_topics
                /\ app_pc' = [app_pc EXCEPT ![a] = "topics"]
                /\ created' = [created EXCEPT ![a] = created[a] + 1]
      BY <2>3 DEF CreateTopic, Ends
    <3> QED
      BY <1>1, <1>2, <1>4, <3>1 DEF SetupOf
  <2>4. ASSUME NEW ok \in BOOLEAN, InitParent(a, ok) PROVE Shape
    <3>1. /\ test' = test /\ options' = options /\ app_pc[a] = "init"
          /\ created' = created
          /\ \/ app_pc' = [app_pc EXCEPT ![a] = "gone"]
             \/ app_pc' = [app_pc EXCEPT ![a] = "entities"]
      BY <2>4 DEF InitParent, Ends
    <3> QED
      BY <1>1, <1>2, <1>4, <3>1 DEF SetupOf
  <2>5. ASSUME NEW ok \in BOOLEAN, CreateEntity(a, ok) PROVE Shape
    <3>1. /\ test' = test /\ options' = options /\ app_pc[a] = "entities"
          /\ \/ app_pc' = [app_pc EXCEPT ![a] = "gone"] /\ created' = created
             \/ /\ created[a] + 1 = options[a].num_topics
                /\ app_pc' = [app_pc EXCEPT ![a] = "run"]
                /\ created' = [created EXCEPT ![a] = created[a] + 1]
             \/ /\ created[a] + 1 # options[a].num_topics
                /\ app_pc' = [app_pc EXCEPT ![a] = "entities"]
                /\ created' = [created EXCEPT ![a] = created[a] + 1]
      BY <2>5 DEF CreateEntity, Ends
    <3> QED
      BY <1>1, <1>2, <1>4, <3>1 DEF SetupOf
  <2> QED
    BY <2>1, <2>2, <2>3, <2>4, <2>5 DEF Setup
<1>6. OnlySays(a, SetupLines)
  BY SetupPrints DEF Types
<1>7. Types'
  BY <1>5, <1>6 DEF Types, Apps, OnlySays, harnessVars
<1>8. RunsOn
  BY <1>2, <1>5 DEF RunsOn, Types
<1>9. SetupInv'
  <2>1. ASSUME NEW b \in Apps, OneTopic(b)
        PROVE  SetupOf(app_pc'[b], options'[b], created'[b])
    <3>1. CASE b = a
      BY <1>5, <2>1, <3>1
    <3>2. CASE b # a
      <4>1. app_pc'[b] = app_pc[b] /\ options'[b] = options[b] /\ created'[b] = created[b]
        BY <1>5, <3>2 DEF Types
      <4> QED
        BY <2>1, <4>1 DEF SetupInv, SetupOf
    <3> QED
      BY <3>1, <3>2
  <2> QED
    BY <1>5, <2>1 DEF SetupInv, SetupOf, Apps, OneTopic
<1> QED
  BY <1>5, <1>7, <1>8, <1>9

\* ConsoleInv needs to be looked at for the lines that are new.
LEMMA ConsoleKept ==
  ASSUME Types, ConsoleInv, test' = test, RunsOn, NEW a \in Apps, NEW L, OnlySays(a, L),
         \A l \in {"matched", "incompatible", "deadline"} :
           OneTopic(a) /\ l \in L => app_pc[a] = "run",
         "sample" \in L => Running(a)
  PROVE  ConsoleInv'
<1>1. {"matched", "incompatible", "deadline", "sample"} \subseteq Lines
  BY DEF Lines
<1>2. Apps' = Apps /\ Publishers' = Publishers
  BY DEF Apps, Publishers
<1>3. Publishers \subseteq Apps
  BY DEF Publishers
<1>4. ASSUME NEW b \in Apps
      PROVE  /\ \A l \in {"matched", "incompatible", "deadline"} :
                  OneTopic(b) /\ SaidIn(console'[b], l) => app_pc'[b] = "run"
             /\ SaidIn(console'[b], "sample") =>
                  app_pc'[b] = "run" /\ \E pub \in Publishers : app_pc'[pub] = "run"
  <2>1. ASSUME NEW l \in {"matched", "incompatible", "deadline"}, OneTopic(b),
               SaidIn(console'[b], l)
        PROVE  app_pc'[b] = "run"
    <3>1. SaidIn(console[b], l) \/ (b = a /\ l \in L)
      BY <1>1, <2>1 DEF OnlySays
    <3>2. SaidIn(console[b], l) => app_pc[b] = "run"
      BY <2>1 DEF ConsoleInv, Says
    <3> QED
      BY <2>1, <3>1, <3>2 DEF RunsOn
  <2>2. ASSUME SaidIn(console'[b], "sample")
        PROVE  app_pc'[b] = "run" /\ \E pub \in Publishers : app_pc'[pub] = "run"
    <3>1. SaidIn(console[b], "sample") \/ (b = a /\ "sample" \in L)
      BY <1>1, <2>2 DEF OnlySays
    <3>2. Running(b)
      BY <3>1 DEF ConsoleInv, Says
    <3> QED
      BY <1>3, <3>2 DEF RunsOn, Running
  <2> QED
    BY <2>1, <2>2
<1> QED
  BY <1>2, <1>4 DEF ConsoleInv, Says, Running, OneTopic

\* The harness rests: what it concluded stays true.
LEMMA HarnessRests ==
  ASSUME Types, CodeInv, JudgedInv, test' = test, RunsOn, UNCHANGED harnessVars
  PROVE  CodeInv' /\ JudgedInv'
<1>1. Apps' = Apps /\ Publishers' = Publishers /\ Subscribers' = Subscribers
  BY DEF Apps, Publishers, Subscribers
<1>2. Publishers \subseteq Apps
  BY DEF Publishers
<1>3. CodeInv'
  BY <1>1, <1>2 DEF CodeInv, OneTopic, Running, RunsOn, harnessVars
<1>4. JudgedInv'
  BY <1>1 DEF JudgedInv, harnessVars
<1> QED
  BY <1>3, <1>4

\* An application with one topic that has an entity runs.
LEMMA HasEntity ==
  ASSUME Types, SetupInv, NEW a \in Apps, OneTopic(a), Entities(a) # {}
  PROVE  app_pc[a] = "run"
<1>1. app_pc[a] = "entities" => created[a] = 0
  BY DEF SetupInv
<1>2. 1..0 = {}
  OBVIOUS
<1> QED
  BY <1>1, <1>2 DEF Entities

LEMMA MiddlewareStep ==
  ASSUME StartInv, Middleware
  PROVE  test' = test /\ StartInv'
<1> USE DEF StartInv
<1>1. UNCHANGED <<test, options, app_pc, created, step, code, verdict>>
  BY DEF Middleware, Finds, FindReader, FindWriter, MayFind, Deliver, MissDeadline, harnessVars
<1>2. Apps' = Apps /\ RunsOn
  BY <1>1 DEF Apps, RunsOn
<1>3. SetupInv'
  BY <1>1, <1>2 DEF SetupInv, OneTopic
<1>4. CodeInv' /\ JudgedInv'
  BY <1>1, <1>2, HarnessRests DEF harnessVars
<1>5. ASSUME NEW a \in Apps, NEW L, OnlySays(a, L),
             \A l \in {"matched", "incompatible", "deadline"} :
               OneTopic(a) /\ l \in L => app_pc[a] = "run",
             "sample" \in L => Running(a)
      PROVE  Types' /\ ConsoleInv'
  <2>1. Types'
    BY <1>1, <1>2, <1>5 DEF Types, OnlySays
  <2>2. ConsoleInv'
    BY <1>1, <1>2, <1>5, ConsoleKept
  <2> QED
    BY <2>1, <2>2
<1>6. ASSUME NEW a \in Apps, NEW x \in Lines, Prints(a, <<x>>)
      PROVE  OnlySays(a, {x})
  <2>1. <<x>> \in Seq(Lines) /\ \A i \in DOMAIN <<x>> : <<x>>[i] \in {x}
    OBVIOUS
  <2> QED
    BY <1>6, <2>1, PrintsOnly DEF Types
<1>7. ASSUME NEW a \in Apps, Prints(a, << >>)
      PROVE  OnlySays(a, {})
  <2>1. << >> \in Seq(Lines) /\ \A i \in DOMAIN << >> : << >>[i] \in {}
    OBVIOUS
  <2> QED
    BY <1>7, <2>1, PrintsOnly DEF Types
<1>8. {"matched", "incompatible", "deadline", "sample"} \subseteq Lines
  BY DEF Lines
<1>9. Publishers \subseteq Apps /\ Subscribers \subseteq Apps
  BY DEF Publishers, Subscribers
<1>10. ASSUME NEW a \in Apps, Entities(a) # {}, NEW x \in {"matched", "incompatible", "deadline"},
              Prints(a, <<x>>)
       PROVE  Types' /\ ConsoleInv'
  <2>1. OnlySays(a, {x})
    BY <1>6, <1>8, <1>10
  <2>2. OneTopic(a) => app_pc[a] = "run"
    BY <1>10, HasEntity
  <2>3. "sample" \notin {x}
    BY <1>10
  <2> QED
    BY <1>5, <2>1, <2>2, <2>3
<1>11. ASSUME NEW pub \in Publishers, NEW sub \in Subscribers,
              NEW i \in Entities(pub) \cap Entities(sub),
              FindReader(pub, sub, i) \/ FindWriter(pub, sub, i)
       PROVE  Types' /\ ConsoleInv'
  <2>1. Entities(pub) # {} /\ Entities(sub) # {}
    BY <1>11
  <2>2. CASE Prints(sub, << >>)
    BY <1>5, <1>7, <1>9, <2>2
  <2>3. \/ Prints(pub, <<"matched">>) \/ Prints(pub, <<"incompatible">>)
        \/ Prints(sub, << >>) \/ Prints(sub, <<"incompatible">>)
    BY <1>11 DEF FindReader, FindWriter
  <2> QED
    BY <1>9, <1>10, <2>1, <2>2, <2>3
<1>12. ASSUME NEW a \in Apps, Deliver(a)
       PROVE  Types' /\ ConsoleInv'
  <2>1. Sources(a) \subseteq Publishers
    BY DEF Sources, Reaching
  <2>2. Running(a) /\ Prints(a, <<"sample">>)
    BY <1>12, <2>1 DEF Deliver, Running
  <2>3. OnlySays(a, {"sample"})
    BY <1>6, <1>8, <2>2
  <2> QED
    BY <1>5, <2>2, <2>3
<1>13. ASSUME NEW a \in Apps, MissDeadline(a)
       PROVE  Types' /\ ConsoleInv'
  BY <1>10, <1>13 DEF MissDeadline
<1>14. Types' /\ ConsoleInv'
  BY <1>11, <1>12, <1>13 DEF Middleware, Finds
<1> QED
  BY <1>1, <1>3, <1>4, <1>14

----------------------------------------------------------------------------
(* The harness. *)

\* pexpect finds a line of the kinds it waits for, if there is one.
LEMMA FirstIsThere ==
  ASSUME console \in [Apps -> Seq(Lines)], NEW a \in Apps, NEW kinds, Hits(a, kinds) # {}
  PROVE  /\ Min(Hits(a, kinds)) \in DOMAIN console[a]
         /\ FirstHit(a, kinds) \in kinds /\ Says(a, FirstHit(a, kinds))
<1> DEFINE H == Hits(a, kinds)
<1>1. console[a] \in Seq(Lines)
  OBVIOUS
<1>2. H \subseteq Nat
  BY <1>1 DEF Hits
<1>3. Hits(a, kinds) \subseteq DOMAIN console[a]
      /\ \A i \in Hits(a, kinds) : console[a][i] \in kinds
  BY DEF Hits
<1> HIDE DEF H
<1>4. H # {}
  BY DEF H
<1>5. \E x \in H : \A y \in H : ~(<<y, x>> \in OpToRel(<, Nat))
  BY <1>2, <1>4, WFMin, NatLessThanWellFounded
<1>6. PICK x \in H : \A y \in H : ~(<<y, x>> \in OpToRel(<, Nat))
  BY <1>5
<1>7. \A y \in H : x <= y
  <2> SUFFICES ASSUME NEW y \in H PROVE ~(y < x)
    BY <1>2
  <2>1. y < x => <<y, x>> \in OpToRel(<, Nat)
    BY <1>2, Zenon DEF OpToRel
  <2> QED
    BY <1>6, <2>1
<1>8. Min(H) \in H
  BY <1>7 DEF Min
<1>9. Min(Hits(a, kinds)) \in Hits(a, kinds)
  BY <1>8 DEF H
<1> QED
  BY <1>3, <1>9 DEF FirstHit, Says, SaidIn

LEMMA LeftOver ==
  ASSUME NEW s \in Seq(Lines), NEW n \in DOMAIN s, NEW l
  PROVE  /\ SubSeq(s, n + 1, Len(s)) \in Seq(Lines)
         /\ SaidIn(SubSeq(s, n + 1, Len(s)), l) => SaidIn(s, l)
<1>1. n \in Nat /\ Len(s) \in Nat /\ DOMAIN s = 1..Len(s)
  OBVIOUS
<1>2. SubSeq(s, n + 1, Len(s)) \in Seq(Lines)
  BY <1>1
<1>3. \A i \in DOMAIN SubSeq(s, n + 1, Len(s)) :
        /\ n + i \in DOMAIN s
        /\ SubSeq(s, n + 1, Len(s))[i] = s[n + i]
  BY <1>1
<1> QED
  BY <1>2, <1>3 DEF SaidIn

\* What was read is gone, and the rest stays.
LEMMA ConsumeOnly ==
  ASSUME console \in [Apps -> Seq(Lines)], NEW a \in Apps, NEW kinds, Hits(a, kinds) # {},
         Consume(a, kinds)
  PROVE  OnlySays(a, {})
<1> DEFINE n == Min(Hits(a, kinds))
           rest == SubSeq(console[a], n + 1, Len(console[a]))
<1>1. console[a] \in Seq(Lines) /\ n \in DOMAIN console[a]
  BY FirstIsThere
<1>2. console' = [console EXCEPT ![a] = rest]
  BY DEF Consume
<1> HIDE DEF n
<1>3. rest \in Seq(Lines) /\ \A l : SaidIn(rest, l) => SaidIn(console[a], l)
  BY <1>1, LeftOver
<1> HIDE DEF rest
<1>4. console' \in [Apps -> Seq(Lines)]
  BY <1>2, <1>3
<1>5. \A b \in Apps, l \in Lines : SaidIn(console'[b], l) => SaidIn(console[b], l)
  BY <1>2, <1>3
<1> QED
  BY <1>4, <1>5 DEF OnlySays

\* The line an application says stands for what ConsoleInv makes of it.
LEMMA Heard ==
  ASSUME ConsoleInv, NEW a \in Apps
  PROVE  /\ \A l \in {"matched", "incompatible", "deadline"} :
              Says(a, l) /\ OneTopic(a) => app_pc[a] = "run"
         /\ Says(a, "sample") => Running(a)
  BY DEF ConsoleInv

\* CodeInv needs to be looked at for the application the harness looked at.
LEMMA CodeKept ==
  ASSUME Types, CodeInv, UNCHANGED <<test, app_pc>>, NEW a \in Apps,
         \A b \in Apps \ {a} : step'[b] = step[b] /\ code'[b] = code[b],
         step'[a] = "samples" => a \in Publishers,
         OneTopic(a) /\ (step'[a] = "samples" \/ code'[a] \notin NotStarted \cup {"none"}) =>
           app_pc[a] = "run",
         (a \in Subscribers /\ code'[a] \notin NotStarted \cup
           {"none", "INCOMPATIBLE_QOS", "DEADLINE_MISSED"}) => Running(a)
  PROVE  CodeInv'
<1>1. Apps' = Apps /\ Publishers' = Publishers /\ Subscribers' = Subscribers
  BY DEF Apps, Publishers, Subscribers
<1>2. \A b \in Apps :
        /\ OneTopic(b)' <=> OneTopic(b)
        /\ Running(b)' <=> Running(b)
  BY <1>1 DEF OneTopic, Running
<1>3. \A b \in Apps :
        /\ step'[b] = "samples" => b \in Publishers
        /\ OneTopic(b) /\ (step'[b] = "samples" \/ code'[b] \notin NotStarted \cup {"none"}) =>
             app_pc[b] = "run"
        /\ (b \in Subscribers /\ code'[b] \notin NotStarted \cup
              {"none", "INCOMPATIBLE_QOS", "DEADLINE_MISSED"}) => Running(b)
  <2> HIDE DEF NotStarted, OneTopic, Running, Publishers, Subscribers, Apps
  <2> QED
    BY DEF CodeInv
<1> QED
  BY <1>1, <1>2, <1>3 DEF CodeInv

\* What one look of the harness at an application does.
Looked(a) ==
  /\ UNCHANGED <<test, app_pc, options, created, verdict>>
  /\ OnlySays(a, {})
  /\ step[a] # "done"
  /\ DOMAIN step' = Apps /\ DOMAIN code' = Apps
  /\ \A b \in Apps \ {a} : step'[b] = step[b] /\ code'[b] = code[b]
  /\ step'[a] = "samples" => a \in Publishers
  /\ OneTopic(a) /\ (step'[a] = "samples" \/ code'[a] \notin NotStarted \cup {"none"}) =>
       app_pc[a] = "run"
  /\ (a \in Subscribers /\ code'[a] \notin NotStarted \cup
        {"none", "INCOMPATIBLE_QOS", "DEADLINE_MISSED"}) => Running(a)

LEMMA LookedKeeps ==
  ASSUME StartInv, NEW a \in Apps, Looked(a)
  PROVE  StartInv'
<1> USE DEF StartInv, Looked
<1>1. Apps' = Apps /\ RunsOn
  BY DEF Apps, RunsOn
<1>2. Types'
  BY <1>1 DEF Types, OnlySays
<1>3. SetupInv'
  BY <1>1 DEF SetupInv, OneTopic
<1>4. ConsoleInv'
  BY <1>1, ConsoleKept
<1>5. CodeInv'
  BY CodeKept
<1>6. JudgedInv'
  BY DEF JudgedInv
<1> QED
  BY <1>2, <1>3, <1>4, <1>5, <1>6

LEMMA Finished ==
  ASSUME Types, CodeInv, NEW a \in Apps, NEW c, Finish(a, c), Harness, step[a] # "done",
         OnlySays(a, {}),
         OneTopic(a) /\ c \notin NotStarted \cup {"none"} => app_pc[a] = "run",
         (a \in Subscribers /\ c \notin NotStarted \cup
           {"none", "INCOMPATIBLE_QOS", "DEADLINE_MISSED"}) => Running(a)
  PROVE  Looked(a)
<1>1. /\ DOMAIN step' = Apps /\ DOMAIN code' = Apps
      /\ \A b \in Apps \ {a} : step'[b] = step[b] /\ code'[b] = code[b]
      /\ step'[a] = "done" /\ code'[a] = c
  BY DEF Types, Finish
<1>2. UNCHANGED <<test, app_pc, options, created, verdict>>
  BY DEF Harness
<1> QED
  BY <1>1, <1>2 DEF Looked

\* A code that only says that something is missing.
LEMMA FinishedMissing ==
  ASSUME Types, CodeInv, NEW a \in Apps, NEW c \in NotStarted, Finish(a, c), Harness,
         step[a] # "done", OnlySays(a, {})
  PROVE  Looked(a)
  BY Finished

LEMMA Advanced ==
  ASSUME Types, CodeInv, NEW a \in Apps, NEW s, Advance(a, s), Harness, step[a] # "done",
         OnlySays(a, {}),
         s = "samples" => a \in Publishers /\ (OneTopic(a) => app_pc[a] = "run")
  PROVE  Looked(a)
<1>1. /\ DOMAIN step' = Apps /\ DOMAIN code' = Apps
      /\ \A b \in Apps \ {a} : step'[b] = step[b] /\ code'[b] = code[b]
      /\ step'[a] = s /\ code'[a] = code[a]
  BY DEF Types, Advance
<1>2. UNCHANGED <<test, app_pc, options, created, verdict>>
  BY DEF Harness
<1>3. /\ OneTopic(a) /\ code[a] \notin NotStarted \cup {"none"} => app_pc[a] = "run"
      /\ (a \in Subscribers /\ code[a] \notin NotStarted \cup
            {"none", "INCOMPATIBLE_QOS", "DEADLINE_MISSED"}) => Running(a)
  BY DEF CodeInv
<1> QED
  BY <1>1, <1>2, <1>3 DEF Looked

LEMMA MissingCodes ==
  /\ \A a : Unsupported(a) \in NotStarted
  /\ {"TOPIC_NOT_CREATED", "WRITER_NOT_CREATED", "READER_NOT_CREATED", "DATA_NOT_CORRECT",
      "READER_NOT_MATCHED", "DATA_NOT_RECEIVED"} \subseteq NotStarted
  BY DEF Unsupported, NotStarted

LEMMA ExpectLooks ==
  ASSUME StartInv, NEW a \in Apps, Expect(a)
  PROVE  Looked(a)
<1> USE DEF StartInv
<1>1. console \in [Apps -> Seq(Lines)]
  BY DEF Types
<1>2. ASSUME UNCHANGED console PROVE OnlySays(a, {})
  BY <1>1, <1>2, Silence
<1>3. ASSUME NEW kinds, Hits(a, kinds) # {}, Consume(a, kinds)
      PROVE  /\ OnlySays(a, {}) /\ FirstHit(a, kinds) \in kinds
             /\ Says(a, FirstHit(a, kinds))
  BY <1>1, <1>3, ConsumeOnly, FirstIsThere
<1>4. CASE ExpectTopic(a)
  <2> DEFINE kinds == {"topic", "unsupported"}
  <2>1. step[a] = "topic" /\ Harness
    BY <1>4 DEF ExpectTopic
  <2>2. \/ /\ Hits(a, kinds) # {} /\ Consume(a, kinds)
           /\ Advance(a, "entity") \/ Finish(a, Unsupported(a))
        \/ Finish(a, "TOPIC_NOT_CREATED") /\ UNCHANGED console
    BY <1>4 DEF ExpectTopic
  <2> HIDE DEF kinds
  <2>3. OnlySays(a, {})
    BY <1>2, <1>3, <2>2
  <2>4. \/ Advance(a, "entity") \/ Finish(a, Unsupported(a))
        \/ Finish(a, "TOPIC_NOT_CREATED")
    BY <2>2
  <2>5. ASSUME Advance(a, "entity") PROVE Looked(a)
    BY <2>1, <2>3, <2>5, Advanced
  <2>6. ASSUME NEW c \in NotStarted, Finish(a, c) PROVE Looked(a)
    BY <2>1, <2>3, <2>6, FinishedMissing
  <2> QED
    BY <2>4, <2>5, <2>6, MissingCodes
<1>5. CASE ExpectEntity(a)
  <2> DEFINE kinds == {"entity", "unsupported"}
  <2>1. step[a] = "entity" /\ Harness
    BY <1>5 DEF ExpectEntity
  <2>2. \/ /\ Hits(a, kinds) # {} /\ Consume(a, kinds)
           /\ Advance(a, "data") \/ Finish(a, Unsupported(a))
        \/ /\ Finish(a, "WRITER_NOT_CREATED") \/ Finish(a, "READER_NOT_CREATED")
           /\ UNCHANGED console
    BY <1>5 DEF ExpectEntity
  <2> HIDE DEF kinds
  <2>3. OnlySays(a, {})
    BY <1>2, <1>3, <2>2
  <2>4. \/ Advance(a, "data") \/ Finish(a, Unsupported(a))
        \/ Finish(a, "WRITER_NOT_CREATED") \/ Finish(a, "READER_NOT_CREATED")
    BY <2>2
  <2>5. ASSUME Advance(a, "data") PROVE Looked(a)
    BY <2>1, <2>3, <2>5, Advanced
  <2>6. ASSUME NEW c \in NotStarted, Finish(a, c) PROVE Looked(a)
    BY <2>1, <2>3, <2>6, FinishedMissing
  <2> QED
    BY <2>4, <2>5, <2>6, MissingCodes
<1>6. CASE ExpectMatch(a)
  <2> DEFINE kinds == {"matched", "incompatible", "unsupported"}
             hit == FirstHit(a, kinds)
  <2>1. step[a] = "data" /\ a \in Publishers /\ Harness
    BY <1>6 DEF ExpectMatch
  <2>2. a \notin Subscribers
    BY <2>1 DEF Subscribers
  <2>3. CASE Hits(a, kinds) # {} /\ Consume(a, kinds)
    <3>1. OnlySays(a, {}) /\ hit \in kinds /\ Says(a, hit)
      BY <1>3, <2>3
    <3>2. hit \in {"matched", "incompatible"} /\ OneTopic(a) => app_pc[a] = "run"
      BY <3>1, Heard
    <3>3. \/ hit = "matched" /\ Advance(a, "samples")
          \/ hit = "matched" /\ Finish(a, "OK")
          \/ hit = "incompatible" /\ Finish(a, "INCOMPATIBLE_QOS")
          \/ Finish(a, Unsupported(a))
          \/ Finish(a, "READER_NOT_MATCHED")
      <4>1. \/ IF hit = "matched" /\ options[a].w THEN Advance(a, "samples")
               ELSE Finish(a, CASE hit = "incompatible" -> "INCOMPATIBLE_QOS"
                                [] hit = "unsupported" -> Unsupported(a)
                                [] OTHER -> "OK")
            \/ Finish(a, "READER_NOT_MATCHED")
        BY <1>6, <2>3 DEF ExpectMatch
      <4>2. hit \in {"matched", "incompatible", "unsupported"}
        BY <3>1
      <4> HIDE DEF hit, kinds
      <4> QED
        BY <4>1, <4>2
    <3> HIDE DEF hit, kinds
    <3>4. ASSUME hit = "matched", Advance(a, "samples") PROVE Looked(a)
      BY <2>1, <3>1, <3>2, <3>4, Advanced
    <3>5. ASSUME hit \in {"matched", "incompatible"}, NEW c, Finish(a, c) PROVE Looked(a)
      BY <2>1, <2>2, <3>1, <3>2, <3>5, Finished
    <3>6. ASSUME NEW c \in NotStarted, Finish(a, c) PROVE Looked(a)
      BY <2>1, <3>1, <3>6, FinishedMissing
    <3> QED
      BY <3>3, <3>4, <3>5, <3>6, MissingCodes
  <2>4. CASE ~(Hits(a, kinds) # {} /\ Consume(a, kinds))
    <3>1. Finish(a, "READER_NOT_MATCHED") /\ UNCHANGED console
      BY <1>6, <2>4 DEF ExpectMatch
    <3> QED
      BY <1>2, <2>1, <3>1, FinishedMissing, MissingCodes
  <2> QED
    BY <2>3, <2>4
<1>7. CASE ExpectSamples(a)
  <2>1. step[a] = "samples" /\ Harness /\ UNCHANGED console
    BY <1>7 DEF ExpectSamples
  <2>2. a \in Publishers /\ (OneTopic(a) => app_pc[a] = "run")
    BY <2>1 DEF CodeInv
  <2>3. a \notin Subscribers
    BY <2>2 DEF Subscribers
  <2>4. \E c : Finish(a, c)
    BY <1>7 DEF ExpectSamples
  <2> QED
    BY <1>2, <2>1, <2>2, <2>3, <2>4, Finished
<1>8. CASE ExpectData(a)
  <2> DEFINE kinds == {"sample", "index", "incompatible", "deadline", "unsupported"}
             hit == FirstHit(a, kinds)
  <2>1. step[a] = "data" /\ a \in Subscribers /\ Harness
    BY <1>8 DEF ExpectData
  <2>2. CASE Hits(a, kinds) # {} /\ Consume(a, kinds)
    <3>1. OnlySays(a, {}) /\ hit \in kinds /\ Says(a, hit)
      BY <1>3, <2>2
    <3>2. hit \in {"incompatible", "deadline"} /\ OneTopic(a) => app_pc[a] = "run"
      BY <3>1, Heard
    <3>3. hit = "sample" => Running(a)
      BY <3>1, Heard
    <3>4. \/ hit = "incompatible" /\ Finish(a, "INCOMPATIBLE_QOS")
          \/ hit = "deadline" /\ Finish(a, "DEADLINE_MISSED")
          \/ hit = "sample" /\ \E c : Finish(a, c)
          \/ Finish(a, Unsupported(a))
          \/ Finish(a, "DATA_NOT_RECEIVED")
      <4>1. \/ Finish(a, CASE hit = "incompatible" -> "INCOMPATIBLE_QOS"
                           [] hit = "deadline" -> "DEADLINE_MISSED"
                           [] hit = "unsupported" -> Unsupported(a)
                           [] OTHER -> BasicCheck(hit, a))
            \/ Finish(a, "DATA_NOT_RECEIVED")
        BY <1>8, <2>2 DEF ExpectData
      <4>2. hit \in {"sample", "index", "incompatible", "deadline", "unsupported"}
        BY <3>1
      <4>3. hit = "index" => BasicCheck(hit, a) = "DATA_NOT_RECEIVED"
        BY DEF BasicCheck
      <4> HIDE DEF hit, kinds
      <4> QED
        BY <4>1, <4>2, <4>3
    <3> HIDE DEF hit, kinds
    <3>5. ASSUME NEW c \in {"INCOMPATIBLE_QOS", "DEADLINE_MISSED"},
                 hit \in {"incompatible", "deadline"}, Finish(a, c)
          PROVE  Looked(a)
      BY <2>1, <3>1, <3>2, <3>5, Finished
    <3>6. ASSUME hit = "sample", NEW c, Finish(a, c) PROVE Looked(a)
      <4>1. Running(a) /\ app_pc[a] = "run"
        BY <3>3, <3>6 DEF Running
      <4> QED
        BY <2>1, <3>1, <3>6, <4>1, Finished
    <3>7. ASSUME NEW c \in NotStarted, Finish(a, c) PROVE Looked(a)
      BY <2>1, <3>1, <3>7, FinishedMissing
    <3> QED
      BY <3>4, <3>5, <3>6, <3>7, MissingCodes
  <2>3. CASE ~(Hits(a, kinds) # {} /\ Consume(a, kinds))
    <3>1. Finish(a, "DATA_NOT_RECEIVED") /\ UNCHANGED console
      BY <1>8, <2>3 DEF ExpectData
    <3> QED
      BY <1>2, <2>1, <3>1, FinishedMissing, MissingCodes
  <2> QED
    BY <2>2, <2>3
<1> QED
  BY <1>4, <1>5, <1>6, <1>7, <1>8 DEF Expect

----------------------------------------------------------------------------
(* The theorem. *)

LEMMA InitStart == Init => StartInv
<1> SUFFICES ASSUME Init PROVE StartInv
  OBVIOUS
<1>1. Types
  <2>1. << >> \in Seq(Lines)
    OBVIOUS
  <2> QED
    BY <2>1 DEF Init, Types, Listed
<1>2. \A a \in Apps, l \in Lines : ~Says(a, l)
  BY DEF Init, Says, SaidIn
<1>3. SetupInv /\ JudgedInv
  BY DEF Init, SetupInv, JudgedInv
<1>4. ConsoleInv
  BY <1>2 DEF ConsoleInv, Lines
<1>5. CodeInv
  BY DEF Init, CodeInv
<1> QED
  BY <1>1, <1>3, <1>4, <1>5 DEF StartInv

LEMMA NextStart == StartInv /\ [Next]_vars => StartInv'
<1> SUFFICES ASSUME StartInv, [Next]_vars PROVE StartInv'
  OBVIOUS
<1> USE DEF StartInv
<1>1. CASE Application
  <2>1. PICK a \in Apps : Setup(a) /\ UNCHANGED <<found, harnessVars>>
    BY <1>1 DEF Application
  <2>2. UNCHANGED harnessVars
    BY <2>1
  <2>3. test' = test /\ Types' /\ SetupInv' /\ RunsOn
    BY <2>1, <2>2, SetupStep
  <2>4. OnlySays(a, SetupLines)
    BY <2>1, SetupPrints DEF Types
  <2>5. ConsoleInv'
    <3>1. \A l \in {"matched", "incompatible", "deadline", "sample"} : l \notin SetupLines
      BY DEF SetupLines
    <3> QED
      BY <2>3, <2>4, <3>1, ConsoleKept
  <2> QED
    BY <2>2, <2>3, <2>5, HarnessRests
<1>2. CASE Middleware
  BY <1>2, MiddlewareStep
<1>3. CASE Judge
  <2>1. /\ UNCHANGED <<setupVars, found, step, code>>
        /\ \A a \in Apps : step[a] = "done"
        /\ verdict' = "OK" => code = test.expected_codes
    BY <1>3 DEF Judge
  <2>2. Apps' = Apps /\ Publishers' = Publishers /\ Subscribers' = Subscribers
    BY <2>1 DEF Apps, Publishers, Subscribers, setupVars
  <2>3. Types' /\ SetupInv'
    BY <2>1, <2>2 DEF Types, SetupInv, OneTopic, setupVars
  <2>4. ConsoleInv' /\ CodeInv'
    BY <2>1, <2>2 DEF ConsoleInv, CodeInv, OneTopic, Running, Says, setupVars
  <2>5. JudgedInv'
    BY <2>1, <2>2 DEF JudgedInv, setupVars
  <2> QED
    BY <2>3, <2>4, <2>5
<1>4. ASSUME NEW a \in Apps, Expect(a) PROVE StartInv'
  BY <1>4, ExpectLooks, LookedKeeps
<1>5. CASE UNCHANGED vars
  BY <1>5 DEF vars, setupVars, harnessVars, Types, SetupInv, ConsoleInv, CodeInv, JudgedInv,
              Apps, Publishers, Subscribers, OneTopic, Running, Says
<1> QED
  BY <1>1, <1>2, <1>3, <1>4, <1>5 DEF Next

LEMMA StartedIfPassed == StartInv => PassMeansStarted
<1> SUFFICES ASSUME StartInv, verdict = "OK", NEW a \in Apps
             PROVE  \/ app_pc[a] = "run"
                    \/ test.expected_codes[a] \in {"READER_NOT_MATCHED", "DATA_NOT_RECEIVED"}
  BY DEF PassMeansStarted
<1>1. code = test.expected_codes /\ Listed(test)
  BY DEF StartInv, JudgedInv, Types
<1>2. /\ code[a] # "none"
      /\ code[a] \in NotStarted => code[a] \in {"READER_NOT_MATCHED", "DATA_NOT_RECEIVED"}
  BY <1>1, TableRows DEF Apps
<1>3. CASE OneTopic(a)
  BY <1>1, <1>2, <1>3 DEF StartInv, CodeInv
<1>4. CASE ~OneTopic(a)
  <2>1. /\ Apps = {1, 2} /\ test.apps[1].role = "P" /\ test.apps[2].role = "S"
        /\ code[2] = "OK"
    BY <1>1, <1>4, TableRows DEF Apps, OneTopic
  <2>2. Publishers = {1} /\ 2 \in Subscribers
    BY <2>1 DEF Publishers, Subscribers
  <2>3. "OK" \notin NotStarted \cup {"none", "INCOMPATIBLE_QOS", "DEADLINE_MISSED"}
    BY DEF NotStarted
  <2>4. Running(2)
    BY <2>1, <2>2, <2>3 DEF StartInv, CodeInv
  <2> QED
    BY <2>1, <2>2, <2>4 DEF Running
<1> QED
  BY <1>3, <1>4

\* A test case passes only if every application that is to communicate, or to
\* find its peer incompatible, created all its entities (run_test,
\* run_publisher_shape_main, run_subscriber_shape_main and the setup of
\* shape_main), whatever builds meet and however many create_... calls fail.
THEOREM PassesStarted == Spec => []PassMeansStarted
<1>1. Init => StartInv
  BY InitStart
<1>2. StartInv /\ [Next]_vars => StartInv'
  BY NextStart
<1>3. StartInv => PassMeansStarted
  BY StartedIfPassed
<1> QED
  BY <1>1, <1>2, <1>3, PTL DEF Spec

=============================================================================
