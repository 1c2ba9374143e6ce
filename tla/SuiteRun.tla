------------------------------ MODULE SuiteRun ------------------------------
(***************************************************************************)
(* A test case of the suite from end to end: the command lines of          *)
(* TestSuite, the applications of ShapeSetup, a DDS middleware that        *)
(* conforms to the standard, the patterns of interoperability_report.py    *)
(* and the verdict.                                                        *)
(*                                                                         *)
(* The middleware is external: two entities find each other in their own   *)
(* time, match if domain, topic and partition agree and the offered QoS is *)
(* as good as the requested one, and then deliver.  That no application is *)
(* stopped before everybody has a code is NoEarlyStop of InteropHarness.   *)
(* What a check function makes of the stream of a conforming middleware is *)
(* the subject of StreamTest, FinalStateTest and CheckFunctions; here it   *)
(* has seen enough samples to judge.                                       *)
(***************************************************************************)
EXTENDS ShapeSetup, FiniteSetsExt

CONSTANT DataRepr     \* -x of interoperability_report.py

ASSUME SuiteAssumption == DataRepr \in {1, 2}

\* ReturnCode: what an application that did not start may get.  Only the first
\* two are ever expected.
NotStarted ==
  {"READER_NOT_MATCHED", "DATA_NOT_RECEIVED", "TOPIC_NOT_CREATED", "WRITER_NOT_CREATED",
   "READER_NOT_CREATED", "DATA_NOT_CORRECT", "PUB_UNSUPPORTED_FEATURE",
   "SUB_UNSUPPORTED_FEATURE"}

\* What all rows of the table have in common.  Several topics are for one
\* publisher and one subscriber that are to communicate.
ASSUME TableAssumption ==
  \A i \in DOMAIN rtps_test_suite_1 :
    LET case == rtps_test_suite_1[i] IN
    /\ {"apps", "expected_codes"} \subseteq DOMAIN case
    /\ DOMAIN case.expected_codes = DOMAIN case.apps
    /\ \A a \in DOMAIN case.apps :
         /\ "role" \in DOMAIN case.apps[a]
         /\ case.expected_codes[a] # "none"
         /\ case.expected_codes[a] \in NotStarted =>
              case.expected_codes[a] \in {"READER_NOT_MATCHED", "DATA_NOT_RECEIVED"}
    /\ (\E a \in DOMAIN case.apps : "num_topics" \in DOMAIN case.apps[a]) =>
         /\ DOMAIN case.apps = {1, 2} /\ case.apps[1].role = "P" /\ case.apps[2].role = "S"
         /\ case.expected_codes[2] = "OK"

VARIABLES
  found,      \* <<a, b, i>>: a's entity of topic i has found that of b
  step,       \* what the harness waits for: "topic", "entity", "data", "samples" or "done"
  code,       \* return_codes
  verdict     \* "none" until the test case is judged

harnessVars == <<step, code, verdict>>
vars == <<setupVars, found, harnessVars>>

\* main(): -x is added to the command lines that do not have it.
WithRepresentation(case) ==
  [case EXCEPT !.apps = [a \in DOMAIN case.apps |->
                           LET flags == case.apps[a] IN
                           [f \in DOMAIN flags \cup {"x"} |->
                              IF f \in DOMAIN flags THEN flags[f] ELSE DataRepr]]]

\* All publishers run one executable, all subscribers another.
Init ==
  /\ \E i \in DOMAIN rtps_test_suite_1 : test = WithRepresentation(rtps_test_suite_1[i])
  /\ \E pub, sub \in Vendors :
       vendor = [a \in Apps |-> IF a \in Publishers THEN pub ELSE sub]
  /\ options = [a \in Apps |-> DefaultOptions]
  /\ app_pc = [a \in Apps |-> "parse"]
  /\ created = [a \in Apps |-> 0]
  /\ console = [a \in Apps |-> <<>>]
  /\ failed = {}
  /\ found = {}
  /\ step = [a \in Apps |-> "topic"]
  /\ code = [a \in Apps |-> "none"]
  /\ verdict = "none"

----------------------------------------------------------------------------
(* The middleware. *)

\* PARTITION: equal names, or a name and a pattern it matches.
PartitionsMatch(p, q) == p = q \/ <<p, q>> \in {<<"p1", "p*">>, <<"p2", "p*">>}

\* Entities of the two may find each other: those of equal topics (Square,
\* Square1, Square2).
Meet(pub, sub) ==
  /\ options[pub].d = options[sub].d
  /\ options[pub].t = options[sub].t
  /\ PartitionsMatch(options[pub].p, options[sub].p)

\* Offered against requested QoS.
Compatible(offered, requested) ==
  /\ requested.reliable => offered.reliable
  /\ offered.durability >= requested.durability
  /\ offered.representation = requested.representation
  /\ offered.exclusive = requested.exclusive
  /\ offered.deadline <= requested.deadline
  /\ offered.presentation.scope >= requested.presentation.scope
  /\ requested.presentation.coherent => offered.presentation.coherent
  /\ requested.presentation.ordered => offered.presentation.ordered

AreCompatible(pub, sub) == Compatible(Qos(options[pub]), Qos(options[sub]))

\* Both entities of topic i exist and have not been found.
MayFind(a, b, i) ==
  /\ i \in Entities(a) \cap Entities(b)
  /\ <<a, b, i>> \notin found
  /\ found' = found \cup {<<a, b, i>>}
  /\ UNCHANGED <<test, vendor, options, app_pc, created, failed, harnessVars>>

\* DPListener: on_publication_matched or on_offered_incompatible_qos.
FindReader(pub, sub, i) ==
  /\ Meet(pub, sub) /\ MayFind(pub, sub, i)
  /\ Prints(pub, IF AreCompatible(pub, sub) THEN <<"matched">> ELSE <<"incompatible">>)

\* DPListener: on_requested_incompatible_qos; a match prints nothing the harness
\* looks for.
FindWriter(pub, sub, i) ==
  /\ Meet(pub, sub) /\ MayFind(sub, pub, i)
  /\ Prints(sub, IF AreCompatible(pub, sub) THEN <<>> ELSE <<"incompatible">>)

Matched(pub, sub, i) == {<<pub, sub, i>>, <<sub, pub, i>>} \subseteq found /\ AreCompatible(pub, sub)

\* The content filter of a subscriber: by color, or by an expression that lets
\* some samples of every color through.
PassesFilter(pub, sub) == options[sub].c \in {NULL, options[pub].c}

\* The publishers whose samples reach the readers of a subscriber.
Reaching(sub) ==
  {pub \in Publishers :
     /\ PassesFilter(pub, sub)
     /\ \E i \in Entities(sub) : Matched(pub, sub, i)}

\* OWNERSHIP: of the writers of an instance (a color) only the strongest one is
\* received if it is EXCLUSIVE.
Sources(sub) ==
  {pub \in Reaching(sub) :
     options[sub].s # Shared =>
       \A other \in Reaching(sub) :
         options[other].c = options[pub].c => options[other].s <= options[pub].s}

\* run_subscriber() prints its first sample.
Deliver(sub) ==
  /\ sub \in Subscribers /\ app_pc[sub] = "run" /\ step[sub] # "done"
  /\ "sample" \notin Range(console[sub])
  /\ \E pub \in Sources(sub) : app_pc[pub] = "run"
  /\ Prints(sub, <<"sample">>)
  /\ UNCHANGED <<test, vendor, options, app_pc, created, failed, found, harnessVars>>

\* The publisher writes less often than the deadline wants.
Late(pub, deadline) == deadline > 0 /\ options[pub].write_period > deadline

\* DPListener: on_requested_deadline_missed, for the first time.
MissDeadline(sub) ==
  /\ sub \in Subscribers /\ Entities(sub) # {} /\ step[sub] # "done"
  /\ "deadline" \notin Range(console[sub])
  /\ \E pub \in Reaching(sub) : Late(pub, options[sub].f)
  /\ Prints(sub, <<"deadline">>)
  /\ UNCHANGED <<test, vendor, options, app_pc, created, failed, found, harnessVars>>

Finds ==
  \E pub \in Publishers, sub \in Subscribers : \E i \in Entities(pub) \cap Entities(sub) :
    FindReader(pub, sub, i) \/ FindWriter(pub, sub, i)

\* Nothing happens any more that the harness could wait for.
Quiet ==
  /\ \A a \in Apps : app_pc[a] \in {"run", "gone"}
  /\ \A pub \in Publishers, sub \in Subscribers :
       Meet(pub, sub) => \A i \in Entities(pub) \cap Entities(sub) :
                           {<<pub, sub, i>>, <<sub, pub, i>>} \subseteq found

----------------------------------------------------------------------------
(* run_publisher_shape_main and run_subscriber_shape_main. *)

\* pexpect: the first line that a pattern matches, and what is left behind it.
Hits(a, kinds) == {i \in DOMAIN console[a] : console[a][i] \in kinds}
FirstHit(a, kinds) == console[a][Min(Hits(a, kinds))]
Consume(a, kinds) ==
  console' = [console EXCEPT ![a] = SubSeq(@, Min(Hits(a, kinds)) + 1, Len(@))]

\* Neither a line nor anything that could still print one: TIMEOUT or EOF.
Silent(a, kinds) == Hits(a, kinds) = {} /\ (app_pc[a] = "gone" \/ Quiet)

Finish(a, c) ==
  /\ code' = [code EXCEPT ![a] = c]
  /\ step' = [step EXCEPT ![a] = "done"]
Advance(a, s) == step' = [step EXCEPT ![a] = s] /\ UNCHANGED code

Unsupported(a) == IF a \in Publishers THEN "PUB_UNSUPPORTED_FEATURE" ELSE "SUB_UNSUPPORTED_FEATURE"

Harness == UNCHANGED <<test, vendor, options, app_pc, created, failed, found, verdict>>

\* Step 2 of both: is the topic created?
ExpectTopic(a) ==
  LET kinds == {"topic", "unsupported"} IN
  /\ step[a] = "topic"
  /\ \/ /\ Hits(a, kinds) # {} /\ Consume(a, kinds)
        /\ IF FirstHit(a, kinds) = "topic" THEN Advance(a, "entity")
           ELSE Finish(a, Unsupported(a))
     \/ Silent(a, kinds) /\ Finish(a, "TOPIC_NOT_CREATED") /\ UNCHANGED console
  /\ Harness

\* Mutant: neither TIMEOUT nor EOF is among the patterns.
ExpectEntity_WaitsForever(a) ==
  LET kinds == {"entity", "unsupported"} IN
  /\ step[a] = "entity"
  /\ Hits(a, kinds) # {} /\ Consume(a, kinds)
  /\ IF FirstHit(a, kinds) = "entity" THEN Advance(a, "data") ELSE Finish(a, Unsupported(a))
  /\ Harness

\* Step 3 of both: is the writer or reader created?
ExpectEntity(a) ==
  LET kinds == {"entity", "unsupported"}
      missing == IF a \in Publishers THEN "WRITER_NOT_CREATED" ELSE "READER_NOT_CREATED" IN
  /\ step[a] = "entity"
  /\ \/ /\ Hits(a, kinds) # {} /\ Consume(a, kinds)
        /\ IF FirstHit(a, kinds) = "entity" THEN Advance(a, "data")
           ELSE Finish(a, Unsupported(a))
     \/ Silent(a, kinds) /\ Finish(a, missing) /\ UNCHANGED console
  /\ Harness

\* Step 4 of a publisher: is there a matching reader?
ExpectMatch(a) ==
  LET kinds == {"matched", "incompatible", "unsupported"} IN
  /\ step[a] = "data" /\ a \in Publishers
  /\ \/ /\ Hits(a, kinds) # {} /\ Consume(a, kinds)
        /\ IF FirstHit(a, kinds) = "matched" /\ options[a].w THEN Advance(a, "samples")
           ELSE Finish(a, CASE FirstHit(a, kinds) = "incompatible" -> "INCOMPATIBLE_QOS"
                            [] FirstHit(a, kinds) = "unsupported" -> Unsupported(a)
                            [] OTHER -> "OK")
     \/ Silent(a, kinds) /\ Finish(a, "READER_NOT_MATCHED") /\ UNCHANGED console
  /\ Harness

\* Step 5 of a publisher with -w: it follows the samples written, among them
\* on_offered_deadline_missed if the deadline is too short.  The "[0]" of a
\* writer that could not be created is no sample.
ExpectSamples(a) ==
  /\ step[a] = "samples" /\ app_pc[a] \in {"run", "gone"}
  /\ Finish(a, IF Hits(a, {"index"}) # {} THEN "DATA_NOT_CORRECT"
               ELSE IF Late(a, options[a].f) THEN "DEADLINE_MISSED"
               ELSE "OK")
  /\ UNCHANGED console
  /\ Harness

OneOrBoth(values) ==
  IF Cardinality(values) > 1 THEN "RECEIVING_FROM_BOTH" ELSE "RECEIVING_FROM_ONE"

\* The check functions on the stream of a conforming middleware.
CheckFunction(sub) ==
  CASE test.check_function = "test_size_receivers" ->
         OneOrBoth({options[pub].z : pub \in Sources(sub)})
    [] test.check_function = "test_color_receivers" ->
         OneOrBoth({options[pub].c : pub \in Sources(sub)})
    [] test.check_function = "test_deadline_missed" ->
         IF \E pub \in Reaching(sub) : Late(pub, options[sub].f) THEN "DEADLINE_MISSED"
         ELSE "DATA_NOT_RECEIVED"
    [] test.check_function = "ordered_access_w_instances" ->
         IF Presentation(options[sub]).scope = 0 THEN "ORDERED_ACCESS_INSTANCE"
         ELSE "ORDERED_ACCESS_TOPIC"
    [] OTHER -> "OK"

\* Mutant: basic_check takes every "[0]" for a sample.
BasicCheck_Any(line, sub) == CheckFunction(sub)

\* basic_check, the start of every check function: a "[0]" that is no sample.
BasicCheck(line, sub) == IF line = "index" THEN "DATA_NOT_RECEIVED" ELSE CheckFunction(sub)

\* No line of the middleware is on its way.
NothingToCome(a) == ~ENABLED Deliver(a) /\ ~ENABLED MissDeadline(a)

\* Steps 4 and 5 of a subscriber.
ExpectData(a) ==
  LET kinds == {"sample", "index", "incompatible", "deadline", "unsupported"} IN
  /\ step[a] = "data" /\ a \in Subscribers
  /\ \/ /\ Hits(a, kinds) # {} /\ Consume(a, kinds)
        /\ FirstHit(a, kinds) = "sample" => Quiet
        /\ Finish(a, CASE FirstHit(a, kinds) = "incompatible" -> "INCOMPATIBLE_QOS"
                       [] FirstHit(a, kinds) = "deadline" -> "DEADLINE_MISSED"
                       [] FirstHit(a, kinds) = "unsupported" -> Unsupported(a)
                       [] OTHER -> BasicCheck(FirstHit(a, kinds), a))
     \/ /\ Silent(a, kinds)
        /\ NothingToCome(a)
        /\ Finish(a, "DATA_NOT_RECEIVED") /\ UNCHANGED console
  /\ Harness

\* run_test: passed, skipped or failed.
Judge ==
  /\ verdict = "none"
  /\ \A a \in Apps : step[a] = "done"
  /\ verdict' = IF code = test.expected_codes THEN "OK"
                ELSE IF \E a \in Apps : code[a] = Unsupported(a) THEN "UNSUPPORTED"
                ELSE "FAILED"
  /\ UNCHANGED <<setupVars, found, step, code>>

Application == \E a \in Apps : Setup(a) /\ UNCHANGED <<found, harnessVars>>

Middleware == Finds \/ \E a \in Apps : Deliver(a) \/ MissDeadline(a)

Expect(a) ==
  ExpectTopic(a) \/ ExpectEntity(a) \/ ExpectMatch(a) \/ ExpectSamples(a) \/ ExpectData(a)

Next == Application \/ Middleware \/ Judge \/ \E a \in Apps : Expect(a)

Spec == Init /\ [][Next]_vars

----------------------------------------------------------------------------
(* Properties *)

\* Connext Micro: the subscriber's -c was dropped.
FilterDropped == \E a \in Subscribers : "c" \in DOMAIN test.apps[a] /\ options[a].c = NULL

\* The table, the options, the QoS, the listeners and the patterns agree: no
\* pair of conforming implementations fails a test case, in whatever order
\* they start, find each other and print.  The only exception is a subscriber
\* of RTI Connext Micro with -c, whose filter is dropped without a word.
ConformingPairPasses == verdict = "FAILED" => failed # {} \/ FilterDropped

\* A test case passes only if every application that is to communicate, or to
\* find its peer incompatible, created all its entities.
PassMeansStarted ==
  verdict = "OK" => \A a \in Apps :
    app_pc[a] = "run" \/ test.expected_codes[a] \in {"READER_NOT_MATCHED", "DATA_NOT_RECEIVED"}

\* Nobody waits for ever: until the test case is judged there is a next step,
\* whatever the applications refuse or fail to create.  No step is taken twice,
\* so every test case is judged.
NeverStuck == verdict = "none" => ENABLED Next

\* A passed test case means that every application created its entities
\* (ReturnCode: WRITER_NOT_CREATED "Publisher does not create the Data Writer").
PassMeansCreated == verdict = "OK" => \A a \in Apps : app_pc[a] = "run"

=============================================================================
