----------------------------- MODULE ShapeSetup -----------------------------
(***************************************************************************)
(* shape_main.cxx from its command line to its entities: the options, what *)
(* each vendor's build refuses, the topics, the writers or readers and     *)
(* their QoS, and the lines it prints on the way.                          *)
(*                                                                         *)
(* Only the lines a pattern of interoperability_report.py can match are    *)
(* kept.  "index" is the line of a failed create_datawriter or             *)
(* create_datareader: "Failed to create datareader[0] ..." contains what   *)
(* the harness takes for the size of a sample.                             *)
(*                                                                         *)
(* Left out is --datafrag-size, which no test case of the suite gives and  *)
(* which only sets the transport of the participant.                       *)
(***************************************************************************)
EXTENDS TestSuite, FiniteSets

CONSTANTS
  Vendors,     \* the builds of shape_main.cxx that are tested
  MaxFailures  \* how many create_... calls of a middleware may return NULL

ASSUME ShapeSetupAssumption ==
  /\ Vendors \subseteq {"connext", "micro", "coredx", "intercom", "opendds", "fastdds"}
  /\ MaxFailures \in Nat

VARIABLES
  test,        \* the test case that runs
  vendor,      \* the build of each application
  options,     \* its ShapeOptions
  app_pc,      \* "parse", "topics", "init", "entities", "run" or "gone"
  created,     \* the topics, then the writers or readers created so far
  failed,      \* the applications one of whose create_... calls returned NULL
  console      \* the lines printed and not yet read

setupVars == <<test, vendor, options, app_pc, created, failed, console>>

Apps == DOMAIN test.apps
Publishers == {a \in Apps : test.apps[a].role = "P"}
Subscribers == Apps \ Publishers

NULL == "NULL"

\* ShapeOptions(): the defaults.
DefaultOptions ==
  [role |-> NULL, t |-> NULL, d |-> 0, rel |-> "r", D |-> "v", x |-> 1, s |-> Shared,
   access_scope |-> NULL, c |-> NULL, p |-> NULL, time_filter |-> 0, f |-> 0, lifespan |-> 0,
   z |-> 20, w |-> FALSE, write_period |-> 33, num_topics |-> 1, coherent |-> FALSE,
   ordered |-> FALSE, cft |-> NULL]

\* parse(): a flag replaces the default.
Parse(flags) ==
  [f \in DOMAIN DefaultOptions |->
     IF f \in DOMAIN flags THEN flags[f] ELSE DefaultOptions[f]]

\* validate(): the command lines that are refused.  RTI Connext Micro refuses
\* --cft, with a line that says so.
Refused(v, o) ==
  \/ o.role = "S" /\ o.c # NULL /\ o.cft # NULL
  \/ v = "micro" /\ o.role = "S" /\ o.cft # NULL

\* validate(): publishers get a color; Connext Micro drops a subscriber's.
Validated(v, o) ==
  IF o.role = "P" /\ o.c = NULL THEN [o EXCEPT !.c = "BLUE"]
  ELSE IF v = "micro" /\ o.role = "S" THEN [o EXCEPT !.c = NULL]
  ELSE o

\* The builds that set the PRESENTATION policy.
Presents(v) == v \in {"connext", "coredx", "intercom"}

\* coherent_set_access_scope, INSTANCE if --access-scope was not given.
ScopeRank(o) == CASE o.access_scope = "g" -> 2 [] o.access_scope = "t" -> 1 [] OTHER -> 0

\* Without the PRESENTATION policy only its default is accepted.
PresentationWanted(o) == o.ordered \/ o.coherent \/ ScopeRank(o) # 0

\* InterCOM: no GROUP scope, and no coherent access but for INSTANCE.
IntercomRefuses(o) == ScopeRank(o) = 2 \/ (o.coherent /\ ScopeRank(o) >= 1)

\* Connext Micro stores nothing beyond TRANSIENT_LOCAL and has no LIFESPAN...
MicroPublisherRefuses(o) == o.lifespan > 0 \/ o.D \in {"t", "p"}

\* ... and neither TIME_BASED_FILTER nor content filters.
MicroSubscriberRefuses(o) == o.time_filter > 0 \/ o.D \in {"t", "p"} \/ o.cft # NULL

\* Fast DDS has no TIME_BASED_FILTER.
FastDDSSubscriberRefuses(o) == o.time_filter > 0

\* vendor_check_publisher_options() and the tests of the policies in
\* init_publisher().
PublisherRefuses(v, o) ==
  \/ ~Presents(v) /\ PresentationWanted(o)
  \/ v = "intercom" /\ IntercomRefuses(o)
  \/ v = "micro" /\ MicroPublisherRefuses(o)

\* vendor_check_subscriber_options() and the tests in init_subscriber().
SubscriberRefuses(v, o) ==
  \/ ~Presents(v) /\ PresentationWanted(o)
  \/ v = "intercom" /\ IntercomRefuses(o)
  \/ v = "micro" /\ MicroSubscriberRefuses(o)
  \/ v = "fastdds" /\ FastDDSSubscriberRefuses(o)

\* pub_qos.presentation and sub_qos.presentation: the scope counts only with
\* --ordered or --coherent.
Presentation(o) ==
  [coherent |-> o.coherent, ordered |-> o.ordered,
   scope |-> IF o.ordered \/ o.coherent THEN ScopeRank(o) ELSE 0]

Infinite == 1000000     \* the default of DEADLINE, above every interval of the suite

\* Mutant: the letters of TRANSIENT and PERSISTENT are swapped.
DurabilityRank_Swapped(o) ==
  CASE o.D = "v" -> 0 [] o.D = "l" -> 1 [] o.D = "p" -> 2 [] o.D = "t" -> 3

\* -D: VOLATILE, TRANSIENT_LOCAL, TRANSIENT, PERSISTENT.
DurabilityRank(o) ==
  CASE o.D = "v" -> 0 [] o.D = "l" -> 1 [] o.D = "t" -> 2 [] o.D = "p" -> 3

\* The policies both sides offer or request.
Qos(o) ==
  [reliable |-> o.rel = "r",
   durability |-> DurabilityRank(o),
   representation |-> o.x,
   exclusive |-> o.s # Shared,
   deadline |-> IF o.f > 0 THEN o.f ELSE Infinite,
   presentation |-> Presentation(o)]

----------------------------------------------------------------------------
(* The steps of main() up to run(). *)

Prints(a, lines) == console' = [console EXCEPT ![a] = @ \o lines]
Ends(a) == app_pc' = [app_pc EXCEPT ![a] = "gone"] /\ UNCHANGED created

\* A call of the middleware succeeds, or returns NULL as long as it may.
Returns(a, ok) ==
  /\ ok \/ Cardinality(failed) < MaxFailures
  /\ failed' = IF ok THEN failed ELSE failed \cup {a}

\* ShapeOptions::parse.
ParseOptions(a) ==
  LET o == Parse(test.apps[a]) IN
  /\ app_pc[a] = "parse"
  /\ options' = [options EXCEPT ![a] = Validated(vendor[a], o)]
  /\ IF Refused(vendor[a], o)
     THEN Ends(a) /\ Prints(a, IF vendor[a] = "micro" /\ o.c = NULL THEN <<"unsupported">> ELSE <<>>)
     ELSE app_pc' = [app_pc EXCEPT ![a] = "topics"] /\ UNCHANGED <<created, console>>
  /\ UNCHANGED <<test, vendor, failed>>

\* initialize() before the topics: the factory or the participant is missing.
NoParticipant(a) ==
  /\ app_pc[a] = "topics" /\ created[a] = 0
  /\ Returns(a, FALSE) /\ Ends(a)
  /\ UNCHANGED <<test, vendor, options, console>>

\* initialize(): the line comes before the call of create_topic.
CreateTopic(a, ok) ==
  LET n == created[a] + 1
      all == n = options[a].num_topics IN
  /\ app_pc[a] = "topics" /\ Returns(a, ok)
  /\ Prints(a, <<"topic">>)
  /\ IF ok
     THEN /\ created' = [created EXCEPT ![a] = IF all THEN 0 ELSE n]
          /\ app_pc' = [app_pc EXCEPT ![a] = IF all THEN "init" ELSE "topics"]
     ELSE Ends(a)
  /\ UNCHANGED <<test, vendor, options>>

\* The first half of init_publisher() or init_subscriber(): what the vendor
\* does not support, the QoS and the Publisher or Subscriber.
InitParent(a, ok) ==
  LET refuses == IF a \in Publishers THEN PublisherRefuses(vendor[a], options[a])
                 ELSE SubscriberRefuses(vendor[a], options[a]) IN
  /\ app_pc[a] = "init" /\ (refuses => ok) /\ Returns(a, ok)
  /\ IF refuses THEN Ends(a) /\ Prints(a, <<"unsupported">>)
     ELSE IF ~ok THEN Ends(a) /\ UNCHANGED console
     ELSE app_pc' = [app_pc EXCEPT ![a] = "entities"] /\ UNCHANGED <<created, console>>
  /\ UNCHANGED <<test, vendor, options>>

\* init_publisher() and init_subscriber(): the line "Create writer for topic"
\* or "Create reader for topic" comes before the call that creates it.
CreateEntity(a, ok) ==
  LET n == created[a] + 1 IN
  /\ app_pc[a] = "entities" /\ Returns(a, ok)
  /\ IF ok
     THEN /\ Prints(a, <<"entity">>)
          /\ created' = [created EXCEPT ![a] = n]
          /\ app_pc' = [app_pc EXCEPT ![a] =
                          IF n = options[a].num_topics THEN "run" ELSE "entities"]
     ELSE Ends(a) /\ Prints(a, <<"entity", "index">>)
  /\ UNCHANGED <<test, vendor, options>>

\* init_subscriber(): create_contentfilteredtopic returns NULL.  The line
\* "Failed to create content filtered topic" matches no pattern.
NoFilter(a) ==
  /\ app_pc[a] = "entities" /\ a \in Subscribers /\ Returns(a, FALSE)
  /\ options[a].cft # NULL \/ options[a].c # NULL
  /\ Ends(a)
  /\ UNCHANGED <<test, vendor, options, console>>

Setup(a) ==
  \/ ParseOptions(a) \/ NoParticipant(a) \/ NoFilter(a)
  \/ \E ok \in BOOLEAN :
       CreateTopic(a, ok) \/ InitParent(a, ok) \/ CreateEntity(a, ok)

\* The writers or readers an application has: one per topic created so far.
Entities(a) == IF app_pc[a] \in {"entities", "run"} THEN 1..created[a] ELSE {}

=============================================================================
