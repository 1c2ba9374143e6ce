---------------------------- MODULE ConsoleTests ---------------------------
(***************************************************************************)
(* The check functions that follow the instances of a shape, on the lines  *)
(* of a console:                                                           *)
(*   console  InstanceChecks, whatever lines the subscriber prints;        *)
(*   stream   StreamTest, the Reliability test cases from end to end;      *)
(*   final    FinalStateTest, the FinalInstanceState test cases from end   *)
(*            to end.                                                      *)
(* One of them runs; console and stream share the variables of the check   *)
(* function, stream and final those of the two applications.               *)
(***************************************************************************)
EXTENDS InstanceChecks, Integers, FiniteSets

CONSTANTS
  StreamIterations,   \* bound: iterations of the publisher in mode stream
  FinalInstances,     \* --num-instances in mode final
  FinalIterations,    \* --num-iterations in mode final
  FinalSamplesRead    \* MAX_SAMPLES_READ in mode final

VARIABLES
  which,
  options, pub_pc, j, n, shapesize, all_done, matched, cache, instance_state, sub_pc,
  previous_handle, console,
  final_line, final_first, instance_color, gone_color, final_count, final_result

appVars == <<options, pub_pc, j, n, shapesize, all_done, matched, cache, instance_state,
             sub_pc, previous_handle, console>>
finalVars == <<final_line, final_first, instance_color, gone_color, final_count, final_result>>
allVars == <<which, vars, appVars, finalVars>>

Stream == INSTANCE StreamTest WITH
  NumInstances <- Cardinality(Colors), NumIterations <- 0, ShapeSize <- 0,
  FinalStates <- {"none"}, HistoryDepths <- {0, 1}, Reliabilities <- BOOLEAN,
  TakeModes <- {TRUE}, MaxIterations <- StreamIterations

Final == INSTANCE FinalStateTest WITH
  NumInstances <- FinalInstances, NumIterations <- FinalIterations, ShapeSize <- 20,
  FinalStates <- {"none", "u", "d"}, HistoryDepths <- {1, 2}, Reliabilities <- {TRUE},
  TakeModes <- BOOLEAN, MaxIterations <- FinalIterations, MaxSamplesRead <- FinalSamplesRead,
  line <- final_line, first <- final_first, samples_read_per_instance <- final_count,
  result <- final_result

\* Instances are numbered, as ShapeMain numbers its colors.
HANDLE_NIL == -1

ASSUME ConsoleTestsAssumption ==
  /\ Colors = Stream!Handles /\ NoColor = HANDLE_NIL
  /\ Stream!StreamAssumption
  /\ Final!FinalStateAssumption

\* The variables of a part that does not run.
NoApplications ==
  /\ options = "none" /\ pub_pc = "none" /\ j = 0 /\ n = 0 /\ shapesize = 0
  /\ all_done = <<>> /\ matched = FALSE /\ cache = <<>> /\ instance_state = <<>>
  /\ sub_pc = "none" /\ previous_handle = NoColor /\ console = <<>>
NoInstanceCheck ==
  /\ check = "order" /\ line = Text /\ first = NoColor /\ seq_num = <<>>
  /\ samples_read_per_instance = 0 /\ result = "waiting" /\ got = [c \in Colors |-> <<>>]
NoFinalCheck ==
  /\ final_line = Final!NoLine /\ final_first = NoColor /\ instance_color = {}
  /\ gone_color = {} /\ final_count = 0 /\ final_result = "waiting"

TestInit ==
  \/ which = "console" /\ Init /\ NoApplications /\ NoFinalCheck
  \/ which = "stream" /\ Stream!Init /\ NoFinalCheck
  \/ which = "final" /\ Final!Init /\ NoInstanceCheck

TestNext ==
  /\ UNCHANGED which
  /\ \/ which = "console" /\ Next /\ UNCHANGED <<appVars, finalVars>>
     \/ which = "stream" /\ Stream!Next /\ UNCHANGED finalVars
     \/ which = "final" /\ Final!Next /\ UNCHANGED vars

\* Both applications run, and the check function reads or times out.
TestFairness ==
  /\ WF_allVars(which = "final" /\ Final!Publisher /\ UNCHANGED <<which, vars, finalVars>>)
  /\ WF_allVars(which = "final" /\ Final!Subscriber /\ UNCHANGED <<which, vars, finalVars>>)
  /\ WF_allVars(which = "final" /\ Final!Check /\ UNCHANGED <<which, vars>>)

TestSpec == TestInit /\ [][TestNext]_allVars /\ TestFairness

-----------------------------------------------------------------------------
(* Properties: those of InstanceChecks, OKMeansInOrder and NoFalseAlarm,   *)
(* hold of the lines of any console, that of a conforming pair included.   *)

\* Reliability: applications over a conforming DDS are never blamed, whenever
\* they match and however the passes of the subscriber cut the iterations of
\* the publisher into pieces.
ConformingPasses == which = "stream" => Stream!ConformingPasses

\* FinalInstanceState: a conforming implementation is never blamed, however
\* the subscriber's passes interleave with the publisher's last steps.
FinalNoFalseAlarm == which = "final" => Final!NoFalseAlarm

\* FinalInstanceState: OK is returned only when every instance whose sample was
\* read really has ended at the reader.
OKMeansEnded == which = "final" => Final!OKMeansEnded

\* FinalInstanceState: the test case comes to a verdict.
Decides == which = "final" ~> Final!Decided

=============================================================================
