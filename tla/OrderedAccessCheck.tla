------------------------- MODULE OrderedAccessCheck -------------------------
(***************************************************************************)
(* ordered_access_w_instances: the subscriber announces every pass over    *)
(* its reader ("Reading with ordered access") and prints the samples of    *)
(* the pass.  A pass in which more samples follow one of the same instance *)
(* than one of another instance shows INSTANCE_PRESENTATION, the opposite  *)
(* shows TOPIC_PRESENTATION, and the passes must agree but for a few.      *)
(***************************************************************************)
EXTENDS Naturals, Sequences, FiniteSets

CONSTANTS
  Colors,           \* the instances
  NoColor,          \* None
  MaxSamplesRead,   \* MAX_SAMPLES_READ
  Tolerance,        \* behavior_mismatch_tolerance: 1% of MAX_SAMPLES_READ
  GroupMinimum,     \* a pass is judged when it has more samples: 5
  MaxGroup          \* bound: samples of one pass considered

OrderedAccessAssumption ==
  /\ NoColor \notin Colors
  /\ MaxSamplesRead \in Nat \ {0}
  /\ Tolerance \in Nat /\ GroupMinimum \in Nat /\ MaxGroup \in Nat

Sample == [kind : {"sample"}, color : Colors]
Announcement == [kind |-> "announcement"]
Text == [kind |-> "text"]

Behaviors == {"ORDERED_ACCESS_INSTANCE", "ORDERED_ACCESS_TOPIC"}

VARIABLES
  line,                        \* the line matched last
  first,                       \* instance_color[0]
  previous_sample_color,
  color_equal_count, color_different_count,
  ordered_access_group_count,
  behavior_mismatch_count,
  samples_read_per_instance,
  produced_code,
  result,                      \* "running" or the ReturnCode returned
  pass,                        \* history: the colors of this pass, after the last one of the pass before
  shown                        \* history: what the passes judged have shown so far

counters == <<color_equal_count, color_different_count>>
vars == <<line, first, previous_sample_color, counters, ordered_access_group_count,
          behavior_mismatch_count, samples_read_per_instance, produced_code, result, pass, shown>>

\* basic_check has accepted the first sample.
Init ==
  /\ line \in Sample
  /\ first = NoColor /\ previous_sample_color = NoColor
  /\ color_equal_count = 0 /\ color_different_count = 0
  /\ ordered_access_group_count = 0
  /\ behavior_mismatch_count = 0
  /\ samples_read_per_instance = 0
  /\ produced_code = "OK"
  /\ result = "running"
  /\ pass = <<>> /\ shown = <<>>

\* Mutant: the last color of the pass before is forgotten.
CountSample_NewPass ==
  /\ first' = IF first = NoColor THEN line.color ELSE first
  /\ previous_sample_color' = line.color
  /\ color_equal_count' = color_equal_count +
       (IF counters # <<0, 0>> /\ line.color = previous_sample_color THEN 1 ELSE 0)
  /\ color_different_count' = color_different_count +
       (IF line.color # previous_sample_color THEN 1 ELSE 0)
  /\ Len(pass) <= MaxGroup /\ pass' = Append(pass, line.color)
  /\ UNCHANGED <<behavior_mismatch_count, produced_code, shown>>

\* A sample is compared with the one before it, of this or of an earlier pass.
CountSample ==
  /\ first' = IF first = NoColor THEN line.color ELSE first
  /\ previous_sample_color' = line.color
  /\ color_equal_count' = color_equal_count +
       (IF line.color = previous_sample_color THEN 1 ELSE 0)
  /\ color_different_count' = color_different_count +
       (IF previous_sample_color \notin {NoColor, line.color} THEN 1 ELSE 0)
  /\ Len(pass) <= MaxGroup /\ pass' = Append(pass, line.color)
  /\ UNCHANGED <<behavior_mismatch_count, produced_code, shown>>

\* current_behavior; "none" when the counters are equal.
Behavior(equal, different) ==
  IF equal > different THEN "ORDERED_ACCESS_INSTANCE"
  ELSE IF equal < different THEN "ORDERED_ACCESS_TOPIC"
  ELSE "none"

Judged == line = Announcement /\ color_equal_count + color_different_count > GroupMinimum
Current == Behavior(color_equal_count, color_different_count)
Mismatch == Judged /\ produced_code # "OK" /\ Current # produced_code

\* A mismatch that the tolerance does not cover any more.
TooMany == Mismatch /\ behavior_mismatch_count > Tolerance

\* History: the pass as its colors show it.
PassBehavior ==
  LET pairs == 1..(Len(pass) - 1)
  IN Behavior(Cardinality({i \in pairs : pass[i] = pass[i + 1]}),
              Cardinality({i \in pairs : pass[i] # pass[i + 1]}))

RememberPass ==
  /\ shown' = IF Len(pass) - 1 > GroupMinimum THEN Append(shown, PassBehavior) ELSE shown
  /\ pass' = IF pass = <<>> THEN <<>> ELSE <<pass[Len(pass)]>>

\* The first pass judged sets the code, the others must agree with it.
CountPass ==
  /\ produced_code' = IF Judged /\ produced_code = "OK" /\ Current # "none"
                      THEN Current ELSE produced_code
  /\ behavior_mismatch_count' = behavior_mismatch_count + (IF Mismatch THEN 1 ELSE 0)
  /\ color_equal_count' = 0 /\ color_different_count' = 0
  /\ RememberPass
  /\ UNCHANGED <<first, previous_sample_color>>

Note ==
  /\ ~TooMany
  /\ CASE line.kind = "sample" -> CountSample
       [] line = Announcement -> CountPass
       [] line = Text -> UNCHANGED <<first, previous_sample_color, counters, produced_code,
                                     behavior_mismatch_count, pass, shown>>

Reject ==
  /\ result = "running"
  /\ TooMany
  /\ produced_code' = "DATA_NOT_CORRECT" /\ result' = produced_code'
  /\ RememberPass
  /\ UNCHANGED <<line, first, previous_sample_color, counters, ordered_access_group_count,
                 behavior_mismatch_count, samples_read_per_instance>>

\* Another [number]: a sample of the first instance is counted.
NextNumber(next) ==
  /\ result = "running"
  /\ Note
  /\ line' = next
  /\ samples_read_per_instance' = samples_read_per_instance +
       (IF line.kind = "sample" /\ line.color = first' THEN 1 ELSE 0)
  /\ result' = IF samples_read_per_instance' = MaxSamplesRead THEN produced_code' ELSE result
  /\ UNCHANGED ordered_access_group_count

\* Another announcement; too many of them end the test without the samples.
NextPass ==
  /\ result = "running"
  /\ Note
  /\ line' = Announcement
  /\ ordered_access_group_count' = ordered_access_group_count + 1
  /\ result' = IF ordered_access_group_count' > MaxSamplesRead THEN "DATA_NOT_RECEIVED" ELSE result
  /\ UNCHANGED samples_read_per_instance

\* TIMEOUT and EOF.
NoMoreData ==
  /\ result = "running"
  /\ Note
  /\ result' \in {produced_code', "DATA_NOT_RECEIVED"}
  /\ UNCHANGED <<line, samples_read_per_instance, ordered_access_group_count>>

Next == Reject \/ NextPass \/ NoMoreData \/ \E next \in Sample \cup {Text} : NextNumber(next)

Spec == Init /\ [][Next]_vars

----------------------------------------------------------------------------
(* Properties *)

\* The first pass that shows something.
Decisive == {i \in DOMAIN shown : shown[i] # "none"}
FirstDecisive == CHOOSE i \in Decisive : \A k \in Decisive : i <= k
Disagreeing == {i \in DOMAIN shown : i > FirstDecisive /\ shown[i] # shown[FirstDecisive]}

\* A behavior is reported only if the first pass that shows one shows it, and
\* all but a bounded number of the passes judged after it agree.
VerdictHasEvidence ==
  result \in Behaviors =>
    /\ Decisive # {}
    /\ result = shown[FirstDecisive]
    /\ Cardinality(Disagreeing) <= Tolerance + 1

\* DATA_NOT_CORRECT needs more disagreeing passes than the tolerance grants, so
\* that a few passes cut short by the timing of the reader are forgiven.
TimingForgiven ==
  result = "DATA_NOT_CORRECT" => Cardinality(Disagreeing) > Tolerance + 1

=============================================================================
