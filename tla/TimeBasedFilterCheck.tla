------------------------ MODULE TimeBasedFilterCheck ------------------------
(***************************************************************************)
(* test_reading_1_sample_every_10_samples_w_instances: with a time-based   *)
(* filter of ten write periods the subscriber should see one sample out of *)
(* ten of every instance.  Only the gap between the sequence numbers of    *)
(* two samples of an instance matters, so a sample carries its gap.        *)
(***************************************************************************)
EXTENDS Integers, FiniteSets

CONSTANTS
  Colors,          \* the instances
  NoColor,         \* stands for "no instance yet"
  Gaps,            \* the gaps the applications may print
  MaxSamples       \* max_samples_received: MAX_SAMPLES_READ / 10

FilterAssumption ==
  /\ NoColor \notin Colors
  /\ Gaps \subseteq Int
  /\ MaxSamples \in Nat \ {0}

Sample == [kind : {"sample"}, color : Colors, gap : Gaps]
Text == [kind |-> "text"]
Lines == Sample \cup {Text}

VARIABLES
  line,            \* the line matched last
  first,           \* instance_color[0]
  instances,       \* the colors in instance_color
  ignoring,        \* the instances whose ignore_first_sample is still set
  missed_samples,  \* by color
  samples_read_per_instance,
  result,          \* "running" or the ReturnCode returned
  history          \* history: what was printed of every instance

vars == <<line, first, instances, ignoring, missed_samples,
          samples_read_per_instance, result, history>>

\* Of an instance: the samples looked at (2 stands for more), those of the later
\* ones that came too early, and the samples lost between them.
Unseen == [met |-> 0, early |-> 0, lost |-> 0]

\* basic_check has accepted the first sample.
Init ==
  /\ line \in Sample
  /\ first = NoColor
  /\ instances = {}
  /\ ignoring = {}
  /\ missed_samples = [c \in Colors |-> 0]
  /\ samples_read_per_instance = 0
  /\ result = "running"
  /\ history = [c \in Colors |-> Unseen]

\* "Allow up to 10% of samples to be missing": the test after the loop.
EnoughRead(read) == 10 * read >= 9 * MaxSamples

\* The code returned when the loop was left with this one.
Final(produced, read) == IF EnoughRead(read) THEN "OK" ELSE produced

\* The first sample of an instance and the one after it are not judged.
Judged == /\ line.kind = "sample"
          /\ line.color \in instances
          /\ line.color \notin ignoring

\* max(0, (gap - 10) // 10)
MissedInGap(gap) == IF gap < 10 THEN 0 ELSE (gap - 10) \div 10

TooEarly == Judged /\ line.gap < 9

\* Mutant: every gap has the whole tolerance.
TooManyMissed_PerGap == Judged /\ 10 * MissedInGap(line.gap) > MaxSamples

TooManyMissed ==
  Judged /\ 10 * (missed_samples[line.color] + MissedInGap(line.gap)) > MaxSamples

\* History: the sample looked at, told from the stream alone.
Skipped(gap) == IF gap < 20 THEN 0 ELSE gap \div 10 - 1

After(h, gap) ==
  IF h.met < 2 THEN [met |-> h.met + 1, early |-> h.early, lost |-> h.lost]
  ELSE [met |-> 2, early |-> h.early + (IF gap < 9 THEN 1 ELSE 0), lost |-> h.lost + Skipped(gap)]

Remember ==
  history' = IF line.kind = "sample"
             THEN [history EXCEPT ![line.color] = After(@, line.gap)] ELSE history

\* DATA_NOT_CORRECT leaves the loop; the test after the loop still applies.
Reject ==
  /\ result = "running"
  /\ TooEarly \/ TooManyMissed
  /\ result' = Final("DATA_NOT_CORRECT", samples_read_per_instance)
  /\ Remember
  /\ UNCHANGED <<line, first, instances, ignoring, missed_samples, samples_read_per_instance>>

Note ==
  /\ IF line.kind = "sample"
     THEN /\ first' = IF first = NoColor THEN line.color ELSE first
          /\ instances' = instances \cup {line.color}
          /\ ignoring' = IF line.color \in instances THEN ignoring \ {line.color}
                         ELSE ignoring \cup {line.color}
          /\ missed_samples' = IF Judged
               THEN [missed_samples EXCEPT ![line.color] = @ + MissedInGap(line.gap)]
               ELSE missed_samples
     ELSE UNCHANGED <<first, instances, ignoring, missed_samples>>
  /\ Remember

\* Another [number] follows; a sample of the first instance is counted.
NextLine(next) ==
  /\ result = "running"
  /\ ~TooEarly /\ ~TooManyMissed
  /\ Note
  /\ line' = next
  /\ samples_read_per_instance' = samples_read_per_instance +
       (IF line.kind = "sample" /\ line.color = first' THEN 1 ELSE 0)
  /\ result' = IF samples_read_per_instance' = MaxSamples
               THEN Final("DATA_NOT_RECEIVED", MaxSamples) ELSE result

\* TIMEOUT leaves the loop, EOF the function.
Timeout ==
  /\ result = "running"
  /\ ~TooEarly /\ ~TooManyMissed
  /\ Note
  /\ result' = Final("DATA_NOT_RECEIVED", samples_read_per_instance)
  /\ UNCHANGED <<line, samples_read_per_instance>>

Eof ==
  /\ result = "running"
  /\ ~TooEarly /\ ~TooManyMissed
  /\ Note
  /\ result' = "DATA_NOT_RECEIVED"
  /\ UNCHANGED <<line, samples_read_per_instance>>

Next == Reject \/ Timeout \/ Eof \/ \E next \in Lines : NextLine(next)

Spec == Init /\ [][Next]_vars

----------------------------------------------------------------------------
(* Properties *)

\* An instance whose samples do not show the filter.
Early(c) == history[c].early > 0
Lossy(c) == 10 * history[c].lost > MaxSamples

\* DATA_NOT_CORRECT has a witness among the instances, and a witness is never
\* passed over in the loop nor taken for missing data: the losses are summed
\* over all the gaps of an instance, but not with those of another.
AlarmHasWitness ==
  /\ result = "DATA_NOT_CORRECT" => \E c \in Colors : Early(c) \/ Lossy(c)
  /\ result \in {"running", "DATA_NOT_RECEIVED"} => \A c \in Colors : ~Early(c) /\ ~Lossy(c)

\* OK needs 90% of the samples wanted of the first instance.
OKMeansEnough == result = "OK" => 10 * samples_read_per_instance >= 9 * MaxSamples

\* The comments in the loop: the next sample "should be between [15-24]" or
\* "[14-24]", and one that comes before is one that "arrived too early", so
\* that OK should exclude it.
EarlySampleFails == result = "OK" => \A c \in Colors : ~Early(c)

=============================================================================
