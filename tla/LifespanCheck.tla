--------------------------- MODULE LifespanCheck ---------------------------
(***************************************************************************)
(* test_lifespan_2_3_consecutive_samples_w_instances: samples that live    *)
(* for two or three write periods are read by a slow reader, so that each  *)
(* read finds two or three consecutive samples of every instance, and a    *)
(* jump of the sequence number separates one read from the next.  A sample *)
(* says only whether it continues its instance's sequence or jumps.        *)
(***************************************************************************)
EXTENDS Naturals

CONSTANTS
  Colors,       \* the instances
  NoColor,      \* stands for "no instance yet"
  MaxSamples,   \* max_samples_lifespan: MAX_SAMPLES_READ / 10
  MaxRun        \* bound: the longest run of consecutive samples considered

LifespanAssumption ==
  /\ NoColor \notin Colors
  /\ MaxSamples \in Nat \ {0}
  /\ MaxRun \in Nat \ {0}

Sample == [kind : {"sample"}, color : Colors, consecutive : BOOLEAN]
Text == [kind |-> "text"]
Lines == Sample \cup {Text}

VARIABLES
  line,                \* the line matched last
  first,               \* instance_color[0]
  consecutive_samples, \* by color, 0 for a color that is not in instance_color
  ignore_first_sample, \* the colors whose flag is set
  lifespan_expiration_observed,
  samples_read_per_instance,
  produced_code,
  result,              \* "running" or the ReturnCode returned
  run,                 \* history: the length of the current run, by color
  completed            \* history: the runs ended by a jump, by color

code == <<first, consecutive_samples, ignore_first_sample, lifespan_expiration_observed>>
vars == <<line, code, samples_read_per_instance, produced_code, result, run, completed>>

\* basic_check has accepted the first sample.
Init ==
  /\ line \in Sample
  /\ first = NoColor
  /\ consecutive_samples = [c \in Colors |-> 0]
  /\ ignore_first_sample = {}
  /\ lifespan_expiration_observed = FALSE
  /\ samples_read_per_instance = 0
  /\ produced_code = "DATA_NOT_RECEIVED"
  /\ result = "running"
  /\ run = [c \in Colors |-> 0]
  /\ completed = [c \in Colors |-> {}]

IsSample == line.kind = "sample"
Known == consecutive_samples[line.color] # 0

\* What one read may find of an instance.
Expired(n) == n = 3 \/ n = 2

\* The sample ends a run.
Jumps == IsSample /\ Known /\ ~line.consecutive

\* A run of the wrong length, unless it is a single sample at the very start.
WrongRun == /\ Jumps
            /\ ~Expired(consecutive_samples[line.color])
            /\ line.color \notin ignore_first_sample

\* History: what really happened to the instance of this sample.
Remember ==
  LET c == line.color
  IN /\ run' = [run EXCEPT ![c] = IF Jumps THEN 1 ELSE @ + 1]
     /\ completed' = IF Jumps
          THEN [completed EXCEPT ![c] = @ \cup {[first |-> @ = {}, length |-> run[c]]}]
          ELSE completed

\* DATA_NOT_CORRECT leaves the loop before all samples are read, so that the
\* comparison after the loop does not apply.
Reject ==
  /\ result = "running"
  /\ WrongRun
  /\ produced_code' = "DATA_NOT_CORRECT"
  /\ result' = produced_code'
  /\ Remember
  /\ UNCHANGED <<line, code, samples_read_per_instance>>

\* A new instance is added; its sample is the first of its first run.
NewInstance ==
  /\ first' = IF first = NoColor THEN line.color ELSE first
  /\ consecutive_samples' = [consecutive_samples EXCEPT ![line.color] = 1]
  /\ ignore_first_sample' = ignore_first_sample \cup {line.color}
  /\ UNCHANGED <<lifespan_expiration_observed, produced_code>>

Continues ==
  /\ consecutive_samples' = [consecutive_samples EXCEPT ![line.color] = @ + 1]
  /\ ignore_first_sample' = ignore_first_sample \ {line.color}
  /\ UNCHANGED <<first, lifespan_expiration_observed, produced_code>>

\* Mutant: the counter keeps growing over the jump.
EndsRun_NoReset ==
  IF Expired(consecutive_samples[line.color])
  THEN /\ produced_code' = "OK"
       /\ lifespan_expiration_observed' = TRUE
       /\ UNCHANGED <<first, consecutive_samples, ignore_first_sample>>
  ELSE /\ ignore_first_sample' = ignore_first_sample \ {line.color}
       /\ UNCHANGED <<first, consecutive_samples, lifespan_expiration_observed, produced_code>>

\* A good run counts as an expiration; a lone first sample is forgiven once.
EndsRun ==
  IF Expired(consecutive_samples[line.color])
  THEN /\ consecutive_samples' = [consecutive_samples EXCEPT ![line.color] = 1]
       /\ produced_code' = "OK"
       /\ lifespan_expiration_observed' = TRUE
       /\ UNCHANGED <<first, ignore_first_sample>>
  ELSE /\ ignore_first_sample' = ignore_first_sample \ {line.color}
       /\ UNCHANGED <<first, consecutive_samples, lifespan_expiration_observed, produced_code>>

\* One iteration up to the expect; the bound MaxRun cuts longer runs off.
Note ==
  /\ ~WrongRun
  /\ IF IsSample
     THEN /\ (Known /\ line.consecutive) => consecutive_samples[line.color] < MaxRun
          /\ IF ~Known THEN NewInstance ELSE IF Jumps THEN EndsRun ELSE Continues
          /\ Remember
     ELSE UNCHANGED <<code, produced_code, run, completed>>

Finished(read) == read = MaxSamples

\* The comparison after the loop, on the values at its end.
Verdict ==
  IF samples_read_per_instance' = MaxSamples
  THEN IF lifespan_expiration_observed' THEN "OK" ELSE "DATA_NOT_CORRECT"
  ELSE produced_code'

\* Another [number] follows; a sample of the first instance is counted.
NextLine(next) ==
  /\ result = "running"
  /\ Note
  /\ line' = next
  /\ samples_read_per_instance' =
       samples_read_per_instance + (IF IsSample /\ line.color = first' THEN 1 ELSE 0)
  /\ result' = IF Finished(samples_read_per_instance') THEN Verdict ELSE result

\* TIMEOUT leaves the loop, EOF the function.
Timeout ==
  /\ result = "running"
  /\ Note
  /\ result' = produced_code'
  /\ UNCHANGED <<line, samples_read_per_instance>>

Eof ==
  /\ result = "running"
  /\ Note
  /\ result' = "DATA_NOT_RECEIVED"
  /\ UNCHANGED <<line, samples_read_per_instance>>

Next == Reject \/ Timeout \/ Eof \/ \E next \in Lines : NextLine(next)

Spec == Init /\ [][Next]_vars

----------------------------------------------------------------------------
(* Properties *)

\* A run that is allowed to have ended: two or three samples, or a lone sample
\* before which the instance had no other.
GoodRun(r) == r.length \in {2, 3} \/ (r.first /\ r.length = 1)

\* OK vouches for every run that ended, of every instance, and for at least one
\* expiration: a stream without any jump ("no gaps at all") never passes.
OKMeansExpired ==
  result = "OK" =>
    /\ \A c \in Colors : \A r \in completed[c] : GoodRun(r)
    /\ \E c \in Colors : \E r \in completed[c] : r.length \in {2, 3}

\* A stream in which every run is good is never DATA_NOT_CORRECT once some
\* run has ended: the check raises no false alarm.
NoFalseAlarm ==
  result = "DATA_NOT_CORRECT" =>
    \/ \E c \in Colors : \E r \in completed[c] : ~GoodRun(r)
    \/ \A c \in Colors : \A r \in completed[c] : r.length = 1

=============================================================================
