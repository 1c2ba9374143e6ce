-------------------------- MODULE CoherentSetsCheck --------------------------
(***************************************************************************)
(* _coherent_sets_w_instances: the subscriber announces every pass over    *)
(* its readers ("Reading coherent sets") and prints the samples of the     *)
(* pass.  After two passes that are ignored, every pass with samples must  *)
(* consist of complete coherent sets.  Any other line with a [number] is   *)
(* counted for the total too, also one printed in a pass without samples.  *)
(***************************************************************************)
EXTENDS Naturals, Sequences, FiniteSets

CONSTANTS
  Topics, Colors,   \* an instance is a color of a topic
  NoColor,          \* None
  PerInstance,      \* --coherent-sample-count: 3
  ExpectedTotal,    \* expected_total: 36 or 12
  MaxSets,          \* coherent_sets_max_count: MAX_SAMPLES_READ / 5
  MaxPasses,        \* MAX_SAMPLES_READ, the limit of announcements
  MaxPass           \* bound: lines with a [number] counted for one total

CoherentSetsAssumption ==
  /\ NoColor \notin Colors
  /\ PerInstance \in Nat \ {0} /\ ExpectedTotal \in Nat \ {0}
  /\ MaxSets \in Nat \ {0} /\ MaxPasses \in Nat /\ MaxSets <= MaxPasses
  /\ MaxPass \in Nat

Instances == Topics \X Colors
Sample == [kind : {"sample"}, topic : Topics, color : Colors]
Other == [kind |-> "other"]         \* a line with a [number] that is no sample
Announcement == [kind |-> "announcement"]

VARIABLES
  line,                   \* the line matched last
  first,                  \* the first instance, a set of at most one
  run_count,              \* topics[topic][color], 0 for None
  previous_sample_color,
  new_coherent_set_read,
  ignore_firsts_coherent_set,
  coherent_sets_count,
  coherent_set_sample_count,
  samples_read_per_instance,
  produced_code,
  result,                 \* "running" or the ReturnCode returned
  pass,                   \* history: the instances of this pass, sample by sample
  others,                 \* history: the other lines counted for the total
  before,                 \* history: the color printed last before this pass
  accepted                \* history: what the totals of the passes accepted were

vars == <<line, first, run_count, previous_sample_color, new_coherent_set_read,
          ignore_firsts_coherent_set, coherent_sets_count, coherent_set_sample_count,
          samples_read_per_instance, produced_code, result, pass, others, before, accepted>>

\* basic_check has accepted the first sample.
Init ==
  /\ line \in Sample
  /\ first = {}
  /\ run_count = [i \in Instances |-> 0]
  /\ previous_sample_color = NoColor
  /\ new_coherent_set_read = FALSE
  /\ ignore_firsts_coherent_set = 2
  /\ coherent_sets_count = 0
  /\ coherent_set_sample_count = 0
  /\ samples_read_per_instance = 0
  /\ produced_code = "DATA_NOT_RECEIVED"
  /\ result = "running"
  /\ pass = <<>> /\ others = 0 /\ before = NoColor /\ accepted = {}

IsSample == line.kind = "sample"
Instance == <<line.topic, line.color>>

\* A sample of the same color as the one before continues a run; None, which
\* stands for the first sample of the run, becomes 2.
CountSample ==
  /\ first' = IF first = {} THEN {Instance} ELSE first
  /\ run_count' = IF line.color = previous_sample_color
       THEN [run_count EXCEPT ![Instance] = IF @ = 0 THEN 2 ELSE @ + 1]
       ELSE run_count
  /\ previous_sample_color' = line.color
  /\ new_coherent_set_read' = TRUE
  /\ pass' = Append(pass, Instance)
  /\ UNCHANGED <<ignore_firsts_coherent_set, produced_code, others, before, accepted>>

\* Neither a sample nor an announcement: nothing is done with it.
CountOther ==
  /\ others' = others + 1
  /\ UNCHANGED <<first, run_count, previous_sample_color, new_coherent_set_read,
                 ignore_firsts_coherent_set, produced_code, pass, before, accepted>>

\* The announcement ends a pass with samples that is not one of the first two.
JudgesPass == /\ line = Announcement
              /\ new_coherent_set_read
              /\ ignore_firsts_coherent_set = 0

\* The total, and every run that was counted, must be multiples.
Rejected ==
  /\ JudgesPass
  /\ \/ coherent_set_sample_count % ExpectedTotal # 0
     \/ \E i \in Instances : run_count[i] % PerInstance # 0

\* History: how many samples of an instance the pass had, and whether the total
\* that stands for it was whole.
Count(i) == Cardinality({k \in DOMAIN pass : pass[k] = i})

WholeTotal == (Len(pass) + others) % ExpectedTotal = 0

RememberPass ==
  /\ accepted' = IF ~JudgesPass \/ Rejected THEN accepted
                 ELSE accepted \cup {IF WholeTotal THEN "whole total" ELSE "wrong total"}
  /\ pass' = <<>>
  /\ others' = IF new_coherent_set_read THEN 0 ELSE others
  /\ before' = previous_sample_color

\* A pass with samples is ignored or accepted; the counters start again.
CountPass ==
  /\ IF new_coherent_set_read
     THEN /\ run_count' = [i \in Instances |-> 0]
          /\ IF ignore_firsts_coherent_set # 0
             THEN /\ ignore_firsts_coherent_set' = ignore_firsts_coherent_set - 1
                  /\ UNCHANGED produced_code
             ELSE produced_code' = "OK" /\ UNCHANGED ignore_firsts_coherent_set
     ELSE UNCHANGED <<run_count, ignore_firsts_coherent_set, produced_code>>
  /\ new_coherent_set_read' = FALSE
  /\ RememberPass
  /\ UNCHANGED <<first, previous_sample_color>>

\* Mutant: the total of a pass that was ignored is not reset.
TotalKept_WhenIgnored ==
  IF line = Announcement /\ new_coherent_set_read /\ ignore_firsts_coherent_set = 0
  THEN 0 ELSE coherent_set_sample_count

\* coherent_set_sample_count after the line has been looked at.
TotalKept ==
  IF line = Announcement /\ new_coherent_set_read THEN 0 ELSE coherent_set_sample_count

\* One iteration of the loop up to the expect.
Look ==
  /\ result = "running"
  /\ ~Rejected
  /\ \/ IsSample /\ CountSample
     \/ line = Other /\ CountOther
     \/ line = Announcement /\ CountPass

Reject ==
  /\ result = "running"
  /\ Rejected
  /\ produced_code' = "DATA_NOT_CORRECT" /\ result' = produced_code'
  /\ UNCHANGED <<line, first, run_count, previous_sample_color, new_coherent_set_read,
                 ignore_firsts_coherent_set, coherent_sets_count, coherent_set_sample_count,
                 samples_read_per_instance, pass, others, before, accepted>>

\* Another [number]: it is counted for the total before it is looked at, while
\* samples_read_per_instance counts the sample just looked at.
NextNumber(next) ==
  /\ Look
  /\ TotalKept < MaxPass
  /\ line' = next
  /\ coherent_set_sample_count' = TotalKept + 1
  /\ samples_read_per_instance' = samples_read_per_instance +
       (IF IsSample /\ Instance \in first' THEN 1 ELSE 0)
  /\ result' = IF samples_read_per_instance' = MaxSets THEN produced_code' ELSE result
  /\ UNCHANGED coherent_sets_count

\* Another announcement; too many of them end the test.
NextPass ==
  /\ Look
  /\ line' = Announcement
  /\ coherent_set_sample_count' = TotalKept
  /\ coherent_sets_count' = coherent_sets_count + 1
  /\ result' = IF coherent_sets_count' > MaxPasses THEN "DATA_NOT_RECEIVED" ELSE result
  /\ UNCHANGED samples_read_per_instance

\* TIMEOUT and EOF.
NoMoreData ==
  /\ Look
  /\ coherent_set_sample_count' = TotalKept
  /\ result' \in {produced_code', "DATA_NOT_RECEIVED"}
  /\ UNCHANGED <<line, coherent_sets_count, samples_read_per_instance>>

Next == Reject \/ NextPass \/ NoMoreData \/ \E next \in Sample \cup {Other} : NextNumber(next)

Spec == Init /\ [][Next]_vars

----------------------------------------------------------------------------
(* Properties *)

\* OK means that at least one pass was judged, and that the samples of every
\* pass judged and the other lines counted with them made a multiple of
\* expected_total, although the total is counted one line ahead of the samples,
\* survives a pass without samples, and two passes are thrown away.
OKMeansWholeTotals ==
  result = "OK" => accepted # {} /\ "wrong total" \notin accepted

\* The samples of every instance of the sequence stand together.
Together(seq) ==
  \A k, l, m \in DOMAIN seq : k < l /\ l < m /\ seq[k] = seq[m] => seq[l] = seq[k]

\* No two neighbours in the pass are instances of one color in two topics, nor
\* does the pass start with the color the pass before it ended with.
ColorsApart ==
  /\ \A k \in 2..Len(pass) : pass[k][2] = pass[k - 1][2] => pass[k] = pass[k - 1]
  /\ pass # <<>> => pass[1][2] # before

\* Complete sets in which the samples of an instance come together, as
\* INSTANCE_PRESENTATION delivers them, are rejected only if a color continues
\* over the border of a pass or of a topic.
GroupedSetsAccepted ==
  result = "DATA_NOT_CORRECT" =>
    ~ /\ Together(pass) /\ ColorsApart
      /\ WholeTotal
      /\ \A i \in Instances : Count(i) % PerInstance = 0

\* The pass is one complete set after another, each instance by instance, with
\* no other line among them.
SetAfterSet ==
  /\ others = 0
  /\ Len(pass) % ExpectedTotal = 0
  /\ \A s \in 0..(Len(pass) \div ExpectedTotal - 1) :
       LET set == SubSeq(pass, s * ExpectedTotal + 1, (s + 1) * ExpectedTotal)
       IN /\ Together(set)
          /\ \A i \in Instances : Cardinality({k \in DOMAIN set : set[k] = i}) = PerInstance

\* The docstring: "This counts the consecutive samples received from the same
\* instance. The value should be 3 [...] A read cycle may also catch more than one
\* coherent set", so that a pass of complete sets should not be DATA_NOT_CORRECT,
\* whatever was printed before it.
WholeSetsAccepted == result = "DATA_NOT_CORRECT" => ~SetAfterSet

=============================================================================
