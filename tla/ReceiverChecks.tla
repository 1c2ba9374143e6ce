--------------------------- MODULE ReceiverChecks ---------------------------
(***************************************************************************)
(* The check functions that compare one field of every sample the          *)
(* subscriber prints: test_size_receivers and test_color_receivers (which  *)
(* tell whether the samples come from one publisher or from both) and      *)
(* test_size_less_than_20.  Each of them ends with the first line that     *)
(* contains a [number] but is no sample.                                   *)
(***************************************************************************)
EXTENDS Naturals, Sequences, FiniteSets

CONSTANTS
  Values,           \* what the field compared may be; colors are numbered too
  MaxSamplesRead    \* MAX_SAMPLES_READ

ReceiverAssumption ==
  /\ Values \subseteq Nat
  /\ MaxSamplesRead \in Nat \ {0, 1}

Checks == {"size", "color", "less_than_20"}

Sample == [kind : {"sample"}, value : Values]
Text == [kind |-> "text"]
Lines == Sample \cup {Text}

VARIABLES
  check,         \* which function runs
  line,          \* the line matched last
  first_sample,  \* first_sample_size or first_sample_color
  ignore_first_samples,
  samples_read,
  result,        \* "running" or the ReturnCode returned
  seen           \* history: the values compared so far

vars == <<check, line, first_sample, ignore_first_samples, samples_read, result, seen>>

\* max_samples_received
Limit(which) == IF which = "less_than_20" THEN MaxSamplesRead \div 2 ELSE MaxSamplesRead

\* basic_check has accepted the first sample: its size is not zero.
Init ==
  /\ check \in Checks
  /\ line \in Sample
  /\ line.value = 0 => check = "color"
  /\ first_sample = line.value
  /\ ignore_first_samples = TRUE
  /\ samples_read = 0
  /\ result = "running"
  /\ seen = <<>>

Differs == line.value # first_sample

InRange(size) == ~(size < 1 \/ size > 20)

\* The sample that decides the test.
Offends ==
  CASE check = "size" -> Differs /\ ~ignore_first_samples
    [] check = "color" -> Differs
    [] check = "less_than_20" -> ~InRange(line.value)

Remember == seen' = Append(seen, line.value)

Decide ==
  /\ result = "running"
  /\ line.kind = "sample" /\ Offends
  /\ result' = IF check = "less_than_20" THEN "DATA_NOT_CORRECT" ELSE "RECEIVING_FROM_BOTH"
  /\ Remember
  /\ UNCHANGED <<check, line, first_sample, ignore_first_samples, samples_read>>

\* Mutant: the size of the publisher that takes over is not remembered.
Accept_KeepsFirst ==
  /\ result = "running"
  /\ line.kind = "sample" /\ ~Offends
  /\ Remember
  /\ ignore_first_samples' = (ignore_first_samples /\ (check = "size" => ~Differs))
  /\ UNCHANGED first_sample

\* The first different size is the strongest publisher taking over.
Accept ==
  /\ result = "running"
  /\ line.kind = "sample" /\ ~Offends
  /\ Remember
  /\ IF check = "size" /\ Differs
     THEN ignore_first_samples' = FALSE /\ first_sample' = line.value
     ELSE UNCHANGED <<ignore_first_samples, first_sample>>

\* What the function returns when nothing offended.
Good == IF check = "less_than_20" THEN "OK" ELSE "RECEIVING_FROM_ONE"

\* Another [number]; the loop ends if it is no sample or the last one wanted.
NextLine(next) ==
  /\ Accept
  /\ line' = next
  /\ samples_read' = samples_read + 1
  /\ result' = IF next = Text \/ samples_read' = Limit(check) THEN Good ELSE result
  /\ UNCHANGED check

Timeout ==
  /\ Accept
  /\ result' = IF check = "less_than_20" THEN "DATA_NOT_RECEIVED" ELSE Good
  /\ UNCHANGED <<check, line, samples_read>>

Eof ==
  /\ Accept
  /\ result' = "DATA_NOT_RECEIVED"
  /\ UNCHANGED <<check, line, samples_read>>

Next == Decide \/ Timeout \/ Eof \/ \E next \in Lines : NextLine(next)

Spec == Init /\ [][Next]_vars

----------------------------------------------------------------------------
(* Properties *)

\* How often the value changed from one sample to the next.
Changes == Cardinality({i \in 1..(Len(seen) - 1) : seen[i] # seen[i + 1]})

\* What each function should find in the samples it compared.
BothSeen ==
  CASE check = "size" -> Changes >= 2
    [] check = "color" -> Changes >= 1
    [] OTHER -> FALSE

\* RECEIVING_FROM_BOTH is returned exactly when the history shows two
\* publishers: two changes of the size (the comment's "30, then 20 again"; one
\* change is the stronger publisher taking over), or two colors.
BothIsExact ==
  result \in {"RECEIVING_FROM_ONE", "RECEIVING_FROM_BOTH"} =>
    (result = "RECEIVING_FROM_BOTH") = BothSeen

\* test_size_less_than_20 accepts a stream exactly when every sample it
\* compared has a "size between 1 and 20 (inclusive)".
RangeIsExact ==
  check = "less_than_20" /\ result \in {"OK", "DATA_NOT_CORRECT"} =>
    (result = "OK") = (\A i \in DOMAIN seen : seen[i] \in 1..20)

=============================================================================
