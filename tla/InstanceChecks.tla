--------------------------- MODULE InstanceChecks ---------------------------
(***************************************************************************)
(* The two check functions that follow the sequence numbers (the size of   *)
(* the shape) of every instance (its color): test_order_w_instances and    *)
(* test_reliability_no_losses_w_instances of test_suite_functions.py.      *)
(*                                                                         *)
(* A check function reads the console of the subscriber application line   *)
(* by line.  A line is a sample, some other text that contains a [number], *)
(* or, for the order test, the announcement "Reading with ordered access". *)
(* One iteration of the loop is one step: it looks at the line that was    *)
(* matched before and then waits for the next one.                         *)
(***************************************************************************)
EXTENDS Naturals, Sequences

CONSTANTS
  Colors,          \* the instances
  NoColor,         \* stands for "no instance yet"
  Sizes,           \* the sequence numbers the applications may print
  MaxSamplesRead   \* MAX_SAMPLES_READ

ASSUME InstanceChecksAssumption ==
  /\ NoColor \notin Colors
  /\ Sizes \subseteq Nat
  /\ MaxSamplesRead \in Nat \ {0}

Sample == [kind : {"sample"}, color : Colors, size : Sizes]
Text == [kind |-> "text"]              \* contains [number], is no sample
Announcement == [kind |-> "announcement"]
Lines == Sample \cup {Text, Announcement}

VARIABLES
  check,     \* which of the two functions runs
  line,      \* child_sub.before + child_sub.after
  first,     \* instance_color[0], NoColor while the list is empty
  seq_num,   \* instance_seq_num, by color, of the colors in instance_color
  samples_read_per_instance,
  result,    \* "called", "running" or the ReturnCode returned
  got        \* history: the sizes the loop has looked at, by color

vars == <<check, line, first, seq_num, samples_read_per_instance, result, got>>

\* The colors in instance_color.
Instances == DOMAIN seq_num

TypeOK ==
  /\ check \in {"order", "reliability"}
  /\ line \in Lines
  /\ first \in Colors \cup {NoColor}
  /\ Instances \subseteq Colors /\ seq_num \in [Instances -> Sizes]
  /\ samples_read_per_instance \in 0..MaxSamplesRead
  /\ result \in {"called", "running", "OK", "DATA_NOT_RECEIVED", "DATA_NOT_CORRECT"}
  /\ got \in [Colors -> Seq(Sizes)]

\* The subscriber's step 4 has matched a [number] in some line.
Init ==
  /\ check \in {"order", "reliability"}
  /\ line \in Sample \cup {Text}
  /\ first = NoColor
  /\ seq_num = [c \in {} |-> 0]
  /\ samples_read_per_instance = 0
  /\ result = "called"
  /\ got = [c \in Colors |-> <<>>]

\* basic_check: the line is a sample and its size is not zero.
BasicCheck ==
  /\ result = "called"
  /\ result' = IF line.kind # "sample" THEN "DATA_NOT_RECEIVED"
               ELSE IF line.size = 0 THEN "DATA_NOT_CORRECT"
               ELSE "running"
  /\ UNCHANGED <<check, line, first, seq_num, samples_read_per_instance, got>>

\* What the next sample of an instance must look like.
Follows(which, previous, size) ==
  IF which = "order" THEN size > previous ELSE size = previous + 1

\* Mutant: every sample is compared with the first instance.
Breaks_FirstOnly == /\ line.kind = "sample"
                    /\ line.color \in Instances
                    /\ ~Follows(check, seq_num[first], line.size)

\* The line is a sample of a known instance that does not follow the last one.
Breaks == /\ line.kind = "sample"
          /\ line.color \in Instances
          /\ ~Follows(check, seq_num[line.color], line.size)

Remember == got' = [got EXCEPT ![line.color] = Append(@, line.size)]

\* DATA_NOT_CORRECT ends the loop at once.
OutOfOrder ==
  /\ result = "running"
  /\ Breaks
  /\ result' = "DATA_NOT_CORRECT"
  /\ Remember
  /\ UNCHANGED <<check, line, first, seq_num, samples_read_per_instance>>

\* The line is noted: a new instance is added, a known one advances.
Note ==
  IF line.kind = "sample"
  THEN /\ first' = IF first = NoColor THEN line.color ELSE first
       /\ seq_num' = [c \in Instances \cup {line.color} |->
                        IF c = line.color THEN line.size ELSE seq_num[c]]
       /\ Remember
  ELSE UNCHANGED <<first, seq_num, got>>

\* Mutant: the samples of every instance are counted.
Counts_AnyInstance(next) == line.kind = "sample" /\ next # Announcement

\* A sample of the first instance counts when another [number] follows it.
Counts(next) ==
  line.kind = "sample" /\ line.color = first' /\ next # Announcement

NextLine(next) ==
  /\ result = "running"
  /\ ~Breaks
  /\ next = Announcement => check = "order"
  /\ Note
  /\ line' = next
  /\ samples_read_per_instance' =
       samples_read_per_instance + (IF Counts(next) THEN 1 ELSE 0)
  /\ result' = IF samples_read_per_instance' = MaxSamplesRead THEN "OK" ELSE result
  /\ UNCHANGED check

\* TIMEOUT and EOF: too few samples arrived.
NoMoreData ==
  /\ result = "running"
  /\ ~Breaks
  /\ Note
  /\ result' = "DATA_NOT_RECEIVED"
  /\ UNCHANGED <<check, line, samples_read_per_instance>>

Next == BasicCheck \/ OutOfOrder \/ NoMoreData \/ \E next \in Lines : NextLine(next)

Spec == Init /\ [][Next]_vars

----------------------------------------------------------------------------
(* Properties of the two functions *)

Checked == check \in {"order", "reliability"}

InOrder(c) ==
  \A i \in 1..(Len(got[c]) - 1) : Follows(check, got[c][i], got[c][i + 1])

\* OK vouches for every sample of every instance that was looked at, not only
\* for the last ones or the first instance, and for MAX_SAMPLES_READ samples of
\* the first instance at least (docstrings: "receives the samples in order and
\* with no losses (for several instances)").
OKMeansInOrder ==
  Checked /\ result = "OK" =>
    /\ \A c \in Colors : InOrder(c)
    /\ Len(got[first]) >= MaxSamplesRead

\* DATA_NOT_CORRECT is never a false alarm: some instance's history really has
\* a sample out of order, or the very first sample was empty (basic_check).
NoFalseAlarm ==
  Checked /\ result = "DATA_NOT_CORRECT" =>
    (\E c \in Colors : ~InOrder(c)) \/ (first = NoColor /\ line.size = 0)

=============================================================================
