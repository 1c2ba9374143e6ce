--------------------------- MODULE CheckFunctions ---------------------------
(***************************************************************************)
(* The check_function of a test case, which the subscriber's process calls *)
(* on the console of its application.  Which one is called is a parameter  *)
(* of the test case; the function then runs alone to its return.  Lines    *)
(* arrive in any order and number, so that what is shown here holds        *)
(* whatever the applications do.                                           *)
(*                                                                         *)
(* The line matched, the code and the first instance are variables of all  *)
(* check functions; InstanceChecks, which models the first two of them,    *)
(* declares them.                                                          *)
(***************************************************************************)
EXTENDS InstanceChecks, Integers, FiniteSets

CONSTANTS
  Topics,
  Gaps, FilterSamples,                            \* time-based filter
  MaxRun, LifespanSamples,                        \* lifespan
  Values, ReceiverSamples,                        \* receivers
  MaxGroup, Tolerance, GroupMinimum, OrderedSamples,          \* ordered access
  PerInstance, ExpectedTotal, MaxSets, MaxPasses, MaxPass     \* coherent sets

VARIABLES
  function,    \* check_function
  produced_code, previous_sample_color, pass,
  instances, ignoring, missed_samples, history,
  consecutive_samples, ignore_first_sample, lifespan_expiration_observed, run, completed,
  first_sample, ignore_first_samples, samples_read, seen,
  color_equal_count, color_different_count, ordered_access_group_count,
  behavior_mismatch_count, shown,
  run_count, new_coherent_set_read, ignore_firsts_coherent_set, coherent_sets_count,
  coherent_set_sample_count, others, before, accepted

common == <<line, result>>
filterVars == <<instances, ignoring, missed_samples, history>>
lifespanVars == <<consecutive_samples, ignore_first_sample, lifespan_expiration_observed, run,
                  completed>>
receiverVars == <<check, first_sample, ignore_first_samples, samples_read, seen>>
orderedVars == <<color_equal_count, color_different_count, ordered_access_group_count,
                 behavior_mismatch_count, shown>>
coherentVars == <<run_count, new_coherent_set_read, ignore_firsts_coherent_set,
                  coherent_sets_count, coherent_set_sample_count, others, before, accepted>>
functionVars == <<function, common, first, samples_read_per_instance, produced_code,
          previous_sample_color, pass, filterVars, lifespanVars, receiverVars, orderedVars,
          coherentVars>>

Filter == INSTANCE TimeBasedFilterCheck WITH MaxSamples <- FilterSamples
Lifespan == INSTANCE LifespanCheck WITH MaxSamples <- LifespanSamples
Receivers == INSTANCE ReceiverChecks WITH MaxSamplesRead <- ReceiverSamples
Ordered == INSTANCE OrderedAccessCheck WITH MaxSamplesRead <- OrderedSamples
Coherent == INSTANCE CoherentSetsCheck

ASSUME CheckFunctionsAssumption ==
  /\ Filter!FilterAssumption
  /\ Lifespan!LifespanAssumption
  /\ Receivers!ReceiverAssumption
  /\ Ordered!OrderedAccessAssumption
  /\ Coherent!CoherentSetsAssumption

\* The local variables of a function that does not run.
NoFilter == /\ instances = {} /\ ignoring = {} /\ missed_samples = <<>>
            /\ history = <<>>
NoLifespan == /\ consecutive_samples = <<>> /\ ignore_first_sample = {} /\ run = <<>>
              /\ lifespan_expiration_observed = FALSE /\ completed = <<>>
NoReceivers == /\ check = "none" /\ first_sample = 0 /\ ignore_first_samples = FALSE
               /\ samples_read = 0 /\ seen = <<>>
NoOrdered == /\ color_equal_count = 0 /\ color_different_count = 0 /\ shown = <<>>
             /\ ordered_access_group_count = 0 /\ behavior_mismatch_count = 0
NoCoherent == /\ run_count = <<>> /\ new_coherent_set_read = FALSE /\ before = NoColor
              /\ ignore_firsts_coherent_set = 0 /\ coherent_sets_count = 0
              /\ coherent_set_sample_count = 0 /\ others = 0 /\ accepted = {}
NoCode == produced_code = "none"
NoPass == previous_sample_color = NoColor /\ pass = <<>>
NoInstances == first = NoColor /\ samples_read_per_instance = 0

FunctionInit ==
  \/ /\ function = "filter" /\ Filter!Init
     /\ NoLifespan /\ NoReceivers /\ NoOrdered /\ NoCoherent /\ NoCode /\ NoPass
  \/ /\ function = "lifespan" /\ Lifespan!Init
     /\ NoFilter /\ NoReceivers /\ NoOrdered /\ NoCoherent /\ NoPass
  \/ /\ function = "receivers" /\ Receivers!Init
     /\ NoFilter /\ NoLifespan /\ NoOrdered /\ NoCoherent /\ NoCode /\ NoPass /\ NoInstances
  \/ /\ function = "ordered" /\ Ordered!Init
     /\ NoFilter /\ NoLifespan /\ NoReceivers /\ NoCoherent
  \/ /\ function = "coherent" /\ Coherent!Init
     /\ NoFilter /\ NoLifespan /\ NoReceivers /\ NoOrdered

FunctionNext ==
  /\ UNCHANGED function
  /\ \/ /\ function = "filter" /\ Filter!Next
        /\ UNCHANGED <<lifespanVars, receiverVars, orderedVars, coherentVars, produced_code,
                       previous_sample_color, pass>>
     \/ /\ function = "lifespan" /\ Lifespan!Next
        /\ UNCHANGED <<filterVars, receiverVars, orderedVars, coherentVars,
                       previous_sample_color, pass>>
     \/ /\ function = "receivers" /\ Receivers!Next
        /\ UNCHANGED <<filterVars, lifespanVars, orderedVars, coherentVars, produced_code,
                       previous_sample_color, pass, first, samples_read_per_instance>>
     \/ /\ function = "ordered" /\ Ordered!Next
        /\ UNCHANGED <<filterVars, lifespanVars, receiverVars, coherentVars>>
     \/ /\ function = "coherent" /\ Coherent!Next
        /\ UNCHANGED <<filterVars, lifespanVars, receiverVars, orderedVars>>

FunctionSpec == FunctionInit /\ [][FunctionNext]_functionVars

----------------------------------------------------------------------------
(* Properties: those of the function that runs *)

\* test_reading_1_sample_every_10_samples_w_instances: DATA_NOT_CORRECT has a
\* witness in the stream of some instance, no sample too early and no losses
\* above 10% of an instance are passed over in the loop, and OK needs 90% of
\* the samples of the first instance.
FilterAlarmsJustified ==
  function = "filter" => Filter!AlarmHasWitness /\ Filter!OKMeansEnough

\* test_lifespan_2_3_consecutive_samples_w_instances: OK vouches for every run
\* that ended, of every instance, and for at least one expiration; a stream of
\* good runs is not DATA_NOT_CORRECT once a run has ended.
LifespanIsExact ==
  function = "lifespan" => Lifespan!OKMeansExpired /\ Lifespan!NoFalseAlarm

\* test_size_receivers and test_color_receivers: RECEIVING_FROM_BOTH exactly
\* when the whole history shows two publishers; test_size_less_than_20: OK
\* exactly when all samples are in the range.
ReceiversAreExact ==
  function = "receivers" => Receivers!BothIsExact /\ Receivers!RangeIsExact

\* ordered_access_w_instances: a behavior is reported only with the evidence of
\* the first pass that shows one and of almost all passes after it, and
\* DATA_NOT_CORRECT needs more disagreeing passes than are tolerated.
OrderedHasEvidence ==
  function = "ordered" => Ordered!VerdictHasEvidence /\ Ordered!TimingForgiven

\* _coherent_sets_w_instances: OK means that the [number]s of every pass judged
\* were a multiple of expected_total, and complete sets whose samples come
\* instance by instance are rejected only where a color continues over the
\* border of a pass or of a topic.
CoherentSetsJudged ==
  function = "coherent" => Coherent!OKMeansWholeTotals /\ Coherent!GroupedSetsAccepted

=============================================================================
