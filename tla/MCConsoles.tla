----------------------------- MODULE MCConsoles ----------------------------
(***************************************************************************)
(* All check functions on small instances for TLC: those of ConsoleTests   *)
(* or, in mode function, one of CheckFunctions.                            *)
(***************************************************************************)
EXTENDS ConsoleTests, CheckFunctions

\* The variables of CheckFunctions alone.
localVars ==
  <<function, produced_code, previous_sample_color, pass, filterVars, lifespanVars, first_sample,
    ignore_first_samples, samples_read, seen, orderedVars, coherentVars>>

NoFunction ==
  /\ function = "none" /\ first_sample = 0 /\ ignore_first_samples = FALSE
  /\ samples_read = 0 /\ seen = <<>>
  /\ NoFilter /\ NoLifespan /\ NoOrdered /\ NoCoherent /\ NoCode /\ NoPass

ConsoleInit ==
  \/ TestInit /\ NoFunction
  \/ /\ which = "function" /\ FunctionInit
     /\ seq_num = <<>> /\ got = <<>> /\ NoApplications /\ NoFinalCheck

ConsoleNext ==
  \/ TestNext /\ UNCHANGED localVars
  \/ /\ which = "function" /\ FunctionNext
     /\ UNCHANGED <<which, seq_num, got, appVars, finalVars>>

ConsoleSpec == ConsoleInit /\ [][ConsoleNext]_<<allVars, localVars>> /\ TestFairness

=============================================================================
