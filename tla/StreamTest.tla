----------------------------- MODULE StreamTest -----------------------------
(***************************************************************************)
(* The Reliability test cases from end to end: the applications of         *)
(* ShapeMain with -z 0, and the check functions of InstanceChecks on the   *)
(* console of the subscriber.  With -b the samples must come in order,     *)
(* with -r -k 0 there must be no losses.                                   *)
(***************************************************************************)
EXTENDS ShapeMain

CONSTANT MaxSamplesRead      \* MAX_SAMPLES_READ

StreamAssumption ==
  ShapeMainAssumption /\ ShapeSize = 0 /\ NumIterations = 0

VARIABLES
  check, line, first, seq_num, samples_read_per_instance, result, got

checkVars == <<check, line, first, seq_num, samples_read_per_instance, result, got>>
vars == <<appVars, checkVars>>

Chk == INSTANCE InstanceChecks WITH
  Colors <- Handles, NoColor <- HANDLE_NIL, Sizes <- 0..MaxIterations

Waiting == result = "waiting"

Init ==
  /\ AppInit
  /\ options.reliable => options.history_depth = 0
  /\ check = IF options.reliable THEN "reliability" ELSE "order"
  /\ line = Chk!Text
  /\ first = HANDLE_NIL
  /\ seq_num = [c \in {} |-> 0]
  /\ samples_read_per_instance = 0
  /\ result = "waiting"
  /\ got = [c \in Handles |-> <<>>]

Decided == result \in {"OK", "DATA_NOT_CORRECT", "DATA_NOT_RECEIVED"}

\* The subscriber's step 4 matches the first [number] and calls the function.
FirstSample ==
  /\ Waiting
  /\ line' = Head(console)
  /\ result' = "called"
  /\ UNCHANGED <<check, first, seq_num, samples_read_per_instance, got>>

\* A line is read; only samples contain a [number].
ReadLine ==
  /\ console # <<>>
  /\ console' = Tail(console)
  /\ IF Head(console).kind = "sample"
     THEN FirstSample \/ Chk!NextLine(Head(console))
     ELSE ~Decided /\ UNCHANGED checkVars

\* TIMEOUT: the publisher has ended and everything it wrote has been read.
Quiet == pub_pc = "gone" /\ cache = <<>> /\ console = <<>>

Check ==
  /\ \/ ReadLine
     \/ UNCHANGED console /\ (Chk!BasicCheck \/ Chk!OutOfOrder \/ (Quiet /\ Chk!NoMoreData))
  /\ UNCHANGED <<options, publisher, all_done, matched, reader, sub_pc, previous_handle>>

\* The harness interrupts both applications when the check has returned, and
\* an operator may interrupt the publisher at any time.
Applications ==
  /\ \/ Match \/ Publisher \/ Subscriber
     \/ Interrupt("pub")
     \/ Decided /\ Interrupt("sub")
  /\ UNCHANGED checkVars

Next == Applications \/ Check

Spec == Init /\ [][Next]_vars

----------------------------------------------------------------------------
(* Properties *)

\* Applications over a conforming DDS are never blamed: whenever they match,
\* and however the passes of the subscriber cut the iterations of the
\* publisher into pieces, the sizes printed for an instance are in order (-b),
\* and without a gap (-r -k 0).
ConformingPasses == result # "DATA_NOT_CORRECT"

=============================================================================
