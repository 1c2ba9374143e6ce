--------------------------- MODULE FinalStateTest ---------------------------
(***************************************************************************)
(* A FinalInstanceState test case from end to end: the two applications of *)
(* ShapeMain and, reading the console of the subscriber,                   *)
(* test_unregistering_w_instances or test_disposing_w_instances.           *)
(***************************************************************************)
EXTENDS ShapeMain

CONSTANT MaxSamplesRead      \* MAX_SAMPLES_READ

\* The publisher's loop is short enough for its end to be read before
\* MAX_SAMPLES_READ lines of the first instance: one per iteration, the end
\* printed with each sample still in the cache, and the end by itself.  (In
\* the suite 200 iterations and the default depth of 1, of 500.)
FinalStateAssumption ==
  /\ ShapeMainAssumption
  /\ NumIterations > 0 /\ 0 \notin HistoryDepths /\ MaxSamplesRead \in Nat
  /\ \A depth \in HistoryDepths : NumIterations + depth + 1 < MaxSamplesRead

VARIABLES
  line,            \* the line matched last
  first,           \* instance_color[0]
  instance_color,  \* as a set
  gone_color,      \* unregistered_instance_color or disposed_instance_color, as a set
  samples_read_per_instance,
  result           \* "waiting", "running" or the ReturnCode returned

checkVars == <<line, first, instance_color, gone_color, samples_read_per_instance, result>>
vars == <<appVars, checkVars>>

\* The state the check function of this test case looks for.
Awaited == IF options.final_instance_state = "d" THEN "DISPOSED" ELSE "NO_WRITERS"

NoLine == [kind |-> "none"]

Init ==
  /\ AppInit
  /\ line = NoLine /\ first = HANDLE_NIL
  /\ instance_color = {} /\ gone_color = {}
  /\ samples_read_per_instance = 0
  /\ result = "waiting"

\* The harness waits for the first [number]; basic_check accepts the sample.
FirstSample ==
  /\ result = "waiting" /\ console # <<>>
  /\ console' = Tail(console)
  /\ IF Head(console).kind = "sample"
     THEN line' = Head(console) /\ result' = "running"
     ELSE UNCHANGED <<line, result>>
  /\ UNCHANGED <<first, instance_color, gone_color, samples_read_per_instance>>

\* Mutant: the pattern matches the color of any line.
Announces_AnyLine == line.kind # "none"

\* The line announces the state awaited.
Announces == line.kind = "state" /\ line.state = Awaited

\* instance_color and gone_color after the line has been looked at.
Known == instance_color \cup (IF line.kind = "sample" THEN {line.color} ELSE {})
Gone == gone_color \cup (IF Announces THEN {line.color} ELSE {})

Note ==
  /\ instance_color' = Known
  /\ gone_color' = Gone
  /\ first' = IF first = HANDLE_NIL THEN line.color ELSE first

\* The comparison after the loop.
Verdict == IF instance_color' = gone_color' THEN "OK" ELSE "DATA_NOT_CORRECT"

\* Mutant: the instances announced are counted without looking whether they
\* are new.
AllGone_Repeats == Announces /\ Cardinality(Known) <= Cardinality(gone_color) + 1

\* The line is a new announcement and makes the two lists equally long.
AllGone ==
  /\ Announces /\ line.color \notin gone_color
  /\ Cardinality(Known) = Cardinality(Gone)

LeaveEarly ==
  /\ result = "running"
  /\ AllGone
  /\ Note
  /\ result' = Verdict
  /\ UNCHANGED <<line, samples_read_per_instance, console>>

NextLine ==
  /\ result = "running"
  /\ ~AllGone
  /\ console # <<>>
  /\ Note
  /\ console' = Tail(console) /\ line' = Head(console)
  /\ samples_read_per_instance' = samples_read_per_instance +
       (IF (line.kind = "sample" \/ Announces) /\ line.color = first' THEN 1 ELSE 0)
  /\ result' = IF samples_read_per_instance' = MaxSamplesRead THEN Verdict ELSE result

\* TIMEOUT: nothing has been printed for long enough, which is far more than
\* a write or a read period, so that everything there was has been read.
Quiet == pub_pc = "gone" /\ cache = <<>> /\ console = <<>>

\* Mutant: the wait for the first sample has no time-out.
Timeout_InLoopOnly ==
  /\ Quiet
  /\ result = "running" /\ ~AllGone
  /\ Note
  /\ result' = Verdict
  /\ UNCHANGED <<line, samples_read_per_instance, console>>

Timeout ==
  /\ Quiet
  /\ \/ /\ result = "running" /\ ~AllGone
        /\ Note
        /\ result' = Verdict
     \/ /\ result = "waiting"
        /\ result' = "DATA_NOT_RECEIVED"
        /\ UNCHANGED <<first, instance_color, gone_color>>
  /\ UNCHANGED <<line, samples_read_per_instance, console>>

Check ==
  /\ FirstSample \/ LeaveEarly \/ NextLine \/ Timeout
  /\ UNCHANGED <<options, publisher, all_done, matched, reader, sub_pc, previous_handle>>

Decided == result \notin {"waiting", "running"}

Applications ==
  /\ Match \/ Publisher \/ Subscriber \/ (Decided /\ \E app \in {"pub", "sub"} : Interrupt(app))
  /\ UNCHANGED checkVars

Next == Applications \/ Check

\* Both applications run, and the check function reads or times out.
Fairness ==
  /\ WF_vars(Publisher /\ UNCHANGED checkVars)
  /\ WF_vars(Subscriber /\ UNCHANGED checkVars)
  /\ WF_vars(Check)

Spec == Init /\ [][Next]_vars /\ Fairness

----------------------------------------------------------------------------
(* Properties *)

\* A conforming DDS implementation is never blamed, whenever the two sides
\* match and however the subscriber's passes interleave with the publisher's
\* last steps: an instance's samples and its end may be printed in one pass
\* before any line of another instance, and its end may be printed twice.
NoFalseAlarm == result # "DATA_NOT_CORRECT"

\* The early end of the loop is justified: when OK is returned every instance
\* whose sample was read really has ended at the reader.
OKMeansEnded ==
  result = "OK" => \A c \in instance_color : instance_state[c] \in NotAlive

\* The test case comes to a verdict.
Decides == <>Decided

=============================================================================
