------------------------------ MODULE ShapeMain ------------------------------
(***************************************************************************)
(* A shape_main publisher and a shape_main subscriber of srcCxx, on one    *)
(* topic, from discovery to the end of the publisher: the loops            *)
(* run_publisher and run_subscriber and the console of the subscriber.     *)
(*                                                                         *)
(* The DDS implementation between them is external.  It is what the loops  *)
(* see of it: a reader cache that receives what a matched writer does, the *)
(* state of every instance, and take() / take_next_instance().             *)
(*                                                                         *)
(* Left out are options that no test case modelled here gives: reading     *)
(* without taking (-R), --num-iterations of a subscriber, --size-modulo of *)
(* the content filter's case and --datafrag-size.                          *)
(***************************************************************************)
EXTENDS Integers, Sequences, SequencesExt, FiniteSetsExt

CONSTANTS
  NumInstances,        \* --num-instances
  NumIterations,       \* --num-iterations of the publisher, 0 if it has no end
  ShapeSize,           \* -z; 0 makes the size count the iterations
  FinalStates,         \* values of --final-instance-state: "none", "u", "d"
  HistoryDepths,       \* values of -k of the reader, 0 for KEEP_ALL
  Reliabilities,       \* TRUE for -r, FALSE for -b
  TakeModes,           \* TRUE for take_next_instance, FALSE for --take-read
  MaxIterations        \* bound: iterations of a publisher that has no end

ShapeMainAssumption ==
  /\ NumInstances \in Nat \ {0}
  /\ NumIterations \in 0..MaxIterations
  /\ ShapeSize \in Nat /\ HistoryDepths \subseteq Nat
  /\ FinalStates \subseteq {"none", "u", "d"}
  /\ Reliabilities \subseteq BOOLEAN /\ TakeModes \subseteq BOOLEAN

Handles == 0..(NumInstances - 1)     \* the color and the handle of instance j
HANDLE_NIL == -1

VARIABLES
  options,         \* of the two applications, as far as they differ between test cases
  pub_pc,          \* "loop", "final", "acked" or "gone"
  j,               \* the instance the publisher handles next
  n,               \* iterations the publisher has performed
  shapesize,       \* of the sample written last
  all_done,        \* the flag of either application, set by SIGINT
  matched,         \* writer and reader have discovered each other
  cache,           \* the reader's samples, in the order of reception
  instance_state,  \* what the reader knows of every instance
  sub_pc,          \* "reading" or "gone"
  previous_handle, \* of the subscriber's current pass
  console          \* lines printed by the subscriber and not read yet

publisher == <<pub_pc, j, n, shapesize>>
reader == <<cache, instance_state>>
subscriber == <<sub_pc, previous_handle, console>>
appVars == <<options, publisher, all_done, matched, reader, subscriber>>

ShapeOptions == [final_instance_state : FinalStates, history_depth : HistoryDepths,
                 reliable : Reliabilities, take_next_instance : TakeModes]
NotAlive == {"NO_WRITERS", "DISPOSED"}

AppInit ==
  /\ options \in ShapeOptions
  /\ pub_pc = "loop" /\ j = 0 /\ n = 0 /\ shapesize = ShapeSize
  /\ all_done = [a \in {"pub", "sub"} |-> FALSE]
  /\ matched = FALSE
  /\ cache = <<>>
  /\ instance_state = [c \in Handles |-> "unknown"]
  /\ sub_pc = "reading" /\ previous_handle = HANDLE_NIL /\ console = <<>>

----------------------------------------------------------------------------
(* The reader's side of DDS *)

\* KEEP_LAST: the oldest sample of the instance makes room.
KeepLast(entries, c) ==
  LET mine(e) == e.color = c /\ e.valid
      held == {i \in DOMAIN entries : mine(entries[i])}
  IN IF options.history_depth # 0 /\ Cardinality(held) > options.history_depth
     THEN RemoveFirstMatch(entries, mine)
     ELSE entries

Match ==
  /\ ~matched /\ pub_pc # "gone"
  /\ matched' = TRUE
  /\ UNCHANGED <<options, publisher, all_done, reader, subscriber>>

\* A sample reaches the reader, unless the reliability is BEST_EFFORT.
Receive(c, size) ==
  \/ /\ matched
     /\ cache' = KeepLast(Append(cache, [color |-> c, size |-> size, valid |-> TRUE]), c)
     /\ instance_state' = [instance_state EXCEPT ![c] = "ALIVE"]
  \/ /\ matched => ~options.reliable
     /\ UNCHANGED reader

\* The instances in cs are no longer alive; the reader is told of those it knew.
Bury(cs, state) ==
  LET alive == {c \in cs : instance_state[c] = "ALIVE"}
      notice(c) == IF c \in alive THEN <<[color |-> c, size |-> 0, valid |-> FALSE]>> ELSE <<>>
  IN /\ instance_state' = [c \in Handles |-> IF c \in alive THEN state ELSE instance_state[c]]
     /\ cache' = cache \o FlattenSeq([i \in 1..NumInstances |-> notice(i - 1)])

----------------------------------------------------------------------------
(* run_publisher *)

\* Mutant: the size counts the samples, not the iterations.
NextSize_PerSample == IF ShapeSize = 0 THEN shapesize + 1 ELSE shapesize

\* The size is advanced once per iteration, before the first instance.
NextSize == IF ShapeSize = 0 /\ j = 0 THEN shapesize + 1 ELSE shapesize

LastInstance == j = NumInstances - 1

\* One write; the last one of an iteration ends the iteration.  Only a
\* publisher without an end meets the bound.
Write ==
  /\ pub_pc = "loop"
  /\ j = 0 => ~all_done["pub"]
  /\ NumIterations = 0 => n < MaxIterations
  /\ shapesize' = NextSize
  /\ Receive(j, shapesize')
  /\ IF LastInstance
     THEN /\ j' = 0 /\ n' = n + 1
          /\ all_done' = [all_done EXCEPT !["pub"] = @ \/ (NumIterations # 0 /\ NumIterations <= n')]
     ELSE j' = j + 1 /\ UNCHANGED <<n, all_done>>
  /\ UNCHANGED <<options, pub_pc, matched, subscriber>>

LeaveLoop ==
  /\ pub_pc = "loop" /\ j = 0 /\ all_done["pub"]
  /\ pub_pc' = IF options.final_instance_state = "none" THEN "acked" ELSE "final"
  /\ UNCHANGED <<options, j, n, shapesize, all_done, matched, reader, subscriber>>

\* unregister_instance or dispose, instance by instance.
FinishInstance ==
  /\ pub_pc = "final"
  /\ Bury({j}, IF options.final_instance_state = "u" THEN "NO_WRITERS" ELSE "DISPOSED")
  /\ IF LastInstance THEN j' = 0 /\ pub_pc' = "acked" ELSE j' = j + 1 /\ UNCHANGED pub_pc
  /\ UNCHANGED <<options, n, shapesize, all_done, matched, subscriber>>

\* wait_for_acknowledgments, then ~ShapeApplication deletes the writers.
DeleteWriters ==
  /\ pub_pc = "acked"
  /\ pub_pc' = "gone"
  /\ Bury(Handles, "NO_WRITERS")
  /\ UNCHANGED <<options, j, n, shapesize, all_done, matched, subscriber>>

Publisher == Write \/ LeaveLoop \/ FinishInstance \/ DeleteWriters

----------------------------------------------------------------------------
(* run_subscriber *)

\* What is printed for a sample of the sequence taken.
Printed(e) ==
  (IF e.valid THEN <<[kind |-> "sample", color |-> e.color, size |-> e.size]>> ELSE <<>>)
  \o (IF instance_state[e.color] # "ALIVE"
      THEN <<[kind |-> "state", color |-> e.color, state |-> instance_state[e.color]]>>
      ELSE <<>>)

\* The instances the next call finds samples of.
Takeable ==
  {c \in Handles : /\ options.take_next_instance => c > previous_handle
                   /\ \E i \in DOMAIN cache : cache[i].color = c}

\* take_next_instance takes one instance, take takes them all.
TakeSamples ==
  /\ sub_pc = "reading" /\ Takeable # {}
  /\ LET which == IF options.take_next_instance THEN {Min(Takeable)} ELSE Handles
         taken(i) == cache[i].color \in which
     IN /\ console' = console \o FlattenSeq([i \in DOMAIN cache |->
                          IF taken(i) THEN Printed(cache[i]) ELSE <<>>])
        /\ cache' = FlattenSeq([i \in DOMAIN cache |->
                                  IF taken(i) THEN <<>> ELSE <<cache[i]>>])
        /\ previous_handle' = cache[Min({i \in DOMAIN cache : taken(i)})].color
  /\ UNCHANGED <<options, publisher, all_done, matched, instance_state, sub_pc>>

\* RETCODE_NO_DATA ends the pass; the next one starts unless SIGINT came.
EndPass ==
  /\ sub_pc = "reading" /\ Takeable = {}
  /\ previous_handle' = HANDLE_NIL
  /\ sub_pc' = IF all_done["sub"] THEN "gone" ELSE "reading"
  /\ UNCHANGED <<options, publisher, all_done, matched, reader, console>>

Subscriber == TakeSamples \/ EndPass

\* handle_sig
Interrupt(app) ==
  /\ ~all_done[app]
  /\ all_done' = [all_done EXCEPT ![app] = TRUE]
  /\ UNCHANGED <<options, publisher, matched, reader, subscriber>>

=============================================================================
