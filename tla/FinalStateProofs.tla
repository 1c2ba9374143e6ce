-------------------------- MODULE FinalStateProofs -------------------------
(***************************************************************************)
(* Proofs about the FinalInstanceState test cases for any number of        *)
(* instances and iterations: what OK means, and that a conforming pair is  *)
(* never blamed.                                                           *)
(***************************************************************************)
EXTENDS InstanceChecksProofs, FiniteSetTheorems

Entries == [color : Final!Handles, size : Nat, valid : BOOLEAN]
SampleLines == [kind : {"sample"}, color : Final!Handles, size : Nat]
StateLines == [kind : {"state"}, color : Final!Handles, state : States]

\* A line that announces the end of an instance stays true for good.
Truthful(l, known) ==
  l.kind = "state" /\ l.state \in Final!NotAlive => known[l.color] \in Final!NotAlive
TrueLines(known) == {l \in SampleLines \cup StateLines : Truthful(l, known)}

AppTypes ==
  /\ j \in Final!Handles /\ shapesize \in Nat
  /\ cache \in Seq(Entries)
  /\ instance_state \in [Final!Handles -> States]

\* Nothing has ended while the publisher writes.
LoopInv == pub_pc = "loop" => \A c \in Final!Handles : instance_state[c] \notin Final!NotAlive

\* What is announced has happened, on the console and in the lists.
AnnouncedInv ==
  /\ console \in Seq(TrueLines(instance_state))
  /\ final_line \in TrueLines(instance_state) \cup {Final!NoLine}
  /\ \A c \in gone_color : c \in Final!Handles /\ instance_state[c] \in Final!NotAlive

\* The function compares the lists when it returns and not again.
VerdictInv ==
  /\ final_result = "running" => final_line \in TrueLines(instance_state)
  /\ final_result = "OK" => instance_color = gone_color

EndedInv == AppTypes /\ LoopInv /\ AnnouncedInv /\ VerdictInv

----------------------------------------------------------------------------
(* The operators of the applications, as the stream uses them too. *)

LEMMA SameFlatten ==
  ASSUME NEW s
  PROVE  Final!FlattenSeq(s) = Stream!FlattenSeq(s)
  BY DEF Final!FlattenSeq, Stream!FlattenSeq

\* What is true of all elements of the pieces is true of the whole.
LEMMA Flattened ==
  ASSUME NEW S, NEW s \in Seq(Seq(S))
  PROVE  Final!FlattenSeq(s) \in Seq(S)
  BY FlattenTypes, SameFlatten

----------------------------------------------------------------------------
(* The reader's cache. *)

LEMMA KeptLast ==
  ASSUME NEW entries \in Seq(Entries), NEW c
  PROVE  Final!KeepLast(entries, c) \in Seq(Entries)
<1> DEFINE mine(e) == e.color = c /\ e.valid
           I == {i \in 1..Len(entries) : mine(entries[i])}
<1>1. Len(entries) \in Nat
  OBVIOUS
<1>2. ASSUME I # {}
      PROVE  Final!Min(I) \in 1..Len(entries)
  <2>1. I \in SUBSET Nat /\ I \subseteq 1..Len(entries)
    BY <1>1
  <2> HIDE DEF I
  <2>2. \E x \in I : \A y \in I : x <= y
    BY <1>2, <2>1, SmallestOf
  <2>3. Final!Min(I) \in I
    BY <2>2 DEF Final!Min
  <2> QED
    BY <2>1, <2>3
<1>3. ASSUME NEW k \in 1..Len(entries)
      PROVE  Final!RemoveAt(entries, k) \in Seq(Entries)
  <2>1. SubSeq(entries, 1, k - 1) \in Seq(Entries)
    BY <1>1
  <2>2. SubSeq(entries, k + 1, Len(entries)) \in Seq(Entries)
    BY <1>1
  <2> QED
    BY <2>1, <2>2 DEF Final!RemoveAt
<1>4. Final!RemoveFirstMatch(entries, mine) \in Seq(Entries)
  <2>1. CASE I = {}
    BY <2>1 DEF Final!RemoveFirstMatch
  <2>2. CASE I # {}
    <3>1. Final!RemoveFirstMatch(entries, mine) = Final!RemoveAt(entries, Final!Min(I))
      BY <2>2 DEF Final!RemoveFirstMatch, Final!SelectInSeq
    <3> HIDE DEF I
    <3> QED
      BY <1>2, <1>3, <2>2, <3>1
  <2> QED
    BY <2>1, <2>2
<1> QED
  BY <1>4 DEF Final!KeepLast

\* Instances only end in Bury.
LEMMA Buried ==
  ASSUME Final!ShapeMainAssumption, AppTypes, NEW cs \in SUBSET Final!Handles,
         NEW state \in Final!NotAlive, Final!Bury(cs, state)
  PROVE  /\ cache' \in Seq(Entries) /\ instance_state' \in [Final!Handles -> States]
         /\ \A c \in Final!Handles :
              instance_state[c] \in Final!NotAlive => instance_state'[c] \in Final!NotAlive
<1> DEFINE alive == {c \in cs : instance_state[c] = "ALIVE"}
           notice(c) == IF c \in alive THEN <<[color |-> c, size |-> 0, valid |-> FALSE]>>
                        ELSE << >>
           notices == [i \in 1..FinalInstances |-> notice(i - 1)]
<1>1. FinalInstances \in Nat
  BY DEF Final!ShapeMainAssumption
<1>2. \A i \in 1..FinalInstances : i - 1 \in Final!Handles
  BY <1>1 DEF Final!Handles
<1>3. \A c \in Final!Handles : notice(c) \in Seq(Entries)
  <2> SUFFICES ASSUME NEW c \in Final!Handles PROVE notice(c) \in Seq(Entries)
    OBVIOUS
  <2> DEFINE entry == [color |-> c, size |-> 0, valid |-> FALSE]
  <2>1. entry \in Entries
    BY DEF Entries
  <2>2. notice(c) = IF c \in alive THEN <<entry>> ELSE << >>
    OBVIOUS
  <2> HIDE DEF entry, notice, alive
  <2>3. <<entry>> \in Seq(Entries) /\ << >> \in Seq(Entries)
    BY <2>1
  <2> QED
    BY <2>2, <2>3
<1>4. notices \in Seq(Seq(Entries))
  <2> HIDE DEF notice
  <2> QED
    BY <1>1, <1>2, <1>3
<1>5. Final!FlattenSeq(notices) \in Seq(Entries)
  <2> HIDE DEF notices
  <2> QED
    BY <1>4, Flattened
<1>6. cache' = cache \o Final!FlattenSeq(notices)
  BY DEF Final!Bury
<1>7. instance_state' = [c \in Final!Handles |-> IF c \in alive THEN state ELSE instance_state[c]]
  BY DEF Final!Bury
<1>8. cache' \in Seq(Entries)
  <2> HIDE DEF notices
  <2> QED
    BY <1>5, <1>6 DEF AppTypes
<1>9. Final!NotAlive \subseteq States
  BY DEF Final!NotAlive, States
<1> QED
  BY <1>7, <1>8, <1>9 DEF AppTypes

\* The lines of a pass tell what the reader knows.
LEMMA PrintedTruth ==
  ASSUME instance_state \in [Final!Handles -> States], NEW e \in Entries
  PROVE  Final!Printed(e) \in Seq(TrueLines(instance_state))
<1> DEFINE sample == [kind |-> "sample", color |-> e.color, size |-> e.size]
           state == [kind |-> "state", color |-> e.color, state |-> instance_state[e.color]]
<1>1. sample \in TrueLines(instance_state)
  <2>1. sample \in SampleLines /\ sample.kind = "sample"
    BY DEF SampleLines, Entries
  <2> QED
    BY <2>1 DEF TrueLines, Truthful
<1>2. state \in TrueLines(instance_state)
  <2>1. state \in StateLines /\ state.state = instance_state[state.color]
    BY DEF StateLines, Entries
  <2> QED
    BY <2>1 DEF TrueLines, Truthful
<1>3. Final!Printed(e) = (IF e.valid THEN <<sample>> ELSE << >>)
                   \o (IF instance_state[e.color] # "ALIVE" THEN <<state>> ELSE << >>)
  BY DEF Final!Printed
<1> HIDE DEF sample, state
<1> QED
  BY <1>1, <1>2, <1>3

LEMMA Taken ==
  ASSUME AppTypes, console \in Seq(TrueLines(instance_state)), Final!TakeSamples
  PROVE  cache' \in Seq(Entries) /\ console' \in Seq(TrueLines(instance_state))
<1> DEFINE wanted == IF options.take_next_instance THEN {Final!Min(Final!Takeable)}
                     ELSE Final!Handles
           printed == [i \in DOMAIN cache |->
                         IF cache[i].color \in wanted THEN Final!Printed(cache[i]) ELSE << >>]
           left == [i \in DOMAIN cache |->
                      IF cache[i].color \in wanted THEN << >> ELSE <<cache[i]>>]
           T == TrueLines(instance_state)
<1>1. Len(cache) \in Nat /\ DOMAIN cache = 1..Len(cache)
      /\ \A i \in DOMAIN cache : cache[i] \in Entries
  BY DEF AppTypes
<1>2. console' = console \o Final!FlattenSeq(printed) /\ cache' = Final!FlattenSeq(left)
  BY DEF Final!TakeSamples
<1>3. \A i \in DOMAIN cache : Final!Printed(cache[i]) \in Seq(T)
  BY <1>1, PrintedTruth DEF AppTypes
<1> HIDE DEF wanted, T
<1>4. printed \in Seq(Seq(T))
  BY <1>1, <1>3
<1>5. left \in Seq(Seq(Entries))
  BY <1>1
<1> HIDE DEF printed, left
<1>6. Final!FlattenSeq(printed) \in Seq(T) /\ Final!FlattenSeq(left) \in Seq(Entries)
  BY <1>4, <1>5, Flattened
<1> QED
  BY <1>2, <1>6 DEF T

----------------------------------------------------------------------------
(* The steps. *)

\* What has ended stays so.
Persists ==
  \A c \in Final!Handles :
    instance_state[c] \in Final!NotAlive => instance_state'[c] \in Final!NotAlive

LEMMA StillTrue ==
  ASSUME Persists
  PROVE  TrueLines(instance_state) \subseteq TrueLines(instance_state')
<1> SUFFICES ASSUME NEW l \in TrueLines(instance_state)
             PROVE  l \in TrueLines(instance_state')
  OBVIOUS
<1>1. l \in SampleLines \cup StateLines /\ Truthful(l, instance_state)
  BY DEF TrueLines
<1>2. l.color \in Final!Handles
  BY <1>1 DEF SampleLines, StateLines
<1>3. Truthful(l, instance_state')
  BY <1>1, <1>2 DEF Truthful, Persists
<1> QED
  BY <1>1, <1>3 DEF TrueLines

LEMMA WriteStep ==
  ASSUME Final!ShapeMainAssumption, AppTypes, LoopInv, Final!Write
  PROVE  AppTypes' /\ LoopInv' /\ Persists
<1>1. FinalInstances \in Nat /\ FinalInstances > 0
  BY DEF Final!ShapeMainAssumption
<1>2. shapesize' \in Nat
  BY DEF Final!Write, Final!NextSize, AppTypes
<1>3. j' \in Final!Handles
  BY <1>1 DEF Final!Write, Final!LastInstance, AppTypes, Final!Handles
<1>4. \A c \in Final!Handles : instance_state[c] \notin Final!NotAlive
  BY DEF Final!Write, LoopInv
<1> DEFINE entry == [color |-> j, size |-> shapesize', valid |-> TRUE]
<1>5. entry \in Entries
  BY <1>2 DEF Entries, AppTypes
<1>6. \/ /\ cache' = Final!KeepLast(Append(cache, entry), j)
         /\ instance_state' = [instance_state EXCEPT ![j] = "ALIVE"]
      \/ UNCHANGED <<cache, instance_state>>
  BY DEF Final!Write, Final!Receive, Final!reader
<1> HIDE DEF entry
<1>7. cache' \in Seq(Entries)
  <2>1. Append(cache, entry) \in Seq(Entries)
    BY <1>5 DEF AppTypes
  <2> QED
    BY <1>6, <2>1, KeptLast DEF AppTypes
<1>8. /\ instance_state' \in [Final!Handles -> States]
      /\ \A c \in Final!Handles : instance_state'[c] \notin Final!NotAlive
  BY <1>4, <1>6 DEF AppTypes, States, Final!NotAlive
<1>9. AppTypes'
  BY <1>2, <1>3, <1>7, <1>8 DEF AppTypes
<1>10. LoopInv'
  BY <1>8 DEF LoopInv
<1> QED
  BY <1>4, <1>9, <1>10 DEF Persists

LEMMA PublisherStep ==
  ASSUME Final!ShapeMainAssumption, AppTypes, LoopInv, Final!Publisher
  PROVE  AppTypes' /\ LoopInv' /\ Persists /\ console' = console
<1>1. FinalInstances \in Nat /\ FinalInstances > 0
  BY DEF Final!ShapeMainAssumption
<1>2. CASE Final!Write
  BY <1>2, WriteStep DEF Final!Write, Final!subscriber
<1>3. CASE Final!LeaveLoop
  BY <1>3 DEF Final!LeaveLoop, Final!reader, Final!subscriber, AppTypes, LoopInv, Persists
<1>4. CASE Final!FinishInstance
  <2> DEFINE state == IF options.final_instance_state = "u" THEN "NO_WRITERS" ELSE "DISPOSED"
  <2>1. Final!Bury({j}, state) /\ state \in Final!NotAlive /\ {j} \in SUBSET Final!Handles
    BY <1>4 DEF Final!FinishInstance, Final!NotAlive, AppTypes
  <2> HIDE DEF state
  <2>2. cache' \in Seq(Entries) /\ instance_state' \in [Final!Handles -> States] /\ Persists
    BY <2>1, Buried DEF Persists
  <2>3. j' \in Final!Handles /\ shapesize' = shapesize /\ pub_pc' # "loop" /\ console' = console
    BY <1>1, <1>4 DEF Final!FinishInstance, Final!LastInstance, Final!Handles, AppTypes,
                     Final!subscriber
  <2> QED
    BY <2>2, <2>3 DEF AppTypes, LoopInv
<1>5. CASE Final!DeleteWriters
  <2>1. Final!Bury(Final!Handles, "NO_WRITERS") /\ "NO_WRITERS" \in Final!NotAlive
    BY <1>5 DEF Final!DeleteWriters, Final!NotAlive
  <2>2. cache' \in Seq(Entries) /\ instance_state' \in [Final!Handles -> States] /\ Persists
    BY <2>1, Buried DEF Persists
  <2>3. j' = j /\ shapesize' = shapesize /\ pub_pc' # "loop" /\ console' = console
    BY <1>5 DEF Final!DeleteWriters, Final!subscriber
  <2> QED
    BY <2>2, <2>3 DEF AppTypes, LoopInv
<1> QED
  BY <1>2, <1>3, <1>4, <1>5 DEF Final!Publisher

\* The applications: the lists of the function do not change, and stay true.
LEMMA ApplicationsStep ==
  ASSUME Final!ShapeMainAssumption, EndedInv, Final!Applications
  PROVE  EndedInv'
<1> USE DEF EndedInv
<1> DEFINE T == TrueLines(instance_state)
           TT == TrueLines(instance_state')
<1>1. UNCHANGED <<final_line, instance_color, gone_color, final_result>>
  BY DEF Final!Applications, Final!checkVars
<1>2. AppTypes' /\ LoopInv' /\ Persists /\ console' \in Seq(T)
  <2>1. CASE Final!Match
    BY <2>1 DEF Final!Match, Final!publisher, Final!reader, Final!subscriber, AppTypes,
                LoopInv, Persists, AnnouncedInv
  <2>2. CASE Final!Publisher
    BY <2>2, PublisherStep DEF AnnouncedInv
  <2>3. CASE Final!TakeSamples
    <3>1. cache' \in Seq(Entries) /\ console' \in Seq(T)
      BY <2>3, Taken DEF AnnouncedInv
    <3>2. UNCHANGED <<pub_pc, j, shapesize, instance_state>>
      BY <2>3 DEF Final!TakeSamples, Final!publisher
    <3> QED
      BY <3>1, <3>2 DEF AppTypes, LoopInv, Persists
  <2>4. CASE Final!EndPass
    BY <2>4 DEF Final!EndPass, Final!publisher, Final!reader, AppTypes, LoopInv,
                Persists, AnnouncedInv
  <2>5. ASSUME NEW app, Final!Interrupt(app)
        PROVE  AppTypes' /\ LoopInv' /\ Persists /\ console' \in Seq(T)
    BY <2>5 DEF Final!Interrupt, Final!publisher, Final!reader, Final!subscriber, AppTypes,
                LoopInv, Persists, AnnouncedInv
  <2> QED
    BY <2>1, <2>2, <2>3, <2>4, <2>5 DEF Final!Applications, Final!Subscriber
<1>3. T \subseteq TT
  BY <1>2, StillTrue
<1>4. AnnouncedInv'
  <2>1. console' \in Seq(TT)
    <3> HIDE DEF T, TT
    <3> QED
      BY <1>2, <1>3
  <2>2. final_line' \in TT \cup {Final!NoLine}
    BY <1>1, <1>3 DEF AnnouncedInv
  <2>3. \A c \in gone_color' : c \in Final!Handles /\ instance_state'[c] \in Final!NotAlive
    BY <1>1, <1>2 DEF AnnouncedInv, Persists
  <2> QED
    BY <2>1, <2>2, <2>3 DEF AnnouncedInv
<1>5. VerdictInv'
  BY <1>1, <1>3 DEF VerdictInv
<1> QED
  BY <1>2, <1>4, <1>5

LEMMA AwaitedEnds == Final!Awaited \in Final!NotAlive
  BY DEF Final!Awaited, Final!NotAlive

LEMMA CheckStep ==
  ASSUME EndedInv, Final!Check
  PROVE  EndedInv'
<1> USE DEF EndedInv
<1> DEFINE T == TrueLines(instance_state)
<1>1. UNCHANGED <<pub_pc, j, shapesize, cache, instance_state>>
  BY DEF Final!Check, Final!publisher, Final!reader
<1>2. AppTypes' /\ LoopInv'
  BY <1>1 DEF AppTypes, LoopInv
<1>3. ASSUME final_result = "running"
      PROVE  \A c \in Final!Gone : c \in Final!Handles /\ instance_state[c] \in Final!NotAlive
  <2>1. final_line \in SampleLines \cup StateLines /\ Truthful(final_line, instance_state)
    BY <1>3 DEF VerdictInv, TrueLines
  <2>2. final_line.color \in Final!Handles
    BY <2>1 DEF SampleLines, StateLines
  <2>3. Final!Announces => instance_state[final_line.color] \in Final!NotAlive
    BY <2>1, AwaitedEnds DEF Final!Announces, Truthful
  <2> QED
    BY <2>2, <2>3 DEF Final!Gone, AnnouncedInv
<1>4. console \in Seq(T)
  BY DEF AnnouncedInv
<1>5. ASSUME console # << >>
      PROVE  Head(console) \in T /\ Tail(console) \in Seq(T)
  <2> HIDE DEF T
  <2> QED
    BY <1>4, <1>5
<1>6. AnnouncedInv' /\ VerdictInv'
  <2>1. CASE Final!FirstSample
    <3>1. /\ final_result = "waiting" /\ console # << >> /\ console' = Tail(console)
          /\ gone_color' = gone_color
          /\ \/ final_line' = Head(console) /\ final_result' = "running"
             \/ final_line' = final_line /\ final_result' = final_result
      BY <2>1 DEF Final!FirstSample
    <3>2. console' \in Seq(T) /\ Head(console) \in T
      BY <1>5, <3>1
    <3>3. final_line \in T \cup {Final!NoLine}
      BY DEF AnnouncedInv
    <3>4. AnnouncedInv'
      BY <1>1, <3>1, <3>2, <3>3 DEF AnnouncedInv
    <3>5. VerdictInv'
      BY <1>1, <3>1, <3>2 DEF VerdictInv
    <3> QED
      BY <3>4, <3>5
  <2>2. CASE Final!LeaveEarly
    <3>1. /\ final_result = "running" /\ gone_color' = Final!Gone
          /\ console' = console /\ final_line' = final_line
          /\ final_result' = IF instance_color' = gone_color' THEN "OK" ELSE "DATA_NOT_CORRECT"
      BY <2>2 DEF Final!LeaveEarly, Final!Note, Final!Verdict
    <3>2. AnnouncedInv'
      BY <1>1, <1>3, <3>1 DEF AnnouncedInv
    <3>3. VerdictInv'
      BY <3>1 DEF VerdictInv
    <3> QED
      BY <3>2, <3>3
  <2>3. CASE Final!NextLine
    <3>1. /\ final_result = "running" /\ gone_color' = Final!Gone /\ console # << >>
          /\ console' = Tail(console) /\ final_line' = Head(console)
          /\ \/ final_result' = final_result
             \/ final_result' = IF instance_color' = gone_color' THEN "OK" ELSE "DATA_NOT_CORRECT"
      BY <2>3 DEF Final!NextLine, Final!Note, Final!Verdict
    <3>2. console' \in Seq(T) /\ final_line' \in T
      BY <1>5, <3>1
    <3>3. AnnouncedInv'
      BY <1>1, <1>3, <3>1, <3>2 DEF AnnouncedInv
    <3>4. VerdictInv'
      BY <1>1, <3>1, <3>2 DEF VerdictInv
    <3> QED
      BY <3>3, <3>4
  <2>4. CASE Final!Timeout
    <3>1. /\ console' = console /\ final_line' = final_line
          /\ \/ /\ final_result = "running" /\ gone_color' = Final!Gone
                /\ final_result' = IF instance_color' = gone_color' THEN "OK"
                                   ELSE "DATA_NOT_CORRECT"
             \/ final_result' = "DATA_NOT_RECEIVED" /\ gone_color' = gone_color
      BY <2>4 DEF Final!Timeout, Final!Note, Final!Verdict
    <3>2. AnnouncedInv'
      BY <1>1, <1>3, <3>1 DEF AnnouncedInv
    <3>3. VerdictInv'
      BY <3>1 DEF VerdictInv
    <3> QED
      BY <3>2, <3>3
  <2> QED
    BY <2>1, <2>2, <2>3, <2>4 DEF Final!Check
<1> QED
  BY <1>2, <1>6

LEMMA InitEnded ==
  ASSUME Final!ShapeMainAssumption
  PROVE  Final!Init => EndedInv
<1> SUFFICES ASSUME Final!Init PROVE EndedInv
  OBVIOUS
<1>1. FinalInstances \in Nat /\ FinalInstances > 0
  BY DEF Final!ShapeMainAssumption
<1>2. AppTypes
  BY <1>1 DEF Final!Init, Final!AppInit, AppTypes, Final!Handles, States
<1>3. LoopInv
  BY DEF Final!Init, Final!AppInit, LoopInv, Final!NotAlive
<1>4. AnnouncedInv /\ VerdictInv
  BY DEF Final!Init, Final!AppInit, AnnouncedInv, VerdictInv
<1> QED
  BY <1>2, <1>3, <1>4 DEF EndedInv

LEMMA NextEnded ==
  ASSUME Final!ShapeMainAssumption, EndedInv, Final!Next
  PROVE  EndedInv'
  BY ApplicationsStep, CheckStep DEF Final!Next

\* A function that returns OK is right (test_unregistering_w_instances and
\* test_disposing_w_instances with run_publisher and run_subscriber): every
\* instance whose sample it read has ended at the reader, however the passes of
\* the subscriber cut the writes and the last steps of the publisher into
\* pieces, for any number of instances and iterations.
THEOREM OKIsEnded == TestSpec => []OKMeansEnded
<1> DEFINE I == which = "final" => EndedInv
<1>1. Final!ShapeMainAssumption
  BY ConsoleTestsAssumption DEF Final!FinalStateAssumption
<1>2. TestInit => I
  BY <1>1, InitEnded DEF TestInit
<1>3. I /\ [TestNext]_allVars => I'
  <2> SUFFICES ASSUME I, [TestNext]_allVars, which' = "final" PROVE EndedInv'
    OBVIOUS
  <2>1. CASE TestNext
    <3>1. which = "final" /\ Final!Next
      BY <2>1 DEF TestNext
    <3> QED
      BY <1>1, <3>1, NextEnded
  <2>2. CASE UNCHANGED allVars
    BY <2>2 DEF EndedInv, AppTypes, LoopInv, AnnouncedInv, VerdictInv, allVars, appVars, finalVars
  <2> QED
    BY <2>1, <2>2
<1>4. I => OKMeansEnded
  BY DEF EndedInv, AnnouncedInv, VerdictInv, OKMeansEnded, Final!OKMeansEnded
<1> HIDE DEF I
<1> QED
  BY <1>2, <1>3, <1>4, PTL DEF TestSpec

----------------------------------------------------------------------------
(* Counting the elements of a sequence that lie in a set. *)

Hits(s, A) == {i \in DOMAIN s : s[i] \in A}
Count(s, A) == Cardinality(Hits(s, A))

LEMMA CountType ==
  ASSUME NEW S, NEW s \in Seq(S), NEW A
  PROVE  /\ Count(s, A) \in Nat /\ IsFiniteSet(Hits(s, A))
         /\ Count(s, A) = 0 <=> \A x \in Elements(s) : x \notin A
<1> DEFINE I == Hits(s, A)
<1>1. Len(s) \in Nat /\ DOMAIN s = 1..Len(s)
  OBVIOUS
<1>2. IsFiniteSet(1..Len(s))
  BY <1>1, FS_Interval
<1>3. IsFiniteSet(I)
  <2>1. I \in SUBSET (1..Len(s))
    BY <1>1 DEF Hits
  <2> HIDE DEF I
  <2> QED
    BY <1>2, <2>1, FS_Subset
<1>4. Cardinality(I) \in Nat /\ (Cardinality(I) = 0 <=> I = {})
  BY <1>3, FS_CardinalityType, FS_EmptySet
<1>5. I = {} <=> \A x \in Elements(s) : x \notin A
  BY DEF Elements, Hits
<1> HIDE DEF I
<1>6. Count(s, A) = Cardinality(I)
  BY DEF Count, I
<1> QED
  BY <1>3, <1>4, <1>5, <1>6 DEF I

LEMMA CountJoin ==
  ASSUME NEW S, NEW s \in Seq(S), NEW t \in Seq(S), NEW A
  PROVE  Count(s \o t, A) = Count(s, A) + Count(t, A)
<1> DEFINE u == s \o t
           M == Len(s)
           N == Len(t)
           I == Hits(s, A)
           J == Hits(t, A)
           J1 == {i \in (M + 1)..(M + N) : u[i] \in A}
           U == Hits(u, A)
<1>1. M \in Nat /\ N \in Nat /\ DOMAIN s = 1..M /\ DOMAIN t = 1..N /\ DOMAIN u = 1..(M + N)
  OBVIOUS
<1>2. \A i \in 1..M : i \in 1..(M + N) /\ u[i] = s[i]
  BY <1>1
<1>3. \A i \in 1..N : M + i \in (M + 1)..(M + N) /\ u[M + i] = t[i]
  BY <1>1
<1>4. \A i \in (M + 1)..(M + N) : i - M \in 1..N /\ i = M + (i - M) /\ i \notin 1..M
  BY <1>1
<1>5. \A i : i \in 1..(M + N) <=> i \in 1..M \/ i \in (M + 1)..(M + N)
  BY <1>1
<1>6. IsFiniteSet(I) /\ IsFiniteSet(J)
  BY CountType
<1> HIDE DEF u, M, N
<1>7. U = I \cup J1 /\ I \cap J1 = {}
  BY <1>1, <1>2, <1>4, <1>5 DEF Hits
<1>8. IsFiniteSet(J1) /\ Cardinality(J1) = Cardinality(J)
  <2> DEFINE f == [i \in J |-> M + i]
  <2>1. \A i \in J : f[i] \in J1
    BY <1>1, <1>3 DEF Hits
  <2>2. f \in [J -> J1]
    BY <2>1
  <2>3. \A i, k \in J : f[i] = f[k] => i = k
    BY <1>1 DEF Hits
  <2>4. \A k \in J1 : \E i \in J : f[i] = k
    <3> SUFFICES ASSUME NEW k \in J1 PROVE \E i \in J : f[i] = k
      OBVIOUS
    <3>1. k - M \in 1..N /\ k = M + (k - M) /\ u[k] \in A
      BY <1>4
    <3>2. t[k - M] \in A
      BY <1>3, <3>1
    <3>3. k - M \in J
      BY <1>1, <3>1, <3>2 DEF Hits
    <3> QED
      BY <3>1, <3>3
  <2> HIDE DEF f, J, J1
  <2>5. f \in Bijection(J, J1)
    <3>1. f \in Injection(J, J1)
      BY <2>2, <2>3 DEF Injection, IsInjective
    <3>2. f \in Surjection(J, J1)
      BY <2>2, <2>4 DEF Surjection
    <3> QED
      BY <3>1, <3>2 DEF Bijection
  <2>6. ExistsBijection(J, J1)
    BY <2>5 DEF ExistsBijection
  <2> QED
    BY <1>6, <2>6, FS_Bijection
<1> HIDE DEF I, J, J1, U
<1>9. Cardinality(U) = Cardinality(I) + Cardinality(J) - Cardinality({})
  BY <1>6, <1>7, <1>8, FS_Union
<1>10. Cardinality(I) \in Nat /\ Cardinality(J) \in Nat /\ Cardinality({}) = 0
  BY <1>6, FS_CardinalityType, FS_EmptySet
<1>11. Cardinality(U) = Cardinality(I) + Cardinality(J)
  BY <1>9, <1>10
<1> QED
  BY <1>11 DEF Count, I, J, U, u

LEMMA CountOne ==
  ASSUME NEW x, NEW A
  PROVE  Count(<<x>>, A) = IF x \in A THEN 1 ELSE 0
<1> DEFINE s == <<x>>
<1>1. DOMAIN s = {1} /\ s[1] = x
  OBVIOUS
<1> HIDE DEF s
<1>2. Hits(s, A) = IF x \in A THEN {1} ELSE {}
  BY <1>1 DEF Hits
<1>3. Count(s, A) = IF x \in A THEN 1 ELSE 0
  BY <1>2, FS_Singleton, FS_EmptySet DEF Count
<1> QED
  BY <1>3 DEF s

LEMMA CountNone ==
  ASSUME NEW A
  PROVE  Count(<< >>, A) = 0
<1>1. Hits(<< >>, A) = {}
  BY DEF Hits
<1> QED
  BY <1>1, FS_EmptySet DEF Count

LEMMA CountAppend ==
  ASSUME NEW S, NEW s \in Seq(S), NEW x \in S, NEW A
  PROVE  Count(Append(s, x), A) = Count(s, A) + (IF x \in A THEN 1 ELSE 0)
<1>1. Append(s, x) = s \o <<x>> /\ <<x>> \in Seq(S)
  OBVIOUS
<1>2. Count(s \o <<x>>, A) = Count(s, A) + Count(<<x>>, A)
  BY <1>1, CountJoin
<1> QED
  BY <1>1, <1>2, CountOne

LEMMA CountTail ==
  ASSUME NEW S, NEW s \in Seq(S), s # << >>, NEW A
  PROVE  Count(s, A) = (IF Head(s) \in A THEN 1 ELSE 0) + Count(Tail(s), A)
<1>1. Head(s) \in S /\ Tail(s) \in Seq(S) /\ <<Head(s)>> \in Seq(S)
  OBVIOUS
<1>2. s = <<Head(s)>> \o Tail(s)
  OBVIOUS
<1>3. Count(<<Head(s)>> \o Tail(s), A) = Count(<<Head(s)>>, A) + Count(Tail(s), A)
  BY <1>1, CountJoin
<1> QED
  BY <1>2, <1>3, CountOne

LEMMA CountRemove ==
  ASSUME NEW S, NEW s \in Seq(S), NEW k \in 1..Len(s), NEW A
  PROVE  Count(s, A) = Count(Final!RemoveAt(s, k), A) + (IF s[k] \in A THEN 1 ELSE 0)
<1> DEFINE N == Len(s)
           P == SubSeq(s, 1, k - 1)
           Q == SubSeq(s, k + 1, N)
           x == s[k]
<1>1. N \in Nat /\ DOMAIN s = 1..N /\ k \in 1..N /\ x \in S
  OBVIOUS
<1>2. P \in Seq(S) /\ Q \in Seq(S) /\ <<x>> \in Seq(S)
  BY <1>1
<1>3. s = (P \o <<x>>) \o Q
  <2>1. 1 \in 1..Len(s) /\ k \in 1..Len(s) /\ k \in 0..Len(s) /\ Len(s) \in k..Len(s)
        /\ 1 \in 1..(Len(s) + 1) /\ k \in (1 - 1)..Len(s)
    BY <1>1
  <2>2. SubSeq(s, 1, k) = P \o <<x>>
    BY <2>1, SubSeqRecursiveSecond
  <2>3. SubSeq(s, 1, k) \o Q = SubSeq(s, 1, N)
    BY <2>1, ConcatAdjacentSubSeq
  <2>4. SubSeq(s, 1, N) = s
    BY SubSeqFull
  <2> QED
    BY <2>2, <2>3, <2>4
<1>4. Final!RemoveAt(s, k) = P \o Q
  BY DEF Final!RemoveAt
<1> HIDE DEF P, Q, x
<1>5. P \o <<x>> \in Seq(S)
  BY <1>2
<1>6. Count(s, A) = Count(P \o <<x>>, A) + Count(Q, A)
  BY <1>2, <1>3, <1>5, CountJoin
<1>7. Count(P \o <<x>>, A) = Count(P, A) + Count(<<x>>, A)
  BY <1>2, CountJoin
<1>8. Count(P \o Q, A) = Count(P, A) + Count(Q, A)
  BY <1>2, CountJoin
<1>9. Count(P, A) \in Nat /\ Count(Q, A) \in Nat
  BY <1>2, CountType
<1>10. Count(<<x>>, A) = IF x \in A THEN 1 ELSE 0
  BY CountOne
<1> QED
  BY <1>4, <1>6, <1>7, <1>8, <1>9, <1>10 DEF x

\* Pieces that hold at most one element of A each, and only those that come
\* from an element of B.
LEMMA CountFlatten ==
  ASSUME NEW S, NEW s \in Seq(Seq(S)), NEW T, NEW t \in Seq(T), Len(s) = Len(t),
         NEW A, NEW B,
         \A i \in DOMAIN s : Count(s[i], A) <= (IF t[i] \in B THEN 1 ELSE 0)
  PROVE  Count(Final!FlattenSeq(s), A) <= Count(t, B)
<1>1. CASE Len(s) = 0
  <2>1. Final!FlattenSeq(s) = << >>
    BY <1>1 DEF Final!FlattenSeq
  <2>2. Count(t, B) \in Nat
    BY CountType
  <2> QED
    BY <2>1, <2>2, CountNone
<1>2. CASE Len(s) # 0
  <2> DEFINE N == Len(s)
             upto(i) == {k \in 1..i : t[k] \in B}
             one(i) == IF t[i] \in B THEN 1 ELSE 0
  <2>1. /\ N \in Nat /\ DOMAIN s = 1..N /\ DOMAIN t = 1..N
        /\ \A i \in 1..N : s[i] \in Seq(S)
    OBVIOUS
  <2>2. PICK f \in [1..N -> Seq(S)] : Joins(f, s, N) /\ Final!FlattenSeq(s) = f[N]
    BY <1>2, FlattenJoins, SameFlatten
  <2>3. \A i \in 0..N : IsFiniteSet(upto(i)) /\ Cardinality(upto(i)) \in Nat
    <3> SUFFICES ASSUME NEW i \in 0..N
                 PROVE  IsFiniteSet(upto(i)) /\ Cardinality(upto(i)) \in Nat
      OBVIOUS
    <3>1. IsFiniteSet(1..i) /\ upto(i) \in SUBSET (1..i)
      BY <2>1, FS_Interval
    <3> HIDE DEF upto
    <3> QED
      BY <3>1, FS_Subset, FS_CardinalityType
  <2>4. \A i \in 1..N : Cardinality(upto(i)) = Cardinality(upto(i - 1)) + one(i)
    <3> SUFFICES ASSUME NEW i \in 1..N
                 PROVE  Cardinality(upto(i)) = Cardinality(upto(i - 1)) + one(i)
      OBVIOUS
    <3>1. i - 1 \in 0..N /\ 1..i = (1..(i - 1)) \cup {i} /\ i \notin 1..(i - 1)
      BY <2>1
    <3>2. upto(i) = IF t[i] \in B THEN upto(i - 1) \cup {i} ELSE upto(i - 1)
      BY <3>1
    <3>3. i \notin upto(i - 1)
      BY <3>1
    <3>4. IsFiniteSet(upto(i - 1)) /\ Cardinality(upto(i - 1)) \in Nat
      BY <2>3, <3>1
    <3> HIDE DEF upto
    <3>5. CASE t[i] \in B
      <4>1. Cardinality(upto(i - 1) \cup {i}) = Cardinality(upto(i - 1)) + 1
        BY <3>3, <3>4, FS_AddElement
      <4> QED
        BY <3>2, <3>5, <4>1
    <3>6. CASE t[i] \notin B
      BY <3>2, <3>4, <3>6
    <3> QED
      BY <3>5, <3>6
  <2>5. \A i \in 1..N : Count(s[i], A) \in Nat /\ Count(f[i], A) \in Nat
                        /\ Count(s[i], A) <= one(i)
    BY <2>1, CountType
  <2>6. Cardinality(upto(0)) = 0
    <3>1. upto(0) = {}
      OBVIOUS
    <3> QED
      BY <3>1, FS_EmptySet
  <2> HIDE DEF upto
  <2> DEFINE Bad == {i \in 1..N : ~(Count(f[i], A) <= Cardinality(upto(i)))}
  <2>7. Bad = {}
    <3> SUFFICES ASSUME Bad # {} PROVE FALSE
      OBVIOUS
    <3>1. Bad \in SUBSET Nat
      BY <2>1
    <3>2. PICK i \in Bad : \A m \in Bad : i <= m
      <4> HIDE DEF Bad
      <4> QED
        BY <3>1, SmallestOf
    <3>3. i \in 1..N /\ ~(Count(f[i], A) <= Cardinality(upto(i)))
      BY <3>2
    <3>4. f[i] = IF i = 1 THEN s[i] ELSE f[i - 1] \o s[i]
      BY <2>2, <3>3 DEF Joins
    <3>5. Cardinality(upto(i)) = Cardinality(upto(i - 1)) + one(i) /\ one(i) \in Nat
          /\ Cardinality(upto(i)) \in Nat /\ Cardinality(upto(i - 1)) \in Nat
      <4>1. i - 1 \in 0..N /\ i \in 0..N
        BY <2>1, <3>3
      <4> QED
        BY <2>3, <2>4, <3>3, <4>1
    <3>6. CASE i = 1
      <4>1. Count(f[i], A) = Count(s[i], A)
        BY <3>4, <3>6
      <4> HIDE DEF one
      <4> QED
        BY <2>5, <2>6, <3>3, <3>5, <3>6, <4>1
    <3>7. CASE i # 1
      <4>1. i - 1 \in 1..N /\ ~(i <= i - 1)
        BY <2>1, <3>3, <3>7
      <4>2. Count(f[i - 1], A) <= Cardinality(upto(i - 1))
        BY <3>2, <4>1
      <4>3. f[i] = f[i - 1] \o s[i] /\ f[i - 1] \in Seq(S) /\ s[i] \in Seq(S)
        BY <2>1, <3>3, <3>4, <3>7, <4>1
      <4>4. Count(f[i], A) = Count(f[i - 1], A) + Count(s[i], A)
        BY <4>3, CountJoin
      <4>5. Count(s[i], A) \in Nat /\ Count(f[i - 1], A) \in Nat /\ Count(s[i], A) <= one(i)
        BY <2>5, <3>3, <4>1
      <4> HIDE DEF one
      <4> QED
        BY <3>3, <3>5, <4>2, <4>4, <4>5
    <3> QED
      BY <3>6, <3>7
  <2>8. N \in 1..N
    BY <1>2, <2>1
  <2>9. Count(f[N], A) <= Cardinality(upto(N))
    BY <2>7, <2>8
  <2>10. Count(t, B) = Cardinality(upto(N))
    BY <2>1 DEF Count, Hits, upto
  <2> QED
    BY <2>2, <2>9, <2>10
<1> QED
  BY <1>1, <1>2

----------------------------------------------------------------------------
(* The lines of an instance. *)

ShownLines == SampleLines \cup {l \in StateLines : l.state = Final!Awaited}
SampleOf(c) == {l \in SampleLines : l.color = c}
StateOf(c) == {l \in StateLines : l.color = c}
EntryOf(c) == {e \in Entries : e.color = c}
ValidOf(c) == {e \in Entries : e.color = c /\ e.valid}

Has(s, A) == \E x \in Elements(s) : x \in A

\* An instance that has ended gets no more samples.
FadeOrder ==
  {p \in Entries \X Entries : p[1].color = p[2].color /\ ~p[1].valid => ~p[2].valid}

\* The end of an instance is announced after one of its samples, or the
\* instance is one of K.
Introduced(s, K) ==
  \A i \in DOMAIN s : s[i].kind = "state" =>
    s[i].color \in K \/ \E k \in DOMAIN s : k < i /\ s[k] \in SampleOf(s[i].color)

LEMMA IntroducedJoin ==
  ASSUME NEW S, NEW s \in Seq(S), NEW t \in Seq(S), NEW K, NEW M,
         Introduced(s, K), Introduced(t, M),
         \A c \in M : c \in K \/ Has(s, SampleOf(c))
  PROVE  Introduced(s \o t, K)
<1> DEFINE u == s \o t
           m == Len(s)
           N == Len(t)
<1>1. m \in Nat /\ N \in Nat /\ DOMAIN s = 1..m /\ DOMAIN t = 1..N /\ DOMAIN u = 1..(m + N)
  OBVIOUS
<1>2. \A i \in 1..m : i \in 1..(m + N) /\ u[i] = s[i]
  BY <1>1
<1>3. \A i \in 1..N : m + i \in 1..(m + N) /\ u[m + i] = t[i]
  BY <1>1
<1>4. \A i \in 1..(m + N) : \/ i \in 1..m /\ u[i] = s[i]
                            \/ i > m /\ i - m \in 1..N /\ u[i] = t[i - m] /\ m + (i - m) = i
  BY <1>1
<1> HIDE DEF u, m, N
<1> SUFFICES ASSUME NEW i \in 1..(m + N), u[i].kind = "state"
             PROVE  \/ u[i].color \in K
                    \/ \E k \in 1..(m + N) : k < i /\ u[k] \in SampleOf(u[i].color)
  BY <1>1 DEF Introduced, u
<1>5. CASE i \in 1..m /\ u[i] = s[i]
  <2>1. s[i].color \in K \/ \E k \in 1..m : k < i /\ s[k] \in SampleOf(s[i].color)
    BY <1>1, <1>5 DEF Introduced
  <2> QED
    BY <1>2, <1>5, <2>1
<1>6. CASE i > m /\ i - m \in 1..N /\ u[i] = t[i - m] /\ m + (i - m) = i
  <2>1. \/ t[i - m].color \in M
        \/ \E k \in 1..N : k < i - m /\ t[k] \in SampleOf(t[i - m].color)
    BY <1>1, <1>6 DEF Introduced
  <2>2. CASE t[i - m].color \in M
    <3>1. CASE Has(s, SampleOf(u[i].color))
      <4>1. PICK k \in 1..m : s[k] \in SampleOf(u[i].color)
        BY <1>1, <3>1 DEF Has, Elements
      <4>2. k \in 1..(m + N) /\ k < i
        BY <1>1, <1>6
      <4> QED
        BY <1>2, <4>1, <4>2
    <3> QED
      BY <1>6, <2>2, <3>1
  <2>3. CASE \E k \in 1..N : k < i - m /\ t[k] \in SampleOf(t[i - m].color)
    <3>1. PICK k \in 1..N : k < i - m /\ t[k] \in SampleOf(t[i - m].color)
      BY <2>3
    <3>2. m + k \in 1..(m + N) /\ m + k < i /\ u[m + k] = t[k]
      BY <1>1, <1>3, <1>6, <3>1
    <3> QED
      BY <1>6, <3>1, <3>2
  <2> QED
    BY <2>1, <2>2, <2>3
<1> QED
  BY <1>4, <1>5, <1>6

LEMMA IntroducedFlatten ==
  ASSUME NEW S, NEW s \in Seq(Seq(S)), NEW K,
         NEW need, \A i \in DOMAIN s : Introduced(s[i], need[i]),
         \A i \in DOMAIN s : \A c \in need[i] :
           c \in K \/ \E k \in DOMAIN s : k < i /\ Has(s[k], SampleOf(c))
  PROVE  Introduced(Final!FlattenSeq(s), K)
<1>1. CASE Len(s) = 0
  <2>1. Final!FlattenSeq(s) = << >>
    BY <1>1 DEF Final!FlattenSeq
  <2> QED
    BY <2>1 DEF Introduced
<1>2. CASE Len(s) # 0
  <2> DEFINE N == Len(s)
  <2>1. N \in Nat /\ DOMAIN s = 1..N /\ \A i \in 1..N : s[i] \in Seq(S)
    OBVIOUS
  <2>2. PICK f \in [1..N -> Seq(S)] : Joins(f, s, N) /\ Final!FlattenSeq(s) = f[N]
    BY <1>2, FlattenJoins, SameFlatten
  <2> DEFINE Good(i) == /\ Introduced(f[i], K)
                        /\ \A k \in 1..N : k <= i => Elements(s[k]) \subseteq Elements(f[i])
             Bad == {i \in 1..N : ~Good(i)}
  <2>3. Bad = {}
    <3> SUFFICES ASSUME Bad # {} PROVE FALSE
      OBVIOUS
    <3>1. Bad \in SUBSET Nat
      BY <2>1
    <3>2. PICK i \in Bad : \A m \in Bad : i <= m
      <4> HIDE DEF Bad
      <4> QED
        BY <3>1, SmallestOf
    <3>3. i \in 1..N /\ ~Good(i)
      BY <3>2
    <3>4. f[i] = IF i = 1 THEN s[i] ELSE f[i - 1] \o s[i]
      BY <2>2, <3>3 DEF Joins
    <3>5. Introduced(s[i], need[i])
          /\ \A c \in need[i] : c \in K \/ \E k \in 1..N : k < i /\ Has(s[k], SampleOf(c))
      BY <2>1, <3>3
    <3>6. CASE i = 1
      <4>1. f[i] = s[i] /\ \A k \in 1..N : ~(k < i) /\ (k <= i => k = i)
        BY <2>1, <3>4, <3>6
      <4>2. \A c \in need[i] : c \in K
        BY <3>5, <4>1
      <4>3. Introduced(f[i], K)
        BY <3>5, <4>1, <4>2 DEF Introduced
      <4>4. \A k \in 1..N : k <= i => Elements(s[k]) \subseteq Elements(f[i])
        BY <4>1
      <4> QED
        BY <3>3, <4>3, <4>4
    <3>7. CASE i # 1
      <4>1. i - 1 \in 1..N /\ ~(i <= i - 1) /\ \A k \in 1..N : k < i => k <= i - 1
        BY <2>1, <3>3, <3>7
      <4>2. i - 1 \notin Bad
        <5> HIDE DEF Bad
        <5> QED
          BY <3>2, <4>1
      <4>3. Good(i - 1)
        BY <4>1, <4>2
      <4>4. f[i] = f[i - 1] \o s[i] /\ f[i - 1] \in Seq(S) /\ s[i] \in Seq(S)
        BY <2>1, <3>3, <3>4, <3>7, <4>1
      <4>5. \A c \in need[i] : c \in K \/ Has(f[i - 1], SampleOf(c))
        BY <3>5, <4>1, <4>3 DEF Has
      <4>6. Introduced(f[i], K)
        BY <3>5, <4>3, <4>4, <4>5, IntroducedJoin
      <4>7. Elements(f[i]) = Elements(f[i - 1]) \cup Elements(s[i])
        BY <4>4, ElementsOfJoin
      <4>8. \A k \in 1..N : k <= i => k < i \/ k = i
        BY <2>1, <3>3
      <4>9. \A k \in 1..N : k <= i => Elements(s[k]) \subseteq Elements(f[i])
        BY <4>1, <4>3, <4>7, <4>8
      <4> QED
        BY <3>3, <4>6, <4>9
    <3> QED
      BY <3>6, <3>7
  <2>4. N \in 1..N
    BY <1>2, <2>1
  <2>5. Good(N)
    BY <2>3, <2>4
  <2> QED
    BY <2>2, <2>5
<1> QED
  BY <1>1, <1>2

\* What a pass prints for an entry of the cache.
LEMMA FinalPrinted ==
  ASSUME NEW e \in Entries, instance_state[e.color] \in {"ALIVE", Final!Awaited}
  PROVE  LET P == Final!Printed(e)
             ended == instance_state[e.color] = Final!Awaited
         IN /\ P \in Seq(ShownLines)
            /\ Introduced(P, IF e.valid THEN {} ELSE {e.color})
            /\ \A l \in Elements(P) : l.color = e.color
            /\ e.valid <=> Has(P, SampleOf(e.color))
            /\ ended <=> Has(P, StateOf(e.color))
            /\ \A c \in Final!Handles :
                 /\ Count(P, SampleOf(c)) <= (IF e \in ValidOf(c) THEN 1 ELSE 0)
                 /\ Count(P, StateOf(c)) <= (IF e \in EntryOf(c) /\ ended THEN 1 ELSE 0)
<1> DEFINE ended == instance_state[e.color] = Final!Awaited
           sample == [kind |-> "sample", color |-> e.color, size |-> e.size]
           state == [kind |-> "state", color |-> e.color, state |-> instance_state[e.color]]
           A == IF e.valid THEN <<sample>> ELSE << >>
           B == IF ended THEN <<state>> ELSE << >>
<1>1. Final!Awaited # "ALIVE" /\ Final!Awaited \in States
  BY DEF Final!Awaited, States
<1>2. sample \in SampleLines /\ sample.kind = "sample" /\ sample.color = e.color
  BY DEF SampleLines, Entries
<1>3. state.kind = "state" /\ state.color = e.color
      /\ (ended => state \in StateLines /\ state.state = Final!Awaited)
  BY <1>1 DEF StateLines, Entries
<1>4. Final!Printed(e) = A \o B
  BY <1>1 DEF Final!Printed
<1>5. e.color \in Final!Handles /\ e.valid \in BOOLEAN
  BY DEF Entries
<1> HIDE DEF sample, state, ended
<1>6. sample \in ShownLines /\ (ended => state \in ShownLines)
  BY <1>2, <1>3 DEF ShownLines
<1>7. A \in Seq(ShownLines) /\ B \in Seq(ShownLines)
  BY <1>6
<1>8. (\A l \in Elements(A) : l = sample /\ e.valid) /\ (\A l \in Elements(B) : l = state /\ ended)
  BY DEF Elements
<1>9. (e.valid => sample \in Elements(A)) /\ (ended => state \in Elements(B))
  <2>1. ASSUME e.valid PROVE sample \in Elements(A)
    <3>1. 1 \in DOMAIN A /\ A[1] = sample
      BY <2>1
    <3> HIDE DEF A
    <3> QED
      BY <3>1 DEF Elements
  <2>2. ASSUME ended PROVE state \in Elements(B)
    <3>1. 1 \in DOMAIN B /\ B[1] = state
      BY <2>2
    <3> HIDE DEF B
    <3> QED
      BY <3>1 DEF Elements
  <2> QED
    BY <2>1, <2>2
<1>10. \A X : /\ Count(A, X) = IF e.valid /\ sample \in X THEN 1 ELSE 0
              /\ Count(B, X) = IF ended /\ state \in X THEN 1 ELSE 0
  BY CountOne, CountNone
<1>11. \A X : Count(A \o B, X) = Count(A, X) + Count(B, X)
  BY <1>7, CountJoin
<1> HIDE DEF A, B
<1>12. Elements(A \o B) = Elements(A) \cup Elements(B) /\ A \o B \in Seq(ShownLines)
  <2>1. Elements(A \o B) = Elements(A) \cup Elements(B)
    BY <1>7, ElementsOfJoin
  <2> QED
    BY <1>7, <2>1
<1>13. sample \in SampleOf(e.color) /\ (ended => state \in StateOf(e.color))
  BY <1>2, <1>3 DEF SampleOf, StateOf
<1>14. \A c : sample \notin StateOf(c) /\ state \notin SampleOf(c)
  BY <1>2, <1>3 DEF SampleOf, StateOf, SampleLines, StateLines
<1>15. e.valid <=> Has(A \o B, SampleOf(e.color))
  BY <1>8, <1>9, <1>12, <1>13, <1>14 DEF Has
<1>16. ended <=> Has(A \o B, StateOf(e.color))
  BY <1>8, <1>9, <1>12, <1>13, <1>14 DEF Has
<1>17. \A l \in Elements(A \o B) : l.color = e.color
  BY <1>2, <1>3, <1>8, <1>12
<1>18. ASSUME NEW c \in Final!Handles
       PROVE  /\ Count(A \o B, SampleOf(c)) <= (IF e \in ValidOf(c) THEN 1 ELSE 0)
              /\ Count(A \o B, StateOf(c)) <= (IF e \in EntryOf(c) /\ ended THEN 1 ELSE 0)
  <2>1. sample \in SampleOf(c) => e.color = c
    BY <1>2 DEF SampleOf
  <2>2. state \in StateOf(c) => e.color = c
    BY <1>3 DEF StateOf
  <2>3. e.color = c => e \in EntryOf(c) /\ (e.valid => e \in ValidOf(c))
    BY DEF EntryOf, ValidOf
  <2>4. Count(A \o B, SampleOf(c)) = IF e.valid /\ sample \in SampleOf(c) THEN 1 ELSE 0
    BY <1>10, <1>11, <1>14
  <2>5. Count(A \o B, StateOf(c)) = IF ended /\ state \in StateOf(c) THEN 1 ELSE 0
    BY <1>10, <1>11, <1>14
  <2> QED
    BY <2>1, <2>2, <2>3, <2>4, <2>5
<1>19. Introduced(A \o B, IF e.valid THEN {} ELSE {e.color})
  <2> DEFINE K == IF e.valid THEN {} ELSE {e.color}
  <2>1. Introduced(A, K)
    <3>1. \A i \in DOMAIN A : A[i] = sample
      BY <1>8 DEF Elements
    <3> QED
      BY <1>2, <3>1 DEF Introduced
  <2>2. Introduced(B, {e.color})
    <3>1. \A i \in DOMAIN B : B[i] = state
      BY <1>8 DEF Elements
    <3> QED
      BY <1>3, <3>1 DEF Introduced
  <2>3. \A c \in {e.color} : c \in K \/ Has(A, SampleOf(c))
    BY <1>9, <1>13 DEF Has
  <2> HIDE DEF K
  <2>4. Introduced(A \o B, K)
    BY <1>7, <2>1, <2>2, <2>3, IntroducedJoin
  <2> QED
    BY <2>4 DEF K
<1> QED
  BY <1>4, <1>12, <1>15, <1>16, <1>17, <1>18, <1>19 DEF ended

LEMMA HasCount ==
  ASSUME NEW S, NEW s \in Seq(S), NEW A
  PROVE  Has(s, A) <=> Count(s, A) > 0
<1>1. Count(s, A) \in Nat /\ (Count(s, A) = 0 <=> \A x \in Elements(s) : x \notin A)
  BY CountType
<1> QED
  BY <1>1 DEF Has

----------------------------------------------------------------------------
(* The inductive invariant. *)

Announced == final_result = "running" /\ final_line.kind = "state"

\* instance_color and the list of the instances gone, the line at hand included.
Met == instance_color \cup
         (IF final_result = "running" /\ final_line.kind = "sample" THEN {final_line.color} ELSE {})
Ended == gone_color \cup (IF Announced THEN {final_line.color} ELSE {})

FinalAppTypes ==
  /\ options \in Final!ShapeOptions /\ options.history_depth \in Nat \ {0}
  /\ pub_pc \in {"loop", "final", "acked", "gone"}
  /\ j \in Final!Handles /\ shapesize \in Nat /\ n \in 0..FinalIterations
  /\ pub_pc = "loop" /\ j # 0 => n < FinalIterations
  /\ cache \in Seq(Entries) /\ console \in Seq(ShownLines)
  /\ instance_state \in [Final!Handles -> {"unknown", "ALIVE", Final!Awaited}]

\* The last iteration sets the flag, so that no write follows it.
CountedInv ==
  /\ all_done \in [{"pub", "sub"} -> BOOLEAN] /\ n \in Nat
  /\ n >= FinalIterations => all_done["pub"]

FinalCheckTypes ==
  /\ final_result = "running" => final_line \in ShownLines
  /\ Met \subseteq Final!Handles
  /\ final_first \in Final!Handles \cup {-1} /\ final_count \in Nat
  /\ final_first = -1 => final_count = 0
  /\ final_result = "waiting" => Met = {} /\ Ended = {} /\ final_first = -1

\* How far the publisher has brought its instances to an end.
PhaseInv ==
  /\ pub_pc = "loop" => /\ \A e \in Elements(cache) : e.valid
                        /\ \A c \in Final!Handles : instance_state[c] # Final!Awaited
  /\ pub_pc = "final" => /\ options.final_instance_state # "none"
                         /\ \A c \in Final!Handles : c < j => instance_state[c] # "ALIVE"
  /\ pub_pc = "acked" /\ options.final_instance_state # "none" =>
       \A c \in Final!Handles : instance_state[c] # "ALIVE"
  /\ pub_pc = "gone" => \A c \in Final!Handles : instance_state[c] # "ALIVE"

\* An instance the reader knows has left a sample somewhere on its way to the
\* function, and no other instance has.
SeenInv(c) ==
  /\ instance_state[c] # "unknown" <=>
       c \in Met \/ Has(console, SampleOf(c)) \/ Has(cache, ValidOf(c))
  /\ Has(cache, EntryOf(c)) => instance_state[c] # "unknown"

\* The end of an instance comes after a sample of it.
IntroInv == Introduced(console, Met) /\ Ended \subseteq Met /\ Ordered(cache, FadeOrder)

\* The end of an instance is on its way or has been read.
OnItsWay(c) ==
  instance_state[c] = Final!Awaited =>
    c \in Ended \/ Has(console, StateOf(c)) \/ Has(cache, EntryOf(c))

\* Lines of instance c that the function has counted or is about to.
Looked(c) == (IF final_first = c THEN final_count ELSE 0)
             + (IF final_result = "running" /\ final_line.color = c THEN 1 ELSE 0)

\* Samples of instance c written.
Times(c) == IF pub_pc = "loop" THEN n + (IF c < j THEN 1 ELSE 0) ELSE FinalIterations

\* The lines of an instance never come to MAX_SAMPLES_READ: while it lives each
\* sample written makes one; its end is printed with each sample left, which
\* are at most depth, and once more by itself.
Within(over, L, S, T, V, E, depth, w) ==
  IF over THEN L + S + T + V + E <= FinalIterations + depth + 1
  ELSE T = 0 /\ E <= depth /\ L + S + V <= w
Budget(c) ==
  Within(instance_state[c] = Final!Awaited, Looked(c),
         Count(console, SampleOf(c)), Count(console, StateOf(c)),
         Count(cache, ValidOf(c)), Count(cache, EntryOf(c)), options.history_depth, Times(c))

AlarmInv ==
  /\ FinalAppTypes /\ FinalCheckTypes /\ PhaseInv /\ IntroInv
  /\ \A c \in Final!Handles : SeenInv(c) /\ OnItsWay(c) /\ Budget(c)

FinalInv ==
  \/ final_result \in {"OK", "DATA_NOT_RECEIVED"}
  \/ final_result \in {"waiting", "running"} /\ AlarmInv

----------------------------------------------------------------------------
(* KEEP_LAST. *)

LEMMA SameCardinality ==
  ASSUME NEW S
  PROVE  Final!Cardinality(S) = Cardinality(S)
  BY DEF Final!Cardinality, Cardinality

LEMMA FinalKeep ==
  ASSUME NEW entries \in Seq(Entries), NEW c \in Final!Handles,
         options.history_depth \in Nat \ {0},
         Count(entries, ValidOf(c)) \in 1..(options.history_depth + 1)
  PROVE  LET kept == Final!KeepLast(entries, c)
         IN /\ kept \in Seq(Entries) /\ Elements(kept) \subseteq Elements(entries)
            /\ Count(kept, ValidOf(c)) \in 1..options.history_depth
            /\ Count(kept, ValidOf(c)) <= Count(entries, ValidOf(c))
            /\ \A f \in Final!Handles : f # c =>
                 /\ Count(kept, ValidOf(f)) = Count(entries, ValidOf(f))
                 /\ Count(kept, EntryOf(f)) = Count(entries, EntryOf(f))
<1> DEFINE mine(e) == e.color = c /\ e.valid
           N == Len(entries)
           held == {i \in DOMAIN entries : mine(entries[i])}
           I == {i \in 1..N : mine(entries[i])}
           D == options.history_depth
           C == Count(entries, ValidOf(c))
           rest == Final!RemoveFirstMatch(entries, mine)
           kept == Final!KeepLast(entries, c)
<1>1. N \in Nat /\ DOMAIN entries = 1..N /\ \A i \in 1..N : entries[i] \in Entries
  OBVIOUS
<1>2. held = Hits(entries, ValidOf(c)) /\ I = held
  BY <1>1 DEF Hits, ValidOf
<1>3. Cardinality(held) = C
  BY <1>2 DEF Count
<1>4. kept = IF C > D THEN rest ELSE entries
  <2>1. kept = IF D # 0 /\ Final!Cardinality(held) > D THEN rest ELSE entries
    BY Zenon DEF Final!KeepLast
  <2>2. D # 0 /\ Final!Cardinality(held) = Cardinality(held)
    BY SameCardinality
  <2> HIDE DEF kept, rest, held, C, D
  <2> QED
    BY <1>3, <2>1, <2>2
<1>5. CASE C > D
  <2>1. I # {}
    <3>1. C \in 1..(D + 1) /\ D \in Nat
      OBVIOUS
    <3> HIDE DEF I, C, D, held
    <3>2. Cardinality(I) # 0
      BY <1>2, <1>3, <3>1
    <3> QED
      BY <3>2, FS_EmptySet
  <2>2. rest = Final!RemoveAt(entries, Final!Min(I))
    BY <2>1 DEF Final!RemoveFirstMatch, Final!SelectInSeq
  <2>3. PICK k \in I : rest = Final!RemoveAt(entries, k)
    <3>1. I \in SUBSET Nat
      BY <1>1
    <3> HIDE DEF I, rest
    <3>2. \E x \in I : \A y \in I : x <= y
      BY <2>1, <3>1, SmallestOf
    <3>3. Final!Min(I) \in I
      BY <3>2 DEF Final!Min
    <3> QED
      BY <2>2, <3>3
  <2>4. k \in 1..Len(entries) /\ entries[k] \in Entries /\ entries[k].color = c /\ entries[k].valid
    BY <1>1, <2>3
  <2>5. entries[k] \in ValidOf(c)
    BY <2>4 DEF ValidOf
  <2>6. \A f \in Final!Handles : f # c => entries[k] \notin ValidOf(f) /\ entries[k] \notin EntryOf(f)
    BY <2>4 DEF ValidOf, EntryOf
  <2> HIDE DEF I, rest, held, kept, mine
  <2>7. kept = Final!RemoveAt(entries, k)
    BY <1>4, <1>5, <2>3
  <2>8. \A A : Count(entries, A) = Count(kept, A) + (IF entries[k] \in A THEN 1 ELSE 0)
    BY <2>4, <2>7, CountRemove
  <2>9. kept \in Seq(Entries) /\ Elements(kept) \subseteq Elements(entries)
    <3>1. Ordered(entries, Entries \X Entries)
      BY <1>1 DEF Ordered
    <3>2. Stream!RemoveAt(entries, k) = Final!RemoveAt(entries, k)
      BY DEF Stream!RemoveAt, Final!RemoveAt
    <3> QED
      BY <2>4, <2>7, <3>1, <3>2, RemovedAt
  <2>10. \A A : Count(kept, A) \in Nat
    BY <2>9, CountType
  <2>11. C = Count(kept, ValidOf(c)) + 1 /\ Count(kept, ValidOf(c)) \in Nat
    BY <2>5, <2>8, <2>10
  <2>12. Count(kept, ValidOf(c)) \in 1..D /\ Count(kept, ValidOf(c)) <= C
    <3>1. C \in 1..(D + 1) /\ D \in Nat \ {0}
      OBVIOUS
    <3> HIDE DEF C, D
    <3> QED
      BY <1>5, <2>11, <3>1
  <2>13. \A f \in Final!Handles : f # c =>
           /\ Count(kept, ValidOf(f)) = Count(entries, ValidOf(f))
           /\ Count(kept, EntryOf(f)) = Count(entries, EntryOf(f))
    BY <2>6, <2>8, <2>10
  <2> QED
    BY <2>9, <2>12, <2>13 DEF kept
<1>6. CASE ~(C > D)
  <2>1. kept = entries
    BY <1>4, <1>6
  <2>2. C \in 1..D
    <3>1. C \in 1..(D + 1) /\ D \in Nat
      OBVIOUS
    <3> HIDE DEF C, D
    <3> QED
      BY <1>6, <3>1
  <2> HIDE DEF kept
  <2>3. Count(kept, ValidOf(c)) <= C
    BY <2>1, <2>2
  <2> QED
    BY <2>1, <2>2, <2>3 DEF kept
<1> QED
  BY <1>5, <1>6

\* The end of an instance adds one entry to the cache, without a sample.
LEMMA FinalBury ==
  ASSUME Final!ShapeMainAssumption, cache \in Seq(Entries), Ordered(cache, FadeOrder),
         NEW cs \in SUBSET Final!Handles, NEW state, Final!Bury(cs, state)
  PROVE  /\ cache' \in Seq(Entries) /\ Ordered(cache', FadeOrder)
         /\ instance_state' = [c \in Final!Handles |->
              IF c \in cs /\ instance_state[c] = "ALIVE" THEN state ELSE instance_state[c]]
         /\ \A c \in Final!Handles :
              LET one == IF c \in cs /\ instance_state[c] = "ALIVE" THEN 1 ELSE 0
              IN /\ Count(cache', ValidOf(c)) = Count(cache, ValidOf(c))
                 /\ Count(cache', EntryOf(c)) = Count(cache, EntryOf(c)) + one
<1> DEFINE K == FinalInstances
           alive == {c \in cs : instance_state[c] = "ALIVE"}
           entry(c) == [color |-> c, size |-> 0, valid |-> FALSE]
           notice(c) == IF c \in alive THEN <<entry(c)>> ELSE << >>
           notices == [i \in 1..K |-> notice(i - 1)]
           added == Final!FlattenSeq(notices)
           Notices == {e \in Entries : ~e.valid}
<1>1. K \in Nat
  BY DEF Final!ShapeMainAssumption
<1>2. /\ \A i \in 1..K : i - 1 \in Final!Handles
      /\ \A c \in Final!Handles : c + 1 \in 1..K /\ (c + 1) - 1 = c
  BY <1>1 DEF Final!Handles
<1>3. \A c \in Final!Handles : entry(c) \in Notices /\ entry(c).color = c
  BY DEF Entries
<1>4. cache' = cache \o added
  BY DEF Final!Bury
<1>5. instance_state' = [c \in Final!Handles |->
                           IF c \in alive THEN state ELSE instance_state[c]]
  BY DEF Final!Bury
<1> HIDE DEF entry, alive, Notices
<1>6. \A c \in Final!Handles : notice(c) \in Seq(Notices)
  <2> SUFFICES ASSUME NEW c \in Final!Handles PROVE notice(c) \in Seq(Notices)
    OBVIOUS
  <2>1. <<entry(c)>> \in Seq(Notices) /\ << >> \in Seq(Notices)
    BY <1>3
  <2> QED
    BY <2>1
<1> HIDE DEF notice
<1>7. notices \in Seq(Seq(Notices)) /\ Len(notices) = K /\ DOMAIN notices = 1..K
      /\ \A i \in 1..K : notices[i] = notice(i - 1)
  BY <1>1, <1>2, <1>6
<1> HIDE DEF notices
<1>8. added \in Seq(Notices)
  BY <1>7, FlattenTypes, SameFlatten
<1>9. \A x : x \in Elements(added) <=> \E i \in 1..K : x \in Elements(notice(i - 1))
  BY <1>7, FlattenElements, SameFlatten
<1>10. added \in Seq(Entries) /\ \A e \in Elements(added) : e \in Entries /\ ~e.valid
  <2>1. Notices \subseteq Entries /\ \A e \in Notices : ~e.valid
    BY DEF Notices
  <2>2. \A e \in Elements(added) : e \in Notices
    BY <1>8, ElementIn
  <2> HIDE DEF added
  <2> QED
    BY <1>8, <2>1, <2>2
<1>11. ASSUME NEW c \in Final!Handles
       PROVE  /\ Count(added, ValidOf(c)) = 0
              /\ Count(added, EntryOf(c)) = IF c \in alive THEN 1 ELSE 0
  <2>1. Count(added, ValidOf(c)) = 0
    <3>1. \A e \in Elements(added) : e \notin ValidOf(c)
      BY <1>10 DEF ValidOf
    <3> HIDE DEF added
    <3> QED
      BY <1>10, <3>1, CountType
  <2> DEFINE t == [i \in 1..K |-> i - 1]
             B == IF c \in alive THEN {c} ELSE {}
  <2>2. t \in Seq(Final!Handles) /\ Len(t) = K /\ DOMAIN t = 1..K /\ \A i \in 1..K : t[i] = i - 1
    BY <1>1, <1>2
  <2> HIDE DEF t
  <2>3. Count(t, B) = IF c \in alive THEN 1 ELSE 0
    <3>1. Hits(t, B) = IF c \in alive THEN {c + 1} ELSE {}
      <4>1. \A i \in 1..K : i - 1 = c <=> i = c + 1
        BY <1>1 DEF Final!Handles
      <4> QED
        BY <1>2, <2>2, <4>1 DEF Hits
    <3> QED
      BY <3>1, FS_Singleton, FS_EmptySet DEF Count
  <2>4. \A i \in DOMAIN notices : Count(notices[i], EntryOf(c)) <= (IF t[i] \in B THEN 1 ELSE 0)
    <3> SUFFICES ASSUME NEW i \in 1..K
                 PROVE  Count(notice(i - 1), EntryOf(c)) <= (IF i - 1 \in B THEN 1 ELSE 0)
      BY <1>7, <2>2
    <3>1. CASE i - 1 \in alive
      <4>1. notice(i - 1) = <<entry(i - 1)>>
        BY <3>1 DEF notice
      <4>2. entry(i - 1) \in EntryOf(c) => i - 1 = c
        BY <1>2, <1>3 DEF EntryOf
      <4>3. Count(notice(i - 1), EntryOf(c)) = IF entry(i - 1) \in EntryOf(c) THEN 1 ELSE 0
        BY <4>1, CountOne
      <4> QED
        BY <3>1, <4>2, <4>3
    <3>2. CASE i - 1 \notin alive
      <4>1. notice(i - 1) = << >>
        BY <3>2 DEF notice
      <4>2. Count(notice(i - 1), EntryOf(c)) = 0
        BY <4>1, CountNone
      <4> QED
        BY <4>2
    <3> QED
      BY <3>1, <3>2
  <2>5. Count(added, EntryOf(c)) <= Count(t, B)
    <3> HIDE DEF B
    <3> QED
      BY <1>7, <2>2, <2>4, CountFlatten
  <2>6. Count(added, EntryOf(c)) \in Nat
    <3> HIDE DEF added
    <3> QED
      BY <1>10, CountType
  <2>7. ASSUME c \in alive
        PROVE  Count(added, EntryOf(c)) > 0
    <3>1. notice(c) = <<entry(c)>>
      BY <2>7 DEF notice
    <3>2. entry(c) \in Elements(notice(c))
      <4>1. \A x : x \in Elements(<<x>>)
        BY DEF Elements
      <4> QED
        BY <3>1, <4>1
    <3>3. entry(c) \in Elements(added)
      BY <1>2, <1>9, <3>2
    <3>4. entry(c) \in EntryOf(c)
      BY <1>3 DEF EntryOf, Notices
    <3> HIDE DEF added
    <3>5. Has(added, EntryOf(c))
      BY <3>3, <3>4 DEF Has
    <3> QED
      BY <1>10, <3>5, HasCount
  <2> QED
    BY <2>1, <2>3, <2>5, <2>6, <2>7
<1> HIDE DEF added
<1>12. cache' \in Seq(Entries)
  BY <1>4, <1>10
<1>13. Ordered(added, FadeOrder)
  <2>1. \A i \in DOMAIN added : added[i] \in Entries /\ ~added[i].valid
    BY <1>10 DEF Elements
  <2> QED
    BY <2>1 DEF Ordered, FadeOrder
<1>14. Related(Elements(cache), Elements(added), FadeOrder)
  <2>1. \A e \in Elements(cache) : e \in Entries
    BY ElementIn
  <2> QED
    BY <1>10, <2>1 DEF Related, FadeOrder
<1>15. Ordered(cache', FadeOrder)
  BY <1>4, <1>10, <1>13, <1>14, OrderedJoin
<1>16. \A A : Count(cache', A) = Count(cache, A) + Count(added, A) /\ Count(cache, A) \in Nat
  BY <1>4, <1>10, CountJoin, CountType
<1>17. \A c : c \in alive <=> c \in cs /\ instance_state[c] = "ALIVE"
  BY DEF alive
<1> QED
  BY <1>5, <1>11, <1>12, <1>15, <1>16, <1>17

----------------------------------------------------------------------------
(* A pass of the subscriber. *)

\* Entries of other instances stay where they are, and leave no line.
Stays(c) ==
  /\ \A A \in {SampleOf(c), StateOf(c)} :
       Count(console', A) = Count(console, A) /\ (Has(console', A) <=> Has(console, A))
  /\ \A A \in {ValidOf(c), EntryOf(c)} :
       Count(cache', A) <= Count(cache, A) /\ (Has(cache', A) <=> Has(cache, A))

\* Those of an instance that is taken become lines, and the end of the instance
\* is printed with each of them.
Moves(c) ==
  LET ended == instance_state[c] = Final!Awaited
  IN /\ Count(console', SampleOf(c)) <= Count(console, SampleOf(c)) + Count(cache, ValidOf(c))
     /\ Has(console', SampleOf(c)) <=> Has(console, SampleOf(c)) \/ Has(cache, ValidOf(c))
     /\ Count(console', StateOf(c)) <=
          Count(console, StateOf(c)) + (IF ended THEN Count(cache, EntryOf(c)) ELSE 0)
     /\ Has(console', StateOf(c)) <=>
          Has(console, StateOf(c)) \/ (ended /\ Has(cache, EntryOf(c)))
     /\ \A A \in {ValidOf(c), EntryOf(c)} : Count(cache', A) = 0 /\ ~Has(cache', A)

LEMMA FinalTake ==
  ASSUME cache \in Seq(Entries), console \in Seq(ShownLines), Ordered(cache, FadeOrder),
         NEW K, Introduced(console, K),
         \A i \in DOMAIN cache : instance_state[cache[i].color] \in {"ALIVE", Final!Awaited},
         \A i \in DOMAIN cache : \/ cache[i].color \in K
                                 \/ Has(console, SampleOf(cache[i].color))
                                 \/ Has(cache, ValidOf(cache[i].color)),
         Final!TakeSamples
  PROVE  /\ cache' \in Seq(Entries) /\ console' \in Seq(ShownLines)
         /\ Ordered(cache', FadeOrder) /\ Introduced(console', K)
         /\ Elements(cache') \subseteq Elements(cache)
         /\ \A c \in Final!Handles : Stays(c) \/ Moves(c)
<1> DEFINE wanted == IF options.take_next_instance THEN {Final!Min(Final!Takeable)}
                     ELSE Final!Handles
           taken(i) == cache[i].color \in wanted
           printed == [i \in DOMAIN cache |-> IF taken(i) THEN Final!Printed(cache[i]) ELSE << >>]
           left == [i \in DOMAIN cache |-> IF taken(i) THEN << >> ELSE <<cache[i]>>]
           added == Final!FlattenSeq(printed)
           ended(c) == instance_state[c] = Final!Awaited
<1>1. Len(cache) \in Nat /\ DOMAIN cache = 1..Len(cache)
      /\ \A i \in DOMAIN cache : cache[i] \in Entries
  OBVIOUS
<1>2. console' = console \o added /\ cache' = Final!FlattenSeq(left)
  BY DEF Final!TakeSamples
<1> HIDE DEF wanted
<1>3. ASSUME NEW i \in DOMAIN cache
      PROVE  LET e == cache[i]
                 P == Final!Printed(e)
             IN /\ P \in Seq(ShownLines)
                /\ Introduced(P, IF e.valid THEN {} ELSE {e.color})
                /\ \A l \in Elements(P) : l.color = e.color
                /\ e.valid <=> Has(P, SampleOf(e.color))
                /\ ended(e.color) <=> Has(P, StateOf(e.color))
                /\ \A c \in Final!Handles :
                     /\ Count(P, SampleOf(c)) <= (IF e \in ValidOf(c) THEN 1 ELSE 0)
                     /\ Count(P, StateOf(c)) <= (IF e \in EntryOf(c) /\ ended(e.color) THEN 1 ELSE 0)
  BY <1>1, FinalPrinted
<1>4. Elements(<< >>) = {} /\ (\A R : Ordered(<< >>, R)) /\ (\A M : Introduced(<< >>, M))
      /\ \A A : Count(<< >>, A) = 0
  BY CountNone DEF Elements, Ordered, Introduced
<1>5. \A e : Elements(<<e>>) = {e} /\ \A R : Ordered(<<e>>, R)
  <2> TAKE e
  <2> DEFINE s == <<e>>
  <2>1. DOMAIN s = {1} /\ s[1] = e
    OBVIOUS
  <2> HIDE DEF s
  <2>2. Elements(s) = {e} /\ \A R : Ordered(s, R)
    BY <2>1 DEF Elements, Ordered
  <2> QED
    BY <2>2 DEF s
<1>6. /\ printed \in Seq(Seq(ShownLines)) /\ DOMAIN printed = DOMAIN cache
      /\ Len(printed) = Len(cache)
      /\ \A i \in DOMAIN cache : printed[i] = IF taken(i) THEN Final!Printed(cache[i]) ELSE << >>
  <2>1. \A i \in DOMAIN cache : Final!Printed(cache[i]) \in Seq(ShownLines)
    BY <1>3
  <2> QED
    BY <1>1, <2>1
<1>7. /\ left \in Seq(Seq(Entries)) /\ DOMAIN left = DOMAIN cache /\ Len(left) = Len(cache)
      /\ \A i \in DOMAIN cache : left[i] = IF taken(i) THEN << >> ELSE <<cache[i]>>
  BY <1>1
<1> HIDE DEF printed, left, added, taken
<1>8. cache' \in Seq(Entries) /\ added \in Seq(ShownLines)
  BY <1>2, <1>6, <1>7, FlattenTypes, SameFlatten DEF added
<1>9. console' \in Seq(ShownLines)
  BY <1>2, <1>8
<1>10. \A x : x \in Elements(added) <=> \E i \in DOMAIN cache : x \in Elements(printed[i])
  BY <1>6, FlattenElements, SameFlatten DEF added
<1>11. \A x : x \in Elements(cache') <=> \E i \in DOMAIN cache : x \in Elements(left[i])
  BY <1>2, <1>7, FlattenElements, SameFlatten
<1>12. \A i \in DOMAIN cache : \A e \in Elements(left[i]) : ~taken(i) /\ e = cache[i]
  BY <1>4, <1>5, <1>7
<1>13. \A x : x \in Elements(cache') <=> \E i \in DOMAIN cache : x = cache[i] /\ ~taken(i)
  BY <1>5, <1>7, <1>11, <1>12
<1>14. \A x : x \in Elements(added) <=>
                \E i \in DOMAIN cache : taken(i) /\ x \in Elements(Final!Printed(cache[i]))
  BY <1>4, <1>6, <1>10
<1>15. Elements(console') = Elements(console) \cup Elements(added)
  BY <1>2, <1>8, ElementsOfJoin
<1>16. Ordered(cache', FadeOrder)
  <2>1. \A i \in DOMAIN left : Ordered(left[i], FadeOrder)
    BY <1>4, <1>5, <1>7
  <2>2. \A i, k \in DOMAIN left :
          i < k => Related(Elements(left[i]), Elements(left[k]), FadeOrder)
    BY <1>7, <1>12 DEF Related, Ordered
  <2> QED
    BY <1>2, <1>7, <2>1, <2>2, FlattenOrdered, SameFlatten
<1>17. Introduced(console', K)
  <2> DEFINE M == K \cup {c \in Final!Handles : Has(console, SampleOf(c))}
             need == [i \in DOMAIN cache |->
                        IF taken(i) /\ ~cache[i].valid THEN {cache[i].color} ELSE {}]
  <2>1. ASSUME NEW i \in DOMAIN printed PROVE Introduced(printed[i], need[i])
    <3>1. i \in DOMAIN cache
      BY <1>6
    <3>2. CASE taken(i)
      <4>1. printed[i] = Final!Printed(cache[i])
            /\ need[i] = IF cache[i].valid THEN {} ELSE {cache[i].color}
        BY <1>6, <3>1, <3>2
      <4> QED
        BY <1>3, <3>1, <4>1
    <3>3. CASE ~taken(i)
      BY <1>4, <1>6, <3>1, <3>3
    <3> QED
      BY <3>2, <3>3
  <2>2. ASSUME NEW i \in DOMAIN cache, NEW c \in need[i]
        PROVE  c \in M \/ \E k \in DOMAIN printed : k < i /\ Has(printed[k], SampleOf(c))
    <3>1. taken(i) /\ ~cache[i].valid /\ c = cache[i].color /\ c \in Final!Handles
      BY <1>1, <2>2 DEF Entries
    <3>2. CASE c \in K \/ Has(console, SampleOf(c))
      BY <3>1, <3>2
    <3>3. CASE Has(cache, ValidOf(c))
      <4>1. PICK k \in DOMAIN cache : cache[k] \in ValidOf(c)
        BY <3>3 DEF Has, Elements
      <4>2. cache[k].valid /\ cache[k].color = c
        BY <4>1 DEF ValidOf
      <4>3. ~(i < k)
        <5>1. ASSUME i < k PROVE <<cache[i], cache[k]>> \in FadeOrder
          BY <5>1 DEF Ordered
        <5> QED
          BY <3>1, <4>2, <5>1 DEF FadeOrder
      <4>4. k < i
        BY <1>1, <3>1, <4>2, <4>3
      <4>5. taken(k)
        BY <3>1, <4>2 DEF taken
      <4>6. Has(printed[k], SampleOf(c))
        BY <1>3, <1>6, <4>2, <4>5
      <4> QED
        BY <1>6, <4>4, <4>6
    <3> QED
      BY <3>1, <3>2, <3>3
  <2> HIDE DEF need, M
  <2>3. Introduced(added, M)
    BY <1>6, <2>1, <2>2, IntroducedFlatten DEF added
  <2>4. \A c \in M : c \in K \/ Has(console, SampleOf(c))
    BY DEF M
  <2> QED
    BY <1>2, <1>8, <2>3, <2>4, IntroducedJoin
<1>18. \A A : Count(cache', A) <= Count(cache, A)
  <2> TAKE A
  <2>1. \A i \in DOMAIN left : Count(left[i], A) <= (IF cache[i] \in A THEN 1 ELSE 0)
    BY <1>4, <1>7, CountOne
  <2> QED
    BY <1>2, <1>7, <2>1, CountFlatten
<1>19. \A A : Count(console', A) = Count(console, A) + Count(added, A)
  BY <1>2, <1>8, CountJoin
<1>20. \A A : Count(added, A) \in Nat /\ Count(console, A) \in Nat /\ Count(cache, A) \in Nat
              /\ Count(cache', A) \in Nat
  BY <1>8, CountType
<1>21. \A A : /\ Has(added, A) <=> Count(added, A) > 0
              /\ Has(cache', A) <=> Count(cache', A) > 0
  BY <1>8, HasCount
<1>22. \A A : Has(console', A) <=> Has(console, A) \/ Has(added, A)
  BY <1>15 DEF Has
<1>23. ASSUME NEW c \in Final!Handles, c \in wanted
       PROVE  Moves(c)
  <2>1. \A i \in DOMAIN cache : cache[i].color = c => taken(i)
    BY <1>23 DEF taken
  <2>2. ~Has(cache', ValidOf(c)) /\ ~Has(cache', EntryOf(c))
    BY <1>13, <2>1 DEF Has, ValidOf, EntryOf
  <2>3. Count(cache', ValidOf(c)) = 0 /\ Count(cache', EntryOf(c)) = 0
    BY <1>20, <1>21, <2>2
  <2>4. Count(added, SampleOf(c)) <= Count(cache, ValidOf(c))
    <3>1. ASSUME NEW i \in DOMAIN printed
          PROVE  Count(printed[i], SampleOf(c)) <= (IF cache[i] \in ValidOf(c) THEN 1 ELSE 0)
      <4>1. i \in DOMAIN cache
        BY <1>6
      <4>2. CASE taken(i)
        BY <1>3, <1>6, <4>1, <4>2
      <4>3. CASE ~taken(i)
        BY <1>4, <1>6, <4>1, <4>3
      <4> QED
        BY <4>2, <4>3
    <3> QED
      BY <1>6, <3>1, CountFlatten DEF added
  <2>5. Count(added, StateOf(c)) <= (IF ended(c) THEN Count(cache, EntryOf(c)) ELSE 0)
    <3> DEFINE B == IF ended(c) THEN EntryOf(c) ELSE {}
    <3>1. ASSUME NEW i \in DOMAIN printed
          PROVE  Count(printed[i], StateOf(c)) <= (IF cache[i] \in B THEN 1 ELSE 0)
      <4>1. i \in DOMAIN cache
        BY <1>6
      <4>2. CASE taken(i)
        <5>1. cache[i] \in EntryOf(c) => cache[i].color = c
          BY DEF EntryOf
        <5>2. Count(Final!Printed(cache[i]), StateOf(c)) <=
                (IF cache[i] \in EntryOf(c) /\ ended(cache[i].color) THEN 1 ELSE 0)
          BY <1>3, <4>1
        <5>3. cache[i] \in EntryOf(c) /\ ended(cache[i].color) => cache[i] \in B
          BY <5>1
        <5>4. printed[i] = Final!Printed(cache[i])
          BY <1>6, <4>1, <4>2
        <5>5. Count(printed[i], StateOf(c)) \in Nat
          BY <1>6, <4>1, CountType
        <5> HIDE DEF B, ended
        <5> QED
          BY <5>2, <5>3, <5>4, <5>5
      <4>3. CASE ~taken(i)
        BY <1>4, <1>6, <4>1, <4>3
      <4> QED
        BY <4>2, <4>3
    <3> HIDE DEF B
    <3>2. Count(added, StateOf(c)) <= Count(cache, B)
      BY <1>6, <3>1, CountFlatten DEF added
    <3>3. Count(cache, {}) = 0
      BY CountType
    <3> QED
      BY <3>2, <3>3 DEF B
  <2>6. Has(added, SampleOf(c)) <=> Has(cache, ValidOf(c))
    <3>1. ASSUME Has(cache, ValidOf(c)) PROVE Has(added, SampleOf(c))
      <4>1. PICK i \in DOMAIN cache : cache[i] \in ValidOf(c)
        BY <3>1 DEF Has, Elements
      <4>2. cache[i].valid /\ cache[i].color = c
        BY <4>1 DEF ValidOf
      <4>3. Has(Final!Printed(cache[i]), SampleOf(c)) /\ taken(i)
        BY <1>3, <2>1, <4>2
      <4> QED
        BY <1>14, <4>3 DEF Has
    <3>2. ASSUME Has(added, SampleOf(c)) PROVE Has(cache, ValidOf(c))
      <4>1. Count(cache, ValidOf(c)) > 0
        BY <1>20, <1>21, <2>4, <3>2
      <4> QED
        BY <4>1, HasCount
    <3> QED
      BY <3>1, <3>2
  <2>7. Has(added, StateOf(c)) <=> ended(c) /\ Has(cache, EntryOf(c))
    <3>1. ASSUME ended(c), Has(cache, EntryOf(c)) PROVE Has(added, StateOf(c))
      <4>1. PICK i \in DOMAIN cache : cache[i] \in EntryOf(c)
        BY <3>1 DEF Has, Elements
      <4>2. cache[i].color = c
        BY <4>1 DEF EntryOf
      <4>3. Has(Final!Printed(cache[i]), StateOf(c)) /\ taken(i)
        BY <1>3, <2>1, <3>1, <4>2
      <4> QED
        BY <1>14, <4>3 DEF Has
    <3>2. ASSUME Has(added, StateOf(c)) PROVE ended(c) /\ Has(cache, EntryOf(c))
      <4> HIDE DEF ended
      <4>1. ended(c) /\ Count(cache, EntryOf(c)) > 0
        BY <1>20, <1>21, <2>5, <3>2
      <4> QED
        BY <4>1, HasCount
    <3> QED
      BY <3>1, <3>2
  <2> DEFINE S == SampleOf(c)
             T == StateOf(c)
             V == ValidOf(c)
             E == EntryOf(c)
  <2> HIDE DEF S, T, V, E
  <2>8. /\ Count(console', S) <= Count(console, S) + Count(cache, V)
        /\ Has(console', S) <=> Has(console, S) \/ Has(cache, V)
    BY <1>19, <1>20, <1>22, <2>4, <2>6 DEF S, V
  <2>9. /\ Count(console', T) <= Count(console, T) + (IF ended(c) THEN Count(cache, E) ELSE 0)
        /\ Has(console', T) <=> Has(console, T) \/ (ended(c) /\ Has(cache, E))
    <3> HIDE DEF ended
    <3> QED
      BY <1>19, <1>20, <1>22, <2>5, <2>7 DEF T, E
  <2> QED
    BY <2>2, <2>3, <2>8, <2>9 DEF Moves, S, T, V, E
<1>24. ASSUME NEW c \in Final!Handles, c \notin wanted
       PROVE  Stays(c)
  <2>1. \A i \in DOMAIN cache : cache[i].color = c => ~taken(i)
    BY <1>24 DEF taken
  <2>2. \A l \in Elements(added) : l.color # c
    BY <1>3, <1>14, <2>1
  <2>3. ~Has(added, SampleOf(c)) /\ ~Has(added, StateOf(c))
    BY <2>2 DEF Has, SampleOf, StateOf
  <2>4. Count(added, SampleOf(c)) = 0 /\ Count(added, StateOf(c)) = 0
    BY <1>20, <1>21, <2>3
  <2>5. \A x : x.color = c => (x \in Elements(cache') <=> x \in Elements(cache))
    BY <1>13, <2>1 DEF Elements
  <2>6. /\ Has(cache', ValidOf(c)) <=> Has(cache, ValidOf(c))
        /\ Has(cache', EntryOf(c)) <=> Has(cache, EntryOf(c))
    BY <2>5 DEF Has, ValidOf, EntryOf
  <2>7. \A A \in {SampleOf(c), StateOf(c)} :
          Count(console', A) = Count(console, A) /\ (Has(console', A) <=> Has(console, A))
    BY <1>19, <1>20, <1>22, <2>3, <2>4
  <2>8. \A A \in {ValidOf(c), EntryOf(c)} :
          Count(cache', A) <= Count(cache, A) /\ (Has(cache', A) <=> Has(cache, A))
    BY <1>18, <2>6
  <2> QED
    BY <2>7, <2>8 DEF Stays
<1>25. Elements(cache') \subseteq Elements(cache)
  BY <1>13 DEF Elements
<1> QED
  BY <1>8, <1>9, <1>16, <1>17, <1>23, <1>24, <1>25

----------------------------------------------------------------------------
(* The steps of the applications. *)

LEMMA AwaitedState == Final!Awaited \notin {"unknown", "ALIVE"}
  BY DEF Final!Awaited

LEMMA BudgetTypes ==
  ASSUME FinalAppTypes, FinalCheckTypes, Final!FinalStateAssumption, NEW c \in Final!Handles
  PROVE  /\ Looked(c) \in Nat /\ Times(c) \in Nat /\ FinalIterations \in Nat
         /\ \A A : Count(console, A) \in Nat /\ Count(cache, A) \in Nat
<1>1. FinalIterations \in Nat
  BY DEF Final!FinalStateAssumption, Final!ShapeMainAssumption
<1>2. Looked(c) \in Nat
  BY DEF Looked, FinalCheckTypes
<1>3. Times(c) \in Nat
  BY <1>1 DEF Times, FinalAppTypes
<1>4. \A A : Count(console, A) \in Nat /\ Count(cache, A) \in Nat
  BY CountType DEF FinalAppTypes
<1> QED
  BY <1>1, <1>2, <1>3, <1>4

\* The applications leave the check function alone.
LEMMA CheckSame ==
  ASSUME UNCHANGED Final!checkVars, UNCHANGED options
  PROVE  /\ Met' = Met /\ Ended' = Ended /\ \A c : Looked(c)' = Looked(c)
         /\ FinalCheckTypes => FinalCheckTypes'
         /\ Final!Awaited' = Final!Awaited /\ ShownLines' = ShownLines
         /\ final_result' = final_result
<1>1. UNCHANGED <<final_line, final_first, instance_color, gone_color, final_count, final_result>>
  BY DEF Final!checkVars
<1>2. Met' = Met /\ Ended' = Ended /\ \A c : Looked(c)' = Looked(c)
  BY <1>1 DEF Met, Ended, Announced, Looked
<1>3. Final!Awaited' = Final!Awaited
  BY DEF Final!Awaited
<1>4. ShownLines' = ShownLines
  BY <1>3 DEF ShownLines
<1>5. FinalCheckTypes => FinalCheckTypes'
  BY <1>1, <1>2, <1>4 DEF FinalCheckTypes
<1> QED
  BY <1>1, <1>2, <1>3, <1>4, <1>5

\* Steps that change nothing the invariant is about.
LEMMA FinalIdleStep ==
  ASSUME AlarmInv, UNCHANGED Final!checkVars,
         UNCHANGED <<options, pub_pc, j, n, shapesize, cache, instance_state, console>>
  PROVE  AlarmInv'
<1>1. /\ Met' = Met /\ Ended' = Ended /\ (\A c : Looked(c)' = Looked(c))
      /\ FinalCheckTypes' /\ Final!Awaited' = Final!Awaited /\ ShownLines' = ShownLines
  BY CheckSame DEF AlarmInv
<1>2. FinalAppTypes'
  BY <1>1 DEF AlarmInv, FinalAppTypes
<1>3. PhaseInv'
  BY <1>1 DEF AlarmInv, PhaseInv
<1>4. IntroInv'
  BY <1>1 DEF AlarmInv, IntroInv
<1>5. ASSUME NEW c \in Final!Handles PROVE SeenInv(c)' /\ OnItsWay(c)' /\ Budget(c)'
  <2>1. SeenInv(c) /\ OnItsWay(c) /\ Budget(c)
    BY DEF AlarmInv
  <2>2. Times(c)' = Times(c)
    BY DEF Times
  <2> QED
    BY <1>1, <2>1, <2>2 DEF SeenInv, OnItsWay, Budget
<1> QED
  BY <1>1, <1>2, <1>3, <1>4, <1>5 DEF AlarmInv

LEMMA FinalTakeStep ==
  ASSUME Final!FinalStateAssumption, AlarmInv, Final!TakeSamples, UNCHANGED Final!checkVars
  PROVE  AlarmInv'
<1>1. UNCHANGED <<options, pub_pc, j, n, shapesize, instance_state>>
  BY DEF Final!TakeSamples, Final!publisher
<1>2. /\ Met' = Met /\ Ended' = Ended /\ (\A c : Looked(c)' = Looked(c))
      /\ FinalCheckTypes' /\ Final!Awaited' = Final!Awaited /\ ShownLines' = ShownLines
  BY <1>1, CheckSame DEF AlarmInv
<1>3. FinalAppTypes /\ FinalCheckTypes /\ PhaseInv /\ IntroInv
      /\ \A c \in Final!Handles : SeenInv(c) /\ OnItsWay(c) /\ Budget(c)
  BY DEF AlarmInv
<1>4. ASSUME NEW i \in DOMAIN cache
      PROVE  /\ instance_state[cache[i].color] \in {"ALIVE", Final!Awaited}
             /\ \/ cache[i].color \in Met
                \/ Has(console, SampleOf(cache[i].color))
                \/ Has(cache, ValidOf(cache[i].color))
  <2> DEFINE c == cache[i].color
  <2>1. cache[i] \in Entries /\ c \in Final!Handles
    <3>1. cache[i] \in Entries
      BY <1>3 DEF FinalAppTypes
    <3> QED
      BY <3>1 DEF Entries
  <2>2. Has(cache, EntryOf(c))
    BY <2>1 DEF Has, Elements, EntryOf
  <2>3. instance_state[c] # "unknown"
    BY <1>3, <2>1, <2>2 DEF SeenInv
  <2>4. instance_state[c] \in {"unknown", "ALIVE", Final!Awaited}
    BY <1>3, <2>1 DEF FinalAppTypes
  <2> QED
    BY <1>3, <2>1, <2>3, <2>4 DEF SeenInv
<1>5. /\ cache' \in Seq(Entries) /\ console' \in Seq(ShownLines)
      /\ Ordered(cache', FadeOrder) /\ Introduced(console', Met)
      /\ Elements(cache') \subseteq Elements(cache)
      /\ \A c \in Final!Handles : Stays(c) \/ Moves(c)
  BY <1>3, <1>4, FinalTake DEF FinalAppTypes, IntroInv
<1>6. FinalAppTypes'
  BY <1>1, <1>2, <1>3, <1>5 DEF FinalAppTypes
<1>7. PhaseInv'
  BY <1>1, <1>2, <1>3, <1>5 DEF PhaseInv
<1>8. IntroInv'
  BY <1>2, <1>3, <1>5 DEF IntroInv
<1>9. ASSUME NEW c \in Final!Handles PROVE SeenInv(c)' /\ OnItsWay(c)' /\ Budget(c)'
  <2>1. SeenInv(c) /\ OnItsWay(c) /\ Budget(c)
    BY <1>3
  <2>2. Times(c)' = Times(c)
    BY <1>1 DEF Times
  <2>3. /\ Looked(c) \in Nat /\ Times(c) \in Nat /\ FinalIterations \in Nat
        /\ options.history_depth \in Nat
        /\ \A A : Count(console, A) \in Nat /\ Count(cache, A) \in Nat
    BY <1>3, BudgetTypes DEF FinalAppTypes
  <2>4. \A A : Count(console', A) \in Nat /\ Count(cache', A) \in Nat
    BY <1>5, CountType
  <2>5. CASE Stays(c)
    <3>1. SeenInv(c)' /\ OnItsWay(c)'
      BY <1>1, <1>2, <2>1, <2>5 DEF SeenInv, OnItsWay, Stays
    <3>2. Budget(c)'
      BY <1>1, <1>2, <2>1, <2>2, <2>3, <2>4, <2>5 DEF Budget, Within, Stays
    <3> QED
      BY <3>1, <3>2
  <2>6. CASE Moves(c)
    <3>1. SeenInv(c)' /\ OnItsWay(c)'
      BY <1>1, <1>2, <2>1, <2>6 DEF SeenInv, OnItsWay, Moves
    <3>2. Budget(c)'
      BY <1>1, <1>2, <2>1, <2>2, <2>3, <2>4, <2>6 DEF Budget, Within, Moves
    <3> QED
      BY <3>1, <3>2
  <2> QED
    BY <1>5, <2>5, <2>6
<1> QED
  BY <1>2, <1>6, <1>7, <1>8, <1>9 DEF AlarmInv

\* Instances end: each of them puts its end on the way.
LEMMA FinalBuryStep ==
  ASSUME Final!FinalStateAssumption, AlarmInv, UNCHANGED Final!checkVars,
         NEW cs \in SUBSET Final!Handles, NEW state, Final!Bury(cs, state),
         \A c \in cs : instance_state[c] = "ALIVE" => state = Final!Awaited,
         UNCHANGED <<options, n, shapesize, console>>, j' \in Final!Handles,
         pub_pc # "loop", pub_pc' \in {"final", "acked", "gone"}, PhaseInv'
  PROVE  AlarmInv'
<1>1. Final!ShapeMainAssumption
  BY DEF Final!FinalStateAssumption
<1>2. /\ Met' = Met /\ Ended' = Ended /\ (\A c : Looked(c)' = Looked(c))
      /\ FinalCheckTypes' /\ Final!Awaited' = Final!Awaited /\ ShownLines' = ShownLines
  BY CheckSame DEF AlarmInv
<1>3. FinalAppTypes /\ FinalCheckTypes /\ PhaseInv /\ IntroInv
      /\ \A c \in Final!Handles : SeenInv(c) /\ OnItsWay(c) /\ Budget(c)
  BY DEF AlarmInv
<1>4. /\ cache' \in Seq(Entries) /\ Ordered(cache', FadeOrder)
      /\ instance_state' = [c \in Final!Handles |->
           IF c \in cs /\ instance_state[c] = "ALIVE" THEN state ELSE instance_state[c]]
      /\ \A c \in Final!Handles :
           LET one == IF c \in cs /\ instance_state[c] = "ALIVE" THEN 1 ELSE 0
           IN /\ Count(cache', ValidOf(c)) = Count(cache, ValidOf(c))
              /\ Count(cache', EntryOf(c)) = Count(cache, EntryOf(c)) + one
  BY <1>1, <1>3, FinalBury DEF FinalAppTypes, IntroInv
<1>5. instance_state \in [Final!Handles -> {"unknown", "ALIVE", Final!Awaited}]
  BY <1>3 DEF FinalAppTypes
<1>6. instance_state' \in [Final!Handles -> {"unknown", "ALIVE", Final!Awaited}]
  BY <1>4, <1>5
<1>7. FinalAppTypes'
  BY <1>2, <1>3, <1>4, <1>6 DEF FinalAppTypes
<1>8. IntroInv'
  BY <1>2, <1>3, <1>4 DEF IntroInv
<1>9. ASSUME NEW c \in Final!Handles PROVE SeenInv(c)' /\ OnItsWay(c)' /\ Budget(c)'
  <2> DEFINE dies == c \in cs /\ instance_state[c] = "ALIVE"
  <2>1. SeenInv(c) /\ OnItsWay(c) /\ Budget(c)
    BY <1>3
  <2>2. Times(c)' = FinalIterations /\ Times(c) = FinalIterations
    BY DEF Times
  <2>3. /\ Looked(c) \in Nat /\ FinalIterations \in Nat /\ options.history_depth \in Nat
        /\ \A A : Count(console, A) \in Nat /\ Count(cache, A) \in Nat
    BY <1>3, BudgetTypes DEF FinalAppTypes
  <2>4. /\ Count(cache', ValidOf(c)) = Count(cache, ValidOf(c))
        /\ Count(cache', EntryOf(c)) = Count(cache, EntryOf(c)) + (IF dies THEN 1 ELSE 0)
        /\ instance_state'[c] = IF dies THEN Final!Awaited ELSE instance_state[c]
    BY <1>4
  <2>5. Final!Awaited # "unknown" /\ Final!Awaited # "ALIVE"
        /\ (dies => instance_state[c] = "ALIVE")
    BY AwaitedState
  <2>6. \A A : /\ Has(cache, A) <=> Count(cache, A) > 0
               /\ Has(cache', A) <=> Count(cache', A) > 0
    BY <1>3, <1>4, HasCount DEF FinalAppTypes
  <2> HIDE DEF dies
  <2>7. /\ Has(cache', ValidOf(c)) <=> Has(cache, ValidOf(c))
        /\ Has(cache', EntryOf(c)) <=> Has(cache, EntryOf(c)) \/ dies
    BY <2>3, <2>4, <2>6
  <2>8. SeenInv(c)'
    BY <1>2, <2>1, <2>4, <2>5, <2>7 DEF SeenInv
  <2>9. OnItsWay(c)'
    BY <1>2, <2>1, <2>4, <2>7 DEF OnItsWay
  <2>10. Budget(c)'
    BY <1>2, <2>1, <2>2, <2>3, <2>4, <2>5 DEF Budget, Within
  <2> QED
    BY <2>8, <2>9, <2>10
<1> QED
  BY <1>2, <1>3, <1>7, <1>8, <1>9 DEF AlarmInv

LEMMA CountedStep ==
  ASSUME Final!FinalStateAssumption, CountedInv, Final!Next
  PROVE  CountedInv'
<1>1. CASE UNCHANGED <<n, all_done>>
  BY <1>1 DEF CountedInv
<1>2. CASE Final!Write
  <2>1. \/ UNCHANGED <<n, all_done>>
        \/ /\ n' = n + 1
           /\ all_done' = [all_done EXCEPT !["pub"] = @ \/ (FinalIterations # 0 /\ FinalIterations <= n')]
    BY <1>2 DEF Final!Write
  <2>2. FinalIterations \in Nat /\ FinalIterations > 0
    BY DEF Final!FinalStateAssumption, Final!ShapeMainAssumption
  <2>3. CASE /\ n' = n + 1
             /\ all_done' = [all_done EXCEPT !["pub"] = @ \/ (FinalIterations # 0 /\ FinalIterations <= n')]
    <3>1. n' \in Nat /\ n \in Nat
      BY <2>3 DEF CountedInv
    <3>2. all_done' \in [{"pub", "sub"} -> BOOLEAN]
      BY <2>3 DEF CountedInv
    <3>3. all_done'["pub"] = (all_done["pub"] \/ (FinalIterations # 0 /\ FinalIterations <= n'))
      BY <2>3 DEF CountedInv
    <3> QED
      BY <2>2, <3>1, <3>2, <3>3 DEF CountedInv
  <2> QED
    BY <1>1, <2>1, <2>3
<1>3. ASSUME NEW app \in {"pub", "sub"}, Final!Interrupt(app) PROVE CountedInv'
  <2>1. all_done' = [all_done EXCEPT ![app] = TRUE] /\ n' = n
    BY <1>3 DEF Final!Interrupt, Final!publisher
  <2> QED
    BY <2>1 DEF CountedInv
<1>4. CASE Final!Check
  BY <1>1, <1>4 DEF Final!Check, Final!publisher
<1>5. CASE Final!Match \/ Final!LeaveLoop \/ Final!FinishInstance \/ Final!DeleteWriters
           \/ Final!Subscriber
  BY <1>1, <1>5
  DEF Final!Match, Final!LeaveLoop, Final!FinishInstance, Final!DeleteWriters, Final!Subscriber,
      Final!TakeSamples, Final!EndPass, Final!publisher
<1> QED
  BY <1>2, <1>3, <1>4, <1>5 DEF Final!Next, Final!Applications, Final!Publisher

LEMMA FinalWriteStep ==
  ASSUME Final!FinalStateAssumption, CountedInv, AlarmInv, Final!Write, UNCHANGED Final!checkVars
  PROVE  AlarmInv'
<1> DEFINE z == shapesize'
           entry == [color |-> j, size |-> z, valid |-> TRUE]
           more == Append(cache, entry)
           kept == Final!KeepLast(more, j)
           D == options.history_depth
<1>1. UNCHANGED <<options, pub_pc, console>> /\ pub_pc = "loop" /\ n < FinalIterations
  <2>1. UNCHANGED <<options, pub_pc, console>> /\ pub_pc = "loop" /\ (j = 0 => ~all_done["pub"])
    BY DEF Final!Write, Final!subscriber
  <2>2. j # 0 => n < FinalIterations
    BY <2>1 DEF AlarmInv, FinalAppTypes
  <2>3. n \in Nat /\ FinalIterations \in Nat
    BY DEF CountedInv, Final!FinalStateAssumption, Final!ShapeMainAssumption
  <2> QED
    BY <2>1, <2>2, <2>3 DEF CountedInv
<1>2. /\ Met' = Met /\ Ended' = Ended /\ (\A c : Looked(c)' = Looked(c))
      /\ FinalCheckTypes' /\ Final!Awaited' = Final!Awaited /\ ShownLines' = ShownLines
  BY <1>1, CheckSame DEF AlarmInv
<1>3. FinalAppTypes /\ FinalCheckTypes /\ PhaseInv /\ IntroInv
      /\ \A c \in Final!Handles : SeenInv(c) /\ OnItsWay(c) /\ Budget(c)
  BY DEF AlarmInv
<1>4. FinalInstances \in Nat \ {0} /\ FinalIterations \in Nat
  BY DEF Final!FinalStateAssumption, Final!ShapeMainAssumption
<1>5. j \in Final!Handles /\ shapesize \in Nat /\ n \in Nat /\ D \in Nat \ {0}
      /\ cache \in Seq(Entries) /\ (\A e \in Elements(cache) : e.valid)
      /\ \A c \in Final!Handles : instance_state[c] \in {"unknown", "ALIVE"}
  BY <1>1, <1>3 DEF FinalAppTypes, PhaseInv
<1>6. z \in Nat
  BY <1>5 DEF Final!Write, Final!NextSize
<1>7. /\ j' \in Final!Handles /\ n' \in 0..FinalIterations /\ (j' # 0 => n' < FinalIterations)
      /\ \A c \in Final!Handles : Times(c)' = Times(c) + (IF c = j THEN 1 ELSE 0)
  <2>1. IF j = FinalInstances - 1 THEN j' = 0 /\ n' = n + 1 ELSE j' = j + 1 /\ n' = n
    BY DEF Final!Write, Final!LastInstance
  <2> QED
    BY <1>1, <1>4, <1>5, <2>1 DEF Final!Handles, Times
<1>8. entry \in Entries /\ entry.color = j /\ entry.valid
  BY <1>5, <1>6 DEF Entries
<1>9. \/ cache' = kept /\ instance_state' = [instance_state EXCEPT ![j] = "ALIVE"]
      \/ UNCHANGED <<cache, instance_state>>
  BY DEF Final!Write, Final!Receive, Final!reader
<1> HIDE DEF entry, z, D
<1>10. /\ more \in Seq(Entries)
       /\ \A A : Count(more, A) = Count(cache, A) + (IF entry \in A THEN 1 ELSE 0)
       /\ \A A : Count(cache, A) \in Nat
       /\ Elements(more) = Elements(cache) \cup {entry}
  <2>1. more = cache \o <<entry>> /\ <<entry>> \in Seq(Entries) /\ more \in Seq(Entries)
    BY <1>5, <1>8
  <2>2. \A A : Count(more, A) = Count(cache, A) + (IF entry \in A THEN 1 ELSE 0)
    BY <1>5, <1>8, CountAppend
  <2>3. Elements(<<entry>>) = {entry}
    <3> DEFINE s == <<entry>>
    <3>1. DOMAIN s = {1} /\ s[1] = entry
      OBVIOUS
    <3> HIDE DEF s
    <3>2. Elements(s) = {entry}
      BY <3>1 DEF Elements
    <3> QED
      BY <3>2 DEF s
  <2> HIDE DEF more
  <2>4. Elements(more) = Elements(cache) \cup {entry}
    <3> DEFINE s == <<entry>>
    <3> HIDE DEF s
    <3>1. more = cache \o s /\ s \in Seq(Entries) /\ Elements(s) = {entry}
      BY <2>1, <2>3 DEF s
    <3>2. Elements(cache \o s) = Elements(cache) \cup Elements(s)
      BY <1>5, <3>1, ElementsOfJoin
    <3> QED
      BY <3>1, <3>2
  <2> QED
    BY <1>5, <2>1, <2>2, <2>4, CountType
<1> HIDE DEF more
<1>11. \A c \in Final!Handles : entry \in ValidOf(c) <=> c = j
  BY <1>5, <1>8 DEF ValidOf
<1>12. \A c \in Final!Handles : entry \in EntryOf(c) <=> c = j
  BY <1>5, <1>8 DEF EntryOf
<1>13. \A s \in Seq(Entries) : (\A e \in Elements(s) : e.valid) =>
         \A c \in Final!Handles : Count(s, ValidOf(c)) = Count(s, EntryOf(c))
  <2> SUFFICES ASSUME NEW s \in Seq(Entries), \A e \in Elements(s) : e.valid,
                      NEW c \in Final!Handles
               PROVE  Count(s, ValidOf(c)) = Count(s, EntryOf(c))
    OBVIOUS
  <2>1. \A i \in DOMAIN s : s[i] \in Entries /\ s[i].valid
    BY DEF Elements
  <2>2. Hits(s, ValidOf(c)) = Hits(s, EntryOf(c))
    BY <2>1 DEF Hits, ValidOf, EntryOf
  <2> QED
    BY <2>2 DEF Count
<1>14. ASSUME NEW c \in Final!Handles
       PROVE  /\ Looked(c) \in Nat /\ Times(c) \in Nat /\ FinalIterations \in Nat
              /\ \A A : Count(console, A) \in Nat /\ Count(cache, A) \in Nat
  BY <1>3, BudgetTypes
<1>15. \A c \in Final!Handles :
         /\ Count(cache, ValidOf(c)) = Count(cache, EntryOf(c))
         /\ Count(cache, EntryOf(c)) <= D
  <2>1. \A c \in Final!Handles : Final!Awaited # instance_state[c]
    BY <1>5, AwaitedState
  <2> QED
    BY <1>3, <1>5, <1>13, <2>1 DEF Budget, Within, D
<1>16. Count(more, ValidOf(j)) \in 1..(D + 1)
  BY <1>5, <1>10, <1>11, <1>15
<1>17. LET kpt == kept
       IN /\ kpt \in Seq(Entries) /\ Elements(kpt) \subseteq Elements(more)
          /\ Count(kpt, ValidOf(j)) \in 1..D
          /\ Count(kpt, ValidOf(j)) <= Count(more, ValidOf(j))
          /\ \A f \in Final!Handles : f # j =>
               /\ Count(kpt, ValidOf(f)) = Count(more, ValidOf(f))
               /\ Count(kpt, EntryOf(f)) = Count(more, EntryOf(f))
  BY <1>5, <1>10, <1>16, FinalKeep DEF D
<1> HIDE DEF kept
<1>18. cache' \in Seq(Entries) /\ (\A e \in Elements(cache') : e.valid)
  <2>1. \A e \in Elements(kept) : e.valid
    BY <1>5, <1>8, <1>10, <1>17
  <2> QED
    BY <1>5, <1>9, <1>17, <2>1
<1>19. instance_state' \in [Final!Handles -> {"unknown", "ALIVE", Final!Awaited}]
       /\ \A c \in Final!Handles : instance_state'[c] \in {"unknown", "ALIVE"}
  BY <1>3, <1>5, <1>9 DEF FinalAppTypes
<1>20. FinalAppTypes'
  BY <1>1, <1>2, <1>3, <1>6, <1>7, <1>18, <1>19 DEF FinalAppTypes, z
<1>21. PhaseInv'
  BY <1>1, <1>2, <1>18, <1>19, AwaitedState DEF PhaseInv
<1>22. Ordered(cache', FadeOrder)
  <2>1. \A i \in DOMAIN cache' : cache'[i] \in Entries /\ cache'[i].valid
    BY <1>18 DEF Elements
  <2> QED
    BY <2>1 DEF Ordered, FadeOrder
<1>23. IntroInv'
  BY <1>1, <1>2, <1>3, <1>22 DEF IntroInv
<1>24. ASSUME NEW c \in Final!Handles
       PROVE  /\ Count(cache', ValidOf(c)) = Count(cache', EntryOf(c))
              /\ Count(cache', EntryOf(c)) \in 0..D
              /\ Count(cache', ValidOf(c)) <= Count(cache, ValidOf(c)) + (IF c = j THEN 1 ELSE 0)
              /\ \/ /\ instance_state'[c] = "ALIVE" /\ Count(cache', ValidOf(c)) > 0 /\ c = j
                 \/ /\ instance_state'[c] = instance_state[c]
                    /\ Count(cache', ValidOf(c)) = Count(cache, ValidOf(c))
  <2>1. Count(cache', ValidOf(c)) = Count(cache', EntryOf(c))
    BY <1>13, <1>18
  <2>2. CASE UNCHANGED <<cache, instance_state>>
    BY <1>5, <1>10, <1>15, <2>1, <2>2
  <2>3. CASE cache' = kept /\ instance_state' = [instance_state EXCEPT ![j] = "ALIVE"]
    <3>1. CASE c = j
      <4>1. instance_state'[c] = "ALIVE"
        BY <1>3, <2>3, <3>1 DEF FinalAppTypes
      <4>2. Count(cache', ValidOf(c)) \in 1..D
            /\ Count(cache', ValidOf(c)) <= Count(cache, ValidOf(c)) + 1
        BY <1>10, <1>11, <1>17, <2>3, <3>1
      <4> QED
        BY <1>5, <2>1, <3>1, <4>1, <4>2
    <3>2. CASE c # j
      <4>1. instance_state'[c] = instance_state[c]
        BY <1>3, <2>3, <3>2 DEF FinalAppTypes
      <4>2. Count(cache', ValidOf(c)) = Count(cache, ValidOf(c))
        BY <1>10, <1>11, <1>17, <2>3, <3>2
      <4> QED
        BY <1>5, <1>10, <1>15, <2>1, <3>2, <4>1, <4>2
    <3> QED
      BY <3>1, <3>2
  <2> QED
    BY <1>9, <2>2, <2>3
<1>25. ASSUME NEW c \in Final!Handles PROVE SeenInv(c)' /\ OnItsWay(c)' /\ Budget(c)'
  <2>1. SeenInv(c) /\ OnItsWay(c) /\ Budget(c)
    BY <1>3
  <2>2. \A A : /\ Has(cache, A) <=> Count(cache, A) > 0
               /\ Has(cache', A) <=> Count(cache', A) > 0
    BY <1>5, <1>18, HasCount
  <2>3. SeenInv(c)'
    BY <1>1, <1>2, <1>15, <1>24, <2>1, <2>2 DEF SeenInv
  <2>4. instance_state'[c] # Final!Awaited /\ instance_state[c] # Final!Awaited
    BY <1>5, <1>19, AwaitedState
  <2>5. OnItsWay(c)'
    BY <1>2, <2>4 DEF OnItsWay
  <2>6. Budget(c)'
    BY <1>1, <1>2, <1>7, <1>14, <1>24, <2>1, <2>4 DEF Budget, Within, D
  <2> QED
    BY <2>3, <2>5, <2>6
<1> QED
  BY <1>2, <1>20, <1>21, <1>23, <1>25 DEF AlarmInv

LEMMA FinalLeaveStep ==
  ASSUME Final!FinalStateAssumption, AlarmInv, Final!LeaveLoop, UNCHANGED Final!checkVars
  PROVE  AlarmInv'
<1>1. /\ UNCHANGED <<options, j, n, shapesize, cache, instance_state, console>>
      /\ pub_pc = "loop" /\ j = 0
      /\ pub_pc' = IF options.final_instance_state = "none" THEN "acked" ELSE "final"
  BY DEF Final!LeaveLoop, Final!reader, Final!subscriber
<1>2. /\ Met' = Met /\ Ended' = Ended /\ (\A c : Looked(c)' = Looked(c))
      /\ FinalCheckTypes' /\ Final!Awaited' = Final!Awaited /\ ShownLines' = ShownLines
  BY <1>1, CheckSame DEF AlarmInv
<1>3. FinalAppTypes'
  BY <1>1, <1>2 DEF AlarmInv, FinalAppTypes
<1>4. PhaseInv'
  BY <1>1, <1>2 DEF PhaseInv, Final!Handles
<1>5. IntroInv'
  BY <1>1, <1>2 DEF AlarmInv, IntroInv
<1>6. ASSUME NEW c \in Final!Handles PROVE SeenInv(c)' /\ OnItsWay(c)' /\ Budget(c)'
  <2>1. SeenInv(c) /\ OnItsWay(c) /\ Budget(c)
    BY DEF AlarmInv
  <2>2. /\ Looked(c) \in Nat /\ Times(c) \in Nat /\ FinalIterations \in Nat
        /\ \A A : Count(console, A) \in Nat /\ Count(cache, A) \in Nat
    BY BudgetTypes DEF AlarmInv
  <2>3. Times(c) <= Times(c)' /\ Times(c)' \in Nat
    BY <1>1, <2>2 DEF AlarmInv, FinalAppTypes, Times, Final!Handles
  <2>4. SeenInv(c)' /\ OnItsWay(c)'
    BY <1>1, <1>2, <2>1 DEF SeenInv, OnItsWay
  <2>5. Budget(c)'
    BY <1>1, <1>2, <2>1, <2>2, <2>3 DEF Budget, Within
  <2> QED
    BY <2>4, <2>5
<1> QED
  BY <1>2, <1>3, <1>4, <1>5, <1>6 DEF AlarmInv

LEMMA FinalFinishStep ==
  ASSUME Final!FinalStateAssumption, AlarmInv, Final!FinishInstance, UNCHANGED Final!checkVars
  PROVE  AlarmInv'
<1> DEFINE state == IF options.final_instance_state = "u" THEN "NO_WRITERS" ELSE "DISPOSED"
<1>1. FinalInstances \in Nat \ {0} /\ Final!ShapeMainAssumption
  BY DEF Final!FinalStateAssumption, Final!ShapeMainAssumption
<1>2. /\ UNCHANGED <<options, n, shapesize, console>> /\ pub_pc = "final"
      /\ Final!Bury({j}, state)
      /\ IF j = FinalInstances - 1 THEN j' = 0 /\ pub_pc' = "acked"
         ELSE j' = j + 1 /\ pub_pc' = pub_pc
  BY DEF Final!FinishInstance, Final!LastInstance, Final!subscriber
<1>3. j \in Final!Handles /\ {j} \in SUBSET Final!Handles /\ cache \in Seq(Entries)
      /\ Ordered(cache, FadeOrder)
  BY DEF AlarmInv, FinalAppTypes, IntroInv
<1>4. options.final_instance_state \in {"u", "d"}
  BY <1>2 DEF AlarmInv, FinalAppTypes, PhaseInv, Final!ShapeOptions
<1>5. state = Final!Awaited
  BY <1>4 DEF Final!Awaited
<1> HIDE DEF state
<1>6. instance_state' = [c \in Final!Handles |->
        IF c \in {j} /\ instance_state[c] = "ALIVE" THEN state ELSE instance_state[c]]
  BY <1>1, <1>2, <1>3, FinalBury
<1>7. j' \in Final!Handles /\ pub_pc' \in {"final", "acked", "gone"}
  BY <1>1, <1>2, <1>3 DEF Final!Handles
<1>8. PhaseInv'
  <2>1. \A c \in Final!Handles : c < j => instance_state[c] # "ALIVE"
    BY <1>2 DEF AlarmInv, PhaseInv
  <2>2. \A c \in Final!Handles : c <= j => instance_state'[c] # "ALIVE"
    <3> SUFFICES ASSUME NEW c \in Final!Handles, c <= j PROVE instance_state'[c] # "ALIVE"
      OBVIOUS
    <3>1. c < j \/ c = j
      BY <1>3 DEF Final!Handles
    <3> QED
      BY <1>5, <1>6, <2>1, <3>1, AwaitedState
  <2>3. CASE j = FinalInstances - 1
    <3>1. \A c \in Final!Handles : instance_state'[c] # "ALIVE"
      BY <1>1, <2>2, <2>3 DEF Final!Handles
    <3>2. pub_pc' = "acked"
      BY <1>2, <2>3
    <3> QED
      BY <3>1, <3>2 DEF PhaseInv
  <2>4. CASE j # FinalInstances - 1
    <3>1. \A c \in Final!Handles : c < j + 1 => c <= j
      BY <1>3 DEF Final!Handles
    <3>2. pub_pc' = "final" /\ j' = j + 1
      BY <1>2, <2>4
    <3> QED
      BY <1>2, <1>4, <2>2, <3>1, <3>2 DEF PhaseInv
  <2> QED
    BY <2>3, <2>4
<1> QED
  BY <1>2, <1>3, <1>5, <1>7, <1>8, FinalBuryStep

LEMMA FinalDeleteStep ==
  ASSUME Final!FinalStateAssumption, AlarmInv, Final!DeleteWriters, UNCHANGED Final!checkVars
  PROVE  AlarmInv'
<1>1. Final!ShapeMainAssumption
  BY DEF Final!FinalStateAssumption
<1>2. /\ UNCHANGED <<options, j, n, shapesize, console>> /\ pub_pc = "acked" /\ pub_pc' = "gone"
      /\ Final!Bury(Final!Handles, "NO_WRITERS")
  BY DEF Final!DeleteWriters, Final!subscriber
<1>3. j \in Final!Handles /\ Final!Handles \in SUBSET Final!Handles /\ cache \in Seq(Entries)
      /\ Ordered(cache, FadeOrder)
  BY DEF AlarmInv, FinalAppTypes, IntroInv
<1>4. \A c \in Final!Handles : instance_state[c] = "ALIVE" => "NO_WRITERS" = Final!Awaited
  BY <1>2 DEF AlarmInv, PhaseInv, Final!Awaited
<1>5. instance_state' = [c \in Final!Handles |->
        IF c \in Final!Handles /\ instance_state[c] = "ALIVE" THEN "NO_WRITERS"
        ELSE instance_state[c]]
  BY <1>1, <1>2, <1>3, FinalBury
<1>6. PhaseInv'
  <2>1. \A c \in Final!Handles : instance_state'[c] # "ALIVE"
    BY <1>5
  <2> QED
    BY <1>2, <2>1 DEF PhaseInv
<1>7. j' \in Final!Handles /\ pub_pc # "loop" /\ pub_pc' \in {"final", "acked", "gone"}
  BY <1>2, <1>3
<1> QED
  BY <1>2, <1>3, <1>4, <1>6, <1>7, FinalBuryStep

LEMMA FinalApplicationsStep ==
  ASSUME Final!FinalStateAssumption, CountedInv, AlarmInv, Final!Applications
  PROVE  AlarmInv'
<1>1. UNCHANGED Final!checkVars
  BY DEF Final!Applications
<1>2. CASE Final!Match
  <2>1. UNCHANGED <<options, pub_pc, j, n, shapesize, cache, instance_state, console>>
    BY <1>2 DEF Final!Match, Final!publisher, Final!reader, Final!subscriber
  <2> QED
    BY <1>1, <2>1, FinalIdleStep
<1>3. CASE Final!Publisher
  BY <1>1, <1>3, FinalWriteStep, FinalLeaveStep, FinalFinishStep, FinalDeleteStep
  DEF Final!Publisher
<1>4. CASE Final!TakeSamples
  BY <1>1, <1>4, FinalTakeStep
<1>5. CASE Final!EndPass
  <2>1. UNCHANGED <<options, pub_pc, j, n, shapesize, cache, instance_state, console>>
    BY <1>5 DEF Final!EndPass, Final!publisher, Final!reader
  <2> QED
    BY <1>1, <2>1, FinalIdleStep
<1>6. ASSUME NEW app, Final!Interrupt(app) PROVE AlarmInv'
  <2>1. UNCHANGED <<options, pub_pc, j, n, shapesize, cache, instance_state, console>>
    BY <1>6 DEF Final!Interrupt, Final!publisher, Final!reader, Final!subscriber
  <2> QED
    BY <1>1, <2>1, FinalIdleStep
<1> QED
  BY <1>2, <1>3, <1>4, <1>5, <1>6 DEF Final!Applications, Final!Subscriber

----------------------------------------------------------------------------
(* The steps of the check function. *)

\* The first line of the console, and the others.
LEMMA FinalTail ==
  ASSUME console \in Seq(ShownLines), console # << >>, NEW K, Introduced(console, K)
  PROVE  LET h == Head(console)
             t == Tail(console)
             own == IF h.kind = "sample" THEN {h.color} ELSE {}
         IN /\ h \in ShownLines /\ t \in Seq(ShownLines)
            /\ h.kind = "state" => h.color \in K
            /\ Introduced(t, K \cup own)
            /\ \A c \in Final!Handles :
                 /\ Count(console, SampleOf(c)) =
                      (IF h.kind = "sample" /\ h.color = c THEN 1 ELSE 0) + Count(t, SampleOf(c))
                 /\ Count(console, StateOf(c)) =
                      (IF h.kind = "state" /\ h.color = c THEN 1 ELSE 0) + Count(t, StateOf(c))
<1> DEFINE N == Len(console)
           h == Head(console)
           t == Tail(console)
           own == IF h.kind = "sample" THEN {h.color} ELSE {}
<1>1. /\ N \in Nat /\ N > 0 /\ DOMAIN console = 1..N /\ h = console[1] /\ h \in ShownLines
      /\ t \in Seq(ShownLines) /\ DOMAIN t = 1..(N - 1)
      /\ \A i \in 1..(N - 1) : t[i] = console[i + 1]
  OBVIOUS
<1>2. \A A : Count(console, A) = (IF h \in A THEN 1 ELSE 0) + Count(t, A)
  BY CountTail
<1> HIDE DEF N, h, t
<1>3. /\ h \in SampleLines \cup StateLines
      /\ h.kind = "sample" <=> h \in SampleLines
      /\ h.kind = "state" <=> h \in StateLines
  BY <1>1 DEF ShownLines, SampleLines, StateLines
<1>4. \A c : /\ h \in SampleOf(c) <=> h.kind = "sample" /\ h.color = c
             /\ h \in StateOf(c) <=> h.kind = "state" /\ h.color = c
  BY <1>3 DEF SampleOf, StateOf
<1>5. h.kind = "state" => h.color \in K
  <2> SUFFICES ASSUME h.kind = "state" PROVE h.color \in K
    OBVIOUS
  <2>1. 1 \in 1..N /\ \A k \in 1..N : ~(k < 1)
    BY <1>1
  <2> QED
    BY <1>1, <2>1 DEF Introduced
<1>6. Introduced(t, K \cup own)
  <2> SUFFICES ASSUME NEW i \in 1..(N - 1), t[i].kind = "state"
               PROVE  \/ t[i].color \in K \cup own
                      \/ \E k \in 1..(N - 1) : k < i /\ t[k] \in SampleOf(t[i].color)
    BY <1>1 DEF Introduced
  <2>1. i + 1 \in 1..N /\ console[i + 1] = t[i]
    BY <1>1
  <2>2. \/ t[i].color \in K
        \/ \E k \in 1..N : k < i + 1 /\ console[k] \in SampleOf(t[i].color)
    BY <1>1, <2>1 DEF Introduced
  <2>3. ASSUME NEW k \in 1..N, k < i + 1, console[k] \in SampleOf(t[i].color)
        PROVE  \/ t[i].color \in K \cup own
               \/ \E m \in 1..(N - 1) : m < i /\ t[m] \in SampleOf(t[i].color)
    <3>1. CASE k = 1
      BY <1>1, <1>4, <2>3, <3>1
    <3>2. CASE k # 1
      <4>1. k - 1 \in 1..(N - 1) /\ k - 1 < i /\ (k - 1) + 1 = k
        BY <1>1, <2>3, <3>2
      <4>2. t[k - 1] = console[k]
        BY <1>1, <4>1
      <4> QED
        BY <2>3, <4>1, <4>2
    <3> QED
      BY <3>1, <3>2
  <2> QED
    BY <2>2, <2>3
<1> QED
  BY <1>1, <1>2, <1>4, <1>5, <1>6 DEF h, t

\* The lists get the line that was looked at, and the next line is read.
LEMMA FinalReadStep ==
  ASSUME Final!FinalStateAssumption, AlarmInv, console # << >>,
         console' = Tail(console), final_line' = Head(console), final_result' = "running",
         instance_color' = Met, gone_color' = Ended,
         final_first' \in Final!Handles \cup {-1}, final_count' \in Nat,
         final_first' = -1 => final_count' = 0,
         \A c \in Final!Handles : (IF final_first' = c THEN final_count' ELSE 0) <= Looked(c),
         UNCHANGED <<options, pub_pc, j, n, shapesize, cache, instance_state>>
  PROVE  AlarmInv'
<1> DEFINE h == Head(console)
           t == Tail(console)
           own == IF h.kind = "sample" THEN {h.color} ELSE {}
<1>1. FinalAppTypes /\ FinalCheckTypes /\ PhaseInv /\ IntroInv
      /\ \A c \in Final!Handles : SeenInv(c) /\ OnItsWay(c) /\ Budget(c)
  BY DEF AlarmInv
<1>2. /\ h \in ShownLines /\ t \in Seq(ShownLines)
      /\ h.kind = "state" => h.color \in Met
      /\ Introduced(t, Met \cup own)
      /\ \A c \in Final!Handles :
           /\ Count(console, SampleOf(c)) =
                (IF h.kind = "sample" /\ h.color = c THEN 1 ELSE 0) + Count(t, SampleOf(c))
           /\ Count(console, StateOf(c)) =
                (IF h.kind = "state" /\ h.color = c THEN 1 ELSE 0) + Count(t, StateOf(c))
  BY <1>1, FinalTail DEF FinalAppTypes, IntroInv
<1>3. h.color \in Final!Handles /\ h.kind \in {"sample", "state"}
  BY <1>2 DEF ShownLines, SampleLines, StateLines
<1>4. Final!Awaited' = Final!Awaited
  BY DEF Final!Awaited
<1>5. ShownLines' = ShownLines
  BY <1>4 DEF ShownLines
<1> DEFINE gone == IF h.kind = "state" THEN {h.color} ELSE {}
<1>6. Met' = Met \cup own /\ Ended' = Ended \cup gone
  BY DEF Met, Ended, Announced
<1>7. \A c : Looked(c)' = (IF final_first' = c THEN final_count' ELSE 0) + (IF h.color = c THEN 1 ELSE 0)
  BY DEF Looked
<1>8. console' = t /\ final_line' = h
  OBVIOUS
<1> HIDE DEF h, t
<1>9. FinalAppTypes'
  BY <1>1, <1>2, <1>4, <1>5, <1>8 DEF FinalAppTypes
<1>10. FinalCheckTypes'
  BY <1>1, <1>2, <1>3, <1>5, <1>6, <1>8 DEF FinalCheckTypes
<1>11. PhaseInv'
  BY <1>1, <1>4 DEF PhaseInv
<1>12. IntroInv'
  BY <1>1, <1>2, <1>6, <1>8 DEF IntroInv
<1>13. ASSUME NEW c \in Final!Handles PROVE SeenInv(c)' /\ OnItsWay(c)' /\ Budget(c)'
  <2>1. SeenInv(c) /\ OnItsWay(c) /\ Budget(c)
    BY <1>1
  <2>2. /\ Looked(c) \in Nat /\ Times(c) \in Nat /\ FinalIterations \in Nat
        /\ \A A : Count(console, A) \in Nat /\ Count(cache, A) \in Nat
    BY <1>1, BudgetTypes
  <2>3. Times(c)' = Times(c)
    BY DEF Times
  <2>4. \A A : Count(t, A) \in Nat /\ (Has(t, A) <=> Count(t, A) > 0)
               /\ (Has(console, A) <=> Count(console, A) > 0)
    BY <1>1, <1>2, CountType, HasCount DEF FinalAppTypes
  <2>5. /\ Has(console, SampleOf(c)) <=> Has(t, SampleOf(c)) \/ (h.kind = "sample" /\ h.color = c)
        /\ Has(console, StateOf(c)) <=> Has(t, StateOf(c)) \/ (h.kind = "state" /\ h.color = c)
    BY <1>2, <2>4
  <2>6. SeenInv(c)'
    BY <1>6, <1>8, <2>1, <2>5 DEF SeenInv
  <2>7. OnItsWay(c)'
    BY <1>4, <1>6, <1>8, <2>1, <2>5 DEF OnItsWay
  <2>8. /\ Count(console, SampleOf(c)) =
             (IF h.kind = "sample" /\ h.color = c THEN 1 ELSE 0) + Count(t, SampleOf(c))
        /\ Count(console, StateOf(c)) =
             (IF h.kind = "state" /\ h.color = c THEN 1 ELSE 0) + Count(t, StateOf(c))
    BY <1>2
  <2>9. Looked(c)' <= Looked(c) + (IF h.color = c THEN 1 ELSE 0) /\ Looked(c)' \in Nat
    BY <1>7, <2>2
  <2>10. Budget(c)'
    <3>1. options.history_depth \in Nat
      BY <1>1 DEF FinalAppTypes
    <3> DEFINE over == instance_state[c] = Final!Awaited
               L == Looked(c)
               L1 == Looked(c)'
               S == Count(console, SampleOf(c))
               S1 == Count(t, SampleOf(c))
               T == Count(console, StateOf(c))
               T1 == Count(t, StateOf(c))
               V == Count(cache, ValidOf(c))
               E == Count(cache, EntryOf(c))
               D == options.history_depth
    <3>2. Within(over, L, S, T, V, E, D, Times(c))
      BY <2>1 DEF Budget
    <3>3. Budget(c)' = Within(over, L1, S1, T1, V, E, D, Times(c))
      BY <1>4, <1>8, <2>3 DEF Budget
    <3>4. /\ L \in Nat /\ L1 \in Nat /\ S \in Nat /\ S1 \in Nat /\ T \in Nat /\ T1 \in Nat
          /\ V \in Nat /\ E \in Nat /\ D \in Nat
      BY <2>2, <2>4, <2>9, <3>1
    <3> HIDE DEF over, L, L1, S, S1, T, T1, V, E, D
    <3>5. L1 + S1 + T1 <= L + S + T /\ T1 <= T /\ (T = 0 => L1 + S1 <= L + S)
      <4>1. CASE h.color # c
        <5>1. S = S1 /\ T = T1 /\ L1 <= L
          BY <2>2, <2>4, <2>8, <2>9, <4>1 DEF S, S1, T, T1, L, L1
        <5> QED
          BY <3>4, <5>1
      <4>2. CASE h.color = c /\ h.kind = "sample"
        <5>1. S = 1 + S1 /\ T = T1 /\ L1 <= L + 1
          BY <2>4, <2>8, <2>9, <4>2 DEF S, S1, T, T1, L, L1
        <5> QED
          BY <3>4, <5>1
      <4>3. CASE h.color = c /\ h.kind = "state"
        <5>1. S = S1 /\ T = 1 + T1 /\ L1 <= L + 1
          BY <2>4, <2>8, <2>9, <4>3 DEF S, S1, T, T1, L, L1
        <5> QED
          BY <3>4, <5>1
      <4> QED
        BY <1>3, <4>1, <4>2, <4>3
    <3>6. Within(over, L1, S1, T1, V, E, D, Times(c))
      BY <2>2, <3>2, <3>4, <3>5 DEF Within
    <3> QED
      BY <3>3, <3>6
  <2> QED
    BY <2>6, <2>7, <2>10
<1> QED
  BY <1>9, <1>10, <1>11, <1>12, <1>13 DEF AlarmInv

LEMMA NeverFull ==
  ASSUME Final!FinalStateAssumption, AlarmInv, NEW c \in Final!Handles
  PROVE  Looked(c) < FinalSamplesRead
<1> DEFINE D == options.history_depth
<1>1. D \in {1, 2}
  BY DEF AlarmInv, FinalAppTypes, Final!ShapeOptions
<1>2. FinalIterations + D + 1 < FinalSamplesRead /\ FinalSamplesRead \in Nat
  BY <1>1 DEF Final!FinalStateAssumption
<1>3. /\ Looked(c) \in Nat /\ Times(c) \in Nat /\ FinalIterations \in Nat
      /\ \A A : Count(console, A) \in Nat /\ Count(cache, A) \in Nat
  BY BudgetTypes DEF AlarmInv
<1>4. Times(c) <= FinalIterations
  BY <1>3 DEF AlarmInv, FinalAppTypes, Times, Final!Handles
<1>5. Looked(c) <= FinalIterations + D + 1
  <2>1. Budget(c)
    BY DEF AlarmInv
  <2> HIDE DEF D
  <2> QED
    BY <1>1, <1>3, <1>4, <2>1 DEF Budget, Within, D
<1> QED
  BY <1>1, <1>2, <1>3, <1>5

LEMMA FinalFirstStep ==
  ASSUME Final!FinalStateAssumption, AlarmInv, Final!FirstSample,
         UNCHANGED <<options, pub_pc, j, n, shapesize, cache, instance_state>>
  PROVE  AlarmInv' /\ final_result' = "running"
<1> DEFINE h == Head(console)
<1>1. /\ final_result = "waiting" /\ console # << >> /\ console' = Tail(console)
      /\ h.kind = "sample" => final_line' = h /\ final_result' = "running"
      /\ UNCHANGED <<final_first, instance_color, gone_color, final_count>>
  BY DEF Final!FirstSample
<1>2. Met = {} /\ Ended = {} /\ final_first = -1 /\ final_count = 0
  BY <1>1 DEF AlarmInv, FinalCheckTypes
<1>3. instance_color = {} /\ gone_color = {}
  BY <1>2 DEF Met, Ended
<1>4. h \in ShownLines /\ h.kind # "state"
  BY <1>1, <1>2, FinalTail DEF AlarmInv, FinalAppTypes, IntroInv
<1>5. h.kind = "sample"
  BY <1>4 DEF ShownLines, SampleLines, StateLines
<1>6. ASSUME NEW c \in Final!Handles
      PROVE  (IF final_first' = c THEN final_count' ELSE 0) <= Looked(c)
  <2>1. Looked(c) \in Nat
    BY BudgetTypes DEF AlarmInv
  <2> QED
    BY <1>1, <1>2, <2>1
<1>7. AlarmInv'
  BY <1>1, <1>2, <1>3, <1>5, <1>6, FinalReadStep
<1> QED
  BY <1>1, <1>5, <1>7

\* In a running function the line at hand has been printed by the subscriber.
LEMMA FinalLists ==
  ASSUME AlarmInv, final_result = "running"
  PROVE  /\ Final!Known = Met /\ Final!Gone = Ended
         /\ final_line.color \in Final!Handles
         /\ final_line.kind = "sample" \/ Final!Announces
<1>1. final_line \in ShownLines
  BY DEF AlarmInv, FinalCheckTypes
<1>2. /\ final_line.color \in Final!Handles
      /\ \/ final_line.kind = "sample"
         \/ final_line.kind = "state" /\ final_line.state = Final!Awaited
  BY <1>1 DEF ShownLines, SampleLines, StateLines
<1> QED
  BY <1>2 DEF Final!Known, Final!Gone, Met, Ended, Announced, Final!Announces

LEMMA FinalNextStep ==
  ASSUME Final!FinalStateAssumption, AlarmInv, Final!NextLine,
         UNCHANGED <<options, pub_pc, j, n, shapesize, cache, instance_state>>
  PROVE  AlarmInv' /\ final_result' = "running"
<1> DEFINE c == final_line.color
           one == IF c = final_first' THEN 1 ELSE 0
<1>1. /\ final_result = "running" /\ console # << >>
      /\ console' = Tail(console) /\ final_line' = Head(console)
      /\ instance_color' = Final!Known /\ gone_color' = Final!Gone
      /\ final_first' = IF final_first = -1 THEN c ELSE final_first
      /\ final_count' = final_count +
           (IF (final_line.kind = "sample" \/ Final!Announces) /\ c = final_first' THEN 1 ELSE 0)
      /\ final_count' # FinalSamplesRead => final_result' = final_result
  BY DEF Final!NextLine, Final!Note, Final!HANDLE_NIL
<1>2. /\ Final!Known = Met /\ Final!Gone = Ended /\ c \in Final!Handles
      /\ final_line.kind = "sample" \/ Final!Announces
  BY <1>1, FinalLists
<1>3. final_count' = final_count + one
  BY <1>1, <1>2
<1>4. /\ final_first \in Final!Handles \cup {-1} /\ final_count \in Nat
      /\ final_first = -1 => final_count = 0
  BY DEF AlarmInv, FinalCheckTypes
<1>5. final_first' \in Final!Handles /\ final_count' \in Nat /\ final_first' # -1
  BY <1>1, <1>2, <1>3, <1>4 DEF Final!Handles
<1>6. ASSUME NEW f \in Final!Handles
      PROVE  (IF final_first' = f THEN final_count' ELSE 0) <= Looked(f)
  <2>1. Looked(f) = (IF final_first = f THEN final_count ELSE 0) + (IF c = f THEN 1 ELSE 0)
    BY <1>1 DEF Looked
  <2>2. f # -1
    BY DEF Final!Handles
  <2> HIDE DEF c
  <2> QED
    BY <1>1, <1>3, <1>4, <1>5, <2>1, <2>2
<1>7. final_count' # FinalSamplesRead
  <2>1. final_count' <= Looked(final_first') /\ Looked(final_first') < FinalSamplesRead
    BY <1>5, <1>6, NeverFull
  <2>2. Looked(final_first') \in Nat /\ FinalSamplesRead \in Nat
    BY <1>5, BudgetTypes DEF AlarmInv, Final!FinalStateAssumption
  <2> QED
    BY <1>5, <2>1, <2>2
<1>8. final_result' = "running"
  BY <1>1, <1>7
<1>9. AlarmInv'
  BY <1>1, <1>2, <1>5, <1>6, <1>8, FinalReadStep
<1> QED
  BY <1>8, <1>9

\* When the lists are equally long they are the same list.
LEMMA FinalEarlyStep ==
  ASSUME Final!FinalStateAssumption, AlarmInv, Final!LeaveEarly
  PROVE  final_result' = "OK"
<1>1. /\ final_result = "running" /\ instance_color' = Final!Known /\ gone_color' = Final!Gone
      /\ Final!Cardinality(Final!Known) = Final!Cardinality(Final!Gone)
      /\ final_result' = IF instance_color' = gone_color' THEN "OK" ELSE "DATA_NOT_CORRECT"
  BY DEF Final!LeaveEarly, Final!AllGone, Final!Note, Final!Verdict
<1>2. Final!Known = Met /\ Final!Gone = Ended
  BY <1>1, FinalLists
<1>3. Cardinality(Met) = Cardinality(Ended)
  BY <1>1, <1>2, SameCardinality
<1>4. IsFiniteSet(Met)
  <2>1. FinalInstances \in Nat
    BY DEF Final!FinalStateAssumption, Final!ShapeMainAssumption
  <2>2. IsFiniteSet(0..(FinalInstances - 1))
    BY <2>1, FS_Interval
  <2>3. Met \in SUBSET (0..(FinalInstances - 1))
    BY DEF AlarmInv, FinalCheckTypes, Final!Handles
  <2> QED
    BY <2>2, <2>3, FS_Subset
<1>5. Met = Ended
  <2>1. Ended \in SUBSET Met
    BY DEF AlarmInv, IntroInv
  <2> QED
    BY <1>3, <1>4, <2>1, FS_Subset
<1> QED
  BY <1>1, <1>2, <1>5

\* When nothing is on its way every instance met has been announced.
LEMMA FinalTimeoutStep ==
  ASSUME AlarmInv, Final!Timeout
  PROVE  final_result' \in {"OK", "DATA_NOT_RECEIVED"}
<1>1. pub_pc = "gone" /\ cache = << >> /\ console = << >>
  BY DEF Final!Timeout, Final!Quiet
<1>2. \/ final_result' = "DATA_NOT_RECEIVED"
      \/ /\ final_result = "running" /\ instance_color' = Final!Known /\ gone_color' = Final!Gone
         /\ final_result' = IF instance_color' = gone_color' THEN "OK" ELSE "DATA_NOT_CORRECT"
  BY DEF Final!Timeout, Final!Note, Final!Verdict
<1>3. Met \subseteq Ended
  <2> SUFFICES ASSUME NEW c \in Met PROVE c \in Ended
    OBVIOUS
  <2>1. c \in Final!Handles /\ Met \subseteq Final!Handles
    BY DEF AlarmInv, FinalCheckTypes
  <2>2. instance_state[c] # "unknown" /\ instance_state[c] # "ALIVE"
    BY <1>1, <2>1 DEF AlarmInv, SeenInv, PhaseInv
  <2>3. instance_state[c] = Final!Awaited
    BY <2>1, <2>2 DEF AlarmInv, FinalAppTypes
  <2>4. \A A : ~Has(<< >>, A)
    BY DEF Has, Elements
  <2> QED
    BY <1>1, <2>1, <2>3, <2>4 DEF AlarmInv, OnItsWay
<1>4. Met = Ended
  BY <1>3 DEF AlarmInv, IntroInv
<1> QED
  BY <1>2, <1>4, FinalLists

LEMMA FinalCheckStep ==
  ASSUME Final!FinalStateAssumption, FinalInv, Final!Check
  PROVE  FinalInv'
<1>1. UNCHANGED <<options, pub_pc, j, n, shapesize, cache, instance_state>>
  BY DEF Final!Check, Final!publisher, Final!reader
<1>2. final_result \in {"waiting", "running"} /\ AlarmInv
  <2>1. final_result \in {"waiting", "running"}
    BY DEF Final!Check, Final!FirstSample, Final!LeaveEarly, Final!NextLine, Final!Timeout
  <2> QED
    BY <2>1 DEF FinalInv
<1>3. CASE Final!FirstSample
  BY <1>1, <1>2, <1>3, FinalFirstStep DEF FinalInv
<1>4. CASE Final!NextLine
  BY <1>1, <1>2, <1>4, FinalNextStep DEF FinalInv
<1>5. CASE Final!LeaveEarly
  BY <1>2, <1>5, FinalEarlyStep DEF FinalInv
<1>6. CASE Final!Timeout
  BY <1>2, <1>6, FinalTimeoutStep DEF FinalInv
<1> QED
  BY <1>3, <1>4, <1>5, <1>6 DEF Final!Check

LEMMA FinalInitStep ==
  ASSUME Final!FinalStateAssumption, Final!Init
  PROVE  FinalInv /\ CountedInv
<1>1. FinalInstances \in Nat \ {0} /\ FinalIterations \in Nat
  BY DEF Final!FinalStateAssumption, Final!ShapeMainAssumption
<1>2. 0 \in Final!Handles
  BY <1>1 DEF Final!Handles
<1>3. /\ options \in Final!ShapeOptions /\ pub_pc = "loop" /\ j = 0 /\ n = 0 /\ shapesize = 20
      /\ cache = << >> /\ console = << >>
      /\ instance_state = [c \in Final!Handles |-> "unknown"]
      /\ final_first = -1 /\ instance_color = {} /\ gone_color = {} /\ final_count = 0
      /\ final_result = "waiting"
  BY DEF Final!Init, Final!AppInit, Final!HANDLE_NIL
<1>11. CountedInv
  <2>1. all_done \in [{"pub", "sub"} -> BOOLEAN]
    BY DEF Final!Init, Final!AppInit
  <2>2. FinalIterations > 0
    BY DEF Final!FinalStateAssumption
  <2> QED
    BY <1>1, <1>3, <2>1, <2>2 DEF CountedInv
<1>4. Met = {} /\ Ended = {} /\ \A c \in Final!Handles : Looked(c) = 0 /\ Times(c) = 0
  BY <1>3 DEF Met, Ended, Announced, Looked, Times, Final!Handles
<1>5. FinalAppTypes
  BY <1>1, <1>2, <1>3 DEF FinalAppTypes, Final!ShapeOptions
<1>6. FinalCheckTypes
  BY <1>3, <1>4 DEF FinalCheckTypes
<1>7. Elements(<< >>) = {} /\ (\A A : ~Has(<< >>, A)) /\ \A A : Count(<< >>, A) = 0
  BY CountNone DEF Elements, Has
<1>8. PhaseInv
  BY <1>3, <1>7, AwaitedState DEF PhaseInv
<1>9. IntroInv
  BY <1>3, <1>4 DEF IntroInv, Introduced, Ordered
<1>10. ASSUME NEW c \in Final!Handles PROVE SeenInv(c) /\ OnItsWay(c) /\ Budget(c)
  <2>1. instance_state[c] = "unknown" /\ instance_state[c] # Final!Awaited
    BY <1>3, AwaitedState
  <2>2. options.history_depth \in Nat
    BY <1>5 DEF FinalAppTypes
  <2> QED
    BY <1>3, <1>4, <1>7, <2>1, <2>2 DEF SeenInv, OnItsWay, Budget, Within
<1> QED
  BY <1>3, <1>5, <1>6, <1>8, <1>9, <1>10, <1>11 DEF FinalInv, AlarmInv

LEMMA FinalNextInv ==
  ASSUME Final!FinalStateAssumption, CountedInv, FinalInv, Final!Next
  PROVE  FinalInv'
<1>1. CASE Final!Check
  BY <1>1, FinalCheckStep
<1>2. CASE Final!Applications
  <2>1. final_result' = final_result
    BY <1>2 DEF Final!Applications, Final!checkVars
  <2> QED
    BY <1>2, <2>1, FinalApplicationsStep DEF FinalInv
<1> QED
  BY <1>1, <1>2 DEF Final!Next

\* A conforming implementation is never blamed (test_unregistering_w_instances
\* and test_disposing_w_instances with run_publisher and run_subscriber): the
\* lists compared after the loop are equal whenever the function gets there,
\* and it does not get there by MAX_SAMPLES_READ, whatever the options, however
\* the passes of the subscriber interleave with the last steps of the
\* publisher, for any number of instances and iterations.
THEOREM FinalStateNotBlamed == TestSpec => []FinalNoFalseAlarm
<1> DEFINE I == which = "final" => FinalInv /\ CountedInv
<1>1. Final!FinalStateAssumption
  BY ConsoleTestsAssumption
<1>2. TestInit => I
  BY <1>1, FinalInitStep DEF TestInit
<1>3. I /\ [TestNext]_allVars => I'
  <2> SUFFICES ASSUME I, [TestNext]_allVars, which' = "final" PROVE FinalInv' /\ CountedInv'
    OBVIOUS
  <2>1. CASE TestNext
    <3>1. which = "final" /\ Final!Next
      BY <2>1 DEF TestNext
    <3> QED
      BY <1>1, <3>1, FinalNextInv, CountedStep
  <2>2. CASE UNCHANGED allVars
    <3>1. /\ UNCHANGED Final!checkVars /\ which = "final" /\ final_result' = final_result
          /\ UNCHANGED <<options, pub_pc, j, n, shapesize, cache, instance_state, console>>
      BY <2>2 DEF allVars, appVars, finalVars, Final!checkVars
    <3>2. CountedInv'
      BY <2>2, <3>1 DEF allVars, appVars, CountedInv
    <3> QED
      BY <3>1, <3>2, FinalIdleStep DEF FinalInv
  <2> QED
    BY <2>1, <2>2
<1>4. I => FinalNoFalseAlarm
  BY DEF FinalInv, FinalNoFalseAlarm, Final!NoFalseAlarm
<1> HIDE DEF I
<1> QED
  BY <1>2, <1>3, <1>4, PTL DEF TestSpec

=============================================================================
