------------------------ MODULE InstanceChecksProofs ------------------------
(***************************************************************************)
(* Proofs about the check functions that follow the instances of a shape,  *)
(* test_order_w_instances and test_reliability_no_losses_w_instances: on   *)
(* the lines of any console (InstanceChecks), for any instances, any       *)
(* sequence numbers and any MAX_SAMPLES_READ, and from end to end          *)
(* (StreamTest), for any number of instances and iterations.               *)
(***************************************************************************)
EXTENDS ConsoleTests, SequenceTheorems, NaturalsInduction, WellFoundedInduction, TLAPS

\* instance_color[0] is an instance as soon as there is one.
FirstInv ==
  /\ first = NoColor => Instances = {}
  /\ first # NoColor => first \in Instances

\* The function remembers the last size of exactly the instances it has seen.
LastInv ==
  result # "DATA_NOT_CORRECT" =>
    \A c \in Colors :
      /\ c \notin Instances => got[c] = <<>>
      /\ c \in Instances => Len(got[c]) > 0 /\ got[c][Len(got[c])] = seq_num[c]

\* As long as nothing was found wrong, nothing was wrong.
OrderInv == result # "DATA_NOT_CORRECT" => \A c \in Colors : InOrder(c)

\* The counter never exceeds the samples of the first instance.
CountInv ==
  result # "DATA_NOT_CORRECT" =>
    /\ first = NoColor => samples_read_per_instance = 0
    /\ first # NoColor => samples_read_per_instance <= Len(got[first])

ResultInv ==
  /\ result = "OK" => samples_read_per_instance = MaxSamplesRead
  /\ result \in {"called", "running"} => samples_read_per_instance < MaxSamplesRead
  /\ result = "called" => first = NoColor

IInv == TypeOK /\ FirstInv /\ LastInv /\ OrderInv /\ CountInv /\ ResultInv /\ NoFalseAlarm

LEMMA InitIInv == Init => IInv
  BY InstanceChecksAssumption
  DEF Init, IInv, TypeOK, Instances, FirstInv, LastInv, OrderInv, CountInv, ResultInv,
      NoFalseAlarm, Checked, InOrder, Lines, Sample

\* What Note does to the state of the loop, whatever line comes next.
LEMMA NoteStep ==
  ASSUME IInv, Note, result = "running", ~Breaks, UNCHANGED check
  PROVE  /\ first' \in Colors \cup {NoColor}
         /\ Instances' \subseteq Colors /\ seq_num' \in [Instances' -> Sizes]
         /\ got' \in [Colors -> Seq(Sizes)]
         /\ first' = NoColor => Instances' = {}
         /\ first' # NoColor => first' \in Instances'
         /\ \A c \in Colors :
              /\ c \notin Instances' => got'[c] = <<>>
              /\ c \in Instances' => Len(got'[c]) > 0 /\ got'[c][Len(got'[c])] = seq_num'[c]
         /\ \A c \in Colors : InOrder(c)'
         /\ first # NoColor => first' = first
         /\ \A c \in Colors : Len(got'[c]) >= Len(got[c])
         /\ line.kind = "sample" => Len(got'[line.color]) = Len(got[line.color]) + 1
<1>t. /\ line \in Lines /\ first \in Colors \cup {NoColor}
      /\ Instances \subseteq Colors /\ seq_num \in [Instances -> Sizes]
      /\ got \in [Colors -> Seq(Sizes)] /\ NoColor \notin Colors /\ Sizes \subseteq Nat
  BY InstanceChecksAssumption DEF IInv, TypeOK
<1>i. /\ first = NoColor => Instances = {}
      /\ first # NoColor => first \in Instances
      /\ \A c \in Colors :
           /\ c \notin Instances => got[c] = <<>>
           /\ c \in Instances => Len(got[c]) > 0 /\ got[c][Len(got[c])] = seq_num[c]
      /\ \A c \in Colors : InOrder(c)
  BY DEF IInv, FirstInv, LastInv, OrderInv
<1>1. CASE line.kind = "sample"
  <2>1. line.color \in Colors /\ line.size \in Sizes
    BY <1>1, <1>t DEF Lines, Sample, Text, Announcement
  <2>2. /\ first' = IF first = NoColor THEN line.color ELSE first
        /\ seq_num' = [c \in Instances \cup {line.color} |->
                         IF c = line.color THEN line.size ELSE seq_num[c]]
        /\ got' = [got EXCEPT ![line.color] = Append(@, line.size)]
    BY <1>1 DEF Note, Remember
  <2>3. Instances' = Instances \cup {line.color}
    BY <2>2 DEF Instances
  <2>4. /\ got'[line.color] = Append(got[line.color], line.size)
        /\ \A c \in Colors : c # line.color => got'[c] = got[c]
        /\ got[line.color] \in Seq(Sizes)
    BY <2>1, <2>2, <1>t
  <2>5. /\ Len(got'[line.color]) = Len(got[line.color]) + 1
        /\ got'[line.color][Len(got[line.color]) + 1] = line.size
        /\ \A i \in 1..Len(got[line.color]) : got'[line.color][i] = got[line.color][i]
        /\ Len(got[line.color]) \in Nat
    BY <2>1, <2>4, AppendProperties
  <2>6. ASSUME NEW i \in 1..(Len(got'[line.color]) - 1)
        PROVE  Follows(check, got'[line.color][i], got'[line.color][i + 1])
    <3>1. CASE i < Len(got[line.color])
      BY <3>1, <2>5, <2>1, <1>i DEF InOrder
    <3>2. CASE i = Len(got[line.color])
      <4>1. line.color \in Instances
        BY <3>2, <2>1, <1>i
      <4>2. Follows(check, seq_num[line.color], line.size)
        BY <4>1, <1>1 DEF Breaks
      <4>3. QED
        BY <4>1, <4>2, <3>2, <2>5, <2>1, <1>i
    <3>3. QED
      BY <3>1, <3>2, <2>5
  <2>7. \A c \in Colors : InOrder(c)'
    <3> SUFFICES ASSUME NEW c \in Colors PROVE InOrder(c)'
      OBVIOUS
    <3>1. CASE c = line.color
      BY <3>1, <2>6 DEF InOrder
    <3>2. CASE c # line.color
      BY <3>2, <2>4, <1>i DEF InOrder
    <3>3. QED
      BY <3>1, <3>2
  <2>8. got' \in [Colors -> Seq(Sizes)]
    BY <2>1, <2>2, <2>4, <1>t
  <2>9. seq_num' \in [Instances' -> Sizes] /\ Instances' \subseteq Colors
    BY <2>1, <2>2, <2>3, <1>t
  <2>10. \A c \in Colors :
           /\ c \notin Instances' => got'[c] = <<>>
           /\ c \in Instances' => Len(got'[c]) > 0 /\ got'[c][Len(got'[c])] = seq_num'[c]
    BY <2>1, <2>2, <2>3, <2>4, <2>5, <1>t, <1>i
  <2>11. \A c \in Colors : Len(got'[c]) >= Len(got[c])
    <3> SUFFICES ASSUME NEW c \in Colors PROVE Len(got'[c]) >= Len(got[c])
      OBVIOUS
    <3>1. got[c] \in Seq(Sizes)
      BY <1>t
    <3>2. Len(got[c]) \in Nat
      BY <3>1, LenProperties
    <3> QED
      BY <3>2, <2>4, <2>5
  <2>12. QED
    BY <2>1, <2>2, <2>3, <2>5, <2>7, <2>8, <2>9, <2>10, <2>11, <1>t, <1>i
<1>2. CASE line.kind # "sample"
  <2>1. UNCHANGED <<first, seq_num, got>>
    BY <1>2 DEF Note
  <2>2. Instances' = Instances
    BY <2>1 DEF Instances
  <2>3. \A c \in Colors : InOrder(c)'
    BY <2>1, <1>i DEF InOrder
  <2>4. \A c \in Colors : Len(got[c]) \in Nat
    BY <1>t
  <2>5. QED
    BY <2>1, <2>2, <2>3, <2>4, <1>2, <1>t, <1>i
<1>3. QED
  BY <1>1, <1>2

\* Every iteration preserves the invariant.
LEMMA NextIInv == IInv /\ [Next]_vars => IInv'
<1> SUFFICES ASSUME IInv, [Next]_vars PROVE IInv'
  OBVIOUS
<1>t. /\ check \in {"order", "reliability"} /\ line \in Lines
      /\ samples_read_per_instance \in 0..MaxSamplesRead
      /\ got \in [Colors -> Seq(Sizes)] /\ NoColor \notin Colors
      /\ Sizes \subseteq Nat /\ MaxSamplesRead \in Nat \ {0}
      /\ \A c \in Colors : Len(got[c]) \in Nat
  BY InstanceChecksAssumption DEF IInv, TypeOK
<1>1. CASE BasicCheck
  BY <1>1, <1>t DEF BasicCheck, IInv, TypeOK, Instances, FirstInv, LastInv, OrderInv,
     CountInv, ResultInv, NoFalseAlarm, Checked, InOrder
<1>2. CASE OutOfOrder
  <2>1. line.color \in Colors /\ line.size \in Sizes /\ line.color \in Instances
    BY <1>2, <1>t DEF OutOfOrder, Breaks, Lines, Sample, Text, Announcement
  <2>2. /\ got'[line.color] = Append(got[line.color], line.size)
        /\ got' \in [Colors -> Seq(Sizes)] /\ got[line.color] \in Seq(Sizes)
    BY <1>2, <2>1, <1>t DEF OutOfOrder, Remember
  <2>3. /\ Len(got'[line.color]) = Len(got[line.color]) + 1
        /\ got'[line.color][Len(got[line.color]) + 1] = line.size
        /\ \A i \in 1..Len(got[line.color]) : got'[line.color][i] = got[line.color][i]
    BY <2>1, <2>2, AppendProperties
  <2>4. Len(got[line.color]) > 0 /\ got[line.color][Len(got[line.color])] = seq_num[line.color]
    BY <1>2, <2>1 DEF OutOfOrder, IInv, LastInv
  <2>5. ~Follows(check, got'[line.color][Len(got[line.color])],
                 got'[line.color][Len(got[line.color]) + 1])
    BY <1>2, <2>3, <2>4, <2>1, <1>t DEF OutOfOrder, Breaks
  <2>6. PICK c \in Colors : c = line.color
    BY <2>1
  <2>7. ~InOrder(c)'
    BY <1>2, <2>3, <2>4, <2>5, <2>6, <1>t DEF OutOfOrder, InOrder
  <2>8. NoFalseAlarm'
    BY <2>7 DEF NoFalseAlarm, Checked
  <2>9. TypeOK' /\ FirstInv'
    BY <1>2, <2>2 DEF OutOfOrder, IInv, TypeOK, FirstInv, Instances
  <2>10. QED
    BY <1>2, <2>8, <2>9 DEF OutOfOrder, IInv, LastInv, OrderInv, CountInv, ResultInv
<1>3. ASSUME NEW next \in Lines, NextLine(next) PROVE IInv'
  <2>1. Note /\ result = "running" /\ ~Breaks /\ UNCHANGED check /\ line' = next
    BY <1>3 DEF NextLine
  <2>2. FirstInv' /\ LastInv' /\ OrderInv'
    BY <2>1, NoteStep DEF FirstInv, LastInv, OrderInv
  <2>3. samples_read_per_instance < MaxSamplesRead
    BY <2>1 DEF IInv, ResultInv
  <2>4. samples_read_per_instance' \in 0..MaxSamplesRead
    BY <1>3, <2>3, <1>t DEF NextLine
  <2>5. TypeOK'
    BY <1>3, <1>t, <2>1, <2>4, NoteStep DEF NextLine, TypeOK
  <2>6. CountInv'
    <3>1. CASE Counts(next)
      <4>1. line.kind = "sample" /\ line.color = first' /\ line.color \in Colors
        BY <3>1, <1>t DEF Counts, Lines, Sample, Text, Announcement
      <4>2. samples_read_per_instance <= Len(got[line.color])
        BY <4>1, <2>1, <1>t, NoteStep DEF IInv, CountInv
      <4>3. Len(got'[first']) = Len(got[line.color]) + 1
        BY <4>1, <2>1, NoteStep
      <4>4. first' # NoColor
        BY <4>1, <1>t
      <4>5. QED
        BY <1>3, <3>1, <4>1, <4>2, <4>3, <4>4, <1>t DEF NextLine, CountInv
    <3>2. CASE ~Counts(next)
      <4>1. samples_read_per_instance' = samples_read_per_instance
        BY <1>3, <3>2, <1>t DEF NextLine
      <4>2. CASE first = NoColor
        <5>1. samples_read_per_instance = 0
          BY <4>2, <2>1 DEF IInv, CountInv
        <5>2. first' # NoColor => Len(got'[first']) \in Nat
          BY <2>5, LenProperties DEF TypeOK
        <5>3. QED
          BY <4>1, <5>1, <5>2 DEF CountInv
      <4>3. CASE first # NoColor
        <5>1. first' = first /\ first \in Colors
          BY <4>3, <2>1, NoteStep DEF IInv, TypeOK
        <5>2. samples_read_per_instance <= Len(got[first]) /\ Len(got'[first]) >= Len(got[first])
          BY <4>3, <5>1, <2>1, NoteStep DEF IInv, CountInv
        <5>3. Len(got'[first]) \in Nat /\ Len(got[first]) \in Nat
          BY <5>1, <2>5, <1>t, LenProperties DEF TypeOK
        <5>4. QED
          BY <4>1, <4>3, <5>1, <5>2, <5>3, <1>t DEF CountInv
      <4>4. QED
        BY <4>2, <4>3
    <3>3. QED
      BY <3>1, <3>2
  <2>7. ResultInv' /\ NoFalseAlarm'
    BY <1>3, <2>3, <2>4, <1>t DEF NextLine, ResultInv, NoFalseAlarm, Checked
  <2>8. QED
    BY <2>2, <2>5, <2>6, <2>7 DEF IInv
<1>4. CASE NoMoreData
  <2>1. Note /\ result = "running" /\ ~Breaks /\ UNCHANGED check
    BY <1>4 DEF NoMoreData
  <2>2. FirstInv' /\ LastInv' /\ OrderInv'
    BY <2>1, NoteStep DEF FirstInv, LastInv, OrderInv
  <2>3. TypeOK'
    BY <1>4, <1>t, <2>1, NoteStep DEF NoMoreData, TypeOK
  <2>4. CountInv'
    <3>1. samples_read_per_instance' = samples_read_per_instance
      BY <1>4 DEF NoMoreData
    <3>2. CASE first = NoColor
      <4>1. samples_read_per_instance = 0
        BY <3>2, <2>1 DEF IInv, CountInv
      <4>2. first' # NoColor => Len(got'[first']) \in Nat
        BY <2>3, LenProperties DEF TypeOK
      <4>3. QED
        BY <3>1, <4>1, <4>2 DEF CountInv
    <3>3. CASE first # NoColor
      <4>1. first' = first /\ first \in Colors
        BY <3>3, <2>1, NoteStep DEF IInv, TypeOK
      <4>2. samples_read_per_instance <= Len(got[first]) /\ Len(got'[first]) >= Len(got[first])
        BY <3>3, <4>1, <2>1, NoteStep DEF IInv, CountInv
      <4>3. Len(got'[first]) \in Nat /\ Len(got[first]) \in Nat
        BY <4>1, <2>3, <1>t, LenProperties DEF TypeOK
      <4>4. QED
        BY <3>1, <3>3, <4>1, <4>2, <4>3, <1>t DEF CountInv
    <3>4. QED
      BY <3>2, <3>3
  <2>5. ResultInv' /\ NoFalseAlarm'
    BY <1>4 DEF NoMoreData, ResultInv, NoFalseAlarm, Checked
  <2>6. QED
    BY <2>2, <2>3, <2>4, <2>5 DEF IInv
<1>5. CASE UNCHANGED vars
  BY <1>5 DEF vars, IInv, TypeOK, Instances, FirstInv, LastInv, OrderInv, CountInv,
     ResultInv, NoFalseAlarm, Checked, InOrder
<1>6. QED
  BY <1>1, <1>2, <1>3, <1>4, <1>5 DEF Next

LEMMA Invariance == Spec => []IInv
  BY InitIInv, NextIInv, PTL DEF Spec

\* OK is sound for every stream of lines, every number of instances and every
\* MAX_SAMPLES_READ: all samples looked at were in order (and, for the
\* reliability test, without a loss).
THEOREM OKIsSound == Spec => []OKMeansInOrder
<1>1. IInv => OKMeansInOrder
  <2> SUFFICES ASSUME IInv, result = "OK"
               PROVE  (\A c \in Colors : InOrder(c)) /\ Len(got[first]) >= MaxSamplesRead
    BY DEF OKMeansInOrder, Checked
  <2>1. samples_read_per_instance = MaxSamplesRead /\ MaxSamplesRead \in Nat \ {0}
    BY InstanceChecksAssumption DEF IInv, ResultInv
  <2>2. first # NoColor /\ samples_read_per_instance <= Len(got[first])
    BY <2>1 DEF IInv, CountInv
  <2>3. first \in Colors /\ Len(got[first]) \in Nat
    BY <2>2, LenProperties DEF IInv, TypeOK
  <2>4. QED
    BY <2>1, <2>2, <2>3 DEF IInv, OrderInv
<1>2. QED
  BY <1>1, Invariance, PTL

\* DATA_NOT_CORRECT is sound too: a history without a fault never gets it.
THEOREM AlarmIsSound == Spec => []NoFalseAlarm
<1>1. IInv => NoFalseAlarm
  BY DEF IInv
<1>2. QED
  BY <1>1, Invariance, PTL

----------------------------------------------------------------------------
(* Sequences. *)

\* A set of naturals that is not empty has a smallest element.
LEMMA SmallestOf ==
  ASSUME NEW H \in SUBSET Nat, H # {}
  PROVE  \E x \in H : \A y \in H : x <= y
<1>1. PICK x \in H : \A y \in H : ~(<<y, x>> \in OpToRel(<, Nat))
  BY WFMin, NatLessThanWellFounded
<1>2. \A y \in H : x <= y
  <2> SUFFICES ASSUME NEW y \in H PROVE ~(y < x)
    OBVIOUS
  <2>1. y < x => <<y, x>> \in OpToRel(<, Nat)
    BY Zenon DEF OpToRel
  <2> QED
    BY <1>1, <2>1
<1> QED
  BY <1>2

\* The pieces FlattenSeq puts together, up to the i-th.
Joins(f, s, N) ==
  f = [i \in 1..N |-> IF i = 1 THEN s[i] ELSE f[i - 1] \o s[i]]

LEMMA JoinExists ==
  ASSUME NEW S, NEW s \in Seq(Seq(S))
  PROVE  \A N \in 0..Len(s) : \E f \in [1..N -> Seq(S)] : Joins(f, s, N)
<1> DEFINE Bad == {N \in 0..Len(s) : ~\E f \in [1..N -> Seq(S)] : Joins(f, s, N)}
<1>1. Len(s) \in Nat /\ DOMAIN s = 1..Len(s)
  OBVIOUS
<1>2. SUFFICES ASSUME Bad # {} PROVE FALSE
  OBVIOUS
<1>3. Bad \in SUBSET Nat
  BY <1>1
<1>4. PICK N \in Bad : \A m \in Bad : N <= m
  <2> HIDE DEF Bad
  <2> QED
    BY <1>2, <1>3, SmallestOf
<1>5. N \in 0..Len(s) /\ ~\E f \in [1..N -> Seq(S)] : Joins(f, s, N)
  BY <1>4
<1>6. CASE N = 0
  <2>1. [i \in 1..0 |-> << >>] \in [1..0 -> Seq(S)]
    OBVIOUS
  <2>2. Joins([i \in 1..0 |-> << >>], s, 0)
    BY DEF Joins
  <2> QED
    BY <1>5, <1>6, <2>1, <2>2
<1>7. CASE N # 0
  <2>1. N - 1 \in 0..Len(s) /\ N - 1 \notin Bad
    <3>1. N \in Nat /\ N - 1 \in 0..Len(s) /\ ~(N <= N - 1)
      BY <1>1, <1>5, <1>7
    <3> HIDE DEF Bad
    <3> QED
      BY <1>4, <3>1
  <2>2. PICK f \in [1..(N - 1) -> Seq(S)] : Joins(f, s, N - 1)
    BY <2>1
  <2> DEFINE g == [i \in 1..N |-> IF i = 1 THEN s[i] ELSE f[i - 1] \o s[i]]
  <2>3. \A i \in 1..N : s[i] \in Seq(S)
    BY <1>1, <1>5
  <2>4. g \in [1..N -> Seq(S)]
    <3>1. \A i \in 1..N : i # 1 => i - 1 \in 1..(N - 1)
      BY <1>1, <1>5
    <3> QED
      BY <2>2, <2>3, <3>1
  <2>5. \A i \in 1..(N - 1) : g[i] = f[i]
    <3>1. \A i \in 1..(N - 1) : i \in 1..N
      BY <1>1, <1>5
    <3>2. ASSUME NEW i \in 1..(N - 1)
          PROVE  f[i] = IF i = 1 THEN s[i] ELSE f[i - 1] \o s[i]
      BY <2>2 DEF Joins
    <3> QED
      BY <3>1, <3>2
  <2>6. Joins(g, s, N)
    <3>1. \A i \in 1..N : i # 1 => i - 1 \in 1..(N - 1)
      BY <1>1, <1>5
    <3>2. \A i \in 1..N : g[i] = IF i = 1 THEN s[i] ELSE g[i - 1] \o s[i]
      BY <2>5, <3>1
    <3> HIDE DEF g
    <3> QED
      BY <2>4, <3>2 DEF Joins
  <2> QED
    BY <1>5, <2>4, <2>6
<1> QED
  BY <1>6, <1>7

Elements(s) == {s[i] : i \in DOMAIN s}

\* Every element stands before the later ones in the relation R.
Ordered(s, R) == \A i, k \in DOMAIN s : i < k => <<s[i], s[k]>> \in R
Related(A, B, R) == \A x \in A, y \in B : <<x, y>> \in R

LEMMA ElementsOfJoin ==
  ASSUME NEW S, NEW s \in Seq(S), NEW t \in Seq(S)
  PROVE  Elements(s \o t) = Elements(s) \cup Elements(t)
<1> DEFINE u == s \o t
           M == Len(s)
           N == Len(t)
<1>1. M \in Nat /\ N \in Nat /\ DOMAIN s = 1..M /\ DOMAIN t = 1..N /\ DOMAIN u = 1..(M + N)
  OBVIOUS
<1>2. \A i \in 1..M : i \in 1..(M + N) /\ u[i] = s[i]
  BY <1>1
<1>3. \A i \in 1..N : M + i \in 1..(M + N) /\ u[M + i] = t[i]
  BY <1>1
<1>4. \A i \in 1..(M + N) : \/ i \in 1..M /\ u[i] = s[i]
                            \/ i - M \in 1..N /\ u[i] = t[i - M]
  BY <1>1
<1> HIDE DEF u, M, N
<1>5. Elements(u) = Elements(s) \cup Elements(t)
  <2>1. \A x \in Elements(s) : x \in Elements(u)
    BY <1>1, <1>2 DEF Elements
  <2>2. \A x \in Elements(t) : x \in Elements(u)
    BY <1>1, <1>3 DEF Elements
  <2>3. \A x \in Elements(u) : x \in Elements(s) \/ x \in Elements(t)
    BY <1>1, <1>4 DEF Elements
  <2> QED
    BY <2>1, <2>2, <2>3
<1> QED
  BY <1>5 DEF u

LEMMA OrderedJoin ==
  ASSUME NEW S, NEW s \in Seq(S), NEW t \in Seq(S), NEW R,
         Ordered(s, R), Ordered(t, R), Related(Elements(s), Elements(t), R)
  PROVE  Ordered(s \o t, R)
<1>1. Len(s) \in Nat /\ Len(t) \in Nat /\ DOMAIN s = 1..Len(s) /\ DOMAIN t = 1..Len(t)
  OBVIOUS
<1>2. DOMAIN (s \o t) = 1..(Len(s) + Len(t))
  OBVIOUS
<1>3. \A i \in 1..(Len(s) + Len(t)) :
        \/ i \in 1..Len(s) /\ (s \o t)[i] = s[i]
        \/ i > Len(s) /\ i - Len(s) \in 1..Len(t) /\ (s \o t)[i] = t[i - Len(s)]
  BY <1>1
<1> SUFFICES ASSUME NEW i \in 1..(Len(s) + Len(t)), NEW k \in 1..(Len(s) + Len(t)), i < k
             PROVE  <<(s \o t)[i], (s \o t)[k]>> \in R
  BY <1>2 DEF Ordered
<1>4. CASE i \in 1..Len(s) /\ (s \o t)[i] = s[i]
  <2>1. CASE k \in 1..Len(s) /\ (s \o t)[k] = s[k]
    BY <1>1, <1>4, <2>1 DEF Ordered
  <2>2. CASE k - Len(s) \in 1..Len(t) /\ (s \o t)[k] = t[k - Len(s)]
    BY <1>1, <1>4, <2>2 DEF Related, Elements
  <2> QED
    BY <1>3, <2>1, <2>2
<1>5. CASE i > Len(s) /\ i - Len(s) \in 1..Len(t) /\ (s \o t)[i] = t[i - Len(s)]
  <2>1. k > Len(s) /\ i - Len(s) < k - Len(s)
    BY <1>1, <1>5
  <2>2. k - Len(s) \in 1..Len(t) /\ (s \o t)[k] = t[k - Len(s)]
    BY <1>1, <1>3, <2>1
  <2> QED
    BY <1>1, <1>5, <2>1, <2>2 DEF Ordered
<1> QED
  BY <1>3, <1>4, <1>5

LEMMA FlattenJoins ==
  ASSUME NEW S, NEW s \in Seq(Seq(S)), Len(s) # 0
  PROVE  \E f \in [1..Len(s) -> Seq(S)] :
           Joins(f, s, Len(s)) /\ Stream!FlattenSeq(s) = f[Len(s)]
<1> DEFINE N == Len(s)
           fl == CHOOSE f : Joins(f, s, N)
<1>1. N \in Nat /\ DOMAIN s = 1..N
  OBVIOUS
<1>2. Stream!FlattenSeq(s) = fl[N]
  BY DEF Stream!FlattenSeq, Joins
<1>3. \E f : Joins(f, s, N)
  <2>1. N \in 0..Len(s)
    BY <1>1
  <2> QED
    BY <2>1, JoinExists
<1>4. Joins(fl, s, N)
  BY <1>3
<1> HIDE DEF fl
<1> DEFINE Bad == {i \in 1..N : fl[i] \notin Seq(S)}
<1>5. Bad = {}
  <2> SUFFICES ASSUME Bad # {} PROVE FALSE
    OBVIOUS
  <2>1. Bad \in SUBSET Nat
    BY <1>1
  <2>2. PICK i \in Bad : \A m \in Bad : i <= m
    <3> HIDE DEF Bad
    <3> QED
      BY <2>1, SmallestOf
  <2>3. i \in 1..N /\ fl[i] \notin Seq(S) /\ s[i] \in Seq(S)
    BY <1>1, <2>2
  <2>4. fl[i] = IF i = 1 THEN s[i] ELSE fl[i - 1] \o s[i]
    BY <1>4, <2>3 DEF Joins
  <2>5. i # 1
    BY <2>3, <2>4
  <2>6. i - 1 \in 1..N /\ ~(i <= i - 1)
    BY <1>1, <2>3, <2>5
  <2>7. fl[i - 1] \in Seq(S)
    BY <2>2, <2>6
  <2> QED
    BY <2>3, <2>4, <2>5, <2>7
<1>6. fl \in [1..N -> Seq(S)]
  <2>1. fl = [i \in 1..N |-> IF i = 1 THEN s[i] ELSE fl[i - 1] \o s[i]]
    BY <1>4 DEF Joins
  <2>2. DOMAIN fl = 1..N
    BY <2>1
  <2>3. fl = [i \in 1..N |-> fl[i]]
    BY <2>1, <2>2
  <2> QED
    BY <1>5, <2>3
<1> QED
  BY <1>2, <1>4, <1>6

LEMMA FlattenTypes ==
  ASSUME NEW S, NEW s \in Seq(Seq(S))
  PROVE  Stream!FlattenSeq(s) \in Seq(S)
<1>1. CASE Len(s) = 0
  BY <1>1 DEF Stream!FlattenSeq
<1>2. CASE Len(s) # 0
  <2>1. PICK f \in [1..Len(s) -> Seq(S)] : Stream!FlattenSeq(s) = f[Len(s)]
    BY <1>2, FlattenJoins
  <2>2. Len(s) \in 1..Len(s)
    BY <1>2
  <2> QED
    BY <2>1, <2>2
<1> QED
  BY <1>1, <1>2

\* Nothing is lost and nothing is added.
LEMMA FlattenElements ==
  ASSUME NEW S, NEW s \in Seq(Seq(S))
  PROVE  \A x : x \in Elements(Stream!FlattenSeq(s)) <=>
                  \E i \in DOMAIN s : x \in Elements(s[i])
<1>1. CASE Len(s) = 0
  <2>1. Stream!FlattenSeq(s) = << >>
    BY <1>1 DEF Stream!FlattenSeq
  <2>2. DOMAIN s = {}
    BY <1>1
  <2> QED
    BY <2>1, <2>2 DEF Elements
<1>2. CASE Len(s) # 0
  <2> DEFINE N == Len(s)
  <2>1. N \in Nat /\ DOMAIN s = 1..N /\ \A i \in 1..N : s[i] \in Seq(S)
    OBVIOUS
  <2>2. PICK f \in [1..N -> Seq(S)] : Joins(f, s, N) /\ Stream!FlattenSeq(s) = f[N]
    BY <1>2, FlattenJoins
  <2> DEFINE Good(i) == \A x : x \in Elements(f[i]) <=> \E k \in 1..i : x \in Elements(s[k])
             Bad == {i \in 1..N : ~Good(i)}
  <2>3. Bad = {}
    <3> SUFFICES ASSUME Bad # {} PROVE FALSE
      OBVIOUS
    <3>1. Bad \in SUBSET Nat
      BY <2>1
    <3>2. PICK i \in Bad : \A m \in Bad : i <= m
      <4> HIDE DEF Bad
      <4> QED
        BY <3>1, SmallestOf
    <3>3. i \in 1..N /\ ~Good(i)
      BY <3>2
    <3>4. f[i] = IF i = 1 THEN s[i] ELSE f[i - 1] \o s[i]
      BY <2>2, <3>3 DEF Joins
    <3>5. CASE i = 1
      <4>1. 1..i = {1} /\ f[i] = s[1]
        BY <3>4, <3>5
      <4> QED
        BY <3>3, <4>1
    <3>6. CASE i # 1
      <4>1. i - 1 \in 1..N /\ ~(i <= i - 1) /\ 1..i = 1..(i - 1) \cup {i}
        BY <2>1, <3>3, <3>6
      <4>2. Good(i - 1)
        <5>1. i - 1 \notin Bad
          <6> HIDE DEF Bad
          <6> QED
            BY <3>2, <4>1
        <5> QED
          BY <4>1, <5>1
      <4>3. f[i] = f[i - 1] \o s[i] /\ f[i - 1] \in Seq(S) /\ s[i] \in Seq(S)
        BY <2>1, <3>3, <3>4, <3>6, <4>1
      <4>4. Elements(f[i]) = Elements(f[i - 1]) \cup Elements(s[i])
        BY <4>3, ElementsOfJoin
      <4>5. Good(i)
        BY <4>1, <4>2, <4>4
      <4> QED
        BY <3>3, <4>5
    <3> QED
      BY <3>5, <3>6
  <2>4. N \in 1..N
    BY <1>2, <2>1
  <2>5. Good(N)
    BY <2>3, <2>4
  <2> QED
    BY <2>1, <2>2, <2>5
<1> QED
  BY <1>1, <1>2

\* The order within the pieces and between them is the order of the whole.
LEMMA FlattenOrdered ==
  ASSUME NEW S, NEW s \in Seq(Seq(S)), NEW R,
         \A i \in DOMAIN s : Ordered(s[i], R),
         \A i, k \in DOMAIN s : i < k => Related(Elements(s[i]), Elements(s[k]), R)
  PROVE  Ordered(Stream!FlattenSeq(s), R)
<1>1. CASE Len(s) = 0
  <2>1. Stream!FlattenSeq(s) = << >>
    BY <1>1 DEF Stream!FlattenSeq
  <2> QED
    BY <2>1 DEF Ordered
<1>2. CASE Len(s) # 0
  <2> DEFINE N == Len(s)
  <2>1. N \in Nat /\ DOMAIN s = 1..N /\ \A i \in 1..N : s[i] \in Seq(S)
    OBVIOUS
  <2>2. PICK f \in [1..N -> Seq(S)] : Joins(f, s, N) /\ Stream!FlattenSeq(s) = f[N]
    BY <1>2, FlattenJoins
  <2> DEFINE Good(i) == /\ Ordered(f[i], R)
                        /\ \A k \in 1..N : i < k => Related(Elements(f[i]), Elements(s[k]), R)
             Bad == {i \in 1..N : ~Good(i)}
  <2>3. Bad = {}
    <3> SUFFICES ASSUME Bad # {} PROVE FALSE
      OBVIOUS
    <3>1. Bad \in SUBSET Nat
      BY <2>1
    <3>2. PICK i \in Bad : \A m \in Bad : i <= m
      <4> HIDE DEF Bad
      <4> QED
        BY <3>1, SmallestOf
    <3>3. i \in 1..N /\ ~Good(i)
      BY <3>2
    <3>4. f[i] = IF i = 1 THEN s[i] ELSE f[i - 1] \o s[i]
      BY <2>2, <3>3 DEF Joins
    <3>5. CASE i = 1
      BY <2>1, <3>3, <3>4, <3>5
    <3>6. CASE i # 1
      <4>1. i - 1 \in 1..N /\ ~(i <= i - 1) /\ i - 1 < i /\ \A k \in 1..N : i < k => i - 1 < k
        BY <2>1, <3>3, <3>6
      <4>2. i - 1 \notin Bad
        <5> HIDE DEF Bad
        <5> QED
          BY <3>2, <4>1
      <4>3. Good(i - 1)
        BY <4>1, <4>2
      <4>4. f[i] = f[i - 1] \o s[i] /\ f[i - 1] \in Seq(S) /\ s[i] \in Seq(S)
        BY <2>1, <3>3, <3>4, <3>6, <4>1
      <4>5. Elements(f[i]) = Elements(f[i - 1]) \cup Elements(s[i])
        BY <4>4, ElementsOfJoin
      <4>6. Ordered(s[i], R) /\ Related(Elements(f[i - 1]), Elements(s[i]), R)
        BY <2>1, <3>3, <4>1, <4>3
      <4>7. Ordered(f[i], R)
        BY <4>3, <4>4, <4>6, OrderedJoin
      <4>8. \A k \in 1..N : i < k => Related(Elements(f[i]), Elements(s[k]), R)
        <5> SUFFICES ASSUME NEW k \in 1..N, i < k
                     PROVE  Related(Elements(f[i]), Elements(s[k]), R)
          OBVIOUS
        <5>1. Related(Elements(f[i - 1]), Elements(s[k]), R)
          BY <4>1, <4>3
        <5>2. Related(Elements(s[i]), Elements(s[k]), R)
          BY <2>1, <3>3
        <5> QED
          BY <4>5, <5>1, <5>2 DEF Related
      <4> QED
        BY <3>3, <4>7, <4>8
    <3> QED
      BY <3>5, <3>6
  <2>4. N \in 1..N
    BY <1>2, <2>1
  <2>5. Good(N)
    BY <2>3, <2>4
  <2> QED
    BY <2>2, <2>5
<1> QED
  BY <1>1, <1>2

----------------------------------------------------------------------------
(* The samples of an instance on their way to the check function. *)

States == {"unknown", "ALIVE", "NO_WRITERS", "DISPOSED"}
StreamEntries ==
  {e \in [color : Stream!Handles, size : Nat, valid : BOOLEAN] : e.valid => e.size > 0}
StreamSamples == [kind : {"sample"}, color : Stream!Handles, size : Nat \ {0}]
StreamStates == [kind : {"state"}, color : Stream!Handles, state : States]
StreamLines == StreamSamples \cup StreamStates

EntryOrder ==
  {p \in StreamEntries \X StreamEntries :
     p[1].valid /\ p[2].valid /\ p[1].color = p[2].color => p[1].size < p[2].size}
LineOrder ==
  {p \in StreamLines \X StreamLines :
     p[1].kind = "sample" /\ p[2].kind = "sample" /\ p[1].color = p[2].color
       => p[1].size < p[2].size}

\* The sizes of an instance: looked at last, matched, on the console, received.
Known(c) == IF c \in DOMAIN seq_num THEN {seq_num[c]} ELSE {}
Pending(c) == IF result \in {"called", "running"} /\ line.color = c THEN {line.size} ELSE {}
Shown(s, c) == {l.size : l \in {x \in Elements(s) : x.kind = "sample" /\ x.color = c}}
Cached(s, c) == {e.size : e \in {x \in Elements(s) : x.valid /\ x.color = c}}

\* The size the publisher has written last.
Written(c) == IF j = 0 \/ c < j THEN shapesize ELSE shapesize - 1

LEMMA LinesOfEntry ==
  ASSUME instance_state \in [Stream!Handles -> States], NEW e \in StreamEntries
  PROVE  /\ Stream!Printed(e) \in Seq(StreamLines)
         /\ Ordered(Stream!Printed(e), LineOrder)
         /\ \A l \in Elements(Stream!Printed(e)) :
              l.color = e.color /\ (l.kind = "sample" => e.valid /\ l.size = e.size)
         /\ e.valid => [kind |-> "sample", color |-> e.color, size |-> e.size]
                         \in Elements(Stream!Printed(e))
<1> DEFINE sample == [kind |-> "sample", color |-> e.color, size |-> e.size]
           state == [kind |-> "state", color |-> e.color, state |-> instance_state[e.color]]
           A == IF e.valid THEN <<sample>> ELSE << >>
           B == IF instance_state[e.color] # "ALIVE" THEN <<state>> ELSE << >>
<1>1. e.valid => sample \in StreamLines
  BY DEF StreamLines, StreamSamples, StreamEntries
<1>2. state \in StreamLines /\ state.kind # "sample" /\ state.color = e.color
  BY DEF StreamLines, StreamStates, StreamEntries
<1>3. Stream!Printed(e) = A \o B
  BY DEF Stream!Printed
<1>4. sample.kind = "sample" /\ sample.color = e.color /\ sample.size = e.size
  OBVIOUS
<1> HIDE DEF sample, state
<1>5. A \in Seq(StreamLines) /\ B \in Seq(StreamLines)
  BY <1>1, <1>2
<1>6. \A l \in Elements(A) : l = sample /\ e.valid
  BY DEF Elements
<1>7. \A l \in Elements(B) : l = state
  BY DEF Elements
<1>8. e.valid => sample \in Elements(A)
  <2> SUFFICES ASSUME e.valid PROVE sample \in Elements(A)
    OBVIOUS
  <2>1. 1 \in DOMAIN A /\ A[1] = sample
    OBVIOUS
  <2> HIDE DEF A
  <2> QED
    BY <2>1 DEF Elements
<1>9. Ordered(A, LineOrder) /\ Ordered(B, LineOrder)
  <2>1. \A i, k \in DOMAIN A : ~(i < k)
    OBVIOUS
  <2>2. \A i, k \in DOMAIN B : ~(i < k)
    OBVIOUS
  <2> QED
    BY <2>1, <2>2 DEF Ordered
<1> HIDE DEF A, B
<1>10. Elements(A \o B) = Elements(A) \cup Elements(B)
  BY <1>5, ElementsOfJoin
<1>11. Related(Elements(A), Elements(B), LineOrder)
  BY <1>1, <1>2, <1>6, <1>7 DEF Related, LineOrder
<1>12. Ordered(A \o B, LineOrder)
  BY <1>5, <1>9, <1>11, OrderedJoin
<1>13. A \o B \in Seq(StreamLines)
  BY <1>5
<1>14. \A l \in Elements(A \o B) :
         l.color = e.color /\ (l.kind = "sample" => e.valid /\ l.size = e.size)
  BY <1>2, <1>4, <1>6, <1>7, <1>10
<1>15. e.valid => sample \in Elements(A \o B)
  BY <1>8, <1>10
<1> QED
  BY <1>3, <1>12, <1>13, <1>14, <1>15 DEF sample

\* A piece of a sequence holds its elements.
LEMMA ElementIn ==
  ASSUME NEW S, NEW s \in Seq(S)
  PROVE  /\ \A x \in Elements(s) : x \in S /\ \E i \in DOMAIN s : x = s[i]
         /\ \A i \in DOMAIN s : s[i] \in Elements(s)
  BY DEF Elements

LEMMA SizeShown ==
  ASSUME NEW s, NEW c, NEW x
  PROVE  x \in Shown(s, c) <=>
           \E l \in Elements(s) : l.kind = "sample" /\ l.color = c /\ x = l.size
  BY DEF Shown

LEMMA SizeCached ==
  ASSUME NEW s, NEW c, NEW x
  PROVE  x \in Cached(s, c) <=>
           \E e \in Elements(s) : e.valid /\ e.color = c /\ x = e.size
  BY DEF Cached

\* take_next_instance hands over the samples of some instances, in order, and
\* leaves those of the others.
LEMMA TakeStep ==
  ASSUME cache \in Seq(StreamEntries), console \in Seq(StreamLines),
         instance_state \in [Stream!Handles -> States],
         Ordered(cache, EntryOrder), Ordered(console, LineOrder),
         \A c \in Stream!Handles : \A a \in Shown(console, c), b \in Cached(cache, c) : a < b,
         Stream!TakeSamples
  PROVE  /\ cache' \in Seq(StreamEntries) /\ console' \in Seq(StreamLines)
         /\ Ordered(cache', EntryOrder) /\ Ordered(console', LineOrder)
         /\ \A c \in Stream!Handles :
              \/ Shown(console', c) = Shown(console, c) /\ Cached(cache', c) = Cached(cache, c)
              \/ /\ Shown(console', c) = Shown(console, c) \cup Cached(cache, c)
                 /\ Cached(cache', c) = {}
<1> DEFINE wanted == IF options.take_next_instance THEN {Stream!Min(Stream!Takeable)}
                     ELSE Stream!Handles
           printed == [i \in DOMAIN cache |->
                         IF cache[i].color \in wanted THEN Stream!Printed(cache[i]) ELSE << >>]
           left == [i \in DOMAIN cache |->
                      IF cache[i].color \in wanted THEN << >> ELSE <<cache[i]>>]
           added == Stream!FlattenSeq(printed)
<1>1. Len(cache) \in Nat /\ DOMAIN cache = 1..Len(cache)
      /\ \A i \in DOMAIN cache : cache[i] \in StreamEntries
  OBVIOUS
<1>2. console' = console \o Stream!FlattenSeq(printed) /\ cache' = Stream!FlattenSeq(left)
  BY DEF Stream!TakeSamples
<1> HIDE DEF wanted
<1>3. \A i \in DOMAIN cache :
        /\ Stream!Printed(cache[i]) \in Seq(StreamLines)
        /\ Ordered(Stream!Printed(cache[i]), LineOrder)
        /\ \A l \in Elements(Stream!Printed(cache[i])) :
             /\ l.color = cache[i].color
             /\ l.kind = "sample" => cache[i].valid /\ l.size = cache[i].size
        /\ cache[i].valid =>
             [kind |-> "sample", color |-> cache[i].color, size |-> cache[i].size]
               \in Elements(Stream!Printed(cache[i]))
  BY <1>1, LinesOfEntry
<1>4. Elements(<< >>) = {} /\ \A R : Ordered(<< >>, R)
  BY DEF Elements, Ordered
<1>5. \A e : Elements(<<e>>) = {e} /\ \A R : Ordered(<<e>>, R)
  <2> TAKE e
  <2> DEFINE s == <<e>>
  <2>1. DOMAIN s = {1} /\ s[1] = e
    OBVIOUS
  <2> HIDE DEF s
  <2>2. Elements(s) = {e} /\ \A R : Ordered(s, R)
    BY <2>1 DEF Elements, Ordered
  <2> QED
    BY <2>2 DEF s
<1>6. /\ printed \in Seq(Seq(StreamLines)) /\ DOMAIN printed = DOMAIN cache
      /\ \A i \in DOMAIN cache :
           printed[i] = IF cache[i].color \in wanted THEN Stream!Printed(cache[i]) ELSE << >>
  <2>1. \A i \in DOMAIN cache : Stream!Printed(cache[i]) \in Seq(StreamLines)
    BY <1>3
  <2> QED
    BY <1>1, <2>1
<1>7. /\ left \in Seq(Seq(StreamEntries)) /\ DOMAIN left = DOMAIN cache
      /\ \A i \in DOMAIN cache :
           left[i] = IF cache[i].color \in wanted THEN << >> ELSE <<cache[i]>>
  BY <1>1
<1> HIDE DEF printed, left, added
<1>8. \A i \in DOMAIN cache : \A l \in Elements(printed[i]) :
        /\ cache[i].color \in wanted /\ l \in StreamLines /\ l.color = cache[i].color
        /\ l.kind = "sample" => cache[i].valid /\ l.size = cache[i].size
  <2> SUFFICES ASSUME NEW i \in DOMAIN cache, NEW l \in Elements(printed[i])
               PROVE  /\ cache[i].color \in wanted /\ l \in StreamLines
                      /\ l.color = cache[i].color
                      /\ l.kind = "sample" => cache[i].valid /\ l.size = cache[i].size
    OBVIOUS
  <2>1. cache[i].color \in wanted /\ printed[i] = Stream!Printed(cache[i])
    BY <1>4, <1>6
  <2>2. l \in StreamLines
    BY <1>3, <2>1, ElementIn
  <2> QED
    BY <1>3, <2>1, <2>2
<1>9. \A i \in DOMAIN cache : \A e \in Elements(left[i]) :
        cache[i].color \notin wanted /\ e = cache[i]
  BY <1>4, <1>5, <1>7
<1>10. cache' \in Seq(StreamEntries) /\ added \in Seq(StreamLines)
  BY <1>2, <1>6, <1>7, FlattenTypes DEF added
<1>11. console' = console \o added /\ console' \in Seq(StreamLines)
  BY <1>2, <1>10 DEF added
<1>12. \A x : x \in Elements(added) <=> \E i \in DOMAIN cache : x \in Elements(printed[i])
  BY <1>6, FlattenElements DEF added
<1>13. \A x : x \in Elements(cache') <=> \E i \in DOMAIN cache : x \in Elements(left[i])
  BY <1>2, <1>7, FlattenElements
<1>14. \A x : x \in Elements(cache') <=>
                \E i \in DOMAIN cache : x = cache[i] /\ cache[i].color \notin wanted
  BY <1>5, <1>7, <1>9, <1>13
<1>15. Ordered(cache', EntryOrder)
  <2>1. \A i \in DOMAIN left : Ordered(left[i], EntryOrder)
    BY <1>4, <1>5, <1>7
  <2>2. \A i, k \in DOMAIN left :
          i < k => Related(Elements(left[i]), Elements(left[k]), EntryOrder)
    BY <1>7, <1>9 DEF Related, Ordered
  <2> QED
    BY <1>2, <1>7, <2>1, <2>2, FlattenOrdered
<1>16. Ordered(added, LineOrder)
  <2>1. \A i \in DOMAIN printed : Ordered(printed[i], LineOrder)
    BY <1>3, <1>4, <1>6
  <2>2. ASSUME NEW i \in DOMAIN cache, NEW k \in DOMAIN cache, i < k
        PROVE  Related(Elements(printed[i]), Elements(printed[k]), LineOrder)
    <3>1. <<cache[i], cache[k]>> \in EntryOrder
      BY <2>2 DEF Ordered
    <3>2. cache[i].valid /\ cache[k].valid /\ cache[i].color = cache[k].color
            => cache[i].size < cache[k].size
      BY <3>1 DEF EntryOrder
    <3> SUFFICES ASSUME NEW x \in Elements(printed[i]), NEW y \in Elements(printed[k])
                 PROVE  <<x, y>> \in LineOrder
      BY DEF Related
    <3> QED
      BY <1>8, <3>2 DEF LineOrder
  <2> QED
    BY <1>6, <2>1, <2>2, FlattenOrdered DEF added
<1>17. Related(Elements(console), Elements(added), LineOrder)
  <2> SUFFICES ASSUME NEW x \in Elements(console), NEW y \in Elements(added)
               PROVE  <<x, y>> \in LineOrder
    BY DEF Related
  <2>1. x \in StreamLines
    BY ElementIn
  <2>2. PICK i \in DOMAIN cache : y \in Elements(printed[i])
    BY <1>12
  <2>3. /\ y \in StreamLines /\ y.color = cache[i].color
        /\ y.kind = "sample" => cache[i].valid /\ y.size = cache[i].size
    BY <1>8, <2>2
  <2>4. ASSUME x.kind = "sample", y.kind = "sample", x.color = y.color
        PROVE  x.size < y.size
    <3>1. x.color \in Stream!Handles
      BY <2>1 DEF StreamLines, StreamSamples, StreamStates
    <3>2. x.size \in Shown(console, x.color)
      BY <2>4, SizeShown
    <3>3. cache[i] \in Elements(cache)
      BY ElementIn
    <3>4. y.size \in Cached(cache, x.color)
      BY <2>3, <2>4, <3>3, SizeCached
    <3> QED
      BY <3>1, <3>2, <3>4
  <2> QED
    BY <2>1, <2>3, <2>4 DEF LineOrder
<1>18. Ordered(console', LineOrder)
  BY <1>10, <1>11, <1>16, <1>17, OrderedJoin
<1>19. Elements(console') = Elements(console) \cup Elements(added)
  BY <1>10, <1>11, ElementsOfJoin
<1>20. ASSUME NEW c \in Stream!Handles
       PROVE  \/ Shown(console', c) = Shown(console, c) /\ Cached(cache', c) = Cached(cache, c)
              \/ /\ Shown(console', c) = Shown(console, c) \cup Cached(cache, c)
                 /\ Cached(cache', c) = {}
  <2>1. CASE c \in wanted
    <3>1. Cached(cache', c) = {}
      BY <1>14, <2>1, SizeCached
    <3>2. ASSUME NEW x
          PROVE  x \in Shown(added, c) <=> x \in Cached(cache, c)
      <4>1. ASSUME x \in Shown(added, c) PROVE x \in Cached(cache, c)
        <5>1. PICK l \in Elements(added) : l.kind = "sample" /\ l.color = c /\ x = l.size
          BY <4>1, SizeShown
        <5>2. PICK i \in DOMAIN cache : l \in Elements(printed[i])
          BY <1>12
        <5>3. cache[i] \in Elements(cache)
          BY ElementIn
        <5> QED
          BY <1>8, <5>1, <5>2, <5>3, SizeCached
      <4>2. ASSUME x \in Cached(cache, c) PROVE x \in Shown(added, c)
        <5>1. PICK e \in Elements(cache) : e.valid /\ e.color = c /\ x = e.size
          BY <4>2, SizeCached
        <5>2. PICK i \in DOMAIN cache : e = cache[i]
          BY ElementIn
        <5> DEFINE l == [kind |-> "sample", color |-> cache[i].color, size |-> cache[i].size]
        <5>3. l \in Elements(printed[i])
          BY <1>3, <1>6, <2>1, <5>1, <5>2
        <5>4. l.kind = "sample" /\ l.color = c /\ x = l.size
          BY <5>1, <5>2
        <5> HIDE DEF l
        <5> QED
          BY <1>12, <5>3, <5>4, SizeShown
      <4> QED
        BY <4>1, <4>2
    <3>3. ASSUME NEW x
          PROVE  x \in Shown(console', c) <=> x \in Shown(console, c) \/ x \in Shown(added, c)
      BY <1>19, SizeShown
    <3> QED
      BY <3>1, <3>2, <3>3
  <2>2. CASE c \notin wanted
    <3>1. ASSUME NEW x
          PROVE  x \in Cached(cache', c) <=> x \in Cached(cache, c)
      BY <1>14, <2>2, SizeCached, ElementIn
    <3>2. ASSUME NEW x
          PROVE  x \in Shown(console', c) <=> x \in Shown(console, c)
      BY <1>8, <1>12, <1>19, <2>2, SizeShown
    <3> QED
      BY <3>1, <3>2
  <2> QED
    BY <2>1, <2>2
<1> QED
  BY <1>10, <1>11, <1>15, <1>18, <1>20

LEMMA RemovedAt ==
  ASSUME NEW S, NEW s \in Seq(S), NEW R, Ordered(s, R), NEW k \in 1..Len(s)
  PROVE  /\ Stream!RemoveAt(s, k) \in Seq(S)
         /\ Ordered(Stream!RemoveAt(s, k), R)
         /\ Elements(Stream!RemoveAt(s, k)) \subseteq Elements(s)
<1> DEFINE N == Len(s)
           t == Stream!RemoveAt(s, k)
           A == SubSeq(s, 1, k - 1)
           B == SubSeq(s, k + 1, N)
<1>1. N \in Nat /\ DOMAIN s = 1..N /\ k \in 1..N
  OBVIOUS
<1>2. A \in Seq(S) /\ DOMAIN A = 1..(k - 1) /\ \A i \in 1..(k - 1) : A[i] = s[i] /\ i \in 1..N
  BY <1>1
<1>3. B \in Seq(S) /\ DOMAIN B = 1..(N - k)
      /\ \A i \in 1..(N - k) : B[i] = s[k + i] /\ k + i \in 1..N
  BY <1>1
<1>4. t = A \o B
  BY DEF Stream!RemoveAt
<1> HIDE DEF A, B, t
<1>5. t \in Seq(S) /\ Elements(t) = Elements(A) \cup Elements(B)
  BY <1>2, <1>3, <1>4, ElementsOfJoin
<1>6. Elements(A) \subseteq Elements(s) /\ Elements(B) \subseteq Elements(s)
  BY <1>1, <1>2, <1>3 DEF Elements
<1>7. Ordered(A, R)
  BY <1>1, <1>2 DEF Ordered
<1>8. Ordered(B, R)
  <2>1. \A i, m \in 1..(N - k) : i < m => k + i < k + m
    BY <1>1
  <2> QED
    BY <1>1, <1>3, <2>1 DEF Ordered
<1>9. Related(Elements(A), Elements(B), R)
  <2> SUFFICES ASSUME NEW x \in Elements(A), NEW y \in Elements(B) PROVE <<x, y>> \in R
    BY DEF Related
  <2>1. PICK i \in 1..(k - 1) : x = A[i]
    BY <1>2 DEF Elements
  <2>2. PICK m \in 1..(N - k) : y = B[m]
    BY <1>3 DEF Elements
  <2>3. i < k + m
    BY <1>1
  <2> QED
    BY <1>1, <1>2, <1>3, <2>1, <2>2, <2>3 DEF Ordered
<1>10. Ordered(t, R)
  BY <1>2, <1>3, <1>4, <1>7, <1>8, <1>9, OrderedJoin
<1> QED
  BY <1>5, <1>6, <1>10 DEF t

\* KEEP_LAST may drop a sample, KEEP_ALL does not; the order is kept.
LEMMA KeepStep ==
  ASSUME NEW entries \in Seq(StreamEntries), Ordered(entries, EntryOrder), NEW c
  PROVE  /\ Stream!KeepLast(entries, c) \in Seq(StreamEntries)
         /\ Ordered(Stream!KeepLast(entries, c), EntryOrder)
         /\ Elements(Stream!KeepLast(entries, c)) \subseteq Elements(entries)
         /\ options.history_depth = 0 => Stream!KeepLast(entries, c) = entries
<1> DEFINE mine(e) == e.color = c /\ e.valid
           I == {i \in 1..Len(entries) : mine(entries[i])}
           rest == Stream!RemoveFirstMatch(entries, mine)
<1>1. Len(entries) \in Nat
  OBVIOUS
<1>2. ASSUME I # {}
      PROVE  Stream!Min(I) \in 1..Len(entries)
  <2>1. I \in SUBSET Nat /\ I \subseteq 1..Len(entries)
    BY <1>1
  <2> HIDE DEF I
  <2>2. \E x \in I : \A y \in I : x <= y
    BY <1>2, <2>1, SmallestOf
  <2>3. Stream!Min(I) \in I
    BY <2>2 DEF Stream!Min
  <2> QED
    BY <2>1, <2>3
<1>3. /\ rest \in Seq(StreamEntries) /\ Ordered(rest, EntryOrder)
      /\ Elements(rest) \subseteq Elements(entries)
  <2>1. CASE I = {}
    BY <2>1 DEF Stream!RemoveFirstMatch
  <2>2. CASE I # {}
    <3>1. rest = Stream!RemoveAt(entries, Stream!Min(I))
      BY <2>2 DEF Stream!RemoveFirstMatch, Stream!SelectInSeq
    <3> HIDE DEF I, rest
    <3> QED
      BY <1>2, <2>2, <3>1, RemovedAt
  <2> QED
    BY <2>1, <2>2
<1>4. /\ Stream!KeepLast(entries, c) \in {rest, entries}
      /\ options.history_depth = 0 => Stream!KeepLast(entries, c) = entries
  BY DEF Stream!KeepLast
<1> HIDE DEF rest
<1> QED
  BY <1>3, <1>4

\* The end of the instances adds no sample.
LEMMA BuryStep ==
  ASSUME Stream!ShapeMainAssumption,
         cache \in Seq(StreamEntries), instance_state \in [Stream!Handles -> States],
         Ordered(cache, EntryOrder), Stream!Bury(Stream!Handles, "NO_WRITERS")
  PROVE  /\ cache' \in Seq(StreamEntries) /\ instance_state' \in [Stream!Handles -> States]
         /\ Ordered(cache', EntryOrder)
         /\ \A c \in Stream!Handles : Cached(cache', c) = Cached(cache, c)
<1> DEFINE K == Cardinality(Colors)
           alive == {c \in Stream!Handles : instance_state[c] = "ALIVE"}
           notice(c) == IF c \in alive THEN <<[color |-> c, size |-> 0, valid |-> FALSE]>>
                        ELSE << >>
           notices == [i \in 1..K |-> notice(i - 1)]
           added == Stream!FlattenSeq(notices)
           Notices == {e \in StreamEntries : ~e.valid}
<1>1. K \in Nat
  BY DEF Stream!ShapeMainAssumption
<1>2. \A i \in 1..K : i - 1 \in Stream!Handles
  BY <1>1 DEF Stream!Handles
<1>3. \A c \in Stream!Handles : notice(c) \in Seq(Notices)
  <2> SUFFICES ASSUME NEW c \in Stream!Handles PROVE notice(c) \in Seq(Notices)
    OBVIOUS
  <2> DEFINE entry == [color |-> c, size |-> 0, valid |-> FALSE]
  <2>1. entry \in Notices
    BY DEF StreamEntries
  <2>2. notice(c) = IF c \in alive THEN <<entry>> ELSE << >>
    OBVIOUS
  <2> HIDE DEF entry, notice, alive, Notices
  <2>3. <<entry>> \in Seq(Notices) /\ << >> \in Seq(Notices)
    BY <2>1
  <2> QED
    BY <2>2, <2>3
<1>4. notices \in Seq(Seq(Notices))
  <2> HIDE DEF notice, Notices
  <2>1. \A i \in 1..K : notice(i - 1) \in Seq(Notices)
    BY <1>2, <1>3
  <2>2. notices \in [1..K -> Seq(Notices)]
    BY <2>1
  <2> HIDE DEF notices, K
  <2> QED
    BY <1>1, <2>2
<1>5. cache' = cache \o added
  BY DEF Stream!Bury
<1>6. instance_state' = [c \in Stream!Handles |->
                           IF c \in alive THEN "NO_WRITERS" ELSE instance_state[c]]
  BY DEF Stream!Bury
<1>7. added \in Seq(Notices)
  <2> HIDE DEF notices, Notices
  <2> QED
    BY <1>4, FlattenTypes
<1> HIDE DEF added
<1>8. added \in Seq(StreamEntries) /\ \A e \in Elements(added) : e \in StreamEntries /\ ~e.valid
  <2>1. Notices \subseteq StreamEntries
    OBVIOUS
  <2>2. \A e \in Elements(added) : e \in Notices
    BY <1>7, ElementIn
  <2>3. added \in Seq(StreamEntries)
    <3> HIDE DEF Notices
    <3> QED
      BY <1>7, <2>1
  <2> QED
    BY <2>2, <2>3
<1>9. Elements(cache') = Elements(cache) \cup Elements(added) /\ cache' \in Seq(StreamEntries)
  BY <1>5, <1>8, ElementsOfJoin
<1>10. Ordered(added, EntryOrder)
  <2>1. \A i \in DOMAIN added : added[i] \in StreamEntries /\ ~added[i].valid
    BY <1>8 DEF Elements
  <2> QED
    BY <2>1 DEF Ordered, EntryOrder
<1>11. Related(Elements(cache), Elements(added), EntryOrder)
  <2>1. \A e \in Elements(cache) : e \in StreamEntries
    BY ElementIn
  <2> QED
    BY <1>8, <2>1 DEF Related, EntryOrder
<1>12. Ordered(cache', EntryOrder)
  BY <1>5, <1>8, <1>10, <1>11, OrderedJoin
<1>13. instance_state' \in [Stream!Handles -> States]
  BY <1>6 DEF States
<1>14. ASSUME NEW c \in Stream!Handles, NEW x
       PROVE  x \in Cached(cache', c) <=> x \in Cached(cache, c)
  BY <1>8, <1>9, SizeCached
<1> QED
  BY <1>9, <1>12, <1>13, <1>14

----------------------------------------------------------------------------
(* The invariant of the Reliability test cases. *)

StreamTypes ==
  /\ options.final_instance_state = "none"
  /\ check \in {"order", "reliability"}
  /\ check = "reliability" => options.reliable /\ options.history_depth = 0
  /\ pub_pc # "final"
  /\ j \in Stream!Handles /\ shapesize \in Nat /\ (j # 0 => shapesize > 0)
  /\ cache \in Seq(StreamEntries)
  /\ console \in Seq(StreamLines)
  /\ instance_state \in [Stream!Handles -> States]

\* Nothing is received before the applications match; the function follows the
\* samples from the first one that is printed.
CheckTypes ==
  /\ \A c \in DOMAIN seq_num : seq_num[c] \in Nat
  /\ result # "waiting" => line \in StreamSamples
  /\ result # "running" => DOMAIN seq_num = {}
  /\ ~matched => /\ result = "waiting"
                 /\ \A c \in Stream!Handles : Shown(console, c) = {} /\ Cached(cache, c) = {}

Below(A, B) == \A a \in A, b \in B : a < b

\* What the function knows of an instance is older than the matched line, that
\* one is older than the console, the console is older than the cache.
InChain(K, P, L, E) ==
  /\ Below(K, P) /\ Below(K, L) /\ Below(K, E)
  /\ Below(P, L) /\ Below(P, E) /\ Below(L, E)
UpTo(A, w) == \A a \in A : a \in Nat /\ a <= w
NoGap(A, w) == \A a \in A, s \in Nat : a <= s /\ s <= w => s \in A

Underway(c) == Known(c) \cup Pending(c) \cup Shown(console, c) \cup Cached(cache, c)

ChainInv(c) == InChain(Known(c), Pending(c), Shown(console, c), Cached(cache, c))

\* Nothing is underway that was not written, and with -r -k 0 nothing is
\* missing that was written after something that is underway.
WrittenInv(c) ==
  /\ UpTo(Underway(c), Written(c))
  /\ check = "reliability" => NoGap(Underway(c), Written(c))

FollowInv ==
  /\ StreamTypes /\ CheckTypes
  /\ Ordered(cache, EntryOrder) /\ Ordered(console, LineOrder)
  /\ \A c \in Stream!Handles : ChainInv(c) /\ WrittenInv(c)

StreamInv ==
  \/ result \in {"OK", "DATA_NOT_RECEIVED"}
  \/ result \in {"waiting", "called", "running"} /\ FollowInv

\* Nothing that follows the last sample in order, and without a gap, is blamed.
LEMMA NothingBreaks ==
  ASSUME Stream!ShapeMainAssumption, FollowInv, result = "running"
  PROVE  ~Stream!Chk!Breaks
<1> SUFFICES ASSUME line.color \in DOMAIN seq_num
             PROVE  Stream!Chk!Follows(check, seq_num[line.color], line.size)
  BY DEF Stream!Chk!Breaks, Stream!Chk!Instances
<1> DEFINE c == line.color
           a == seq_num[c]
           z == line.size
<1>1. c \in Stream!Handles /\ z \in Nat /\ a \in Nat
  BY DEF FollowInv, CheckTypes, StreamSamples
<1>2. Known(c) = {a} /\ Pending(c) = {z}
  BY DEF Known, Pending
<1> HIDE DEF c, a, z
<1>3. a < z
  BY <1>1, <1>2 DEF FollowInv, ChainInv, InChain, Below
<1>4. ASSUME check = "reliability"
      PROVE  z = a + 1
  <2>1. z <= Written(c) /\ a + 1 <= z /\ a <= a + 1
    BY <1>1, <1>2, <1>3 DEF FollowInv, WrittenInv, UpTo, NoGap, Underway
  <2>2. Written(c) \in Int
    BY DEF FollowInv, StreamTypes, Written
  <2>3. a + 1 \in Underway(c)
    BY <1>1, <1>2, <1>4, <2>1, <2>2 DEF FollowInv, WrittenInv, UpTo, NoGap, Underway
  <2>4. a + 1 \in Shown(console, c) \cup Cached(cache, c) => z < a + 1
    BY <1>1, <1>2 DEF FollowInv, ChainInv, InChain, Below
  <2>5. a + 1 # a /\ ~(z < a + 1)
    BY <1>1, <2>1
  <2> QED
    BY <1>2, <2>3, <2>4, <2>5 DEF Underway
<1> QED
  BY <1>1, <1>3, <1>4 DEF Stream!Chk!Follows, FollowInv, StreamTypes, c, a, z

\* The oldest sample of the console is matched, what was matched is looked at.
LEMMA Advance ==
  ASSUME NEW K, NEW P, NEW L, NEW E, NEW w \in Int, NEW K1, NEW P1, NEW L1,
         InChain(K, P, L, E), UpTo(K \cup P \cup L \cup E, w),
         L = P1 \cup L1, Below(P1, L1),
         K1 = IF P = {} THEN K ELSE P
  PROVE  /\ InChain(K1, P1, L1, E) /\ UpTo(K1 \cup P1 \cup L1 \cup E, w)
         /\ NoGap(K \cup P \cup L \cup E, w) => NoGap(K1 \cup P1 \cup L1 \cup E, w)
<1>1. InChain(K1, P1, L1, E) /\ UpTo(K1 \cup P1 \cup L1 \cup E, w)
  BY DEF InChain, UpTo, Below
<1>2. ASSUME NoGap(K \cup P \cup L \cup E, w),
             NEW a \in K1 \cup P1 \cup L1 \cup E, NEW s \in Nat, a <= s, s <= w
      PROVE  s \in K1 \cup P1 \cup L1 \cup E
  <2>1. a \in Nat /\ a \in K \cup P \cup L \cup E
    BY DEF UpTo
  <2>2. s \in K \cup P \cup L \cup E
    BY <1>2, <2>1 DEF NoGap
  <2>3. CASE P = {}
    BY <2>2, <2>3
  <2>4. CASE P # {}
    <3>1. a \in P \cup L \cup E
      BY <2>4
    <3>2. s \in K => s < a
      BY <3>1 DEF InChain, Below
    <3>3. s \notin K
      BY <1>2, <2>1, <3>2
    <3> QED
      BY <2>2, <2>4, <3>3
  <2> QED
    BY <2>3, <2>4
<1> QED
  BY <1>1, <1>2 DEF NoGap

\* The first line of a console in order, and the rest.
LEMMA FirstLine ==
  ASSUME console \in Seq(StreamLines), Ordered(console, LineOrder), console # << >>
  PROVE  /\ Head(console) \in StreamLines
         /\ Tail(console) \in Seq(StreamLines) /\ Ordered(Tail(console), LineOrder)
         /\ \A c \in Stream!Handles :
              LET mine == IF Head(console).kind = "sample" /\ Head(console).color = c
                          THEN {Head(console).size} ELSE {}
              IN Shown(console, c) = mine \cup Shown(Tail(console), c)
                 /\ Below(mine, Shown(Tail(console), c))
<1> DEFINE N == Len(console)
           h == Head(console)
           t == Tail(console)
<1>1. N \in Nat /\ N > 0 /\ DOMAIN console = 1..N /\ h = console[1] /\ h \in StreamLines
  OBVIOUS
<1>2. /\ t \in Seq(StreamLines) /\ DOMAIN t = 1..(N - 1)
      /\ \A i \in 1..(N - 1) : t[i] = console[i + 1] /\ i + 1 \in 1..N /\ 1 < i + 1
  BY <1>1
<1>3. \A i \in 1..N : i = 1 \/ (i - 1 \in 1..(N - 1) /\ console[i] = t[i - 1])
  BY <1>1
<1> HIDE DEF h, t, N
<1>4. Ordered(t, LineOrder)
  <2>1. \A i, k \in 1..(N - 1) : i < k => i + 1 < k + 1
    BY <1>1
  <2> QED
    BY <1>1, <1>2, <2>1 DEF Ordered
<1>5. \A x : x \in Elements(console) <=> x = h \/ x \in Elements(t)
  <2>1. h \in Elements(console) /\ \A x \in Elements(t) : x \in Elements(console)
    BY <1>1, <1>2 DEF Elements
  <2>2. \A x \in Elements(console) : x = h \/ x \in Elements(t)
    <3> SUFFICES ASSUME NEW x \in Elements(console) PROVE x = h \/ x \in Elements(t)
      OBVIOUS
    <3>1. PICK i \in 1..N : x = console[i]
      BY <1>1 DEF Elements
    <3>2. CASE i = 1
      BY <1>1, <3>1, <3>2
    <3>3. CASE i # 1
      <4>1. i - 1 \in DOMAIN t /\ x = t[i - 1]
        BY <1>2, <1>3, <3>1, <3>3
      <4> QED
        BY <4>1 DEF Elements
    <3> QED
      BY <3>2, <3>3
  <2> QED
    BY <2>1, <2>2
<1>6. \A l \in Elements(t) : <<h, l>> \in LineOrder
  <2> SUFFICES ASSUME NEW l \in Elements(t) PROVE <<h, l>> \in LineOrder
    OBVIOUS
  <2>1. PICK i \in 1..(N - 1) : l = t[i]
    BY <1>2 DEF Elements
  <2>2. 1 \in DOMAIN console /\ i + 1 \in DOMAIN console /\ 1 < i + 1
    BY <1>1, <1>2
  <2>3. <<console[1], console[i + 1]>> \in LineOrder
    BY <2>2 DEF Ordered
  <2> QED
    BY <1>1, <1>2, <2>1, <2>3
<1>7. ASSUME NEW c \in Stream!Handles
      PROVE  LET mine == IF h.kind = "sample" /\ h.color = c THEN {h.size} ELSE {}
             IN Shown(console, c) = mine \cup Shown(t, c) /\ Below(mine, Shown(t, c))
  <2> DEFINE mine == IF h.kind = "sample" /\ h.color = c THEN {h.size} ELSE {}
  <2>1. ASSUME NEW x
        PROVE  x \in Shown(console, c) <=> x \in mine \/ x \in Shown(t, c)
    BY <1>5, SizeShown
  <2>2. ASSUME NEW x \in mine, NEW y \in Shown(t, c)
        PROVE  x < y
    <3>1. PICK l \in Elements(t) : l.kind = "sample" /\ l.color = c /\ y = l.size
      BY SizeShown
    <3>2. h.kind = "sample" /\ h.color = c /\ x = h.size
      OBVIOUS
    <3> QED
      BY <1>6, <3>1, <3>2 DEF LineOrder
  <2>3. Shown(console, c) = mine \cup Shown(t, c)
    BY <2>1
  <2> QED
    BY <2>2, <2>3 DEF Below
<1> QED
  BY <1>1, <1>2, <1>4, <1>7 DEF h, t

\* A line without [number] is skipped.
LEMMA SkipStep ==
  ASSUME FollowInv, result \in {"waiting", "called", "running"}, console # << >>,
         console' = Tail(console), Head(console).kind # "sample",
         UNCHANGED <<options, pub_pc, j, shapesize, matched, cache, instance_state>>,
         UNCHANGED Stream!checkVars
  PROVE  FollowInv'
<1>1. /\ console' \in Seq(StreamLines) /\ Ordered(console', LineOrder)
      /\ \A c \in Stream!Handles : Shown(console', c) = Shown(console, c)
  BY FirstLine DEF FollowInv, StreamTypes
<1>2. UNCHANGED <<check, line, seq_num, result>>
  BY DEF Stream!checkVars
<1>3. StreamTypes'
  BY <1>1, <1>2 DEF FollowInv, StreamTypes
<1>4. CheckTypes'
  BY <1>1, <1>2 DEF FollowInv, CheckTypes
<1>5. ASSUME NEW c \in Stream!Handles
      PROVE  ChainInv(c)' /\ WrittenInv(c)'
  <2>1. /\ Known(c)' = Known(c) /\ Pending(c)' = Pending(c) /\ Written(c)' = Written(c)
        /\ Shown(console', c) = Shown(console, c)
    BY <1>1, <1>2 DEF Known, Pending, Written
  <2>2. ChainInv(c) /\ WrittenInv(c)
    BY DEF FollowInv
  <2> QED
    BY <1>2, <2>1, <2>2 DEF ChainInv, WrittenInv, Underway
<1> QED
  BY <1>1, <1>3, <1>4, <1>5 DEF FollowInv

\* A sample is matched; the one matched before, if any, has been looked at.
LEMMA MatchStep ==
  ASSUME FollowInv, result \in {"waiting", "called", "running"}, console # << >>,
         console' = Tail(console), Head(console).kind = "sample", line' = Head(console),
         UNCHANGED <<options, check, pub_pc, j, shapesize, matched, cache, instance_state>>,
         \/ result = "waiting" /\ result' = "called" /\ seq_num' = seq_num
         \/ /\ result = "running" /\ result' = "running"
            /\ seq_num' = [c \in DOMAIN seq_num \cup {line.color} |->
                             IF c = line.color THEN line.size ELSE seq_num[c]]
  PROVE  FollowInv'
<1> DEFINE h == Head(console)
           mine(c) == IF h.color = c THEN {h.size} ELSE {}
<1>1. /\ console' \in Seq(StreamLines) /\ Ordered(console', LineOrder) /\ h \in StreamLines
      /\ \A c \in Stream!Handles : /\ Shown(console, c) = mine(c) \cup Shown(console', c)
                                   /\ Below(mine(c), Shown(console', c))
  BY FirstLine DEF FollowInv, StreamTypes
<1>2. h \in StreamSamples
  BY <1>1 DEF StreamLines, StreamStates
<1> HIDE DEF h
<1>3. StreamTypes'
  BY <1>1 DEF FollowInv, StreamTypes
<1>4. line' = h /\ matched /\ result' \in {"called", "running"}
  <2>1. h.color \in Stream!Handles /\ h.size \in Shown(console, h.color)
    BY <1>1, <1>2 DEF StreamSamples
  <2> QED
    BY <2>1 DEF FollowInv, CheckTypes, h
<1>5. CheckTypes'
  <2>1. result = "running" => line.size \in Nat
    BY DEF FollowInv, CheckTypes, StreamSamples
  <2>2. \A c \in DOMAIN seq_num' : seq_num'[c] \in Nat
    BY <2>1 DEF FollowInv, CheckTypes
  <2>3. result' # "running" => DOMAIN seq_num' = {}
    BY DEF FollowInv, CheckTypes
  <2> QED
    BY <1>2, <1>4, <2>2, <2>3 DEF CheckTypes
<1>6. ASSUME NEW c \in Stream!Handles
      PROVE  ChainInv(c)' /\ WrittenInv(c)'
  <2> DEFINE K == Known(c)
             P == Pending(c)
             L == Shown(console, c)
             E == Cached(cache, c)
             w == Written(c)
             L1 == Shown(console', c)
  <2>1. InChain(K, P, L, E) /\ UpTo(K \cup P \cup L \cup E, w)
    BY DEF FollowInv, ChainInv, WrittenInv, Underway
  <2>2. check = "reliability" => NoGap(K \cup P \cup L \cup E, w)
    BY DEF FollowInv, WrittenInv, Underway
  <2>3. L = mine(c) \cup L1 /\ Below(mine(c), L1)
    BY <1>1
  <2>4. w \in Int
    BY DEF FollowInv, StreamTypes, Written
  <2>5. Pending(c)' = mine(c)
    BY <1>4 DEF Pending
  <2>6. Known(c)' = IF P = {} THEN K ELSE P
    <3>1. CASE result = "waiting"
      BY <3>1 DEF Known, Pending
    <3>2. CASE result = "running"
      BY <3>2 DEF Known, Pending
    <3> QED
      BY <3>1, <3>2
  <2>7. Written(c)' = w
    BY DEF Written
  <2> HIDE DEF K, P, L, E, w, L1, mine
  <2> DEFINE K1 == Known(c)'
             P1 == Pending(c)'
  <2>8. K1 = (IF P = {} THEN K ELSE P) /\ L = P1 \cup L1 /\ Below(P1, L1)
    BY <2>3, <2>5, <2>6
  <2> HIDE DEF K1, P1
  <2>9. /\ InChain(K1, P1, L1, E) /\ UpTo(K1 \cup P1 \cup L1 \cup E, w)
        /\ NoGap(K \cup P \cup L \cup E, w) => NoGap(K1 \cup P1 \cup L1 \cup E, w)
    BY <2>1, <2>4, <2>8, Advance
  <2>10. ChainInv(c)'
    BY <2>9 DEF ChainInv, K1, P1, L1, E
  <2>11. WrittenInv(c)'
    BY <2>2, <2>7, <2>9 DEF WrittenInv, Underway, K1, P1, L1, E
  <2> QED
    BY <2>10, <2>11
<1> QED
  BY <1>1, <1>3, <1>5, <1>6 DEF FollowInv

LEMMA StreamCheckStep ==
  ASSUME Stream!ShapeMainAssumption, StreamInv, Stream!Check
  PROVE  StreamInv'
<1>1. UNCHANGED <<options, pub_pc, j, shapesize, matched, cache, instance_state>>
  BY DEF Stream!Check, Stream!publisher, Stream!reader
<1>2. CASE result \in {"OK", "DATA_NOT_RECEIVED"}
  <2>1. result' = result
    BY <1>2 DEF Stream!Check, Stream!ReadLine, Stream!FirstSample, Stream!Waiting,
                Stream!Chk!NextLine, Stream!Chk!BasicCheck, Stream!Chk!OutOfOrder,
                Stream!Chk!NoMoreData, Stream!checkVars
  <2> QED
    BY <1>2, <2>1 DEF StreamInv
<1>3. CASE result \in {"waiting", "called", "running"} /\ FollowInv
  <2>1. CASE Stream!ReadLine /\ Head(console).kind # "sample"
    <3>1. console # << >> /\ console' = Tail(console) /\ UNCHANGED Stream!checkVars
      BY <2>1 DEF Stream!ReadLine
    <3>2. result' = result
      BY <3>1 DEF Stream!checkVars
    <3> QED
      BY <1>1, <1>3, <2>1, <3>1, <3>2, SkipStep DEF StreamInv
  <2>2. CASE Stream!ReadLine /\ Head(console).kind = "sample"
    <3>1. console # << >> /\ console' = Tail(console)
      BY <2>2 DEF Stream!ReadLine
    <3>2. CASE Stream!FirstSample
      <4>1. /\ result = "waiting" /\ result' = "called" /\ line' = Head(console)
            /\ UNCHANGED <<check, seq_num>>
        BY <3>2 DEF Stream!FirstSample, Stream!Waiting
      <4>2. FollowInv'
        BY <1>1, <1>3, <2>2, <3>1, <4>1, MatchStep
      <4> QED
        BY <4>1, <4>2 DEF StreamInv
    <3>3. CASE Stream!Chk!NextLine(Head(console))
      <4>1. result = "running" /\ line' = Head(console) /\ check' = check
            /\ (result' = "OK" \/ result' = "running")
        BY <3>3 DEF Stream!Chk!NextLine
      <4>2. line.kind = "sample"
        BY <1>3, <4>1 DEF FollowInv, CheckTypes, StreamSamples
      <4>3. seq_num' = [c \in DOMAIN seq_num \cup {line.color} |->
                          IF c = line.color THEN line.size ELSE seq_num[c]]
        BY <3>3, <4>2 DEF Stream!Chk!NextLine, Stream!Chk!Note, Stream!Chk!Instances
      <4>4. CASE result' = "running"
        <5>1. FollowInv'
          BY <1>1, <1>3, <2>2, <3>1, <4>1, <4>3, <4>4, MatchStep
        <5> QED
          BY <4>4, <5>1 DEF StreamInv
      <4> QED
        BY <4>1, <4>4 DEF StreamInv
    <3> QED
      BY <2>2, <3>2, <3>3 DEF Stream!ReadLine
  <2>3. CASE console' = console /\ Stream!Chk!BasicCheck
    <3>1. /\ result = "called" /\ UNCHANGED <<check, line, seq_num>>
          /\ result' = IF line.kind # "sample" THEN "DATA_NOT_RECEIVED"
                       ELSE IF line.size = 0 THEN "DATA_NOT_CORRECT" ELSE "running"
      BY <2>3 DEF Stream!Chk!BasicCheck
    <3>2. line.kind = "sample" /\ line.size # 0
      BY <1>3, <3>1 DEF FollowInv, CheckTypes, StreamSamples
    <3>3. result' = "running"
      BY <3>1, <3>2
    <3>4. StreamTypes' /\ CheckTypes'
      BY <1>1, <1>3, <2>3, <3>1, <3>3 DEF FollowInv, StreamTypes, CheckTypes
    <3>5. ASSUME NEW c \in Stream!Handles
          PROVE  ChainInv(c)' /\ WrittenInv(c)'
      <4>1. Known(c)' = Known(c) /\ Pending(c)' = Pending(c) /\ Written(c)' = Written(c)
        BY <1>1, <3>1, <3>3 DEF Known, Pending, Written
      <4>2. ChainInv(c) /\ WrittenInv(c)
        BY <1>3 DEF FollowInv
      <4> QED
        BY <1>1, <2>3, <3>1, <4>1, <4>2 DEF ChainInv, WrittenInv, Underway
    <3> QED
      BY <1>1, <1>3, <2>3, <3>3, <3>4, <3>5 DEF StreamInv, FollowInv
  <2>4. CASE Stream!Chk!OutOfOrder
    BY <1>3, <2>4, NothingBreaks DEF Stream!Chk!OutOfOrder
  <2>5. CASE Stream!Chk!NoMoreData
    BY <2>5 DEF Stream!Chk!NoMoreData, StreamInv
  <2> QED
    BY <2>1, <2>2, <2>3, <2>4, <2>5 DEF Stream!Check
<1> QED
  BY <1>2, <1>3 DEF StreamInv

\* An instance gets the next number, once per iteration.
LEMMA NextNumber ==
  ASSUME Stream!ShapeMainAssumption, StreamTypes, Stream!Write
  PROVE  /\ j' \in Stream!Handles /\ shapesize' \in Nat \ {0}
         /\ shapesize' = Written(j) + 1 /\ Written(j)' \in Int
         /\ \A c \in Stream!Handles :
              Written(c) \in Int /\ Written(c)' = IF c = j THEN Written(c) + 1 ELSE Written(c)
<1> DEFINE K == Cardinality(Colors)
<1>1. K \in Nat /\ K > 0
  BY DEF Stream!ShapeMainAssumption
<1>2. j \in 0..(K - 1) /\ shapesize \in Nat /\ (j # 0 => shapesize > 0)
  BY DEF StreamTypes, Stream!Handles
<1>3. shapesize' = IF j = 0 THEN shapesize + 1 ELSE shapesize
  BY DEF Stream!Write, Stream!NextSize
<1>4. j' = IF j = K - 1 THEN 0 ELSE j + 1
  BY DEF Stream!Write, Stream!LastInstance
<1> HIDE DEF K
<1>5. j' \in 0..(K - 1) /\ shapesize' \in Nat \ {0}
  BY <1>1, <1>2, <1>3, <1>4
<1>6. shapesize' = Written(j) + 1
  BY <1>1, <1>2, <1>3 DEF Written
<1>7. ASSUME NEW c \in 0..(K - 1)
      PROVE  Written(c) \in Int /\ Written(c)' = IF c = j THEN Written(c) + 1 ELSE Written(c)
  BY <1>1, <1>2, <1>3, <1>4 DEF Written
<1>8. Stream!Handles = 0..(K - 1)
  BY DEF Stream!Handles, K
<1> QED
  BY <1>2, <1>5, <1>6, <1>7, <1>8

\* A sample that is received is newer than everything underway.
LEMMA Grow ==
  ASSUME NEW K, NEW P, NEW L, NEW E, NEW w \in Int, NEW E1,
         InChain(K, P, L, E), UpTo(K \cup P \cup L \cup E, w),
         w + 1 \in Nat, E1 \subseteq E \cup {w + 1}
  PROVE  /\ InChain(K, P, L, E1) /\ UpTo(K \cup P \cup L \cup E1, w + 1)
         /\ E1 = E \cup {w + 1} /\ NoGap(K \cup P \cup L \cup E, w)
              => NoGap(K \cup P \cup L \cup E1, w + 1)
<1>1. Below(K, P) /\ Below(K, L) /\ Below(P, L)
  BY DEF InChain
<1>2. \A a \in K \cup P \cup L : a < w + 1 /\ \A b \in E : a < b
  BY DEF InChain, UpTo, Below
<1>3. InChain(K, P, L, E1)
  BY <1>1, <1>2 DEF InChain, Below
<1>4. UpTo(K \cup P \cup L \cup E1, w + 1)
  BY DEF UpTo
<1>5. ASSUME E1 = E \cup {w + 1}, NoGap(K \cup P \cup L \cup E, w),
             NEW a \in K \cup P \cup L \cup E1, NEW s \in Nat, a <= s, s <= w + 1
      PROVE  s \in K \cup P \cup L \cup E1
  <2>1. CASE s = w + 1
    BY <1>5, <2>1
  <2>2. CASE s # w + 1
    <3>1. s <= w /\ a # w + 1
      BY <1>5, <2>2
    <3>2. a \in K \cup P \cup L \cup E
      BY <1>5, <3>1
    <3> QED
      BY <1>5, <3>1, <3>2 DEF NoGap
  <2> QED
    BY <2>1, <2>2
<1> QED
  BY <1>3, <1>4, <1>5 DEF NoGap

LEMMA StreamWriteStep ==
  ASSUME Stream!ShapeMainAssumption, FollowInv, Stream!Write, UNCHANGED Stream!checkVars
  PROVE  FollowInv'
<1> DEFINE z == shapesize'
           entry == [color |-> j, size |-> z, valid |-> TRUE]
           more == Append(cache, entry)
           kept == Stream!KeepLast(more, j)
<1>1. UNCHANGED <<check, line, seq_num, result>>
  BY DEF Stream!checkVars
<1>2. UNCHANGED <<options, pub_pc, matched, console>>
  BY DEF Stream!Write, Stream!subscriber
<1>3. /\ j' \in Stream!Handles /\ z \in Nat \ {0} /\ z = Written(j) + 1
      /\ \A c \in Stream!Handles :
           Written(c) \in Int /\ Written(c)' = IF c = j THEN Written(c) + 1 ELSE Written(c)
  BY NextNumber DEF FollowInv
<1>4. j \in Stream!Handles /\ cache \in Seq(StreamEntries) /\ Ordered(cache, EntryOrder)
      /\ instance_state \in [Stream!Handles -> States]
  BY DEF FollowInv, StreamTypes
<1>5. \/ /\ matched /\ cache' = kept
         /\ instance_state' = [instance_state EXCEPT ![j] = "ALIVE"]
      \/ (matched => ~options.reliable) /\ UNCHANGED <<cache, instance_state>>
  BY DEF Stream!Write, Stream!Receive, Stream!reader
<1>6. entry \in StreamEntries /\ entry.color = j /\ entry.size = z /\ entry.valid
  BY <1>3, <1>4 DEF StreamEntries
<1>7. \A c \in Stream!Handles :
        InChain(Known(c), Pending(c), Shown(console, c), Cached(cache, c)) /\ WrittenInv(c)
  BY DEF FollowInv, ChainInv
<1> HIDE DEF entry, z
<1>8. more \in Seq(StreamEntries) /\ \A x : x \in Elements(more) <=> x \in Elements(cache) \/ x = entry
  <2>1. Len(cache) \in Nat /\ DOMAIN cache = 1..Len(cache)
    BY <1>4
  <2>2. /\ more \in Seq(StreamEntries) /\ DOMAIN more = 1..(Len(cache) + 1)
        /\ more[Len(cache) + 1] = entry /\ \A i \in 1..Len(cache) : more[i] = cache[i]
    BY <1>4, <1>6
  <2> HIDE DEF more
  <2>3. 1..(Len(cache) + 1) = 1..Len(cache) \cup {Len(cache) + 1}
    BY <2>1
  <2> QED
    BY <2>1, <2>2, <2>3 DEF Elements
<1>9. Ordered(more, EntryOrder)
  <2>1. /\ Len(cache) \in Nat /\ DOMAIN cache = 1..Len(cache)
        /\ \A i \in 1..Len(cache) : cache[i] \in StreamEntries /\ cache[i] \in Elements(cache)
    BY <1>4, ElementIn
  <2>2. /\ DOMAIN more = 1..(Len(cache) + 1)
        /\ more[Len(cache) + 1] = entry /\ \A i \in 1..Len(cache) : more[i] = cache[i]
    BY <1>4, <1>6
  <2> HIDE DEF more
  <2> SUFFICES ASSUME NEW i \in 1..(Len(cache) + 1), NEW k \in 1..(Len(cache) + 1), i < k
               PROVE  <<more[i], more[k]>> \in EntryOrder
    BY <2>2 DEF Ordered
  <2>3. i \in 1..Len(cache) /\ (k \in 1..Len(cache) \/ k = Len(cache) + 1)
    BY <2>1
  <2>4. CASE k \in 1..Len(cache)
    BY <1>4, <2>1, <2>2, <2>3, <2>4 DEF Ordered
  <2>5. CASE k = Len(cache) + 1
    <3>1. more[i] = cache[i] /\ more[k] = entry
      BY <2>2, <2>3, <2>5
    <3>2. ASSUME cache[i].valid, cache[i].color = j
          PROVE  cache[i].size < z
      <4>1. cache[i].size \in Cached(cache, j)
        BY <2>1, <2>3, <3>2, SizeCached
      <4>2. cache[i].size \in Nat /\ cache[i].size <= Written(j)
        BY <1>4, <1>7, <4>1 DEF WrittenInv, UpTo, Underway
      <4> QED
        BY <1>3, <1>4, <4>2
    <3> QED
      BY <1>6, <2>1, <2>3, <3>1, <3>2 DEF EntryOrder
  <2> QED
    BY <2>3, <2>4, <2>5
<1> HIDE DEF more
<1>10. /\ kept \in Seq(StreamEntries) /\ Ordered(kept, EntryOrder)
       /\ Elements(kept) \subseteq Elements(more)
       /\ options.history_depth = 0 => kept = more
  BY <1>8, <1>9, KeepStep
<1> HIDE DEF kept
<1>11. cache' \in Seq(StreamEntries) /\ Ordered(cache', EntryOrder)
  BY <1>4, <1>5, <1>10
<1>12. instance_state' \in [Stream!Handles -> States]
  BY <1>4, <1>5 DEF States
<1>13. StreamTypes'
  BY <1>1, <1>2, <1>3, <1>11, <1>12 DEF FollowInv, StreamTypes, z
<1>14. CheckTypes'
  BY <1>1, <1>2, <1>5 DEF FollowInv, CheckTypes
<1>15. ASSUME NEW c \in Stream!Handles
       PROVE  ChainInv(c)' /\ WrittenInv(c)'
  <2> DEFINE K == Known(c)
             P == Pending(c)
             L == Shown(console, c)
             E == Cached(cache, c)
             w == Written(c)
             E1 == Cached(cache', c)
             w1 == Written(c)'
  <2>1. Known(c)' = K /\ Pending(c)' = P
    BY <1>1 DEF Known, Pending
  <2>2. InChain(K, P, L, E) /\ UpTo(K \cup P \cup L \cup E, w)
    BY <1>7 DEF WrittenInv, Underway
  <2>3. check = "reliability" => NoGap(K \cup P \cup L \cup E, w)
    BY <1>7 DEF WrittenInv, Underway
  <2>4. SUFFICES /\ InChain(K, P, L, E1) /\ UpTo(K \cup P \cup L \cup E1, w1)
                 /\ check = "reliability" => NoGap(K \cup P \cup L \cup E1, w1)
    BY <1>1, <1>2, <2>1 DEF ChainInv, WrittenInv, Underway
  <2>5. CASE c # j
    <3>1. w1 = w
      BY <1>3, <2>5
    <3>2. ASSUME NEW x
          PROVE  x \in E1 => x \in E
      BY <1>5, <1>6, <1>8, <1>10, <2>5, SizeCached
    <3>3. ASSUME check = "reliability", NEW x
          PROVE  x \in E => x \in E1
      <4>1. options.history_depth = 0
        BY <3>3 DEF FollowInv, StreamTypes
      <4> QED
        BY <1>5, <1>8, <1>10, <4>1, SizeCached
    <3>4. E1 \subseteq E /\ (check = "reliability" => E1 = E)
      BY <3>2, <3>3
    <3> HIDE DEF K, P, L, E, w, E1, w1
    <3> QED
      BY <2>2, <2>3, <3>1, <3>4 DEF InChain, UpTo, Below
  <2>6. CASE c = j
    <3>1. w1 = w + 1 /\ w \in Int /\ z = w + 1 /\ w + 1 \in Nat
      BY <1>3, <2>6
    <3>2. ASSUME NEW x
          PROVE  x \in E1 => x \in E \/ x = z
      BY <1>5, <1>6, <1>8, <1>10, <2>6, SizeCached
    <3>3. E1 \subseteq E \cup {w + 1}
      BY <3>1, <3>2
    <3>4. ASSUME check = "reliability", matched
          PROVE  E1 = E \cup {w + 1}
      <4>1. options.reliable /\ options.history_depth = 0
        BY <3>4 DEF FollowInv, StreamTypes
      <4>2. cache' = more
        BY <1>5, <1>10, <3>4, <4>1
      <4>3. ASSUME NEW x
            PROVE  x \in E \/ x = z => x \in E1
        BY <1>6, <1>8, <2>6, <4>2, SizeCached
      <4> QED
        BY <3>1, <3>3, <4>3
    <3>5. ~matched => K = {} /\ P = {} /\ L = {} /\ E1 = {}
      <4> SUFFICES ASSUME ~matched PROVE K = {} /\ P = {} /\ L = {} /\ E1 = {}
        OBVIOUS
      <4>1. cache' = cache /\ result = "waiting" /\ DOMAIN seq_num = {} /\ L = {} /\ E = {}
        BY <1>5 DEF FollowInv, CheckTypes
      <4> QED
        BY <4>1 DEF Known, Pending
    <3> HIDE DEF K, P, L, E, w, E1, w1
    <3>6. /\ InChain(K, P, L, E1) /\ UpTo(K \cup P \cup L \cup E1, w1)
          /\ E1 = E \cup {w + 1} /\ NoGap(K \cup P \cup L \cup E, w)
               => NoGap(K \cup P \cup L \cup E1, w1)
      BY <2>2, <3>1, <3>3, Grow
    <3>7. ~matched => NoGap(K \cup P \cup L \cup E1, w1)
      BY <3>5 DEF NoGap
    <3> QED
      BY <2>3, <3>4, <3>6, <3>7
  <2> QED
    BY <2>5, <2>6
<1>16. Ordered(console', LineOrder)
  BY <1>2 DEF FollowInv
<1> QED
  BY <1>11, <1>13, <1>14, <1>15, <1>16 DEF FollowInv

LEMMA StreamTakeStep ==
  ASSUME FollowInv, Stream!TakeSamples, UNCHANGED Stream!checkVars
  PROVE  FollowInv'
<1>1. UNCHANGED <<check, line, seq_num, result>>
  BY DEF Stream!checkVars
<1>2. UNCHANGED <<options, pub_pc, j, shapesize, matched, instance_state>>
  BY DEF Stream!TakeSamples, Stream!publisher
<1>3. \A c \in Stream!Handles : ChainInv(c) /\ WrittenInv(c)
  BY DEF FollowInv
<1>4. /\ cache' \in Seq(StreamEntries) /\ console' \in Seq(StreamLines)
      /\ Ordered(cache', EntryOrder) /\ Ordered(console', LineOrder)
      /\ \A c \in Stream!Handles :
           \/ Shown(console', c) = Shown(console, c) /\ Cached(cache', c) = Cached(cache, c)
           \/ /\ Shown(console', c) = Shown(console, c) \cup Cached(cache, c)
              /\ Cached(cache', c) = {}
  <2>1. \A c \in Stream!Handles : \A a \in Shown(console, c), b \in Cached(cache, c) : a < b
    BY <1>3 DEF ChainInv, InChain, Below
  <2> QED
    BY <2>1, TakeStep DEF FollowInv, StreamTypes
<1>5. StreamTypes'
  BY <1>1, <1>2, <1>4 DEF FollowInv, StreamTypes
<1>6. CheckTypes'
  BY <1>1, <1>2, <1>4 DEF FollowInv, CheckTypes
<1>7. ASSUME NEW c \in Stream!Handles
      PROVE  ChainInv(c)' /\ WrittenInv(c)'
  <2> DEFINE K == Known(c)
             P == Pending(c)
             L == Shown(console, c)
             E == Cached(cache, c)
             L1 == Shown(console', c)
             E1 == Cached(cache', c)
  <2>1. Known(c)' = K /\ Pending(c)' = P /\ Written(c)' = Written(c)
    BY <1>1, <1>2 DEF Known, Pending, Written
  <2>2. InChain(K, P, L, E)
    BY <1>3 DEF ChainInv
  <2>3. (L1 = L /\ E1 = E) \/ (L1 = L \cup E /\ E1 = {})
    BY <1>4
  <2> HIDE DEF K, P, L, E, L1, E1
  <2>4. InChain(K, P, L1, E1) /\ K \cup P \cup L1 \cup E1 = K \cup P \cup L \cup E
    BY <2>2, <2>3 DEF InChain, Below
  <2>5. Underway(c)' = Underway(c)
    BY <2>1, <2>4 DEF Underway, K, P, L, E, L1, E1
  <2>6. ChainInv(c)'
    BY <2>1, <2>4 DEF ChainInv, K, P, L, E, L1, E1
  <2>7. WrittenInv(c)'
    BY <1>1, <1>3, <2>1, <2>5 DEF WrittenInv
  <2> QED
    BY <2>6, <2>7
<1> QED
  BY <1>4, <1>5, <1>6, <1>7 DEF FollowInv

\* The steps that move no sample.
LEMMA StreamIdleStep ==
  ASSUME FollowInv, UNCHANGED Stream!checkVars,
         UNCHANGED <<options, j, shapesize, console>>,
         pub_pc' # "final", matched => matched',
         cache' \in Seq(StreamEntries), instance_state' \in [Stream!Handles -> States],
         Ordered(cache', EntryOrder),
         \A c \in Stream!Handles : Cached(cache', c) = Cached(cache, c)
  PROVE  FollowInv'
<1>1. UNCHANGED <<check, line, seq_num, result>>
  BY DEF Stream!checkVars
<1>2. StreamTypes'
  BY <1>1 DEF FollowInv, StreamTypes
<1>3. CheckTypes'
  BY <1>1 DEF FollowInv, CheckTypes
<1>4. ASSUME NEW c \in Stream!Handles
      PROVE  ChainInv(c)' /\ WrittenInv(c)'
  <2>1. /\ Known(c)' = Known(c) /\ Pending(c)' = Pending(c) /\ Written(c)' = Written(c)
        /\ Cached(cache', c) = Cached(cache, c)
    BY <1>1 DEF Known, Pending, Written
  <2>2. ChainInv(c) /\ WrittenInv(c)
    BY DEF FollowInv
  <2> QED
    BY <1>1, <2>1, <2>2 DEF ChainInv, WrittenInv, Underway
<1> QED
  BY <1>2, <1>3, <1>4 DEF FollowInv

LEMMA StreamApplicationsStep ==
  ASSUME Stream!ShapeMainAssumption, FollowInv, Stream!Applications
  PROVE  FollowInv'
<1>1. UNCHANGED Stream!checkVars
  BY DEF Stream!Applications
<1>2. StreamTypes /\ Ordered(cache, EntryOrder)
  BY DEF FollowInv
<1>3. CASE Stream!Match
  <2>1. UNCHANGED <<options, pub_pc, j, shapesize, cache, instance_state, console>> /\ matched'
    BY <1>3 DEF Stream!Match, Stream!publisher, Stream!reader, Stream!subscriber
  <2> QED
    BY <1>1, <1>2, <2>1, StreamIdleStep DEF StreamTypes
<1>4. CASE Stream!Write
  BY <1>1, <1>4, StreamWriteStep
<1>5. CASE Stream!LeaveLoop
  <2>1. /\ UNCHANGED <<options, j, shapesize, matched, cache, instance_state, console>>
        /\ pub_pc' # "final"
    BY <1>2, <1>5 DEF Stream!LeaveLoop, Stream!reader, Stream!subscriber, StreamTypes
  <2> QED
    BY <1>1, <1>2, <2>1, StreamIdleStep DEF StreamTypes
<1>6. CASE Stream!FinishInstance
  BY <1>2, <1>6 DEF Stream!FinishInstance, StreamTypes
<1>7. CASE Stream!DeleteWriters
  <2>1. /\ UNCHANGED <<options, j, shapesize, matched, console>> /\ pub_pc' # "final"
        /\ Stream!Bury(Stream!Handles, "NO_WRITERS")
    BY <1>7 DEF Stream!DeleteWriters, Stream!subscriber
  <2>2. /\ cache' \in Seq(StreamEntries) /\ instance_state' \in [Stream!Handles -> States]
        /\ Ordered(cache', EntryOrder)
        /\ \A c \in Stream!Handles : Cached(cache', c) = Cached(cache, c)
    BY <1>2, <2>1, BuryStep DEF StreamTypes
  <2> QED
    BY <1>1, <2>1, <2>2, StreamIdleStep
<1>8. CASE Stream!TakeSamples
  BY <1>1, <1>8, StreamTakeStep
<1>9. CASE Stream!EndPass
  <2>1. UNCHANGED <<options, pub_pc, j, shapesize, matched, cache, instance_state, console>>
    BY <1>9 DEF Stream!EndPass, Stream!publisher, Stream!reader
  <2> QED
    BY <1>1, <1>2, <2>1, StreamIdleStep DEF StreamTypes
<1>10. ASSUME NEW app, Stream!Interrupt(app)
       PROVE  FollowInv'
  <2>1. UNCHANGED <<options, pub_pc, j, shapesize, matched, cache, instance_state, console>>
    BY <1>10 DEF Stream!Interrupt, Stream!publisher, Stream!reader, Stream!subscriber
  <2> QED
    BY <1>1, <1>2, <2>1, StreamIdleStep DEF StreamTypes
<1> QED
  BY <1>3, <1>4, <1>5, <1>6, <1>7, <1>8, <1>9, <1>10
     DEF Stream!Applications, Stream!Publisher, Stream!Subscriber

LEMMA StreamInitStep ==
  ASSUME Stream!ShapeMainAssumption, Stream!Init
  PROVE  StreamInv
<1>1. Cardinality(Colors) \in Nat /\ Cardinality(Colors) > 0
  BY DEF Stream!ShapeMainAssumption
<1>2. 0 \in Stream!Handles
  BY <1>1 DEF Stream!Handles
<1>3. /\ j = 0 /\ shapesize = 0 /\ cache = << >> /\ console = << >> /\ result = "waiting"
      /\ pub_pc = "loop" /\ DOMAIN seq_num = {} /\ options \in Stream!ShapeOptions
      /\ instance_state = [c \in Stream!Handles |-> "unknown"]
      /\ check = IF options.reliable THEN "reliability" ELSE "order"
      /\ options.reliable => options.history_depth = 0
  BY DEF Stream!Init, Stream!AppInit
<1>4. options.final_instance_state = "none"
  BY <1>3 DEF Stream!ShapeOptions
<1>5. StreamTypes
  BY <1>2, <1>3, <1>4 DEF StreamTypes, States
<1>6. Elements(<< >>) = {} /\ \A R : Ordered(<< >>, R)
  BY DEF Elements, Ordered
<1>7. \A c \in Stream!Handles :
        Shown(console, c) = {} /\ Cached(cache, c) = {} /\ Known(c) = {} /\ Pending(c) = {}
  BY <1>3, <1>6 DEF Shown, Cached, Known, Pending
<1>8. CheckTypes
  BY <1>3, <1>7 DEF CheckTypes
<1>9. \A c \in Stream!Handles : ChainInv(c) /\ WrittenInv(c)
  BY <1>7 DEF ChainInv, InChain, Below, WrittenInv, UpTo, NoGap, Underway
<1> QED
  BY <1>3, <1>5, <1>6, <1>8, <1>9 DEF StreamInv, FollowInv

LEMMA StreamNextStep ==
  ASSUME Stream!ShapeMainAssumption, StreamInv, Stream!Next
  PROVE  StreamInv'
<1>1. CASE Stream!Check
  BY <1>1, StreamCheckStep
<1>2. CASE Stream!Applications
  <2>1. result' = result
    BY <1>2 DEF Stream!Applications, Stream!checkVars
  <2> QED
    BY <1>2, <2>1, StreamApplicationsStep DEF StreamInv
<1> QED
  BY <1>1, <1>2 DEF Stream!Next

\* A conforming pair is never blamed (test_order_w_instances and
\* test_reliability_no_losses_w_instances with run_publisher and
\* run_subscriber): whenever the applications match, however the passes of the
\* subscriber cut the iterations of the publisher into pieces and whatever
\* best-effort delivery and KEEP_LAST lose, the function never returns
\* DATA_NOT_CORRECT, for any number of instances and of iterations.
THEOREM StreamNotBlamed == TestSpec => []ConformingPasses
<1> DEFINE I == which = "stream" => StreamInv
<1>1. Stream!ShapeMainAssumption
  BY ConsoleTestsAssumption DEF Stream!StreamAssumption
<1>2. TestInit => I
  BY <1>1, StreamInitStep DEF TestInit
<1>3. I /\ [TestNext]_allVars => I'
  <2> SUFFICES ASSUME I, [TestNext]_allVars, which' = "stream" PROVE StreamInv'
    OBVIOUS
  <2>1. CASE TestNext
    <3>1. which = "stream" /\ Stream!Next
      BY <2>1 DEF TestNext
    <3> QED
      BY <1>1, <3>1, StreamNextStep
  <2>2. CASE UNCHANGED allVars
    <3>1. UNCHANGED <<which, options, pub_pc, j, shapesize, matched, cache, instance_state,
                      console, check, line, seq_num, result>>
      BY <2>2 DEF allVars, appVars, vars
    <3>2. FollowInv => FollowInv'
      BY <3>1 DEF FollowInv, StreamTypes, CheckTypes, ChainInv, WrittenInv, Underway, Known,
                  Pending, Written
    <3> QED
      BY <3>1, <3>2 DEF StreamInv
  <2> QED
    BY <2>1, <2>2
<1>4. I => ConformingPasses
  BY DEF StreamInv, ConformingPasses, Stream!ConformingPasses
<1> HIDE DEF I
<1> QED
  BY <1>2, <1>3, <1>4, PTL DEF TestSpec

=============================================================================
