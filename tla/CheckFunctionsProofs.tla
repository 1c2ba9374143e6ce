------------------------- MODULE CheckFunctionsProofs -------------------------
(***************************************************************************)
(* Proofs about the check functions of CheckFunctions for any instances,   *)
(* topics, values, gaps, numbers of samples and tolerances: whatever the   *)
(* applications print, the ReturnCode says what the samples looked at      *)
(* show.  Each function has its own inductive invariant, which relates its *)
(* local variables to the history of what was printed.                     *)
(***************************************************************************)
EXTENDS CheckFunctions, FiniteSetTheorems, SequenceTheorems, WellFoundedInduction, TLAPS

(***************************************************************************)
(* Counting in a sequence to which one element is appended                 *)
(***************************************************************************)

\* The neighbours that are equal and those that differ, by the first position.
Equal(s) == {i \in 1..(Len(s) - 1) : s[i] = s[i + 1]}
Different(s) == {i \in 1..(Len(s) - 1) : s[i] # s[i + 1]}

\* Where an element stands.
Places(s, x) == {k \in DOMAIN s : s[k] = x}

\* The modules that are instantiated count with the same operator.
LEMMA SameCardinality ==
  ASSUME NEW S
  PROVE  /\ Receivers!Cardinality(S) = Cardinality(S)
         /\ Ordered!Cardinality(S) = Cardinality(S)
         /\ Coherent!Cardinality(S) = Cardinality(S)
  BY DEF Receivers!Cardinality, Ordered!Cardinality, Coherent!Cardinality, Cardinality

LEMMA Counted ==
  ASSUME NEW n \in Nat, NEW T, T \subseteq 1..n
  PROVE  /\ IsFiniteSet(T) /\ Cardinality(T) \in Nat
         /\ Cardinality(T \cup {n + 1}) = Cardinality(T) + 1
<1>1. IsFiniteSet(T)
  <2>1. IsFiniteSet(1..n)
    BY FS_Interval
  <2> QED
    BY <2>1, FS_Subset
<1>2. Cardinality(T) \in Nat
  BY <1>1, FS_CardinalityType
<1>3. n + 1 \notin T
  OBVIOUS
<1> QED
  BY <1>1, <1>2, <1>3, FS_AddElement

LEMMA DifferentAppend ==
  ASSUME NEW S, NEW s \in Seq(S), NEW x \in S
  PROVE  /\ Cardinality(Different(s)) \in Nat
         /\ Cardinality(Different(Append(s, x))) =
              Cardinality(Different(s)) + (IF s # <<>> /\ s[Len(s)] # x THEN 1 ELSE 0)
<1> DEFINE n == Len(s)
           t == Append(s, x)
<1>1. /\ n \in Nat /\ Len(t) = n + 1 /\ t[n + 1] = x /\ (s = <<>> <=> n = 0)
      /\ \A i \in 1..n : t[i] = s[i]
  BY AppendProperties, EmptySeq
<1> HIDE DEF n, t
<1>2. CASE s = <<>>
  <2>1. Different(s) = {} /\ Different(t) = {}
    BY <1>1, <1>2 DEF Different, n
  <2> QED
    BY <2>1, <1>2, FS_EmptySet DEF t
<1>3. CASE s # <<>>
  <2>1. n - 1 \in Nat /\ (n - 1) + 1 = n /\ Different(s) \subseteq 1..(n - 1)
    BY <1>1, <1>3 DEF Different, n
  <2>2. /\ Cardinality(Different(s)) \in Nat
        /\ Cardinality(Different(s) \cup {(n - 1) + 1}) = Cardinality(Different(s)) + 1
    BY <2>1, Counted
  <2>3. Different(t) = IF s[n] # x THEN Different(s) \cup {n} ELSE Different(s)
    <3>1. Different(t) = {i \in 1..n : t[i] # t[i + 1]}
      BY <1>1 DEF Different
    <3>2. Different(s) = {i \in 1..(n - 1) : s[i] # s[i + 1]}
      BY DEF Different, n
    <3> QED
      BY <3>1, <3>2, <1>1, <2>1
  <2> QED
    BY <2>1, <2>2, <2>3, <1>3 DEF n, t
<1> QED
  BY <1>2, <1>3

LEMMA EqualAppend ==
  ASSUME NEW S, NEW s \in Seq(S), NEW x \in S
  PROVE  /\ Cardinality(Equal(s)) \in Nat
         /\ Cardinality(Equal(Append(s, x))) =
              Cardinality(Equal(s)) + (IF s # <<>> /\ s[Len(s)] = x THEN 1 ELSE 0)
<1> DEFINE n == Len(s)
           t == Append(s, x)
<1>1. /\ n \in Nat /\ Len(t) = n + 1 /\ t[n + 1] = x /\ (s = <<>> <=> n = 0)
      /\ \A i \in 1..n : t[i] = s[i]
  BY AppendProperties, EmptySeq
<1> HIDE DEF n, t
<1>2. CASE s = <<>>
  <2>1. Equal(s) = {} /\ Equal(t) = {}
    BY <1>1, <1>2 DEF Equal, n
  <2> QED
    BY <2>1, <1>2, FS_EmptySet DEF t
<1>3. CASE s # <<>>
  <2>1. n - 1 \in Nat /\ (n - 1) + 1 = n /\ Equal(s) \subseteq 1..(n - 1)
    BY <1>1, <1>3 DEF Equal, n
  <2>2. /\ Cardinality(Equal(s)) \in Nat
        /\ Cardinality(Equal(s) \cup {(n - 1) + 1}) = Cardinality(Equal(s)) + 1
    BY <2>1, Counted
  <2>3. Equal(t) = IF s[n] = x THEN Equal(s) \cup {n} ELSE Equal(s)
    <3>1. Equal(t) = {i \in 1..n : t[i] = t[i + 1]}
      BY <1>1 DEF Equal
    <3>2. Equal(s) = {i \in 1..(n - 1) : s[i] = s[i + 1]}
      BY DEF Equal, n
    <3> QED
      BY <3>1, <3>2, <1>1, <2>1
  <2> QED
    BY <2>1, <2>2, <2>3, <1>3 DEF n, t
<1> QED
  BY <1>2, <1>3

LEMMA PlacesAppend ==
  ASSUME NEW S, NEW s \in Seq(S), NEW x \in S, NEW y
  PROVE  /\ Cardinality(Places(s, y)) \in Nat
         /\ Cardinality(Places(Append(s, x), y)) =
              Cardinality(Places(s, y)) + (IF x = y THEN 1 ELSE 0)
<1> DEFINE n == Len(s)
           t == Append(s, x)
<1>1. /\ n \in Nat /\ Len(t) = n + 1 /\ t[n + 1] = x
      /\ DOMAIN s = 1..n /\ DOMAIN t = 1..(n + 1)
      /\ \A i \in 1..n : t[i] = s[i]
  BY AppendProperties
<1>2. /\ Places(s, y) \subseteq 1..n
      /\ Places(t, y) = IF x = y THEN Places(s, y) \cup {n + 1} ELSE Places(s, y)
  BY <1>1 DEF Places
<1> HIDE DEF n
<1>3. /\ Cardinality(Places(s, y)) \in Nat
      /\ Cardinality(Places(s, y) \cup {n + 1}) = Cardinality(Places(s, y)) + 1
  BY <1>1, <1>2, Counted
<1> QED
  BY <1>2, <1>3

----------------------------------------------------------------------------

(***************************************************************************)
(* test_reading_1_sample_every_10_samples_w_instances                      *)
(***************************************************************************)

\* What an instance's variables say of its samples: the history of an instance
\* the loop has not left is without a fault.
History == [met : {0, 1, 2}, early : Nat, lost : Nat]

FilterTypeOK ==
  /\ line \in Filter!Lines
  /\ missed_samples \in [Colors -> Nat]
  /\ history \in [Colors -> History]
  /\ samples_read_per_instance \in Nat
  /\ ignoring \subseteq instances

FilterLoop ==
  \A c \in Colors :
    /\ history[c].met = 0 <=> c \notin instances
    /\ history[c].met = 1 <=> c \in ignoring
    /\ history[c].early = 0
    /\ history[c].lost = missed_samples[c]
    /\ 10 * missed_samples[c] <= FilterSamples

FilterInv ==
  /\ FilterTypeOK
  /\ result \in {"running", "DATA_NOT_RECEIVED"} => FilterLoop
  /\ Filter!AlarmHasWitness
  /\ Filter!OKMeansEnough

LEMMA FilterInit == Filter!Init => FilterInv
<1> SUFFICES ASSUME Filter!Init PROVE FilterInv
  OBVIOUS
<1>1. FilterTypeOK
  BY DEF Filter!Init, FilterTypeOK, Filter!Lines, Filter!Unseen, History
<1>2. FilterLoop
  <2>1. FilterSamples \in Nat
    BY CheckFunctionsAssumption DEF CheckFunctionsAssumption, Filter!FilterAssumption
  <2>2. instances = {} /\ ignoring = {}
    BY DEF Filter!Init
  <2>3. ASSUME NEW c \in Colors
        PROVE  /\ history[c].met = 0 /\ history[c].early = 0 /\ history[c].lost = 0
               /\ missed_samples[c] = 0
    BY DEF Filter!Init, Filter!Unseen
  <2>4. ASSUME NEW c \in Colors
        PROVE  /\ history[c].met = 0 <=> c \notin instances
               /\ history[c].met = 1 <=> c \in ignoring
               /\ history[c].early = 0 /\ history[c].lost = missed_samples[c]
    BY <2>2, <2>3
  <2>5. ASSUME NEW c \in Colors
        PROVE  10 * missed_samples[c] <= FilterSamples
    BY <2>1, <2>3
  <2> QED
    BY <2>4, <2>5 DEF FilterLoop
<1>3. Filter!AlarmHasWitness /\ Filter!OKMeansEnough
  BY CheckFunctionsAssumption
  DEF Filter!Init, Filter!AlarmHasWitness, Filter!OKMeansEnough, Filter!Early, Filter!Lossy,
      Filter!Unseen, Filter!FilterAssumption
<1> QED
  BY <1>1, <1>2, <1>3 DEF FilterInv

\* What a sample looked at adds to the history, and when it is judged.
LEMMA FilterSample ==
  ASSUME FilterTypeOK, FilterLoop, Filter!Remember, line.kind = "sample"
  PROVE  \E c \in Colors, gap \in Int, h \in History, new \in History :
           /\ c = line.color /\ gap = line.gap /\ h = history[c]
           /\ Filter!Judged <=> h.met = 2
           /\ Filter!MissedInGap(gap) \in Nat
           /\ history' = [history EXCEPT ![c] = new]
           /\ h.met # 2 => new.met = h.met + 1 /\ new.early = h.early /\ new.lost = h.lost
           /\ h.met = 2 => /\ new.met = 2 /\ new.lost = h.lost + Filter!MissedInGap(gap)
                           /\ new.early = h.early + (IF gap < 9 THEN 1 ELSE 0)
<1>1. line \in Filter!Sample
  BY DEF FilterTypeOK, Filter!Lines, Filter!Text
<1>2. PICK c \in Colors, gap \in Int : c = line.color /\ gap = line.gap
  BY <1>1, CheckFunctionsAssumption DEF Filter!Sample, Filter!FilterAssumption
<1>3. PICK h \in History : h = history[c]
  BY <1>2 DEF FilterTypeOK
<1>4. Filter!Judged <=> h.met = 2
  BY <1>2, <1>3 DEF Filter!Judged, FilterLoop, FilterTypeOK, History
<1>5. /\ Filter!MissedInGap(gap) \in Nat
      /\ Filter!Skipped(gap) = Filter!MissedInGap(gap)
  BY <1>2 DEF Filter!MissedInGap, Filter!Skipped
<1>6. PICK new \in History : new = Filter!After(h, gap)
  <2>1. /\ h.met \in {0, 1, 2} /\ h.early \in Nat /\ h.lost \in Nat
        /\ Filter!Skipped(gap) \in Nat
    BY <1>5 DEF History
  <2>2. CASE h.met < 2
    <3>1. Filter!After(h, gap) = [met |-> h.met + 1, early |-> h.early, lost |-> h.lost]
      BY <2>2 DEF Filter!After
    <3> QED
      BY <2>1, <2>2, <3>1 DEF History
  <2>3. CASE ~(h.met < 2)
    <3>1. Filter!After(h, gap) = [met |-> 2, early |-> h.early + (IF gap < 9 THEN 1 ELSE 0),
                                  lost |-> h.lost + Filter!Skipped(gap)]
      BY <2>3 DEF Filter!After
    <3> QED
      BY <2>1, <3>1 DEF History
  <2> QED
    BY <2>2, <2>3
<1>8. /\ h.met # 2 => new.met = h.met + 1 /\ new.early = h.early /\ new.lost = h.lost
      /\ h.met = 2 => /\ new.met = 2 /\ new.lost = h.lost + Filter!MissedInGap(gap)
                      /\ new.early = h.early + (IF gap < 9 THEN 1 ELSE 0)
  BY <1>5, <1>6 DEF Filter!After, History
<1>7. history' = [history EXCEPT ![c] = new]
  <2>1. history' = [history EXCEPT ![c] = Filter!After(history[c], gap)]
    BY <1>2 DEF Filter!Remember
  <2> QED
    BY <1>3, <1>6, <2>1, Zenon
<1> WITNESS c \in Colors, gap \in Int, h \in History, new \in History
<1> QED
  BY <1>2, <1>3, <1>4, <1>5, <1>7, <1>8, Zenon

\* A line that is no fault keeps the loop without one.
LEMMA FilterNote ==
  ASSUME FilterTypeOK, FilterLoop, Filter!Note, ~Filter!TooEarly, ~Filter!TooManyMissed
  PROVE  /\ missed_samples' \in [Colors -> Nat]
         /\ history' \in [Colors -> History]
         /\ ignoring' \subseteq instances'
         /\ FilterLoop'
<1>a. FilterSamples \in Nat
  BY CheckFunctionsAssumption DEF Filter!FilterAssumption
<1>1. CASE line.kind = "sample"
  <2>1. PICK c \in Colors, gap \in Int, h \in History, new \in History :
          /\ c = line.color /\ gap = line.gap /\ h = history[c]
          /\ Filter!Judged <=> h.met = 2
          /\ Filter!MissedInGap(gap) \in Nat
          /\ history' = [history EXCEPT ![c] = new]
          /\ h.met # 2 => new.met = h.met + 1 /\ new.early = h.early /\ new.lost = h.lost
          /\ h.met = 2 => /\ new.met = 2 /\ new.lost = h.lost + Filter!MissedInGap(gap)
                          /\ new.early = h.early + (IF gap < 9 THEN 1 ELSE 0)
    <3>1. Filter!Remember
      BY DEF Filter!Note
    <3> QED
      BY <1>1, <3>1, FilterSample
  <2>2. /\ instances' = instances \cup {c}
        /\ ignoring' = IF c \in instances THEN ignoring \ {c} ELSE ignoring \cup {c}
        /\ missed_samples' = IF Filter!Judged
             THEN [missed_samples EXCEPT ![c] = @ + Filter!MissedInGap(gap)]
             ELSE missed_samples
    BY <1>1, <2>1 DEF Filter!Note
  <2>3. /\ history \in [Colors -> History]
        /\ missed_samples \in [Colors -> Nat] /\ ignoring \subseteq instances
    BY DEF FilterTypeOK
  <2>4. history' \in [Colors -> History] /\ history'[c] = new
        /\ \A d \in Colors : d # c => history'[d] = history[d]
    BY <2>1, <2>3
  <2>5. ignoring' \subseteq instances'
    BY <2>2, <2>3
  <2>l. /\ h.met = 0 <=> c \notin instances
        /\ h.met = 1 <=> c \in ignoring
        /\ h.early = 0 /\ h.lost = missed_samples[c]
        /\ 10 * missed_samples[c] <= FilterSamples
    BY <2>1 DEF FilterLoop
  <2>6. CASE h.met = 2
    <3>1. new.early = 0
      BY <1>1, <2>1, <2>6, <2>l DEF Filter!TooEarly
    <3>2. 10 * (missed_samples[c] + Filter!MissedInGap(gap)) <= FilterSamples
      BY <1>a, <2>1, <2>3, <2>6 DEF Filter!TooManyMissed
    <3>3. /\ instances' = instances /\ ignoring' = ignoring
          /\ missed_samples' = [missed_samples EXCEPT ![c] = @ + Filter!MissedInGap(gap)]
      BY <2>1, <2>2, <2>3, <2>6, <2>l
    <3>4. /\ missed_samples' \in [Colors -> Nat]
          /\ missed_samples'[c] = missed_samples[c] + Filter!MissedInGap(gap)
          /\ \A d \in Colors : d # c => missed_samples'[d] = missed_samples[d]
      BY <2>1, <2>3, <3>3
    <3>5. FilterLoop'
      BY <2>1, <2>4, <2>6, <2>l, <3>1, <3>2, <3>3, <3>4 DEF FilterLoop
    <3> QED
      BY <2>4, <2>5, <3>4, <3>5
  <2>7. CASE h.met # 2
    <3>1. h.met \in {0, 1} /\ missed_samples' = missed_samples /\ new.met \in {1, 2}
      BY <2>1, <2>2, <2>7 DEF History
    <3>2. FilterLoop'
      <4> SUFFICES ASSUME NEW d \in Colors
                   PROVE  /\ history'[d].met = 0 <=> d \notin instances'
                          /\ history'[d].met = 1 <=> d \in ignoring'
                          /\ history'[d].early = 0
                          /\ history'[d].lost = missed_samples'[d]
                          /\ 10 * missed_samples'[d] <= FilterSamples
        BY DEF FilterLoop
      <4>1. CASE d = c
        BY <2>1, <2>2, <2>3, <2>4, <2>7, <2>l, <3>1, <4>1
      <4>2. CASE d # c
        BY <2>2, <2>4, <3>1, <4>2 DEF FilterLoop
      <4> QED
        BY <4>1, <4>2
    <3> QED
      BY <2>3, <2>4, <2>5, <3>1, <3>2
  <2> QED
    BY <2>6, <2>7
<1>2. CASE line.kind # "sample"
  <2>1. UNCHANGED <<history, instances, ignoring, missed_samples>>
    BY <1>2 DEF Filter!Note, Filter!Remember
  <2> QED
    BY <2>1 DEF FilterTypeOK, FilterLoop
<1> QED
  BY <1>1, <1>2

\* A fault leaves its witness in the history.
LEMMA FilterFault ==
  ASSUME FilterTypeOK, FilterLoop, Filter!Remember, Filter!TooEarly \/ Filter!TooManyMissed
  PROVE  /\ history' \in [Colors -> History]
         /\ \E c \in Colors : Filter!Early(c)' \/ Filter!Lossy(c)'
<1>0. Filter!Judged /\ line.kind = "sample"
  BY DEF Filter!TooEarly, Filter!TooManyMissed, Filter!Judged
<1>1. PICK c \in Colors, gap \in Int, h \in History, new \in History :
        /\ c = line.color /\ gap = line.gap /\ h = history[c]
        /\ Filter!Judged <=> h.met = 2
        /\ Filter!MissedInGap(gap) \in Nat
        /\ history' = [history EXCEPT ![c] = new]
        /\ h.met = 2 => /\ new.lost = h.lost + Filter!MissedInGap(gap)
                        /\ new.early = h.early + (IF gap < 9 THEN 1 ELSE 0)
  BY <1>0, FilterSample
<1>2. history' \in [Colors -> History] /\ history'[c] = new /\ h.met = 2
  BY <1>0, <1>1 DEF FilterTypeOK
<1>3. CASE Filter!TooEarly
  <2>1. new.early > 0
    BY <1>1, <1>2, <1>3 DEF Filter!TooEarly, FilterLoop
  <2> QED
    BY <1>2, <2>1 DEF Filter!Early
<1>4. CASE Filter!TooManyMissed
  <2>1. 10 * new.lost > FilterSamples
    BY <1>1, <1>2, <1>4 DEF Filter!TooManyMissed, FilterLoop
  <2> QED
    BY <1>2, <2>1 DEF Filter!Lossy
<1> QED
  BY <1>2, <1>3, <1>4

LEMMA FilterNext == FilterInv /\ Filter!Next => FilterInv'
<1> SUFFICES ASSUME FilterInv, Filter!Next PROVE FilterInv'
  OBVIOUS
<1>a. FilterSamples \in Nat \ {0}
  BY CheckFunctionsAssumption DEF Filter!FilterAssumption
<1>r. result = "running" /\ FilterTypeOK /\ FilterLoop
  BY DEF FilterInv, Filter!Next, Filter!Reject, Filter!Timeout, Filter!Eof, Filter!NextLine
<1>1. CASE Filter!Reject
  <2>1. /\ history' \in [Colors -> History]
        /\ \E c \in Colors : Filter!Early(c)' \/ Filter!Lossy(c)'
    BY <1>1, <1>r, FilterFault DEF Filter!Reject
  <2>2. /\ result' \in {"OK", "DATA_NOT_CORRECT"}
        /\ result' = "OK" => 10 * samples_read_per_instance' >= 9 * FilterSamples
        /\ UNCHANGED <<line, missed_samples, instances, ignoring, samples_read_per_instance>>
    BY <1>1 DEF Filter!Reject, Filter!Final, Filter!EnoughRead
  <2>3. FilterTypeOK'
    BY <1>r, <2>1, <2>2 DEF FilterTypeOK
  <2>4. Filter!AlarmHasWitness' /\ Filter!OKMeansEnough'
    BY <2>1, <2>2 DEF Filter!AlarmHasWitness, Filter!OKMeansEnough
  <2> QED
    BY <2>2, <2>3, <2>4 DEF FilterInv
<1>2. ASSUME Filter!Note, ~Filter!TooEarly, ~Filter!TooManyMissed, line' \in Filter!Lines,
             samples_read_per_instance' \in Nat,
             result' \in {"running", "OK", "DATA_NOT_RECEIVED"},
             result' = "OK" => 10 * samples_read_per_instance' >= 9 * FilterSamples
      PROVE  FilterInv'
  <2>1. /\ missed_samples' \in [Colors -> Nat]
        /\ history' \in [Colors -> History]
        /\ ignoring' \subseteq instances'
        /\ FilterLoop'
    BY <1>2, <1>r, FilterNote
  <2>2. FilterTypeOK'
    BY <1>2, <2>1 DEF FilterTypeOK
  <2>3. \A c \in Colors : ~Filter!Early(c)' /\ ~Filter!Lossy(c)'
    BY <1>a, <2>1, <2>2 DEF FilterTypeOK, FilterLoop, Filter!Early, Filter!Lossy, History
  <2>4. Filter!AlarmHasWitness' /\ Filter!OKMeansEnough'
    BY <1>2, <2>3 DEF Filter!AlarmHasWitness, Filter!OKMeansEnough
  <2> QED
    BY <2>1, <2>2, <2>4 DEF FilterInv
<1>3. CASE Filter!Timeout \/ Filter!Eof
  <2>1. /\ Filter!Note /\ ~Filter!TooEarly /\ ~Filter!TooManyMissed
        /\ line' = line /\ samples_read_per_instance' = samples_read_per_instance
        /\ result' \in {"OK", "DATA_NOT_RECEIVED"}
        /\ result' = "OK" => 10 * samples_read_per_instance >= 9 * FilterSamples
    BY <1>3 DEF Filter!Timeout, Filter!Eof, Filter!Final, Filter!EnoughRead
  <2> QED
    BY <1>2, <1>r, <2>1 DEF FilterTypeOK
<1>4. ASSUME NEW next \in Filter!Lines, Filter!NextLine(next) PROVE FilterInv'
  <2>1. /\ Filter!Note /\ ~Filter!TooEarly /\ ~Filter!TooManyMissed /\ line' \in Filter!Lines
        /\ samples_read_per_instance' \in Nat
    BY <1>4, <1>r DEF Filter!NextLine, FilterTypeOK
  <2>2. /\ result' \in {"running", "OK", "DATA_NOT_RECEIVED"}
        /\ result' = "OK" => samples_read_per_instance' = FilterSamples
    BY <1>4, <1>r DEF Filter!NextLine, Filter!Final
  <2>3. result' = "OK" => 10 * samples_read_per_instance' >= 9 * FilterSamples
    BY <1>a, <2>2
  <2> QED
    BY <1>2, <2>1, <2>2, <2>3
<1> QED
  BY <1>1, <1>3, <1>4 DEF Filter!Next

\* DATA_NOT_CORRECT of the time-based filter's check has a witness in the stream
\* of some instance, no sample too early and no losses above 10% of an instance
\* are passed over in the loop, and OK needs 90% of the samples.
THEOREM FilterJustified == FunctionSpec => []FilterAlarmsJustified
<1> DEFINE I == function = "filter" => FilterInv
<1>1. FunctionInit => I
  BY FilterInit DEF FunctionInit
<1>2. I /\ [FunctionNext]_functionVars => I'
  <2>1. CASE FunctionNext
    BY <2>1, FilterNext DEF FunctionNext
  <2>2. CASE UNCHANGED functionVars
    BY <2>2
    DEF functionVars, common, filterVars, FilterInv, FilterTypeOK, FilterLoop, Filter!AlarmHasWitness,
        Filter!OKMeansEnough, Filter!Early, Filter!Lossy
  <2> QED
    BY <2>1, <2>2
<1>3. I => FilterAlarmsJustified
  BY DEF FilterAlarmsJustified, FilterInv
<1> QED
  BY <1>1, <1>2, <1>3, PTL DEF FunctionSpec

(***************************************************************************)
(* test_lifespan_2_3_consecutive_samples_w_instances                       *)
(***************************************************************************)

Run == [first : BOOLEAN, length : Nat]

LifespanTypeOK ==
  /\ line \in Lifespan!Lines
  /\ consecutive_samples \in [Colors -> Nat]
  /\ run \in [Colors -> Nat]
  /\ completed \in [Colors -> SUBSET Run]
  /\ lifespan_expiration_observed \in BOOLEAN

\* Some run that ended had two or three samples.
SomeExpired == \E c \in Colors : \E r \in completed[c] : r.length \in {2, 3}

\* The counter is the length of the run, ignore_first_sample is set as long as
\* the instance has shown one sample, and every run that ended was good.
LifespanLoop ==
  /\ run = consecutive_samples
  /\ \A c \in Colors : c \in ignore_first_sample <=> (run[c] = 1 /\ completed[c] = {})
  /\ \A c \in Colors : run[c] = 0 => completed[c] = {}
  /\ \A c \in Colors : \A r \in completed[c] : Lifespan!GoodRun(r)
  /\ lifespan_expiration_observed <=> SomeExpired
  /\ produced_code = IF lifespan_expiration_observed THEN "OK" ELSE "DATA_NOT_RECEIVED"

LifespanInv ==
  /\ LifespanTypeOK
  /\ result = "running" => LifespanLoop
  /\ Lifespan!OKMeansExpired
  /\ Lifespan!NoFalseAlarm

LEMMA LifespanInit == Lifespan!Init => LifespanInv
<1> SUFFICES ASSUME Lifespan!Init PROVE LifespanInv
  OBVIOUS
<1>1. LifespanTypeOK
  BY DEF Lifespan!Init, LifespanTypeOK, Lifespan!Lines
<1>2. ~SomeExpired
  BY DEF Lifespan!Init, SomeExpired
<1>3. LifespanLoop
  BY <1>2 DEF Lifespan!Init, LifespanLoop
<1> QED
  BY <1>1, <1>3 DEF Lifespan!Init, LifespanInv, Lifespan!OKMeansExpired, Lifespan!NoFalseAlarm

\* One iteration of the loop up to the expect, whatever line it looks at.
LEMMA LifespanNote ==
  ASSUME LifespanTypeOK, LifespanLoop, Lifespan!Note
  PROVE  /\ consecutive_samples' \in [Colors -> Nat] /\ run' \in [Colors -> Nat]
         /\ completed' \in [Colors -> SUBSET Run] /\ lifespan_expiration_observed' \in BOOLEAN
         /\ LifespanLoop'
<1>1. CASE ~Lifespan!IsSample
  BY <1>1 DEF Lifespan!Note, Lifespan!code, LifespanTypeOK, LifespanLoop, SomeExpired
<1>2. CASE Lifespan!IsSample
  <2> DEFINE c == line.color
             n == consecutive_samples[c]
             ended == [first |-> completed[c] = {}, length |-> n]
  <2>c. c \in Colors /\ n \in Nat
    <3>1. line \in Lifespan!Sample
      BY <1>2 DEF LifespanTypeOK, Lifespan!IsSample, Lifespan!Lines, Lifespan!Text
    <3> QED
      BY <3>1 DEF Lifespan!Sample, LifespanTypeOK
  <2>r. /\ Lifespan!Remember /\ ~Lifespan!WrongRun /\ run[c] = n
        /\ IF ~Lifespan!Known THEN Lifespan!NewInstance
           ELSE IF Lifespan!Jumps THEN Lifespan!EndsRun ELSE Lifespan!Continues
    BY <1>2 DEF Lifespan!Note, LifespanLoop
  <2>1. CASE ~Lifespan!Known
    <3>1. n = 0 /\ ~Lifespan!Jumps
      BY <2>1 DEF Lifespan!Known, Lifespan!Jumps
    <3>2. /\ consecutive_samples' = [consecutive_samples EXCEPT ![c] = 1]
          /\ run' = [run EXCEPT ![c] = 1] /\ completed' = completed
          /\ ignore_first_sample' = ignore_first_sample \cup {c}
          /\ UNCHANGED <<lifespan_expiration_observed, produced_code>>
      BY <2>1, <2>c, <2>r, <3>1 DEF Lifespan!NewInstance, Lifespan!Remember, LifespanTypeOK
    <3> QED
      BY <2>c, <2>r, <3>1, <3>2 DEF LifespanTypeOK, LifespanLoop, SomeExpired
  <2>2. CASE Lifespan!Known /\ ~Lifespan!Jumps
    <3>1. n # 0
      BY <2>2 DEF Lifespan!Known
    <3>2. /\ consecutive_samples' = [consecutive_samples EXCEPT ![c] = n + 1]
          /\ run' = [run EXCEPT ![c] = n + 1] /\ completed' = completed
          /\ ignore_first_sample' = ignore_first_sample \ {c}
          /\ UNCHANGED <<lifespan_expiration_observed, produced_code>>
      BY <2>2, <2>c, <2>r DEF Lifespan!Continues, Lifespan!Remember, LifespanTypeOK
    <3> QED
      BY <2>c, <2>r, <3>1, <3>2 DEF LifespanTypeOK, LifespanLoop, SomeExpired
  <2>3. CASE Lifespan!Known /\ Lifespan!Jumps
    <3>1. n # 0 /\ ended \in Run
      BY <2>3, <2>c DEF Lifespan!Known, Run
    <3>2. /\ run' = [run EXCEPT ![c] = 1]
          /\ completed' = [completed EXCEPT ![c] = @ \cup {ended}]
      BY <2>3, <2>c, <2>r DEF Lifespan!Remember, LifespanTypeOK
    <3>e. ended.first = (completed[c] = {}) /\ ended.length = n
      OBVIOUS
    <3> HIDE DEF ended, n
    <3>3. CASE Lifespan!Expired(n)
      <4>1. n \in {2, 3}
        BY <3>3 DEF Lifespan!Expired
      <4>2. /\ consecutive_samples' = [consecutive_samples EXCEPT ![c] = 1]
            /\ produced_code' = "OK" /\ lifespan_expiration_observed' = TRUE
            /\ ignore_first_sample' = ignore_first_sample
        BY <2>3, <2>r, <3>3 DEF Lifespan!EndsRun, n
      <4>3. Lifespan!GoodRun(ended)
        BY <4>1, <3>e DEF Lifespan!GoodRun
      <4>4. SomeExpired'
        BY <2>c, <3>2, <3>e, <4>1 DEF SomeExpired, LifespanTypeOK
      <4>5. c \notin ignore_first_sample
        BY <2>c, <2>r, <4>1 DEF LifespanLoop
      <4> QED
        BY <2>c, <2>r, <3>1, <3>2, <4>2, <4>3, <4>4, <4>5 DEF LifespanTypeOK, LifespanLoop
    <3>4. CASE ~Lifespan!Expired(n)
      <4>1. c \in ignore_first_sample
        BY <2>3, <2>r, <3>4 DEF Lifespan!WrongRun, n
      <4>2. n = 1 /\ completed[c] = {}
        BY <2>c, <2>r, <4>1 DEF LifespanLoop
      <4>3. /\ ignore_first_sample' = ignore_first_sample \ {c}
            /\ UNCHANGED <<consecutive_samples, lifespan_expiration_observed, produced_code>>
        BY <2>3, <2>r, <3>4 DEF Lifespan!EndsRun, n
      <4>4. Lifespan!GoodRun(ended)
        BY <4>2, <3>e DEF Lifespan!GoodRun
      <4>5. SomeExpired' <=> SomeExpired
        BY <2>c, <3>2, <3>e, <4>2 DEF SomeExpired, LifespanTypeOK
      <4>6. run' = run
        BY <2>c, <2>r, <3>2, <4>2 DEF LifespanTypeOK
      <4> QED
        BY <2>c, <2>r, <3>1, <3>2, <4>2, <4>3, <4>4, <4>5, <4>6 DEF LifespanTypeOK, LifespanLoop
    <3> QED
      BY <3>3, <3>4
  <2> QED
    BY <2>1, <2>2, <2>3
<1> QED
  BY <1>1, <1>2

\* A verdict reached from a loop in this state is justified.
LEMMA LifespanVerdict ==
  ASSUME LifespanTypeOK', LifespanLoop',
         result' \in {"running", "DATA_NOT_RECEIVED", produced_code',
                      IF lifespan_expiration_observed' THEN "OK" ELSE "DATA_NOT_CORRECT"}
  PROVE  LifespanInv'
<1>1. Lifespan!OKMeansExpired'
  BY DEF Lifespan!OKMeansExpired, LifespanLoop, SomeExpired
<1>2. Lifespan!NoFalseAlarm'
  BY DEF Lifespan!NoFalseAlarm, LifespanLoop, SomeExpired, Lifespan!GoodRun
<1> QED
  BY <1>1, <1>2 DEF LifespanInv

LEMMA LifespanNext == LifespanInv /\ Lifespan!Next => LifespanInv'
<1> SUFFICES ASSUME LifespanInv, Lifespan!Next PROVE LifespanInv'
  OBVIOUS
<1>l. LifespanTypeOK /\ (result = "running" => LifespanLoop)
  BY DEF LifespanInv
<1>1. CASE Lifespan!Reject
  <2> DEFINE c == line.color
             ended == [first |-> completed[c] = {}, length |-> run[c]]
  <2>0. LifespanLoop /\ Lifespan!Jumps /\ result' = "DATA_NOT_CORRECT" /\ Lifespan!Remember
    BY <1>1, <1>l DEF Lifespan!Reject, Lifespan!WrongRun
  <2>1. c \in Colors
    <3>1. line \in Lifespan!Sample
      BY <1>l, <2>0 DEF LifespanTypeOK, Lifespan!Jumps, Lifespan!IsSample, Lifespan!Lines,
         Lifespan!Text
    <3> QED
      BY <3>1 DEF Lifespan!Sample
  <2>2. /\ run' = [run EXCEPT ![c] = 1]
        /\ completed' = [completed EXCEPT ![c] = @ \cup {ended}]
    BY <2>0, <2>1 DEF Lifespan!Remember, LifespanTypeOK
  <2>3. ended \in Run
    BY <1>l, <2>1 DEF Run, LifespanTypeOK
  <2>4. run[c] = consecutive_samples[c] /\ run[c] \in Nat
    BY <1>l, <2>0, <2>1 DEF LifespanLoop, LifespanTypeOK
  <2>5. /\ run[c] \notin {2, 3} /\ c \notin ignore_first_sample
    BY <1>1, <2>4 DEF Lifespan!Reject, Lifespan!WrongRun, Lifespan!Expired
  <2>6. ~(run[c] = 1 /\ completed[c] = {})
    BY <2>0, <2>1, <2>5 DEF LifespanLoop
  <2>7. ended.first = (completed[c] = {}) /\ ended.length = run[c]
    OBVIOUS
  <2> HIDE DEF ended
  <2>8. ~Lifespan!GoodRun(ended)
    BY <2>5, <2>6, <2>7 DEF Lifespan!GoodRun
  <2>9. Lifespan!NoFalseAlarm' /\ Lifespan!OKMeansExpired'
    BY <1>l, <2>0, <2>1, <2>2, <2>8
    DEF LifespanTypeOK, Lifespan!NoFalseAlarm, Lifespan!OKMeansExpired
  <2>10. LifespanTypeOK'
    BY <1>1, <1>l, <2>1, <2>2, <2>3 DEF LifespanTypeOK, Lifespan!Reject, Lifespan!code
  <2> QED
    BY <2>0, <2>9, <2>10 DEF LifespanInv
<1>2. CASE Lifespan!Timeout \/ Lifespan!Eof
  <2>1. result = "running" /\ Lifespan!Note /\ line' = line
    BY <1>2 DEF Lifespan!Timeout, Lifespan!Eof
  <2>2. LifespanTypeOK' /\ LifespanLoop'
    BY <1>l, <2>1, LifespanNote DEF LifespanTypeOK
  <2> QED
    BY <1>2, <2>2, LifespanVerdict DEF Lifespan!Timeout, Lifespan!Eof
<1>3. ASSUME NEW next \in Lifespan!Lines, Lifespan!NextLine(next) PROVE LifespanInv'
  <2>1. result = "running" /\ Lifespan!Note /\ line' = next
    BY <1>3 DEF Lifespan!NextLine
  <2>2. LifespanTypeOK' /\ LifespanLoop'
    BY <1>l, <2>1, LifespanNote DEF LifespanTypeOK
  <2> QED
    BY <1>3, <2>1, <2>2, LifespanVerdict DEF Lifespan!NextLine, Lifespan!Verdict
<1> QED
  BY <1>1, <1>2, <1>3 DEF Lifespan!Next

\* OK of the lifespan's check vouches for every run that ended and for at least
\* one expiration, and a stream of good runs is not DATA_NOT_CORRECT.
THEOREM LifespanExact == FunctionSpec => []LifespanIsExact
<1> DEFINE I == function = "lifespan" => LifespanInv
<1>1. FunctionInit => I
  BY LifespanInit DEF FunctionInit
<1>2. I /\ [FunctionNext]_functionVars => I'
  <2>1. CASE FunctionNext
    BY <2>1, LifespanNext DEF FunctionNext
  <2>2. CASE UNCHANGED functionVars
    BY <2>2 DEF functionVars, common, lifespanVars, LifespanInv, LifespanTypeOK, LifespanLoop,
       SomeExpired, Lifespan!OKMeansExpired, Lifespan!NoFalseAlarm
  <2> QED
    BY <2>1, <2>2
<1>3. I => LifespanIsExact
  BY DEF LifespanIsExact, LifespanInv
<1> QED
  BY <1>1, <1>2, <1>3, PTL DEF FunctionSpec

(***************************************************************************)
(* test_size_receivers, test_color_receivers and test_size_less_than_20    *)
(***************************************************************************)

ReceiversTypeOK ==
  /\ check \in Receivers!Checks
  /\ line \in Receivers!Lines
  /\ ignore_first_samples \in BOOLEAN
  /\ seen \in Seq(Values)

\* What the loop remembers of the samples compared so far: the last of them,
\* and whether the value has changed.
ReceiversLoop ==
  /\ check = "less_than_20" => \A i \in DOMAIN seen : seen[i] \in 1..20
  /\ check # "less_than_20" /\ seen # <<>> => seen[Len(seen)] = first_sample
  /\ check = "color" => Receivers!Changes = 0
  /\ check = "size" => Receivers!Changes = IF ignore_first_samples THEN 0 ELSE 1

ReceiversInv ==
  /\ ReceiversTypeOK
  /\ result = "running" =>
       /\ ReceiversLoop
       /\ line \in Receivers!Sample
       /\ check # "less_than_20" /\ seen = <<>> => line.value = first_sample
  /\ Receivers!BothIsExact
  /\ Receivers!RangeIsExact

LEMMA ReceiversInit == Receivers!Init => ReceiversInv
<1> SUFFICES ASSUME Receivers!Init PROVE ReceiversInv
  OBVIOUS
<1>1. ReceiversTypeOK /\ line \in Receivers!Sample
  BY DEF Receivers!Init, ReceiversTypeOK, Receivers!Lines
<1>2. Receivers!Changes = 0
  <2>1. {i \in 1..(Len(seen) - 1) : seen[i] # seen[i + 1]} = {}
    BY DEF Receivers!Init
  <2> QED
    BY <2>1, FS_EmptySet, SameCardinality DEF Receivers!Changes
<1> QED
  BY <1>1, <1>2
  DEF Receivers!Init, ReceiversInv, ReceiversLoop, Receivers!BothIsExact, Receivers!RangeIsExact

\* What comparing the sample adds to the history.
LEMMA ReceiversSeen ==
  ASSUME ReceiversTypeOK, line \in Receivers!Sample, Receivers!Remember
  PROVE  /\ line.value \in Values /\ seen' \in Seq(Values) /\ seen' # <<>>
         /\ Len(seen) \in Nat /\ Len(seen') = Len(seen) + 1
         /\ DOMAIN seen = 1..Len(seen) /\ DOMAIN seen' = 1..(Len(seen) + 1)
         /\ seen'[Len(seen) + 1] = line.value
         /\ \A i \in 1..Len(seen) : seen'[i] = seen[i]
         /\ Receivers!Changes \in Nat
         /\ Receivers!Changes' = Receivers!Changes +
              (IF seen # <<>> /\ seen[Len(seen)] # line.value THEN 1 ELSE 0)
<1>1. line.value \in Values /\ seen \in Seq(Values) /\ seen' = Append(seen, line.value)
  BY DEF ReceiversTypeOK, Receivers!Sample, Receivers!Remember
<1>2. /\ seen' \in Seq(Values) /\ seen' # <<>>
      /\ Len(seen) \in Nat /\ Len(seen') = Len(seen) + 1
      /\ DOMAIN seen = 1..Len(seen) /\ DOMAIN seen' = 1..(Len(seen) + 1)
      /\ seen'[Len(seen) + 1] = line.value
      /\ \A i \in 1..Len(seen) : seen'[i] = seen[i]
  BY <1>1, AppendProperties
<1>3. /\ Receivers!Changes = Cardinality(Different(seen))
      /\ Receivers!Changes' = Cardinality(Different(Append(seen, line.value)))
  BY <1>1, SameCardinality DEF Receivers!Changes, Different
<1> QED
  BY <1>1, <1>2, <1>3, DifferentAppend

\* A sample that does not decide the test leaves the loop in a state that says
\* what was seen.
LEMMA ReceiversAccept ==
  ASSUME ReceiversInv, Receivers!Accept, check' = check
  PROVE  ReceiversLoop' /\ seen' \in Seq(Values) /\ seen' # <<>>
         /\ ignore_first_samples' \in BOOLEAN
<1>i. /\ ReceiversTypeOK /\ ReceiversLoop /\ line \in Receivers!Sample
      /\ check # "less_than_20" /\ seen = <<>> => line.value = first_sample
      /\ check \in {"size", "color", "less_than_20"}
  BY DEF ReceiversInv, ReceiversTypeOK, Receivers!Accept, Receivers!Checks
<1>s. /\ line.value \in Values /\ seen' \in Seq(Values) /\ seen' # <<>>
      /\ Len(seen) \in Nat /\ Len(seen') = Len(seen) + 1
      /\ DOMAIN seen = 1..Len(seen) /\ DOMAIN seen' = 1..(Len(seen) + 1)
      /\ seen'[Len(seen) + 1] = line.value
      /\ \A i \in 1..Len(seen) : seen'[i] = seen[i]
      /\ Receivers!Changes \in Nat
      /\ Receivers!Changes' = Receivers!Changes +
           (IF seen # <<>> /\ seen[Len(seen)] # line.value THEN 1 ELSE 0)
  BY <1>i, ReceiversSeen DEF Receivers!Accept
<1>1. CASE check = "less_than_20"
  <2>1. line.value \in 1..20 /\ UNCHANGED ignore_first_samples
    <3>1. Receivers!InRange(line.value) /\ UNCHANGED ignore_first_samples
      BY <1>1 DEF Receivers!Accept, Receivers!Offends
    <3>2. Values \subseteq Nat
      BY CheckFunctionsAssumption DEF Receivers!ReceiverAssumption
    <3>3. line.value \in Nat /\ ~(line.value < 1 \/ line.value > 20)
      BY <3>1, <3>2, <1>s DEF Receivers!InRange
    <3> QED
      BY <3>1, <3>3
  <2>2. ASSUME NEW i \in DOMAIN seen' PROVE seen'[i] \in 1..20
    <3>1. CASE i \in 1..Len(seen)
      BY <3>1, <1>1, <1>i, <1>s DEF ReceiversLoop
    <3>2. CASE i = Len(seen) + 1
      BY <3>2, <1>s, <2>1
    <3>3. DOMAIN seen' = 1..(Len(seen) + 1) /\ Len(seen) \in Nat
      BY <1>s
    <3>4. i \in 1..Len(seen) \/ i = Len(seen) + 1
      BY <3>3
    <3> QED
      BY <3>1, <3>2, <3>4
  <2> QED
    BY <1>1, <1>i, <1>s, <2>1, <2>2 DEF ReceiversLoop, ReceiversTypeOK
<1>2. CASE check = "color"
  <2>1. line.value = first_sample /\ UNCHANGED <<first_sample, ignore_first_samples>>
    BY <1>2 DEF Receivers!Accept, Receivers!Offends, Receivers!Differs
  <2>2. Receivers!Changes' = 0
    BY <1>2, <1>i, <1>s, <2>1 DEF ReceiversLoop
  <2> QED
    BY <1>2, <1>i, <1>s, <2>1, <2>2 DEF ReceiversLoop, ReceiversTypeOK
<1>3. CASE check = "size"
  <2>1. CASE line.value = first_sample
    <3>1. UNCHANGED <<first_sample, ignore_first_samples>>
      BY <1>3, <2>1 DEF Receivers!Accept, Receivers!Differs
    <3>2. Receivers!Changes' = Receivers!Changes
      BY <1>3, <1>i, <1>s, <2>1 DEF ReceiversLoop
    <3> QED
      BY <1>3, <1>i, <1>s, <2>1, <3>1, <3>2 DEF ReceiversLoop, ReceiversTypeOK
  <2>2. CASE line.value # first_sample
    <3>1. ignore_first_samples /\ ignore_first_samples' = FALSE /\ first_sample' = line.value
      BY <1>3, <2>2 DEF Receivers!Accept, Receivers!Offends, Receivers!Differs
    <3>2. Receivers!Changes' = 1
      BY <1>3, <1>i, <1>s, <2>2, <3>1 DEF ReceiversLoop
    <3> QED
      BY <1>3, <1>s, <3>1, <3>2 DEF ReceiversLoop
  <2> QED
    BY <2>1, <2>2
<1> QED
  BY <1>1, <1>2, <1>3, <1>i

\* Nothing offended: the verdict for a stream without a second publisher.
LEMMA ReceiversGood ==
  ASSUME ReceiversTypeOK', ReceiversLoop', check' = check,
         result' \in {Receivers!Good, "DATA_NOT_RECEIVED"}
  PROVE  ReceiversInv'
<1>1. result' # "running" /\ result' # "RECEIVING_FROM_BOTH" /\ result' # "DATA_NOT_CORRECT"
  BY DEF Receivers!Good
<1>2. Receivers!BothSeen' = FALSE
  BY DEF Receivers!BothSeen, ReceiversLoop
<1>3. Receivers!BothIsExact'
  BY <1>1, <1>2 DEF Receivers!BothIsExact
<1>4. Receivers!RangeIsExact'
  BY <1>1 DEF Receivers!RangeIsExact, ReceiversLoop
<1> QED
  BY <1>1, <1>3, <1>4 DEF ReceiversInv

LEMMA ReceiversNext == ReceiversInv /\ Receivers!Next => ReceiversInv'
<1> SUFFICES ASSUME ReceiversInv, Receivers!Next PROVE ReceiversInv'
  OBVIOUS
<1>1. CASE Receivers!Decide
  <2>i. /\ ReceiversTypeOK /\ ReceiversLoop /\ line \in Receivers!Sample
        /\ check # "less_than_20" /\ seen = <<>> => line.value = first_sample
        /\ check \in {"size", "color", "less_than_20"}
        /\ Receivers!Offends /\ Receivers!Remember
        /\ UNCHANGED <<check, line, first_sample, ignore_first_samples, samples_read>>
        /\ result' = IF check = "less_than_20" THEN "DATA_NOT_CORRECT"
                     ELSE "RECEIVING_FROM_BOTH"
    BY <1>1 DEF ReceiversInv, ReceiversTypeOK, Receivers!Decide, Receivers!Checks
  <2>s. /\ line.value \in Values /\ seen' \in Seq(Values)
        /\ Len(seen) \in Nat
        /\ DOMAIN seen' = 1..(Len(seen) + 1)
        /\ seen'[Len(seen) + 1] = line.value
        /\ Receivers!Changes \in Nat
        /\ Receivers!Changes' = Receivers!Changes +
             (IF seen # <<>> /\ seen[Len(seen)] # line.value THEN 1 ELSE 0)
    BY <2>i, ReceiversSeen
  <2>1. ReceiversTypeOK'
    BY <2>i, <2>s DEF ReceiversTypeOK
  <2>2. CASE check = "less_than_20"
    <3>1. line.value \notin 1..20
      <4>1. ~Receivers!InRange(line.value)
        BY <2>2, <2>i DEF Receivers!Offends
      <4>2. Values \subseteq Nat
        BY CheckFunctionsAssumption DEF Receivers!ReceiverAssumption
      <4> QED
        BY <4>1, <4>2, <2>s DEF Receivers!InRange
    <3>2. Len(seen) + 1 \in DOMAIN seen'
      BY <2>s
    <3> QED
      BY <2>1, <2>2, <2>i, <2>s, <3>1, <3>2
      DEF ReceiversInv, Receivers!BothIsExact, Receivers!RangeIsExact
  <2>3. CASE check # "less_than_20"
    <3>1. line.value # first_sample /\ (check = "size" => ~ignore_first_samples)
      BY <2>3, <2>i DEF Receivers!Offends, Receivers!Differs
    <3>2. seen # <<>> /\ seen[Len(seen)] # line.value
      BY <2>3, <2>i, <3>1 DEF ReceiversLoop
    <3>3. Receivers!Changes' = Receivers!Changes + 1
      BY <2>s, <3>2
    <3>4. Receivers!BothSeen'
      BY <2>3, <2>i, <2>s, <3>1, <3>3 DEF ReceiversLoop, Receivers!BothSeen
    <3> QED
      BY <2>1, <2>3, <2>i, <3>4
      DEF ReceiversInv, Receivers!BothIsExact, Receivers!RangeIsExact
  <2> QED
    BY <2>2, <2>3
<1>2. CASE Receivers!Timeout \/ Receivers!Eof
  <2>1. /\ Receivers!Accept /\ UNCHANGED <<check, line>>
        /\ result' \in {Receivers!Good, "DATA_NOT_RECEIVED"}
    BY <1>2 DEF Receivers!Timeout, Receivers!Eof
  <2>2. ReceiversLoop' /\ seen' \in Seq(Values) /\ ignore_first_samples' \in BOOLEAN
    BY <2>1, ReceiversAccept
  <2>3. ReceiversTypeOK'
    BY <2>1, <2>2 DEF ReceiversInv, ReceiversTypeOK
  <2> QED
    BY <2>1, <2>2, <2>3, ReceiversGood
<1>3. ASSUME NEW next \in Receivers!Lines, Receivers!NextLine(next) PROVE ReceiversInv'
  <2>1. Receivers!Accept /\ check' = check /\ line' = next
    BY <1>3 DEF Receivers!NextLine
  <2>2. /\ ReceiversLoop' /\ seen' \in Seq(Values) /\ seen' # <<>>
        /\ ignore_first_samples' \in BOOLEAN
    BY <2>1, ReceiversAccept
  <2>3. ReceiversTypeOK'
    BY <2>1, <2>2 DEF ReceiversInv, ReceiversTypeOK
  <2>4. CASE result' = Receivers!Good
    BY <2>1, <2>2, <2>3, <2>4, ReceiversGood
  <2>5. CASE result' # Receivers!Good
    <3>1. result' = "running" /\ next \in Receivers!Sample
      BY <1>3, <2>5 DEF Receivers!NextLine, Receivers!Accept, Receivers!Lines
    <3> QED
      BY <2>1, <2>2, <2>3, <3>1 DEF ReceiversInv, Receivers!BothIsExact, Receivers!RangeIsExact
  <2> QED
    BY <2>4, <2>5
<1> QED
  BY <1>1, <1>2, <1>3 DEF Receivers!Next

\* RECEIVING_FROM_BOTH is returned exactly when the whole history shows two
\* publishers, and test_size_less_than_20 accepts exactly the sizes in range.
THEOREM ReceiversExact == FunctionSpec => []ReceiversAreExact
<1> DEFINE I == function = "receivers" => ReceiversInv
<1>1. FunctionInit => I
  BY ReceiversInit DEF FunctionInit
<1>2. I /\ [FunctionNext]_functionVars => I'
  <2>1. CASE FunctionNext
    BY <2>1, ReceiversNext DEF FunctionNext
  <2>2. CASE UNCHANGED functionVars
    BY <2>2 DEF functionVars, common, receiverVars, ReceiversInv, ReceiversTypeOK, ReceiversLoop,
       Receivers!Changes, Receivers!BothSeen, Receivers!BothIsExact, Receivers!RangeIsExact
  <2> QED
    BY <2>1, <2>2
<1>3. I => ReceiversAreExact
  BY DEF ReceiversAreExact, ReceiversInv
<1> QED
  BY <1>1, <1>2, <1>3, PTL DEF FunctionSpec

(***************************************************************************)
(* ordered_access_w_instances                                              *)
(***************************************************************************)

Shown == {"none", "ORDERED_ACCESS_INSTANCE", "ORDERED_ACCESS_TOPIC"}

OrderedTypeOK ==
  /\ line \in Ordered!Sample \cup {Ordered!Announcement, Ordered!Text}
  /\ pass \in Seq(Colors)
  /\ shown \in Seq(Shown)
  /\ behavior_mismatch_count \in Nat

\* The pass d is the first one that shows a behavior, and those that disagree.
IsFirst(d) ==
  /\ d \in DOMAIN shown /\ shown[d] # "none"
  /\ \A k \in DOMAIN shown : shown[k] # "none" => d <= k
Against(d) == {i \in DOMAIN shown : i > d /\ shown[i] # shown[d]}

\* The two counters describe the colors of the pass so far.
PassCounted ==
  /\ color_equal_count = Cardinality(Equal(pass))
  /\ color_different_count = Cardinality(Different(pass))
  /\ color_equal_count + color_different_count = IF pass = <<>> THEN 0 ELSE Len(pass) - 1
  /\ previous_sample_color = IF pass = <<>> THEN NoColor ELSE pass[Len(pass)]

\* produced_code and behavior_mismatch_count describe the passes judged.
PassesJudged ==
  \/ /\ produced_code = "OK" /\ behavior_mismatch_count = 0
     /\ \A k \in DOMAIN shown : shown[k] = "none"
  \/ /\ produced_code \in Ordered!Behaviors
     /\ \E d \in Nat : /\ IsFirst(d) /\ shown[d] = produced_code
                       /\ Cardinality(Against(d)) = behavior_mismatch_count

OrderedLoop == PassCounted /\ PassesJudged /\ behavior_mismatch_count <= Tolerance + 1

OrderedInv ==
  /\ OrderedTypeOK
  /\ result = "running" => OrderedLoop
  /\ Ordered!VerdictHasEvidence
  /\ Ordered!TimingForgiven

\* A sequence of at most one color has no neighbours.
LEMMA NoNeighbours ==
  ASSUME NEW s, Len(s) \in {0, 1}
  PROVE  Cardinality(Equal(s)) = 0 /\ Cardinality(Different(s)) = 0
<1>1. 1..(Len(s) - 1) = {}
  <2>1. CASE Len(s) = 0
    BY <2>1
  <2>2. CASE Len(s) = 1
    BY <2>2
  <2> QED
    BY <2>1, <2>2
<1>2. Equal(s) = {} /\ Different(s) = {}
  BY <1>1 DEF Equal, Different
<1> QED
  BY <1>2, FS_EmptySet

LEMMA OrderedInit == Ordered!Init => OrderedInv
<1> SUFFICES ASSUME Ordered!Init PROVE OrderedInv
  OBVIOUS
<1>1. OrderedTypeOK /\ Len(pass) = 0
  BY DEF Ordered!Init, OrderedTypeOK
<1>2. PassCounted
  <2>1. Cardinality(Equal(pass)) = 0 /\ Cardinality(Different(pass)) = 0
    BY <1>1, NoNeighbours
  <2> QED
    BY <2>1 DEF Ordered!Init, PassCounted
<1>3. PassesJudged /\ behavior_mismatch_count <= Tolerance + 1
  BY CheckFunctionsAssumption DEF Ordered!Init, PassesJudged, Ordered!OrderedAccessAssumption
<1> QED
  BY <1>1, <1>2, <1>3 DEF Ordered!Init, OrderedInv, OrderedLoop, Ordered!VerdictHasEvidence,
     Ordered!TimingForgiven, Ordered!Behaviors

\* The first pass that shows something is the one the properties choose.
LEMMA FirstIs ==
  ASSUME NEW s \in Seq(Shown), NEW d \in DOMAIN s, s[d] # "none",
         \A k \in DOMAIN s : s[k] # "none" => d <= k
  PROVE  LET D == {i \in DOMAIN s : s[i] # "none"}
         IN D # {} /\ (CHOOSE i \in D : \A k \in D : i <= k) = d
<1> DEFINE D == {i \in DOMAIN s : s[i] # "none"}
<1>1. D \subseteq Nat
  OBVIOUS
<1>2. d \in D /\ \A k \in D : d <= k
  OBVIOUS
<1> HIDE DEF D
<1>3. \A e \in D : (\A k \in D : e <= k) => e = d
  BY <1>1, <1>2
<1>4. D # {} /\ (CHOOSE i \in D : \A k \in D : i <= k) = d
  BY <1>2, <1>3
<1> QED
  BY <1>4 DEF D

\* The counters after a sample.
LEMMA OrderedSample ==
  ASSUME OrderedTypeOK, PassCounted, line \in Ordered!Sample, Ordered!CountSample
  PROVE  PassCounted' /\ pass' \in Seq(Colors)
<1> DEFINE c == line.color
<1>1. c \in Colors /\ NoColor \notin Colors /\ pass \in Seq(Colors)
  BY CheckFunctionsAssumption DEF Ordered!Sample, Ordered!OrderedAccessAssumption, OrderedTypeOK
<1>2. pass' = Append(pass, c) /\ previous_sample_color' = c
  BY DEF Ordered!CountSample
<1>3. /\ pass' \in Seq(Colors) /\ pass' # <<>> /\ Len(pass) \in Nat
      /\ Len(pass') = Len(pass) + 1 /\ pass'[Len(pass')] = c
      /\ pass # <<>> => pass[Len(pass)] \in Colors
      /\ pass = <<>> <=> Len(pass) = 0
  BY <1>1, <1>2, AppendProperties, EmptySeq
<1>4. /\ Cardinality(Equal(pass)) \in Nat /\ Cardinality(Different(pass)) \in Nat
      /\ Cardinality(Equal(pass')) = Cardinality(Equal(pass)) +
           (IF pass # <<>> /\ pass[Len(pass)] = c THEN 1 ELSE 0)
      /\ Cardinality(Different(pass')) = Cardinality(Different(pass)) +
           (IF pass # <<>> /\ pass[Len(pass)] # c THEN 1 ELSE 0)
  BY <1>1, <1>2, EqualAppend, DifferentAppend
<1>5. /\ color_equal_count' = color_equal_count +
           (IF pass # <<>> /\ pass[Len(pass)] = c THEN 1 ELSE 0)
      /\ color_different_count' = color_different_count +
           (IF pass # <<>> /\ pass[Len(pass)] # c THEN 1 ELSE 0)
  BY <1>1, <1>3 DEF PassCounted, Ordered!CountSample
<1>6. /\ color_equal_count' = Cardinality(Equal(pass'))
      /\ color_different_count' = Cardinality(Different(pass'))
  BY <1>4, <1>5 DEF PassCounted
<1>7. color_equal_count' + color_different_count' = Len(pass)
  <2>1. /\ color_equal_count \in Nat /\ color_different_count \in Nat
        /\ color_equal_count + color_different_count = IF pass = <<>> THEN 0 ELSE Len(pass) - 1
    BY <1>4 DEF PassCounted
  <2>2. CASE pass = <<>>
    BY <2>1, <2>2, <1>3, <1>5
  <2>3. CASE pass # <<>> /\ pass[Len(pass)] = c
    BY <2>1, <2>3, <1>3, <1>5
  <2>4. CASE pass # <<>> /\ pass[Len(pass)] # c
    BY <2>1, <2>4, <1>3, <1>5
  <2> QED
    BY <2>2, <2>3, <2>4
<1> QED
  BY <1>2, <1>3, <1>6, <1>7 DEF PassCounted

\* What an announcement finds in the counters is what the pass shows.
LEMMA PassShows ==
  ASSUME OrderedTypeOK, PassCounted, line = Ordered!Announcement
  PROVE  /\ Ordered!Judged <=> Len(pass) - 1 > GroupMinimum
         /\ Ordered!Current = Ordered!PassBehavior
         /\ Ordered!Current \in Shown
<1>1. GroupMinimum \in Nat /\ Len(pass) \in Nat /\ (pass = <<>> => Len(pass) = 0)
  BY CheckFunctionsAssumption DEF Ordered!OrderedAccessAssumption, OrderedTypeOK
<1>2. Ordered!Judged <=> Len(pass) - 1 > GroupMinimum
  BY <1>1 DEF Ordered!Judged, PassCounted
<1>3. Ordered!Current = Ordered!PassBehavior
  BY SameCardinality
  DEF Ordered!Current, Ordered!PassBehavior, PassCounted, Equal, Different
<1>4. Ordered!Current \in Shown
  BY DEF Ordered!Current, Ordered!Behavior, Shown
<1> QED
  BY <1>2, <1>3, <1>4

\* Another pass judged: what it adds to the evidence.
LEMMA OneMoreShown ==
  ASSUME OrderedTypeOK, PassesJudged, NEW b \in Shown, shown' = Append(shown, b)
  PROVE  /\ shown' \in Seq(Shown)
         /\ produced_code = "OK" /\ b = "none" =>
              \A k \in DOMAIN shown' : shown'[k] = "none"
         /\ produced_code = "OK" /\ b # "none" =>
              \E d \in Nat : /\ IsFirst(d)' /\ shown'[d] = b
                             /\ Cardinality(Against(d)') = 0
         /\ produced_code # "OK" =>
              \E d \in Nat : /\ IsFirst(d)' /\ shown'[d] = produced_code
                             /\ Cardinality(Against(d)') = behavior_mismatch_count +
                                  (IF b # produced_code THEN 1 ELSE 0)
<1>0. shown \in Seq(Shown) /\ Len(shown) \in Nat
  BY DEF OrderedTypeOK
<1>n. PICK n \in Nat : n = Len(shown)
  BY <1>0
<1>1. /\ shown' \in Seq(Shown) /\ DOMAIN shown = 1..n /\ DOMAIN shown' = 1..(n + 1)
      /\ shown'[n + 1] = b /\ \A k \in 1..n : shown'[k] = shown[k]
  BY <1>0, <1>n, AppendProperties
<1>2. CASE produced_code = "OK"
  <2>1. \A k \in DOMAIN shown : shown[k] = "none"
    BY <1>2 DEF PassesJudged, Ordered!Behaviors
  <2>2. b = "none" => \A k \in DOMAIN shown' : shown'[k] = "none"
    BY <1>1, <2>1
  <2>3. ASSUME b # "none"
        PROVE  IsFirst(n + 1)' /\ shown'[n + 1] = b /\ Cardinality(Against(n + 1)') = 0
    <3>1. IsFirst(n + 1)'
      BY <1>1, <2>1, <2>3 DEF IsFirst
    <3>2. Against(n + 1)' = {}
      BY <1>1 DEF Against
    <3> QED
      BY <1>1, <3>1, <3>2, FS_EmptySet
  <2>4. n + 1 \in Nat
    BY <1>1
  <2> QED
    BY <1>1, <1>2, <2>2, <2>3, <2>4
<1>3. CASE produced_code # "OK"
  <2>1. PICK d \in Nat : /\ IsFirst(d) /\ shown[d] = produced_code
                         /\ Cardinality(Against(d)) = behavior_mismatch_count
    BY <1>3 DEF PassesJudged
  <2>2. d \in 1..n
    BY <1>1, <2>1 DEF IsFirst
  <2>3. IsFirst(d)' /\ shown'[d] = produced_code
    BY <1>1, <2>1, <2>2 DEF IsFirst
  <2>4. Against(d) \subseteq 1..n
    BY <1>1 DEF Against
  <2>5. Against(d)' = IF b # produced_code THEN Against(d) \cup {n + 1} ELSE Against(d)
    <3>1. Against(d)' = {i \in 1..(n + 1) : i > d /\ shown'[i] # produced_code}
      BY <1>1, <2>3 DEF Against
    <3>2. Against(d) = {i \in 1..n : i > d /\ shown[i] # produced_code}
      BY <1>1, <2>1 DEF Against
    <3>3. n + 1 > d
      BY <1>1, <2>2
    <3> QED
      BY <1>1, <3>1, <3>2, <3>3
  <2>6. Cardinality(Against(d)') = behavior_mismatch_count +
          (IF b # produced_code THEN 1 ELSE 0)
    <3>1. Cardinality(Against(d) \cup {n + 1}) = behavior_mismatch_count + 1
      BY <2>1, <2>4, Counted
    <3> QED
      BY <2>1, <2>5, <3>1 DEF OrderedTypeOK
  <2> QED
    BY <1>1, <1>3, <2>3, <2>6
<1> QED
  BY <1>2, <1>3

\* The history variables at an announcement.
LEMMA OrderedPass ==
  ASSUME OrderedTypeOK, PassCounted, Ordered!RememberPass,
         color_equal_count' = 0, color_different_count' = 0, UNCHANGED previous_sample_color
  PROVE  PassCounted' /\ pass' \in Seq(Colors)
<1>1. pass \in Seq(Colors)
  BY DEF OrderedTypeOK
<1>2. CASE pass = <<>>
  <2>1. pass' = <<>>
    BY <1>2 DEF Ordered!RememberPass
  <2>2. Cardinality(Equal(pass')) = 0 /\ Cardinality(Different(pass')) = 0
    <3>1. Len(pass') = 0
      BY <2>1
    <3> QED
      BY <3>1, NoNeighbours
  <2> QED
    BY <1>2, <2>1, <2>2 DEF PassCounted
<1>3. CASE pass # <<>>
  <2>1. pass[Len(pass)] \in Colors
    BY <1>1, <1>3
  <2>2. pass' = <<pass[Len(pass)]>>
    BY <1>3 DEF Ordered!RememberPass
  <2>3. /\ pass' \in Seq(Colors) /\ Len(pass') = 1 /\ pass' # <<>>
        /\ pass'[Len(pass')] = pass[Len(pass)]
    BY <2>1, <2>2
  <2>4. Cardinality(Equal(pass')) = 0 /\ Cardinality(Different(pass')) = 0
    BY <2>3, NoNeighbours
  <2> QED
    BY <1>3, <2>3, <2>4 DEF PassCounted
<1> QED
  BY <1>2, <1>3

\* One iteration of the loop up to the expect, whatever line it looks at.
LEMMA OrderedNote ==
  ASSUME OrderedTypeOK, OrderedLoop, Ordered!Note
  PROVE  /\ OrderedLoop' /\ pass' \in Seq(Colors) /\ shown' \in Seq(Shown)
         /\ behavior_mismatch_count' \in Nat
<1>t. Tolerance \in Nat
  BY CheckFunctionsAssumption DEF Ordered!OrderedAccessAssumption
<1>1. CASE line \in Ordered!Sample
  <2>1. Ordered!CountSample
    <3>1. /\ line.kind = "sample" /\ line # Ordered!Announcement /\ line # Ordered!Text
      BY <1>1 DEF Ordered!Sample, Ordered!Announcement, Ordered!Text
    <3> QED
      BY <3>1 DEF Ordered!Note
  <2>2. PassCounted' /\ pass' \in Seq(Colors)
    BY <1>1, <2>1, OrderedSample DEF OrderedLoop
  <2> QED
    BY <2>1, <2>2 DEF Ordered!CountSample, OrderedTypeOK, OrderedLoop, PassesJudged, IsFirst,
       Against
<1>2. CASE line = Ordered!Announcement
  <2>1. Ordered!CountPass /\ ~Ordered!TooMany
    BY <1>2 DEF Ordered!Note, Ordered!Sample, Ordered!Announcement, Ordered!Text
  <2>2. PassCounted' /\ pass' \in Seq(Colors)
    BY <2>1, OrderedPass DEF OrderedLoop, Ordered!CountPass
  <2>3. /\ Ordered!Judged <=> Len(pass) - 1 > GroupMinimum
        /\ Ordered!Current = Ordered!PassBehavior
        /\ Ordered!Current \in Shown
    BY <1>2, PassShows DEF OrderedLoop
  <2>4. PassesJudged /\ behavior_mismatch_count \in Nat
        /\ behavior_mismatch_count <= Tolerance + 1
    BY DEF OrderedLoop, OrderedTypeOK
  <2>5. CASE ~Ordered!Judged
    <3>1. UNCHANGED <<shown, produced_code, behavior_mismatch_count>>
      BY <2>1, <2>3, <2>4, <2>5
      DEF Ordered!CountPass, Ordered!RememberPass, Ordered!Mismatch
    <3> QED
      BY <2>2, <2>4, <3>1 DEF OrderedTypeOK, OrderedLoop, PassesJudged, IsFirst, Against
  <2>6. CASE Ordered!Judged
    <3>1. shown' = Append(shown, Ordered!Current)
      BY <2>1, <2>3, <2>6 DEF Ordered!CountPass, Ordered!RememberPass
    <3>b. PICK b \in Shown : b = Ordered!Current
      BY <2>3
    <3>2. /\ shown' \in Seq(Shown)
          /\ produced_code = "OK" /\ b = "none" =>
               \A k \in DOMAIN shown' : shown'[k] = "none"
          /\ produced_code = "OK" /\ b # "none" =>
               \E d \in Nat : /\ IsFirst(d)' /\ shown'[d] = b
                              /\ Cardinality(Against(d)') = 0
          /\ produced_code # "OK" =>
               \E d \in Nat : /\ IsFirst(d)' /\ shown'[d] = produced_code
                              /\ Cardinality(Against(d)') = behavior_mismatch_count +
                                   (IF b # produced_code THEN 1 ELSE 0)
      BY <2>4, <3>1, <3>b, OneMoreShown
    <3>3. CASE produced_code = "OK"
      <4>1. behavior_mismatch_count = 0
        BY <2>4, <3>3 DEF PassesJudged, Ordered!Behaviors
      <4>2. /\ behavior_mismatch_count' = 0
            /\ produced_code' = IF b # "none" THEN b ELSE "OK"
        BY <2>1, <2>6, <3>b, <3>3, <4>1 DEF Ordered!CountPass, Ordered!Mismatch
      <4>3. PassesJudged'
        <5>1. CASE b = "none"
          BY <5>1, <3>2, <3>3, <4>2 DEF PassesJudged
        <5>2. CASE b # "none"
          <6>1. produced_code' = b /\ b \in Ordered!Behaviors
            BY <5>2, <3>b, <4>2 DEF Shown, Ordered!Behaviors
          <6>2. \E d \in Nat : /\ IsFirst(d)' /\ shown'[d] = produced_code'
                               /\ Cardinality(Against(d)') = behavior_mismatch_count'
            BY <5>2, <3>2, <3>3, <4>2, <6>1
          <6> QED
            BY <6>1, <6>2 DEF PassesJudged
        <5> QED
          BY <5>1, <5>2
      <4> QED
        BY <1>t, <2>2, <3>2, <4>2, <4>3 DEF OrderedLoop
    <3>4. CASE produced_code # "OK"
      <4>1. /\ produced_code' = produced_code
            /\ behavior_mismatch_count' =
                 behavior_mismatch_count + (IF b # produced_code THEN 1 ELSE 0)
        BY <2>1, <2>6, <3>b, <3>4 DEF Ordered!CountPass, Ordered!Mismatch
      <4>2. b # produced_code => behavior_mismatch_count <= Tolerance
        BY <1>t, <2>1, <2>4, <2>6, <3>b, <3>4 DEF Ordered!TooMany, Ordered!Mismatch
      <4>3. behavior_mismatch_count' \in Nat /\ behavior_mismatch_count' <= Tolerance + 1
        BY <1>t, <2>4, <4>1, <4>2
      <4>4. produced_code \in Ordered!Behaviors
        BY <2>4, <3>4 DEF PassesJudged
      <4>5. \E d \in Nat : /\ IsFirst(d)' /\ shown'[d] = produced_code'
                           /\ Cardinality(Against(d)') = behavior_mismatch_count'
        BY <3>2, <3>4, <4>1
      <4> QED
        BY <2>2, <3>2, <4>1, <4>3, <4>4, <4>5 DEF OrderedLoop, PassesJudged
    <3> QED
      BY <3>3, <3>4
  <2> QED
    BY <2>5, <2>6
<1>3. CASE line = Ordered!Text
  <2>1. UNCHANGED <<previous_sample_color, color_equal_count, color_different_count,
                    produced_code, behavior_mismatch_count, pass, shown>>
    BY <1>3
    DEF Ordered!Note, Ordered!Sample, Ordered!Announcement, Ordered!Text, Ordered!counters
  <2> QED
    BY <2>1 DEF OrderedTypeOK, OrderedLoop, PassCounted, PassesJudged, IsFirst, Against
<1> QED
  BY <1>1, <1>2, <1>3 DEF OrderedTypeOK

\* A verdict taken from produced_code has the evidence it needs.
LEMMA OrderedVerdict ==
  ASSUME OrderedTypeOK', OrderedLoop',
         result' \in {"running", "DATA_NOT_RECEIVED", produced_code'}
  PROVE  OrderedInv'
<1>t. Tolerance \in Nat
  BY CheckFunctionsAssumption DEF Ordered!OrderedAccessAssumption
<1>1. result' # "DATA_NOT_CORRECT"
  BY DEF OrderedLoop, PassesJudged, Ordered!Behaviors
<1>2. ASSUME result' \in Ordered!Behaviors
      PROVE  /\ Ordered!Decisive' # {}
             /\ result' = shown'[Ordered!FirstDecisive']
             /\ Cardinality(Ordered!Disagreeing') <= Tolerance + 1
  <2>1. result' = produced_code' /\ produced_code' # "OK"
    BY <1>2 DEF Ordered!Behaviors
  <2>2. PICK d \in Nat : /\ IsFirst(d)' /\ shown'[d] = produced_code'
                         /\ Cardinality(Against(d)') = behavior_mismatch_count'
    BY <2>1 DEF OrderedLoop, PassesJudged
  <2>3. /\ Ordered!Decisive' # {} /\ Ordered!FirstDecisive' = d
        /\ Ordered!Disagreeing' = Against(d)'
    <3>1. /\ shown' \in Seq(Shown) /\ d \in DOMAIN shown' /\ shown'[d] # "none"
          /\ \A k \in DOMAIN shown' : shown'[k] # "none" => d <= k
      BY <2>2 DEF OrderedTypeOK, IsFirst
    <3>2. Ordered!Decisive' # {} /\ Ordered!FirstDecisive' = d
      BY <3>1, FirstIs DEF Ordered!Decisive, Ordered!FirstDecisive
    <3> QED
      BY <3>2 DEF Ordered!Disagreeing, Against
  <2> QED
    BY <2>1, <2>2, <2>3 DEF OrderedLoop
<1>3. Ordered!VerdictHasEvidence'
  BY <1>2, SameCardinality DEF Ordered!VerdictHasEvidence
<1>4. Ordered!TimingForgiven'
  BY <1>1 DEF Ordered!TimingForgiven
<1> QED
  BY <1>3, <1>4 DEF OrderedInv

LEMMA OrderedNext == OrderedInv /\ Ordered!Next => OrderedInv'
<1> SUFFICES ASSUME OrderedInv, Ordered!Next PROVE OrderedInv'
  OBVIOUS
<1>t. Tolerance \in Nat
  BY CheckFunctionsAssumption DEF Ordered!OrderedAccessAssumption
<1>l. OrderedTypeOK /\ (result = "running" => OrderedLoop)
  BY DEF OrderedInv
<1>1. CASE Ordered!Reject
  <2>1. /\ OrderedLoop /\ Ordered!TooMany /\ Ordered!RememberPass
        /\ result' = "DATA_NOT_CORRECT" /\ UNCHANGED <<line, behavior_mismatch_count>>
    BY <1>1, <1>l DEF Ordered!Reject
  <2>2. /\ line = Ordered!Announcement /\ Ordered!Judged /\ produced_code # "OK"
        /\ Ordered!Current # produced_code /\ behavior_mismatch_count > Tolerance
    BY <2>1 DEF Ordered!TooMany, Ordered!Mismatch, Ordered!Judged
  <2>3. /\ Ordered!Judged <=> Len(pass) - 1 > GroupMinimum
        /\ Ordered!Current = Ordered!PassBehavior
        /\ Ordered!Current \in Shown
    BY <1>l, <2>1, <2>2, PassShows DEF OrderedLoop
  <2>b. PICK b \in Shown : b = Ordered!Current
    BY <2>3
  <2>4. shown' = Append(shown, b)
    BY <2>1, <2>2, <2>3, <2>b DEF Ordered!RememberPass
  <2>5. /\ shown' \in Seq(Shown)
        /\ \E d \in Nat : /\ IsFirst(d)' /\ shown'[d] = produced_code
                          /\ Cardinality(Against(d)') = behavior_mismatch_count + 1
    BY <1>l, <2>1, <2>2, <2>b, <2>4, OneMoreShown DEF OrderedLoop
  <2>6. PICK d \in Nat : IsFirst(d)' /\ Cardinality(Against(d)') = behavior_mismatch_count + 1
    BY <2>5
  <2>7. Ordered!Disagreeing' = Against(d)'
    <3>1. /\ d \in DOMAIN shown' /\ shown'[d] # "none"
          /\ \A k \in DOMAIN shown' : shown'[k] # "none" => d <= k
      BY <2>6 DEF IsFirst
    <3>2. Ordered!FirstDecisive' = d
      BY <2>5, <3>1, FirstIs DEF Ordered!Decisive, Ordered!FirstDecisive
    <3> QED
      BY <3>2 DEF Ordered!Disagreeing, Against
  <2>8. Ordered!TimingForgiven'
    BY <1>l, <1>t, <2>2, <2>6, <2>7, SameCardinality DEF Ordered!TimingForgiven, OrderedTypeOK
  <2>9. pass' \in Seq(Colors)
    BY <1>l, <2>1 DEF Ordered!RememberPass, OrderedTypeOK
  <2> QED
    BY <1>l, <2>1, <2>5, <2>8, <2>9
    DEF OrderedInv, OrderedTypeOK, Ordered!VerdictHasEvidence, Ordered!Behaviors
<1>2. CASE Ordered!NextPass
  <2>1. /\ result = "running" /\ Ordered!Note /\ line' = Ordered!Announcement
        /\ result' \in {"running", "DATA_NOT_RECEIVED"}
    BY <1>2 DEF Ordered!NextPass
  <2>2. OrderedTypeOK' /\ OrderedLoop'
    BY <1>l, <2>1, OrderedNote DEF OrderedTypeOK
  <2> QED
    BY <2>1, <2>2, OrderedVerdict
<1>3. CASE Ordered!NoMoreData
  <2>1. /\ result = "running" /\ Ordered!Note /\ line' = line
        /\ result' \in {produced_code', "DATA_NOT_RECEIVED"}
    BY <1>3 DEF Ordered!NoMoreData
  <2>2. OrderedTypeOK' /\ OrderedLoop'
    BY <1>l, <2>1, OrderedNote DEF OrderedTypeOK
  <2> QED
    BY <2>1, <2>2, OrderedVerdict
<1>4. ASSUME NEW next \in Ordered!Sample \cup {Ordered!Text}, Ordered!NextNumber(next)
      PROVE  OrderedInv'
  <2>1. /\ result = "running" /\ Ordered!Note /\ line' = next
        /\ result' \in {"running", produced_code'}
    BY <1>4 DEF Ordered!NextNumber
  <2>2. OrderedTypeOK' /\ OrderedLoop'
    BY <1>l, <2>1, OrderedNote DEF OrderedTypeOK
  <2> QED
    BY <2>1, <2>2, OrderedVerdict
<1> QED
  BY <1>1, <1>2, <1>3, <1>4 DEF Ordered!Next

\* The ordered-access check reports a behavior only with the evidence of the
\* first pass that shows one and of all but a tolerated number of the others,
\* and DATA_NOT_CORRECT only when more passes disagree.
THEOREM OrderedEvidence == FunctionSpec => []OrderedHasEvidence
<1> DEFINE I == function = "ordered" => OrderedInv
<1>1. FunctionInit => I
  BY OrderedInit DEF FunctionInit
<1>2. I /\ [FunctionNext]_functionVars => I'
  <2>1. CASE FunctionNext
    BY <2>1, OrderedNext DEF FunctionNext
  <2>2. CASE UNCHANGED functionVars
    BY <2>2 DEF functionVars, common, orderedVars, OrderedInv, OrderedTypeOK, OrderedLoop, PassCounted,
       PassesJudged, IsFirst, Against, Ordered!VerdictHasEvidence, Ordered!TimingForgiven,
       Ordered!Decisive, Ordered!FirstDecisive, Ordered!Disagreeing
  <2> QED
    BY <2>1, <2>2
<1>3. I => OrderedHasEvidence
  BY DEF OrderedHasEvidence, OrderedInv
<1> QED
  BY <1>1, <1>2, <1>3, PTL DEF FunctionSpec

(***************************************************************************)
(* _coherent_sets_w_instances                                              *)
(***************************************************************************)

CoherentTypeOK ==
  /\ line \in Coherent!Sample \cup {Coherent!Other, Coherent!Announcement}
  /\ run_count \in [Coherent!Instances -> Nat]
  /\ pass \in Seq(Coherent!Instances)
  /\ ignore_firsts_coherent_set \in {0, 1, 2}
  /\ new_coherent_set_read \in BOOLEAN
  /\ coherent_set_sample_count \in Nat
  /\ others \in Nat

\* As long as the samples of an instance come together the runs counted are
\* all of its samples; a lone sample is not counted.
RunsAreCounts ==
  Coherent!Together(pass) /\ Coherent!ColorsApart =>
    \A i \in Coherent!Instances :
      run_count[i] = IF Coherent!Count(i) <= 1 THEN 0 ELSE Coherent!Count(i)

\* What the function knows of the pass and of the passes before it.
CoherentCounted ==
  /\ new_coherent_set_read <=> pass # <<>>
  /\ previous_sample_color = IF pass = <<>> THEN before ELSE pass[Len(pass)][2]
  /\ RunsAreCounts
  /\ "wrong total" \notin accepted
  /\ produced_code \in {"DATA_NOT_RECEIVED", "OK"}
  /\ produced_code = "OK" => accepted # {}

\* The very first sample is not in the total; its pass is ignored.
Uncounted == IF ignore_firsts_coherent_set = 2 THEN 1 ELSE 0

\* The total is one ahead of the lines looked at.
TotalAhead ==
  /\ coherent_set_sample_count =
       Len(pass) + others + (IF line # Coherent!Announcement THEN 1 ELSE 0) - Uncounted
  /\ ignore_firsts_coherent_set = 2 => Coherent!IsSample \/ pass # <<>>

CoherentInv ==
  /\ CoherentTypeOK
  /\ result = "running" => CoherentCounted /\ TotalAhead
  /\ Coherent!OKMeansWholeTotals
  /\ Coherent!GroupedSetsAccepted

LEMMA CoherentInit == Coherent!Init => CoherentInv
<1> SUFFICES ASSUME Coherent!Init PROVE CoherentInv
  OBVIOUS
<1>1. CoherentTypeOK /\ Coherent!IsSample /\ line # Coherent!Announcement
  <2>1. run_count \in [Coherent!Instances -> Nat] /\ pass \in Seq(Coherent!Instances)
    BY DEF Coherent!Init
  <2>2. Coherent!IsSample /\ line # Coherent!Announcement
    BY DEF Coherent!Init, Coherent!IsSample, Coherent!Sample, Coherent!Announcement
  <2> QED
    BY <2>1, <2>2 DEF Coherent!Init, CoherentTypeOK
<1>2. \A i \in Coherent!Instances : Coherent!Count(i) = 0
  <2> SUFFICES ASSUME NEW i \in Coherent!Instances PROVE Coherent!Count(i) = 0
    OBVIOUS
  <2>1. {k \in DOMAIN pass : pass[k] = i} = {}
    BY DEF Coherent!Init
  <2> QED
    BY <2>1, FS_EmptySet, SameCardinality DEF Coherent!Count
<1>3. RunsAreCounts
  BY <1>2 DEF Coherent!Init, RunsAreCounts
<1>4. CoherentCounted /\ TotalAhead
  BY <1>1, <1>3 DEF Coherent!Init, CoherentCounted, TotalAhead, Uncounted
<1> QED
  BY <1>1, <1>4
  DEF Coherent!Init, CoherentInv, Coherent!OKMeansWholeTotals, Coherent!GroupedSetsAccepted

\* A sample added to a pass whose instances still come together.
LEMMA RunsStayCounts ==
  ASSUME CoherentTypeOK, CoherentCounted, line \in Coherent!Sample, Coherent!CountSample
  PROVE  RunsAreCounts'
<1> SUFFICES ASSUME Coherent!Together(pass)', Coherent!ColorsApart',
                    NEW j \in Coherent!Instances
             PROVE  run_count'[j] = IF Coherent!Count(j)' <= 1 THEN 0 ELSE Coherent!Count(j)'
  BY DEF RunsAreCounts
<1>x. PICK x \in Coherent!Instances : x = Coherent!Instance
  BY DEF Coherent!Sample, Coherent!Instance, Coherent!Instances
<1>n. PICK n \in Nat : n = Len(pass)
  BY DEF CoherentTypeOK
<1>t. /\ pass' = Append(pass, x) /\ pass \in Seq(Coherent!Instances)
      /\ before' = before /\ x[2] = line.color
  BY <1>x DEF Coherent!CountSample, CoherentTypeOK, Coherent!Instance
<1>1. /\ Len(pass') = n + 1 /\ pass'[n + 1] = x
      /\ DOMAIN pass = 1..n /\ DOMAIN pass' = 1..(n + 1)
      /\ \A k \in 1..n : pass'[k] = pass[k]
      /\ pass = <<>> <=> n = 0 /\ pass' # <<>>
  BY <1>n, <1>t, AppendProperties, EmptySeq
<1>2. Coherent!Together(pass)
  BY <1>1 DEF Coherent!Together
<1>3. Coherent!ColorsApart
  <2>1. ASSUME NEW k \in 2..n, pass[k][2] = pass[k - 1][2] PROVE pass[k] = pass[k - 1]
    <3>1. k \in 2..(n + 1) /\ k \in 1..n /\ k - 1 \in 1..n
      OBVIOUS
    <3>2. pass'[k] = pass[k] /\ pass'[k - 1] = pass[k - 1]
      BY <1>1, <3>1
    <3> QED
      BY <1>1, <2>1, <3>1, <3>2 DEF Coherent!ColorsApart
  <2>2. ASSUME pass # <<>> PROVE pass[1][2] # before
    <3>1. pass'[1] = pass[1]
      BY <1>1, <2>2
    <3> QED
      BY <1>1, <1>t, <3>1 DEF Coherent!ColorsApart
  <2> QED
    BY <1>n, <2>1, <2>2 DEF Coherent!ColorsApart
<1>4. \A i \in Coherent!Instances :
        /\ Coherent!Count(i) = Cardinality(Places(pass, i))
        /\ Coherent!Count(i)' = Cardinality(Places(Append(pass, x), i))
  BY <1>t, SameCardinality DEF Coherent!Count, Places
<1>5. /\ Coherent!Count(j) \in Nat
      /\ Coherent!Count(j)' = Coherent!Count(j) + (IF x = j THEN 1 ELSE 0)
  BY <1>t, <1>4, PlacesAppend
<1>6. run_count[j] = IF Coherent!Count(j) <= 1 THEN 0 ELSE Coherent!Count(j)
  BY <1>2, <1>3 DEF CoherentCounted, RunsAreCounts
<1>7. /\ run_count' = IF line.color = previous_sample_color
           THEN [run_count EXCEPT ![x] = IF @ = 0 THEN 2 ELSE @ + 1]
           ELSE run_count
      /\ run_count \in [Coherent!Instances -> Nat]
  BY <1>x DEF Coherent!CountSample, CoherentTypeOK
<1>8. CASE x # j
  BY <1>5, <1>6, <1>7, <1>8
<1>9. CASE x = j /\ line.color = previous_sample_color
  <2>1. pass # <<>>
    <3> SUFFICES ASSUME pass = <<>> PROVE FALSE
      OBVIOUS
    <3>1. pass'[1] = x
      BY <1>1
    <3>2. x[2] = before'
      BY <1>9, <1>t DEF CoherentCounted
    <3> QED
      BY <1>1, <3>1, <3>2 DEF Coherent!ColorsApart
  <2>2. n \in 1..n /\ n + 1 \in 2..(n + 1) /\ (n + 1) - 1 = n
    BY <1>1, <2>1
  <2>3. pass'[n + 1][2] = pass'[(n + 1) - 1][2]
    BY <1>1, <1>9, <1>n, <1>t, <2>1, <2>2 DEF CoherentCounted
  <2>4. pass[n] = x
    BY <1>1, <2>2, <2>3 DEF Coherent!ColorsApart
  <2>5. Coherent!Count(j) # 0
    <3>1. n \in Places(pass, j) /\ Places(pass, j) \subseteq 1..n
      BY <1>1, <1>9, <2>2, <2>4 DEF Places
    <3>2. IsFiniteSet(Places(pass, j))
      BY <3>1, Counted
    <3> QED
      BY <1>4, <3>1, <3>2, FS_EmptySet
  <2>6. run_count'[j] = IF run_count[j] = 0 THEN 2 ELSE run_count[j] + 1
    BY <1>7, <1>9
  <2> QED
    BY <1>5, <1>6, <1>9, <2>5, <2>6
<1>10. CASE x = j /\ line.color # previous_sample_color
  <2>1. Places(pass, j) = {}
    <3> SUFFICES ASSUME NEW k \in 1..n, pass[k] = x PROVE FALSE
      BY <1>1, <1>10 DEF Places
    <3>1. pass # <<>> /\ n \in 1..n
      BY <1>1
    <3>2. pass[n] # x
      BY <1>10, <1>n, <1>t, <3>1 DEF CoherentCounted
    <3>3. k < n
      BY <3>2
    <3>4. pass'[k] = pass'[n + 1] /\ k \in DOMAIN pass' /\ n \in DOMAIN pass'
          /\ n + 1 \in DOMAIN pass' /\ n < n + 1
      BY <1>1, <3>1
    <3>5. pass'[n] = pass'[k]
      BY <3>3, <3>4 DEF Coherent!Together
    <3> QED
      BY <1>1, <3>1, <3>2, <3>5
  <2>2. Coherent!Count(j) = 0
    BY <1>4, <2>1, FS_EmptySet
  <2>3. run_count'[j] = run_count[j]
    BY <1>7, <1>10
  <2> QED
    BY <1>5, <1>6, <1>10, <2>2, <2>3
<1> QED
  BY <1>8, <1>9, <1>10

\* One iteration of the loop up to the expect: what is known of the pass, and
\* the total that the iteration leaves.
LEMMA CoherentLook ==
  ASSUME CoherentTypeOK, CoherentCounted, TotalAhead, Coherent!Look
  PROVE  /\ CoherentCounted'
         /\ run_count' \in [Coherent!Instances -> Nat] /\ pass' \in Seq(Coherent!Instances)
         /\ ignore_firsts_coherent_set' \in {0, 1, 2} /\ new_coherent_set_read' \in BOOLEAN
         /\ others' \in Nat /\ Coherent!TotalKept \in Nat
         /\ Coherent!TotalKept = Len(pass') + others' - Uncounted'
         /\ ignore_firsts_coherent_set' = 2 => pass' # <<>>
<1>0. /\ run_count \in [Coherent!Instances -> Nat] /\ pass \in Seq(Coherent!Instances)
      /\ ignore_firsts_coherent_set \in {0, 1, 2} /\ new_coherent_set_read \in BOOLEAN
      /\ coherent_set_sample_count \in Nat /\ others \in Nat /\ Len(pass) \in Nat
  BY DEF CoherentTypeOK
<1>1. CASE line \in Coherent!Sample
  <2>1. line.kind = "sample" /\ line # Coherent!Announcement /\ line # Coherent!Other
    BY <1>1 DEF Coherent!Sample, Coherent!Announcement, Coherent!Other
  <2>2. Coherent!CountSample /\ others' = others
    BY <2>1 DEF Coherent!Look, Coherent!CountSample
  <2>3. RunsAreCounts'
    BY <1>1, <2>2, RunsStayCounts
  <2>4. Coherent!Instance \in Coherent!Instances /\ Coherent!Instance[2] = line.color
    BY <1>1 DEF Coherent!Sample, Coherent!Instance, Coherent!Instances
  <2>5. /\ pass' \in Seq(Coherent!Instances) /\ pass' # <<>> /\ Len(pass') = Len(pass) + 1
        /\ pass'[Len(pass')][2] = line.color
    BY <1>0, <2>2, <2>4, AppendProperties DEF Coherent!CountSample
  <2>6. run_count' \in [Coherent!Instances -> Nat]
    BY <1>0, <2>2, <2>4 DEF Coherent!CountSample
  <2>7. CoherentCounted'
    BY <2>2, <2>3, <2>5 DEF CoherentCounted, Coherent!CountSample
  <2>8. ignore_firsts_coherent_set' = ignore_firsts_coherent_set /\ new_coherent_set_read' = TRUE
    BY <2>2 DEF Coherent!CountSample
  <2>9. Coherent!TotalKept = coherent_set_sample_count
    BY <2>1 DEF Coherent!TotalKept
  <2>10. Coherent!TotalKept \in Nat /\ Coherent!TotalKept = Len(pass') + others' - Uncounted'
    BY <1>0, <2>1, <2>2, <2>5, <2>8, <2>9 DEF TotalAhead, Uncounted
  <2> QED
    BY <1>0, <2>2, <2>5, <2>6, <2>7, <2>8, <2>10
<1>3. CASE line = Coherent!Other
  <2>1. line # Coherent!Announcement /\ line.kind # "sample"
    BY <1>3 DEF Coherent!Other, Coherent!Announcement
  <2>2. Coherent!CountOther
    BY <2>1 DEF Coherent!Look, Coherent!IsSample
  <2>3. /\ others' = others + 1
        /\ UNCHANGED <<first, run_count, previous_sample_color, new_coherent_set_read,
                       ignore_firsts_coherent_set, produced_code, pass, before, accepted>>
    BY <2>2 DEF Coherent!CountOther
  <2>4. CoherentCounted'
    BY <2>3
    DEF CoherentCounted, RunsAreCounts, Coherent!Together, Coherent!ColorsApart, Coherent!Count
  <2>5. Coherent!TotalKept = coherent_set_sample_count
    BY <2>1 DEF Coherent!TotalKept
  <2>6. Uncounted' = Uncounted /\ Uncounted \in {0, 1}
    BY <2>3 DEF Uncounted
  <2>7. ignore_firsts_coherent_set = 2 => pass # <<>>
    BY <2>1 DEF TotalAhead, Coherent!IsSample
  <2>8. Coherent!TotalKept = Len(pass') + others' - Uncounted'
    BY <1>0, <2>1, <2>3, <2>5, <2>6 DEF TotalAhead
  <2> QED
    BY <1>0, <2>3, <2>4, <2>5, <2>7, <2>8
<1>2. CASE line = Coherent!Announcement
  <2>1. Coherent!CountPass /\ ~Coherent!IsSample /\ ~Coherent!Rejected
    BY <1>2 DEF Coherent!Look, Coherent!IsSample, Coherent!Announcement, Coherent!Other
  <2>2. pass' = <<>> /\ before' = previous_sample_color /\ new_coherent_set_read' = FALSE
        /\ previous_sample_color' = previous_sample_color
        /\ others' = IF new_coherent_set_read THEN 0 ELSE others
    BY <2>1 DEF Coherent!CountPass, Coherent!RememberPass
  <2>3. \A i \in Coherent!Instances : Coherent!Count(i)' = 0
    <3> SUFFICES ASSUME NEW i \in Coherent!Instances PROVE Coherent!Count(i)' = 0
      OBVIOUS
    <3>1. {k \in DOMAIN pass' : pass'[k] = i} = {}
      BY <2>2
    <3> QED
      BY <3>1, FS_EmptySet, SameCardinality DEF Coherent!Count
  <2>4. pass' \in Seq(Coherent!Instances) /\ Len(pass') = 0
    BY <2>2
  <2>b. new_coherent_set_read' \in BOOLEAN
    BY <2>2, Zenon
  <2>5. CASE new_coherent_set_read
    <3>1. /\ run_count' = [i \in Coherent!Instances |-> 0]
          /\ ignore_firsts_coherent_set' =
               IF ignore_firsts_coherent_set # 0 THEN ignore_firsts_coherent_set - 1 ELSE 0
          /\ produced_code' = IF ignore_firsts_coherent_set # 0 THEN produced_code ELSE "OK"
      BY <1>0, <2>1, <2>5 DEF Coherent!CountPass
    <3>2. run_count' \in [Coherent!Instances -> Nat] /\ RunsAreCounts'
      BY <2>3, <3>1 DEF RunsAreCounts
    <3>3. ignore_firsts_coherent_set' \in {0, 1}
      BY <1>0, <3>1
    <3>4. Coherent!TotalKept = 0
      BY <1>2, <2>5 DEF Coherent!TotalKept
    <3>5. CASE ignore_firsts_coherent_set # 0
      <4>1. accepted' = accepted /\ produced_code' = produced_code
        BY <2>1, <3>1, <3>5 DEF Coherent!CountPass, Coherent!RememberPass, Coherent!JudgesPass
      <4>2. CoherentCounted'
        BY <2>2, <3>2, <4>1 DEF CoherentCounted
      <4>3. Uncounted' = 0
        BY <3>3 DEF Uncounted
      <4> QED
        BY <2>b, <2>2, <2>4, <2>5, <3>2, <3>3, <3>4, <4>2, <4>3
    <3>6. CASE ignore_firsts_coherent_set = 0
      <4>1. Coherent!JudgesPass
        BY <1>2, <2>5, <3>6 DEF Coherent!JudgesPass
      <4>2. coherent_set_sample_count = Len(pass) + others
        BY <1>0, <1>2, <3>6 DEF TotalAhead, Uncounted
      <4>3. Coherent!WholeTotal
        BY <2>1, <4>1, <4>2 DEF Coherent!Rejected, Coherent!WholeTotal
      <4>4. accepted' = accepted \cup {"whole total"}
        BY <2>1, <4>1, <4>3 DEF Coherent!CountPass, Coherent!RememberPass
      <4>5. CoherentCounted'
        BY <2>2, <3>1, <3>2, <3>6, <4>4 DEF CoherentCounted
      <4>6. Uncounted' = 0
        BY <3>3 DEF Uncounted
      <4> QED
        BY <2>b, <2>2, <2>4, <2>5, <3>2, <3>3, <3>4, <4>5, <4>6
    <3> QED
      BY <3>5, <3>6
  <2>6. CASE ~new_coherent_set_read
    <3>1. /\ UNCHANGED <<run_count, ignore_firsts_coherent_set, produced_code, accepted>>
          /\ pass = <<>>
      BY <2>1, <2>6
      DEF Coherent!CountPass, Coherent!RememberPass, Coherent!JudgesPass, CoherentCounted
    <3>2. ignore_firsts_coherent_set # 2 /\ coherent_set_sample_count = others
      BY <1>0, <1>2, <2>1, <3>1 DEF TotalAhead, Uncounted
    <3>3. Coherent!TotalKept = others /\ others' = others
      BY <2>2, <2>6, <3>2 DEF Coherent!TotalKept
    <3>4. \A i \in Coherent!Instances : run_count[i] = 0
      <4>1. Coherent!Together(pass) /\ Coherent!ColorsApart
        BY <3>1 DEF Coherent!Together, Coherent!ColorsApart
      <4>2. \A i \in Coherent!Instances : Coherent!Count(i) = 0
        <5> SUFFICES ASSUME NEW i \in Coherent!Instances PROVE Coherent!Count(i) = 0
          OBVIOUS
        <5>1. {k \in DOMAIN pass : pass[k] = i} = {}
          BY <3>1
        <5> QED
          BY <5>1, FS_EmptySet, SameCardinality DEF Coherent!Count
      <4> QED
        BY <4>1, <4>2 DEF CoherentCounted, RunsAreCounts
    <3>5. RunsAreCounts'
      BY <2>3, <3>1, <3>4 DEF RunsAreCounts
    <3>6. CoherentCounted'
      BY <2>2, <3>1, <3>5 DEF CoherentCounted
    <3>7. Uncounted' = 0
      BY <3>1, <3>2 DEF Uncounted
    <3> QED
      BY <1>0, <2>b, <2>4, <3>1, <3>2, <3>3, <3>6, <3>7
  <2> QED
    BY <2>5, <2>6
<1> QED
  BY <1>1, <1>2, <1>3 DEF CoherentTypeOK

\* A verdict taken from produced_code is justified.
LEMMA CoherentVerdict ==
  ASSUME CoherentTypeOK', CoherentCounted', TotalAhead' \/ result' # "running",
         result' \in {"running", "DATA_NOT_RECEIVED", produced_code'}
  PROVE  CoherentInv'
<1>1. result' # "DATA_NOT_CORRECT"
  BY DEF CoherentCounted
<1> QED
  BY <1>1 DEF CoherentInv, CoherentCounted, Coherent!OKMeansWholeTotals,
     Coherent!GroupedSetsAccepted

LEMMA CoherentNext == CoherentInv /\ Coherent!Next => CoherentInv'
<1> SUFFICES ASSUME CoherentInv, Coherent!Next PROVE CoherentInv'
  OBVIOUS
<1>l. CoherentTypeOK /\ (result = "running" => CoherentCounted /\ TotalAhead)
  BY DEF CoherentInv
<1>a. PerInstance \in Nat \ {0}
  BY CheckFunctionsAssumption DEF Coherent!CoherentSetsAssumption
<1>1. CASE Coherent!Reject
  <2>1. /\ CoherentCounted /\ TotalAhead /\ Coherent!Rejected /\ result' = "DATA_NOT_CORRECT"
        /\ UNCHANGED <<line, run_count, pass, others, before, ignore_firsts_coherent_set,
                       new_coherent_set_read, coherent_set_sample_count>>
    BY <1>1, <1>l DEF Coherent!Reject
  <2>2. ~ /\ Coherent!Together(pass) /\ Coherent!ColorsApart
          /\ Coherent!WholeTotal
          /\ \A i \in Coherent!Instances : Coherent!Count(i) % PerInstance = 0
    <3> SUFFICES ASSUME Coherent!Together(pass), Coherent!ColorsApart,
                        Coherent!WholeTotal,
                        \A i \in Coherent!Instances : Coherent!Count(i) % PerInstance = 0
                 PROVE  FALSE
      OBVIOUS
    <3>1. ignore_firsts_coherent_set = 0 /\ line = Coherent!Announcement
      BY <2>1 DEF Coherent!Rejected, Coherent!JudgesPass
    <3>2. coherent_set_sample_count = Len(pass) + others
      BY <1>l, <2>1, <3>1 DEF CoherentTypeOK, TotalAhead, Uncounted
    <3>3. PICK i \in Coherent!Instances : run_count[i] % PerInstance # 0
      BY <2>1, <3>2 DEF Coherent!Rejected, Coherent!WholeTotal
    <3>4. run_count[i] = 0 \/ run_count[i] = Coherent!Count(i)
      BY <2>1 DEF CoherentCounted, RunsAreCounts
    <3>5. 0 % PerInstance = 0
      BY <1>a
    <3> QED
      BY <3>3, <3>4, <3>5
  <2>3. Coherent!GroupedSetsAccepted'
    BY <2>1, <2>2
    DEF Coherent!GroupedSetsAccepted, Coherent!Together, Coherent!ColorsApart, Coherent!Count,
        Coherent!WholeTotal
  <2> QED
    BY <1>l, <2>1, <2>3 DEF CoherentInv, CoherentTypeOK, Coherent!OKMeansWholeTotals
<1>2. CASE Coherent!NextPass
  <2>1. /\ Coherent!Look /\ result = "running" /\ line' = Coherent!Announcement
        /\ coherent_set_sample_count' = Coherent!TotalKept
        /\ result' \in {"running", "DATA_NOT_RECEIVED"}
    BY <1>2 DEF Coherent!NextPass, Coherent!Look
  <2>2. /\ CoherentCounted'
        /\ run_count' \in [Coherent!Instances -> Nat] /\ pass' \in Seq(Coherent!Instances)
        /\ ignore_firsts_coherent_set' \in {0, 1, 2} /\ new_coherent_set_read' \in BOOLEAN
        /\ others' \in Nat /\ Coherent!TotalKept \in Nat
        /\ Coherent!TotalKept = Len(pass') + others' - Uncounted'
        /\ ignore_firsts_coherent_set' = 2 => pass' # <<>>
    BY <1>l, <2>1, CoherentLook
  <2>3. CoherentTypeOK'
    BY <2>1, <2>2 DEF CoherentTypeOK
  <2>4. /\ line' = Coherent!Announcement' /\ Coherent!Announcement' = Coherent!Announcement
        /\ Len(pass') \in Nat /\ Uncounted' \in {0, 1}
    BY <2>1, <2>2 DEF Coherent!Announcement, Uncounted
  <2>5. TotalAhead'
    BY <2>1, <2>2, <2>4 DEF TotalAhead
  <2> QED
    BY <2>1, <2>2, <2>3, <2>5, CoherentVerdict
<1>3. CASE Coherent!NoMoreData
  <2>1. /\ Coherent!Look /\ result = "running" /\ line' = line
        /\ coherent_set_sample_count' = Coherent!TotalKept
        /\ result' \in {produced_code', "DATA_NOT_RECEIVED"}
    BY <1>3 DEF Coherent!NoMoreData, Coherent!Look
  <2>2. /\ CoherentCounted'
        /\ run_count' \in [Coherent!Instances -> Nat] /\ pass' \in Seq(Coherent!Instances)
        /\ ignore_firsts_coherent_set' \in {0, 1, 2} /\ new_coherent_set_read' \in BOOLEAN
        /\ others' \in Nat /\ Coherent!TotalKept \in Nat
    BY <1>l, <2>1, CoherentLook
  <2>3. CoherentTypeOK'
    BY <1>l, <2>1, <2>2 DEF CoherentTypeOK
  <2>4. result' # "running"
    BY <2>1, <2>2 DEF CoherentCounted
  <2> QED
    BY <2>1, <2>2, <2>3, <2>4, CoherentVerdict
<1>4. ASSUME NEW next \in Coherent!Sample \cup {Coherent!Other}, Coherent!NextNumber(next)
      PROVE  CoherentInv'
  <2>1. /\ Coherent!Look /\ result = "running" /\ line' = next
        /\ coherent_set_sample_count' = Coherent!TotalKept + 1
        /\ result' \in {"running", produced_code'}
    BY <1>4 DEF Coherent!NextNumber, Coherent!Look
  <2>2. /\ CoherentCounted'
        /\ run_count' \in [Coherent!Instances -> Nat] /\ pass' \in Seq(Coherent!Instances)
        /\ ignore_firsts_coherent_set' \in {0, 1, 2} /\ new_coherent_set_read' \in BOOLEAN
        /\ others' \in Nat /\ Coherent!TotalKept \in Nat
        /\ Coherent!TotalKept = Len(pass') + others' - Uncounted'
        /\ ignore_firsts_coherent_set' = 2 => pass' # <<>>
    BY <1>l, <2>1, CoherentLook
  <2>3. CoherentTypeOK'
    BY <2>1, <2>2 DEF CoherentTypeOK
  <2>4. /\ line' # Coherent!Announcement /\ Len(pass') \in Nat /\ Uncounted' \in {0, 1}
        /\ Coherent!Announcement' = Coherent!Announcement
    BY <2>1, <2>2
    DEF Coherent!Sample, Coherent!Other, Coherent!Announcement, Uncounted
  <2>5. TotalAhead'
    BY <2>1, <2>2, <2>4 DEF TotalAhead
  <2> QED
    BY <2>1, <2>2, <2>3, <2>5, CoherentVerdict
<1> QED
  BY <1>1, <1>2, <1>3, <1>4 DEF Coherent!Next

\* OK of the coherent sets' check means that the [number]s of every pass judged,
\* samples or not, were a multiple of expected_total, although the total is
\* counted one line ahead, and complete sets that come instance by instance are
\* rejected only where a color continues over the border of a pass or a topic.
THEOREM CoherentJudged == FunctionSpec => []CoherentSetsJudged
<1> DEFINE I == function = "coherent" => CoherentInv
<1>1. FunctionInit => I
  BY CoherentInit DEF FunctionInit
<1>2. I /\ [FunctionNext]_functionVars => I'
  <2>1. CASE FunctionNext
    BY <2>1, CoherentNext DEF FunctionNext
  <2>2. CASE UNCHANGED functionVars
    <3> USE <2>2 DEF functionVars, common, coherentVars
    <3>1. CoherentTypeOK => CoherentTypeOK'
      BY DEF CoherentTypeOK
    <3>2. CoherentCounted => CoherentCounted'
      BY DEF CoherentCounted, RunsAreCounts, Coherent!Together, Coherent!ColorsApart,
         Coherent!Count
    <3>3. TotalAhead => TotalAhead'
      BY DEF TotalAhead, Uncounted, Coherent!IsSample
    <3>4. Coherent!OKMeansWholeTotals => Coherent!OKMeansWholeTotals'
      BY DEF Coherent!OKMeansWholeTotals
    <3>5. Coherent!GroupedSetsAccepted => Coherent!GroupedSetsAccepted'
      BY DEF Coherent!GroupedSetsAccepted, Coherent!Together, Coherent!ColorsApart,
         Coherent!Count, Coherent!WholeTotal
    <3> QED
      BY <3>1, <3>2, <3>3, <3>4, <3>5 DEF CoherentInv
  <2> QED
    BY <2>1, <2>2
<1>3. I => CoherentSetsJudged
  BY DEF CoherentSetsJudged, CoherentInv
<1> QED
  BY <1>1, <1>2, <1>3, PTL DEF FunctionSpec

===============================================================================
