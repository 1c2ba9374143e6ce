---------------------------- MODULE DiscoveryRun ---------------------------
(***************************************************************************)
(* The ways the sniffer and interoperability_report.py are run:            *)
(*   script  discovery/run_discovery_tests.sh: for every pair the sniffer  *)
(*           in the background next to main(), then a wait for both;       *)
(*   pcap    the sniffer alone, several times, on existing captures;       *)
(*   direct  interoperability_report.py alone, several times, on the same  *)
(*           report (-o), which is what the other runner scripts do.       *)
(* A process may be killed at any moment; the script goes on to the next   *)
(* pair whatever became of it.                                             *)
(***************************************************************************)
EXTENDS DiscoverySniffer, InteropReport

CONSTANTS
  Pairs,        \* the pairs of executables, in the order of the two loops
  SPDP,         \* what the two participants announce while a test case runs
  Packets,      \* the packets of existing captures
  MaxPackets,   \* packets of an existing capture
  MaxRuns,      \* runs of one tool on the same report
  MaxKills,     \* processes that are killed
  Selections    \* the test cases given to main(): [tests, disabled]

\* The name of a pair is publisher---subscriber: none of the names that stand
\* for a run without one.
ASSUME RunAssumption ==
  /\ Pairs \in Seq(STRING)
  /\ {"", "run_1", "run_timestamp", "rtps_discovery_report"} \cap Range(Pairs) = {}
  /\ {1} \cup 1..Len(Pairs) \subseteq Stamps
  /\ MaxPackets \in Nat /\ MaxKills \in Nat
  /\ \A p \in SPDP \cup Packets : p.sedp \in Seq(Range(p.sedp))

VARIABLES
  mode,         \* script, pcap or direct
  conf,         \* the script's options, and whether ./timestamp is written
                \* while it runs
  script,       \* where the script is
  nth,          \* the pair the script is at, or the runs made so far
  kills,        \* processes killed so far
  sniffed,      \* history: <<stamp, key, failed cases>> of the sniffer's runs
  tested,       \* history: <<report, pair, results>> of main()'s runs
  damaged       \* history: the reports whose writer was killed

vars == <<svars, mvars, mode, conf, script, nth, kills, sniffed, tested, damaged>>

Names == {"out"} \cup {Pairs[i] : i \in DOMAIN Pairs}

\* The sniffer's reports and main()'s share no file, so that one choice decides
\* for both whether the pairs share their reports.  The script passes on -t, or
\* the first test case for --discovery-only; all of them are run in mode direct.
Confs == {c \in [output : BOOLEAN, skip_discovery : BOOLEAN, timestamp : BOOLEAN,
                  selection : Selections] :
            c.output = c.timestamp /\ c.selection.tests # {}}

Init ==
  /\ SInit /\ MInit(Names) /\ stamp = 1 /\ target = "out"
  /\ mode \in {"script", "pcap", "direct"} /\ conf \in Confs
  /\ mode # "script" => conf = CHOOSE c \in Confs : TRUE
  /\ script = "pair" /\ nth = 1 /\ kills = 0 /\ sniffed = {} /\ tested = {} /\ damaged = {}

Rest == UNCHANGED <<mode, conf, kills, sniffed, tested, damaged>>

\* The names of the reports: every pair has its own date unless ./timestamp
\* exists, and its own interoperability report unless -o is given.
PairStamp == IF conf.timestamp THEN 1 ELSE nth
PairReport == IF conf.output THEN "out" ELSE Pairs[nth]

Options(pair, s, announce) ==
  [pair |-> pair, tests |-> s.tests, disabled |-> s.disabled, announce |-> announce]

StartSniffer ==
  /\ mode = "script" /\ script = "pair" /\ nth <= Len(Pairs)
  /\ script' = "sniffing" /\ UNCHANGED <<nth, mvars>> /\ Rest
  /\ IF conf.skip_discovery THEN UNCHANGED svars
     ELSE \E tshark \in BOOLEAN : StartCapture(Pairs[nth], PairStamp, tshark)

\* --periodic-announcement for a Connext publisher with an OpenDDS subscriber:
\* here, the first pair.
StartMain ==
  /\ mode = "script" /\ script = "sniffing" /\ script' = "testing"
  /\ Main(Options(Pairs[nth], conf.selection, nth = 1), PairReport)
  /\ UNCHANGED <<svars, nth>> /\ Rest

\* wait: both processes have ended, whatever their exit codes.
NextPair ==
  /\ mode = "script" /\ script = "testing" /\ m_pc \in Stopped /\ s_pc \in Resting
  /\ script' = IF nth = Len(Pairs) THEN "done" ELSE "pair"
  /\ nth' = nth + 1
  /\ UNCHANGED <<svars, mvars>> /\ Rest

\* The participants of a running test case announce themselves; a packet sent
\* outside the window of the capture is not seen, and one inside may be lost.
Announce ==
  /\ m_pc \in {"run", "hung"}
  /\ \E p \in SPDP : (\A i \in DOMAIN captured : captured[i] # p) /\ Capture(p)
  /\ UNCHANGED <<mvars, script, nth>> /\ Rest

\* Only what the two participants announce is read into a report again.
SniffPcap ==
  /\ mode = "pcap" /\ nth <= MaxRuns /\ nth' = nth + 1
  /\ nth > 1 => Range(captured) \subseteq SPDP
  /\ \E k \in {""} \cup Range(Pairs) :
       \E packets \in {<<>>} \cup [1..2 -> SPDP]
                        \cup UNION {[1..n -> Packets] : n \in {m \in 1..MaxPackets : nth = 1}} :
         ReadPcap(k, 1, packets)
  /\ UNCHANGED <<mvars, script>> /\ Rest

TestDirectly ==
  /\ mode = "direct" /\ nth <= MaxRuns /\ nth' = nth + 1
  /\ \E i \in DOMAIN Pairs, s \in Selections : Main(Options(Pairs[i], s, FALSE), "out")
  /\ UNCHANGED <<svars, script>> /\ Rest

StepSniffer ==
  /\ SnifferStep
  /\ sniffed' = IF s_pc' = "cleanup"
                THEN sniffed \cup {<<stamp, key, FailedCases(summary, Args)>>} ELSE sniffed
  /\ UNCHANGED <<mvars, mode, conf, script, nth, kills, tested, damaged>>

StepMain ==
  /\ MainStep
  /\ tested' = IF m_pc' = "done"
               THEN tested \cup {<<target, options.pair, suite>>} ELSE tested
  /\ UNCHANGED <<svars, mode, conf, script, nth, kills, sniffed, damaged>>

KillOne ==
  /\ kills < MaxKills /\ kills' = kills + 1
  /\ \/ Kill /\ UNCHANGED <<mvars, damaged>>
     \/ /\ KillMain /\ UNCHANGED svars
        /\ damaged' = IF m_pc = "write" THEN damaged \cup {target} ELSE damaged
  /\ UNCHANGED <<mode, conf, script, nth, sniffed, tested>>

Ended ==
  /\ \/ script = "done"
     \/ mode # "script" /\ nth > 1 /\ m_pc \in Stopped /\ s_pc \in Resting
     \/ m_pc = "hung" /\ s_pc \in Resting
  /\ UNCHANGED vars

Next ==
  \/ StartSniffer \/ StartMain \/ NextPair \/ Announce
  \/ SniffPcap \/ TestDirectly \/ StepSniffer \/ StepMain \/ KillOne \/ Ended

\* The processes run on their own; bash waits for both of them.  That a test case
\* returns is not assumed.
Fairness ==
  /\ WF_vars(StepSniffer) /\ WF_vars(StepMain)
  /\ WF_vars(StartSniffer) /\ WF_vars(StartMain) /\ WF_vars(NextPair)

Spec == Init /\ [][Next]_vars /\ Fairness

-----------------------------------------------------------------------------

TypeOK ==
  /\ SnifferTypeOK /\ MainTypeOK
  /\ script \in {"pair", "sniffing", "testing", "done"}
  /\ nth \in Nat /\ kills \in 0..MaxKills

\* Packets that do not contradict each other: a participant always announces
\* one vendor, one version and one mask with a named flag (or none), and an
\* endpoint is announced alone and always alike.
Consistent(c) ==
  /\ \A i, j \in DOMAIN c : guid_p(c[i]) = guid_p(c[j]) =>
       /\ c[i].vendor = c[j].vendor /\ c[i].version = c[j].version
       /\ {c[i].mask, c[j].mask} \ {Unknown} \subseteq {c[i].mask} \/ c[i].mask = Unknown
  /\ \A i \in DOMAIN c : c[i].mask # Unknown => Flags(c[i].mask) # {}
  /\ \A i \in DOMAIN c : Len(c[i].sedp) <= 1
  /\ \A i, j \in DOMAIN c :
       Len(c[i].sedp) = 1 /\ Len(c[j].sedp) = 1 =>
         (Key(c[i].sedp[1]) = Key(c[j].sedp[1]) => c[i].sedp = c[j].sedp)

\* The captures with the same packets in another order, some of them doubled.
Arrivals(c) == {d \in [DOMAIN c -> Range(c)] : Range(d) = Range(c)}

View(s) ==
  [participants |-> [g \in DOMAIN s.participants |-> [s.participants[g] EXCEPT !.lease = 0]],
   endpoints |-> Endpoints(s), count |-> Len(s.endpoints)]

\* What the sniffer finds (but for the lease) does not depend on the order in
\* which UDP delivered consistent packets, nor on duplicates of them.
ArrivalOrderIrrelevant ==
  (s_pc = "dump" /\ Consistent(captured)) =>
    \A d \in Arrivals(captured) :
      View(parse_discovery_data(d)) = View(parse_discovery_data(captured))

\* The participant of packet i announced an all-zero mask in it, and no packet
\* of the participant, before or after, named a flag.
ZeroMask(c, i) ==
  /\ guid_p(c[i]) # "" /\ c[i].mask = 0
  /\ \A j \in DOMAIN c : guid_p(c[j]) = guid_p(c[i]) => Flags(c[j].mask) = {}

BuiltinEndpointsFail == "Builtin_Endpoints" \in FailedCases(parse_discovery_data(captured), Args)

\* Test_SPDP_Builtin_Endpoints blames no participant wrongly: in whatever order
\* its packets arrived and whatever else they carried, it fails only if some
\* participant announced an all-zero mask and never a flag.
BlameIsJust == s_pc = "dump" /\ BuiltinEndpointsFail => \E i \in DOMAIN captured : ZeroMask(captured, i)

\* README_DISCOVERY.md: the condition on which Test_SPDP_Builtin_Endpoints fails
\* is the mask 0x00000000, wherever among the packets of its participant.
ZeroMaskFails == s_pc = "dump" /\ (\E i \in DOMAIN captured : ZeroMask(captured, i)) => BuiltinEndpointsFail

\* Whenever the sniffer rests and no process was killed, every run it finished
\* is in the JUnit report of its date, however many runs shared that report, and
\* both reports of a date agree: the last result of a pair in the JUnit report
\* is that of the summary the JSON report holds for the pair.
DiscoveryReportsAgree ==
  (kills = 0 /\ s_pc \in Resting) =>
    /\ \A r \in sniffed : r[2] # "" => <<r[2], r[3]>> \in ResultsOf(xml[r[1]].suites)
    /\ \A f \in Stamps :
         /\ json[f].state = "absent" <=> xml[f].state = "absent"
         /\ \A i \in DOMAIN xml[f].suites :
              LET su == xml[f].suites[i] IN
              su.name \in Range(Pairs) =>
                /\ su.name \in DOMAIN json[f].runs
                /\ su.cases[Len(su.cases)] = FailedCases(json[f].runs[su.name], Args)

Place(t) == CHOOSE i \in DOMAIN TestSuite : TestSuite[i].name = t

\* main() reports all of the selected test cases or none: until it writes, and
\* when it raises, the report is what it read; when it is done, the suite holds
\* the selected test cases, each once and in the order of the test suite, and
\* every application of theirs was started with one data representation.
AllOrNothing ==
  /\ m_pc \in {"select", "run", "hung", "raised"} => reports[target].suites = old
  /\ m_pc = "done" =>
       /\ {suite[i][1] : i \in DOMAIN suite} = {t \in TestNames : ~Skipped(t)}
       /\ \A i, j \in DOMAIN suite : i < j => Place(suite[i][1]) < Place(suite[j][1])
       /\ \A i \in DOMAIN suite : \A a \in DOMAIN parameters[suite[i][1]] :
            LET app == parameters[suite[i][1]][a]
            IN  Cardinality({o \in DOMAIN app : app[o] = "-x"}) = 1

\* A report of main() that can be read holds the results of every run that was
\* told to add to it and finished, even after other runs were killed.
InteropResultsKept ==
  \A r \in tested : reports[r[1]].state = "ok" =>
    \A i \in DOMAIN r[3] : <<r[2], r[3][i]>> \in ResultsOf(reports[r[1]].suites)

\* A report that a killed main() left half written stays so: every later run
\* on it raises before its first test case, and none repairs it.
BrokenStays == \A n \in damaged : reports[n].state = "broken"

\* The script comes to an end, whatever raises or is killed under it, unless a
\* test case never returns: wait has no time-out, and main() none either.
ScriptEnds == mode = "script" => <>(script = "done") \/ <>[](m_pc = "hung")

=============================================================================
