------------------------- MODULE DiscoverySniffer --------------------------
(***************************************************************************)
(* discovery/rtps_discovery_sniffer.py: one run of the sniffer, from the   *)
(* live capture (or an existing pcap) to the JSON and the JUnit report.    *)
(* Both reports are read, changed in memory and written back; open() for   *)
(* writing truncates a file before the new content is in it, so a run that *)
(* is killed in between leaves a broken file behind.                       *)
(***************************************************************************)
EXTENDS DiscoverySummary, JunitReport

CONSTANT Stamps  \* the timestamps in the names of the reports

VARIABLES
  s_pc,      \* where the sniffer is
  key,       \* --publisher---subscriber, "" when they are not given
  captured,  \* the packets in the pcap file, in order of arrival
  temp,      \* the temporary pcap file exists
  summary,   \* what parse_discovery_data returned
  stamp,     \* the timestamp of this run, which names its two reports
  json,      \* the JSON reports: their state and the summary of each run
  xml,       \* the JUnit reports
  pending    \* the content about to be written: [json, suites]

svars == <<s_pc, key, captured, temp, summary, stamp, json, xml, pending>>
unchanged_run == UNCHANGED <<key, stamp, captured, temp>>

NoJson == [state |-> "absent", runs |-> <<>>]
BrokenJson == [state |-> "broken", runs |-> <<>>]
Nothing == [json |-> NoJson, suites |-> <<>>]
Resting == {"idle", "done", "raised", "killed"}

SInit ==
  /\ s_pc = "idle" /\ key = "" /\ captured = <<>> /\ temp = FALSE
  /\ summary = Empty /\ pending = Nothing /\ stamp \in Stamps
  /\ json = [f \in Stamps |-> NoJson] /\ xml = [f \in Stamps |-> Absent]

\* run_discovery_sniffer: a live capture into a temporary file, which needs
\* tshark, or a pcap that is there already.
StartCapture(k, f, tshark) ==
  /\ s_pc \in Resting
  /\ s_pc' = IF tshark THEN "capture" ELSE "raised"
  /\ key' = k /\ stamp' = f /\ captured' = <<>> /\ temp' = TRUE
  /\ summary' = Empty /\ pending' = Nothing
  /\ UNCHANGED <<json, xml>>

ReadPcap(k, f, packets) ==
  /\ s_pc \in Resting
  /\ s_pc' = "dump" /\ key' = k /\ stamp' = f /\ captured' = packets /\ temp' = FALSE
  /\ summary' = Empty /\ pending' = Nothing
  /\ UNCHANGED <<json, xml>>

\* A packet of a participant reaches the interface while tshark listens.
Capture(pkt) ==
  /\ s_pc = "capture"
  /\ captured' = Append(captured, pkt)
  /\ UNCHANGED <<s_pc, key, stamp, temp, summary, json, xml, pending>>

\* Mutant: nothing ends the capture.
EndCapture_NoDuration ==
  /\ s_pc = "capture" /\ s_pc' = "capture"
  /\ unchanged_run /\ UNCHANGED <<summary, json, xml, pending>>

\* The capture window ends, by tshark's -a duration or by the time-out.
EndCapture ==
  /\ s_pc = "capture" /\ s_pc' = "dump"
  /\ unchanged_run /\ UNCHANGED <<summary, json, xml, pending>>

\* dump_rtps_json_from_pcap, [] when tshark fails, and parse_discovery_data.
Dump(dissected) ==
  /\ s_pc = "dump" /\ s_pc' = "json_read"
  /\ summary' = parse_discovery_data(IF dissected THEN captured ELSE <<>>)
  /\ unchanged_run /\ UNCHANGED <<json, xml, pending>>

\* parse_discovery_data raises on a port that int() refuses, as 007: before any
\* report is touched, and with the temporary file left behind.
DumpRaises ==
  /\ s_pc = "dump" /\ s_pc' = "raised"
  /\ unchanged_run /\ UNCHANGED <<summary, json, xml, pending>>

\* The key of a run in the JSON report, and of the run a report with a single
\* summary holds.
pair_key == IF key # "" THEN key ELSE "run_timestamp"
first_key == IF key # "" THEN key ELSE "run_1"

\* Mutant: a report with two runs still counts as one with a single summary.
MergedJson_StaysSingle ==
  [state |-> "single", runs |-> [k \in DOMAIN json[stamp].runs \cup {pair_key} |->
                                   IF k = pair_key THEN summary ELSE json[stamp].runs[k]]]

MergedJson ==
  IF json[stamp].state \in {"absent", "broken"}
  THEN [state |-> "single", runs |-> [k \in {first_key} |-> summary]]
  ELSE [state |-> "runs",
        runs  |-> [k \in DOMAIN json[stamp].runs \cup {pair_key} |->
                     IF k = pair_key THEN summary ELSE json[stamp].runs[k]]]

ReadJson ==
  /\ s_pc = "json_read" /\ s_pc' = "json_open"
  /\ pending' = [pending EXCEPT !.json = MergedJson]
  /\ unchanged_run /\ UNCHANGED <<summary, json, xml>>

OpenJson ==
  /\ s_pc = "json_open" /\ s_pc' = "json_dump" /\ json' = [json EXCEPT ![stamp] = BrokenJson]
  /\ unchanged_run /\ UNCHANGED <<summary, xml, pending>>

DumpJson ==
  /\ s_pc = "json_dump" /\ s_pc' = "xml_read" /\ json' = [json EXCEPT ![stamp] = pending.json]
  /\ unchanged_run /\ UNCHANGED <<summary, xml, pending>>

Args == [participants |-> 2, topic |-> "", type |-> ""]

\* Mutant: the report is not read before it is written.
MergedSuites_Fresh ==
  <<[name |-> IF key # "" THEN key ELSE "rtps_discovery_report",
     cases |-> <<FailedCases(summary, Args)>>]>>

\* generate_junit_report: an existing report that cannot be read is replaced.
MergedSuites ==
  AddTestsuite(xml[stamp].suites,
    [name  |-> IF key # "" THEN key ELSE "rtps_discovery_report",
     cases |-> <<FailedCases(summary, Args)>>])

ReadXml ==
  /\ s_pc = "xml_read" /\ s_pc' = "xml_open"
  /\ pending' = [pending EXCEPT !.suites = MergedSuites]
  /\ unchanged_run /\ UNCHANGED <<summary, json, xml>>

OpenXml ==
  /\ s_pc = "xml_open" /\ s_pc' = "xml_write" /\ xml' = [xml EXCEPT ![stamp] = Broken]
  /\ unchanged_run /\ UNCHANGED <<summary, json, pending>>

WriteXml ==
  /\ s_pc = "xml_write" /\ s_pc' = "cleanup" /\ xml' = [xml EXCEPT ![stamp] = Readable(pending.suites)]
  /\ unchanged_run /\ UNCHANGED <<summary, json, pending>>

Cleanup ==
  /\ s_pc = "cleanup" /\ s_pc' = "done" /\ temp' = FALSE
  /\ UNCHANGED <<key, stamp, captured, summary, json, xml, pending>>

Kill ==
  /\ s_pc \notin Resting /\ s_pc' = "killed"
  /\ unchanged_run /\ UNCHANGED <<summary, json, xml, pending>>

SnifferStep ==
  \/ EndCapture \/ Dump(TRUE) \/ Dump(FALSE) \/ DumpRaises
  \/ ReadJson \/ OpenJson \/ DumpJson
  \/ ReadXml \/ OpenXml \/ WriteXml \/ Cleanup

-----------------------------------------------------------------------------

SnifferTypeOK ==
  /\ s_pc \in Resting \cup {"capture", "dump", "json_read", "json_open", "json_dump",
                            "xml_read", "xml_open", "xml_write", "cleanup"}
  /\ temp \in BOOLEAN
  /\ \A f \in Stamps :
       /\ json[f].state \in {"absent", "broken", "single", "runs"}
       /\ json[f].state = "single" => Cardinality(DOMAIN json[f].runs) = 1
       /\ xml[f].state \in {"absent", "broken", "ok"}
       /\ \A i, j \in DOMAIN xml[f].suites :
            xml[f].suites[i].name = xml[f].suites[j].name => i = j

=============================================================================
