----------------------------- MODULE MCReports -----------------------------
(***************************************************************************)
(* The reports on small instances for TLC: how they are written, by        *)
(* DiscoveryRun, or what is made of them later, by ReportTools.            *)
(***************************************************************************)
EXTENDS MCDiscoveryRun, MCReportTools

NoTools ==
  /\ which = "none" /\ files = <<>> /\ cmp = NoOutput
  /\ input = Readable(<<>>) /\ book = <<>> /\ raised = FALSE
  /\ drive = <<>> /\ urls = <<>>

\* Nobody writes a report while the tools read: as before a run on captures.
NoWriters == Init /\ mode = "pcap"

ReportsInit == (Init /\ NoTools) \/ (ToolsInit /\ NoWriters)

ReportsNext ==
  \/ which = "none" /\ Next /\ UNCHANGED toolsVars
  \/ which # "none" /\ ToolsNext /\ UNCHANGED vars

\* A tool that wrote its output has nothing more to do.
ToolsEnded ==
  /\ cmp # NoOutput \/ book # <<>> \/ raised \/ urls # <<>>
  /\ UNCHANGED <<vars, toolsVars>>

WritersFairness ==
  /\ WF_vars(which = "none" /\ StepSniffer /\ UNCHANGED toolsVars)
  /\ WF_vars(which = "none" /\ StepMain /\ UNCHANGED toolsVars)
  /\ WF_vars(which = "none" /\ StartSniffer /\ UNCHANGED toolsVars)
  /\ WF_vars(which = "none" /\ StartMain /\ UNCHANGED toolsVars)
  /\ WF_vars(which = "none" /\ NextPair /\ UNCHANGED toolsVars)

ReportsSpec == ReportsInit /\ [][ReportsNext \/ ToolsEnded]_<<vars, toolsVars>> /\ WritersFairness

=============================================================================
