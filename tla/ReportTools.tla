---------------------------- MODULE ReportTools ----------------------------
(***************************************************************************)
(* What is made of the JUnit reports once they are written:                *)
(*   compare  the reports of several runs, compared (ReportCompare);       *)
(*   xlsx     one report, filled by main() pair after pair, as a workbook  *)
(*            (SpreadsheetReport);                                         *)
(*   urls     workbooks and archives that were uploaded, found again       *)
(*            (LatestUrls).                                                *)
(***************************************************************************)
EXTENDS ReportCompare, SpreadsheetReport, LatestUrls

CONSTANTS
  ReportNames,  \* the names of the files in the directory of the reports
  Contents,     \* the lists of suites a report may hold
  Batches,      \* the values of --batch
  SuiteRuns,    \* what main() may add to a report: a pair and its test cases
  MaxCases,     \* test cases in one report
  MaxItems      \* uploads to the drive

\* run_test: the tag of a test case and, unless it passed, its table.
Result(name, rows) ==
  IF \A i \in DOMAIN rows : rows[i].expected = rows[i].produced
  THEN [name |-> name, status |-> "passed", rows |-> <<>>]
  ELSE [name |-> name, rows |-> rows,
        status |-> IF \E i \in DOMAIN rows : rows[i].produced \in UNSUPPORTED_CODES
                   THEN "skipped" ELSE "failure"]

WrittenSuite(s) ==
  /\ DOMAIN s = {"name", "cases"}
  /\ s.name \in Seq(Range(s.name)) /\ Len(s.name) \in 1..2
  /\ \A p \in Range(s.name) : "dust_dds" \in p.tokens => "dust" \in p.tokens
  /\ s.cases \in Seq(Range(s.cases))
  /\ \A k \in DOMAIN s.cases : s.cases[k] = Result(s.cases[k].name, s.cases[k].rows)

\* The files of a directory have different names.  What run_test leaves in a
\* report: suites named after one or two products, and results with the tag of
\* their codes.
ASSUME ReportToolsAssumption ==
  /\ \A n \in ReportNames : /\ n.format \in {"new", "old", "none"}
                            /\ {n.year, n.month, n.day, n.hhmm, n.name} \subseteq Nat
  /\ \A m, n \in ReportNames : m.name = n.name => m = n
  /\ \A c \in Contents : c \in Seq(Range(c)) /\ \A i \in DOMAIN c : WrittenSuite(c[i])
  /\ \A r \in SuiteRuns : WrittenSuite(r)

VARIABLE which

cmpVars == <<files, cmp>>
xlsxVars == <<input, book, raised>>
urlVars == <<drive, urls>>
toolsVars == <<which, cmpVars, xlsxVars, urlVars>>

ToolsInit ==
  /\ which \in {"compare", "xlsx", "urls"}
  /\ files = <<>> /\ cmp = NoOutput
  /\ input = Readable(<<>>) /\ book = <<>> /\ raised = FALSE
  /\ drive = [f \in Folders |-> <<>>] /\ urls = <<>>

\* A run of the test suite leaves its report in the directory.
NewReport ==
  /\ which = "compare" /\ cmp = NoOutput
  /\ \E n \in ReportNames \ DOMAIN files, report \in {Readable(c) : c \in Contents} \cup {Broken} :
       files' = [m \in DOMAIN files \cup {n} |-> IF m = n THEN report ELSE files[m]]
  /\ UNCHANGED <<which, cmp, xlsxVars, urlVars>>

\* The two names of a command line are those of a directory with two files.
CompareReports ==
  /\ which = "compare" /\ cmp = NoOutput
  /\ \/ \E mode \in {"explain", "all", "pair"}, batch \in Batches, writable \in BOOLEAN :
          Compare(mode, batch, TRUE, <<>>, writable)
     \/ \E m, n \in DOMAIN files, mode \in {"all", "pair"} :
          Cardinality(DOMAIN files) <= 2 /\ Compare(mode, NoBatch, FALSE, <<m, n>>, TRUE)
  /\ UNCHANGED <<which, xlsxVars, urlVars>>

\* main() adds the suite of a pair; a killed one leaves the report broken.
AddSuite ==
  /\ which = "xlsx" /\ book = <<>> /\ ~raised /\ input.state = "ok" /\ Len(Keyed(input)) <= MaxCases - 2
  /\ \/ \E r \in SuiteRuns : input' = Readable(AddTestsuite(input.suites, r))
     \/ input' = Broken
  /\ UNCHANGED <<which, book, raised, cmpVars, urlVars>>

Spreadsheet ==
  /\ which = "xlsx" /\ ~raised /\ GenerateXlsx
  /\ UNCHANGED <<which, cmpVars, urlVars>>

\* The drive lists a new item anywhere; a folder is made once.
Items == UNION {{drive[f][i] : i \in DOMAIN drive[f]} : f \in Folders}

Upload ==
  /\ which = "urls" /\ urls = <<>> /\ Cardinality(Items) < MaxItems
  /\ \E f \in Folders, kind \in {"xlsx", "zip", "other", "folder"}, sub \in Folders :
       LET item == [kind |-> kind, folder |-> sub, modifiedTime |-> Cardinality(Items) + 1]
           known == {i.folder : i \in {k \in Items : k.kind = "folder"}} \cup {Root}
       IN  /\ f \in known
           /\ IF kind = "folder" THEN sub \notin known ELSE sub = f
           /\ \E at \in 1..(Len(drive[f]) + 1) : drive' = [drive EXCEPT ![f] = InsertAt(@, at, item)]
  /\ UNCHANGED <<which, urls, cmpVars, xlsxVars>>

FindLatest ==
  /\ which = "urls" /\ GetLatest
  /\ UNCHANGED <<which, cmpVars, xlsxVars>>

ToolsNext == NewReport \/ CompareReports \/ AddSuite \/ Spreadsheet \/ Upload \/ FindLatest

ToolsSpec == ToolsInit /\ [][ToolsNext]_toolsVars

-----------------------------------------------------------------------------

Tables == {"", "OK", "ERROR", "PUB UNSUPPORTED", "SUB UNSUPPORTED", "PUB/SUB UNSUPPORTED"}

-----------------------------------------------------------------------------
(* Properties of the comparison.                                           *)

Used == [i \in DOMAIN cmp.used |-> Loaded(cmp.used[i])]
Rich(i, l) == Used[i][l].rich_status

\* A test case is classified as passed, unsupported or failed exactly if
\* run_test tagged it so; and however they are grouped and summed up, all
\* results of the files of a group are in its tab of the page, each once: in the
\* classification, and as passed, failed or unsupported.
CountedAsJudged ==
  /\ \A n \in DOMAIN files : Loads(files[n]) =>
       \A l \in DOMAIN Loaded(n) :
         LET r == Loaded(n)[l] IN
         /\ r.status = "passed"  <=> r.rich_status \in Passing
         /\ r.status = "skipped" <=> r.rich_status = "skipped_unsupported"
         /\ r.status = "failure" <=> r.rich_status \notin Passing \cup NotRun
  /\ \A h \in DOMAIN cmp.html : \A par \in DOMAIN cmp.html[h].groups :
       LET tab == cmp.html[h].groups[par]
           g == GroupFiles(cmp.used, par)
           all == MapThenSumSet(LAMBDA i : Len(Keyed(files[g[i]])), DOMAIN g)
       IN  /\ tab.runs = Len(g)
           /\ MapThenSumSet(LAMBDA e : e[2], tab.classification) = all
           /\ tab.passed + tab.failures + tab.unsupported = all
           /\ MapThenSumSet(LAMBDA a : tab.areas[a], DOMAIN tab.areas) = tab.failures

\* The views of the same results agree.  A test case that ran in all of the
\* files changed between two neighbours exactly if the counts over all files
\* call it flaky, and what the explanation lists as flaky is so; the three
\* kinds the explanation divides the test cases into add up, and exactly the
\* ones that never failed are said to pass always: those that never ran because
\* they are not supported among them.
ViewsAgree ==
  /\ \A l \in Labels(Used) :
       (/\ cmp.reports # <<>>
        /\ \A i \in DOMAIN Used : l \in DOMAIN Used[i] /\ Rich(i, l) \notin NotRun) =>
         LET row == aggregate_statuses(Used)[l]
             e == cmp.explanation[1]
         IN  /\ is_flaky(row) <=> \E i \in DOMAIN cmp.reports : l \in DOMAIN cmp.shown[i].changed
             /\ l \in e.truly_flaky \cup e.partially_flaky => is_flaky(row)
  /\ \A x \in DOMAIN cmp.explanation :
       LET e == cmp.explanation[x] IN
       /\ e.perm_pass + e.perm_fail + e.mixed = e.total_unique_tests
       /\ e.perm_pass = Cardinality({l \in Labels(Used) :
            \A i \in DOMAIN Used : l \in DOMAIN Used[i] => Used[i][l].status # "failure"})

\* The moment in the name of a file, and which of two files is the older one.
Time(n) == <<n.year, n.month, n.day, n.hhmm>>
Older(a, b) ==
  \E k \in 1..4 : Time(a)[k] < Time(b)[k] /\ \A q \in 1..(k - 1) : Time(a)[q] = Time(b)[q]

\* Files with names of one format are compared from the older to the newer one,
\* and none of the batch is left out between them.
Chronological ==
  cmp.mode \in {"all", "pair"} =>
    \A i \in 1..(Len(cmp.used) - 1) :
      LET a == cmp.used[i]
          b == cmp.used[i + 1]
      IN  (a.format = b.format /\ a.format # "none") =>
            /\ ~Older(b, a)
            /\ \A n \in DOMAIN files : n.format = a.format /\ n.batch = a.batch /\ n.batch = b.batch
                                        => ~(Older(a, n) /\ Older(n, b))

-----------------------------------------------------------------------------
(* Properties of the workbook.                                             *)

RawProducts == UNION {Range(input.suites[i].name) : i \in DOMAIN input.suites}
Distinct == \A p, q \in RawProducts : get_product_name(p) = get_product_name(q) => p = q

\* A product whose own name tells its company still does so under the name the
\* workbook gives it, so that a readable report of such products always becomes
\* a workbook; one product without a company, and there is none at all.
KnownProductsSuffice ==
  (raised \/ book # <<>>) =>
    (book # <<>> <=> input.state = "ok" /\ \A p \in RawProducts : has_company_name(p))

\* The sheets and the comparison, which read the same report in ways of their
\* own, agree about every test case; the numbers of a pair in the summary are
\* those of its column on the sheet of the publisher, and green means that every
\* test case of it passed.
WorkbookAgrees ==
  \A b \in DOMAIN book : (Loads(input) /\ Distinct) =>
    /\ \A l \in DOMAIN load_results(input) :
         LET rich == load_results(input)[l].rich_status
             t == book[b].sheets[get_product_name(l[1][1])].publisher
             cell == t.cells[CHOOSE r \in DOMAIN t.rows : t.rows[r] = l[2],
                             CHOOSE c \in DOMAIN t.columns : t.columns[c] = get_product_name(l[1][2])]
         IN  /\ cell = "OK" <=> rich \in Passing
             /\ cell = "ERROR" <=> rich \notin Passing \cup NotRun
    /\ \A k \in DOMAIN book[b].summary.matrix :
         LET s == book[b].summary.matrix[k]
             t == book[b].sheets[k[1]].publisher
             c == CHOOSE x \in DOMAIN t.columns : t.columns[x] = k[2]
             cells(results) == Cardinality({r \in DOMAIN t.rows : t.cells[r, c] \in results})
         IN  /\ s.passed = cells({"OK"})
             /\ s.supported = cells({"OK", "ERROR"})
             /\ s.color = "green" <=> cells({"OK"}) = cells(Tables \ {""})

\* When every product ran with every other and all of them the same test cases,
\* the results of a product as subscriber, which have no names of their own,
\* stand in the rows whose names are theirs, and the titles span their tables.
Complete ==
  LET ns(s) == [i \in DOMAIN s.cases |-> s.cases[i].name]
      ps == Products(input.suites)
  IN  /\ \A p, q \in ps : \E i \in DOMAIN input.suites :
           publisher_name(input.suites[i]) = p /\ subscriber_name(input.suites[i]) = q
      /\ \A i, j \in DOMAIN input.suites : ns(input.suites[i]) = ns(input.suites[j])

CompleteIsAligned ==
  \A b \in DOMAIN book : Complete =>
    \A p \in DOMAIN book[b].sheets :
      LET sh == book[b].sheets[p]
          sub == sh.subscriber[1]
      IN  /\ sub.rows = sh.publisher.rows
          /\ sh.titles.publisher = <<sh.publisher.first, sh.publisher.last>>
          /\ sh.titles.subscriber = <<sub.first, sub.last>>

-----------------------------------------------------------------------------

\* As long as every folder fits on one page, the newest files of all folders are
\* found, whatever folders are nested and in which order the drive lists them,
\* and the import of doc/conf.py succeeds once there is one of each.
OnePageFindsLatest ==
  \A u \in DOMAIN urls : (\A f \in Folders : Len(drive[f]) <= PageSize) =>
    LET newest_of(kind) == Max({i.modifiedTime : i \in {k \in Items : k.kind = kind}} \cup {NoFile})
    IN  /\ urls[u].xlsx_url = newest_of("xlsx") /\ urls[u].zip_url = newest_of("zip")
        /\ ImportSucceeds <=> {"xlsx", "zip"} \subseteq {i.kind : i \in Items}

=============================================================================
