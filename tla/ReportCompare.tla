--------------------------- MODULE ReportCompare ---------------------------
(***************************************************************************)
(* benchmarking/compare_junit_reports.py and junit_compare: what several   *)
(* JUnit reports of the same test suite tell about the test cases whose    *)
(* result is not the same in all of them.  A file is compared with the     *)
(* next one in the order of the dates in the names; the files of one       *)
(* degree of parallelism are counted together.                             *)
(*                                                                         *)
(* A file name is a record of what the two regular expressions find in it: *)
(* its format (new: with parallel and batch, old, none), date and time;    *)
(* its name is the place of the whole of it among all names as text.  A    *)
(* suite is named <<publisher, subscriber>>.  A test case is [name,        *)
(* status, rows]: its name <<feature, number>>, the JUnit tag and, unless  *)
(* it passed, the table of expected and produced codes.                    *)
(***************************************************************************)
EXTENDS JunitReport, FiniteSets, SequencesExt

NoBatch == 0

parse_filename_meta(n) == n.format = "new"

\* Mutant: the date as it stands in the name, day first.
file_sort_key_DayFirst(n) ==
  IF n.format = "none" THEN <<10000, 0, 0, 0, 0, n.name>>
  ELSE <<n.day, 1, n.month, n.year, n.hhmm, n.name>>

\* YYYYMMDD-HHmm and YYYY-MM-DD-HH_MM_SS are compared as text: after the year
\* a dash comes before every digit.  A name without a date begins with junit.
\* Equal dates are followed by the name.
file_sort_key(n) ==
  CASE n.format = "new"  -> <<n.year, 1, n.month, n.day, n.hhmm, n.name>>
    [] n.format = "old"  -> <<n.year, 0, n.month, n.day, n.hhmm, n.name>>
    [] n.format = "none" -> <<10000, 0, 0, 0, 0, n.name>>

Before(m, n) ==
  LET a == file_sort_key(m)
      b == file_sort_key(n)
  IN  \E i \in DOMAIN a : a[i] < b[i] /\ \A k \in 1..(i - 1) : a[k] = b[k]

\* sorted(): the k-th element is the one with k - 1 others before it.
Sorted(S, before(_, _)) ==
  [k \in 1..Cardinality(S) |-> CHOOSE x \in S : Cardinality({y \in S : before(y, x)}) = k - 1]

\* [x for x in seq if P(x)].
Those(seq, P(_)) ==
  LET places == Sorted({i \in DOMAIN seq : P(seq[i])}, <)
  IN  [k \in DOMAIN places |-> seq[places[k]]]

choose_all_files(names, batch) ==
  Sorted({n \in names : batch # NoBatch => parse_filename_meta(n) /\ n.batch = batch}, Before)

-----------------------------------------------------------------------------
(* loader.py                                                               *)

UNSUPPORTED_CODES == {"SUB_UNSUPPORTED_FEATURE", "PUB_UNSUPPORTED_FEATURE"}
DATA_CODES == {"DATA_NOT_CORRECT", "DATA_NOT_RECEIVED", "DATA_NOT_SENT"}
ORDERING_CODES == {"ORDERED_ACCESS_INSTANCE", "ORDERED_ACCESS_TOPIC",
                   "RECEIVING_FROM_ONE", "RECEIVING_FROM_BOTH", "DEADLINE_MISSED"}
INFRA_CODES == {"READER_NOT_CREATED", "WRITER_NOT_CREATED", "TOPIC_NOT_CREATED",
                "READER_NOT_MATCHED"}

RichStatus == {"passed", "passed_as_skipped", "skipped_unsupported", "skipped_other",
               "failure_qos_unexpected", "failure_false_pass", "failure_data",
               "failure_ordering", "failure_infrastructure", "failure_other", "error"}

\* Counter(mismatches).most_common(1): the most frequent, the first of equals.
dominant(codes) ==
  LET times(c) == Cardinality({i \in DOMAIN codes : codes[i] = c})
      i == CHOOSE k \in DOMAIN codes :
             /\ \A l \in DOMAIN codes : times(codes[l]) <= times(codes[k])
             /\ \A l \in 1..(k - 1) : times(codes[l]) < times(codes[k])
  IN  codes[i]

failure_status(code) ==
  CASE code = "INCOMPATIBLE_QOS" -> "failure_qos_unexpected"
    [] code = "OK"               -> "failure_false_pass"
    [] code \in DATA_CODES       -> "failure_data"
    [] code \in ORDERING_CODES   -> "failure_ordering"
    [] code \in INFRA_CODES      -> "failure_infrastructure"
    [] OTHER                     -> "failure_other"

\* Mutant: a skipped test case is taken for one that was meant to be skipped
\* unless a code differs.
classify_outcome_NoUnsupported(tag, rows) ==
  LET mismatches == SelectSeq(rows, LAMBDA r : r.expected # r.produced)
  IN  CASE tag \in {"passed", "error"} -> tag
        [] tag = "skipped" -> IF mismatches = <<>> THEN "passed_as_skipped" ELSE "skipped_other"
        [] tag = "failure" -> failure_status(
             dominant([i \in DOMAIN mismatches |-> mismatches[i].produced]))

classify_outcome(tag, rows) ==
  LET mismatches == SelectSeq(rows, LAMBDA r : r.expected # r.produced)
      unsupported == \E i \in DOMAIN rows : rows[i].produced \in UNSUPPORTED_CODES
  IN  CASE tag \in {"passed", "error"} -> tag
        [] tag = "skipped" -> IF unsupported THEN "skipped_unsupported"
                              ELSE IF mismatches = <<>> THEN "passed_as_skipped"
                              ELSE "skipped_other"
        [] tag = "failure" -> IF unsupported THEN "skipped_unsupported"
                              ELSE IF mismatches = <<>> THEN "failure_other"
                              ELSE failure_status(
                                     dominant([i \in DOMAIN mismatches |-> mismatches[i].produced]))

\* The test cases of a report, each with the key load_results gives it.  The
\* parameters of the applications are attributes of a test case and part of its
\* key; the harness takes them from the test suite, so that they are the same in
\* every run of a case.  A pair run again with --periodic-announcement, whose
\* cases would have keys of their own, is left out.
Keyed(report) ==
  FlattenSeq([i \in DOMAIN report.suites |->
    [k \in DOMAIN report.suites[i].cases |->
       [key |-> <<report.suites[i].name, report.suites[i].cases[k].name>>,
        case |-> report.suites[i].cases[k]]]])

\* ParseError for a broken file, ValueError for a key that is there twice.
Loads(report) ==
  /\ report.state = "ok"
  /\ LET ks == Keyed(report) IN \A i, j \in DOMAIN ks : ks[i].key = ks[j].key => i = j

load_results(report) ==
  LET ks == Keyed(report)
  IN  [l \in {ks[i].key : i \in DOMAIN ks} |->
         LET c == (CHOOSE e \in Range(ks) : e.key = l).case
         IN  [status |-> c.status, rich_status |-> classify_outcome(c.status, c.rows)]]

-----------------------------------------------------------------------------
(* analyzer.py and report_data.py: results is a list of what load_results  *)
(* returned, one for each file.                                            *)

\* Mutant: only changes for the worse.
compare_OnlyWorse(first, second) ==
  LET both == DOMAIN first \cap DOMAIN second
  IN  [first_count  |-> Cardinality(DOMAIN first), second_count |-> Cardinality(DOMAIN second),
       added |-> DOMAIN second \ DOMAIN first, removed |-> DOMAIN first \ DOMAIN second,
       changed |-> [l \in {k \in both : first[k].status = "passed" /\ second[k].status # "passed"} |->
                      [first |-> first[l].status, second |-> second[l].status]]]

compare(first, second) ==
  LET both == DOMAIN first \cap DOMAIN second
  IN  [first_count  |-> Cardinality(DOMAIN first),
       second_count |-> Cardinality(DOMAIN second),
       added   |-> DOMAIN second \ DOMAIN first,
       removed |-> DOMAIN first \ DOMAIN second,
       changed |-> [l \in {k \in both : first[k].status # second[k].status} |->
                      [first |-> first[l].status, second |-> second[l].status]]]

Labels(results) == UNION {DOMAIN results[i] : i \in DOMAIN results}

aggregate_statuses(results) ==
  [l \in Labels(results) |-> [rs \in RichStatus |->
     Cardinality({i \in DOMAIN results : l \in DOMAIN results[i]
                                          /\ results[i][l].rich_status = rs})]]

Count(row, statuses) == MapThenSumSet(LAMBDA rs : row[rs], statuses)
Passing == {"passed", "passed_as_skipped"}
NotRun == {"skipped_unsupported", "skipped_other"}
passed(row) == Count(row, Passing)
failure(row) == Count(row, RichStatus \ (Passing \cup NotRun \cup {"error"}))
total_fail(row) == failure(row) + row["error"]
skipped(row) == Count(row, NotRun)
total_real_fail(row) == Count(row, RichStatus \ (Passing \cup NotRun))
is_flaky(row) == passed(row) > 0 /\ total_real_fail(row) > 0

summarize_test_statuses(results) ==
  LET totals == aggregate_statuses(results)
  IN  [l \in {k \in DOMAIN totals : total_fail(totals[k]) > 0} |->
         [passed |-> passed(totals[l]), failure |-> failure(totals[l]),
          error |-> totals[l]["error"], skipped |-> skipped(totals[l])]]

\* In how many comparisons the status of a test case changed.
Changes(reports) ==
  [l \in UNION {DOMAIN reports[i].changed : i \in DOMAIN reports} |->
     Cardinality({i \in DOMAIN reports : l \in DOMAIN reports[i].changed})]

repeated_change_tests(reports) ==
  LET counts == Changes(reports) IN {l \in DOMAIN counts : counts[l] > 1}

\* What the regular expressions take for a product has a dash in it, that of
\* the publisher only one.
extract_pub_sub(label) == label[1][1].dashes = 1 /\ label[1][2].dashes >= 1
extract_feature(label) == label[2][1]

\* d[a] = d.get(a, 0) + n[l] over the labels l, a being the area of the label:
\* its feature, publisher or subscriber.
Tally(area, n) ==
  [a \in Range(area) |->
     MapThenSumSet(LAMBDA l : n[l], {l \in DOMAIN area : area[l] = a})]

build_parallel_group_report(results) ==
  LET all_rows == aggregate_statuses(results)
      of(P(_)) == {l \in DOMAIN all_rows : P(all_rows[l])}
      flaky == of(is_flaky)
      failed == of(LAMBDA r : total_real_fail(r) > 0)
      fails == [l \in DOMAIN all_rows |-> total_real_fail(all_rows[l])]
      sum(n(_)) == MapThenSumSet(LAMBDA l : n(all_rows[l]), DOMAIN all_rows)
      named(ls) == {l \in ls : extract_pub_sub(l)}
      pub(ls) == [l \in named(ls) |-> l[1][1]]
      sub(ls) == [l \in named(ls) |-> l[1][2]]
      feature(ls) == [l \in ls |-> extract_feature(l)]
  IN  [run_count |-> Len(results), total_unique_tests |-> Cardinality(DOMAIN all_rows),
       rich_status_totals |-> [rs \in RichStatus |-> sum(LAMBDA r : r[rs])],
       total_fail_raw |-> sum(total_real_fail), total_pass_raw |-> sum(passed),
       total_skip_raw |-> sum(LAMBDA r : r["skipped_unsupported"]),
       flaky_tests |-> [l \in flaky |-> [pass |-> passed(all_rows[l]), fail |-> fails[l]]],
       flaky_pub |-> Tally(pub(flaky), fails),
       flaky_sub |-> Tally(sub(flaky), fails),
       flaky_feat |-> Tally(feature(flaky), fails),
       pub_fails |-> Tally(pub(failed), fails),
       sub_fails |-> Tally(sub(failed), fails),
       feature_fails |-> Tally(feature(failed), fails)]

\* The degrees of parallelism, and the files of each in their order.
Groups(files) == {files[i].parallel : i \in {k \in DOMAIN files : parse_filename_meta(files[k])}}
GroupFiles(files, par) ==
  Those(files, LAMBDA n : parse_filename_meta(n) /\ n.parallel = par)
Ungrouped(files) == Those(files, LAMBDA n : ~parse_filename_meta(n))

-----------------------------------------------------------------------------
(* explain.py, renderer.py, html_report.py: the content of the outputs,    *)
(* without their layout.                                                   *)

\* Of the areas only the ten, and of the products the five with most failures
\* are printed; there are never more of them here.
generate_explanation(reports, results) ==
  LET changes == Changes(reports)
      several == Len(reports) > 1
      real(d) == {d.first, d.second} \subseteq {"passed", "failure", "error"}
      summary == summarize_test_statuses(results)
      perm(P(_)) == Cardinality({l \in DOMAIN summary : P(summary[l])})
      fails == [l \in DOMAIN summary |-> summary[l].failure + summary[l].error]
      named == {l \in DOMAIN summary : extract_pub_sub(l)}
  IN  [truly_flaky |-> {l \in DOMAIN changes :
                          IF several THEN changes[l] >= 3 ELSE real(reports[1].changed[l])},
       partially_flaky |-> {l \in DOMAIN changes :
                          IF several THEN changes[l] = 2 ELSE ~real(reports[1].changed[l])},
       total_unique_tests |-> Cardinality(Labels(results)),
       perm_fail |-> perm(LAMBDA c : c.passed = 0),
       mixed     |-> perm(LAMBDA c : c.passed > 0),
       perm_pass |-> Cardinality(Labels(results)) - Cardinality(DOMAIN summary),
       feature_fails |-> Tally([l \in DOMAIN summary |-> extract_feature(l)], fails),
       pub_fails |-> Tally([l \in named |-> l[1][1]], fails),
       sub_fails |-> Tally([l \in named |-> l[1][2]], fails)]

print_differences(report) ==
  [removed |-> report.removed, added |-> report.added, changed |-> report.changed]

\* One line for each status that occurs, in the order of ROWS.
render_rich_status_summary(grp) ==
  {<<rs, grp.rich_status_totals[rs]>> : rs \in {s \in RichStatus : grp.rich_status_totals[s] # 0}}

render_group_tab(grp) ==
  [runs |-> grp.run_count, unique |-> grp.total_unique_tests,
   flaky |-> Cardinality(DOMAIN grp.flaky_tests), failures |-> grp.total_fail_raw,
   passed |-> grp.total_pass_raw, unsupported |-> grp.total_skip_raw,
   classification |-> render_rich_status_summary(grp),
   areas |-> grp.feature_fails, publishers |-> grp.pub_fails, subscribers |-> grp.sub_fails]

render_compare_tab(reports, results) ==
  [summary |-> [i \in DOMAIN reports |-> Cardinality(DOMAIN reports[i].changed)],
   repeated |-> repeated_change_tests(reports),
   frequency |-> summarize_test_statuses(results)]

\* The page: a tab for each group, one for the comparisons if there are any.
render_html_report(ep, reports, results) ==
  [groups |-> [par \in DOMAIN ep.groups |-> render_group_tab(ep.groups[par])],
   compare |-> IF reports = <<>> THEN <<>> ELSE <<render_compare_tab(reports, results)>>,
   excluded |-> Len(ep.ungrouped_files)]

-----------------------------------------------------------------------------
(* compare_junit_reports.py, main().                                       *)

VARIABLES
  files,   \* the directory: the report in each file, by its name
  cmp      \* what the last run of the tool did: its exit code, and what it
           \* wrote, each <<>> or <<content>>

NoOutput == [rc |-> 0, mode |-> "none", used |-> <<>>, reports |-> <<>>, shown |-> <<>>,
             explanation |-> <<>>, parallel |-> <<>>, html |-> <<>>]
Exit(rc) == [NoOutput EXCEPT !.rc = rc]

AllLoad(names) == \A i \in DOMAIN names : names[i] \in DOMAIN files /\ Loads(files[names[i]])
Loaded(n) == load_results(files[n])

build_explain_parallel_report(names) ==
  [groups |-> [par \in Groups(names) |->
                 LET g == GroupFiles(names, par)
                 IN  build_parallel_group_report([i \in DOMAIN g |-> Loaded(g[i])])],
   ungrouped_files |-> Ungrouped(names)]

Explain(names, html, writable) ==
  LET grouped == Those(names, parse_filename_meta)
      ep == build_explain_parallel_report(names)
  IN  IF names = <<>> THEN NoOutput
      ELSE IF ~AllLoad(grouped) THEN Exit(1)
      ELSE [NoOutput EXCEPT
              !.used = names,
              !.parallel = IF writable /\ grouped # <<>> THEN <<ep>> ELSE <<>>,
              !.html = IF writable /\ html
                       THEN <<render_html_report(ep, <<>>, <<>>)>> ELSE <<>>]

\* The files in names are compared, each with the next one; render_compare_all
\* for --compare-all, render_and_save otherwise.
CompareEach(names, html, writable) ==
  LET results == [i \in DOMAIN names |-> Loaded(names[i])]
      reports == [i \in 1..(Len(names) - 1) |-> compare(results[i], results[i + 1])]
  IN  IF Len(names) < 2 \/ ~AllLoad(names) \/ ~writable THEN Exit(1)
      ELSE [NoOutput EXCEPT
              !.used = names, !.reports = reports,
              !.shown = [i \in DOMAIN reports |-> print_differences(reports[i])],
              !.explanation = <<generate_explanation(reports, results)>>,
              !.html = IF html
                       THEN <<render_html_report(build_explain_parallel_report(names),
                                                 reports, results)>> ELSE <<>>]

newest(names) == IF Len(names) < 2 THEN <<>> ELSE SubSeq(names, Len(names) - 1, Len(names))

\* mode explain, all or pair: two names on the command line, or none.
Compare(mode, batch, html, given, writable) ==
  LET names == choose_all_files(DOMAIN files, batch)
      out == IF (mode # "pair" /\ given # <<>>) \/ Len(given) = 1 THEN Exit(2)
             ELSE IF mode = "explain" THEN Explain(names, html, writable)
             ELSE IF mode = "all" THEN CompareEach(names, html, writable)
             ELSE CompareEach(IF given = <<>> THEN newest(names) ELSE given, FALSE, writable)
  IN  /\ cmp' = [out EXCEPT !.mode = IF given = <<>> THEN mode ELSE "given"]
      /\ UNCHANGED files

=============================================================================
