# Verification of dds-rtps

TLA+ models of the DDS interoperability tests in this repository, checked with
TLC on small instances and, for the harness, the check functions, the benchmark,
the suite and the reports of `main` and of the sniffer, proved with TLAPS.

The repository tests pairs of DDS implementations against each other. A vendor
builds one application, `shape_main`, from the sources here; a Python harness
starts a publisher and a subscriber of two vendors, follows their consoles with
pexpect and turns what they print into a verdict. Everything rests on that
verdict, so the question behind this project is: **when the harness says
passed, failed or unsupported, is it true?** Two kinds of mistake matter, and
most properties state the absence of one of them: a *false alarm* blames a
conforming implementation, a *missed fault* passes a wrong one. A second question
follows it through the other tools: **does the verdict survive** the report it
is written to, the comparison of many such reports and the spreadsheet?

## 1. Inventory

| Component | State | Operations | Interacts with |
|---|---|---|---|
| `interoperability_report.py`, `run_test` | shared list `return_codes`, two lists of events, queues `samples_sent` and `last_sample_saved` | start the processes, join, judge | one process per application |
| its `run_publisher_shape_main` / `run_subscriber_shape_main` | the pexpect step reached, the child, a code | expect topic, entity, match or data, check samples; finish, wait, stop | `shape_main` through a pseudo-terminal; the other side through events |
| `test_suite_functions.py`, `rtps_test_utilities.py` | per-instance lists and counters inside one loop each | match the next line, look at the one before, time-out, EOF | called by the subscriber's process |
| `test_suite.py` | a constant table of 105 cases | none | read by `main` |
| `srcCxx/shape_main.cxx` and the `shape_configurator_*.h` | options, topics, writers or readers | parse, validate, create; write loop, read loop; listeners; SIGINT | DDS; prints what the harness reads |
| `benchmarking/run_tests_parallel.sh` | `RUNNING_PIDS`, reports, networks, containers | fill slots, run a pair, collect missing, retry, clean up | Docker, the harness inside containers |
| `benchmarking/run_benchmark.sh` | the list of incomplete runs | run, repeat, keep, abort | `run_tests_parallel.sh` by its exit code |
| `interoperability_report.py`, `main` | the suites read from an existing report, the results so far | read, select, run each case, write once at the end | `run_test`; the report on disk |
| `discovery/rtps_discovery_sniffer.py` | the packets captured, a summary of participants and endpoints, a JSON and a JUnit report per date | capture, dissect, judge seven test cases, merge into both reports | tshark; runs beside `main` |
| `discovery/run_discovery_tests.sh` | the pair it is at, the names of the reports | sniffer in the background, `main`, wait for both | the two above |
| `benchmarking/compare_junit_reports.py` and `junit_compare/` | the reports loaded, in order | choose files, classify, compare neighbours, aggregate, explain, show | finished reports of the harness |
| `generate_xlsx_report.py` | the suites, the workbook | name products, summary, two tables a sheet | one finished report |
| `get_latest_file_urls.py`, `doc/conf.py` | the newest spreadsheet and archive | search page by page, write a module, import it | Google Drive |
| `shape_main` in C, Rust and Zig | as in C++ | as in C++ | not modelled |
| workflows, vendor configuration | none that lasts | configuration | out of scope |

What is hard here, and hardly reached by a test:

* two processes that each may stop an application the other still needs, with
  a code and an event that are two separate writes;
* processes that die of an exception between those writes;
* lines of several instances, topics and threads interleaved on one console,
  and check functions that look at a line only when the next one has arrived;
* samples and the end of an instance printed together; a reader that matches
  late; a read pass cut in two by the arrival of samples;
* a table of 105 cases whose flags, defaults, QoS, request/offered rules,
  listener lines and expected codes have to agree for each pair of vendors;
* retries in directories that keep what the last attempt left;
* reports that are read, changed in memory and written over, by processes that
  can be killed between opening the file and the end of the write;
* announcements that UDP loses, doubles and reorders;
* three tools that count the same results in ways of their own.

`PROJECT.json` lists each hazard at its line, with the properties aimed at it.

## 2. Modules and the code they stand for

### The harness

`TestVerdict` is the abstract specification of a test case: every application
reports one code, once, and when all have reported the verdict follows from
the reports and the expected codes.

`InteropHarness` is `run_test` with its processes. `pc[e]` is the pexpect step
of process *e*, `finished[e]` its event, `return_codes` the shared list, `app`
the child. One action per `expect` call; the application may match any
pattern, time out or exit. `StopProcess`/`Terminate` are `stop_process` with
its poll and forced termination, `Exit` the flush of the queue's feeder thread
(a process with more queued samples than the pipe holds cannot exit). `Raise`
is an uncaught exception of pexpect. `MCInteropHarness` gives TLC its
instances. `ImplementsTestVerdict` maps the abstract `report` of *e* to its
code once the event is set, and to pending before.

### The check functions

Each models one function, or a family that shares its loop, line by line; the
console is arbitrary.

| Module | Functions | Data kept |
|---|---|---|
| `InstanceChecks` | `test_order_w_instances`, `test_reliability_no_losses_w_instances`, `basic_check` | color and size |
| `TimeBasedFilterCheck` | `test_reading_1_sample_every_10_samples_w_instances` | gaps between sequence numbers |
| `LifespanCheck` | `test_lifespan_2_3_consecutive_samples_w_instances` | runs of consecutive samples |
| `ReceiverChecks` | `test_size_receivers`, `test_color_receivers`, `test_size_less_than_20` | the value compared |
| `OrderedAccessCheck` | `ordered_access_w_instances` | order within a pass |
| `CoherentSetsCheck` | `_coherent_sets_w_instances` and its two wrappers | topic and color within a pass |
| `FinalStateTest` | `test_unregistering_w_instances`, `test_disposing_w_instances` | instance states |

`CheckFunctions` is the harness's choice of one of the middle five and its run
to the end; the variables that all functions have (the line, the code, the first
instance) are those of `InstanceChecks`. The loops have the form *look at the
line matched, then wait for the next one*; the actions `NextLine`, `NextPass`,
`Timeout` and `Eof` are the outcomes of the `expect` at the end of the body, and
contain the whole body. Lines that match the pattern of a sample without being
one are modelled where they change something: `CoherentSetsCheck` counts each
into the total of its pass, as the code does, and in `ReceiverChecks` one ends
the loop.

### The application

`ShapeMain` is the running application in C++: `run_publisher` (one `Write` per
call of `write`, the size counted per iteration, the final instance state, the
destructor), `run_subscriber` (passes of `take` or `take_next_instance`, the
lines printed) and `handle_sig`. Delivery, the reader's history and instance
states are DDS and marked external. `StreamTest` composes it with
`InstanceChecks`, `FinalStateTest` with the final-state functions, and
`ConsoleTests` puts the two, and `InstanceChecks` on an arbitrary console, side
by side as three modes of one specification. `MCConsoles` adds `CheckFunctions` as
a fourth for TLC.

`ShapeSetup` is the application before that: defaults, `parse`, `validate`,
what each vendor's configurator and the `#if` branches refuse, QoS, topics,
Publisher or Subscriber, writers or readers. Each call of the middleware may
fail. Only lines that a pattern of the harness can match are kept.

`TestSuite` is the table, a record per command line. `SuiteRun` composes
`TestSuite`, `ShapeSetup`, a conforming middleware (discovery in any order,
request/offered rules, partitions, content filters, ownership, deadlines) and
the harness's steps and verdict.

### The benchmark

`ParallelRun` is `run_tests_parallel.sh`: slots, `run_pair` in its steps
(network, container, copy), `collect_missing`, retries, exit codes and
`cleanup_parallel`. Pairs are numbered as in the list of pairs, and the loop
that starts them takes the smallest number still queued. What the script shields
with `|| true` may fail, or succeed in part: the archive of old reports, the
sweep of networks, the copy of a report. `docker run` has no time-out, so a
container may hang (`HangContainer`). `Benchmark` composes it with `run_once` of
`run_benchmark.sh`.

### `main`, discovery and their reports

`JunitReport` is a report on disk: absent, broken (truncated by `open` and not
written to the end) or a list of suites, and junitparser's `add_testsuite`,
modelled from its use here.

`InteropReport` is `main` of the harness: `Main` reads the report, which raises
on a broken one; `CheckSelection`; one of `SkipCase`, `RunCase`,
`RunCaseRaises` and `RunCaseHangs` per test case, with the parameters extended
in place; `OpenReport` and `WriteReport`. `run_test` is reduced to what
`InteropHarness` shows of it: a verdict, an exception, or, after an uncaught
exception of one of its processes, no return.

`DiscoverySummary` is what the sniffer makes of the packets
(`parse_discovery_data`, one operator per part of a packet) and the conditions
of its seven test cases. `DiscoverySniffer` is one run of it: capture, `Dump`
(`DumpRaises` for a field that `int` refuses), then read, open and write of the
JSON and of the JUnit report, and the removal of the temporary file. A packet is
a record of the fields the code looks at; the dissection by tshark is external
and may fail.

`DiscoveryRun` composes the two: the script that runs both side by side for each
pair, the sniffer alone on captures, and `main` alone on one report, the way the
other runner scripts use it. Any process may be killed at any moment.

### What is made of the reports

`ReportCompare` is `junit_compare`: the names of the files and their order, the
loader, `classify_outcome`, the comparison of neighbours, the counts per
degree of parallelism, the explanation, and what the text and HTML views show of
them. `SpreadsheetReport` is the workbook: products and their names, the summary
and both tables of each sheet with their columns. `LatestUrls` is the search on
the drive. `ReportTools` runs any of the three on the reports it enumerates, so
that one tool's answer can be held against the other's (`MCReports` is TLC's
instance of both, `DiscoveryRun` and `ReportTools`); `SpreadsheetReport` gets
reports that `AddTestsuite` has filled pair after pair.

## 3. Runs

| Run | Shows | Bounds and why they suffice |
|---|---|---|
| `harness_core` | codes are written when all processes are joined; `run_test` implements `TestVerdict`; every test case ends | two publishers (one with `-w`) and a subscriber, the largest shape in the suite; two saved samples and a pipe of two: the boundary at which the flush could block |
| `harness_raise` | no application is interrupted while the other side needs it, and failures stand, even when processes die | one publisher and two subscribers: "every subscriber" differs from "some subscriber" |
| `consoles` | any console: what the verdict of each check function guarantees and whom it may not blame; of the instance checks, OK means in order for each instance and DATA_NOT_CORRECT always has a witness; `shape_main` and DDS in the loop: no interleaving makes the functions blame a conforming implementation, OK for a final state is justified, and there is always a verdict | console: two instances, five sizes, three samples (repeats, gaps, a zero size; proved without bounds); gaps on both sides of 9 and of a lost sample; runs up to 5 around the accepted 2 and 3; passes with lines that are no samples; limits scaled down with their comparisons, a tolerance of 0; stream: two instances, four iterations (a publisher without an end is cut after as many), reliable and KEEP_ALL or best effort, late match; final: three instances (first, middle, last), two iterations, depth 1 and 2, `take` and `take_next_instance`, all three endings. 1,726,394 states |
| `suite` | for all 105 cases and 16 pairs of builds: no conforming pair fails, a pass means that whoever had to communicate was started, nobody is stuck | four builds cover the refusals (none, InterCOM's, Micro's, Fast DDS's; OpenDDS refuses a part of Fast DDS's, CoreDX nothing); at most one application whose middleware fails |
| `benchmark` | slots kept, exit code 0 means covered, no result twice, success is comparable, the benchmark ends unless a container hangs | three pairs on two slots and one network: waiting, competing and a failed pair; one retry of each kind |
| `reports`, written | the summary does not depend on the order of arrival nor on duplicates; the mask test blames nobody wrongly; no result of a finished run is lost, by the sniffer or by `main`; both reports of the sniffer agree; `main` reports all of its cases or none; a half-written report stays broken; the script ends unless a test case never returns | two pairs that share their reports or do not; two test cases and four selections (all, without one, only one, an unknown one); captures of up to three packets from seven (masks full, zero and without a named flag, announcements alone and batched, a bad version of an unknown vendor, nobody's packet); two runs on one report, so that there is something to lose; one kill at any moment |
| `reports`, read | every test case is counted once in every view; a classification never changes a verdict; the views agree; files are compared in order of time; sheets, summary and comparison say the same of a report; when the tables line up; when the newest files are found | all directories of five names (the end of a month, two batches, the old format) with contents that pass, fail, are unsupported or hold a case twice, in every mode; reports of up to eight test cases of known and unknown products; drives of five items on pages of two. 753,213 states with the part above |

Six more runs end with the violation they are there to show (section 6): each
checks what a comment or a document of the repository says of the code.

Type invariants are checked of the harness and of the discovery runs and proved
of both; the other proofs have one as a part of their inductive invariant.

`CHECK_DEADLOCK FALSE` is used where the program ends: a function returns, a
test case has its verdict, the benchmark is over. In `harness_raise` a process
that waits for a dead one really waits for ever.

### Fairness

Liveness is checked in four runs, only with weak fairness, and only of code
that runs by itself:

* `Terminates`: `run_test` and each of its processes keep running and every
  `expect` has a time-out, so a step that stays possible is taken. Nothing is
  assumed of the applications: they may print nothing, block or never exit.
* `Decides`: the loops of publisher and subscriber and the check keep running.
  That the two sides match or that samples arrive is not assumed.
* `BenchmarkEnds`: the shell scripts run on, Docker answers, and a container that
  does not hang ends. That none hangs is not assumed: `HangContainer` is a step
  like any other, and the property says that the benchmark ends unless some
  container hangs from then on. One hung container is enough to stop it, because
  neither `docker run` nor `wait` has a time-out.
* `ScriptEnds`: the shell script, `main` and the sniffer keep running. A capture
  ends because tshark is given a duration and its caller a time-out. That a test
  case returns is not assumed: the property says that the script ends unless a
  test case never returns (`RunCaseHangs`). Nothing is assumed of the packets,
  and a killed process is one that has ended.

`SuiteRun` needs none: no step of it can be taken twice, so `NeverStuck` (a
step is possible until the verdict is there) says that each case is judged.

## 4. Proofs

`InteropHarnessProofs`, for any number of applications, any sets of publishers
and `-w` publishers, any expected codes and any limits (`HarnessAssumption`):

* `TypeCorrect`, `NeverStopsEarly`, `FailuresStand`: with exceptions allowed
  everywhere;
* `CodesWritten`, `Refinement`: under `MayRaise = {}`. The assumption is needed,
  `harness_lost_code` is the counterexample without it.

`NoEarlyStop` is not inductive: it speaks of the moment of stopping, while
what justifies it (the events seen) was established in the wait before, event
by event. The invariant `IInv` ties the step of each process to what it knows:
from its step a process has or has not written its code (`CodeOf`), has or has
not set its event (`EventOf`), and has seen all events of the other side
(`StopOf`); a process not yet started has done nothing (`IdleOf`). Events are
never reset, so what a process has seen remains true. The refinement adds
`Leaving` (who is leaving has set its event): only then is the verdict of
joined processes a verdict on complete reports. A code written before the event
is invisible to the abstract level, `SubFinish` or the end of a publisher's
steps is its `Report`, and `JoinAndJudge` its `Decide`.

`InstanceChecksProofs`, for any set of instances, any sizes and any
MAX_SAMPLES_READ: `OKIsSound` and `AlarmIsSound`. OK alone is not inductive;
`LastInv` says that the size remembered for an instance is the last one looked
at, `OrderInv` that everything looked at so far is in order, `CountInv` that
the counter does not run ahead of the samples of the first instance.

The same module proves `StreamNotBlamed` (`ConformingPasses`) of mode `stream` of
`ConsoleTests`, for any number of instances and iterations: publisher, reader,
subscriber and check function together never end in DATA_NOT_CORRECT. What the
function remembers says nothing of what it will still read, so `StreamInv`
follows a sample all the way: for each instance the size remembered, the line
matched, the lines on the console and the samples in the cache form a chain
(`ChainInv`), nothing in it was not written, and with `-r -k 0` nothing written
after something in it is missing (`WrittenInv`: `UpTo`, `NoGap`). A pass moves
the samples of an instance from the last link to the one before; that this
keeps the order of the console is a statement about a concatenation of pieces
(`FlattenSeq`), reduced to one about each two pieces by `FlattenOrdered`.

`CheckFunctionsProofs`, for any instances, values, gaps, passes, set sizes,
tolerances and limits: `FilterJustified`, `LifespanExact`, `ReceiversExact`,
`OrderedEvidence`, `CoherentJudged`. A verdict is about the whole stream, while
a function keeps only its counters and the last sample of each instance. The
invariants (`FilterInv`, `LifespanInv`, `ReceiversInv`, `OrderedInv`,
`CoherentInv`) say what the counters stand for in the history of the lines
looked at: the losses accepted of an instance, the length of its current run and
the runs that ended, the values seen, the behavior of each pass, the samples of
the current pass. The hard case is the last line: the loop ends after a line was
looked at and before its effect is judged, or the other way round, and each
invariant says on which side the line counts. `FilterAlarmsJustified` speaks of
the whole history: DATA_NOT_CORRECT has a sample that came too early or an
instance that lost too much, and neither is there while the loop runs nor when
it ends with DATA_NOT_RECEIVED. In `CoherentInv` the total of a pass is that of
its samples and of the other lines matched, one line ahead of the sample being
looked at (`TotalAhead`).

`FinalStateProofs`, for any number of instances and iterations of mode `final`
of `ConsoleTests`: `OKIsEnded`, with the whole of `run_publisher`,
`run_subscriber` and the reader in the loop. Of the constants it uses only
`ShapeMainAssumption`. That the two lists of the function
are equal says nothing of the reader; `EndedInv` says that a line that announces
an end is true wherever it is (on the console, matched, or counted), and that
nothing has ended while the publisher writes (`LoopInv`), so that no instance
comes back to life and a line that was true stays true. The console grows by
`FlattenSeq`, a recursive function of the library: that it exists and that its
result has only elements of its pieces is proved with smallest counterexamples
(`SmallestOf`, `JoinExists`, `FlattenTypes`, `FlattenElements`).

`FinalStateNotBlamed` (`FinalNoFalseAlarm`) uses all of `FinalStateAssumption`.
The function returns DATA_NOT_CORRECT if its two lists differ when the loop
ends, and the loop ends in three ways; `AlarmInv` has a part for each:

* as many instances announced as met: the announced ones are among those met,
  because the end of an instance is on the console only after one of its samples
  (`IntroInv`), which in turn needs that a sample of every instance the reader
  knows is still somewhere (`SeenInv`) and precedes its end in the cache
  (`FadeOrder`); finite sets of which one contains the other and that are
  equally large are equal;
* nothing read for long enough: every instance that has ended has its end on the
  way or read (`OnItsWay`), and with an empty cache and console that is read;
* MAX_SAMPLES_READ: never reached. `Budget` bounds the lines of an instance that
  are counted, on the console and in the cache together: one per iteration while
  it lives, and at its end one more for each sample left and one for the end
  itself. This is where KEEP_LAST matters, and why `FinalStateAssumption` asks
  for iterations + depth + 1 < MAX_SAMPLES_READ. The bound is tight: TLC finds
  runs that reach it. That no more than `--num-iterations` are written is
  `CountedInv`: the last one sets the flag that ends the loop.

`BenchmarkProofs`, for any number of pairs, any `--max-jobs`, retries and runs:
`AtMostMaxJobs`, `ZeroIsComplete`, `NoResultTwice`, `SuccessComparable`. The
limit holds because RUNNING_PIDS, pruned late, never misses a process that runs
(`PidsListed`; a hung one included) while pairs are started, and a pass starts a
pair once (`QueuedOnce`). Exit code 0 rests on
`OldOnlyUnarchived` (a report of an earlier invocation is only where archiving
failed), results once on `CopiedOnce` (a pair whose copies have succeeded is run
again only on an empty work directory), the benchmark's success on `RunsCounted`
(a run is in the list of incomplete ones or has covered every pair).

`SuiteRunProofs`, for any of the builds that meet, both data representations and
any number of `create_...` calls that fail: `PassesStarted`. What is common to
all rows of the table is `TableAssumption`, a formula without parameters that
TLC evaluates on the table itself; the proof uses nothing else of it.
`StartInv` follows a code back to its cause: a code that is not about something
missing comes from a line on the console (`CodeInv`), a line of a listener from
an application that has its entities and a sample from a publisher that runs as
well (`ConsoleInv`), and an application with one topic that has an entity has all
(`SetupInv`). With several topics a listener may speak before the last entity
exists; there `TableAssumption` gives that the subscriber must be OK, for which
only a sample suffices.

`DiscoveryRunProofs`, for any pairs, test suite, selections, packets and bounds
on runs and kills: `BrokenForGood`, `ResultsKept` and `AllOrNothingHolds`. That
a readable report holds all finished results is not inductive: between
`OpenReport` and `WriteReport` the file holds nothing, and what will be written
is only in the memory of `main`. `ReportInv` therefore says of a `main` at work
that what it read holds the results of every earlier run on that report
(`KeptInv`), that nobody is at work on a damaged report (`DamagedInv`: `Main`
raises on it), and that a report with results is not absent. The step that
writes rests on the lemma `AddKeeps`: `add_testsuite` keeps every result and
adds all of the new ones, whether it extends a suite of that name or appends
one. For `AllOrNothing`, `SuiteInv` describes the loop in the middle: the cases
to do are a tail of the suite (`TodoInv`), those before it that are not skipped
are in the result in their order (`OrderInv`), and the parameters of those to do
have not been extended yet (`ParametersInv`), which is why one `-x` each
suffices.

The same module proves of the sniffer `ReportsAgree` and `TypesCorrect`, under
the same assumptions. The two reports of the sniffer are written one after the
other, so that they disagree in between; `AgreeInv` says by how much at each
step: the JSON report, or its copy in memory, is ahead by exactly the run being
written, and the JUnit report in memory is level with it. `NamedInv` (one suite
of a name) is why the last result of a suite is the one of the JSON entry.

It also proves `BlameJust` (`BlameIsJust`) and
`ArrivalOrder` (`ArrivalOrderIrrelevant`), for captures of any length. The
summary is a fold over the packets, of which the provers know nothing; it is
unrolled into the summaries after 0, 1, 2, ... packets (`ParseUnfolds`,
`ParseExists`, `ParseStep`), and one induction over these describes the summary
by which packets there are: `PartsTold` says of each participant what its first
packet and all of its packets together have told, `EndpointsTold` the same of
the writers and readers. `BlameJust` is read off this description: a participant
without a flag has the mask of one of its packets, and none of them named a
flag. For
`ArrivalOrder`, everything a consistent capture tells is said alike by all
packets that say it, so that the description mentions no order (`ViewAlike`).
The attempt to prove it showed an indentation in `Consistent` that applied one
of its two requirements only to packets with a mask; as written, the property
was false of packets without a mask that announce several endpoints.

`ReportToolsProofs`, for any file names, reports, batches and suites:
`AllCounted` (`CountedAsJudged`), `ViewsConsistent` (`ViewsAgree`),
`OldestFirst` (`Chronological`) and `KnownProducts` (`KnownProductsSuffice`).
The three about the comparison rest on `CompareInv`: every file in the
directory is as `run_test` wrote it or broken, and what the tool has put out is
`Output` of the directory as it is now. What remains is about that function,
and needs no steps:

* `LoadedIs`: `classify_outcome`, which reads the codes again, judges a test
  case as its tag does (`Judgements`), and as many keys are loaded as there are
  test cases.
* Sums. `MapThenSumSet` takes the elements of a set in an order nobody knows;
  `SumStep` says that any element may be taken first, and from it follow, with
  smallest counterexamples, `SumPlus`, `SumDrop`, `SumSwap` (a table adds up to
  the same by rows and by columns) and `SumFibers` (a sum by areas is the sum).
  `AllCounted` is a double count: the results of a group by file, by test case,
  by status and by feature (`GrandTotal`, `RowAddsUp`, `GroupAddsUp`).
* For `ViewsConsistent`, a list of results that are not all alike has two
  neighbours that differ (`FlakyIsChange`).
* For `OldestFirst`, the keys of `_file_sort_key` order the files strictly
  (`LexOrder`, `BeforeOrder`), in a strict order each rank is taken once
  (`RanksOrdered`, `RanksTaken`), and so neighbours in the sorted list have
  nothing of the batch between them (`NeighboursInOrder`).

`KnownProducts` has an invariant of its own, `InputInv`: however the suites were
merged, each in the report is named after one or two products. With it the
property follows from `CompanyKept`: the name `get_product_name` gives a product
tells a company exactly if the raw name does. The attempt to prove `OldestFirst`
showed that the model ended the key with the degree of parallelism, where the
code has the name of the file; with equal dates the order was not that of the
code. That of `KnownProducts` showed a CASE where the code has a chain of
`elif`: for a name with two vendors in it the model left open which one is
taken.

The assumptions on constants, each evaluated by TLC on the run of its component:
`HarnessAssumption`; `ParallelRunAssumption` (pairs are numbers, at least one
job); `SuiteAssumption` of `InteropReport` (the names of a dictionary are
different, no application of a test case has `-x` twice: both true of
`test_suite.py`); `RunAssumption` (the name of a pair, `publisher---subscriber`,
is none of the names given to a run without one; there is a date for each run;
the announcements in a packet are a list; the number of packets is bounded);
`TableAssumption`; `ReportToolsAssumption` (the files of a directory have
different names, dates are numbers; a suite in a report has the name of one or
two products, and the tag of a test case follows from its codes as `run_test`
has it); `ConsoleTestsAssumption`, which contains `ShapeMainAssumption`.
(`CheckFunctionsAssumption` and `InstanceChecksAssumption` give the constants of
the functions their types.)

Only model-checked:

* liveness (`Terminates`, `Decides`, `BenchmarkEnds`, `ScriptEnds`) and
  `NeverStuck`, which speaks of ENABLED: out of the prover's reach;
* `ConformingPairPasses`: it depends on each row of the table, and the provers do
  not evaluate 105 rows;
* `WorkbookAgrees` and `CompleteIsAligned`: the columns and rows of a sheet come
  from dictionaries filled suite after suite (`InOrder`, a fold), and what such a
  dictionary holds after any sequence of suites needs an induction for each of
  the tables that was not attempted;
* `OnePageFindsLatest`: `get_subfolder_files` recurs over the tree of folders;
  that the recursion reaches every folder is an induction over that tree.

## 5. What the passing runs do not say

* There is no clock. Whether five samples fit between two read passes
  (Test_History), or a deadline is met, is left out or taken from the flags.
* The middleware of `SuiteRun` conforms. What the check functions do with a
  wrong one is what the runs on arbitrary consoles are about.
* `SuiteRun` gives a check function its verdict on a conforming stream. The
  order of samples is the subject of `StreamTest` and `FinalStateTest`.
* `ConformingPairPasses` has one exception: Connext Micro drops a subscriber's
  `-c` silently, so Test_Cft_0 fails instead of being unsupported.
* `FilterAlarmsJustified` speaks of alarms and of missing data. OK only means
  that enough samples of the first instance were read; that it should exclude
  samples that came too early is `filter_early` (section 6).
* `CoherentSetsJudged` demands acceptance only of complete sets that are grouped
  by instance, with no color going on over the border of a pass or of a topic;
  that others are refused is `coherent_sets` (section 6). Of OK it demands only
  whole totals: an instance whose samples never come in a row is not judged, so
  that an incomplete set can be made up for by the samples of another instance,
  although the docstring says that sets are received complete
  (`test_suite_functions.py:997`).
* A line that matches the pattern without being a sample ends the loops of
  `ReceiverChecks` with the code so far. No text says that it should not.
* `ZeroMeansCovered` is about runs whose archive of old reports succeeded: the
  script goes on without it and then counts the old ones.
* The final-state checks stop as soon as as many instances have ended as were
  seen: after a late match this can be the first one alone.
* A lifespan run that no jump has ended is not judged.
* The History test cases read every 200 ms what is written every 50 ms into a
  depth of five (`test_suite.py:209`): that this suffices is not checked.
* `docker ps` in `cleanup_parallel` sees the containers that run; one that its
  `docker run` is only about to start is not removed.
* `ArrivalOrderIrrelevant` is about packets that do not contradict each other,
  and not about the lease, of which the last one seen is kept.
* `BlameIsJust` is one half of the mask test, that it blames nobody wrongly; the
  other half, that it misses no all-zero mask, is `discovery_zero_mask`.
* `Test_SPDP_Vendor_Identification` never fails: an unknown vendor has a text
  like any other, although `README_DISCOVERY.md:57` gives "unknown / invalid ID"
  as its condition of failure.
* `ViewsAgree` states what is counted: a test case that is unsupported in all
  files counts as always passing, which `README_COMPARE_JUNITREPORTS.md:158`
  says.
* `Chronological` is about files whose names have one format. Names of both in
  one directory are misordered: the keys 20250131-0900 and 2025-02-02-09_00_00
  are compared as text, against "chronologically" at `file_registry.py:67`.
* In `ReportCompare` a test case is identified by suite and name. The parameters
  of its command lines, which the key has too, are left out: they follow from the
  name unless `test_suite.py` is changed between the runs.
* The workbook's sheets have the names of the products; the cut to 31 characters
  is left out, as is a clash of two names after it.
* `explain-parallel` ends with 0 also if it had nothing to write.
* `CompleteIsAligned` needs all pairs and the same test cases for each: the rows
  of the table of a product as subscriber have no names, so that a missing
  pair or case shifts results to rows of others.
* `KnownProductsSuffice`: a single product whose company is unknown (RustDDS is
  one) costs the whole workbook.
* `OnePageFindsLatest` is about folders of one page. With more, the list of items
  is replaced by every page, against the comment at `get_latest_file_urls.py:57`
  that all files are retrieved, and what is on an earlier page is not found.
* Constants of the check functions are scaled down (samples wanted, group
  sizes, tolerance); comparisons are kept.

## 6. Disagreements found

| Run | Property | What happens |
|---|---|---|
| `harness_lost_code` | `ReturnCodesWritten` | an exception of pexpect (a missing executable) leaves an int in `return_codes`, against the comment that every element is a code |
| `coherent_sets` | `WholeSetsAccepted` | a complete set is DATA_NOT_CORRECT if its first color is the one the pass before ended with (or if two topics have neighbours of one color), although the docstring counts consecutive samples of one instance. Two complete sets in one pass, set after set, are refused as well: the counter of an instance survives the end of a run |
| `filter_early` | `EarlySampleFails` | after 90% of the samples of the first instance a sample that "arrived too early" ends the loop with OK |
| `suite_created` | `PassMeansCreated` | an application that cannot create its writer or reader never yields WRITER_NOT_CREATED or READER_NOT_CREATED but the codes that negative test cases expect, which pass |
| `benchmark_incomplete` | `IncompleteIsThree` | a container that dies while writing its report ends the script with 1 instead of 3, and the benchmark is aborted instead of repeated |
| `discovery_zero_mask` | `ZeroMaskFails` | an all-zero mask is not reported if another packet of the participant was seen first; `README_DISCOVERY.md` names the mask alone as the condition of failure |

## 7. Not modelled

The applications in C, Rust and Zig, which are programs of their own with the
command line of the C++ one; vendor configuration of transports; workflows and
the documentation build but for the import of the latest files. In
`shape_main.cxx`, several topics and coherent sets of the running loops, `-R`,
`--num-iterations` of a subscriber, `--size-modulo` and `--datafrag-size`. Of all
tools, texts, formats, layout, colors that carry no result, and percentages that
follow from the counts. Of the sniffer, tshark's dissection; of the spreadsheet
and the downloads, openpyxl and Google's client. Of the check functions,
`test_durability_*`, `test_deadline_missed` and `test_large_data` only have
their place in `SuiteRun`. Of `run_tests_parallel.sh`, option parsing. Reasons
are in `PROJECT.json`.

## 8. Plan

Done, in this order: harness and its abstract specification; proofs about it;
check functions, the per-instance ones first, with proofs; the application's
loops and the compositions with the checks; the parallel runner and the
benchmark; the suite end to end; `main`, the sniffer and the script that
runs both, with proofs; the comparison, the workbook and the download; proofs
about the remaining check functions, the final states, the benchmark, the suite,
`main` and the sniffer; a conforming stream and final state are never blamed;
what the sniffer finds in any capture; what the comparison counts and orders,
and which reports become a workbook.

Next:

1. Theorems about the workbook (`WorkbookAgrees`, `CompleteIsAligned`) and the
   search of the drive (`OnePageFindsLatest`).
2. `ShapeMain` with several topics, coherent sets and ordered access, composed
   with `OrderedAccessCheck` and `CoherentSetsCheck`: does a conforming
   implementation print what these functions expect?
3. `test_durability_volatile`, `test_durability_transient_local`,
   `test_deadline_missed` and `test_large_data` as modules of their own.
4. The C, Rust and Zig applications as further builds of `ShapeSetup`, with
   their own lines and refusals.
