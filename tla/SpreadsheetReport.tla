------------------------- MODULE SpreadsheetReport -------------------------
(***************************************************************************)
(* generate_xlsx_report.py: a JUnit report as a workbook with a summary of *)
(* all pairs and a sheet for each publisher, which holds two tables side   *)
(* by side: the product as publisher, with the names of the test cases,    *)
(* and as subscriber, without them.                                        *)
(*                                                                         *)
(* A product is [tokens, version, dashes]: the names of implementations    *)
(* its name contains, and its version.  Formats, sizes and wording are     *)
(* left out, but for the colors.                                           *)
(***************************************************************************)
EXTENDS JunitReport, FiniteSets, SequencesExt

Beautified(name, tokens, p) == [name |-> name, tokens |-> tokens, version |-> p.version]

\* The first name that is found, as the chain of elif has it.
get_product_name(p) ==
  LET has(t) == t \in p.tokens
  IN  IF has("connext") /\ has("micro") THEN Beautified("Connext DDS Micro", {"connext", "micro"}, p)
      ELSE IF has("connext")  THEN Beautified("Connext DDS", {"connext"}, p)
      ELSE IF has("opendds")  THEN Beautified("OpenDDS", {"opendds"}, p)
      ELSE IF has("coredx")   THEN Beautified("CoreDX DDS", {"coredx"}, p)
      ELSE IF has("intercom") THEN Beautified("InterCOM DDS", {"intercom"}, p)
      ELSE IF has("fastdds")  THEN Beautified("FastDDS", {"fastdds"}, p)
      ELSE IF has("dust_dds") THEN Beautified("Dust DDS", {"dust"}, p)
      ELSE IF has("hdds")     THEN Beautified("HDDS", {"hdds"}, p)
      ELSE IF has("cyclone")  THEN Beautified("Cyclone DDS", {"cyclone"}, p)
      ELSE IF has("zzdds")    THEN Beautified("Zenzen DDS", {"zenzen"}, p)
      ELSE Beautified("as it is", p.tokens, p)

\* Mutant: the name the workbook gives to zzdds is not among the names.
has_company_name_NoZenzen(q) ==
  q.tokens \cap {"connext", "opendds", "coredx", "intercom", "fastdds", "dust", "hdds",
                 "cyclone", "zzdds"} # {}

\* RuntimeError for any other product.
has_company_name(q) ==
  q.tokens \cap {"connext", "opendds", "coredx", "intercom", "fastdds", "dust", "hdds",
                 "cyclone", "zzdds", "zenzen"} # {}

-----------------------------------------------------------------------------
(* JunitData.get_info                                                      *)

\* A suite whose name is not a pair counts as a product with itself.
publisher_name(suite) == get_product_name(suite.name[1])
subscriber_name(suite) == get_product_name(suite.name[Len(suite.name)])

\* The text of the result names the code, in either column of its table.
Mentions(case, code) ==
  \E i \in DOMAIN case.rows : code \in {case.rows[i].expected, case.rows[i].produced}

is_pub_unsupported(case) == Mentions(case, "PUB_UNSUPPORTED_FEATURE")
is_sub_unsupported(case) == Mentions(case, "SUB_UNSUPPORTED_FEATURE")

TestStatus(case) ==
  CASE case.status = "passed" -> "OK"
    [] case.status # "passed" /\ is_pub_unsupported(case) /\ is_sub_unsupported(case)
         -> "PUB/SUB UNSUPPORTED"
    [] case.status # "passed" /\ is_pub_unsupported(case) /\ ~is_sub_unsupported(case)
         -> "PUB UNSUPPORTED"
    [] case.status # "passed" /\ ~is_pub_unsupported(case) /\ is_sub_unsupported(case)
         -> "SUB UNSUPPORTED"
    [] OTHER -> "ERROR"

\* The entries of a product's dictionary, suite after suite: the results in the
\* role it has there, each with the product in the other role.
Entries(suites, role, product) ==
  LET name(s, r) == IF r = "publisher" THEN publisher_name(s) ELSE subscriber_name(s)
      other == CHOOSE r \in {"publisher", "subscriber"} : r # role
      mine == SelectSeq(suites, LAMBDA s : name(s, role) = product)
  IN  FlattenSeq([i \in DOMAIN mine |-> [k \in DOMAIN mine[i].cases |->
        [product |-> name(mine[i], other), test_name |-> mine[i].cases[k].name,
         status |-> TestStatus(mine[i].cases[k])]]])

publisher_product(suites, p) == Entries(suites, "publisher", p)
subscriber_product(suites, p) == Entries(suites, "subscriber", p)

\* The keys of a dictionary, in the order in which they were added.
InOrder(seq) ==
  FoldLeft(LAMBDA keys, k : IF k \in Range(keys) THEN keys ELSE Append(keys, k), <<>>, seq)

NonEmpty(suites) == SelectSeq(suites, LAMBDA s : s.cases # <<>>)
Publishers(suites) ==
  LET ss == NonEmpty(suites) IN InOrder([i \in DOMAIN ss |-> publisher_name(ss[i])])
Subscribers(suites) ==
  LET ss == NonEmpty(suites) IN InOrder([i \in DOMAIN ss |-> subscriber_name(ss[i])])
Products(suites) ==
  {publisher_name(suites[i]) : i \in DOMAIN suites}
    \cup {subscriber_name(suites[i]) : i \in DOMAIN suites}

\* Mutant: what is skipped is not subtracted from what passed.
product_summary_SkippedPass(suites) ==
  LET pair(s) == <<publisher_name(s), subscriber_name(s)>>
      cases(k, Q(_)) == MapThenSumSet(
        LAMBDA i : Cardinality({c \in DOMAIN suites[i].cases : Q(suites[i].cases[c])}),
        {i \in DOMAIN suites : pair(suites[i]) = k})
  IN  [k \in {pair(suites[i]) : i \in DOMAIN suites} |->
         [passed |-> cases(k, LAMBDA c : c.status # "failure"),
          total  |-> cases(k, LAMBDA c : TRUE),
          unsupported |-> cases(k, LAMBDA c : is_pub_unsupported(c) \/ is_sub_unsupported(c))]]

\* product_summary_dict: the counts of all suites of a pair of products.
product_summary(suites) ==
  LET pair(s) == <<publisher_name(s), subscriber_name(s)>>
      cases(k, Q(_)) == MapThenSumSet(
        LAMBDA i : Cardinality({c \in DOMAIN suites[i].cases : Q(suites[i].cases[c])}),
        {i \in DOMAIN suites : pair(suites[i]) = k})
  IN  [k \in {pair(suites[i]) : i \in DOMAIN suites} |->
         [passed |-> cases(k, LAMBDA c : c.status = "passed"),
          total  |-> cases(k, LAMBDA c : TRUE),
          unsupported |-> cases(k, LAMBDA c : is_pub_unsupported(c) \/ is_sub_unsupported(c))]]

-----------------------------------------------------------------------------
(* XlsxReport                                                              *)

get_format_color(index, num_elements) ==
  CASE num_elements = 0 -> "red"
    [] num_elements # 0 /\ 4 * index < num_elements -> "red"
    [] 4 * index >= num_elements /\ 2 * index < num_elements -> "orange"
    [] 2 * index >= num_elements /\ 4 * index < 3 * num_elements -> "yellow"
    [] 4 * index >= 3 * num_elements /\ index < num_elements -> "lime"
    [] num_elements # 0 /\ index >= num_elements -> "green"

\* passed / supported / total, and the color of the cell.
SummaryCell(d) ==
  [passed |-> d.passed, supported |-> d.total - d.unsupported, total |-> d.total,
   color |-> get_format_color(d.passed, d.total)]

add_data_summary_worksheet(suites) ==
  LET d == product_summary(suites)
  IN  [coverage |-> [p \in {q \in Products(suites) : <<q, q>> \in DOMAIN d} |-> SummaryCell(d[<<p, p>>])],
       matrix   |-> [k \in DOMAIN d |-> SummaryCell(d[k])]]

\* A new product takes the next column, a new test case the next row; the
\* cell of a result that is there already is written again.
add_product_table(value, starting_column) ==
  LET columns == InOrder([i \in DOMAIN value |-> value[i].product])
      rows == InOrder([i \in DOMAIN value |-> value[i].test_name])
      at(r, c) == SelectLastInSeq(value, LAMBDA e : e.product = columns[c] /\ e.test_name = rows[r])
  IN  [columns |-> columns, rows |-> rows,
       first |-> starting_column + 1, last |-> starting_column + Len(columns),
       cells |-> [rc \in (1..Len(rows)) \X (1..Len(columns)) |->
                    IF at(rc[1], rc[2]) = 0 THEN "" ELSE value[at(rc[1], rc[2])].status]]

\* Mutant: no column is left free between the titles.
add_static_data_test_NoGap(pub_product_count, sub_product_count) ==
  [publisher  |-> <<2, 1 + sub_product_count>>,
   subscriber |-> <<2 + sub_product_count, 1 + sub_product_count + pub_product_count>>]

\* Where the titles go, computed from the number of products alone.
add_static_data_test(pub_product_count, sub_product_count) ==
  LET last_column_publisher == 1 + sub_product_count
  IN  [publisher  |-> <<2, last_column_publisher>>,
       subscriber |-> <<last_column_publisher + 2, last_column_publisher + 1 + pub_product_count>>]

\* The sheet of a product: the titles, its table as a publisher and, if it was
\* a subscriber too, the table as a subscriber, with a column between them.
add_data_test_worksheet(suites, name) ==
  LET pub == add_product_table(publisher_product(suites, name), 1)
  IN  [publisher |-> pub,
       subscriber |-> IF name \in Range(Subscribers(suites))
                      THEN <<add_product_table(subscriber_product(suites, name), pub.last + 1)>>
                      ELSE <<>>,
       titles |-> add_static_data_test(Len(Publishers(suites)), Len(Subscribers(suites)))]

Workbook(suites) ==
  [summary |-> add_data_summary_worksheet(suites),
   sheets  |-> [p \in Range(Publishers(suites)) |-> add_data_test_worksheet(suites, p)]]

-----------------------------------------------------------------------------

VARIABLES
  input,    \* the report
  book,     \* the workbook file: <<>> or <<workbook>>
  raised    \* the script ended with an exception

\* main(): the output must not exist, and any exception leaves it unwritten.  A
\* sheet has the first 31 characters of its product's name; two products that
\* agree in them, which xlsxwriter refuses, are left out.
GenerateXlsx ==
  /\ LET ok == /\ book = <<>> /\ input.state = "ok"
               /\ \A p \in Products(input.suites) : has_company_name(p)
     IN  /\ book' = IF ok THEN <<Workbook(input.suites)>> ELSE book
         /\ raised' = ~ok
  /\ UNCHANGED input

=============================================================================
