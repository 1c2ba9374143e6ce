--------------------------- MODULE MCReportTools ---------------------------
(* A small instance of ReportTools for TLC.                                *)
EXTENDS ReportTools

Connext == [tokens |-> {"connext"}, version |-> 7, dashes |-> 1]
Micro == [tokens |-> {"connext", "micro"}, version |-> 7, dashes |-> 2]
Zz == [tokens |-> {"zzdds"}, version |-> 7, dashes |-> 1]
Rust == [tokens |-> {"rustdds"}, version |-> 1, dashes |-> 1]

Row(expected, produced) == [expected |-> expected, produced |-> produced]
OKs == <<Row("OK", "OK"), Row("OK", "OK")>>
Unsupported == <<Row("OK", "PUB_UNSUPPORTED_FEATURE"), Row("OK", "READER_NOT_MATCHED")>>
NoData == <<Row("OK", "OK"), Row("OK", "DATA_NOT_RECEIVED")>>
NoFilter == <<Row("READER_NOT_MATCHED", "OK"), Row("OK", "FILTER_NOT_CREATED")>>

\* The last day of a month, three files of the next day, one of them of
\* another batch, and one with a name of the old format.
Name(format, day, month, hhmm, parallel, batch, name) ==
  [format |-> format, name |-> name, year |-> 2025, month |-> month, day |-> day, hhmm |-> hhmm,
   parallel |-> parallel, batch |-> batch]
MCNames == {Name("new", 31, 1, 900, 1, 1, 5), Name("new", 1, 2, 900, 1, 1, 1),
            Name("new", 1, 2, 930, 2, 2, 2), Name("new", 1, 2, 1000, 2, 1, 3),
            Name("old", 2, 2, 900, 0, 0, 4)}

T1 == <<"Reliability", 0>>
T2 == <<"Reliability", 1>>
Suite(p, q, cases) == [name |-> <<p, q>>, cases |-> cases]
\* The last one holds a test case twice, as after a second run of the pair.
MCContents ==
  {<<Suite(Connext, Zz, <<Result(T1, rows)>>)>> : rows \in {OKs, Unsupported, NoData}}
   \cup {<<Suite(Micro, Zz, <<Result(T1, NoFilter), Result(T2, OKs)>>),
           Suite(Connext, Zz, <<Result(T1, OKs)>>)>>,
         <<Suite(Connext, Zz, <<Result(T1, OKs), Result(T1, NoData)>>)>>}

MCBatches == {NoBatch, 1}
MCSuiteRuns ==
  {Suite(p, q, <<Result(T1, rows), Result(T2, OKs)>>) :
     p \in {Connext, Micro}, q \in {Connext, Micro}, rows \in {OKs, NoData}}
   \cup {Suite(Micro, Zz, <<Result(T2, Unsupported)>>),
         Suite(Connext, Rust, <<Result(T1, OKs)>>)}

=============================================================================
