----------------------------- MODULE TestSuite -----------------------------
(***************************************************************************)
(* The table of test_suite.py: for every test case the command line of     *)
(* each application, the codes it must produce and the function that       *)
(* checks the samples.                                                     *)
(*                                                                         *)
(* A command line is a record with a field per flag that is given, named   *)
(* after the flag.  Left out are the flags on which neither the matching   *)
(* of the applications nor the codes depend: -k, -z 0, --num-instances,    *)
(* --num-iterations, --read-period, --final-instance-state, --take-read,   *)
(* --size-modulo, --coherent-sample-count, --additional-payload-size, and  *)
(* --write-period where there is no deadline.  Intervals are in ms.        *)
(***************************************************************************)
EXTENDS Integers, Sequences, TLC

P(flags) == flags @@ [role |-> "P", t |-> "Square"]
S(flags) == flags @@ [role |-> "S", t |-> "Square"]

Case(apps, expected_codes, check_function) ==
  [apps |-> apps, expected_codes |-> expected_codes, check_function |-> check_function]

Good == <<"OK", "OK">>
Incompatible == <<"INCOMPATIBLE_QOS", "INCOMPATIBLE_QOS">>
Unmatched == <<"READER_NOT_MATCHED", "DATA_NOT_RECEIVED">>

\* One publisher and one subscriber, whose data is only received (basic_check)
\* or checked by a function.
Pair(pub, sub, codes) == Case(<<P(pub), S(sub)>>, codes, "basic_check")
Checked(pub, sub, function) == Case(<<P(pub), S(sub)>>, Good, function)

Default == [t |-> "Square"]               \* no other flag
BestEffort == [rel |-> "b"]
Reliable == [rel |-> "r"]

Domain ==
  << Pair([d |-> 0], [d |-> 0, rel |-> "b"], Good),
     Pair([d |-> 0], [d |-> 1], Unmatched),
     Pair([d |-> 1], [d |-> 1, rel |-> "b"], Good) >>

DataRepresentation ==
  << Pair([x |-> 1], [x |-> 1], Good),
     Pair([x |-> 1], [x |-> 2], Incompatible),
     Pair([x |-> 2], [x |-> 1], Incompatible),
     Pair([x |-> 2], [x |-> 2, rel |-> "b"], Good) >>

Reliability ==
  << Checked(BestEffort, BestEffort, "test_order_w_instances"),
     Pair(BestEffort, Reliable, Incompatible),
     Pair(Reliable, BestEffort, Good),
     Pair(Reliable, Reliable, Good),
     Checked(Reliable, Reliable, "test_reliability_no_losses_w_instances"),
     Checked(Reliable, Reliable, "test_reliability_no_losses_w_instances") >>

History ==
  << Checked(Reliable, Reliable, "test_reliability_no_losses_w_instances"),
     Checked(Reliable, Reliable, "test_reliability_no_losses_w_instances") >>

\* Two publishers that differ in strength, color and size.
OwnedBy(strength1, strength2, color2, sub, code) ==
  Case(<<P([s |-> strength1, rel |-> "r", c |-> "BLUE", z |-> 20]),
         P([s |-> strength2, rel |-> "r", c |-> color2, z |-> 30]),
         S([s |-> sub, rel |-> "r"])>>,
       <<"OK", "OK", code>>, "test_size_receivers")

Shared == -1

Ownership ==
  << Pair([s |-> Shared], [s |-> Shared], Good),
     Pair([s |-> Shared], [s |-> 1], Incompatible),
     Pair([s |-> 3], [s |-> Shared], Incompatible) >>

OwnershipReceivers ==
  << OwnedBy(3, 4, "BLUE", 1, "RECEIVING_FROM_ONE"),
     OwnedBy(3, 4, "RED", 1, "RECEIVING_FROM_BOTH"),
     OwnedBy(Shared, Shared, "BLUE", Shared, "RECEIVING_FROM_BOTH"),
     OwnedBy(Shared, Shared, "RED", Shared, "RECEIVING_FROM_BOTH") >>

Deadline ==
  << Pair([f |-> 3000], [f |-> 5000], Good),
     Pair([f |-> 5000], [f |-> 5000], Good),
     Pair([f |-> 7000], [f |-> 5000], Incompatible),
     Case(<<P([f |-> 2000, w |-> TRUE, write_period |-> 3000]), S([f |-> 2000])>>,
          <<"DEADLINE_MISSED", "DEADLINE_MISSED">>, "test_deadline_missed") >>

Topic ==
  << Pair([t |-> "Circle"], [t |-> "Circle"], Good),
     Pair([t |-> "Square"], [t |-> "Circle"], Unmatched) >>

Cft ==
  << Case(<<P([rel |-> "r", c |-> "BLUE"]), P([rel |-> "r", c |-> "RED"]),
            S([rel |-> "r", c |-> "RED"])>>,
          <<"OK", "OK", "RECEIVING_FROM_ONE">>, "test_color_receivers"),
     Checked(Reliable, [rel |-> "r", cft |-> "shapesize <= 20"], "test_size_less_than_20") >>

Partition ==
  << Pair([p |-> "p1"], [p |-> "p1"], Good),
     Pair([p |-> "p1"], [p |-> "p2"], Unmatched),
     Case(<<P([p |-> "p1", c |-> "BLUE"]), P([p |-> "x1", c |-> "RED"]), S([p |-> "p*"])>>,
          <<"OK", "READER_NOT_MATCHED", "RECEIVING_FROM_ONE">>, "test_color_receivers") >>

Durable(pub, sub, codes) == Pair([D |-> pub], [D |-> sub], codes)

Durability ==
  << Durable("v", "v", Good),
     Durable("v", "l", Incompatible),
     Durable("v", "t", Incompatible),
     Durable("v", "p", Incompatible),
     Durable("l", "v", Good),
     Durable("l", "l", Good),
     Durable("l", "t", Incompatible),
     Durable("l", "p", Incompatible) >>

DurabilityStored ==
  << Durable("t", "v", Good),
     Durable("t", "l", Good),
     Durable("t", "t", Good),
     Durable("t", "p", Incompatible),
     Durable("p", "v", Good),
     Durable("p", "l", Good),
     Durable("p", "t", Good),
     Durable("p", "p", Good),
     Checked([rel |-> "r", D |-> "v", w |-> TRUE], [rel |-> "r", D |-> "v"],
             "test_durability_volatile"),
     Checked([rel |-> "r", D |-> "l", w |-> TRUE], [rel |-> "r", D |-> "l"],
             "test_durability_transient_local") >>

Filtered ==
  Checked(Default, [time_filter |-> 1000], "test_reading_1_sample_every_10_samples_w_instances")

TimeBasedFilter == << Filtered, Filtered >>

FinalInstanceState ==
  << Checked(Default, Default, "test_unregistering_w_instances"),
     Checked(Default, Default, "test_disposing_w_instances"),
     Checked(Default, Default, "test_unregistering_w_instances") >>

LargeData == << Checked(Reliable, Reliable, "test_large_data") >>

Expiring(rel, lifespan) ==
  Checked([rel |-> rel, lifespan |-> lifespan], [rel |-> rel],
          "test_lifespan_2_3_consecutive_samples_w_instances")

LifespanReliable ==
  << Expiring("r", 250), Expiring("r", 250), Expiring("r", 1000), Expiring("r", 1000) >>

LifespanBestEffort ==
  << Expiring("b", 250), Expiring("b", 250), Expiring("b", 1000), Expiring("b", 1000) >>

\* "v" stands for a command line without -D: VOLATILE is the default.
Ordered(durability, scope) ==
  [rel |-> "r", D |-> durability, ordered |-> TRUE, access_scope |-> scope]

OrderedPair(durability, pub, sub, codes) ==
  Pair(Ordered(durability, pub), Ordered(durability, sub), codes)

OrderedAccess ==
  << OrderedPair("v", "i", "i", Good),
     OrderedPair("v", "i", "t", Incompatible),
     OrderedPair("v", "i", "g", Incompatible),
     OrderedPair("v", "t", "i", Good),
     OrderedPair("v", "t", "t", Good),
     OrderedPair("v", "t", "g", Incompatible),
     OrderedPair("v", "g", "i", Good),
     OrderedPair("v", "g", "t", Good),
     OrderedPair("v", "g", "g", Good) >>

\* Two subscribers with different scopes.
TwoScopes(durability) ==
  Case(<<P(Ordered(durability, "t")), S(Ordered(durability, "i")), S(Ordered(durability, "t"))>>,
       <<"OK", "ORDERED_ACCESS_INSTANCE", "ORDERED_ACCESS_TOPIC">>, "ordered_access_w_instances")

OrderedAccessMixed ==
  << Pair([rel |-> "r", access_scope |-> "t"], Ordered("v", "t"), Incompatible),
     TwoScopes("v") >>

OrderedAccessDurable ==
  << OrderedPair("l", "i", "i", Good),
     OrderedPair("l", "t", "i", Good),
     OrderedPair("l", "t", "t", Good),
     OrderedPair("l", "g", "i", Good),
     OrderedPair("l", "g", "t", Good),
     OrderedPair("l", "g", "g", Good),
     TwoScopes("l") >>

Coherent(durability, scope) ==
  [rel |-> "r", D |-> durability, coherent |-> TRUE, access_scope |-> scope]

CoherentPair(durability, pub, sub, codes) ==
  Pair(Coherent(durability, pub), Coherent(durability, sub), codes)

CoherentSets ==
  << CoherentPair("v", "i", "i", Good),
     CoherentPair("v", "i", "t", Incompatible),
     CoherentPair("v", "i", "g", Incompatible),
     CoherentPair("v", "t", "i", Good),
     CoherentPair("v", "t", "t", Good),
     CoherentPair("v", "t", "g", Incompatible),
     CoherentPair("v", "g", "i", Good),
     CoherentPair("v", "g", "t", Good),
     CoherentPair("v", "g", "g", Good) >>

\* Sets that span three topics.
ThreeTopics(durability, scope) ==
  LET flags == Coherent(durability, scope) @@ [num_topics |-> 3] IN
  Checked(flags, flags, IF scope = "g" THEN "coherent_sets_w_instances"
                        ELSE "coherent_sets_w_instances_non_group")

CoherentSetsTopics ==
  << Pair([rel |-> "r", access_scope |-> "t"], Coherent("v", "t"), Incompatible),
     ThreeTopics("v", "i"), ThreeTopics("v", "t"), ThreeTopics("v", "g") >>

CoherentSetsDurable ==
  << CoherentPair("l", "i", "i", Good),
     CoherentPair("l", "t", "i", Good),
     CoherentPair("l", "t", "t", Good),
     CoherentPair("l", "g", "i", Good),
     CoherentPair("l", "g", "t", Good),
     CoherentPair("l", "g", "g", Good) >>

CoherentSetsDurableTopics ==
  << ThreeTopics("l", "i"), ThreeTopics("l", "t"), ThreeTopics("l", "g") >>

rtps_test_suite_1 ==
  Domain \o DataRepresentation \o Reliability \o History \o Ownership \o OwnershipReceivers
  \o Deadline \o Topic \o Cft \o Partition \o Durability \o DurabilityStored
  \o TimeBasedFilter \o FinalInstanceState \o LargeData \o LifespanReliable
  \o LifespanBestEffort \o OrderedAccess \o OrderedAccessMixed \o OrderedAccessDurable
  \o CoherentSets \o CoherentSetsTopics \o CoherentSetsDurable \o CoherentSetsDurableTopics

=============================================================================
