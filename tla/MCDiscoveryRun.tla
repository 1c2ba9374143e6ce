--------------------------- MODULE MCDiscoveryRun --------------------------
(* A small instance of DiscoveryRun for TLC.                               *)
EXTENDS DiscoveryRun

MCPairs == <<"A---B", "B---A">>
MCTestSuite ==
  <<[name |-> "Domain_0", apps |-> <<<<"-P">>, <<"-S", "-x">>>>],
    [name |-> "Reliability_0", apps |-> <<<<"-P", "-x">>, <<"-S">>>>]>>

MCSelections ==
  {[tests |-> {}, disabled |-> {"Domain_0"}], [tests |-> {}, disabled |-> {}],
   [tests |-> {"Domain_0"}, disabled |-> {}], [tests |-> {"Domain_9"}, disabled |-> {}]}

RTPS24 == [number |-> TRUE, val |-> 516, parts |-> <<>>]
Packet(g, version, mask, lease, locators, sedp) ==
  [participant_guid |-> g, header_guid |-> g, vendor |-> 257, version |-> version,
   mask |-> mask, lease |-> lease, locators |-> locators, sedp |-> sedp]
Announcement(g, kind, topic, rel, dur) ==
  [topic_name |-> topic, type_name |-> "ShapeType", endpoint_guid |-> g,
   entity_kind |-> kind, reliability |-> rel, durability |-> dur,
   has_type_object |-> FALSE]
DataW == Announcement("A.w", 2, "Square", "RELIABLE", Unknown)
DataR == Announcement("B.r", 7, "Square", "RELIABLE", 1)

MCSPDP == {Packet("A", RTPS24, 3135, 0, {"a"}, <<>>), Packet("B", RTPS24, 3135, 0, {}, <<>>)}

\* SPDP with a full, an empty and an unnamed mask, a second lease and locator,
\* a bad version and vendor, SEDP announcements alone and batched, a packet of nobody.
MCPackets ==
  {Packet("A", RTPS24, 3135, 0, {"a"}, <<>>), Packet("A", RTPS24, 0, 100, {"b"}, <<>>),
   Packet("A", RTPS24, 2^28, 0, {}, <<>>), Packet("A", RTPS24, Unknown, 0, {}, <<DataW>>),
   [Packet("B", [number |-> FALSE, parts |-> <<2, 0>>], Unknown, 0, {}, <<DataR>>) EXCEPT !.vendor = 999],
   Packet("B", RTPS24, Unknown, 30, {"c"}, <<DataW, DataR>>),
   Packet("", RTPS24, Unknown, 0, {}, <<>>)}

=============================================================================
