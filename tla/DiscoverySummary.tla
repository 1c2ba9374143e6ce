------------------------- MODULE DiscoverySummary --------------------------
(***************************************************************************)
(* discovery/rtps_discovery_sniffer.py: what the sniffer makes of the RTPS *)
(* packets it captured (parse_discovery_data) and the seven test cases it  *)
(* judges from that (generate_junit_report).                               *)
(*                                                                         *)
(* A dissected packet is a record: the GUID prefix of a PID_PARTICIPANT_   *)
(* GUID parameter and of the RTPS header ("" when there is none), the last *)
(* vendor and version in the tree, the lease (0: none), the mask of builtin*)
(* endpoints (Unknown: none), the locators, and the SEDP announcements in  *)
(* tree order, "" or Unknown standing for a parameter that is not there.   *)
(***************************************************************************)
EXTENDS Integers, Sequences, FiniteSets, SequencesExt

Unknown == -1
VENDOR_MAP == (257..266) \cup (271..276) \cup {288}  \* 0101..010a 010f..0114 0120
BUILTIN_ENDPOINTS == 0..23                           \* the bits that have a name

decode_vendor(v) == [vendor_id |-> v, named |-> v \in VENDOR_MAP]

\* A number gives <<major, minor>>, other text the numbers it is made of: <<>>
\* when it is not a dotted list of numbers, or when there is no version at all.
decode_version(v) ==
  IF v.number THEN <<(v.val \div 256) % 256, v.val % 256>> ELSE v.parts

decode_builtin_endpoints(mask) ==
  {bit \in BUILTIN_ENDPOINTS : (mask \div 2^bit) % 2 = 1}

Flags(mask) == IF mask = Unknown THEN {} ELSE decode_builtin_endpoints(mask)

guid_p(pkt) == IF pkt.participant_guid # "" THEN pkt.participant_guid
               ELSE pkt.header_guid

Empty == [participants |-> <<>>, endpoints |-> <<>>]

NewParticipant(pkt) ==
  [vendor  |-> decode_vendor(pkt.vendor),
   version |-> decode_version(pkt.version),
   lease   |-> IF pkt.lease = 0 THEN 20 ELSE pkt.lease,
   mask    |-> pkt.mask,
   locators |-> pkt.locators]

\* Mutants: the locators stay those of the first packet; every mask replaces
\* the one before.
Augment_NoLocators(part, pkt) ==
  [part EXCEPT
     !.mask  = IF Flags(@) = {} /\ Flags(pkt.mask) # {} THEN pkt.mask ELSE @,
     !.lease = IF pkt.lease # 0 THEN pkt.lease ELSE @]
Augment_LastMask(part, pkt) ==
  [part EXCEPT
     !.mask  = IF pkt.mask # Unknown THEN pkt.mask ELSE @,
     !.lease = IF pkt.lease # 0 THEN pkt.lease ELSE @,
     !.locators = @ \cup pkt.locators]

\* Vendor and version stay those of the first packet; a mask is taken later
\* only if it names a flag and no earlier one did.
Augment(part, pkt) ==
  [part EXCEPT
     !.mask  = IF Flags(@) = {} /\ Flags(pkt.mask) # {} THEN pkt.mask ELSE @,
     !.lease = IF pkt.lease # 0 THEN pkt.lease ELSE @,
     !.locators = @ \cup pkt.locators]

inspect_spdp(participants, pkt) ==
  LET g == guid_p(pkt)
      known == DOMAIN participants
  IN  IF g = "" THEN participants
      ELSE [h \in known \cup {g} |->
              IF h # g THEN participants[h]
              ELSE IF g \in known THEN Augment(participants[g], pkt)
              ELSE NewParticipant(pkt)]

\* The whole packet is one candidate: with several announcements in it the
\* last value of each parameter wins.
LastGiven(announcements, field, none) ==
  LET i == SelectLastInSeq(announcements, LAMBDA a : a[field] # none)
  IN  IF i = 0 THEN none ELSE announcements[i][field]

OrElse(value, none, default) == IF value = none THEN default ELSE value

inspect_cand(announcements) ==
  LET given(field, none) == LastGiven(announcements, field, none)
  IN  [topic_name    |-> given("topic_name", ""),
       type_name     |-> given("type_name", ""),
       endpoint_guid |-> given("endpoint_guid", ""),
       entity_kind   |-> given("entity_kind", Unknown),
       reliability   |-> OrElse(given("reliability", ""), "", "BEST_EFFORT"),
       durability    |-> OrElse(given("durability", Unknown), Unknown, 0),
       has_type_object |-> \E i \in DOMAIN announcements :
                             announcements[i].has_type_object]

Key(ep) == <<ep.endpoint_guid, ep.topic_name>>

extract_sedp_endpoints(endpoints, pkt) ==
  LET cand == inspect_cand(pkt.sedp)
  IN  IF \/ cand.topic_name = "" \/ cand.type_name = "" \/ cand.endpoint_guid = ""
         \/ \E i \in DOMAIN endpoints : Key(endpoints[i]) = Key(cand)
      THEN endpoints ELSE Append(endpoints, cand)

ParsePacket(summary, pkt) ==
  [participants |-> inspect_spdp(summary.participants, pkt),
   endpoints    |-> extract_sedp_endpoints(summary.endpoints, pkt)]

parse_discovery_data(raw_packets) == FoldLeft(ParsePacket, Empty, raw_packets)

-----------------------------------------------------------------------------
(* generate_junit_report: the seven test cases.                            *)

Endpoints(s) == {s.endpoints[i] : i \in DOMAIN s.endpoints}
Participants(s) == {s.participants[g] : g \in DOMAIN s.participants}
writers(s) == {ep \in Endpoints(s) : ep.entity_kind \in {2, 3}}
readers(s) == {ep \in Endpoints(s) : ep.entity_kind \in {4, 7}}

version_ok(v) == v # <<>> /\ (v[1] > 2 \/ (v[1] = 2 /\ Len(v) > 1 /\ v[2] >= 1))

Disjoint(s, field) ==
  /\ writers(s) # {} /\ readers(s) # {}
  /\ {w[field] : w \in writers(s)} \cap {r[field] : r \in readers(s)} = {}

topic_type_match(s, args) ==
  /\ args.topic # "" => \E ep \in Endpoints(s) : ep.topic_name = args.topic
  /\ args.type # "" => \E ep \in Endpoints(s) : ep.type_name = args.type
  /\ ~Disjoint(s, "topic_name") /\ ~Disjoint(s, "type_name")

\* Offered >= requested, for every writer with every reader, whatever the topic.
qos_compatible(s) ==
  \A w \in writers(s), r \in readers(s) :
    /\ ~(w.reliability = "BEST_EFFORT" /\ r.reliability = "RELIABLE")
    /\ w.durability >= r.durability

\* The test cases that fail; vendor and type information never do.
FailedCases(s, args) ==
  {c \in {"Participant_Discovery", "Protocol_Version", "Builtin_Endpoints",
          "Topic_Type_Match", "QoS_Compatibility"} :
     CASE c = "Participant_Discovery" -> Cardinality(DOMAIN s.participants) < args.participants
       [] c = "Protocol_Version"  -> \E p \in Participants(s) : ~version_ok(p.version)
       [] c = "Builtin_Endpoints" -> \E p \in Participants(s) : p.mask = 0
       [] c = "Topic_Type_Match"  -> ~topic_type_match(s, args)
       [] c = "QoS_Compatibility" -> ~qos_compatible(s)}

=============================================================================
