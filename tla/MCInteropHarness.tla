-------------------------- MODULE MCInteropHarness --------------------------
(* Instances of InteropHarness small enough for TLC. *)
EXTENDS InteropHarness

\* Two publishers, one of them with -w, and one subscriber (the shape of the
\* ownership tests); or one publisher and two subscribers.
MCTwoPublishers == {1, 2}
MCOnePublisher == {1}
MCNobody == {}
MCAnybody == Entities

MCCheckCodes == {"OK", "DATA_NOT_CORRECT"}

\* The test expects data to flow; the codes found vary.
MCExpectedLists == { [e \in Entities |-> "OK"] }

=============================================================================
