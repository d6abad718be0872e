------------------------- MODULE MCRtpPacketHistory -------------------------
(* Small instances of RtpPacketHistory: a span of 12 sequence numbers that
   starts just below the wrap, a capacity of 2 and a padding set of 2.       *)
EXTENDS RtpPacketHistory

MCInitialNewest == {10}
MCRtts == {1}
MCCapacities == {1, 3}
=============================================================================
