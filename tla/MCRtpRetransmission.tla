------------------------ MODULE MCRtpRetransmission -------------------------
(* Small instances of RtpRetransmission: a NACK asks for the last two numbers
   spent or for the one before them, at one of two round-trip times; any of
   them may be a number that was not stored.                                 *)
EXTENDS RtpRetransmission

MCInitialNewest == {10}
MCRtts == {1, 2}
MCCapacities == {1}
MCNackLists == {<<1, 0>>, <<2>>}
=============================================================================
