---------------------- MODULE MCRoundRobinPacketQueue -----------------------
(* Small instances of RoundRobinPacketQueue.                                 *)
EXTENDS RoundRobinPacketQueue

MCTypes == {"kAudio", "kVideo"}
MCSizes == {1, 2}
MCOverheads == {0, 1}

\* For the fairness run: one type and one size, many packets, no passing time.
OneType == {"kVideo"}
OneSize == {1}
NoOverheads == {0}
=============================================================================
