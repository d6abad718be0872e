------------------------- MODULE MCUsrsctpTransport -------------------------
(* Small instances of UsrsctpTransport.                                      *)
EXTENDS UsrsctpTransport

CONSTANTS a, b, s1, s2

MCWriters == {<<a, s1, 3>>, <<a, s2, 0>>}
MCClosures ==
    {{<<a, s1>>, <<a, s2>>}, {<<b, s1>>, <<a, s2>>}, {<<a, s1>>, <<b, s1>>}}
MCLimits == [p \in {a, b} |-> IF p = a THEN {1} ELSE {3}]
MCMaxOpens == [s \in {s1, s2} |-> IF s = s1 THEN 2 ELSE 1]
MCMaxStarts == [p \in {a, b} |-> IF p = a THEN 2 ELSE 1]
MCMaxFailures == [p \in {a, b} |-> IF p = a THEN 1 ELSE 0]

\* For the run of ResetStreamCompletes: both ends connected, one closes.
OneSize == {<<a, s1, 3>>}
OneCloser == {{<<a, s1>>, <<a, s2>>}}
NoStarts == [p \in {a, b} |-> 1]
OneOpening == [s \in {s1, s2} |-> 1]
NoFailures == [p \in {a, b} |-> 0]
=============================================================================
