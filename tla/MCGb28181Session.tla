-------------------------- MODULE MCGb28181Session --------------------------
(* Small instances of Gb28181Session: streams of three frames of the kinds
   and lengths that the parser tells apart, from two sources.                *)
EXTENDS Gb28181Session

MCFrame(len, kind, ssrc) == [start |-> 0, len |-> len, kind |-> kind, ssrc |-> ssrc]

MCFrames == {MCFrame(1, "rtp96", 1), MCFrame(3, "rtp96", 1), MCFrame(2, "rtp96", 2),
             MCFrame(0, "other", 1), MCFrame(4, "other", 1)}

\* One behind the other.
MCLaid(a, b, c) ==
    <<a, [b EXCEPT !.start = a.len + 2], [c EXCEPT !.start = a.len + b.len + 4]>>

MCStreams == {MCLaid(a, b, c) : a, b, c \in MCFrames}
=============================================================================
