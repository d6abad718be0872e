--------------------------- MODULE DecodableStream ---------------------------
(***************************************************************************)
(* What the video receive path promises its decoder, without packets,      *)
(* buffers or sequence numbers.  The sender's stream is a sequence of      *)
(* frames 1, 2, 3...; a keyframe stands alone and any other frame refers   *)
(* to the one before it.  The receiver shows some of them, in batches:     *)
(* what it shows can be decoded at the moment it is shown.                 *)
(***************************************************************************)
EXTENDS Naturals, Sequences

VARIABLES
    keys,       \* the frames of the stream that are keyframes
    shown       \* the frames handed to the decoder: [frame, whole], in order

dvars == <<keys, shown>>

ShownBefore(log, i) == {log[j].frame : j \in 1..(i - 1)}

\* A keyframe may come at any time, and again when the network repeats it.  Any
\* other frame is whole, comes after the frame it refers to, and comes once.
Decodable(log, i) ==
    \/ log[i].frame \in keys
    \/ /\ log[i].whole
       /\ log[i].frame - 1 \in ShownBefore(log, i)
       /\ log[i].frame \notin ShownBefore(log, i)

DInit == shown = <<>>

Show ==
    /\ UNCHANGED keys
    /\ Len(shown') > Len(shown)
    /\ SubSeq(shown', 1, Len(shown)) = shown
    /\ \A i \in (Len(shown) + 1)..Len(shown') : Decodable(shown', i)

DSpec == DInit /\ [][Show]_dvars

=============================================================================
