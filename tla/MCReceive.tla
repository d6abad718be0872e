------------------------------ MODULE MCReceive ------------------------------
(***************************************************************************)
(* The streams of the receive path's instance: every way to fill one of    *)
(* the StreamLengths with the frames below, starting with a keyframe.      *)
(***************************************************************************)
EXTENDS RtpVideoFrameAssembler

CONSTANTS
    StreamLengths,      \* how many packets a stream has
    MaxFramePackets,    \* the longest frame, at most 3 packets
    MaxPadding          \* how many packets of a stream are padding

Part(kind, begin, end, key, keyframe) ==
    [kind |-> kind, frame |-> 0, begin |-> begin, end |-> end, key |-> key,
     many |-> FALSE, keyframe |-> keyframe]

\* A STAP-A packet with kMaxNalusPerPacket NAL units.
ManyNalus(part) == [part EXCEPT !.many = TRUE]

\* RTP padding has no payload.  A payload header with nothing after it is one
\* byte in the generic format, a fragment without content (FU-A) in H.264.
Padding == {<<Part(k, FALSE, FALSE, FALSE, FALSE)>> : k \in {"bare", "empty"}}

KeyFrame(c) ==
    {<<Part("media", TRUE, TRUE, TRUE, TRUE)>>}
    \cup IF c = "generic"
         THEN {<<Part("media", TRUE, FALSE, TRUE, TRUE), Part("media", FALSE, TRUE, TRUE, TRUE)>>}
         ELSE {<<Part("media", TRUE, FALSE, FALSE, TRUE), Part("media", TRUE, TRUE, TRUE, TRUE)>>,
               <<Part("media", TRUE, FALSE, TRUE, TRUE), Part("media", FALSE, TRUE, FALSE, TRUE)>>,
               <<ManyNalus(Part("media", TRUE, TRUE, TRUE, TRUE))>>}

DeltaFrame(c) ==
    {<<Part("media", TRUE, TRUE, FALSE, FALSE)>>,
     <<Part("media", TRUE, FALSE, FALSE, FALSE), Part("media", FALSE, TRUE, FALSE, FALSE)>>,
     <<Part("media", TRUE, FALSE, FALSE, FALSE), Part("media", FALSE, FALSE, FALSE, FALSE),
       Part("media", FALSE, TRUE, FALSE, FALSE)>>}
    \cup IF c = "generic" THEN {}
         ELSE {<<Part("media", TRUE, FALSE, FALSE, FALSE), Part("media", TRUE, TRUE, FALSE, FALSE)>>,
               <<ManyNalus(Part("media", TRUE, FALSE, FALSE, FALSE)), Part("media", TRUE, TRUE, FALSE, FALSE)>>}

\* Give every media packet the number of its frame.
Numbered(s) ==
    [i \in DOMAIN s |->
        IF s[i].kind # "media" THEN s[i]
        ELSE [s[i] EXCEPT !.frame =
                Cardinality({j \in 1..i : s[j].kind = "media" /\ (j = 1 \/ s[j - 1].kind # "media" \/ s[j - 1].end)})]]

\* n packets of the codec c, at most pads of them padding.
RECURSIVE Filled(_, _, _)
Filled(c, n, pads) ==
    IF n = 0 THEN {<<>>}
    ELSE UNION {{part \o rest : rest \in Filled(c, n - Len(part),
                                               IF part \in Padding THEN pads - 1 ELSE pads)} :
                  part \in {p \in KeyFrame(c) \cup DeltaFrame(c) \cup (IF pads > 0 THEN Padding ELSE {}) :
                                Len(p) <= n /\ Len(p) <= MaxFramePackets}}

\* One packet that cannot be used (empty, or with many NAL units) and two
\* keyframes at most: what more of them would add is already reached.
Interesting(s) ==
    /\ s[1].keyframe
    /\ Cardinality({i \in DOMAIN s : s[i].many \/ s[i].kind = "empty"}) <= 1
    /\ Cardinality({i \in DOMAIN s : s[i].keyframe /\ s[i].end}) <= 2

MCStreams(c) ==
    {Numbered(s) : s \in {f \in UNION {Filled(c, n, MaxPadding) : n \in StreamLengths} : Interesting(f)}}

=============================================================================
