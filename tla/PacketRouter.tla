----------------------------- MODULE PacketRouter -----------------------------
(***************************************************************************)
(* Where the packets of the pacer go and its padding comes from            *)
(* (pacing/packet_router.cpp).  The object is the record                   *)
(*   modules  send_modules_list_: the registered RTP modules, those of     *)
(*            video before those of audio                                  *)
(*   last     last_send_module_, a pointer that nothing keeps alive        *)
(*   off      the modules with sending_media_ off: they refuse packets and *)
(*            pad nothing                                                  *)
(*   busy     the modules that generate no padding at the moment: in the   *)
(*            middle of a frame without RTX, or before their first media   *)
(* A module has one SSRC here and is named by it.                          *)
(***************************************************************************)
EXTENDS Sequences, SequencesExt

CONSTANTS
    AudioModules,       \* the modules with IsAudioConfigured()
    PayloadPadding,     \* the modules with RTX that can resend payload as padding
    Padding             \* the modules whose packets bandwidth estimation counts

NoModule == "none"

NewRouter == [modules |-> <<>>, last |-> NoModule, off |-> {}, busy |-> {}]

Registered(r) == ToSet(r.modules)

SupportsRtxPayloadPadding(r, m) == m \in PayloadPadding \ r.off

SupportsPadding(r, m) == m \in Padding \ r.off

AddSendRtpModule(r, m) ==
    [r EXCEPT !.modules = IF m \in AudioModules THEN Append(@, m) ELSE <<m>> \o @,
              !.last = IF SupportsRtxPayloadPadding(r, m) THEN m ELSE @]

\* Mutant: the cached module outlives its registration.
RemovedButCached(r, m) == [r EXCEPT !.modules = SelectSeq(@, LAMBDA x : x # m)]

RemoveSendRtpModule(r, m) ==
    [r EXCEPT !.modules = SelectSeq(@, LAMBDA x : x # m),
              !.last = IF @ = m THEN NoModule ELSE @]

\* TrySendPacket: media is not being sent, or media has got ahead of padding
\* that was made for the same SSRC.
TrySendPacket(r, m, isPadding) ==
    m \notin r.off /\ (isPadding => m \notin r.busy \ PayloadPadding)

\* A packet of an unknown module is dropped, and so is one that its module
\* refuses; the pacer does not learn of it.
SendPacket(r, m, isPadding) ==
    IF /\ m \in Registered(r)
       /\ TrySendPacket(r, m, isPadding)
       /\ SupportsRtxPayloadPadding(r, m)
    THEN [r EXCEPT !.last = m] ELSE r

\* The module GeneratePadding takes the padding from: the last one to send, if
\* it can resend payload and generates any, or else the first of the list that
\* generates some.
PaddingModule(r) ==
    LET asked == (IF SupportsRtxPayloadPadding(r, r.last) THEN <<r.last>> ELSE <<>>)
                    \o SelectSeq(r.modules, LAMBDA x : SupportsPadding(r, x))
        able == SelectSeq(asked, LAMBDA x : x \notin r.busy)
    IN  IF able # <<>> THEN Head(able) ELSE NoModule

GeneratePadding(r) ==
    IF PaddingModule(r) = NoModule THEN r ELSE [r EXCEPT !.last = PaddingModule(r)]

=============================================================================
