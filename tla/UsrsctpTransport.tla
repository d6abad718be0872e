-------------------------- MODULE UsrsctpTransport --------------------------
(* Two UsrsctpTransports, the ends of one SCTP association                   *)
(* (sctp/usrsctp_transport.cpp): connecting, sending messages that usrsctp   *)
(* may take only in part, putting chunks together again, and closing streams *)
(* by resetting them in both directions.                                     *)
(*                                                                           *)
(* Every method runs on its end's network thread.  usrsctp (external) runs   *)
(* on its own threads and posts its callbacks to that thread, so that they   *)
(* are handled in order but after any call the application makes meanwhile.  *)
(* Data is counted in units; usrsctp holds kSctpSendBufferSize of them.      *)
EXTENDS Naturals, Sequences, SequencesExt, FiniteSets, FiniteSetsExt

CONSTANTS Peers,                 \* the two ends
          Sids,                  \* stream identifiers, none above kMaxSctpSid
          Writers,               \* <<end, stream, size>> of messages that are sent
          Closures,              \* sets of <<end, stream>>: the calls of ResetStream
                                 \* that the applications make in one behaviour
          Connected,             \* the ends that have connected before the
                                 \* behaviour begins
          Limits,                \* for each end, maximal message sizes given to Start
          kSctpSendBufferSize,
          MaxStarts,             \* bound for each end: calls of Start
          MaxOpens,              \* bound for each stream: times an end opens it
          MaxMessages,           \* bound: messages sent by each end
          MaxFailures,           \* bound for each end: resets refused by its peer
          ReuseAfterRefusal      \* whether a stream is used again although a
                                 \* reset was refused

ASSUME SctpConstants ==
    /\ \E p, q \in Peers : p # q /\ Peers = {p, q}
    /\ Connected \subseteq Peers /\ kSctpSendBufferSize \in Nat \ {0}
    /\ Writers \subseteq Peers \X Sids \X Nat
    /\ Closures \subseteq SUBSET (Peers \X Sids)
    /\ \A p \in Peers : Limits[p] \subseteq 1..kSctpSendBufferSize

VARIABLES
    starts,          \* calls of Start; started_ is starts > 0
    was_ever_writable_, sock_, max_message_size_, ready_to_send_data_,
    stream_status_by_sid_,
    partial_outgoing_message_,   \* <<>> or one message
    partial_incoming_message_,   \* the chunks received so far
    tasks,           \* callbacks of usrsctp posted to the network thread
    up,              \* usrsctp: the association is established
    out,             \* usrsctp: what an end has still to convey to its peer
    resetting,       \* usrsctp: the outgoing reset in progress, if any
    failures,
    closures,        \* the element of Closures that this behaviour follows
    opens,           \* times a stream was opened
    log,             \* messages usrsctp took, wholly or in part, in order
    handed           \* messages given to SignalDataReceived, in order

association == <<up, out, resetting, failures>>
connection == <<starts, was_ever_writable_, sock_, max_message_size_>>
history == <<opens, log, handed>>
vars == <<connection, ready_to_send_data_, stream_status_by_sid_,
          partial_outgoing_message_, partial_incoming_message_, tasks,
          association, history, closures>>

Peer(p) == CHOOSE q \in Peers : q # p

-----------------------------------------------------------------------------
(* StreamStatus                                                              *)

StreamStatus == [closure_initiated : BOOLEAN, outgoing_reset_initiated : BOOLEAN,
                 outgoing_reset_complete : BOOLEAN, incoming_reset_complete : BOOLEAN]

NewStatus == [closure_initiated |-> FALSE, outgoing_reset_initiated |-> FALSE,
              outgoing_reset_complete |-> FALSE, incoming_reset_complete |-> FALSE]

\* Mutant: a stream the peer has closed still takes messages.
IsOpenUnlessClosedHere(st) == ~(st.closure_initiated \/ st.outgoing_reset_complete)

is_open(st) ==
    ~(st.closure_initiated \/ st.incoming_reset_complete \/ st.outgoing_reset_complete)

need_outgoing_reset(st) ==
    /\ st.incoming_reset_complete \/ st.closure_initiated
    /\ ~st.outgoing_reset_initiated

\* Mutant: a stream is gone when its outgoing direction is reset.
OutgoingResetComplete(st) == st.outgoing_reset_complete

reset_complete(st) == st.outgoing_reset_complete /\ st.incoming_reset_complete

Open(p, s) == s \in DOMAIN stream_status_by_sid_[p] /\ is_open(stream_status_by_sid_[p][s])

-----------------------------------------------------------------------------
(* What usrsctp does when it is called (external).                           *)

NoReset == [phase |-> "none", sids |-> {}]

\* Units of data an end has been given and its peer has not acknowledged.
Units(o) == [i \in DOMAIN o |-> IF o[i].kind = "data" THEN o[i].units ELSE 0]

Held(o) == SumFunction(Units(o))

\* usrsctp_setsockopt(SCTP_RESET_STREAMS): one reset at a time.
CanReset(p) == up[p] /\ resetting[p] = NoReset

Posted(p, new) == [tasks EXCEPT ![p] = @ \o new]

-----------------------------------------------------------------------------
(* Steps of the code that several methods share.                             *)

\* Mutant: a half-sent message does not hold the reset back.
NeedsResetAtOnce(status, partial) == {s \in DOMAIN status : need_outgoing_reset(status[s])}

\* needs_reset: a stream whose message is still to be sent has to wait.
NeedsReset(status, partial) ==
    {s \in DOMAIN status : /\ need_outgoing_reset(status[s])
                           /\ \A i \in DOMAIN partial : partial[i].sid # s}

\* SendQueuedStreamResets, with the status map, the buffered message and the
\* data queue of the moment.  Once the call has succeeded, every stream that
\* needs a reset is marked.
SendQueuedStreamResets(p, status, partial, o) ==
    LET sids == NeedsReset(status, partial)
    IN  IF sids # {} /\ CanReset(p)
        THEN /\ stream_status_by_sid_' =
                  [stream_status_by_sid_ EXCEPT ![p] =
                      [s \in DOMAIN status |->
                          IF need_outgoing_reset(status[s])
                          THEN [status[s] EXCEPT !.outgoing_reset_initiated = TRUE]
                          ELSE status[s]]]
             /\ resetting' = [resetting EXCEPT ![p] = [phase |-> "sent", sids |-> sids]]
             /\ out' = [out EXCEPT ![p] = Append(o, [kind |-> "reset", sids |-> sids])]
        ELSE /\ stream_status_by_sid_' = [stream_status_by_sid_ EXCEPT ![p] = status]
             /\ out' = [out EXCEPT ![p] = o]
             /\ UNCHANGED resetting

\* SendMessageInternal hands a message on unless an early return stops it.
Sendable(p, m) ==
    /\ sock_[p]
    /\ m.sid \in DOMAIN stream_status_by_sid_[p]
    /\ m.left <= max_message_size_[p]

\* An empty message is one unit on the wire.
DataLength(m) == IF m.left = 0 THEN 1 ELSE m.left

\* What usrsctp_sendv takes: as much as there is room for.
Taken(p, m) ==
    IF Sendable(p, m) THEN Min({DataLength(m), kSctpSendBufferSize - Held(out[p])}) ELSE 0

\* EWOULDBLOCK
Blocked(p, m) == Sendable(p, m) /\ Taken(p, m) = 0

\* What is left of the message, and the queue with the chunk of it.
Left(p, m) == IF m.left = 0 THEN 0 ELSE m.left - Taken(p, m)

\* Mutant: every part ends its message.
SentOnEachEnding(p, m) ==
    IF Taken(p, m) = 0 THEN out[p]
    ELSE Append(out[p], [kind |-> "data", sid |-> m.sid, id |-> m.id, units |-> Taken(p, m),
                         empty |-> m.left = 0, eor |-> TRUE])

SentOn(p, m) ==
    IF Taken(p, m) = 0 THEN out[p]
    ELSE Append(out[p], [kind |-> "data", sid |-> m.sid, id |-> m.id, units |-> Taken(p, m),
                         empty |-> m.left = 0, eor |-> Taken(p, m) = DataLength(m)])

-----------------------------------------------------------------------------
(* Calls of the application and of the DTLS transport.                       *)

Connect(p) ==
    /\ sock_' = [sock_ EXCEPT ![p] = TRUE]
    /\ ready_to_send_data_' = [ready_to_send_data_ EXCEPT ![p] = TRUE]

\* A first call connects if DTLS has been writable; a later one only changes
\* the maximal message size.
Start(p, limit) ==
    /\ starts[p] < MaxStarts[p]
    /\ starts' = [starts EXCEPT ![p] = @ + 1]
    /\ max_message_size_' = [max_message_size_ EXCEPT ![p] = limit]
    /\ IF starts[p] = 0 /\ was_ever_writable_[p] THEN Connect(p)
       ELSE UNCHANGED <<sock_, ready_to_send_data_>>
    /\ UNCHANGED <<was_ever_writable_, stream_status_by_sid_, partial_outgoing_message_,
                   partial_incoming_message_, tasks, association, history>>

OnWritableState(p) ==
    /\ ~was_ever_writable_[p]
    /\ was_ever_writable_' = [was_ever_writable_ EXCEPT ![p] = TRUE]
    /\ IF starts[p] > 0 THEN Connect(p) ELSE UNCHANGED <<sock_, ready_to_send_data_>>
    /\ UNCHANGED <<starts, max_message_size_, stream_status_by_sid_, partial_outgoing_message_,
                   partial_incoming_message_, tasks, association, history>>

OpenStream(p, s) ==
    /\ s \notin DOMAIN stream_status_by_sid_[p]
    /\ opens[p][s] < MaxOpens[s] /\ (failures = 0 \/ ReuseAfterRefusal)
    /\ stream_status_by_sid_' = [stream_status_by_sid_ EXCEPT ![p] =
           [t \in DOMAIN @ \cup {s} |-> IF t = s THEN NewStatus ELSE @[t]]]
    /\ opens' = [opens EXCEPT ![p][s] = @ + 1]
    /\ UNCHANGED <<connection, ready_to_send_data_, partial_outgoing_message_,
                   partial_incoming_message_, tasks, association, log, handed>>

\* The applications agree on their streams: one closes a stream that its peer
\* has opened as often as itself.
ResetStream(p, s) ==
    /\ Open(p, s)
    /\ opens[Peer(p)][s] = opens[p][s]
    /\ SendQueuedStreamResets(p,
           [stream_status_by_sid_[p] EXCEPT ![s].closure_initiated = TRUE],
           partial_outgoing_message_[p], out[p])
    /\ UNCHANGED <<connection, ready_to_send_data_, partial_outgoing_message_,
                   partial_incoming_message_, tasks, up, failures, history>>

\* While a message is buffered every other is refused.
SendDataBlocked(p) ==
    /\ partial_outgoing_message_[p] # <<>>
    /\ ready_to_send_data_' = [ready_to_send_data_ EXCEPT ![p] = FALSE]
    /\ UNCHANGED <<connection, stream_status_by_sid_, partial_outgoing_message_,
                   partial_incoming_message_, tasks, association, history>>

\* The rest of a message of which only part was taken is buffered.
SendData(p, s, size) ==
    LET m == [sid |-> s, id |-> Len(log[p]) + 1, left |-> size]
    IN  /\ partial_outgoing_message_[p] = <<>>
        /\ Open(p, s)
        /\ Len(log[p]) < MaxMessages
        /\ out' = [out EXCEPT ![p] = SentOn(p, m)]
        /\ partial_outgoing_message_' = [partial_outgoing_message_ EXCEPT ![p] =
               IF Left(p, m) \in 1..(size - 1) THEN <<[m EXCEPT !.left = Left(p, m)]>> ELSE <<>>]
        /\ ready_to_send_data_' = [ready_to_send_data_ EXCEPT ![p] = @ /\ ~Blocked(p, m)]
        /\ log' = IF Taken(p, m) = 0 THEN log
                  ELSE [log EXCEPT ![p] =
                            Append(@, [sid |-> s, size |-> size, opening |-> opens[p][s]])]
        /\ UNCHANGED <<connection, stream_status_by_sid_, partial_incoming_message_, tasks,
                       up, resetting, failures, opens, handed>>

-----------------------------------------------------------------------------
(* Steps of usrsctp (external).  It delivers in order whatever the network   *)
(* does, and tells an end of room in its buffer when data is acknowledged.   *)

CommUp ==
    /\ \A p \in Peers : sock_[p] /\ ~up[p]
    /\ up' = [p \in Peers |-> TRUE]
    /\ tasks' = [p \in Peers |-> Append(tasks[p], [kind |-> "up"])]
    /\ UNCHANGED <<connection, ready_to_send_data_, stream_status_by_sid_,
                   partial_outgoing_message_, partial_incoming_message_, out, resetting,
                   failures, history>>

Acknowledged(rest) ==
    IF Held(rest) = 0 THEN <<[kind |-> "threshold"], [kind |-> "dry"]>>
    ELSE <<[kind |-> "threshold"]>>

ConveyData(p) ==
    /\ up[p] /\ out[p] # <<>> /\ Head(out[p]).kind = "data"
    /\ out' = [out EXCEPT ![p] = Tail(@)]
    /\ tasks' = [tasks EXCEPT
           ![Peer(p)] = Append(@, Head(out[p])),
           ![p] = @ \o Acknowledged(Tail(out[p]))]
    /\ UNCHANGED <<connection, ready_to_send_data_, stream_status_by_sid_,
                   partial_outgoing_message_, partial_incoming_message_, up, resetting,
                   failures, history>>

\* The peer carries out the reset of its incoming streams ...
ConveyReset(p) ==
    /\ up[p] /\ out[p] # <<>> /\ Head(out[p]).kind = "reset"
    /\ out' = [out EXCEPT ![p] = Tail(@)]
    /\ resetting' = [resetting EXCEPT ![p].phase = "performed"]
    /\ tasks' = Posted(Peer(p), <<[kind |-> "incoming", sids |-> Head(out[p]).sids]>>)
    /\ UNCHANGED <<connection, ready_to_send_data_, stream_status_by_sid_,
                   partial_outgoing_message_, partial_incoming_message_, up, failures, history>>

\* ... and its answer arrives at some time.
AnswerReset(p) ==
    /\ resetting[p].phase = "performed"
    /\ resetting' = [resetting EXCEPT ![p] = NoReset]
    /\ tasks' = Posted(p, <<[kind |-> "outgoing", sids |-> resetting[p].sids]>>)
    /\ UNCHANGED <<connection, ready_to_send_data_, stream_status_by_sid_,
                   partial_outgoing_message_, partial_incoming_message_, up, out, failures,
                   history>>

FailReset(p) ==
    /\ up[p] /\ out[p] # <<>> /\ Head(out[p]).kind = "reset"
    /\ failures < MaxFailures[p]
    /\ ReuseAfterRefusal \/ \A q \in Peers, s \in Sids : opens[q][s] = 1
    /\ failures' = failures + 1
    /\ out' = [out EXCEPT ![p] = Tail(@)]
    /\ resetting' = [resetting EXCEPT ![p] = NoReset]
    /\ tasks' = Posted(p, <<[kind |-> "failed"]>>)
    /\ UNCHANGED <<connection, ready_to_send_data_, stream_status_by_sid_,
                   partial_outgoing_message_, partial_incoming_message_, up, history>>

-----------------------------------------------------------------------------
(* Callbacks, run by the network thread in the order they were posted.       *)

Callback(p, kind) ==
    /\ tasks[p] # <<>> /\ Head(tasks[p]).kind = kind
    /\ tasks' = [tasks EXCEPT ![p] = Tail(@)]

\* Mutant: queued resets are not sent.
AssocChangeSendsNothing(p) ==
    /\ Callback(p, "up")
    /\ UNCHANGED <<connection, ready_to_send_data_, stream_status_by_sid_,
                   partial_outgoing_message_, partial_incoming_message_, association, history>>

\* SCTP_COMM_UP: send resets that were queued before.
OnNotificationAssocChange(p) ==
    /\ Callback(p, "up")
    /\ SendQueuedStreamResets(p, stream_status_by_sid_[p], partial_outgoing_message_[p], out[p])
    /\ UNCHANGED <<connection, ready_to_send_data_, partial_outgoing_message_,
                   partial_incoming_message_, up, failures, history>>

\* SCTP_SENDER_DRY_EVENT
OnSenderDry(p) ==
    /\ Callback(p, "dry")
    /\ ready_to_send_data_' = [ready_to_send_data_ EXCEPT ![p] = TRUE]
    /\ UNCHANGED <<connection, stream_status_by_sid_, partial_outgoing_message_,
                   partial_incoming_message_, association, history>>

\* Mutant: the buffered message is forgotten.
ThresholdForgetsBuffered(p) ==
    /\ Callback(p, "threshold")
    /\ ready_to_send_data_' = [ready_to_send_data_ EXCEPT ![p] = TRUE]
    /\ UNCHANGED <<connection, stream_status_by_sid_, partial_outgoing_message_,
                   partial_incoming_message_, association, history>>

\* OnSendThresholdCallback with SendBufferedMessage: when the rest of the
\* message is gone, its stream's reset is sent if that had to wait.
OnSendThresholdCallback(p) ==
    /\ Callback(p, "threshold")
    /\ \/ /\ partial_outgoing_message_[p] = <<>>
          /\ ready_to_send_data_' = [ready_to_send_data_ EXCEPT ![p] = TRUE]
          /\ UNCHANGED <<partial_outgoing_message_, stream_status_by_sid_, out, resetting>>
       \/ \E m \in Range(partial_outgoing_message_[p]) :
             IF Left(p, m) > 0
             THEN /\ partial_outgoing_message_' = [partial_outgoing_message_ EXCEPT ![p] =
                         <<[m EXCEPT !.left = Left(p, m)]>>]
                  /\ ready_to_send_data_' =
                         [ready_to_send_data_ EXCEPT ![p] = @ /\ ~Blocked(p, m)]
                  /\ out' = [out EXCEPT ![p] = SentOn(p, m)]
                  /\ UNCHANGED <<stream_status_by_sid_, resetting>>
             ELSE /\ partial_outgoing_message_' = [partial_outgoing_message_ EXCEPT ![p] = <<>>]
                  /\ ready_to_send_data_' = [ready_to_send_data_ EXCEPT ![p] = TRUE]
                  /\ IF need_outgoing_reset(stream_status_by_sid_[p][m.sid])
                     THEN SendQueuedStreamResets(p, stream_status_by_sid_[p], <<>>, SentOn(p, m))
                     ELSE /\ out' = [out EXCEPT ![p] = SentOn(p, m)]
                          /\ UNCHANGED <<stream_status_by_sid_, resetting>>
    /\ UNCHANGED <<connection, partial_incoming_message_, up, failures, history>>

\* OnDataOrNotificationFromSctp and OnDataFromSctpToTransport: chunks are put
\* together until one ends its message or the buffer is full.
OnDataFromSctp(p) ==
    LET c == Head(tasks[p])
        kept == partial_incoming_message_[p]
        before == IF kept # <<>> /\ Head(kept).sid # c.sid THEN <<>> ELSE kept
        message == IF c.empty THEN before ELSE Append(before, c)
        size == Held(message)
    IN  /\ Callback(p, "data")
        /\ IF ~c.eor /\ size < kSctpSendBufferSize
           THEN /\ partial_incoming_message_' = [partial_incoming_message_ EXCEPT ![p] = message]
                /\ UNCHANGED handed
           ELSE /\ partial_incoming_message_' = [partial_incoming_message_ EXCEPT ![p] = <<>>]
                /\ handed' = [handed EXCEPT ![p] = Append(@,
                       [sid |-> c.sid, size |-> size,
                        ids |-> {d.id : d \in Range(message)} \cup {c.id}])]
        /\ UNCHANGED <<connection, ready_to_send_data_, stream_status_by_sid_,
                       partial_outgoing_message_, association, opens, log>>

\* OnStreamResetEvent: streams reset in both directions are closed, and queued
\* resets are tried.
Marked(status, sids, incoming) ==
    [s \in DOMAIN status |->
        IF s \notin sids THEN status[s]
        ELSE IF incoming THEN [status[s] EXCEPT !.incoming_reset_complete = TRUE]
        ELSE [status[s] EXCEPT !.outgoing_reset_complete = TRUE]]

WithoutClosed(status) ==
    [s \in {t \in DOMAIN status : ~reset_complete(status[t])} |-> status[s]]

OnStreamResetEvent(p, kind) ==
    /\ Callback(p, kind)
    /\ SendQueuedStreamResets(p,
           WithoutClosed(Marked(stream_status_by_sid_[p], Head(tasks[p]).sids, kind = "incoming")),
           partial_outgoing_message_[p], out[p])
    /\ UNCHANGED <<connection, ready_to_send_data_, partial_outgoing_message_,
                   partial_incoming_message_, up, failures, history>>

\* A refused reset: everything is tried again.
OnStreamResetFailed(p) ==
    /\ Callback(p, "failed")
    /\ SendQueuedStreamResets(p,
           [s \in DOMAIN stream_status_by_sid_[p] |->
               [stream_status_by_sid_[p][s] EXCEPT !.outgoing_reset_initiated = FALSE]],
           partial_outgoing_message_[p], out[p])
    /\ UNCHANGED <<connection, ready_to_send_data_, partial_outgoing_message_,
                   partial_incoming_message_, up, failures, history>>

-----------------------------------------------------------------------------
\* The applications have opened every stream once.
Init ==
    /\ starts = [p \in Peers |-> IF p \in Connected THEN 1 ELSE 0]
    /\ was_ever_writable_ = [p \in Peers |-> p \in Connected]
    /\ sock_ = [p \in Peers |-> p \in Connected]
    /\ max_message_size_ = [p \in Peers |-> kSctpSendBufferSize]
    /\ ready_to_send_data_ = [p \in Peers |-> p \in Connected]
    /\ stream_status_by_sid_ = [p \in Peers |-> [s \in Sids |-> NewStatus]]
    /\ partial_outgoing_message_ = [p \in Peers |-> <<>>]
    /\ partial_incoming_message_ = [p \in Peers |-> <<>>]
    /\ tasks = [p \in Peers |-> <<>>]
    /\ up = [p \in Peers |-> FALSE]
    /\ out = [p \in Peers |-> <<>>]
    /\ resetting = [p \in Peers |-> NoReset]
    /\ failures = 0 /\ closures \in Closures
    /\ opens = [p \in Peers |-> [s \in Sids |-> 1]]
    /\ log = [p \in Peers |-> <<>>]
    /\ handed = [p \in Peers |-> <<>>]

Application(p) ==
    \/ \E limit \in Limits[p] : Start(p, limit)
    \/ OnWritableState(p)
    \/ \E s \in Sids :
          \/ OpenStream(p, s)
          \/ <<p, s>> \in closures /\ ResetStream(p, s)
    \/ \E w \in Writers : w[1] = p /\ SendData(p, w[2], w[3])
    \/ SendDataBlocked(p)

Usrsctp(p) == ConveyData(p) \/ ConveyReset(p) \/ AnswerReset(p)

NetworkThread(p) ==
    \/ OnNotificationAssocChange(p) \/ OnSenderDry(p) \/ OnSendThresholdCallback(p)
    \/ OnDataFromSctp(p) \/ OnStreamResetFailed(p)
    \/ \E kind \in {"incoming", "outgoing"} : OnStreamResetEvent(p, kind)

Next ==
    /\ \/ CommUp
       \/ \E p \in Peers : Application(p) \/ Usrsctp(p) \/ FailReset(p) \/ NetworkThread(p)
    /\ UNCHANGED closures

\* usrsctp retransmits until its peer has everything, and the thread's loop
\* runs what is posted.  Nothing is assumed of the applications and of DTLS.
Fairness ==
    \A p \in Peers :
        /\ WF_vars((ConveyData(p) \/ ConveyReset(p)) /\ UNCHANGED closures)
        /\ WF_vars(AnswerReset(p) /\ UNCHANGED closures)
        /\ WF_vars(NetworkThread(p) /\ UNCHANGED closures)

Spec == Init /\ [][Next]_vars /\ Fairness

-----------------------------------------------------------------------------
(* Properties                                                                *)

\* SendBufferedMessage looks up the stream of the buffered message and uses
\* what it finds (line 1140): that stream is never closed before its message.
BufferedStreamKnown ==
    \A p \in Peers : \A i \in DOMAIN partial_outgoing_message_[p] :
        partial_outgoing_message_[p][i].sid \in DOMAIN stream_status_by_sid_[p]

\* What p's i-th message is when it arrives whole.
Whole(p, i) == [sid |-> log[p][i].sid, size |-> log[p][i].size, ids |-> {i}]

\* Messages that usrsctp took in parts are handed out whole, each once and in
\* the order of its stream (lines 748 and 1257): what was handed out is a
\* message of the log, handed out for the first time and after every earlier
\* message of its stream.
MessagesArriveWhole ==
    \A p \in Peers :
        LET got == handed[Peer(p)]
        IN  \A k \in DOMAIN got : \E i \in DOMAIN log[p] :
                /\ got[k] = Whole(p, i)
                /\ \A l \in 1 .. (k - 1) : i \notin got[l].ids
                /\ \A j \in 1 .. (i - 1) :
                       log[p][j].sid = log[p][i].sid => \E l \in 1 .. (k - 1) : got[l].ids = {j}

\* Closing loses nothing (line 1054, "required to be fully sent"): a stream
\* whose incoming direction is reset, or that is closed, has handed out every
\* message the peer sent while it had the stream open.
ClosedStreamsLoseNothing ==
    \A p \in Peers, s \in Sids :
        LET status == stream_status_by_sid_[Peer(p)]
        IN  (s \in DOMAIN status => status[s].incoming_reset_complete)
            => \A i \in DOMAIN log[p] :
                   log[p][i].sid = s /\ log[p][i].opening <= opens[Peer(p)][s]
                   => \E m \in Range(handed[Peer(p)]) : i \in m.ids

\* "Fired when we receive an incoming stream reset on an open stream, indicating
\* that the other side started the closing procedure"
\* (sctp_transport_internal.h:158): it did, and in the same use of the stream.
RemoteCloseIsReal ==
    \A p \in Peers : \A s \in DOMAIN stream_status_by_sid_[p] :
        stream_status_by_sid_[p][s].incoming_reset_complete
        => ~(Open(Peer(p), s) /\ opens[Peer(p)][s] = opens[p][s])

\* usrsctp has been asked to reset the stream, or the reset is done.
Initiated(p, s) ==
    \/ s \in resetting[p].sids
    \/ stream_status_by_sid_[p][s].outgoing_reset_complete
    \/ \E i \in DOMAIN tasks[p] : \/ tasks[p][i].kind = "outgoing" /\ s \in tasks[p][i].sids
                                  \/ tasks[p][i].kind = "failed"

Stranded(p, s) ==
    /\ s \in DOMAIN stream_status_by_sid_[p]
    /\ stream_status_by_sid_[p][s].outgoing_reset_initiated
    /\ ~Initiated(p, s)

Closing(p, s) ==
    /\ s \in DOMAIN stream_status_by_sid_[p]
    /\ stream_status_by_sid_[p][s].closure_initiated

\* A message whose rest is larger than the limit a later Start has set.
Oversize(p) ==
    \E m \in Range(partial_outgoing_message_[p]) : m.left > max_message_size_[p]

\* ResetStream "will eventually result in SignalClosingProcedureComplete"
\* (sctp_transport_internal.h:123), once the association is up.
ResetStreamCompletes ==
    \A p \in Peers, s \in Sids : up[p] /\ Closing(p, s) ~> ~Closing(p, s)

\* Nothing is on its way that could wake anyone.
Quiet ==
    \A p \in Peers : up[p] /\ out[p] = <<>> /\ tasks[p] = <<>> /\ resetting[p] = NoReset

\* No stream waits for a reset that nobody will send, whatever was in the way
\* when ResetStream was called or the peer's reset arrived (another reset, a
\* refused one, a message half sent, the association not up), but for streams
\* that are stranded and messages that have become too large.
NoStreamStuck ==
    Quiet => \A p \in Peers : \A s \in DOMAIN stream_status_by_sid_[p] :
                 \/ is_open(stream_status_by_sid_[p][s])
                 \/ \E q \in Peers : Stranded(q, s) \/ Oversize(q)

\* An application that was told to wait is told to go on (line 1203), however
\* the acknowledgements raced with its calls, and nothing stays buffered.
NoWriterStuck ==
    Quiet => \A p \in Peers :
                 \/ ready_to_send_data_[p] /\ partial_outgoing_message_[p] = <<>>
                 \/ Oversize(p)

-----------------------------------------------------------------------------
(* The inductive invariant behind BufferedStreamKnown, RemoteCloseIsReal and *)
(* ClosedStreamsLoseNothing.                                                 *)

DataChunk == [kind : {"data"}, sid : Sids, id : Nat, units : Nat, empty : BOOLEAN, eor : BOOLEAN]

Task == DataChunk \cup [kind : {"up", "dry", "threshold", "failed"}]
                  \cup [kind : {"incoming", "outgoing"}, sids : SUBSET Sids]

Chunk == DataChunk \cup [kind : {"reset"}, sids : SUBSET Sids]

Message == [sid : Sids, id : Nat, left : Nat \ {0}]

StatusMap == UNION {[D -> StreamStatus] : D \in SUBSET Sids}

TypeOK ==
    /\ stream_status_by_sid_ \in [Peers -> StatusMap]
    /\ partial_outgoing_message_ \in [Peers -> Seq(Message)]
    /\ partial_incoming_message_ \in [Peers -> Seq(DataChunk)]
    /\ tasks \in [Peers -> Seq(Task)]
    /\ out \in [Peers -> Seq(Chunk)]
    /\ resetting \in [Peers -> [phase : {"none", "sent", "performed"}, sids : SUBSET Sids]]
    /\ failures \in Nat
    /\ opens \in [Peers -> [Sids -> Nat]]
    /\ log \in [Peers -> Seq([sid : Sids, size : Nat, opening : Nat])]
    /\ handed \in [Peers -> Seq([sid : Sids, size : Nat, ids : SUBSET Nat])]

\* usrsctp holds no more than fits, and one message at most is buffered.
RoomKept ==
    \A p \in Peers : Held(out[p]) <= kSctpSendBufferSize /\ Len(partial_outgoing_message_[p]) <= 1

\* What the map says of a stream.
Known(p, s) == s \in DOMAIN stream_status_by_sid_[p]

Asked(p, s) == Known(p, s) /\ stream_status_by_sid_[p][s].outgoing_reset_initiated

OutDone(p, s) == Known(p, s) /\ stream_status_by_sid_[p][s].outgoing_reset_complete

InDone(p, s) == Known(p, s) /\ stream_status_by_sid_[p][s].incoming_reset_complete

Buffered(p, s) ==
    \E i \in DOMAIN partial_outgoing_message_[p] : partial_outgoing_message_[p][i].sid = s

\* Element e of a queue is a reset of the given kind for the stream.
Resets(e, kind, s) == e.kind = kind /\ s \in e.sids

Holds(queue, kind, s) == \E i \in DOMAIN queue : Resets(queue[i], kind, s)

HoldsOnce(queue, kind, s) ==
    \A i, j \in DOMAIN queue : Resets(queue[i], kind, s) /\ Resets(queue[j], kind, s) => i = j

\* A reset of the stream that p has asked for and has not been told the end of.
InFlight(p, s) == s \in resetting[p].sids \/ Holds(tasks[p], "outgoing", s)

\* In its present use of the stream p has asked for the reset ...
ResetSent(p, s) == ~Known(p, s) \/ OutDone(p, s) \/ InFlight(p, s)

\* ... and has handled the peer's.
ResetReceived(p, s) == ~Known(p, s) \/ InDone(p, s)

\* A reset that p has sent and its peer has still to handle.
Unconveyed(p, s) == resetting[p].phase = "sent" /\ s \in resetting[p].sids

Underway(p, s) == Unconveyed(p, s) \/ Holds(tasks[Peer(p)], "incoming", s)

\* usrsctp has one request to reset streams in its queue, the one in progress.
RequestsMatch(p) ==
    /\ \A i \in DOMAIN out[p] : out[p][i].kind = "reset" =>
           /\ resetting[p].phase = "sent" /\ out[p][i].sids = resetting[p].sids
           /\ \A j \in DOMAIN out[p] : out[p][j].kind = "reset" => i = j
    /\ resetting[p].phase = "none" => resetting[p].sids = {}

\* A stream that is being reset takes no messages, and has none buffered.
FlightsClosed(p, s) ==
    /\ InFlight(p, s) => ~Open(p, s)
    /\ Buffered(p, s) => ~ResetSent(p, s)

Count(b) == IF b THEN 1 ELSE 0

\* While no reset was refused, a stream is reset once in each of its uses, and
\* an end has handled the resets of its peer but for one that is underway.
ResetsCounted(p, s) ==
    /\ InFlight(p, s) => /\ Known(p, s) /\ ~OutDone(p, s) /\ HoldsOnce(tasks[p], "outgoing", s)
                         /\ s \in resetting[p].sids => ~Holds(tasks[p], "outgoing", s)
    /\ Known(p, s) /\ ResetSent(p, s) => Asked(p, s) /\ (Closing(p, s) \/ InDone(p, s))
    /\ Closing(p, s) => opens[p][s] <= opens[Peer(p)][s]
    /\ opens[Peer(p)][s] + Count(ResetReceived(Peer(p), s)) + Count(Underway(p, s))
           = opens[p][s] + Count(ResetSent(p, s))
    /\ HoldsOnce(tasks[Peer(p)], "incoming", s)
    /\ Unconveyed(p, s) => ~Holds(tasks[Peer(p)], "incoming", s)

\* After a refusal resets are repeated, and no stream is used a second time.
UsedOnce(p, s) ==
    /\ opens[p][s] = 1
    /\ Underway(p, s) \/ ResetReceived(Peer(p), s) => ~Open(p, s) /\ ~Buffered(p, s)

NoneRefused(p) == \A i \in DOMAIN tasks[p] : tasks[p][i].kind # "failed"

ResetsInv ==
    /\ \A p \in Peers : RequestsMatch(p)
    /\ \A p \in Peers, s \in Sids : FlightsClosed(p, s)
    /\ failures = 0 => \A p \in Peers : NoneRefused(p) /\ \A s \in Sids : ResetsCounted(p, s)
    /\ failures # 0 => \A p \in Peers, s \in Sids : UsedOnce(p, s)

\* The chunks of p on their way to its peer.
Data(queue) == {c \in Range(queue) : c.kind = "data"}

InTransit(p) == Data(out[p]) \cup Data(tasks[Peer(p)])

\* The use of the stream that a chunk or a buffered message belongs to.
OpeningOf(p, c) == log[p][c.id].opening

OfLog(p, c) == c.id \in DOMAIN log[p] /\ log[p][c.id].sid = c.sid

\* Chunks and buffered messages are of messages in the log, a buffered one of
\* the present use.
ChunksLogged(p) ==
    /\ \A c \in InTransit(p) : OfLog(p, c)
    /\ \A m \in Range(partial_outgoing_message_[p]) :
           OfLog(p, m) /\ OpeningOf(p, m) = opens[p][m.sid]

HandedOut(p, i) == \E m \in Range(handed[Peer(p)]) : i \in m.ids

\* A message of the log was handed out, or its last chunk is to come.
NothingLost(p) ==
    \A i \in DOMAIN log[p] :
        \/ HandedOut(p, i)
        \/ \E m \in Range(partial_outgoing_message_[p]) : m.id = i
        \/ \E c \in InTransit(p) : c.id = i /\ c.eor

Behind(queue, e, c) == \E i, j \in DOMAIN queue : i < j /\ queue[i] = e /\ queue[j] = c

\* A reset of the chunk's stream was handled, or will be before the chunk is.
BehindReset(p, c) ==
    \/ ResetReceived(Peer(p), c.sid)
    \/ \E e \in Range(tasks[Peer(p)]) :
           Resets(e, "incoming", c.sid) /\ (c \in Range(out[p]) \/ Behind(tasks[Peer(p)], e, c))
    \/ \E e \in Range(out[p]) : Resets(e, "reset", c.sid) /\ Behind(out[p], e, c)

\* Such a chunk is for a use of the stream that the peer has still to begin.
NothingOvertaken(p) ==
    \A c \in InTransit(p) : BehindReset(p, c) => OpeningOf(p, c) > opens[Peer(p)][c.sid]

DataInv == \A p \in Peers : ChunksLogged(p) /\ NothingLost(p) /\ NothingOvertaken(p)
-----------------------------------------------------------------------------
(* The inductive invariant behind MessagesArriveWhole.                       *)

\* Messages of p that its peer has handed out.
Arrived(p) == Len(handed[Peer(p)])

\* They are the first ones of the log, each whole.
ArrivedWhole(p) ==
    /\ Arrived(p) <= Len(log[p])
    /\ \A i \in 1 .. Arrived(p) : handed[Peer(p)][i] = Whole(p, i)

\* What is under way is of later messages, and what the peer keeps of the next.
RestToCome(p) ==
    /\ \A c \in InTransit(p) :
           /\ OfLog(p, c) /\ c.id > Arrived(p) /\ c.units > 0
           /\ c.empty <=> log[p][c.id].size = 0
           /\ c.empty => c.eor
    /\ \A c \in Range(partial_incoming_message_[Peer(p)]) : OfLog(p, c) /\ c.id = Arrived(p) + 1

\* A chunk may be followed by another of its message, unless it is the last.
Precedes(c, d) == c.id < d.id \/ (c.id = d.id /\ ~c.eor)

InOrder(p) ==
    /\ \A c, d \in Data(tasks[Peer(p)]) : Behind(tasks[Peer(p)], c, d) => Precedes(c, d)
    /\ \A c, d \in Data(out[p]) : Behind(out[p], c, d) => Precedes(c, d)
    /\ \A c \in Data(tasks[Peer(p)]), d \in Data(out[p]) : Precedes(c, d)

\* The buffered message is the last one, and its last chunk is not sent.
BufferedLast(p) ==
    \A m \in Range(partial_outgoing_message_[p]) :
        /\ OfLog(p, m) /\ m.id = Len(log[p]) /\ m.id > Arrived(p)
        /\ \A c \in InTransit(p) : c.id = m.id => ~c.eor

\* The last chunk of every message that has not arrived is to come.
LastToCome(p) ==
    \A i \in (Arrived(p) + 1) .. Len(log[p]) :
        \/ \E m \in Range(partial_outgoing_message_[p]) : m.id = i
        \/ \E c \in InTransit(p) : c.id = i /\ c.eor

\* Units of the i-th message: in a queue, kept by the peer and still buffered.
PartsIn(queue, i) ==
    [k \in DOMAIN queue |-> IF queue[k].kind = "data" /\ queue[k].id = i /\ ~queue[k].empty
                            THEN queue[k].units ELSE 0]

Parts(queue, i) == SumFunction(PartsIn(queue, i))

Kept(p, i) == IF i = Arrived(p) + 1 THEN Held(partial_incoming_message_[Peer(p)]) ELSE 0

Unsent(p, i) ==
    IF \E m \in Range(partial_outgoing_message_[p]) : m.id = i
    THEN partial_outgoing_message_[p][1].left ELSE 0

\* Nothing of a message is lost or doubled on its way.
SumsToSize(p) ==
    \A i \in (Arrived(p) + 1) .. Len(log[p]) :
        Kept(p, i) + Parts(tasks[Peer(p)], i) + Parts(out[p], i) + Unsent(p, i) = log[p][i].size

SizesLimited(p) == \A i \in DOMAIN log[p] : log[p][i].size <= kSctpSendBufferSize

PipeInv ==
    /\ max_message_size_ \in [Peers -> 0 .. kSctpSendBufferSize]
    /\ \A p \in Peers : /\ ArrivedWhole(p) /\ RestToCome(p) /\ InOrder(p) /\ BufferedLast(p)
                        /\ LastToCome(p) /\ SumsToSize(p) /\ SizesLimited(p)

-----------------------------------------------------------------------------
(* The inductive invariants behind NoWriterStuck and NoStreamStuck.          *)

ConnectionOK ==
    /\ starts \in [Peers -> Nat] /\ sock_ \in [Peers -> BOOLEAN] /\ up \in [Peers -> BOOLEAN]
    /\ max_message_size_ \in [Peers -> Nat] /\ ready_to_send_data_ \in [Peers -> BOOLEAN]

\* An end that sends has been started, and a message can have become too large
\* for it only by a second Start.
StartedFirst(p) ==
    /\ up[p] => sock_[p]
    /\ sock_[p] => starts[p] >= 1
    /\ partial_outgoing_message_[p] # <<>> => sock_[p]
    /\ Oversize(p) => starts[p] >= 2

Pending(queue, kinds) == \E e \in Range(queue) : e.kind \in kinds

\* Whoever waits to send has data under way, or a callback that says there is
\* room.
WriterWoken(p) ==
    sock_[p] => \/ ready_to_send_data_[p] /\ partial_outgoing_message_[p] = <<>>
                \/ Oversize(p) \/ Held(out[p]) > 0 \/ Pending(tasks[p], {"threshold"})

WakeInv == ConnectionOK /\ \A p \in Peers : StartedFirst(p) /\ WriterWoken(p)

\* A stream that could be reset has a callback coming that resets it.
ResetWoken(p) ==
    CanReset(p) /\ NeedsReset(stream_status_by_sid_[p], partial_outgoing_message_[p]) # {}
    => Pending(tasks[p], {"up", "outgoing", "failed"})

\* A stream that was reset in both directions is not in the map.
ClosedForgotten(p, s) == ~(OutDone(p, s) /\ InDone(p, s))

\* A reset that p sent was conveyed.
Conveyed(p, s) ==
    \/ ~Known(p, s) \/ OutDone(p, s) \/ Holds(tasks[p], "outgoing", s)
    \/ resetting[p].phase = "performed" /\ s \in resetting[p].sids

\* The peer has handled the reset or will handle it.
ResetArrives(p, s) ==
    Conveyed(p, s) => ResetReceived(Peer(p), s) \/ Holds(tasks[Peer(p)], "incoming", s)

StreamsInv ==
    /\ \A p \in Peers : ResetWoken(p)
    /\ \A p \in Peers, s \in Sids : ClosedForgotten(p, s)
    /\ failures # 0 => \A p \in Peers, s \in Sids : ResetArrives(p, s)
=============================================================================
