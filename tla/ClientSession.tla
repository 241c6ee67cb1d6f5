---------------------------- MODULE ClientSession ----------------------------
(***************************************************************************)
(* One ArdClient (ard-core: client.rs, dispatcher.rs): next_event reads    *)
(* encrypted records, the dispatcher finds the messages in them wherever   *)
(* they were cut, each record's messages become a batch of events, and a   *)
(* read that fails makes a new session if the policy allows it.            *)
(*                                                                         *)
(* Two sources of pictures compete: framebuffer updates, which the client  *)
(* asks for (once per frame, or once to arm the server's own loop), and    *)
(* the media stream, which is offered when the server announces its port   *)
(* and runs once the server has answered the offer.                        *)
(*                                                                         *)
(* A message is its kind and has two halves, so that a record can end in   *)
(* its middle.  Cryptography is left out: a record is decoded unless the   *)
(* reader has lost its place in the byte stream, and then never.           *)
(***************************************************************************)
EXTENDS Naturals, FiniteSets, Sequences, SequencesExt

CONSTANTS
  MaxAttempts,    \* ArdReconnectPolicy.max_attempts
  MaxSessions,    \* bound: sessions made
  MaxMessages,    \* bound: messages the server sends in one session
  MaxRecord       \* bound: halves of messages in one record

ASSUME ClientAssumption ==
  /\ MaxAttempts \in Nat /\ MaxSessions \in Nat \ {0}
  /\ MaxMessages \in Nat /\ MaxRecord \in Nat \ {0}

VARIABLES
  config,    \* automatic: automatic_updates; media: a high-performance quality
  server,    \* the peer of the current session: what it said, was asked, was offered
  wire,      \* its records that the client has not read
  client,    \* the ArdClient
  writer,    \* "ok", or "failed": writer_error is set
  call,      \* the caller's next_event
  told       \* events returned since the session began

vars == <<config, server, wire, client, writer, call, told>>

Kinds == {"frame", "control", "port", "notice", "answer", "refusal", "broken"}
Halves == [id : 1 .. MaxMessages, part : 1 .. 2]
None == 0

-----------------------------------------------------------------------------
(* A session as connect_inner leaves it.                                    *)

\* It has asked for one whole frame; nothing else is under way.
NewServer == [session |-> 1, up |-> TRUE, sent |-> <<>>, put |-> 0,
              asked |-> TRUE, armed |-> FALSE, offers |-> 0, answered |-> 0]

\* early: the plaintext preface held the server's port; the decoder keeps such a
\* reply until the next update.
NewClient(early, timed) ==
  [buffer |-> <<>>, kept |-> early, pending |-> <<>>, started |-> FALSE,
   offered |-> FALSE, key |-> None, active |-> FALSE, timed |-> timed, lost |-> FALSE]

Init ==
  /\ config \in [automatic : BOOLEAN, media : BOOLEAN]
  /\ server = NewServer
  /\ \E early \in BOOLEAN : client = NewClient(early, config.media)
  /\ wire = <<>> /\ writer = "ok"
  /\ call = [state |-> "idle", attempts |-> 0]
  /\ told = <<>>

-----------------------------------------------------------------------------
(* The server and the network.  They matter only while the client goes on.  *)

Going == server.up /\ call.state # "ended"

MaySay(kind) ==
  CASE kind = "frame" -> server.asked \/ server.armed
    [] kind \in {"answer", "refusal"} -> server.answered < server.offers
    [] OTHER -> TRUE

Say(kind) ==
  /\ Going /\ Len(server.sent) < MaxMessages /\ MaySay(kind)
  /\ LET reply == kind \in {"answer", "refusal"}
         key == IF reply THEN server.answered + 1 ELSE None
     IN server' = [server EXCEPT
                     !.sent = Append(@, [kind |-> kind, key |-> key]),
                     !.asked = @ /\ kind # "frame",
                     !.answered = IF reply THEN @ + 1 ELSE @]
  /\ UNCHANGED <<config, wire, client, writer, call, told>>

Half(n) == [id |-> (n + 1) \div 2, part |-> IF n % 2 = 1 THEN 1 ELSE 2]

\* The next halves leave as one record.
Put(size) ==
  /\ Going /\ server.put + size <= 2 * Len(server.sent)
  /\ wire' = Append(wire, [i \in 1 .. size |-> Half(server.put + i)])
  /\ server' = [server EXCEPT !.put = @ + size]
  /\ UNCHANGED <<config, client, writer, call, told>>

\* The connection breaks: the server, the network or a shutdown handle.
Break ==
  /\ Going
  /\ server' = [server EXCEPT !.up = FALSE]
  /\ UNCHANGED <<config, wire, client, writer, call, told>>

WriterFails ==
  /\ ~server.up /\ call.state # "ended" /\ writer = "ok"
  /\ writer' = "failed"
  /\ UNCHANGED <<config, server, wire, client, call, told>>

-----------------------------------------------------------------------------
(* ArdMessageDispatcher::push.                                              *)

\* Messages that are complete in the buffer, and what stays in it.
Complete(buffer) == [i \in 1 .. Len(buffer) \div 2 |-> buffer[2 * i].id]
Rest(buffer) == SubSeq(buffer, 2 * (Len(buffer) \div 2) + 1, Len(buffer))

\* What begins with the second half of a message, or is of no known type, is an
\* error of the whole batch.
Unreadable(buffer) ==
  \/ \E i \in 1 .. Len(buffer) : buffer[i].part # IF i % 2 = 1 THEN 1 ELSE 2
  \/ \E i \in DOMAIN Complete(buffer) : server.sent[Complete(buffer)[i]].kind = "broken"

-----------------------------------------------------------------------------
(* What next_event_once does with the messages of one record.               *)

\* b: the batch so far, [client, offers, events, at, frames, failed].
Event(kind, ids, key) == [session |-> server.session, kind |-> kind, ids |-> ids, key |-> key]

\* handle_media_stream_reply: the server's port (Message1).
Offers(b) ==
  IF ~config.media \/ b.client.offered THEN b
  ELSE IF writer = "failed" THEN [b EXCEPT !.failed = TRUE]
  ELSE [b EXCEPT !.offers = @ + 1, !.client.offered = TRUE, !.client.key = b.offers + 1]

\* handle_media_stream_reply: the answer.
Accepts(b, id) ==
  IF b.client.key = None THEN b
  ELSE [b EXCEPT !.events = Append(@, Event("stream", <<id>>, b.client.key)),
                 !.client.key = None, !.client.active = TRUE]

\* An update: its pixels count as a frame, then come the replies kept until now
\* and its own.
Updates(b, kind, id) ==
  LET shown == IF kind # "frame" THEN b
               ELSE [b EXCEPT !.frames = Append(@, id),
                              !.at = IF @ = 0 THEN Len(b.events) + 1 ELSE @]
      heard == IF shown.client.kept THEN Offers([shown EXCEPT !.client.kept = FALSE]) ELSE shown
  IN IF kind = "port" /\ ~heard.failed THEN Offers(heard) ELSE heard

Handle(b, id) ==
  LET kind == server.sent[id].kind IN
  IF b.failed THEN b
  ELSE CASE kind \in {"frame", "control", "port"} -> Updates(b, kind, id)
         [] kind = "notice" -> [b EXCEPT !.events = Append(@, Event("notice", <<id>>, None))]
         [] kind = "answer" -> Accepts(b, id)
         [] OTHER -> [b EXCEPT !.failed = TRUE]

\* request_framebuffer_update(false), once for all the frames of a record.
Asks(b) == b.frames # <<>> /\ ~b.client.active /\ ~(config.automatic /\ b.client.started)

WithFrameLast(b) ==
  IF b.frames = <<>> THEN b.events ELSE Append(b.events, Event("frame", b.frames, None))

\* The frames of the record are one event, where the first of them was.
WithFrame(b) ==
  IF b.frames = <<>> THEN b.events
  ELSE InsertAt(b.events, b.at, Event("frame", b.frames, None))

Unhandled(buffer) ==
  [client |-> [client EXCEPT !.buffer = Rest(buffer)], offers |-> server.offers,
   events |-> <<>>, at |-> 0, frames |-> <<>>, failed |-> FALSE]

\* The messages are handled one after the other.
Batch(buffer) ==
  LET after[n \in 0 .. Len(Complete(buffer))] ==
        IF n = 0 THEN Unhandled(buffer) ELSE Handle(after[n - 1], Complete(buffer)[n])
  IN after[Len(Complete(buffer))]

-----------------------------------------------------------------------------
(* next_event.                                                              *)

Ended == [state |-> "ended", attempts |-> 0]
Idle == [state |-> "idle", attempts |-> 0]
Loop == [call EXCEPT !.state = "checking"]

Call ==
  /\ call.state = "idle"
  /\ call' = [state |-> "checking", attempts |-> 0]
  /\ UNCHANGED <<config, server, wire, client, writer, told>>

\* The viewer lifts the read timeout when it is given the stream.
Return ==
  /\ call.state = "checking" /\ client.pending # <<>>
  /\ told' = Append(told, Head(client.pending))
  /\ client' = [client EXCEPT !.pending = Tail(@),
                              !.timed = @ /\ Head(client.pending).kind # "stream"]
  /\ call' = Idle
  /\ UNCHANGED <<config, server, wire, writer>>

\* check_writer_error: not an I/O error, so no reconnection.
Check ==
  /\ call.state = "checking" /\ client.pending = <<>>
  /\ call' = IF writer = "failed" THEN Ended ELSE [call EXCEPT !.state = "reading"]
  /\ UNCHANGED <<config, server, wire, client, writer, told>>

\* A whole record was read, and what it completes is handled.
TakeRecord ==
  /\ call.state = "reading" /\ wire # <<>> /\ ~client.lost
  /\ wire' = Tail(wire)
  /\ LET buffer == client.buffer \o Head(wire)
         b == Batch(buffer)
     IN IF Unreadable(buffer) \/ b.failed \/ (Asks(b) /\ writer = "failed")
        THEN /\ call' = Ended
             /\ server' = [server EXCEPT !.offers = IF Unreadable(buffer) THEN @ ELSE b.offers]
             /\ UNCHANGED client
        ELSE /\ call' = Loop
             /\ client' = [b.client EXCEPT !.pending = WithFrame(b),
                                           !.started = @ \/ (Asks(b) /\ config.automatic)]
             /\ server' = [server EXCEPT
                             !.offers = b.offers,
                             !.asked = @ \/ (Asks(b) /\ ~config.automatic),
                             !.armed = @ \/ (Asks(b) /\ config.automatic)]
  /\ UNCHANGED <<config, writer, told>>

\* The reader is out of step: a length that is none, or a wrong checksum.
TakeGarbage ==
  /\ call.state = "reading" /\ wire # <<>> /\ client.lost
  /\ call' = Ended /\ wire' = Tail(wire)
  /\ UNCHANGED <<config, server, client, writer, told>>

CanRetryOnceMore == call.attempts <= MaxAttempts

CanRetry == call.attempts < MaxAttempts

IoError ==
  call' = IF CanRetry THEN [state |-> "retrying", attempts |-> call.attempts + 1] ELSE Ended

\* The broken connection is noticed, with or without what was still under way.
ReadFails ==
  /\ call.state = "reading" /\ ~server.up
  /\ IoError
  /\ UNCHANGED <<config, server, wire, client, writer, told>>

\* The read timeout strikes, between records or inside one.
TimesOut ==
  /\ call.state = "reading" /\ client.timed
  /\ client' = [client EXCEPT !.lost = @ \/ wire # <<>>]
  /\ IoError
  /\ UNCHANGED <<config, server, wire, writer, told>>

ReplacedButStarted(early) == [NewClient(early, FALSE) EXCEPT !.started = client.started]

\* *self = replacement; the new socket has no read timeout.
Replaced(early) == NewClient(early, FALSE)

\* reconnect succeeds: next_event returns Reconnected.
Reconnect(early) ==
  /\ call.state = "retrying" /\ server.session < MaxSessions
  /\ client' = Replaced(early)
  /\ server' = [NewServer EXCEPT !.session = server.session + 1]
  /\ wire' = <<>> /\ writer' = "ok" /\ told' = <<>>
  /\ call' = Idle
  /\ UNCHANGED config

\* reconnect fails: with an I/O error the old session is read again, if another
\* attempt is left.
ReconnectFails ==
  /\ call.state = "retrying"
  /\ call' \in {Ended, IF CanRetry THEN Loop ELSE Ended}
  /\ UNCHANGED <<config, server, wire, client, writer, told>>

\* select_display, between two calls: it asks for a whole frame.
SelectDisplay ==
  /\ call.state = "idle" /\ writer = "ok" /\ server.up
  /\ server' = [server EXCEPT !.asked = TRUE]
  /\ UNCHANGED <<config, wire, client, writer, call, told>>

Next ==
  \/ \E kind \in Kinds : Say(kind)
  \/ \E size \in 1 .. MaxRecord : Put(size)
  \/ Break \/ WriterFails
  \/ Call \/ Return \/ Check \/ TakeRecord \/ TakeGarbage \/ ReadFails \/ TimesOut
  \/ \E early \in BOOLEAN : Reconnect(early)
  \/ ReconnectFails \/ SelectDisplay

Spec == Init /\ [][Next]_vars

-----------------------------------------------------------------------------
(* Properties.                                                              *)

Events == [session : 1 .. MaxSessions, kind : {"frame", "notice", "stream"},
           ids : Seq(1 .. MaxMessages), key : 0 .. MaxMessages + 1]

\* The values of every variable; next_event never makes more attempts than its
\* policy has.
TypeOK ==
  /\ config \in [automatic : BOOLEAN, media : BOOLEAN]
  /\ server.session \in 1 .. MaxSessions /\ server.up \in BOOLEAN
  /\ server.sent \in Seq([kind : Kinds, key : 0 .. MaxMessages]) /\ Len(server.sent) <= MaxMessages
  /\ server.put \in 0 .. 2 * MaxMessages
  /\ server.asked \in BOOLEAN /\ server.armed \in BOOLEAN
  /\ server.answered \in 0 .. server.offers
  /\ \A i \in DOMAIN wire : wire[i] \in Seq(Halves)
  /\ client.buffer \in Seq(Halves) /\ Len(client.buffer) <= 1
  /\ client.pending \in Seq(Events) /\ told \in Seq(Events)
  /\ client.key \in 0 .. server.offers
  /\ \A flag \in {client.kept, client.started, client.offered, client.active, client.timed, client.lost} :
       flag \in BOOLEAN
  /\ writer \in {"ok", "failed"}
  /\ call \in [state : {"idle", "checking", "reading", "retrying", "ended"}, attempts : 0 .. MaxAttempts]

\* Messages whose second half the client has not read.
OnTheWay ==
  {i \in DOMAIN server.sent : server.put < 2 * i}
    \cup {h.id : h \in UNION {ToSet(wire[i]) : i \in DOMAIN wire}}

\* What a session's messages become: every frame, notice and accepted answer is
\* in one event, events come in the order of their first messages and belong to
\* this session, and a stream carries the keys of the offer its answer is to.
Told == told \o client.pending
ToldInOrder ==
  /\ \A i \in DOMAIN Told :
       LET e == Told[i] IN
       /\ e.session = server.session
       /\ i > 1 => Told[i - 1].ids[1] < e.ids[1]
       /\ e.kind = "stream" => e.key = server.sent[e.ids[1]].key
  /\ call.state # "ended" /\ ~client.lost =>
       \A id \in DOMAIN server.sent \ OnTheWay :
         server.sent[id].kind \in {"frame", "notice", "answer"} =>
           Cardinality({i \in DOMAIN Told : id \in ToSet(Told[i].ids)}) = 1

\* While no stream was offered the picture comes from updates, and nobody waits
\* for nobody: the server has a request to answer, or sends by itself, or one of
\* its frames, which the client answers with a request, is on its way.
LoopAlive ==
  call.state # "ended" /\ server.up /\ ~client.lost /\ ~client.offered =>
    \/ server.asked \/ server.armed
    \/ \E id \in OnTheWay : server.sent[id].kind = "frame"
=============================================================================
