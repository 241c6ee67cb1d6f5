# A formal model of ard-rs

ard-rs is a client for Apple Remote Desktop (macOS Screen Sharing): a protocol library
(`crates/ard-core`), a windowed viewer (`crates/ard-viewer`) and platform keyboard hooks
(`crates/ard-input-hook`). Most of what can go wrong in it and is hard to test comes from the
threads it runs per session (receiver, writer, input dispatch, video receive, video decode, the UI
and render thread, the recording thread) and from the media stream it reassembles from UDP. This
directory models those parts in TLA+, checks the models with TLC, and proves the central results
with TLAPS.

`PROJECT.json` lists, for every definition, the source lines it stands for (`map`), what each run
checks (`runs`), a plausible bug that each property catches (`mutants`), the hazards of the code
and the properties that cover them (`hazards`), and the disagreements found (`findings`).

To repeat the checks, in this directory: `tlc -workers 2 -config <X>.cfg <M>` for each run, and
`tlapm` on each module whose name ends in `_proof` (a few minutes each at most, `Recording_proof`,
`AvcPipeline_proof` and `ClientSession_proof` the longest).

## 1. The system

| Part | Source | State | Operations | Status |
|---|---|---|---|---|
| Outbound queue and writer | `ard-core/src/client.rs` | bounded queue, stop flag, in-flight flag, writer's error, socket | `submit`, `try_submit`, `receive_batch`, `finish_batch`, `flush_input`, `shutdown` | `OutboundQueue` |
| Client session | `ard-core/src/client.rs` | socket, dispatcher, pending events, display, media offer | `connect`, `next_event`, `reconnect`, `select_display` | `ClientSession`; the handshake is one step |
| Record transport | `ard-core/src/transport.rs` | partial record, CBC chains, counters | `push`, `encode_wire` | its failures in `ClientSession`; the rest is cryptography |
| Message dispatcher | `ard-core/src/dispatcher.rs` | partial message, decoders | `push`, `drain_available` | in `ClientSession`; bytes are left out |
| Authentication | `ard-core/src/auth.rs` | none across messages | Diffie-Hellman, AES | not modelled: cryptography |
| Protocol parsing and building | `protocol.rs`, `wire.rs`, `input.rs` | none | byte layouts | not modelled: pure data |
| Framebuffer decoders | `decoder.rs`, `framebuffer.rs`, `mvs.rs` | pixels, zlib streams, MVS cache | rectangles | not modelled: pixels |
| Raw stream sink | `raw_stream.rs` | slots, take, origin | `start_recording`, `describe_stream`, `record`, `stop_recording` | `RawStreamSink` |
| Media negotiation | `media_stream/negotiation.rs` | none | plists and protocol buffers | not modelled: pure data |
| RTP reassembly | `media_stream/rtp.rs`, `assembler.rs` | reorder buffer, fragments, pending frame, losses | `push`, `reset_pending` | `RtpStream` |
| Prediction chain | `media_stream/assembler.rs` | pending batches, decode order, held followers | `push_packet`, `receive`, `enter_sync_recovery` | `VideoAssembler` |
| SRTP | `media_stream/srtp.rs` | rollover counter, replay window | `unprotect` | `SrtpReplay`, with the statistics of its packets in `SecureStream` |
| UDP receiver | `media_stream/udp.rs` | sockets, feedback, request limiter | `receive_frame`, `request_keyframe` | `AvcPipeline` |
| Video pump and decode threads | `ard-viewer/src/media/pipeline.rs` | receive queue, commands, output assembler | pump, decode loop | `AvcPipeline`; life cycle in `SessionRuntime` |
| Platform decoders | `media/vt.rs`, `media/mft.rs` | decoder session, `needs_sync` | `decode`, `require_sync` | `needs_sync` in `AvcPipeline` |
| Session runtime | `ard-viewer/src/session_runtime.rs` | mailbox, wake flag, cancel flag, socket and pipeline registries | `run_receiver`, `drain_events`, `disconnect` | `SessionRuntime` |
| Input dispatch | `ard-viewer/src/session_runtime.rs` | pressed keys, button mask, command queue, current input | `handle`, `release_all`, `set_input`, dispatch thread | `InputDispatch` |
| Frame mailbox, tile set | `session_runtime.rs`, `media/mod.rs` | latest picture, tiles, tables, dirty tiles | `queue_frame`, `replace_latest`, `merge` | `PicturePath` |
| Renderer | `session_renderer.rs` | textures, uploaded tiles, pending decode | `prepare`, `upload_*`, `render` | `PicturePath`; what it hands to a recording in `Recording` |
| Recording | `recording/*`, `main.rs` | takes, staging pools, segments | `start`, `stop`, tap, recording thread | `Recording` |
| Movie files, platform encoders | `recording/muxer.rs`, `nal.rs`, `encoder/*` | boxes, encoder session | | a file is its frames and whether it has its index |
| Widgets, views, settings, keyboard hooks, oracle server | the rest | layout, files, event taps | | not modelled, see section 6 |

How they interact. The UI thread owns a `SessionRuntime` and an `InputState`. The session's
*receiver thread* (`run_receiver`) connects, reads events and reconnects; it talks to the UI
through a mailbox guarded by a mutex and an unbounded channel that only says "look". Input goes the
other way: `InputState` queues commands for the *dispatch thread*, which calls `send_*` on the
`ArdClientInput` of the current session; those calls queue encrypted messages for the *writer
thread* of that session. In a high-performance session the receiver starts a *video pipeline*: a
receive pump that reads four UDP streams (SRTP, reordering, reassembly, batching per picture), and
a decode thread that puts pictures into the same mailbox and asks for key frames when something
was lost. The render thread takes the latest picture from the mailbox, sends the graphics processor
what changed, draws, and copies what it drew into a staging buffer when a take runs; the *recording
thread* encodes those buffers into movie files.

What is hard: (a) three queues in a row, each with its own limits, coalescing and error cell, and the
promise that a key release is never lost; (b) tearing a session down while any of five threads
blocks in a call only another one can end; (c) the media stream: loss, reordering, duplication and
wrap-around inside a frame, the prediction chain over frames and bands, and key-frame requests that may be
lost themselves; (d) messages cut anywhere, two sources of pictures and reconnection in one client;
(e) pictures of which only the changes travel, are merged and are uploaded, over sessions and
sizes; (f) buffers that four parties hand round while takes, layouts and windows change. `hazards`
in `PROJECT.json` names each with its line.

What makes each part correct:

* *outbound queue* — one ordered log; a drain that is reported is real; no thread waits for ever;
* *client session* — each message becomes one event of its own session, in order; the exchange of
  requests and pictures never stalls;
* *input dispatch* — nothing stays pressed on the remote host unknown to this side;
* *session runtime* — no lost wake-up; what is shown agrees with where input goes; disconnect
  returns and leaves nothing running;
* *SRTP* — every packet is accepted at most once, fresh ones are never refused, the report is true;
* *RTP reassembly* — no damaged frame without a reported loss, no loss without cause;
* *prediction chain* — what is decoded follows, picture by picture and band by band, on a
  key frame; after a loss, nothing but a key frame;
* *receive pump and decoder* — the same across resets, overruns and failures; nobody waits for a key
  picture nobody asked for;
* *picture path* — what is drawn is what was published, of this session, whole;
* *recording* — movies hold one take's pictures in order, finished files are never touched again, a
  stopped take ends;
* *raw stream sink* — a finished dump is never replaced.

## 2. The models

### OutboundQueue and InputLog (`client.rs`)

`OutboundQueue` has one action per critical section of the queue's mutex, or per step between two of
them: `BeginSubmit` is the check of the writer's error at the head of every `send_*`; `Coalesce`,
`Push`, `WaitForSpace`, `Refuse`, `RefuseFull` are the outcomes of one pass under the lock in
`submit`/`try_submit` (a waiting thread comes back as `woken`, which skips coalescing as the
code's inner loop does); `NextPart`/`AbandonParts` are the chunk loop of `send_clipboard_text`.
`ReceiveWaits`, `ReceiveNothing`, `ReceiveBatch`, `WriteSucceeds`, `WriteFails`, `FinishBatch`,
`WriterStops` are the writer thread; `BeginFlush` to `EndFlush` are `flush_input`; `Close` to
`CloseJoins` are `InputWriter::shutdown`. `notify_one` wakes an arbitrary waiter, or nobody.
Messages keep their mode, size and identity. Left out: metrics, and the count of producers, which
reaches zero only after `shutdown` has stopped the queue anyway.

`InputLog` is the abstract specification: accept at the end, replace the newest uncommitted motion,
commit a prefix. `ImplementsLog` states the refinement, the log being the wire, the batch in
flight and the queue, one after the other.

### ClientSession (`client.rs`, `dispatcher.rs`)

One `ArdClient` and its peer. The server says messages of seven kinds and puts them on the wire in
records cut after any half of a message (`Say`, `Put`). `next_event` is `Call`, then `Check` (pending
events, the writer's error), then `TakeRecord`: the messages the record completed become one batch of
events, joined frames inserted where the first one was, the media offer made when the server's port is known,
its answer taken, framebuffer requests sent where the code sends them. A record that does not
parse, a read that fails and one that times out inside a record are actions of their own; after the
last the reader has lost its place in the byte stream, and every further record is garbage. `Reconnect` and
`ReconnectFails` are the retry loop, which makes a new session with a fresh server, dispatcher and
writer. `SelectDisplay` is the caller's. Left out: cryptography, sizes, the contents of rectangles.

### InputDispatch (`session_runtime.rs`)

The UI thread's event handlers (`InputState::handle`, `release_all`, `send_key_combo`,
`suppress_shortcut`, `set_input`, `clear_input`) and the dispatch thread (`Receive`, `TakeInput`,
`Send`, `SendFails`, `RecordError`). An event that submits one command is one action; one that
submits several is spread over steps, because the dispatch thread and the session's death run in
between. `Submit` models the error cell, then the queue's coalescing, its limit with the reserve for
releases, and eviction. `remote` is what the remote host holds down, `excused` records the two ways
in which the user has been told, or could not have been protected: a refused release whose error
was shown, and a command that was in the dispatch thread's hand while the session changed
(`Crossing`). What the remote host will hold once all that is on its way has arrived is stated
without a fold, by which commands come after which (`WillBeDown`, `WillBeUp`). Left
out: positions, and the mapping of keys to keysyms (a key is its own keysym). The session is a sink
that delivers in order, which is what `OutboundQueue` establishes.

### SessionRuntime (`session_runtime.rs`, `pipeline.rs`, `main.rs`)

The receiver thread with its program counter in `worker`, the video pipelines (one thread each,
with its stop flag), and the UI thread (`ui`), which drains events, draws, and disconnects in five
steps: cancel, stop flag, socket, join. Connecting is one nondeterministic call, reading is a blocking one
that ends with an event, an error, a timeout where one is set, or the socket's shutdown. The mailbox
keeps one event per class, as `push_event` does, and one picture; its limit, 32 in the code, is only
assumed to leave a place for each of the four classes. What the UI does with the events it drained is
stated by which of them counts: the last state and the last error news decide what is shown
(`ShownAfter`), the last loss or connection where input goes (`InputAfter`). `FrameWake` is the pair
`pending` and `wakes`. Left out: metrics, and the warning about a codec fallback on Windows.

### SrtpReplay, RtpStream and SecureStream (`srtp.rs`, `rtp.rs`, `assembler.rs`, `udp.rs`)

`SrtpReplay` is the receiving half of an SRTP context: the guess of the rollover counter from 16
bits, authentication (which succeeds exactly when the guess is the sender's cycle), and the replay
window. `RtpStream` is one stream (one band, one SSRC): `RtpReorderBuffer` (insertion, run of ready
packets, release of a newer complete burst when the window is exceeded), `FrameAssembler` with
`FragmentBuffer` (both depacketizers have the same shape), and `InboundStream::push` with its tracker of
first arrivals and `reset_pending`. Its network delivers each packet once or loses it. `SecureStream`
composes the two as `receive_frame` does: a datagram, delivered any number of times, is decrypted, counted
in the reception statistics, and pushed into the stream; `ImplementsStream` states that every step is a
step of `RtpStream`, that is, that SRTP gives the stream above it the network it assumes. A packet
is its position in what was sent, so that properties can compare what comes out with what went in;
the code sees only its sequence number, timestamp, marker and kind of piece. What the server sends is
outside the repository; `FramesAssumption` says what the code takes for granted about it: one frame after
the other, each NAL unit to its end before the next begins, the marker on the last packet of a frame and on no
other. A timestamp is the rank of its frame: the code only compares timestamps for equality, the properties
need their order. Any packets of such a stream may be lost, the first ones too. `Burst` is the loop over what
the reorder buffer releases. Left out: malformed packets, the size limit of a NAL unit, the audio stream,
jitter and the timer of the reports.

### VideoAssembler and PredictionChain (`assembler.rs`)

`VideoAssembler` is `VideoStreamAssembler` with its `AccessUnitBatcher`, above the streams of
`RtpStream`, of which it only assumes that each completes its units in order and may lose any
(`Complete`). `Look` is one turn of the loop in `receive`: `HoldFollower`, `BeginChain`, `Insert`,
`IgnoreLate` and `ChainFails` are its outcomes; `Release` is `take_ready`. The loop is several steps,
but nothing comes between them: completing further units is enabled only before the first turn. As
`receive_frame` does, the caller reads the network only when nothing is ready, and may ask for a key
frame between two calls. A unit is its position in the decode order; the code sees its band
(`Slot`), its picture's timestamp, whether it is a sync unit, and its decode order number, which
wraps. Left out: arrival times, units without a decode order number, the wrap of RTP timestamps.

`PredictionChain` is the abstract specification: each picture handed on is whole, is a key picture or
the one right after the picture handed on before, and comes after all handed on before.
`ImplementsChain` states the refinement.

### AvcPipeline (`udp.rs`, `pipeline.rs`, `vt.rs`)

Above the assembler, with a picture as one packet that completes it: the server, which sends key pictures when it
likes and when it is asked; the network, which loses and reorders; the receive thread, which runs one
command per turn, then one `receive_frame` (a run of packets, the pictures they complete, a hole or
an overflow of the pending pictures reported as a loss, also while a key picture is already awaited), and puts what it got into the bounded event queue, where an overrun becomes a
chain reset; the decode loop with `needs_sync`, decoder failures, its bookkeeping of submitted pictures
and its requests; the limiter of picture-loss indications, and the recording's request. Platform callbacks and the
server's answers are nondeterministic. `missed` is a history variable: the last request was
suppressed by the limiter, lost, or failed at the socket.

### PicturePath (`session_runtime.rs`, `media/mod.rs`, `pipeline.rs`, `session_renderer.rs`)

The way of a picture to the screen. A picture is a partial function from places (tiles or bands) to
contents, each with the table it is to be read with (quantization tables of coded tiles, colour
properties of bands). `QueueTiles`, `QueuePixels` and `QueueBands` put one into the mailbox, where it joins the one that waits
if their formats agree and replaces it otherwise; `CompositorResets` is what a loss or a failure does to
the bands' layout. `Prepare` is the renderer's `prepare` with `reset_session` for a mailbox it has
not shown and one of the three uploads: which textures are made anew, which tiles are merged into those
uploaded before, which count as changed, and which still wait to be decoded. `Render` runs the decode
pass and draws. `NewSession` gives the window another session while the renderer keeps its state.
Places, sizes, contents and tables are any sets. A session's server sends one kind of pictures: the client that gets MVS
tiles as well as plain rectangles is an observation in section 4. Left out: the buffers' pool,
viewports, shaders, the dense or sparse storage of tiles.

### Recording (`recording/*`, `main.rs`, `session_renderer.rs`)

The UI thread starts, stops and polls takes, opens and closes session windows, and quits; being also
the render thread it draws (`Draw`), which follows the published take, asks for the maps of the
captures of the draw before, and captures what is on screen when it is new or the take is. The driver
completes mappings in order (`MapCompletes`); the recording thread receives, encodes one picture behind,
starts a new segment when the layout changes, gives up after a grace period when the take is
stopping, and finishes. Mapping, encoder, file and spawn can fail, within a bound. Files are named by index and segment, as in the
directory. Left out: the timeline, byte counts, pixels.

### RawStreamSink (`raw_stream.rs`)

The development dump of what the server sent: the interface arms and stops it with each take, the
recording thread sets the origin, the receiving threads describe and record. A dump is the file of a
stream and a take's number; `whole` is the set of finished ones. Each operation is one action, as each
holds the one lock.

## 3. The runs

| Run | Instance | Shows |
|---|---|---|
| `outbound` | 2 threads (one: a two-chunk clipboard and non-blocking positions; the other: button states), 3 messages, queue of 2, records of 2 units | `DrainTruth`, `OnlySocketErrors`, refinement of `InputLog`; `NobodyWaitsForEver`, `AcceptedInputLeaves` |
| `client_session` | 2 sessions, 2 attempts, 3 messages in each, records of up to 3 halves | `ToldInOrder`, `LoopAlive` |
| `dispatch` | a letter and a modifier, a button; all twelve kinds of events, 3 of them; queue of 3, 1 place reserved; 2 sessions | `NothingForgotten`, `NoTrail`, `ParkedOnlyWhenIdle` |
| `session_runtime` | 2 connections, 2 pipelines, 4 pushed events, 2 attempts | the seven properties of the runtime, two of them liveness |
| `rtp_stream` | 4 frames in 10 packets (whole units, units in two and four fragments), sequence numbers from 12 modulo 20, reorder window of 4, replay window of 6, tracker of 2, one reset | `NoSilentDamage`, `OrderlyIsLossless`, `FreshIsAccepted`, `ReportIsTrue`, refinement of `RtpStream` |
| `prediction_chain` | 7 pictures of 12 units over 3 bands, two of them key pictures; numbers from 14 modulo 16; 2 pending batches; one key-frame request | refinement of `PredictionChain`; `OrderlyIsShown` |
| `video_pipeline` | 3 pictures, 2 under way, 2 pending, queue of 2, 1 registered submission | `DecodesChain`, `NobodyWaitsUnasked` |
| `recording` | 2 layouts, 2 takes, 2 windows of 2 pictures each, pool of 1, one fault | `StagedIntact`, `MoviesInOrder`, `SavedMeansWhole`, `ScreenIsRecorded`, `FinishedMoviesStay`, `StopEnds` |
| `clipboard_whole`, `stuck_key`, `rtp_intact`, `dump_kept` | small instances of the same modules and of `RawStreamSink` | four findings, below |

Each passing run also checks its module's type invariant.

Why the bounds are enough. The queues are small enough to fill with fewer messages than the
run allows, and every limit (capacity, record, reserve, reorder window, replay window, tracker,
attempts, staging pool) is reached in some behaviour: every action fires and each property has a
mutant that breaks it. Two submitters suffice for every race between two critical sections of the queue (`OutboundQueue_proof`
removes this bound for the safety properties). Two sessions are the least in which one's leftovers can
reach the next; two pipelines, two takes and two windows likewise. Three messages let one be cut,
one be joined and one come between them. Ten packets let a whole frame be overtaken by the next, and 20
sequence numbers with a window of 4 wrap inside the second frame while keeping "newer by less than
half" meaningful, as 65536 does for the real window; the first packets lie behind the newest by more
than the replay window of 6. The twelve units of `prediction_chain` wrap inside their first key
picture. They are fewer than the 16 numbers, so that no number is used twice (see the
observations of section 4), but more than half of them, so that a unit far ahead counts as late
(`IgnoreLate`), as one 32768 units ahead does in the code. Three pictures of `video_pipeline`
are a key picture, one that is lost or overtaken, and one that finds the hole, or the key picture
that ends a wait after a failure or an overrun; its three properties are also proved for any number
of pictures. A pool of one buffer makes every second capture meet a full pool.

Fairness. `OutboundQueue`: every thread that is inside a call goes on (a mutex is granted in the end,
socket writes and drains have timeouts); nobody is forced to submit, flush, close or fail.
`SessionRuntime`: the worker, each pipeline and the UI's pending work go on, time passes, and
`Overdue` is strongly fair: a server that sends only clipboard and bell messages for ever
is excluded, because the code looks at its negotiation deadline only after a picture or an error. A
blocking read without a timeout is not forced to return; only the socket's shutdown ends it.
`Recording`: the recording thread goes on, its clock too, and as it polls the device, requested mappings
complete; no redraw, no tick and no action of the user is promised. The other modules have no
fairness: their properties are safety.

## 4. Findings

1. *A clipboard message is not atomic on the wire* (`clipboard_whole`, `client.rs:1052`). Chunks of
   one long clipboard message are queued one by one; messages of other threads fall between them.
2. *A key release can be refused because of an older error* (`stuck_key`,
   `session_runtime.rs:1859`), against the comment that only non-release traffic may be refused. The
   key stays down on the remote host.
3. *The burst after a stale drop need not be intact* (`rtp_intact`, `assembler.rs:150`). Its first
   NAL unit can be missing; the loss is counted, but the truncated access unit is handed on.
4. *A later take can truncate an earlier take's dump* (`dump_kept`, `raw_stream.rs:573`). A stream
   described between two takes gets the first take's file name, against the comment that a second take
   cannot silently replace the first one's dump.

Observations, which no run states as a violation:

*Input.* A combination of keys that is refused half-way leaves its first keys down (the user is
told); a button released while the cursor is outside the canvas keeps its bit, and `release_all`
cannot send it either until the cursor is back.

*RTP.* After `[whole unit, whole unit with marker]` arrive in swapped order at the start of a stream,
one loss is counted, because the marker of the first packet of a new timestamp is not looked at; a
stream in which 64 frames were dropped pays a reset for the full arrival tracker. Packets of the
second cycle that come before any of the first never authenticate. A duplicate datagram is answered
with a reset of the chain.

*Prediction chain.* (a) `receive` inserts every unit a packet has completed before it releases one
picture, so a late packet that completes units of more than eight pictures on one band overflows the
batcher although nothing is lost; (b) units held for a sync unit are dropped when a unit of a newer
picture completes first; (c) until the first release after an origin `insert` accepts units older
than it: one that completes late stays in the batcher, takes one of eight places, and when the
numbers have come round (65536 units without a reset) the unit that really has its number is ignored
as a duplicate and the old one released in its place. With eight numbers instead of 16 the
refinement fails in just this way.

*Pipeline.* A request the limiter suppresses is reported as success, and a chain reset's
request may be the suppressed one: the wait then lasts until the next damaged frame. A recording asks
for its key frame once per take, and not at all when one take stops and another is armed between two
packets. A key picture that arrives while nobody waits for one can be thrown away on an overflow. A
pipeline thread that ends after its idle time (`pipeline.rs:463`) is not replaced in that session
(`session_runtime.rs:729`).

*Client.* Framebuffer updates that arrive between the media offer and its answer are answered with a
further request (`client.rs:1881`), though the comments say that this path stays silent while a media
stream is being negotiated (`client.rs:56-59`, `1549`). A writer's error found before the read fails ends the session
without reconnecting, although attempts are left; a timeout inside a record ends it too. A message
that does not parse drops the events of its record that were parsed before it. A handle to shut down
the session, and clones of its input, are stale after a reconnection.

*Raw sink.* A second take without a new negotiation lacks the codec's description; the first failure is
reported by every later take; the sink stays armed after the window closed, until a window polls.

*Recording.* After a second without a new picture the grace period is over as soon as the take is
asked to stop: what the last draw staged is lost (`mod.rs:89`, against `mod.rs:693-714`). A mapping
that fails leaks its buffer, and a segment that cannot be closed leaves a file without its index.

*Picture path.* The client advertises MVS and plain encodings together; if a server mixes them in one
session, the framebuffer, which never holds the tiles, is published as the whole picture. `mark_all_dirty`
in `upload_mvs` can never run, because tiles of the texture's size imply a texture of that size.

*Keyboard hooks* (read, not modelled). A modifier pressed before capture is enabled has its release
suppressed, so the local system keeps it down; on macOS releasing one Command key while the other is held
reads as a press; with X11 the keysym of a release depends on Shift at that time.

## 5. What is proved

`OutboundQueue_proof` proves, for any set of threads, any capacity, record size, kinds of messages and
number of submissions (assuming only `QueueAssumption`):

* `TypeCorrect`: `Spec => []TypeOK`, with it that the queue never exceeds its capacity;
* `DrainIsTrue`: `Spec => []DrainTruth`;
* `QueueImplementsLog`: `Spec => ImplementsLog`.

The argument is one inductive invariant, `IInv`: the typing; `HeldInv` (a thread in a call holds a
message); `BatchInv` (the flag `in_flight` agrees with the writer's place, and a batch that is neither
written nor in flight was lost with the error set); `FlushInv` (what a drain saw stays true);
`CloseInv` (a stopped queue stays stopped, and once drained stays empty). `DrainTruth` alone is
not inductive: that a drained flush has nothing owed depends on the batch in flight and on the order
in which the writer sets its error and clears the flag, which is what `BatchInv` records. The
refinement rests on `LogStep` (every step leaves the log alone, or is one step of it, and the wire only
grows), whose lemmas are facts about sequences: `LogLength`, `Prefix`, `SplitSequence` (a batch and
the rest make up the queue), `ReplaceLast` and `ReplaceLastOfConcat` (coalescing at the end of the
queue is coalescing at the end of the log).

`VideoAssembler_proof` proves, for any units sent, any number of bands and pending batches, any first number
and any number of key-frame requests:

* `TypeCorrect`: `Spec => []TypeOK`, with it that the batcher never exceeds its limit;
* `AssemblerImplementsChain`: `Spec => ImplementsChain`.

It assumes `AssemblerAssumption` (how a server numbers units: pictures follow each other, one unit per
band in each, a sync unit is the first of a full picture) and `NoNumberTwice` (fewer units than decode
order numbers, that is, up to 65535 in the code: without it the theorem is false, see the
observations of section 4). The inductive invariant joins four parts: the typing; `SyncInv` (what is
pending or held in which state, and that an origin is a sync unit); `BandInv` (what a band has still to
complete comes after what it has completed); and `HandedInv`: some unit `r` is the last of the picture
last handed on, `last_released_decode_order` is its number, and whatever of its band may still be handed on
comes after it. The refinement alone is not inductive, because nothing in it links the number the
batcher remembers to the picture the decoder has. The argument then goes in three lemmas: numbers
behave like positions as long as they do not meet again (`OrderIsInjective`, `OrderPlus`,
`OffsetIsDistance`); a ready unit is the first of its picture, which is a key picture or the next one,
and later than the last (`ReadyUnit`; for a new chain this takes the pigeonhole principle, since a
full picture has a unit of `r`'s band); a batch without gaps and with a proven boundary is its
whole picture (`ReadyBatch`).

Its last part follows the decoded pictures to the screen: an instance of `PicturePath` for any places,
sizes, contents and tables, and any number of sessions:

* `PathTypesHold`, and `BindGroupThere`: the `expect` in `render` cannot fail;
* `DrawnIsPublished`: with an empty mailbox, each part is drawn as it was published last;
* `DrawnIsItsOwn`: nothing of an earlier session is drawn;
* `BandsAreWhole`: a native picture is drawn whole and in one colour.

Its invariant says where each part of the session's picture is: in the mailbox (`MailboxInv`), else
in what the next draw will show (`AllShown` of `Future`), which is the textures with the tiles that wait to be
decoded. `TilesAgree` is what makes skipping sound: a tile the renderer remembers and that does not wait is in
the texture as remembered. `BandsInv` says that a native picture was published whole before any part of it was
published alone. The five lemmas of `prepare` (`OwnAgree`, `KeepAllKeeps`, `PixelsKeeps`, `BandsKeeps`,
`TilesKeeps`) are about what survives a new session, a new size and each upload. `PicturePath` has no run of
its own; with two places and two sizes or two tables TLC finishes in seconds
(`Places = {p1, p2}`, `Sizes = {s1}`, `Contents = Coded = {c1}`, `Tables = {t1, t2}`: 32 856 states).

`SecureStream_proof` proves, first about `SrtpReplay` alone (`SrtpSpec`: any set of packets, any even
modulus, any window of at most half of it), then about the composition, then about `RtpStream`:

* `SrtpIsSafe`: no packet is accepted twice (`AtMostOnce`), none within reach is refused
  (`FreshIsAccepted`);
* `BandIsAccountedFor`: the same in the composition, and the reception report is true (`ReportIsTrue`);
* `SecureImplementsStream`: every step of `SecureStream` is a step of `RtpStream` or leaves it alone;
* `StreamTypesHold`, `NothingIsSilentlyDamaged`, `ReorderingIsLossless`: the three safety invariants of
  `RtpStream` (`TypeOK`, `NoSilentDamage`, `OrderlyIsLossless`), for any frames, any capacities of the
  reorder buffer and the tracker and any number of resets;
* `BandIsTrustworthy`: the same of `SecureSpec`, so on a network that duplicates packets, by the refinement.

All but the first hold for streams of up to half a cycle of sequence numbers, which is what `RtpAssumption`
asks of the packets sent. The invariant of the first three is that the window tells the truth (`WindowIsTrue`: a bit is
set exactly for the packets decrypted, and nothing outside the window is claimed), that what the
network of `RtpStream` still has are the packets not decrypted (`NetworkIsTheRest`), and that the
statistics follow the newest packet (`StatsFollow`). Everything rests on `GuessIsRight`: the guessed
cycle of a packet less than half a cycle from the newest one is its true cycle, whichever of the two
has wrapped.

The invariant of `RtpStream`, `StreamInv`, follows one position p, that of the last packet that the reorder
buffer released or gave up. `BufferAt`: the buffer holds packets behind p, each of a tracked frame.
`Inside`: the state of the depacketizer is explained by what lies before p. An open fragment is a run of
packets that ends at p (`FragmentAt`), the frame being collected is that of p and its units are whole
(`FrameAt`), a damaged frame is that of p (`DamageAt`), what was handed on can be trusted and is behind p
(`HistoryAt`); and as long as no loss was reported since the last access unit, nothing is missing between it and
p (`Gapless`). That last part is what `NoSilentDamage` rests on, and `NextAt` is why a gap cannot pass
unseen: the sequence number expected is that of p + 1, or none while nothing is being collected and a loss has been
reported. While delivery is orderly, `Lossless` adds that every frame that ended before p was handed on, and
`OrderAt` that a marker that waits in the buffer waits for a packet in front of it. `ReorderingIsLossless` is then
two facts about the reorder buffer: what it releases has no gap (`FullHasNoHole`, as the frame fits;
`MarkerHasNoHole`, as the sequence numbers follow each other), and a frame without a hole is released at once
(`WaitingForHole`).

The proof goes up the code: sequence numbers (`NewerIsLater`: the nearer way round tells which of two packets was
sent later), sorting (`SortedIsInOrder`), one packet in the depacketizer (`PacketMoves`), one
round of the loop with its gap (`ReleasedPasses`), the loop (`BurstPasses`, by the least round that fails), what
the reorder buffer returns (`KeptIsResult`, `WaitingIsResult`, `BurstIsResult`), the push
(`DeliverStays`, `DeliverKeeps`). TLC checks `StreamInv` on the instance of `rtp_stream` too (266 543 states), and on
one with a larger frame and a reorder window of 3.

`SessionRuntime_proof` proves, for any number of connections, pipelines, attempts and any mailbox with a
place for each class of events: `TypesHold`, `ShownAndInputAgree`, `NoWakeIsLost`, `OneAtATime`,
`DisconnectLeavesNothing` and `ExitIsExplained`, that is, all six safety invariants of its run. One
inductive invariant serves them all. Its control part says what each program counter implies: which
pipeline the receiver holds and that those before it are over (`Holds`), that pipelines are numbered as they
are started (`InOrder`), which steps of a disconnect are done (`AsCancelled`, `FlagFound`, `JoinedIsOver`),
and that the mailbox holds one event of each class (`OnePerClass`). `PendingMeansComing` (a pending flag that is set
has a wake-up behind it) is what makes `MailboxWakes` inductive; `Tells` and `FailureTold` follow the
receiver's last word into the mailbox and out of it. The hard lemma is `CoalescedIsPushed`: whatever
`push_event` does to the mailbox, the newest event of every other class stays, and the new one is last.

`AvcPipeline_proof` proves, for any number of pictures and any capacities (a queue of at least two places,
which the code's reservation of a place for a reset presupposes):

* `TypesHold`;
* `DecodesAChain`: the action property `DecodesChain`;
* `WaitersAreAnswered`: `NobodyWaitsUnasked`.

`Chain` is the invariant behind the second: from the picture decoded last, through the queue
(`HeadFollows`, `QueueFollows`) and the picture just read (`GotFollows`), to the one the assembler released last
(`ReleasedIsLast`), each is a key picture or the successor of the one before, unless a break is queued
between them or the decoder wants a key picture; and an assembler that awaits one holds nothing and has a break queued
behind all it handed on (`SyncIsCut`). `TellsOfBreak` keeps this while the receive thread replaces an
overrun queue by one break; `SeenBounds` and `GotIsFresh` say what the assembler and the receiver can hold. Working on it showed that an overflow of the pending
pictures counts as a loss also while a key picture is awaited, which the model had left out.

`Recording_proof` proves, for any layouts, any size of the staging pools, and any number of takes, pictures,
windows and faults: `TypesHold`, `BuffersStayIntact`, `MoviesAreInOrder`, `FinishedStay` (an action
property), `SavedIsWhole` and `ScreenGetsRecorded`, all safety properties of its run. The invariant has
a part for each party: who is in charge of a take (`TakesAgree`), what the thread has in its hands
(`ThreadHolds`), what the tap owes to a take (`TapFollows`), what is on its way (`FlightsInv`: each capture
still holds its picture in a buffer that is not free, and any two are in different buffers and in
order), the pools, the files, and the movie being written (`WritingInv`: earlier segments are whole, this one
is open, and the frame the encoder holds comes after all that is in the files). `AheadInv` ties the two
ends together: that frame comes before everything on its way. Captures move along four queues, and
nearly every step moves, drops or adds one: `LeftOf` says of two states which captures are left, and the
lemmas about it (`WithoutOldest`, `WithoutFront`, `Moves`) let each action be treated by the
one fact about the queues it changes. `MoviesInOrder` is stated with quantifiers over places in
files and queues for the same reason.

Its last part is about the dump beside the movies, an instance of `RawStreamSink` for any streams and
any number of takes:

* `TakesAreClosed`: the types, and that between takes and before a take's first frame no dump is open;
* `DumpsStay`: a finished dump is replaced only for a stream that was described between two takes,
  which is the one way to the fourth finding.

The invariant there: a finished file belongs to a take that is over, and the armed take has none
(`DumpFilesInv`); a dump that may still create or extend its file has a file that is not finished, except
for streams in `late` (`DumpSlotInv`); numbers are those of takes armed so far, or 1 (`DumpNumberInv`);
only a dump that exists is open (`DumpOpenInv`). `DumpSlotInv` is what stopping a take must restore by
emptying the slots it closed.

`InputDispatch_proof` proves, for any finite keyboard, any buttons, any limit of the queue with any reserve
below it, and any number of events and sessions: `TypesHold`, `NothingIsForgotten`, `NoTrailForms` and
`WakeUpsArrive`, the four invariants of its run. `NothingForgotten` is not inductive, as it speaks of
the moments between two events only. `KeysInv` extends it to every moment from `ClearQueue` on: a key that is
or will be down is recorded, excused, or belongs to the call in progress, which has pressed it and
has its release still to submit (`Doing`, read off from the commands left, `TodoInv`). `SessionInv` says that
between the connection and the end of `set_input` nothing the dispatch thread holds reaches the new session,
but for the command in hand when the queue is cleared (`Crossing`). For the buttons the property itself is
too weak: the last pointer command of the queue may say that no button is down and be evicted or replaced.
`ButtonsInv` asks for what cannot be taken back (`Up`): the buttons are up now, or a *release* of all of them is
queued, and no later command presses one. What each operation of the queue does to these two readings of it is a lemma of its
own: a command is dropped that releases nothing (`WithoutKeys`, `WithoutMouse`), added (`AddedKeys`,
`AddedMouse`), taken in hand (`TakenKeys`, `TakenMouse`). `PushedQueue` joins them into what
`InputCommandQueue::submit` does; that an eviction joins no two positions (`Dropped`) rests on
everything before the evicted command being a release.

`ClientSession_proof` proves, for any number of sessions, messages and attempts and any size of records:
`TypesHold`, `EveryMessageIsTold` and `PictureComes`, the three invariants of its run. None of them is
inductive: what becomes of a message depends on halves that may be in the buffer, in a record under way or not
yet sent. The invariant counts halves. `RunsTo` says that the records on the wire follow each other without
a gap up to the last half put, so the number of halves read (`ReadHalves`) tells everything the client has
got: its buffer is the odd half, if there is one (`ClientInv`), the events made so far are those of the
messages below (`ToldInv`, by `Made`, `Ordered`, `Apart` and `TellsAll`), a stream offer is open until its
reply is below (`OfferAgrees`; `ServerInv` has it that there is one reply at most), and without an offer a
picture was asked for, will be sent, or is a message above (`PictureInv`). A record completes any number of
messages, and these are handled by a recursive function, `Batch`, about which no induction theorem can be
cited. The way round is the least counterexample: `HasFirst` takes it from the well-foundedness of the natural
numbers, `StepsExist` concludes that the function exists, and `BatchSteps` that what holds before the first
message and is kept by each holds of the batch. What is kept is `Handled`: the messages up to this one
are in the events and frames of the batch. `BatchTells` adds that the frames' event may stand where the
first frame was, and `TellsJoin` appends a batch to what was told before.

In `OutboundQueue_proof`, `OnlyTheSocketFails` has an invariant of its own, `RecordInv`: a batch the writer
has taken and not yet written fits in a record, and a recorded error means a socket that is down. It
needs no induction over the batch, because `receive_batch` measures it before the writer has it.

What stays model-checked, and why:

* the liveness properties (`NobodyWaitsForEver`, `AcceptedInputLeaves`, `DisconnectReturns`,
  `NegotiationDecided`, `StopEnds`): the prover does not handle fairness and ENABLED;
* `OrderlyIsShown` of `VideoAssembler`, which compares with the whole of what was sent.

## 6. Plan

Theorem to add: `OrderlyIsShown` of `VideoAssembler`, above the four bands that `RtpStream` now
justifies.

Models that could follow: the keyboard hooks (which key is captured while focus, capture and the
hook's channel change out of step), and the MVS cache that client and server keep in step.

Not modelled: authentication, record encryption and key derivation (cryptography without
interleaving); parsing and building of messages, plists and protocol buffers (pure functions of
bytes); pixel codecs and colour conversion; the boxes of movie files and the NAL units in them;
bindings to platform decoders, encoders and the graphics interface beyond what they tell the code
modelled; widgets, views, settings and translations; the oracle server and the example viewer, which
only tests use.
