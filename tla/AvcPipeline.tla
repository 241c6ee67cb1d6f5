----------------------------- MODULE AvcPipeline ----------------------------
(***************************************************************************)
(* The live video pipeline: AvcVideoStreamReceiver in                      *)
(* crates/ard-core/src/media_stream/udp.rs, and the receive pump, its      *)
(* event queue, the decode loop and DecoderOutputAssembler in              *)
(* crates/ard-viewer/src/media/pipeline.rs, with the platform decoder's    *)
(* needs_sync (media/vt.rs, media/mft.rs).                                 *)
(*                                                                         *)
(* A picture is one packet that completes it; it is its place in what the  *)
(* server sent.  How packets and bands make a picture, and what a lost one *)
(* costs, is RtpStream and VideoAssembler; here a picture that comes after *)
(* a hole is reported as a loss, and may itself be given up for it.  The   *)
(* server, the network and the platform decoder are the environment; a     *)
(* recording does not end before it has its key picture.                   *)
(***************************************************************************)
EXTENDS Integers, Sequences, FiniteSets, FiniteSetsExt

CONSTANTS
  Pictures,        \* bound: the pictures sent
  MaxFlying,       \* bound: packets in the network
  MaxPending,      \* MAX_PENDING_FRAME_BATCHES
  QueueCapacity,   \* AVC_RECEIVE_QUEUE_CAPACITY
  MaxRegistered    \* AVC_RECEIVE_QUEUE_CAPACITY * 4

ASSUME PipelineAssumption ==
  /\ Pictures \in Nat \ {0}
  /\ MaxFlying \in Nat \ {0} /\ MaxPending \in Nat \ {0}
  /\ QueueCapacity \in Nat \ {0, 1} /\ MaxRegistered \in Nat \ {0}

Sent == 1 .. Pictures
None == 0

VARIABLES
  (* the server and the network *)
  sent,          \* how many pictures the server has sent
  keys,          \* the pictures sent as key pictures
  flying,        \* the pictures in the network
  pli,           \* a picture-loss indication is on its way to the server
  (* AvcVideoStreamReceiver, owned by the receive thread *)
  newest,        \* the newest picture the streams have seen
  awaitingSync,  \* VideoStreamAssembler.awaiting_sync
  pending,       \* the pictures in AccessUnitBatcher.pending
  released,      \* the picture released last
  take,          \* a recording without a key picture: begun ("armed",
                 \* take_armed not yet set), "asked" for one, or none ("off")
  recent,        \* last_keyframe_request is within KEYFRAME_REQUEST_INTERVAL
  (* the receive thread, its queue and its commands *)
  pump,          \* where the receive thread is
  got,           \* received: a picture, Nothing or Failure
  commands,      \* there is a command in the channel
  events,        \* AvcReceiveQueueState.events
  (* the decode loop *)
  loop,          \* where the decode loop is
  needsSync,     \* VideoToolboxDecoder.needs_sync
  registered,    \* the size of DecoderOutputAssembler.pending
  begun,         \* active_timestamp is some picture, begun and not finished
  stop,          \* the session's stop flag
  (* history *)
  decoded,       \* the picture submitted to the decoder last
  missed         \* no request for a key picture has left since the start, or
                 \* since one was suppressed, lost or failed or its answer was
                 \* lost unnoticed

network == <<sent, keys, flying>>
assembler == <<awaitingSync, pending, released>>
queue == <<commands, events>>
output == <<needsSync, registered, begun, decoded>>
vars == <<network, pli, newest, assembler, take, recent, pump, got, queue,
          loop, output, stop, missed>>

(* AvcReceivePump.internal_stop: the decode loop is over and the pump is   *)
(* dropped.                                                                *)
InternalStop == loop \in {"joins", "done"}

Nothing == 0
Failure == -1
Event(kind, p) == [kind |-> kind, picture |-> p]
Frame(p) == Event("frame", p)
Reset == Event("reset", None)
Overrun == Event("overrun", None)
Error == Event("error", None)

TypeOK ==
  /\ sent \in 0 .. Pictures /\ keys \subseteq 1 .. sent /\ flying \subseteq 1 .. sent
  /\ pli \in BOOLEAN /\ recent \in BOOLEAN /\ missed \in BOOLEAN
  /\ newest \in 0 .. sent /\ released \in 0 .. sent
  /\ take \in {"off", "armed", "asked"}
  /\ awaitingSync \in BOOLEAN
  /\ pending \subseteq 1 .. sent /\ Cardinality(pending) <= MaxPending
  /\ pump \in {"commands", "read", "check", "publish", "tell", "tellThenRead", "ended"}
  /\ got \in -1 .. sent
  /\ commands \in BOOLEAN
  /\ events \in Seq([kind : {"frame", "reset", "overrun", "error"}, picture : 0 .. sent])
  /\ Len(events) <= QueueCapacity
  /\ loop \in {"wait", "asks", "joins", "done"}
  /\ needsSync \in BOOLEAN
  /\ registered \in 0 .. MaxRegistered /\ begun \in BOOLEAN
  /\ decoded \in 0 .. sent
  /\ stop \in BOOLEAN

Init ==
  /\ sent = 0 /\ keys = {} /\ flying = {} /\ pli = FALSE
  /\ newest = None /\ awaitingSync = TRUE /\ pending = {} /\ released = None /\ take = "off"
  /\ recent = FALSE
  /\ pump = "commands" /\ got = Nothing /\ commands = FALSE /\ events = <<>>
  /\ loop = "wait" /\ needsSync = FALSE /\ registered = 0 /\ begun = FALSE
  /\ stop = FALSE
  /\ decoded = None /\ missed = TRUE

-----------------------------------------------------------------------------
(* The environment.  The server sends a key picture first and whenever one *)
(* was asked for.  It matters only while the pipeline goes on.             *)

Going == ~stop /\ loop \in {"wait", "asks"}

(* The server has got the request by then, or not yet. *)
ServerSends ==
  /\ Going
  /\ sent < Pictures /\ Cardinality(flying) < MaxFlying
  /\ sent' = sent + 1
  /\ flying' = flying \cup {sent + 1}
  /\ \/ /\ sent = 0 \/ pli
        /\ keys' = keys \cup {sent + 1} /\ pli' = FALSE
     \/ sent # 0 /\ UNCHANGED <<keys, pli>>
  /\ UNCHANGED <<newest, assembler, take, recent, pump, got, queue, loop, output, stop, missed>>

PacketIsLost ==
  /\ Going
  /\ \E p \in flying : flying' = flying \ {p}
  /\ UNCHANGED <<sent, keys, pli, newest, assembler, take, recent, pump, got, queue, loop, output,
                 stop, missed>>

RequestIsLost ==
  /\ Going /\ pli
  /\ pli' = FALSE /\ missed' = TRUE
  /\ UNCHANGED <<network, newest, assembler, take, recent, pump, got, queue, loop, output, stop>>

IntervalPasses ==
  /\ Going /\ recent
  /\ recent' = FALSE
  /\ UNCHANGED <<network, pli, newest, assembler, take, pump, got, queue, loop, output, stop, missed>>

StopRequested ==
  /\ Going
  /\ stop' = TRUE
  /\ UNCHANGED <<network, pli, newest, assembler, take, recent, pump, got, queue, loop, output, missed>>

RecordingStarts ==
  /\ Going /\ take = "off"
  /\ take' = "armed"
  /\ UNCHANGED <<network, pli, newest, assembler, recent, pump, got, queue, loop, output, stop, missed>>

-----------------------------------------------------------------------------
(* Asking for a key picture: send_keyframe_request.  Suppressed, it is     *)
(* reported as sent; a socket error is returned.                           *)
Suppressed == recent
AskAndSucceed ==
  IF Suppressed
  THEN /\ missed' = TRUE
       /\ UNCHANGED <<pli, recent>>
  ELSE pli' = TRUE /\ recent' = TRUE /\ missed' = FALSE
AskAndFail ==
  /\ ~Suppressed
  /\ missed' = TRUE
  /\ UNCHANGED <<pli, recent>>
DoNotAsk == UNCHANGED <<pli, recent, missed>>

(* A hole before the first packet ever seen is not noticed by the streams. *)
Unnoticed(p) == newest = None /\ p # 1

(* enter_sync_recovery, which request_keyframe calls before it asks. *)
EnterSyncRecovery == awaitingSync' = TRUE /\ pending' = {} /\ released' = None

-----------------------------------------------------------------------------
(* receive_frame: a picture that is ready, or else one packet.             *)

Expected == released + 1
IsReady == ~awaitingSync /\ Expected \in pending

(* A picture handed on is the recording's key picture if it is one.        *)
Carries(state, p) == IF state = "asked" /\ p \in keys THEN "off" ELSE state

ReadReady ==
  /\ pump = "read" /\ IsReady
  /\ got' = Expected
  /\ released' = Expected /\ pending' = pending \ {Expected}
  /\ take' = Carries(take, Expected)
  /\ pump' = "check"
  /\ UNCHANGED <<network, pli, newest, awaitingSync, recent, queue, loop, output, stop, missed>>

(* The read times out, or the datagram is RTCP. *)
ReadNothing ==
  /\ pump = "read" /\ ~IsReady
  /\ got' = Nothing
  /\ pump' = "check"
  /\ UNCHANGED <<network, pli, newest, assembler, take, recent, queue, loop, output, stop, missed>>

(* A datagram that is refused: SRTP takes it for a duplicate or cannot     *)
(* authenticate it, or it is no packet of the stream; or the socket fails, *)
(* the report that is due before a ready picture is looked for included.   *)
ReadFails ==
  /\ pump = "read"
  /\ got' = Failure
  /\ pump' = "check"
  /\ UNCHANGED <<network, pli, newest, assembler, take, recent, queue, loop, output, stop, missed>>

(* The picture a packet completes, and those right after it whose packets  *)
(* were waiting for this one in the reorder buffer.                        *)
Runs == {r \in SUBSET flying : r # {} /\ r = Min(r) .. Max(r)
                               /\ (newest = None => Cardinality(r) = 1)}

ReadPacket(r) ==
  /\ pump = "read" /\ ~IsReady
  /\ flying' = flying \ r
  /\ pump' = "check"
  /\ UNCHANGED <<sent, keys, commands, loop, output, stop>>

(* A recording that begins wants a key picture, and asks for one once.     *)
TakeAsks == take = "armed"
Asked == IF TakeAsks THEN "asked" ELSE take

(* What the streams make of it: what is older than the newest is late; a   *)
(* hole before it is a loss, for which the first picture may be given up.  *)
IsLate(r) == Min(r) < newest
Loses(r) == newest # None /\ Min(r) > newest + 1
Kept(r) ==
  IF IsLate(r) THEN {{}}
  ELSE IF Loses(r) THEN {r, r \ {Min(r)}}
  ELSE {r}

(* VideoStreamAssembler::receive: of the completed pictures those are      *)
(* inserted that are not late, from a key picture on if one is awaited;    *)
(* then one is handed on.  A picture of which only some bands were lost    *)
(* takes a place too.                                                      *)
Inserted(kept) ==
  IF awaitingSync THEN {p \in kept : \E k \in kept \cap keys : k <= p}
  ELSE {p \in kept : p > released}
Before(inserted) == IF awaitingSync THEN Min(inserted) - 1 ELSE released
MayOverflow(kept) ==
  LET inserted == Inserted(kept)
  IN inserted # {} /\ Max(inserted) - Before(inserted) > MaxPending
MustOverflow(kept) == Cardinality(pending \cup Inserted(kept)) > MaxPending

Insert(inserted) ==
  LET waiting == pending \cup inserted
      next == Before(inserted) + 1
  IN  /\ awaitingSync' = FALSE
      /\ got' = IF next \in waiting THEN next ELSE Nothing
      /\ released' = IF next \in waiting THEN next ELSE next - 1
      /\ pending' = waiting \ {next}

Assemble(kept) ==
  \/ Inserted(kept) = {} /\ got' = Nothing /\ UNCHANGED assembler
  \/ Inserted(kept) # {} /\ ~MustOverflow(kept) /\ Insert(Inserted(kept))
Overflow(kept) == MayOverflow(kept) /\ got' = Nothing /\ EnterSyncRecovery

(* What the streams lost and what the assembler gave up are losses: one is *)
(* asked for a key picture, and the pump, which sees the loss counter      *)
(* change, clears the queue.  The requests of one read are one: the        *)
(* limiter lets the first through at most.                                 *)
ReadAccepted(r) ==
  /\ ReadPacket(r)
  /\ newest' = IF IsLate(r) THEN newest ELSE Max(r)
  /\ \E kept \in Kept(r), overflows \in BOOLEAN :
       /\ IF overflows THEN Overflow(kept) ELSE Assemble(kept)
       /\ IF Loses(r) \/ overflows
          THEN events' = <<Reset>> /\ AskAndSucceed
          ELSE /\ events' = events
               /\ IF TakeAsks THEN AskAndSucceed
                  ELSE missed' = (missed \/ Unnoticed(Min(r))) /\ UNCHANGED <<pli, recent>>
  /\ take' = Carries(Asked, got')

(* A request cannot be sent: the read fails, the recording's before the    *)
(* streams see the packet, a loss's before the pictures are assembled.     *)
ReadAndAskFails(r) ==
  /\ ReadPacket(r)
  /\ AskAndFail
  /\ got' = Failure
  /\ \/ TakeAsks /\ UNCHANGED <<newest, events, assembler>>
     \/ /\ ~TakeAsks
        /\ \/ Loses(r) /\ UNCHANGED assembler
           \/ ~IsLate(r) /\ ~Loses(r) /\ MayOverflow(r) /\ EnterSyncRecovery
        /\ newest' = Max(r) /\ events' = <<Reset>>
  /\ take' = Asked

-----------------------------------------------------------------------------
(* The receive thread (AvcReceivePump::spawn).                             *)

PumpEnds ==
  /\ pump = "commands" /\ (stop \/ InternalStop)
  /\ pump' = "ended"
  /\ UNCHANGED <<network, pli, newest, assembler, take, recent, got, queue, loop, output,
                 stop, missed>>

(* The receiver's request_keyframe, after the queue was cleared; when it   *)
(* fails the thread has an error to tell.                                  *)
RequestKeyframeSilently(next, nextAfterError) ==
  /\ EnterSyncRecovery
  /\ DoNotAsk /\ pump' \in {next, nextAfterError}
RequestKeyframe(next, nextAfterError) ==
  /\ EnterSyncRecovery
  /\ \/ AskAndSucceed /\ pump' = next
     \/ AskAndFail /\ pump' = nextAfterError

(* The commands that came before the read. *)
PumpTakesCommands ==
  /\ pump = "commands" /\ ~stop /\ ~InternalStop
  /\ IF commands
     THEN events' = <<Reset>> /\ RequestKeyframe("read", "tellThenRead")
     ELSE pump' = "read" /\ DoNotAsk /\ UNCHANGED <<assembler, events>>
  /\ commands' = FALSE
  /\ UNCHANGED <<network, newest, take, got, loop, output, stop>>

(* The commands that came during it: what was read is dropped. *)
PumpChecksCommands ==
  /\ pump = "check"
  /\ IF commands
     THEN events' = <<Reset>> /\ got' = Nothing /\ RequestKeyframe("commands", "tell")
     ELSE pump' = "publish" /\ DoNotAsk /\ UNCHANGED <<assembler, events, got>>
  /\ commands' = FALSE
  /\ UNCHANGED <<network, newest, take, loop, output, stop>>

IsFullLate == Len(events) > QueueCapacity
IsFull == Len(events) >= QueueCapacity

PushFrameOrDropIt ==
  /\ got \in Sent
  /\ events' = IF IsFull THEN events ELSE Append(events, Frame(got))
  /\ pump' = "commands" /\ DoNotAsk /\ UNCHANGED assembler
PushFrame ==
  /\ got \in Sent
  /\ IF IsFull
     THEN events' = <<Overrun>> /\ RequestKeyframe("commands", "tell")
     ELSE /\ events' = Append(events, Frame(got))
          /\ pump' = "commands" /\ DoNotAsk /\ UNCHANGED assembler
PushFailure ==
  /\ got = Failure
  /\ events' = <<Reset>>
  /\ RequestKeyframe("tell", "tell")
PushNothing ==
  /\ got = Nothing
  /\ pump' = "commands" /\ DoNotAsk /\ UNCHANGED <<assembler, events>>
PumpPublishes ==
  /\ pump = "publish"
  /\ PushFrame \/ PushFailure \/ PushNothing
  /\ got' = Nothing
  /\ UNCHANGED <<network, newest, take, commands, loop, output, stop>>

(* push_error.                                                             *)
PumpTells ==
  /\ pump \in {"tell", "tellThenRead"}
  /\ events' = Append(IF IsFull THEN Tail(events) ELSE events, Error)
  /\ pump' = IF pump = "tell" THEN "commands" ELSE "read"
  /\ UNCHANGED <<network, pli, newest, assembler, take, recent, got, commands, loop, output,
                 stop, missed>>

-----------------------------------------------------------------------------
(* The decode loop (spawn_avc_video_pipeline).                             *)

Take(kind) ==
  /\ loop = "wait" /\ ~stop
  /\ events # <<>> /\ Head(events).kind \in kind
  /\ UNCHANGED <<network, pli, newest, assembler, take, recent, pump, got, stop, missed>>

RequireSync == needsSync' = TRUE /\ registered' = 0 /\ begun' = FALSE

(* The pump's request_keyframe: the queue first, then the command.         *)
Fails ==
  /\ RequireSync
  /\ events' = <<Reset>>
  /\ loop' = "asks"

(* register_batch; no timestamp comes twice before they wrap. *)
Registers == registered < MaxRegistered
NeedsKey(p) == needsSync /\ p \notin keys

LoopRefuses ==
  /\ Take({"frame"})
  /\ ~Registers
  /\ Fails
  /\ UNCHANGED <<commands, decoded>>

(* Without a key picture nothing comes out, and the batch stays expected. *)
LoopSkips ==
  /\ Take({"frame"})
  /\ Registers /\ NeedsKey(Head(events).picture)
  /\ registered' = registered + 1
  /\ events' = Tail(events)
  /\ UNCHANGED <<commands, loop, needsSync, begun, decoded>>

(* All outputs come, or some, or none, or the decoder or the compositor    *)
(* fails; outputs of another picture than the one begun are a failure.     *)
LoopDecodes ==
  /\ Take({"frame"})
  /\ Registers /\ ~NeedsKey(Head(events).picture)
  /\ decoded' = Head(events).picture
  /\ \/ Fails
     \/ /\ events' = Tail(events) /\ needsSync' = FALSE /\ loop' = loop
        /\ \/ ~begun /\ begun' = FALSE /\ registered' = registered
           \/ ~begun /\ begun' = TRUE /\ registered' = registered + 1
           \/ begun' = begun /\ registered' = registered + 1
  /\ UNCHANGED commands

LoopResets ==
  /\ Take({"reset", "overrun", "error"})
  /\ RequireSync
  /\ events' = Tail(events)
  /\ loop' \in IF Head(events).kind = "error" THEN {loop, "joins"} ELSE {loop}
  /\ UNCHANGED <<commands, decoded>>

(* A send to a thread that has ended fails, and is told.                   *)
LoopAsks ==
  /\ loop = "asks"
  /\ commands' = (pump # "ended")
  /\ loop' = "wait"
  /\ UNCHANGED <<network, pli, newest, assembler, take, recent, pump, got, events, output,
                 stop, missed>>

(* Stopped, or nothing was shown for IDLE_TIMEOUT and nothing is queued.   *)
LoopLeaves ==
  /\ loop = "wait"
  /\ stop \/ events = <<>>
  /\ loop' = "joins"
  /\ UNCHANGED <<network, pli, newest, assembler, take, recent, pump, got, queue, output,
                 stop, missed>>

LoopEnds ==
  /\ loop = "joins" /\ pump = "ended"
  /\ loop' = "done"
  /\ UNCHANGED <<network, pli, newest, assembler, take, recent, pump, got, queue, output,
                 stop, missed>>

-----------------------------------------------------------------------------
Environment ==
  \/ ServerSends \/ PacketIsLost \/ RequestIsLost
  \/ IntervalPasses \/ StopRequested \/ RecordingStarts
Read ==
  \/ ReadReady \/ ReadNothing \/ ReadFails
  \/ \E r \in Runs : ReadAccepted(r) \/ ReadAndAskFails(r)
Pump == PumpEnds \/ PumpTakesCommands \/ Read \/ PumpChecksCommands \/ PumpPublishes \/ PumpTells
Loop ==
  \/ LoopRefuses \/ LoopSkips \/ LoopDecodes \/ LoopResets
  \/ LoopAsks \/ LoopLeaves \/ LoopEnds

Next == Environment \/ Pump \/ Loop

Spec == Init /\ [][Next]_vars

-----------------------------------------------------------------------------
(* Properties *)

(* No picture is submitted to the decoder across a reset, a lost packet,   *)
(* an overrun or a failure: each is a key picture or follows the one       *)
(* submitted before it.                                                    *)
DecodesChain == [][decoded' # decoded => decoded' \in keys \/ decoded' = decoded + 1]_vars

(* Once somebody waits for a key picture, one is on its way, or whoever    *)
(* found the chain broken is about to ask for one, or the latest request   *)
(* was suppressed by the limiter, lost or refused by the socket.           *)
IsKeyFrame(event) == event.kind = "frame" /\ event.picture \in keys
Breaks(i) == events[i].kind # "frame"
Starved ==
  /\ needsSync \/ \E i \in DOMAIN events : Breaks(i)
  /\ \A i \in DOMAIN events : IsKeyFrame(events[i]) => \E j \in DOMAIN events : j > i /\ Breaks(j)
Waits == Starved \/ awaitingSync \/ take = "asked"
KeyOnItsWay ==
  \/ pli
  \/ \E k \in keys : k > newest \/ k \in pending \/ k = got
WillAsk == commands \/ loop = "asks" \/ got = Failure
Running == pump # "ended" /\ loop \in {"wait", "asks"}
NobodyWaitsUnasked == Running /\ Waits => KeyOnItsWay \/ WillAsk \/ missed
=============================================================================
