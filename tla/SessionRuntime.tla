--------------------------- MODULE SessionRuntime ---------------------------
(***************************************************************************)
(* The life of a viewer session (crates/ard-viewer/src/session_runtime.rs, *)
(* SessionRuntime and run_receiver): a worker thread connects, reads the   *)
(* server's events, starts a video pipeline thread when a media stream is  *)
(* negotiated, and reconnects; worker and pipeline publish into a mailbox  *)
(* and wake the UI thread, which drains it; the UI disconnects at any time *)
(* and joins the worker.                                                   *)
(*                                                                         *)
(* An action is one critical section (mailbox, registries), one atomic     *)
(* operation, or one blocking call.  A picture is one bit: the mailbox     *)
(* keeps only the latest.  Stream metrics, which never wake the window on  *)
(* their own, are left out.  The server, the network and the clock are the *)
(* environment.                                                            *)
(***************************************************************************)
EXTENDS Integers, Sequences, SequencesExt, FiniteSets

CONSTANTS
  MaxEvents,      \* MAX_EVENTS
  MaxAttempts,    \* MAX_RECONNECT_ATTEMPTS
  MaxSessions,    \* bound: connections made over the whole behaviour
  MaxPipelines    \* bound: media streams offered over the whole behaviour

ASSUME RuntimeAssumption ==
  /\ MaxEvents \in Nat /\ MaxEvents >= 4    \* a place for each class of events
  /\ MaxAttempts \in Nat \ {0}
  /\ MaxSessions \in Nat /\ MaxPipelines \in Nat

(* SessionEvent, tagged with the number of connections made before it. *)
States == {"connecting", "reconnecting", "connected", "disconnected", "failed"}
Kinds  == States \cup {"input", "clipboard", "render"}
Event  == [kind : Kinds, of : 0 .. MaxSessions]
Shown  == [kind : States \cup {"idle"}, of : 0 .. MaxSessions]

Receiver == 0
Pipelines == 1 .. MaxPipelines
Producers == {Receiver} \cup Pipelines

VARIABLES
  highPerformance,  \* config.quality: AVC/HEVC over UDP, or pictures over RFB
  worker,           \* where run_receiver is
  after,            \* what it does once it has joined a pipeline
  attempts, reconnecting,
  session,          \* number of connections made so far
  avc,              \* the pipeline whose avc_stop and avc_worker it holds, or 0
  elapsed,          \* MEDIA_NEGOTIATION_TIMEOUT has passed since it connected
  events,           \* FrameMailbox.events
  frame,            \* FrameMailbox.latest is Some
  pending,          \* FrameWake.pending
  wakes,            \* messages in FrameWake's channel
  notify,           \* where each producer is in FrameWake::notify
  pipeline,         \* where each pipeline thread is
  stops,            \* the pipelines whose stop flag is set
  cancel,           \* SessionRuntime.cancel
  handle,           \* the session whose socket SessionRuntime.shutdown holds
  registered,       \* the pipeline whose flag SessionRuntime.avc_stop holds
  shut,             \* sessions whose socket disconnect shut down
  ui,               \* where the UI thread is
  shown, input      \* the state it shows, the session it sends input to

mailbox == <<events, frame>>
waking  == <<pending, wakes, notify>>
loop    == <<worker, after, attempts, reconnecting, session, avc, elapsed>>
flags   == <<cancel, handle, registered, shut>>
screen  == <<ui, shown, input>>
vars == <<highPerformance, loop, mailbox, waking, pipeline, stops, flags, screen>>

TypeOK ==
  /\ highPerformance \in BOOLEAN
  /\ worker \in {"top", "connect", "retry", "register", "announce", "announced", "loop",
                 "event", "join", "publish", "forget", "lost", "exit"}
  /\ after \in {"exit", "spawn", "forget"}
  /\ attempts \in 0 .. MaxAttempts /\ reconnecting \in BOOLEAN
  /\ session \in 0 .. MaxSessions /\ avc \in 0 .. MaxPipelines /\ elapsed \in BOOLEAN
  /\ events \in Seq(Event) /\ Len(events) <= MaxEvents
  /\ frame \in BOOLEAN
  /\ pending \in BOOLEAN /\ wakes \in Nat
  /\ notify \in [Producers -> {"none", "swap", "send"}]
  /\ pipeline \in [Pipelines -> {"none", "run", "flush", "exit"}]
  /\ stops \subseteq Pipelines
  /\ cancel \in BOOLEAN /\ handle \in 0 .. MaxSessions
  /\ registered \in 0 .. MaxPipelines /\ shut \subseteq 1 .. MaxSessions
  /\ ui \in {"idle", "poll", "drain", "draw", "flag", "unblock", "join", "gone"}
  /\ shown \in Shown /\ input \in 0 .. MaxSessions

Init ==
  /\ highPerformance \in BOOLEAN
  /\ worker = "top" /\ after = "exit"
  /\ attempts = 0 /\ reconnecting = FALSE
  /\ session = 0 /\ avc = 0 /\ elapsed = FALSE
  /\ events = <<>> /\ frame = FALSE
  /\ pending = FALSE /\ wakes = 0 /\ notify = [p \in Producers |-> "none"]
  /\ pipeline = [g \in Pipelines |-> "none"] /\ stops = {}
  /\ cancel = FALSE /\ handle = 0 /\ registered = 0 /\ shut = {}
  /\ ui = "idle" /\ shown = [kind |-> "connecting", of |-> 0] /\ input = 0

-----------------------------------------------------------------------------
(* The mailbox and the wake-up *)

(* FrameMailbox::push_event: a newer event takes back the older one of its *)
(* class (there never are two) and goes to the end; at the limit the       *)
(* oldest event goes.                                                      *)
Class(e) == IF e.kind \in States THEN "state" ELSE e.kind
CoalescedInPlace(q, e) ==
  IF \E i \in 1 .. Len(q) : Class(q[i]) = Class(e)
  THEN [i \in 1 .. Len(q) |-> IF Class(q[i]) = Class(e) THEN e ELSE q[i]]
  ELSE Append(q, e)
CoalescedKeepingOld(q, e) ==
  IF \E i \in 1 .. Len(q) : Class(q[i]) = Class(e) THEN q ELSE Append(q, e)
Coalesced(q, e) ==
  LET older == {i \in 1 .. Len(q) : Class(q[i]) = Class(e)}
      rest == IF older = {} THEN q ELSE RemoveAt(q, CHOOSE i \in older : TRUE)
  IN  IF Len(rest) < MaxEvents THEN Append(rest, e)
      ELSE IF e.kind = "clipboard" THEN rest
      ELSE Append(Tail(rest), e)

(* push_event: under the lock, then FrameWake::notify outside of it. *)
Push(p, kind) ==
  /\ events' = Coalesced(events, [kind |-> kind, of |-> session])
  /\ notify' = [notify EXCEPT ![p] = "swap"]
  /\ UNCHANGED <<frame, pending, wakes>>

Publish(p) ==
  /\ frame' = TRUE
  /\ notify' = [notify EXCEPT ![p] = "swap"]
  /\ UNCHANGED <<events, pending, wakes>>

Quiet == UNCHANGED <<mailbox, waking>>

Swap(p) ==
  /\ notify[p] = "swap"
  /\ pending' = TRUE
  /\ notify' = [notify EXCEPT ![p] = IF pending THEN "none" ELSE "send"]
  /\ UNCHANGED <<highPerformance, loop, mailbox, wakes, pipeline, stops, flags, screen>>

SendWake(p) ==
  /\ notify[p] = "send"
  /\ wakes' = wakes + 1
  /\ notify' = [notify EXCEPT ![p] = "none"]
  /\ UNCHANGED <<highPerformance, loop, mailbox, pending, pipeline, stops, flags, screen>>

Notify(p) == Swap(p) \/ SendWake(p)

-----------------------------------------------------------------------------
(* The worker: run_receiver *)

At(pc) == worker = pc /\ notify[Receiver] = "none"
Go(pc) == worker' = pc
Outside == UNCHANGED <<highPerformance, pipeline, flags, screen>>
Fail == Push(Receiver, "failed") /\ Go("exit")

Top ==
  /\ At("top")
  /\ IF cancel
     THEN Quiet /\ Go("exit")
     ELSE Push(Receiver, IF reconnecting THEN "reconnecting" ELSE "connecting") /\ Go("connect")
  /\ Outside /\ UNCHANGED <<after, attempts, reconnecting, session, avc, elapsed, stops>>

(* No decoder for video on this platform: the worker ends before it        *)
(* connects.                                                               *)
RefuseQuality ==
  /\ At("top")
  /\ highPerformance /\ ~reconnecting /\ attempts = 0
  /\ Fail
  /\ Outside /\ UNCHANGED <<after, attempts, reconnecting, session, avc, elapsed, stops>>

GivesUpLate(n) == n > MaxAttempts
GivesUp(n) == n >= MaxAttempts
ConnectFails ==
  /\ At("connect")
  /\ attempts' = attempts + 1
  /\ IF GivesUp(attempts')
     THEN Fail /\ UNCHANGED reconnecting
     ELSE Quiet /\ Go("retry") /\ reconnecting' = TRUE
  /\ Outside /\ UNCHANGED <<after, session, avc, elapsed, stops>>

Connects ==
  /\ At("connect")
  /\ session < MaxSessions
  /\ session' = session + 1
  /\ Go("register") /\ Quiet
  /\ Outside /\ UNCHANGED <<after, attempts, reconnecting, avc, elapsed, stops>>

(* The socket's handle is put where disconnect finds it, and a session for *)
(* video gets a read timeout; either may fail.                             *)
Register ==
  /\ At("register")
  /\ handle' = session
  /\ attempts' = 0 /\ reconnecting' = TRUE /\ elapsed' = FALSE
  /\ Go("announce") /\ Quiet
  /\ UNCHANGED <<highPerformance, after, session, avc, pipeline, stops, cancel, registered,
                 shut, screen>>

RegisterFails ==
  /\ At("register")
  /\ Fail
  /\ \/ UNCHANGED handle
     \/ highPerformance /\ handle' = session
  /\ UNCHANGED <<highPerformance, after, attempts, reconnecting, session, avc, elapsed,
                 pipeline, stops, cancel, registered, shut, screen>>

Announce ==
  /\ \/ At("announce") /\ Push(Receiver, "input") /\ Go("announced")
     \/ At("announced") /\ Push(Receiver, "connected") /\ Go("loop")
  /\ Outside /\ UNCHANGED <<after, attempts, reconnecting, session, avc, elapsed, stops>>

(* Set the stop flag of the pipeline it holds, if any, then join it. *)
StopPipeline(then) ==
  /\ stops' = stops \cup ({avc} \ {0})
  /\ Go("join") /\ after' = then

CheckCancel ==
  /\ At("loop")
  /\ IF cancel
     THEN StopPipeline("exit")
     ELSE Go("event") /\ UNCHANGED <<after, stops>>
  /\ Quiet
  /\ Outside /\ UNCHANGED <<attempts, reconnecting, session, avc, elapsed>>

(* The new pipeline, if one was asked for, starts after the old one ended. *)
Started == Cardinality({g \in Pipelines : pipeline[g] # "none"})
JoinedAtOnce(g) == TRUE
Joined(g) == g # 0 => pipeline[g] = "exit" /\ notify[g] = "none"
Join ==
  /\ At("join")
  /\ Joined(avc)
  /\ IF after = "spawn"
     THEN /\ avc' = Started + 1
          /\ pipeline' = [pipeline EXCEPT ![Started + 1] = "run"]
          /\ Go("publish")
     ELSE avc' = 0 /\ UNCHANGED pipeline /\ Go(after)
  /\ after' = "exit"
  /\ Quiet
  /\ UNCHANGED <<highPerformance, attempts, reconnecting, session, elapsed, stops,
                 flags, screen>>

RegisterPipeline ==
  /\ At("publish")
  /\ registered' = avc
  /\ Go("loop") /\ Quiet
  /\ UNCHANGED <<highPerformance, after, attempts, reconnecting, session, avc, elapsed,
                 pipeline, stops, cancel, handle, shut, screen>>

(* next_event returns a picture.  A session for video shows none of them,  *)
(* and fails when its media stream has not been negotiated in time.        *)
TooLateNever == FALSE
TooLate == highPerformance /\ elapsed /\ avc = 0
FrameArrives ==
  /\ At("event")
  /\ IF TooLate THEN Fail
     ELSE /\ Go("loop")
          /\ IF highPerformance THEN Quiet ELSE Publish(Receiver) \/ Push(Receiver, "render")
  /\ Outside /\ UNCHANGED <<after, attempts, reconnecting, session, avc, elapsed, stops>>

(* Clipboard text, or an event that changes nothing here. *)
ClipboardArrives ==
  /\ At("event")
  /\ Push(Receiver, "clipboard") \/ Quiet
  /\ Go("loop")
  /\ Outside /\ UNCHANGED <<after, attempts, reconnecting, session, avc, elapsed, stops>>

MediaArrives ==
  /\ At("event")
  /\ highPerformance /\ Started < MaxPipelines
  /\ \/ Fail /\ UNCHANGED <<after, stops>>
     \/ Quiet /\ StopPipeline("spawn")
  /\ Outside /\ UNCHANGED <<attempts, reconnecting, session, avc, elapsed>>

(* The read fails: the server is gone, disconnect shut the socket down, or *)
(* the read timeout of the negotiation passed.                             *)
NextEventFails ==
  /\ At("event")
  /\ IF TooLate
     THEN Fail /\ UNCHANGED <<after, stops>>
     ELSE Quiet /\ StopPipeline("forget")
  /\ Outside /\ UNCHANGED <<attempts, reconnecting, session, avc, elapsed>>

ForgetPipeline ==
  /\ At("forget")
  /\ registered' = 0
  /\ Go("lost") /\ Quiet
  /\ UNCHANGED <<highPerformance, after, attempts, reconnecting, session, avc, elapsed,
                 pipeline, stops, cancel, handle, shut, screen>>

Lost ==
  /\ At("lost")
  /\ Push(Receiver, "disconnected") /\ Go("retry")
  /\ Outside /\ UNCHANGED <<after, attempts, reconnecting, session, avc, elapsed, stops>>

(* wait_for_retry *)
WaitForRetry ==
  /\ At("retry")
  /\ \/ cancel /\ Go("exit")
     \/ Go("top")
  /\ Quiet
  /\ Outside /\ UNCHANGED <<after, attempts, reconnecting, session, avc, elapsed, stops>>

(* The clock matters until the session has its pipeline. *)
TimePasses ==
  /\ highPerformance /\ ~elapsed /\ avc = 0
  /\ worker \in {"announce", "announced", "loop", "event", "join", "publish"}
  /\ elapsed' = TRUE
  /\ UNCHANGED <<highPerformance, worker, after, attempts, reconnecting, session, avc,
                 mailbox, waking, pipeline, stops, flags, screen>>

(* What the worker does on its own, a connection attempt included. *)
Work ==
  \/ Top \/ ConnectFails \/ Register \/ Announce \/ CheckCancel \/ Join \/ RegisterPipeline
  \/ ForgetPipeline \/ Lost \/ WaitForRetry

-----------------------------------------------------------------------------
(* The pipeline threads *)

(* A picture, with the news that it works again if it had failed before, or *)
(* a failure.                                                              *)
Show(g) ==
  /\ frame' = TRUE
  /\ \/ UNCHANGED events
     \/ events' = Coalesced(events, [kind |-> "render", of |-> session])
  /\ notify' = [notify EXCEPT ![g] = "swap"]
  /\ UNCHANGED <<pending, wakes>>

OnFrame(g) == Show(g) \/ Push(g, "render") \/ Quiet

(* It checks its stop flag between two packets, and may give up on its own. *)
PipelineWorks(g) ==
  /\ pipeline[g] = "run" /\ notify[g] = "none"
  /\ IF g \in stops
     THEN Quiet /\ pipeline' = [pipeline EXCEPT ![g] = "flush"]
     ELSE OnFrame(g) /\ pipeline' \in {pipeline, [pipeline EXCEPT ![g] = "flush"]}
  /\ UNCHANGED <<highPerformance, loop, stops, flags, screen>>

(* What the decoder still holds is shown before the thread ends. *)
PipelineFlushes(g) ==
  /\ pipeline[g] = "flush" /\ notify[g] = "none"
  /\ OnFrame(g)
  /\ pipeline' = [pipeline EXCEPT ![g] = "exit"]
  /\ UNCHANGED <<highPerformance, loop, stops, flags, screen>>

Pipeline(g) == PipelineWorks(g) \/ PipelineFlushes(g)

-----------------------------------------------------------------------------
(* The UI thread *)

UiOnly == UNCHANGED <<highPerformance, loop, pipeline, stops>>

WakeUp ==
  /\ ui = "idle" /\ wakes > 0
  /\ wakes' = wakes - 1
  /\ ui' = "poll"
  /\ UiOnly /\ UNCHANGED <<mailbox, pending, notify, flags, shown, input>>

AcknowledgeNothing ==
  /\ ui = "poll"
  /\ ui' = "drain"
  /\ UiOnly /\ UNCHANGED <<mailbox, waking, flags, shown, input>>
Acknowledge ==
  /\ ui = "poll"
  /\ pending' = FALSE
  /\ ui' = "drain"
  /\ UiOnly /\ UNCHANGED <<mailbox, wakes, notify, flags, shown, input>>

(* handle_session_event, one drained event after the other: the last state *)
(* is shown; the last session to send input to stays unless a loss follows.*)
Losses == {"disconnected", "reconnecting", "failed"}
LastOf(q, kinds) ==
  {i \in 1 .. Len(q) : q[i].kind \in kinds /\ \A j \in i + 1 .. Len(q) : q[j].kind \notin kinds}
ShownAfter(q) ==
  LET last == LastOf(q, States)
  IN  IF last = {} THEN shown ELSE q[CHOOSE i \in last : TRUE]
InputAfter(q) ==
  LET last == LastOf(q, Losses \cup {"input"})
      e == q[CHOOSE i \in last : TRUE]
  IN  IF last = {} THEN input ELSE IF e.kind = "input" THEN e.of ELSE 0

Drain ==
  /\ ui = "drain"
  /\ events' = <<>>
  /\ shown' = ShownAfter(events) /\ input' = InputAfter(events)
  /\ ui' = "draw"
  /\ UiOnly /\ UNCHANGED <<frame, waking, flags>>

Draw ==
  /\ ui = "draw"
  /\ frame' = FALSE
  /\ ui' = "idle"
  /\ UiOnly /\ UNCHANGED <<events, waking, flags, shown, input>>

(* SessionRuntime::disconnect: cancel, stop the registered pipeline, shut  *)
(* the registered socket down, join the worker.                            *)
Disconnect ==
  /\ ui = "idle"
  /\ cancel' = TRUE
  /\ ui' = "flag"
  /\ UiOnly /\ UNCHANGED <<mailbox, waking, handle, registered, shut, shown, input>>

TakeStopUnset ==
  /\ ui = "flag"
  /\ registered' = 0
  /\ ui' = "unblock"
  /\ UiOnly /\ UNCHANGED <<mailbox, waking, cancel, handle, shut, shown, input>>
TakeStop ==
  /\ ui = "flag"
  /\ stops' = stops \cup ({registered} \ {0})
  /\ registered' = 0
  /\ ui' = "unblock"
  /\ UNCHANGED <<highPerformance, loop, pipeline, mailbox, waking, cancel, handle, shut, shown,
                 input>>

UnblockNothing ==
  /\ ui = "unblock"
  /\ handle' = 0
  /\ ui' = "join"
  /\ UiOnly /\ UNCHANGED <<mailbox, waking, cancel, registered, shut, shown, input>>
Unblock ==
  /\ ui = "unblock"
  /\ shut' = shut \cup ({handle} \ {0})
  /\ handle' = 0
  /\ ui' = "join"
  /\ UiOnly /\ UNCHANGED <<mailbox, waking, cancel, registered, shown, input>>

(* The window then forgets the runtime and its input. *)
JoinWorker ==
  /\ ui = "join"
  /\ At("exit")
  /\ ui' = "gone"
  /\ shown' = [kind |-> "idle", of |-> session] /\ input' = 0
  /\ UiOnly /\ UNCHANGED <<mailbox, waking, flags>>

Ui == WakeUp \/ Acknowledge \/ Drain \/ Draw \/ TakeStop \/ Unblock \/ JoinWorker

-----------------------------------------------------------------------------
Next ==
  \/ Work \/ RefuseQuality \/ Connects \/ RegisterFails
  \/ FrameArrives \/ ClipboardArrives \/ MediaArrives \/ NextEventFails
  \/ TimePasses
  \/ \E p \in Producers : Notify(p)
  \/ \E g \in Pipelines : Pipeline(g)
  \/ Ui \/ Disconnect

Spec == Init /\ [][Next]_vars

(* Threads run and the clock ticks; connect has timeouts, and fails by them *)
(* if nothing else.  A read of a socket that was shut down returns.  Once  *)
(* the negotiation is overdue, a read times out or brings a picture sooner *)
(* or later: only a server that sends clipboard text for ever keeps both   *)
(* from happening.  Nothing makes a server send or a user disconnect.      *)
ReadReturns == session \in shut /\ NextEventFails
Overdue == TooLate /\ (FrameArrives \/ NextEventFails)

Fairness ==
  /\ WF_vars(Work \/ ReadReturns \/ Notify(Receiver))
  /\ \A g \in Pipelines : WF_vars(Pipeline(g) \/ Notify(g))
  /\ WF_vars(Ui)
  /\ WF_vars(TimePasses)
  /\ SF_vars(Overdue)

FairSpec == Spec /\ Fairness

-----------------------------------------------------------------------------
(* Properties *)

(* What the window shows and where its input goes agree, although a queued *)
(* event may be replaced by a newer one of its class and the window drains *)
(* between any two of them: a window that shows a connection sends its     *)
(* input to that very one, and one that shows a loss sends none, unless it *)
(* already has that of a later connection.                                 *)
ShownInputAgrees ==
  /\ shown.kind = "connected" => input = shown.of
  /\ shown.kind \in Losses =>
       input = 0 \/ input > shown.of

(* No wake-up is lost: while the mailbox holds an event or a picture, a    *)
(* message for the UI is in the channel, or somebody is about to send it,  *)
(* or the UI is about to look.                                             *)
Coming == wakes > 0 \/ \E p \in Producers : notify[p] # "none"
MailboxWakes ==
  ui \in {"idle", "poll", "drain", "draw"} =>
    /\ events # <<>> => Coming \/ ui \in {"poll", "drain"}
    /\ frame => Coming \/ ui \in {"poll", "drain", "draw"}

(* One video pipeline at a time: two would fight over the mailbox and the  *)
(* decoder.  While no session is up, there is none at all.                 *)
Running == {g \in Pipelines : pipeline[g] \in {"run", "flush"}}
OnePipeline ==
  /\ Cardinality(Running) <= 1
  /\ worker \in {"top", "connect", "retry", "lost"} => Running = {}

(* When disconnect returns, the worker has ended and no pipeline is left   *)
(* that has not been told to stop, whatever the worker was doing.          *)
NothingOutlives == ui = "gone" => worker = "exit" /\ Running \subseteq stops

(* A worker that ends without having been cancelled has told the user why, *)
(* or is about to: the last state shown will be a failure.                 *)
ExitExplained ==
  worker = "exit" /\ ~cancel =>
    \/ \E i \in 1 .. Len(events) : events[i].kind = "failed"
    \/ shown.kind = "failed"

(* disconnect always returns: cancel, flag and socket reach the worker     *)
(* wherever it is, and what it waits for ends.                             *)
DisconnectReturns == cancel ~> ui = "gone"

(* A session for video never stays without video: in the end it has a      *)
(* pipeline, or it has failed or lost its connection.                      *)
Negotiating == highPerformance /\ avc = 0 /\ worker \in {"loop", "event"}
NegotiationDecided == Negotiating ~> avc # 0 \/ worker \in {"lost", "exit"}
=============================================================================
