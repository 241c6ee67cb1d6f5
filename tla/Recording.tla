------------------------------ MODULE Recording ------------------------------
(***************************************************************************)
(* Recording a session to movie files (ard-viewer: recording/mod.rs, the   *)
(* capture tap recording/tap.rs, session_renderer.rs and main.rs).         *)
(*                                                                         *)
(* Three parties share a take.  The UI thread starts it, asks it to stop,  *)
(* looks at it on every tick and, being also the render thread, copies     *)
(* what it draws into a staging buffer; the buffer can only be mapped at   *)
(* the next draw.  The GPU completes mappings in the order they were asked *)
(* for and then hands the frame to the channel of its take.  The recording *)
(* thread takes frames from the channel, encodes them, starts a new file   *)
(* when the layout changes and gives the buffer back to its pool.          *)
(*                                                                         *)
(* A picture is a number, its layout comes with it; pixels, positions on   *)
(* the timeline and byte counts are left out.  Faults (a mapping or an     *)
(* encoder call that fails, a picture the encoder drops without a word)    *)
(* are bounded by MaxFaults.                                               *)
(***************************************************************************)
EXTENDS Naturals, FiniteSets, Sequences, SequencesExt

CONSTANTS
  Layouts,        \* sizes and pixel formats of pictures
  PoolLimit,      \* staging buffers of one pool (MIN.. to MAX_STAGING_BUFFERS)
  MaxTakes,       \* bound: takes started
  MaxPictures,    \* bound: pictures one session shows
  MaxSessions,    \* bound: session windows opened
  MaxFaults       \* bound: mappings and encoder calls that go wrong

ASSUME RecordingAssumption ==
  /\ Layouts # {} /\ "none" \notin Layouts
  /\ PoolLimit \in Nat \ {0} /\ MaxTakes \in Nat \ {0}
  /\ MaxPictures \in Nat /\ MaxSessions \in Nat /\ MaxFaults \in Nat

VARIABLES
  ui,        \* the application: its phase, its Recorder, its session window
  screen,    \* the picture in the presentation texture (0: none)
  presented, \* presented_frame: an upload no draw has handed to the tap yet
  control,   \* RecordingControl.take: the take the renderer sees (0: none)
  takes,     \* the Take and its RecordingStats, by take id; latest: the last
             \* picture captured for it
  tap,       \* RecordingTap
  pools,     \* every StagingPool made so far
  mapping,   \* map_async requests the GPU has not completed
  channel,   \* frames on their way to the recording thread
  thread,    \* run_recording
  movie,     \* RecordingState: the open segment
  files,     \* the movie files in the recording directory, by <<index, segment>>
  faults

vars == <<ui, screen, presented, control, takes, tap, pools, mapping, channel,
          thread, movie, files, faults>>
gpuVars == <<mapping, channel>>
rendererVars == <<screen, presented, tap>>
threadVars == <<thread, movie, files>>

NoTake == 0
TakeIds == 1 .. MaxTakes
Pictures == [picture : 1 .. MaxPictures, layout : Layouts, take : TakeIds]
Nothing == [picture |-> 0, layout |-> "none"]

-----------------------------------------------------------------------------
(* Initial state: no session window yet.                                    *)

NewTake == [stopping |-> FALSE, finished |-> FALSE, failed |-> FALSE,
            latest |-> 0, dropped |-> 0]
NoThread == [take |-> NoTake, state |-> "none", quiet |-> "no", inHand |-> <<>>]
NoTap == [take |-> NoTake, layout |-> "none", pool |-> 0, awaiting |-> FALSE, pending |-> <<>>]
NoMovie == [index |-> 0, number |-> 1, layout |-> "none", held |-> <<>>, segments |-> <<>>]

Init ==
  /\ ui = [phase |-> "running", recorder |-> NoTake, stopAsked |-> FALSE,
           session |-> FALSE, sessions |-> 0, started |-> 0]
  /\ screen = Nothing /\ presented = FALSE
  /\ control = NoTake
  /\ takes = [t \in TakeIds |-> NewTake]
  /\ tap = NoTap
  /\ pools = <<>> /\ mapping = <<>> /\ channel = <<>>
  /\ thread = NoThread /\ movie = NoMovie /\ files = <<>> /\ faults = 0

-----------------------------------------------------------------------------
(* The UI: starting, stopping and finishing a take; windows.                *)

NextIndexOfSplitMovies ==
  CHOOSE i \in 1 .. MaxTakes + 1 :
    /\ <<i, 2>> \notin DOMAIN files
    /\ \A j \in 1 .. i - 1 : <<j, 2>> \in DOMAIN files

\* First index whose first segment has no file yet.
NextIndex ==
  CHOOSE i \in 1 .. MaxTakes + 1 :
    /\ <<i, 1>> \notin DOMAIN files
    /\ \A j \in 1 .. i - 1 : <<j, 1>> \in DOMAIN files

\* ToggleRecording with no Recorder: the take is published, then its thread runs.
StartRecording ==
  /\ ui.phase = "running" /\ ui.session
  /\ ui.recorder = NoTake /\ ui.started < MaxTakes
  /\ LET t == ui.started + 1
     IN /\ control' = t
        /\ ui' = [ui EXCEPT !.recorder = t, !.stopAsked = FALSE, !.started = t]
        /\ thread' = [take |-> t, state |-> "receiving", quiet |-> "no", inHand |-> <<>>]
        /\ movie' = [NoMovie EXCEPT !.index = NextIndex]
  /\ UNCHANGED <<takes, pools, files, faults, rendererVars, gpuVars>>

\* The thread could not be spawned: the take is published and taken back.
StartRefused ==
  /\ ui.phase = "running" /\ ui.session
  /\ ui.recorder = NoTake /\ ui.started < MaxTakes /\ faults < MaxFaults
  /\ control' = NoTake
  /\ ui' = [ui EXCEPT !.started = @ + 1]
  /\ faults' = faults + 1
  /\ UNCHANGED <<takes, pools, threadVars, rendererVars, gpuVars>>

\* RecordingControl::request_stop: whichever take is published.
RequestStop == IF control = NoTake THEN takes ELSE [takes EXCEPT ![control].stopping = TRUE]

StopAsked == ui.recorder # NoTake /\ ~ui.stopAsked

\* stop_recording: asked once, answered by a later tick.
StopRecording ==
  /\ ui.phase = "running" /\ StopAsked
  /\ takes' = RequestStop
  /\ ui' = [ui EXCEPT !.stopAsked = TRUE]
  /\ UNCHANGED <<control, pools, faults, threadVars, rendererVars, gpuVars>>

\* poll_recording on a tick, which needs a session window; complete_recording
\* drops the Recorder, which asks the published take to stop once more.
Poll ==
  /\ ui.phase = "running" /\ ui.session /\ ui.recorder # NoTake
  /\ takes[ui.recorder].finished
  /\ takes' = RequestStop
  /\ ui' = [ui EXCEPT !.recorder = NoTake, !.stopAsked = FALSE]
  /\ UNCHANGED <<control, pools, faults, threadVars, rendererVars, gpuVars>>

Disconnect(next) ==
  /\ takes' = IF StopAsked THEN RequestStop ELSE takes
  /\ ui' = [next EXCEPT !.stopAsked = @ \/ StopAsked]

\* start_session: the old session's textures go with it.
OpenSession ==
  /\ ui.phase = "running" /\ ui.sessions < MaxSessions
  /\ Disconnect([ui EXCEPT !.session = TRUE, !.sessions = @ + 1])
  /\ screen' = Nothing /\ presented' = FALSE
  /\ UNCHANGED <<control, tap, pools, faults, threadVars, gpuVars>>

CloseSession ==
  /\ ui.phase = "running" /\ ui.session
  /\ Disconnect([ui EXCEPT !.session = FALSE])
  /\ UNCHANGED <<control, pools, faults, threadVars, rendererVars, gpuVars>>

\* The last window closes; dropping the Recorder blocks the UI thread.
Quit ==
  /\ ui.phase = "running"
  /\ Disconnect([ui EXCEPT !.phase = "quitting", !.session = FALSE])
  /\ UNCHANGED <<control, pools, faults, threadVars, rendererVars, gpuVars>>

\* wait_for_finish: the thread is joined, or detached after FINALIZE_TIMEOUT;
\* either way the process ends, and its files remain.
Leave ==
  /\ ui.phase = "quitting"
  /\ \/ /\ ui.recorder # NoTake => takes[ui.recorder].finished
        /\ UNCHANGED faults
     \/ /\ ui.recorder \in {t \in TakeIds : ~takes[t].finished}
        /\ faults < MaxFaults
        /\ faults' = faults + 1
  /\ ui' = [ui EXCEPT !.phase = "gone", !.recorder = NoTake, !.stopAsked = FALSE]
  /\ screen' = Nothing /\ presented' = FALSE /\ tap' = NoTap /\ control' = NoTake
  /\ takes' = [t \in TakeIds |-> NewTake]
  /\ pools' = <<>> /\ mapping' = <<>> /\ channel' = <<>>
  /\ thread' = NoThread /\ movie' = NoMovie
  /\ UNCHANGED files

-----------------------------------------------------------------------------
(* One draw of the session window: upload, then capture_recording.          *)

SyncedForNewPictures ==
  IF control = tap.take THEN tap ELSE [NoTap EXCEPT !.take = control]

\* RecordingTap::sync follows the published take.
Synced ==
  IF control = tap.take
  THEN tap
  ELSE [NoTap EXCEPT !.take = control, !.awaiting = control # NoTake]

Capturing(s) == s.take # NoTake /\ ~takes[s.take].stopping

\* The pool of a layout: kept while the layout stays, else a new one.
PoolOf(s, layout) ==
  IF s.pool # 0 /\ s.layout = layout THEN s.pool ELSE Len(pools) + 1
WithPool(p) == IF p > Len(pools) THEN Append(pools, [free |-> <<>>, held |-> <<>>]) ELSE pools

AcquiredPastLimit(pool) ==
  IF pool.free # <<>> THEN Last(pool.free)
  ELSE IF Len(pool.held) > PoolLimit THEN 0 ELSE Len(pool.held) + 1

\* StagingPool::acquire, then the copy into the buffer; 0 when all are in flight.
Acquired(pool) ==
  IF pool.free # <<>> THEN Last(pool.free)
  ELSE IF Len(pool.held) >= PoolLimit THEN 0 ELSE Len(pool.held) + 1
Filled(pool, b, frame) ==
  IF b \in DOMAIN pool.held
  THEN [free |-> Front(pool.free), held |-> [pool.held EXCEPT ![b] = frame]]
  ELSE [pool EXCEPT !.held = Append(@, frame)]

\* RecordingTap::capture of what is on screen.
Capture(s, shown) ==
  LET p == PoolOf(s, shown.layout)
      made == WithPool(p)
      b == Acquired(made[p])
      frame == [picture |-> shown.picture, layout |-> shown.layout, take |-> s.take]
      synced == [s EXCEPT !.awaiting = FALSE, !.layout = shown.layout, !.pool = p]
  IN IF b = 0
     THEN /\ takes' = [takes EXCEPT ![s.take].dropped = @ + 1]
          /\ pools' = made
          /\ tap' = [synced EXCEPT !.pending = <<>>]
     ELSE /\ takes' = [takes EXCEPT ![s.take].latest = shown.picture]
          /\ pools' = [made EXCEPT ![p] = Filled(@, b, frame)]
          /\ tap' = [synced EXCEPT !.pending = <<[pool |-> p, buffer |-> b, frame |-> frame]>>]

\* A redraw, with a new picture of some layout or without ("none").
Draw(upload) ==
  /\ ui.phase = "running" /\ ui.session
  /\ LET shown == IF upload = "none" THEN screen
                  ELSE [picture |-> screen.picture + 1, layout |-> upload]
         fresh == presented \/ upload # "none"
         s == Synced
     IN /\ screen' = shown
        /\ mapping' = mapping \o tap.pending
        /\ IF ~Capturing(s)
           THEN /\ presented' = fresh
                /\ tap' = [s EXCEPT !.pending = <<>>]
                /\ UNCHANGED <<takes, pools>>
           ELSE /\ presented' = FALSE
                /\ IF (s.awaiting \/ fresh) /\ shown.picture # 0
                   THEN Capture(s, shown)
                   ELSE /\ tap' = [s EXCEPT !.awaiting = FALSE, !.pending = <<>>]
                        /\ UNCHANGED <<takes, pools>>
  /\ UNCHANGED <<ui, control, channel, faults, threadVars>>

-----------------------------------------------------------------------------
(* The GPU.                                                                 *)

Released(c) == [pools EXCEPT ![c.pool].free = Append(@, c.buffer)]
ListeningAtAll(t) == thread.state # "done"
Listening(t) == thread.take = t /\ thread.state # "done"

\* The oldest mapping completes: the frame goes to its take's channel; with
\* nobody at the other end the callback gives the buffer back itself; a mapping
\* that failed only counts a dropped frame.
MapCompletes ==
  /\ ui.phase # "gone" /\ mapping # <<>>
  /\ mapping' = Tail(mapping)
  /\ LET c == Head(mapping) IN
     \/ /\ Listening(c.frame.take)
        /\ channel' = Append(channel, c)
        /\ UNCHANGED <<takes, pools, faults>>
     \/ /\ ~Listening(c.frame.take)
        /\ pools' = Released(c)
        /\ UNCHANGED <<takes, channel, faults>>
     \/ /\ faults < MaxFaults
        /\ faults' = faults + 1
        /\ takes' = [takes EXCEPT ![c.frame.take].dropped = @ + 1]
        /\ UNCHANGED <<pools, channel>>
  /\ UNCHANGED <<ui, control, rendererVars, threadVars>>

-----------------------------------------------------------------------------
(* The recording thread.                                                    *)

Path(m) == <<m.index, m.number>>
WithFile(fs, path, file) == [p \in DOMAIN fs \cup {path} |-> IF p = path THEN file ELSE fs[p]]

\* The encoder holds one picture back until the next one tells how long it was
\* shown; what it is given may come out as nothing (a dropped picture).
Encoded(fs, m, dropped) ==
  IF dropped \/ m.held = <<>> THEN fs
  ELSE [fs EXCEPT ![Path(m)].frames = @ \o m.held]

ClosedKeepingEmpty(fs, m, dropped) ==
  IF m.layout = "none" THEN [files |-> fs, movie |-> m]
  ELSE LET full == Encoded(fs, m, dropped)
           shut == [m EXCEPT !.layout = "none", !.held = <<>>, !.number = @ + 1]
       IN IF full[Path(m)].frames = <<>> THEN [files |-> fs, movie |-> shut]
          ELSE [files |-> [full EXCEPT ![Path(m)].final = TRUE],
                movie |-> [shut EXCEPT !.segments = Append(@, m.number)]]

\* close_segment: flush, then the movie index; a file without samples is removed.
Closed(fs, m, dropped) ==
  IF m.layout = "none" THEN [files |-> fs, movie |-> m]
  ELSE LET full == Encoded(fs, m, dropped)
           empty == full[Path(m)].frames = <<>>
           shut == [m EXCEPT !.layout = "none", !.held = <<>>]
       IN IF empty
          THEN [files |-> [p \in DOMAIN fs \ {Path(m)} |-> fs[p]], movie |-> shut]
          ELSE [files |-> [full EXCEPT ![Path(m)].final = TRUE],
                movie |-> [shut EXCEPT !.segments = Append(@, m.number), !.number = @ + 1]]

\* Segment::start: the file is created anew, whatever is there.
Started(c, layout) ==
  [files |-> WithFile(c.files, Path(c.movie), [frames |-> <<>>, final |-> FALSE]),
   movie |-> [c.movie EXCEPT !.layout = layout]]

Ended(t, failed) == [takes EXCEPT ![t].finished = TRUE, ![t].failed = failed]

\* mark_finished with an error and return: nothing is closed any more and the
\* frames in the channel go with its receiver.
Fail ==
  /\ takes' = Ended(thread.take, TRUE)
  /\ thread' = [thread EXCEPT !.state = "done", !.inHand = <<>>]
  /\ channel' = <<>>
  /\ faults < MaxFaults /\ faults' = faults + 1

ReceiveAndRelease ==
  /\ thread.state = "receiving" /\ channel # <<>>
  /\ thread' = [thread EXCEPT !.state = "pushing", !.quiet = "no", !.inHand = <<Head(channel)>>]
  /\ channel' = Tail(channel)
  /\ pools' = Released(Head(channel))
  /\ UNCHANGED <<takes, movie, files, faults>>
Receive ==
  /\ thread.state = "receiving" /\ channel # <<>>
  /\ thread' = [thread EXCEPT !.state = "pushing", !.quiet = "no", !.inHand = <<Head(channel)>>]
  /\ channel' = Tail(channel)
  /\ UNCHANGED <<takes, pools, movie, files, faults>>

\* RecordingState::push: what the buffer holds now is what is encoded.
Push(dropped) ==
  /\ thread.state = "pushing"
  /\ LET c == thread.inHand[1]
         frame == pools[c.pool].held[c.buffer]
         next == IF movie.layout # frame.layout
                 THEN Started(Closed(files, movie, dropped), frame.layout)
                 ELSE [files |-> Encoded(files, movie, dropped), movie |-> movie]
     IN /\ files' = next.files
        /\ movie' = [next.movie EXCEPT !.held = <<frame>>]
        /\ pools' = Released(c)
  /\ thread' = [thread EXCEPT !.state = "receiving", !.inHand = <<>>]
  /\ dropped => faults < MaxFaults /\ movie.held # <<>>
  /\ faults' = IF dropped THEN faults + 1 ELSE faults
  /\ UNCHANGED <<takes, channel>>

\* The segment cannot be closed, or the next one not started: the buffer of the
\* frame in hand is lost to its pool.
SegmentFails ==
  /\ thread.state = "pushing"
  /\ movie.layout # thread.inHand[1].frame.layout
  /\ \/ UNCHANGED files /\ movie' = [movie EXCEPT !.layout = "none", !.held = <<>>]
     \/ LET c == Closed(files, movie, FALSE) IN files' = c.files /\ movie' = c.movie
  /\ Fail
  /\ UNCHANGED pools

\* The encoder refuses the frame, or the file an earlier one.
WriteFails ==
  /\ thread.state \in {"receiving", "pushing"} /\ movie.layout # "none"
  /\ pools' = IF thread.inHand = <<>> THEN pools ELSE Released(thread.inHand[1])
  /\ Fail
  /\ UNCHANGED <<movie, files>>

Quiet == IF takes[thread.take].stopping THEN "since" ELSE "before"

\* STOP_GRACE has passed since idle_since, which is when the last frame came in:
\* before the stop was asked for, or since.
GraceOver ==
  /\ thread.state = "receiving"
  /\ channel = <<>> /\ thread.quiet # Quiet
  /\ thread' = [thread EXCEPT !.quiet = Quiet]
  /\ UNCHANGED <<takes, pools, channel, movie, files, faults>>

ExpireAfterRedraw ==
  /\ thread.state = "receiving" /\ channel = <<>> /\ tap.pending = <<>>
  /\ takes[thread.take].stopping /\ thread.quiet # "no"
  /\ thread' = [thread EXCEPT !.state = "finishing"]
  /\ UNCHANGED <<takes, pools, channel, movie, files, faults>>

\* recv_timeout found nothing, the take is stopping and the channel was quiet.
Expire ==
  /\ thread.state = "receiving" /\ channel = <<>>
  /\ takes[thread.take].stopping /\ thread.quiet # "no"
  /\ thread' = [thread EXCEPT !.state = "finishing"]
  /\ UNCHANGED <<takes, pools, channel, movie, files, faults>>

\* RecordingState::finish and mark_finished.
Finish(dropped) ==
  /\ thread.state = "finishing"
  /\ LET c == Closed(files, movie, dropped)
     IN /\ files' = c.files /\ movie' = c.movie
        /\ takes' = Ended(thread.take, c.movie.segments = <<>>)
  /\ thread' = [thread EXCEPT !.state = "done"]
  /\ channel' = <<>>
  /\ dropped => faults < MaxFaults /\ movie.held # <<>>
  /\ faults' = IF dropped THEN faults + 1 ELSE faults
  /\ UNCHANGED pools

\* The last segment cannot be closed.
FinishFails ==
  /\ thread.state = "finishing" /\ movie.layout # "none"
  /\ movie' = [movie EXCEPT !.layout = "none", !.held = <<>>]
  /\ Fail
  /\ UNCHANGED <<pools, files>>

ThreadStep ==
  \/ Receive \/ GraceOver \/ Expire \/ SegmentFails \/ WriteFails \/ FinishFails
  \/ \E dropped \in BOOLEAN : Push(dropped) \/ Finish(dropped)

ThreadNext ==
  /\ ui.phase # "gone"
  /\ ThreadStep
  /\ UNCHANGED <<ui, control, mapping, rendererVars>>

-----------------------------------------------------------------------------
Uploads == {"none"} \cup (IF screen.picture < MaxPictures THEN Layouts ELSE {})

Next ==
  \/ StartRecording \/ StartRefused \/ StopRecording \/ Poll
  \/ OpenSession \/ CloseSession \/ Quit \/ Leave
  \/ \E upload \in Uploads : Draw(upload)
  \/ MapCompletes
  \/ ThreadNext

Spec == Init /\ [][Next]_vars

\* The thread runs, its clock goes on and it polls the device; nobody promises a
\* redraw, a tick or a user.
Fairness == WF_vars(ThreadNext) /\ WF_vars(MapCompletes)
FairSpec == Spec /\ Fairness

-----------------------------------------------------------------------------
(* Properties.                                                              *)

Captures == [pool : Nat \ {0}, buffer : 1 .. PoolLimit, frame : Pictures]
Files == [frames : Seq(Pictures), final : BOOLEAN]

\* The values of every variable; a pool never holds more buffers than its limit.
TypeOK ==
  /\ ui \in [phase : {"running", "quitting", "gone"}, recorder : TakeIds \cup {NoTake},
             stopAsked : BOOLEAN, session : BOOLEAN, sessions : 0 .. MaxSessions,
             started : 0 .. MaxTakes]
  /\ screen \in [picture : 0 .. MaxPictures, layout : Layouts \cup {"none"}]
  /\ presented \in BOOLEAN
  /\ control \in TakeIds \cup {NoTake}
  /\ takes \in [TakeIds -> [stopping : BOOLEAN, finished : BOOLEAN, failed : BOOLEAN,
                            latest : 0 .. MaxPictures, dropped : Nat]]
  /\ tap \in [take : TakeIds \cup {NoTake}, layout : Layouts \cup {"none"},
              pool : 0 .. Len(pools), awaiting : BOOLEAN, pending : Seq(Captures)]
  /\ pools \in Seq([free : Seq(1 .. PoolLimit), held : Seq(Pictures)])
  /\ \A p \in DOMAIN pools : Len(pools[p].held) <= PoolLimit
  /\ mapping \in Seq(Captures) /\ channel \in Seq(Captures)
  /\ thread \in [take : TakeIds \cup {NoTake}, quiet : {"no", "before", "since"},
                 state : {"none", "receiving", "pushing", "finishing", "done"},
                 inHand : Seq(Captures)]
  /\ movie \in [index : 0 .. MaxTakes, number : Nat \ {0}, layout : Layouts \cup {"none"},
                held : Seq(Pictures), segments : Seq(Nat \ {0})]
  /\ DOMAIN files \subseteq TakeIds \X (Nat \ {0})
  /\ files \in [DOMAIN files -> Files]
  /\ faults \in 0 .. MaxFaults

\* Captures on their way, oldest first.
InFlight == thread.inHand \o channel \o mapping \o tap.pending

\* A staging buffer is in one place only: free in its pool, or on its way to the
\* encoder once, and what is on its way still holds the picture captured into
\* it: no draw writes into a buffer the recording thread has not read.
StagedIntact ==
  /\ \A i \in DOMAIN InFlight :
       LET c == InFlight[i]
       IN /\ pools[c.pool].held[c.buffer] = c.frame
          /\ c.buffer \notin ToSet(pools[c.pool].free)
          /\ \A j \in DOMAIN InFlight :
               InFlight[j].pool = c.pool /\ InFlight[j].buffer = c.buffer => j = i
  /\ \A p \in DOMAIN pools : \A i, j \in DOMAIN pools[p].free :
       pools[p].free[i] = pools[p].free[j] => i = j

Before(frame, later) == frame.take = later.take /\ frame.picture < later.picture

\* Every movie shows pictures of one take, each once and in the order they were
\* on screen, through its segments and on to the frames still on their way, and
\* every segment has one layout only.
MoviesInOrder ==
  /\ \A p, q \in DOMAIN files :
       \A i \in DOMAIN files[p].frames, j \in DOMAIN files[q].frames :
         p[1] = q[1] /\ (p[2] < q[2] \/ (p = q /\ i < j))
           => Before(files[p].frames[i], files[q].frames[j])
  /\ \A p \in DOMAIN files : \A i, j \in DOMAIN files[p].frames :
       files[p].frames[i].layout = files[p].frames[j].layout
  /\ thread.state # "done" =>
       LET own == {i \in DOMAIN InFlight : InFlight[i].frame.take = thread.take}
           held == {movie.held[k] : k \in DOMAIN movie.held}
           filed == UNION {ToSet(files[p].frames) : p \in {q \in DOMAIN files : q[1] = movie.index}}
       IN /\ \A f \in filed, h \in held : Before(f, h)
          /\ \A f \in filed \cup held, i \in own : Before(f, InFlight[i].frame)
          /\ \A i, j \in own : i < j => Before(InFlight[i].frame, InFlight[j].frame)

\* A movie file that has its index is never opened, cut or removed again.
FinishedMoviesStay ==
  [][\A p \in DOMAIN files :
       files[p].final => p \in DOMAIN files' /\ files'[p] = files[p]]_vars

\* A take that ended without an error leaves whole files only, and at least one;
\* and nothing that was captured is missing from them but what was counted as
\* dropped, what the encoder dropped, and what was still staged at the end.
SavedMeansWhole ==
  thread.state = "done" /\ ~takes[thread.take].failed =>
    /\ movie.segments # <<>>
    /\ \A p \in DOMAIN files : p[1] = movie.index => files[p].final
    /\ ToSet(movie.segments) = {p[2] : p \in {q \in DOMAIN files : q[1] = movie.index}}

\* Once a running take has been drawn, the picture on screen is its latest
\* captured one, unless a picture was dropped for want of a buffer: a static
\* screen is recorded too.
ScreenIsRecorded ==
  control # NoTake /\ tap.take = control /\ ~tap.awaiting
  /\ ~takes[control].stopping /\ screen.picture # 0 =>
    \/ takes[control].dropped > 0
    \/ takes[control].latest = screen.picture

\* A take that is asked to stop ends, drawn or not, or the application is gone.
StopEnds ==
  \A t \in TakeIds :
    (takes[t].stopping /\ thread.take = t) ~> (takes[t].finished \/ ui.phase = "gone")
=============================================================================
