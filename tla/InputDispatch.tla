---------------------------- MODULE InputDispatch ----------------------------
(***************************************************************************)
(* The viewer's input path (crates/ard-viewer/src/session_runtime.rs):     *)
(* the UI thread turns window, hook and input-method events into commands  *)
(* on a bounded queue (InputState, InputCommandQueue); a dispatch thread   *)
(* takes them one by one and sends them through the ArdClientInput of the  *)
(* current session, which breaks and is replaced while both threads run.   *)
(*                                                                         *)
(* An action is one critical section of the queue, or of the cells for the *)
(* current input and the last error.  Positions are left out, a key is its *)
(* own keysym, and a session's ArdClientInput is a sink that delivers in   *)
(* order while the session lives (OutboundQueue shows that it does).       *)
(***************************************************************************)
EXTENDS Integers, Sequences, SequencesExt, FiniteSets

CONSTANTS
  Keys, Modifiers,    \* physical keys, and those that are modifier keys
  Buttons,            \* mouse buttons, each a bit of the button mask
  MaxCommands,        \* MAX_INPUT_COMMANDS
  ReleaseReserve,     \* RELEASE_RESERVE
  UserEvents,         \* the kinds of events the user produces
  MaxEvents,          \* bound: user events over the whole behaviour
  MaxSessions         \* bound: connections over the whole behaviour

EventKinds ==
  {"cursor", "button", "wheel", "scroll", "key", "raw", "ime", "combo",
   "shortcut", "paste", "clipboard", "focus"}

ASSUME DispatchAssumption ==
  /\ IsFiniteSet(Keys) /\ "pointer" \notin Keys
  /\ MaxCommands \in Nat \ {0}
  /\ ReleaseReserve \in 0 .. MaxCommands - 1
  /\ Modifiers \subseteq Keys
  /\ UserEvents \subseteq EventKinds
  /\ MaxEvents \in Nat /\ MaxSessions \in Nat

(* InputCommand.  A PointerBatch is a wheel gesture that ends with the     *)
(* buttons as they were; Scroll is the native wheel message.               *)
KeyCommand(down, k) == [kind |-> IF down THEN "press" ELSE "release", key |-> k]
PointerCommand(kind, m) == [kind |-> kind, mask |-> m]
Plain(kind) == [kind |-> kind]

Pointing == {"motion", "pointer", "batch"}
Command ==
  [kind : {"press", "release"}, key : Keys]
  \cup [kind : Pointing, mask : SUBSET Buttons]
  \cup [kind : {"scroll", "clipboard"}]

NoCommand == Plain("none")

VARIABLES
  commands,     \* InputCommandQueueState.commands
  stopped,      \* InputCommandQueueState.stopped
  current,      \* the dispatcher's input cell: a session, or 0 for None
  error,        \* the dispatcher's error cell is set
  thread,       \* where the dispatch thread is
  hand,         \* the command it works on
  target,       \* the session it sends that command to
  pressedKeys, pressedRaw,  \* InputState: keys down, by window and by hook
  suppressed,   \* InputState: <<why, key>> whose release is swallowed
  buttonMask,   \* InputState.button_mask (and pressed_buttons)
  cursor,       \* InputState.cursor is Some
  imeActive,    \* InputState.ime_active
  ui,           \* what the UI thread is in the middle of
  todo,         \* the commands or keys that are left of it
  session,      \* number of the newest session
  alive,        \* it still delivers
  remote,       \* the keys and buttons it holds down on the remote host
  excused,      \* history: the keys, and "pointer", whose release the user
                \* was told was refused, or that changed sessions in hand
  events        \* user events so far

queue  == <<commands, stopped>>
worker == <<thread, hand, target>>
cells  == <<current, error>>
local  == <<pressedKeys, pressedRaw, suppressed, buttonMask, cursor, imeActive>>
link   == <<session, alive, remote>>
calling == <<ui, todo>>
vars == <<queue, worker, cells, local, calling, events, link, excused>>

NothingHeld == [down |-> {}, mask |-> {}]

TypeOK ==
  /\ commands \in Seq(Command) /\ Len(commands) <= MaxCommands
  /\ stopped \in BOOLEAN
  /\ current \in 0 .. MaxSessions /\ error \in BOOLEAN
  /\ thread \in {"receive", "wait", "hand", "send", "failed", "exit"}
  /\ hand \in Command \cup {NoCommand} /\ target \in 0 .. MaxSessions
  /\ pressedKeys \subseteq Keys /\ pressedRaw \subseteq Keys
  /\ suppressed \subseteq {"paste", "shortcut", "ime"} \X Keys
  /\ buttonMask \subseteq Buttons
  /\ cursor \in BOOLEAN /\ imeActive \in BOOLEAN
  /\ ui \in {"ready", "ime", "combo", "shortcut", "release", "clear", "swap", "swapped",
             "forget", "gone"}
  /\ session \in 0 .. MaxSessions /\ alive \in BOOLEAN
  /\ remote \in [down : SUBSET Keys, mask : SUBSET Buttons]
  /\ excused \subseteq {"told", "crossed"} \X (Keys \cup {"pointer"})
  /\ events \in 0 .. MaxEvents

Init ==
  /\ commands = <<>> /\ stopped = FALSE
  /\ current = 0 /\ error = FALSE
  /\ thread = "receive" /\ hand = NoCommand /\ target = 0
  /\ pressedKeys = {} /\ pressedRaw = {} /\ suppressed = {}
  /\ buttonMask = {} /\ cursor = FALSE /\ imeActive = FALSE
  /\ ui = "ready" /\ todo = <<>>
  /\ session = 0 /\ alive = FALSE /\ remote = NothingHeld
  /\ excused = {} /\ events = 0

-----------------------------------------------------------------------------
(* The queue *)

IsRelease(c) ==
  \/ c.kind = "release"
  \/ c.kind \in {"pointer", "batch"} /\ c.mask = {}

LimitPastEnd(c) == IF IsRelease(c) THEN MaxCommands + 1 ELSE MaxCommands - ReleaseReserve
Limit(c) == IF IsRelease(c) THEN MaxCommands ELSE MaxCommands - ReleaseReserve

(* A queued position gives way to any newer pointer command. *)
CoalescedNever(q, c) == q
Coalesced(q, c) ==
  IF /\ q # <<>> /\ Last(q).kind = "motion"
     /\ c.kind \in {"motion", "pointer", "batch", "scroll"}
  THEN Front(q) ELSE q

(* The oldest command that may be dropped for a release. *)
Droppable(q) == {i \in 1 .. Len(q) : ~IsRelease(q[i])}
EvictOldest(q) == Tail(q)
Evict(q) == LET i == CHOOSE i \in Droppable(q) : \A j \in Droppable(q) : i <= j
            IN  SubSeq(q, 1, i - 1) \o SubSeq(q, i + 1, Len(q))

(* InputCommandQueue::submit: the queue c ends up in, if it is accepted.   *)
(* A motion takes the place of the one at the back whatever the length.    *)
InPlace(q, c) == c.kind = "motion" /\ q # <<>> /\ Last(q).kind = "motion"
Fits(q, c) == Len(Coalesced(q, c)) < Limit(c)
MakesRoom(q, c) == IsRelease(c) /\ Droppable(Coalesced(q, c)) # {}
Accepts(q, c) == InPlace(q, c) \/ Fits(q, c) \/ MakesRoom(q, c)
Pushed(q, c) ==
  IF InPlace(q, c) \/ Fits(q, c)
  THEN Append(Coalesced(q, c), c)
  ELSE Append(Evict(Coalesced(q, c)), c)

(* What a release lets go of. *)
Releases(c) ==
  IF IsRelease(c) THEN {IF c.kind = "release" THEN c.key ELSE "pointer"} ELSE {}

(* InputDispatcher::submit: a pending error is handed to the caller, and   *)
(* the command with it is not queued.  An error the caller shows to the    *)
(* user excuses the releases it owed.                                      *)
Accepted(c) == ~error /\ Accepts(commands, c)
WakeThread == thread' = IF thread = "wait" THEN "receive" ELSE thread
SubmitOwing(c, owed) ==
  /\ error' = FALSE
  /\ IF Accepted(c)
     THEN /\ commands' = Pushed(commands, c)
          /\ IF InPlace(commands, c) THEN UNCHANGED thread ELSE WakeThread
          /\ excused' = excused \ ({"told", "crossed"} \X Releases(c))
     ELSE /\ commands' = IF error THEN commands ELSE Coalesced(commands, c)
          /\ UNCHANGED thread
          /\ excused' = excused \cup ({"told"} \X owed)
  /\ UNCHANGED <<stopped, current, hand, target>>
Submit(c) == SubmitOwing(c, Releases(c))
SubmitSilently(c) == SubmitOwing(c, {})

NoSubmit == UNCHANGED <<queue, worker, cells, excused>>

-----------------------------------------------------------------------------
(* User events: InputState::handle and its helpers.  Each counts towards   *)
(* the bound and starts only when the UI thread is not in another one.     *)

Event(kind) ==
  /\ kind \in UserEvents
  /\ ui = "ready"
  /\ events < MaxEvents
  /\ events' = events + 1
  /\ UNCHANGED link

(* A position inside the remote picture is sent once a session is there.   *)
CursorMoved(inside) ==
  /\ Event("cursor")
  /\ cursor' = inside
  /\ IF inside /\ current # 0 THEN Submit(PointerCommand("motion", buttonMask)) ELSE NoSubmit
  /\ UNCHANGED <<pressedKeys, pressedRaw, suppressed, buttonMask, imeActive, calling>>

(* handle_button; nothing is recorded while the cursor is outside.         *)
Button(b, down) ==
  /\ Event("button")
  /\ IF cursor
     THEN /\ buttonMask' = IF down THEN buttonMask \cup {b} ELSE buttonMask \ {b}
          /\ Submit(PointerCommand("pointer", buttonMask'))
     ELSE UNCHANGED buttonMask /\ NoSubmit
  /\ UNCHANGED <<pressedKeys, pressedRaw, suppressed, cursor, imeActive, calling>>

(* handle_wheel: one native message, or a batch of clicks.                 *)
Wheel ==
  /\ \/ /\ Event("scroll") /\ current # 0
        /\ IF cursor THEN Submit(Plain("scroll")) ELSE NoSubmit
     \/ /\ Event("wheel")
        /\ IF cursor /\ current # 0 THEN Submit(PointerCommand("batch", buttonMask)) ELSE NoSubmit
  /\ UNCHANGED <<local, calling>>

(* A key goes down: sent, or swallowed by the input method.  Held keys     *)
(* repeat.                                                                 *)
KeyPressed(k) ==
  /\ Event("key")
  /\ IF imeActive /\ k \notin Modifiers
     THEN /\ suppressed' = suppressed \cup {<<"ime", k>>}
          /\ UNCHANGED pressedKeys /\ NoSubmit
     ELSE /\ pressedKeys' = pressedKeys \cup {k}
          /\ UNCHANGED suppressed
          /\ Submit(KeyCommand(TRUE, k))
  /\ UNCHANGED <<pressedRaw, buttonMask, cursor, imeActive, calling>>

(* A key comes up: one reason to swallow it is used up, or it is sent.     *)
SwallowedBy(k) ==
  CASE <<"paste", k>> \in suppressed -> {<<"paste", k>>}
    [] <<"shortcut", k>> \in suppressed -> {<<"shortcut", k>>}
    [] <<"ime", k>> \in suppressed -> {<<"ime", k>>}
    [] OTHER -> {}

KeyReleased(k) ==
  /\ Event("key")
  /\ suppressed' = suppressed \ SwallowedBy(k)
  /\ IF SwallowedBy(k) # {}
     THEN UNCHANGED pressedKeys /\ NoSubmit
     ELSE pressedKeys' = pressedKeys \ {k} /\ Submit(KeyCommand(FALSE, k))
  /\ UNCHANGED <<pressedRaw, buttonMask, cursor, imeActive, calling>>

(* The same from the platform's keyboard hook, which swallows nothing.     *)
RawKey(k, down) ==
  /\ Event("raw")
  /\ pressedRaw' = IF down THEN pressedRaw \cup {k} ELSE pressedRaw \ {k}
  /\ Submit(KeyCommand(down, k))
  /\ UNCHANGED <<pressedKeys, suppressed, buttonMask, cursor, imeActive, calling>>

(* The main window reads the clipboard for a paste shortcut and swallows   *)
(* the key's release.                                                      *)
PasteShortcut(k) ==
  /\ Event("paste")
  /\ k \notin Modifiers
  /\ suppressed' = suppressed \cup {<<"paste", k>>}
  /\ NoSubmit
  /\ UNCHANGED <<pressedKeys, pressedRaw, buttonMask, cursor, imeActive, calling>>

SendClipboard ==
  /\ Event("clipboard")
  /\ current # 0
  /\ Submit(Plain("clipboard"))
  /\ UNCHANGED <<local, calling>>

ImeToggles ==
  /\ Event("ime")
  /\ imeActive' = ~imeActive
  /\ NoSubmit
  /\ UNCHANGED <<pressedKeys, pressedRaw, suppressed, buttonMask, cursor, calling>>

(* Multi-step events: the commands they still have to submit. *)
ImeCommit(k) ==
  /\ Event("ime")
  /\ imeActive' = FALSE
  /\ ui' = "ime" /\ todo' = <<KeyCommand(TRUE, k), KeyCommand(FALSE, k)>>
  /\ NoSubmit
  /\ UNCHANGED <<pressedKeys, pressedRaw, suppressed, buttonMask, cursor>>

KeyCombo(m, k) ==
  /\ Event("combo")
  /\ current # 0
  /\ m # k
  /\ ui' = "combo"
  /\ todo' = <<KeyCommand(TRUE, m), KeyCommand(TRUE, k), KeyCommand(FALSE, k), KeyCommand(FALSE, m)>>
  /\ NoSubmit
  /\ UNCHANGED <<local>>

(* A shortcut of the local system: its key is swallowed, and the modifiers *)
(* that are down are released on the remote host.                          *)
Shortcut(k) ==
  /\ Event("shortcut")
  /\ suppressed' = suppressed \cup {<<"shortcut", k>>}
  /\ ui' = "shortcut"
  /\ todo' \in SetToSeqs(pressedKeys \cap Modifiers)
  /\ NoSubmit
  /\ UNCHANGED <<pressedKeys, pressedRaw, buttonMask, cursor, imeActive>>

FocusLost ==
  /\ Event("focus")
  /\ ui' = "release"
  /\ NoSubmit
  /\ UNCHANGED <<local, todo>>
-----------------------------------------------------------------------------
(* The steps of an event that submits several commands *)

Step(op) ==
  /\ ui = op
  /\ UNCHANGED <<link, events>>

(* The next command; the first one refused ends the call.  A committed     *)
(* character whose release was refused is kept for release_all, but the    *)
(* keys of a combination that were pressed before are not.                 *)
NextCommand ==
  /\ \/ Step("ime") /\ SubmitSilently(Head(todo))
     \/ Step("combo") /\ SubmitOwing(Head(todo), UNION {Releases(c) : c \in Range(todo)})
  /\ IF Accepted(Head(todo)) /\ Len(todo) > 1
     THEN todo' = Tail(todo) /\ UNCHANGED <<ui, pressedRaw>>
     ELSE /\ ui' = "ready" /\ todo' = <<>>
          /\ pressedRaw' = IF ui = "ime" /\ ~Accepted(Head(todo)) /\ Head(todo).kind = "release"
                           THEN pressedRaw \cup {Head(todo).key} ELSE pressedRaw
  /\ UNCHANGED <<pressedKeys, suppressed, buttonMask, cursor, imeActive>>

(* suppress_shortcut lets go of one modifier after the other. *)
ReleaseModifier ==
  /\ Step("shortcut")
  /\ IF todo = <<>>
     THEN ui' = "ready" /\ NoSubmit /\ UNCHANGED <<todo, pressedKeys, suppressed>>
     ELSE /\ suppressed' = suppressed \cup {<<"shortcut", Head(todo)>>}
          /\ pressedKeys' = pressedKeys \ {Head(todo)}
          /\ Submit(KeyCommand(FALSE, Head(todo)))
          /\ IF Accepted(KeyCommand(FALSE, Head(todo)))
             THEN todo' = Tail(todo) /\ UNCHANGED ui
             ELSE todo' = <<>> /\ ui' = "ready"
  /\ UNCHANGED <<pressedRaw, buttonMask, cursor, imeActive>>

(* release_all: every key the window saw, then the hook's, then the        *)
(* buttons; what is not accepted stays recorded.                           *)
Tried == Range(todo)
Untried(which, keys) == {<<which, k>> : k \in keys} \ Tried

ReleaseKey ==
  /\ \/ Step("release") \/ Step("clear")
  /\ \E k \in Keys :
       \/ /\ <<"window", k>> \in Untried("window", pressedKeys)
          /\ todo' = Append(todo, <<"window", k>>)
          /\ SubmitSilently(KeyCommand(FALSE, k))
          /\ pressedKeys' = IF Accepted(KeyCommand(FALSE, k)) THEN pressedKeys \ {k} ELSE pressedKeys
          /\ UNCHANGED pressedRaw
       \/ /\ Untried("window", pressedKeys) = {}
          /\ <<"hook", k>> \in Untried("hook", pressedRaw)
          /\ todo' = Append(todo, <<"hook", k>>)
          /\ SubmitSilently(KeyCommand(FALSE, k))
          /\ pressedRaw' = IF Accepted(KeyCommand(FALSE, k)) THEN pressedRaw \ {k} ELSE pressedRaw
          /\ UNCHANGED pressedKeys
  /\ UNCHANGED <<ui, suppressed, buttonMask, cursor, imeActive>>

ReleaseButtons ==
  /\ \/ Step("release") \/ Step("clear")
  /\ Untried("window", pressedKeys) = {} /\ Untried("hook", pressedRaw) = {}
  /\ todo' = <<>>
  /\ IF buttonMask # {} /\ cursor
     THEN /\ SubmitSilently(PointerCommand("pointer", {}))
          /\ buttonMask' = IF Accepted(PointerCommand("pointer", {})) THEN {} ELSE buttonMask
     ELSE NoSubmit /\ UNCHANGED buttonMask
  /\ ui' = IF ui = "clear" THEN "swap" ELSE "ready"
  /\ UNCHANGED <<pressedKeys, pressedRaw, suppressed, cursor, imeActive>>

-----------------------------------------------------------------------------
(* Sessions.  The UI hears that the session is lost (clear_input) only     *)
(* after it is, and may hear of the next one (set_input) without that: a   *)
(* newer connection state takes the place of an unread one.                *)

SessionDies ==
  /\ alive
  /\ alive' = FALSE
  /\ UNCHANGED <<queue, worker, cells, local, calling, events, session, remote, excused>>

ClearInput ==
  /\ ui = "ready"
  /\ current # 0 /\ ~alive
  /\ ui' = "clear"
  /\ UNCHANGED <<queue, worker, cells, local, todo, events, link, excused>>

Connect ==
  /\ ui = "ready"
  /\ ~alive /\ session < MaxSessions
  /\ session' = session + 1 /\ alive' = TRUE /\ remote' = NothingHeld
  /\ ui' = "swap"
  /\ UNCHANGED <<queue, worker, cells, local, todo, events, excused>>

(* InputDispatcher::set_input: clear the queue, replace the input, forget  *)
(* the error; a command in the thread's hand is not touched.               *)
Crossing ==
  IF thread # "hand" THEN {}
  ELSE IF hand.kind = "press" THEN {hand.key}
  ELSE IF hand.kind \in Pointing THEN {"pointer"} ELSE {}
ClearQueue ==
  /\ ui = "swap"
  /\ commands' = <<>>
  /\ ui' = "swapped"
  /\ excused' = {"crossed"} \X Crossing
  /\ UNCHANGED <<stopped, worker, cells, local, todo, events, link>>

ReplaceInput ==
  /\ ui = "swapped"
  /\ current' = IF alive THEN session ELSE 0
  /\ ui' = "forget"
  /\ UNCHANGED <<queue, worker, error, local, todo, events, link, excused>>

ForgetError ==
  /\ ui = "forget"
  /\ error' = FALSE
  /\ ui' = "ready"
  /\ UNCHANGED <<queue, worker, current, local, todo, events, link, excused>>

(* The application drops its InputState: InputCommandQueue::stop. *)
StopsWithoutNotice ==
  /\ ui = "ready"
  /\ stopped' = TRUE /\ commands' = <<>>
  /\ ui' = "gone"
  /\ UNCHANGED <<worker, cells, local, todo, events, link, excused>>
Stop ==
  /\ ui = "ready"
  /\ stopped' = TRUE /\ commands' = <<>>
  /\ ui' = "gone"
  /\ WakeThread
  /\ UNCHANGED <<hand, target, cells, local, todo, events, link, excused>>

-----------------------------------------------------------------------------
(* The dispatch thread *)

Receive ==
  /\ thread = "receive"
  /\ IF commands # <<>>
     THEN hand' = Head(commands) /\ commands' = Tail(commands) /\ thread' = "hand"
     ELSE thread' = (IF stopped THEN "exit" ELSE "wait") /\ UNCHANGED <<hand, commands>>
  /\ UNCHANGED <<stopped, target, cells, local, calling, events, link, excused>>

TakeInput ==
  /\ thread = "hand"
  /\ target' = current
  /\ thread' = "send"
  /\ UNCHANGED <<queue, hand, cells, local, calling, events, link, excused>>

Effect(held, c) ==
  [down |-> IF c.kind = "press" THEN held.down \cup {c.key}
            ELSE IF c.kind = "release" THEN held.down \ {c.key} ELSE held.down,
   mask |-> IF c.kind \in Pointing THEN c.mask ELSE held.mask]

(* A command for no session, or for one that is gone, is dropped. *)
Send ==
  /\ thread = "send"
  /\ remote' = IF target = session /\ alive THEN Effect(remote, hand) ELSE remote
  /\ thread' = "receive" /\ hand' = NoCommand /\ target' = 0
  /\ UNCHANGED <<queue, cells, local, calling, events, session, alive, excused>>

(* The call fails: the session is gone, or the clipboard text is longer    *)
(* than a session accepts.                                                 *)
SendFails ==
  /\ thread = "send"
  /\ target # 0
  /\ target # session \/ ~alive \/ hand.kind = "clipboard"
  /\ thread' = "failed" /\ hand' = NoCommand /\ target' = 0
  /\ UNCHANGED <<queue, cells, local, calling, events, link, excused>>

RecordError ==
  /\ thread = "failed"
  /\ error' = TRUE
  /\ thread' = "receive"
  /\ UNCHANGED <<queue, hand, target, current, local, calling, events, link, excused>>

Dispatcher == Receive \/ TakeInput \/ Send \/ SendFails \/ RecordError

-----------------------------------------------------------------------------
UserEvent ==
  \/ \E inside \in BOOLEAN : CursorMoved(inside)
  \/ \E b \in Buttons, down \in BOOLEAN : Button(b, down)
  \/ Wheel
  \/ \E k \in Keys : KeyPressed(k) \/ KeyReleased(k) \/ PasteShortcut(k) \/ Shortcut(k)
  \/ \E k \in Keys, down \in BOOLEAN : RawKey(k, down)
  \/ SendClipboard
  \/ ImeToggles \/ \E k \in Keys : ImeCommit(k)
  \/ \E m, k \in Keys : KeyCombo(m, k)
  \/ FocusLost

Continue ==
  \/ NextCommand \/ ReleaseModifier \/ ReleaseKey \/ ReleaseButtons
  \/ ClearQueue \/ ReplaceInput \/ ForgetError

Next ==
  \/ UserEvent \/ Continue
  \/ SessionDies \/ ClearInput \/ Connect
  \/ Stop
  \/ Dispatcher

Spec == Init /\ [][Next]_vars

-----------------------------------------------------------------------------
(* Properties *)

(* What the remote host holds once the command in hand has arrived. *)
Now ==
  IF thread = "hand" \/ (thread = "send" /\ target = session)
  THEN Effect(remote, hand) ELSE remote

(* What it will hold once the queue q has arrived too: a key that is down, *)
(* or pressed by a command of q, and not released by a later one; and the  *)
(* buttons as the last pointer command of q has them, if there is one.     *)
WillBeDown(held, q) ==
  {k \in Keys : \E i \in 0 .. Len(q) :
     /\ IF i = 0 THEN k \in held.down ELSE q[i].kind = "press" /\ q[i].key = k
     /\ \A j \in i + 1 .. Len(q) : ~(q[j].kind = "release" /\ q[j].key = k)}
LastPointing(q) ==
  {i \in 0 .. Len(q) : /\ i = 0 \/ q[i].kind \in Pointing
                       /\ \A j \in i + 1 .. Len(q) : q[j].kind \notin Pointing}
WillBeUp(held, q) ==
  \A i \in LastPointing(q) : (IF i = 0 THEN held.mask ELSE q[i].mask) = {}

Excused == {e[2] : e \in excused}

(* No key and no mouse button is left down on the remote host behind the   *)
(* user's back: one that is, or will be, down there is either still        *)
(* recorded, so that losing the focus releases it, or the user was told    *)
(* that its release was refused.  Coalescing, eviction at the limit,       *)
(* multi-step events and stale errors do not break this.  The one          *)
(* exception is a command in the dispatch thread's hand while the session  *)
(* is replaced (ClearQueue).                                               *)
NothingForgotten ==
  alive /\ ui = "ready" =>
    /\ WillBeDown(Now, commands) \subseteq pressedKeys \cup pressedRaw \cup Excused
    /\ buttonMask = {} => WillBeUp(Now, commands) \/ "pointer" \in Excused

(* Pointer positions never form a trail: two of them are never queued one  *)
(* after the other, even when what stood between them was evicted.         *)
NoTrail ==
  \A i \in 1 .. Len(commands) - 1 :
    ~(commands[i].kind = "motion" /\ commands[i + 1].kind = "motion")

(* No wake-up is lost: the dispatch thread is parked only while there is   *)
(* nothing to send and nobody has stopped it.                              *)
ParkedOnlyWhenIdle == thread = "wait" => commands = <<>> /\ ~stopped

(* "Key releases and button releases must always reach the wire": at rest  *)
(* within one session, a key that is up on this side is up on the remote   *)
(* host, unless its press crossed into the session in the thread's hand.  *)
AtRest == alive /\ ui = "ready" /\ commands = <<>> /\ thread \in {"receive", "wait"}
NoStuckKey ==
  AtRest => \A k \in remote.down :
              k \in pressedKeys \cup pressedRaw \/ <<"crossed", k>> \in excused
=============================================================================
