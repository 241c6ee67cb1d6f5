--------------------------- MODULE VideoAssembler ---------------------------
(***************************************************************************)
(* Assembly of decodable frames from the four streams (bands) of a native  *)
(* AVC session: VideoStreamAssembler and AccessUnitBatcher in              *)
(* crates/ard-core/src/media_stream/assembler.rs.  All bands form one      *)
(* prediction chain, numbered by DON/DONL over all streams; bands that did *)
(* not change are left out of a picture, and only the decode order number  *)
(* of the next picture proves that a picture is whole.                     *)
(*                                                                         *)
(* The environment is the server and the streams below (RtpStream): each   *)
(* stream completes its access units in order and may lose any of them;    *)
(* streams are independent of each other.  A unit is its position in the   *)
(* decode order; its RTP timestamp is its picture's number, which does not *)
(* wrap here; its decode order number does.  Every unit carries one.  The  *)
(* caller reads the network only when no frame is ready, as receive_frame  *)
(* does, so the units of one call come from one packet, hence one stream.  *)
(***************************************************************************)
EXTENDS Integers, Sequences, FiniteSets

CONSTANTS
  Units,            \* the access units sent, in decode order:
                    \* [picture, slot, sync]
  SliceCount,       \* AVC_VIDEO_SLICE_COUNT
  MaxPending,       \* MAX_PENDING_FRAME_BATCHES
  FirstOrder,       \* the first unit's decode order number
  OrderModulus,     \* 2^16
  MaxResets         \* bound: key-frame requests of the caller

All == 1 .. Len(Units)
Slot(u) == Units[u].slot
PictureOf(u) == Units[u].picture
IsSync(u) == Units[u].sync
UnitsOf(p) == {u \in All : PictureOf(u) = p}
Pictures == 1 .. PictureOf(Len(Units))

(* Pictures follow each other; a picture has at most one unit per slot;    *)
(* only the first unit of a picture with all slots can be a sync unit.     *)
ASSUME AssemblerAssumption ==
  /\ SliceCount \in Nat \ {0} /\ MaxPending \in Nat \ {0}
  /\ OrderModulus \in Nat \ {0} /\ FirstOrder \in 0 .. OrderModulus - 1
  /\ MaxResets \in Nat
  /\ Units \in Seq([picture : Nat \ {0}, slot : 1 .. SliceCount, sync : BOOLEAN])
  /\ Units # <<>> /\ PictureOf(1) = 1
  /\ \A u \in All \ {1} :
       \/ PictureOf(u) = PictureOf(u - 1) /\ ~IsSync(u)
       \/ PictureOf(u) = PictureOf(u - 1) + 1
  /\ \A u, v \in All : u < v => PictureOf(u) <= PictureOf(v)
  /\ \A u, v \in All : PictureOf(u) = PictureOf(v) /\ Slot(u) = Slot(v) => u = v
  /\ \A u \in All : IsSync(u) => Cardinality(UnitsOf(PictureOf(u))) = SliceCount

(* The decode order numbers wrap, but none is given twice.                 *)
ASSUME NoNumberTwice == Len(Units) < OrderModulus

NoOrder == -1

VARIABLES
  coming,       \* the units no stream has completed or given up yet
  completed,    \* what one stream has completed, not yet looked at
  call,         \* the caller is between calls, in push_packet or in receive
  awaitingSync, \* VideoStreamAssembler.awaiting_sync
  followers,    \* VideoStreamAssembler.pending_sync_followers
  pending,      \* the units in AccessUnitBatcher.pending
  initial,      \* AccessUnitBatcher.initial_decode_order
  released,     \* AccessUnitBatcher.last_released_decode_order
  frames,       \* history: the frames handed on, each a sequence of units
  resets,       \* bound: key-frame requests of the caller so far
  orderly       \* history: every unit came with a packet of its own, and
                \* before all units of later pictures

batcher == <<pending, initial, released>>
sync == <<awaitingSync, followers>>
vars == <<coming, completed, call, sync, batcher, frames, resets, orderly>>

(* The pending batches, by timestamp. *)
Batches == {PictureOf(u) : u \in pending}
Batch(p) == {u \in pending : PictureOf(u) = p}

Order(u) == (FirstOrder + u - 1) % OrderModulus

TypeOK ==
  /\ coming \subseteq All
  /\ completed \in Seq(All)
  /\ call \in {"idle", "push", "receive"}
  /\ awaitingSync \in BOOLEAN
  /\ followers \subseteq All
  /\ pending \subseteq All /\ Cardinality(Batches) <= MaxPending
  /\ initial \in -1 .. OrderModulus - 1
  /\ released \in -1 .. OrderModulus - 1
  /\ frames \in Seq(Seq(All))
  /\ resets \in 0 .. MaxResets
  /\ orderly \in BOOLEAN

Init ==
  /\ coming = All
  /\ completed = <<>> /\ call = "idle"
  /\ awaitingSync = TRUE /\ followers = {}
  /\ pending = {} /\ initial = NoOrder /\ released = NoOrder
  /\ frames = <<>> /\ resets = 0 /\ orderly = TRUE

-----------------------------------------------------------------------------
(* Decode order numbers: wrapping_add, wrapping_sub, decode_order_is_newer *)

Plus(d, k) == (d + k) % OrderModulus
Offset(d, from) == (d - from) % OrderModulus
IsNewer(d, than) == d # than /\ Offset(d, than) < OrderModulus \div 2

-----------------------------------------------------------------------------
(* Releasing: AccessUnitBatcher::take_ready *)

Expected == IF released = NoOrder THEN initial ELSE Plus(released, 1)

IsContiguous(batch) ==
  {Offset(Order(u), Expected) : u \in batch} = 0 .. Cardinality(batch) - 1

(* All bands are there, or the next picture has begun with the number that *)
(* would have been the next in this one.                                   *)
BoundaryAlwaysProven(batch) == TRUE
BoundaryProven(batch) ==
  \/ Cardinality(batch) = SliceCount
  \/ \E v \in pending \ batch : Order(v) = Plus(Expected, Cardinality(batch))

(* A chain starts with a full picture. *)
IsWhole(batch) ==
  /\ IsContiguous(batch)
  /\ IF released = NoOrder THEN Cardinality(batch) = SliceCount ELSE BoundaryProven(batch)

IsReady(u) == Order(u) = Expected /\ IsWhole(Batch(PictureOf(u)))
NothingReady == \A u \in pending : ~IsReady(u)

InDecodeOrder(batch) ==
  [i \in 1 .. Cardinality(batch) |->
     CHOOSE u \in batch : Order(u) = Plus(Expected, i - 1)]

Release(u) ==
  /\ call # "push" /\ completed = <<>>
  /\ IsReady(u)
  /\ LET batch == Batch(PictureOf(u)) IN
     /\ frames' = Append(frames, InDecodeOrder(batch))
     /\ pending' = pending \ batch
     /\ released' = Plus(Expected, Cardinality(batch) - 1)
  /\ call' = "idle"
  /\ UNCHANGED <<coming, completed, sync, initial, resets, orderly>>

ReceiveNothing ==
  /\ call = "receive" /\ completed = <<>>
  /\ NothingReady
  /\ call' = "idle"
  /\ UNCHANGED <<coming, completed, sync, batcher, frames, resets, orderly>>

-----------------------------------------------------------------------------
(* A packet completes one unit of its stream, or several; what the stream  *)
(* has not completed before is lost.                                       *)

Complete(u) ==
  /\ u \in coming
  /\ \/ call = "idle" /\ NothingReady
     \/ call = "push" /\ Slot(u) = Slot(Head(completed))
  /\ coming' = coming \ {v \in All : Slot(v) = Slot(u) /\ v <= u}
  /\ completed' = Append(completed, u)
  /\ call' = "push"
  /\ orderly' = (orderly /\ call = "idle" /\ \A v \in coming : PictureOf(v) >= PictureOf(u))
  /\ UNCHANGED <<sync, batcher, frames, resets>>

-----------------------------------------------------------------------------
(* Looking at a completed unit: VideoStreamAssembler::receive *)

Look(u) ==
  /\ completed # <<>>
  /\ u = Head(completed)
  /\ call' = "receive"
  /\ UNCHANGED <<coming, frames, resets, orderly>>

NeedsOrigin(u) == awaitingSync \/ (released = NoOrder /\ IsSync(u))

(* hold_possible_sync_follower: units of the newest picture seen, in case  *)
(* its sync unit completes after them.                                     *)
Holdable(held, u) ==
  /\ \A f \in held : PictureOf(f) = PictureOf(u) /\ Slot(f) # Slot(u) /\ Order(f) # Order(u)
  /\ Cardinality(held) < SliceCount
HoldFollower(u) ==
  /\ Look(u)
  /\ NeedsOrigin(u) /\ ~IsSync(u)
  /\ LET held == IF \E f \in followers : PictureOf(f) < PictureOf(u) THEN {} ELSE followers
     IN  followers' = IF Holdable(held, u) THEN held \cup {u} ELSE held
  /\ completed' = Tail(completed)
  /\ UNCHANGED <<awaitingSync, batcher>>

(* begin_prediction_chain and take_sync_followers: the sync unit is the    *)
(* new origin; of the units held, those that follow it directly stay.      *)
FollowsAlmostDirectly(f, u) == Offset(Order(f), Order(u)) \in 1 .. SliceCount - 2
FollowsDirectly(f, u) == Offset(Order(f), Order(u)) \in 1 .. SliceCount - 1
BeginChain(u) ==
  /\ Look(u)
  /\ NeedsOrigin(u) /\ IsSync(u)
  /\ pending' = {u} \cup {f \in followers : /\ Slot(f) # Slot(u)
                                            /\ PictureOf(f) = PictureOf(u)
                                            /\ FollowsDirectly(f, u)}
  /\ initial' = Order(u) /\ released' = NoOrder
  /\ awaitingSync' = FALSE /\ followers' = {}
  /\ completed' = Tail(completed)

(* AccessUnitBatcher::insert.  A unit that is not newer than what has been *)
(* released, or whose number is already there, is ignored.                 *)
IsLate(u) ==
  \/ released # NoOrder /\ ~IsNewer(Order(u), released)
  \/ \E v \in pending : Order(v) = Order(u)

(* A stream can have one unit per picture, and batches are bounded.        *)
IsSecond(u) == \E v \in Batch(PictureOf(u)) : Slot(v) = Slot(u)
OverflowsLate(u) == PictureOf(u) \notin Batches /\ Cardinality(Batches) > MaxPending
Overflows(u) == PictureOf(u) \notin Batches /\ Cardinality(Batches) >= MaxPending

Insert(u) ==
  /\ Look(u)
  /\ ~NeedsOrigin(u) /\ ~IsLate(u) /\ ~IsSecond(u) /\ ~Overflows(u)
  /\ pending' = pending \cup {u}
  /\ completed' = Tail(completed)
  /\ UNCHANGED <<sync, initial, released>>

IgnoreLate(u) ==
  /\ Look(u)
  /\ ~NeedsOrigin(u) /\ IsLate(u)
  /\ completed' = Tail(completed)
  /\ UNCHANGED <<sync, batcher>>

(* enter_sync_recovery. *)
EnterSyncRecovery ==
  /\ pending' = {} /\ initial' = NoOrder /\ released' = NoOrder
  /\ awaitingSync' = TRUE /\ followers' = {}
  /\ completed' = <<>>

ChainFails(u) ==
  /\ Look(u)
  /\ ~NeedsOrigin(u) /\ ~IsLate(u)
  /\ IsSecond(u) \/ Overflows(u)
  /\ EnterSyncRecovery

(* The caller asks for a key frame, between two calls. *)
RequestKeyframe ==
  /\ call = "idle"
  /\ resets < MaxResets
  /\ resets' = resets + 1
  /\ EnterSyncRecovery
  /\ orderly' = FALSE
  /\ UNCHANGED <<coming, call, frames>>

-----------------------------------------------------------------------------
Receive(u) ==
  \/ HoldFollower(u) \/ BeginChain(u)
  \/ Insert(u) \/ IgnoreLate(u) \/ ChainFails(u)

Next ==
  \/ \E u \in coming : Complete(u)
  \/ \E u \in All : Receive(u)
  \/ \E u \in pending : Release(u)
  \/ ReceiveNothing
  \/ RequestKeyframe

Spec == Init /\ [][Next]_vars

-----------------------------------------------------------------------------
(* Properties *)

(* What the decoder gets is a prediction chain: whole pictures, starting   *)
(* with a key picture and without gaps, and again after every reset.       *)
SentPicture(p) ==
  LET first == CHOOSE u \in UnitsOf(p) : \A v \in UnitsOf(p) : u <= v
  IN  [i \in 1 .. Cardinality(UnitsOf(p)) |-> first + i - 1]
Chain == INSTANCE PredictionChain WITH
  Picture <- [p \in Pictures |-> SentPicture(p)],
  Keys <- {PictureOf(u) : u \in {v \in All : IsSync(v)}},
  shown <- frames
ImplementsChain == Chain!ChainSpec

(* As long as no unit is lost or overtaken by one of a later picture, no   *)
(* picture is: from the first key picture on, each has been handed on once *)
(* it was full or the unit after it has been looked at.                    *)
Seen(p) == UnitsOf(p) \cap coming = {}
Proven(p) ==
  \/ Cardinality(UnitsOf(p)) = SliceCount
  \/ \E u \in UnitsOf(p) : u + 1 \in All \ (UnitsOf(p) \cup coming)
OrderlyIsShown ==
  orderly /\ call = "idle" /\ NothingReady =>
    \A p \in Pictures :
      Seen(p) /\ Proven(p) /\ (\E k \in All : IsSync(k) /\ PictureOf(k) <= p) =>
        \E i \in 1 .. Len(frames) : frames[i] = SentPicture(p)
=============================================================================
