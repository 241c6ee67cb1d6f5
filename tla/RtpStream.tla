------------------------------ MODULE RtpStream ------------------------------
(***************************************************************************)
(* One band of the video stream, from RTP packets to access units: the     *)
(* bounded reorder buffer and the depacketizer of                          *)
(* crates/ard-core/src/media_stream/rtp.rs, driven by InboundStream of     *)
(* assembler.rs.  The network loses and reorders packets as it likes;      *)
(* authentication (srtp.rs) has removed forgeries and duplicates, which    *)
(* SecureStream shows.                                                     *)
(*                                                                         *)
(* A packet is its position in what the server sent.  Payloads are kept as *)
(* the positions they came from, so that what is handed on can be compared *)
(* with what was sent.  The H.264 and the HEVC depacketizer differ only in *)
(* how they recognise whole units and fragments.                           *)
(***************************************************************************)
EXTENDS Integers, Sequences, SequencesExt, FiniteSets

CONSTANTS
  Sent,               \* the packets of the server, in sending order
  FirstSequence,      \* sequence number of the first of them
  SequenceModulus,    \* 2^16 in the code
  MaxReorder,         \* MAX_RTP_REORDER_PACKETS
  MaxTracked,         \* MAX_TRACKED_RTP_TIMESTAMPS
  MaxResets           \* bound: chain resets over the whole behaviour

None == -1
Positions == 1 .. Len(Sent)

(* A packet carries a whole NAL unit (or several: one payload), or a       *)
(* fragment of one; the last of a frame has the marker bit.                *)
Packet == [timestamp : Nat, piece : {"whole", "start", "middle", "end"}, marker : BOOLEAN]

ASSUME RtpAssumption ==
  /\ Sent \in Seq(Packet)
  /\ SequenceModulus \in Nat \ {0} /\ FirstSequence \in 0 .. SequenceModulus - 1
  /\ 2 * Len(Sent) <= SequenceModulus
  /\ MaxReorder \in Nat \ {0} /\ MaxTracked \in Nat \ {0} /\ MaxResets \in Nat

Timestamp(i) == Sent[i].timestamp
CanStartNal(i) == Sent[i].piece \in {"whole", "start"}

(* What a server sends: one frame after the other, the marker on the last  *)
(* packet of each and nowhere else, and every NAL unit to its end before   *)
(* the next begins.                                                        *)
ASSUME FramesAssumption ==
  /\ \A i, j \in Positions : i < j => Timestamp(i) <= Timestamp(j)
  /\ \A i \in Positions :
       /\ Sent[i].marker <=> (i = Len(Sent) \/ Timestamp(i + 1) # Timestamp(i))
       /\ CanStartNal(i) <=> (i = 1 \/ Sent[i - 1].piece \in {"whole", "end"})
       /\ Sent[i].marker => Sent[i].piece \in {"whole", "end"}

Sequence(i) == (FirstSequence + i - 1) % SequenceModulus
After(sequence) == (sequence + 1) % SequenceModulus

VARIABLES
  network,        \* packets not delivered (yet)
  packets,        \* RtpReorderBuffer.packets
  lastReleased,   \* RtpReorderBuffer.last_released_sequence
  continuation,   \* RtpReorderBuffer.continuation, <<sequence, timestamp>>
  markerPending,  \* RtpReorderBuffer.marker_pending
  depacketizer,   \* the FragmentBuffer and the FrameAssembler
  nextSequence,   \* InboundStream.next_sequence
  damaged,        \* InboundStream.damaged_timestamp
  tracked,        \* timestamps in InboundStream.first_packet_arrivals
  failed,         \* the error the last push returned, or "no"
  completed,      \* history: every access unit handed on
  losses,         \* history: losses reported so far, resets included
  orderly,        \* history: only packets of one frame overtook each other
  resets          \* chain resets so far

reorder == <<packets, lastReleased, continuation, markerPending>>
inbound == <<depacketizer, nextSequence, damaged, tracked, failed>>
history == <<completed, losses, orderly, resets>>
vars == <<network, reorder, inbound, history>>

NoContinuation == <<None, None>>
Empty == [fragment |-> <<>>, open |-> None, expected |-> None, frame |-> None, units |-> <<>>]

(* Every variable has its type, the buffer and the tracker stay within     *)
(* their capacities, and the error "completed RTP access unit has no       *)
(* first-packet timestamp" is never raised.                                *)
TypeOK ==
  /\ network \subseteq Positions
  /\ packets \subseteq Positions /\ Cardinality(packets) < MaxReorder
  /\ lastReleased \in {None} \cup 0 .. SequenceModulus - 1
  /\ continuation \in ({None} \cup 0 .. SequenceModulus - 1) \X (Nat \cup {None})
  /\ markerPending \in BOOLEAN
  /\ depacketizer.fragment \in Seq(Positions)
  /\ depacketizer.units \in Seq(Seq(Positions))
  /\ depacketizer.frame \in Nat \cup {None}
  /\ nextSequence \in {None} \cup 0 .. SequenceModulus - 1
  /\ damaged \in Nat \cup {None}
  /\ tracked \subseteq Nat /\ Cardinality(tracked) <= MaxTracked
  /\ failed \in {"no", "tracker full"} /\ orderly \in BOOLEAN
  /\ losses \in Nat /\ resets \in 0 .. MaxResets

Init ==
  /\ network = Positions
  /\ packets = {} /\ lastReleased = None /\ continuation = NoContinuation
  /\ markerPending = FALSE
  /\ depacketizer = Empty
  /\ nextSequence = None /\ damaged = None /\ tracked = {} /\ failed = "no"
  /\ completed = <<>> /\ losses = 0 /\ orderly = TRUE /\ resets = 0

-----------------------------------------------------------------------------
(* The reorder buffer *)

(* sequence_is_newer, sequence_order: the nearer way round. *)
IsNewerWithoutWrap(candidate, reference) == candidate > reference
IsNewer(candidate, reference) ==
  LET distance == (candidate - reference) % SequenceModulus
  IN  distance # 0 /\ distance < SequenceModulus \div 2

Precedes(i, j) == IsNewer(Sequence(j), Sequence(i))
Sorted(set) ==
  [k \in 1 .. Cardinality(set) |->
     CHOOSE i \in set : Cardinality({j \in set : Precedes(j, i)}) = k - 1]
Newest(set) == CHOOSE i \in set : \A j \in set \ {i} : Precedes(j, i)

(* drop_stale_access_units_before: the marker of a newer frame ends the    *)
(* wait for the packets of older ones.                                     *)
Stale(buffer, i) ==
  LET older == {j \in buffer : Timestamp(j) # Timestamp(i)}
  IN  IF Sent[i].marker /\ older # {} /\ Precedes(Newest(older), i) THEN older ELSE {}

(* marker_ready: from a possible start, or where the last burst stopped,   *)
(* without a gap.                                                          *)
MarkerReady(buffer, resume) ==
  LET queue == Sorted(buffer)
      first == queue[1]
      marker == {k \in 1 .. Len(queue) : Sent[queue[k]].marker}
      firstMarker == CHOOSE k \in marker : \A l \in marker : k <= l
  IN  /\ marker # {}
      /\ Timestamp(first) = Timestamp(queue[firstMarker])
      /\ \/ resume = <<Sequence(first), Timestamp(first)>>
         \/ CanStartNal(first)
      /\ \A k \in 1 .. Len(queue) - 1 : Sequence(queue[k + 1]) = After(Sequence(queue[k]))

IsFullLate(queue) == Cardinality(queue) > MaxReorder
IsFull(queue) == Cardinality(queue) >= MaxReorder

(* RtpReorderBuffer::push of a packet that is neither late nor queued: the *)
(* packets released, and what the buffer is left with.                     *)
Reordered(i) ==
  LET stale == Stale(packets, i)
      last == IF stale = {} THEN lastReleased ELSE Sequence(Newest(stale))
      resume == IF stale = {} THEN continuation ELSE NoContinuation
      queue == (packets \ stale) \cup {i}
      pending == Sent[i].marker \/ IF stale = {} THEN markerPending
                                   ELSE \E j \in packets \ stale : Sent[j].marker
      dropped == Cardinality({Timestamp(j) : j \in stale})
      end == Newest(queue)
  IN  IF \/ IsFull(queue)
         \/ pending /\ MarkerReady(queue, resume)
      THEN [ready |-> Sorted(queue), dropped |-> dropped, packets |-> {},
            lastReleased |-> Sequence(end), markerPending |-> FALSE,
            continuation |-> IF Sent[end].marker THEN NoContinuation
                             ELSE <<After(Sequence(end)), Timestamp(end)>>]
      ELSE [ready |-> <<>>, dropped |-> dropped, packets |-> queue,
            lastReleased |-> last, markerPending |-> pending, continuation |-> resume]

Late(i) == lastReleased # None /\ ~IsNewer(Sequence(i), lastReleased)

Kept == [ready |-> <<>>, dropped |-> 0, packets |-> packets, lastReleased |-> lastReleased,
         markerPending |-> markerPending, continuation |-> continuation]

-----------------------------------------------------------------------------
(* The depacketizer: a state d holds the open fragment (its payload, its   *)
(* timestamp and the sequence number expected next), the access unit being *)
(* collected, and the access units completed by the packets so far.        *)

Discard(d) == [d EXCEPT !.frame = None, !.units = <<>>]
CloseFragment(d) == [d EXCEPT !.fragment = <<>>, !.open = None, !.expected = None]
ResetDepacketizer(d) == CloseFragment(Discard(d))

(* FrameAssembler::push of one unit.  When a new timestamp begins, the     *)
(* marker of its first packet is not looked at.                            *)
Unit(d, i, unit) ==
  LET ts == Timestamp(i)
      all == IF d.frame = None THEN <<unit>> ELSE Append(d.units, unit)
  IN  CASE d.frame \notin {None, ts} ->
             [d EXCEPT !.frame = ts, !.units = <<unit>>,
                       !.done = Append(@, [timestamp |-> d.frame, units |-> d.units, losses |-> d.losses])]
        [] d.frame \in {None, ts} /\ Sent[i].marker ->
             [Discard(d) EXCEPT !.done = Append(@, [timestamp |-> ts, units |-> all, losses |-> d.losses])]
        [] OTHER -> [d EXCEPT !.frame = ts, !.units = all]

(* A unit that interrupts an open fragment discards the access unit. *)
Interrupted(d) == IF d.fragment = <<>> THEN d ELSE CloseFragment(Discard(d))

Whole(d, i) == Unit(Interrupted(d), i, <<i>>)
Start(d, i) ==
  [Interrupted(d) EXCEPT !.fragment = <<i>>, !.open = Timestamp(i),
                         !.expected = After(Sequence(i))]
Continue(d, i) ==
  IF d.fragment = <<>> THEN d
  ELSE IF d.open = Timestamp(i) /\ d.expected = Sequence(i)
  THEN LET grown == [d EXCEPT !.fragment = Append(@, i), !.expected = After(Sequence(i))]
       IN  IF Sent[i].piece = "end"
           THEN Unit(CloseFragment(grown), i, grown.fragment) ELSE grown
  ELSE ResetDepacketizer(d)

Depacketized(d, i) ==
  CASE Sent[i].piece = "whole" -> Whole(d, i)
    [] Sent[i].piece = "start" -> Start(d, i)
    [] OTHER -> Continue(d, i)

(* The loop of InboundStream::push over the released packets: a gap makes  *)
(* the rest of that access unit unusable.                                  *)
GapNever(d, i) == FALSE
Gap(d, i) == d.next # None /\ d.next # Sequence(i)
Released(d, i) ==
  LET gap == Gap(d, i)
      at == IF gap THEN [ResetDepacketizer(d) EXCEPT !.losses = @ + 1, !.damaged = Timestamp(i)]
                   ELSE d
      on == [at EXCEPT !.next = After(Sequence(i))]
  IN  IF on.damaged = Timestamp(i) THEN on
      ELSE Depacketized([on EXCEPT !.damaged = None], i)

-----------------------------------------------------------------------------
(* InboundStream::push *)

Frame(ts) == {i \in Positions : Timestamp(i) = ts}
Starts(ts) == {i \in Frame(ts) : CanStartNal(i)}

(* A packet overtakes only packets of its own frame that the buffer still  *)
(* waits for: the frame fits the buffer, and the marker overtakes nothing, *)
(* unless the frame is a single NAL unit (a later unit with the marker     *)
(* looks like a whole frame).                                              *)
InOrder(i) ==
  \A j \in network : j < i =>
    /\ Timestamp(j) = Timestamp(i)
    /\ Cardinality(Frame(Timestamp(i))) <= MaxReorder
    /\ Sent[i].marker => Cardinality(Starts(Timestamp(i))) = 1

(* Where the loop starts: after stale frames were dropped, at the first    *)
(* packet of the burst.                                                    *)
Resumed(r) ==
  LET d == [fragment |-> depacketizer.fragment, open |-> depacketizer.open,
            expected |-> depacketizer.expected, frame |-> depacketizer.frame,
            units |-> depacketizer.units, next |-> nextSequence,
            damaged |-> damaged, losses |-> losses + r.dropped, done |-> <<>>]
  IN  IF r.dropped = 0 THEN d
      ELSE [ResetDepacketizer(d) EXCEPT !.damaged = None,
              !.next = IF r.ready = <<>> THEN None ELSE Sequence(Head(r.ready))]

(* The loop: the released packets, one after the other.                    *)
Burst(r) ==
  LET after[n \in 0 .. Len(r.ready)] ==
        IF n = 0 THEN Resumed(r) ELSE Released(after[n - 1], r.ready[n])
  IN  after[Len(r.ready)]

Push(i) ==
  /\ failed = "no"
  /\ network' = network \ {i}
  /\ orderly' = (orderly /\ InOrder(i))
  /\ IF Timestamp(i) \notin tracked /\ Cardinality(tracked) >= MaxTracked
     THEN failed' = "tracker full" /\ UNCHANGED <<reorder, depacketizer, nextSequence, damaged, tracked,
                                        completed, losses, resets>>
     ELSE \E r \in {IF Late(i) THEN Kept ELSE Reordered(i)} :
          \E d \in {Burst(r)} :
          /\ packets' = r.packets /\ lastReleased' = r.lastReleased
          /\ continuation' = r.continuation /\ markerPending' = r.markerPending
          /\ depacketizer' = [f \in DOMAIN Empty |-> d[f]]
          /\ nextSequence' = d.next /\ damaged' = d.damaged
          /\ losses' = d.losses
          /\ tracked' = (tracked \cup {Timestamp(i)}) \ {u.timestamp : u \in Range(d.done)}
          /\ completed' = completed \o d.done
          /\ failed' = IF {u.timestamp : u \in Range(d.done)} \subseteq tracked \cup {Timestamp(i)}
                        THEN "no" ELSE "untimed"
          /\ UNCHANGED resets

Deliver(i) == i \in network /\ Push(i)

(* reset_pending: the prediction chain is given up, because of an error    *)
(* here or of another band.  The watermark and next_sequence stay.         *)
ResetPending ==
  /\ failed # "no" \/ resets < MaxResets
  /\ resets' = IF failed # "no" THEN resets ELSE resets + 1
  /\ failed' = "no"
  /\ depacketizer' = Empty
  /\ packets' = {} /\ continuation' = NoContinuation /\ markerPending' = FALSE
  /\ tracked' = {} /\ damaged' = None
  /\ losses' = losses + 1 /\ orderly' = FALSE
  /\ UNCHANGED <<network, lastReleased, nextSequence, completed>>

Next == (\E i \in Positions : Deliver(i)) \/ ResetPending

Spec == Init /\ [][Next]_vars

-----------------------------------------------------------------------------
(* Properties *)

(* A NAL unit, as the positions of its packets. *)
UnitFrom(i) ==
  LET ends == {j \in i .. Len(Sent) : Sent[j].piece \in {"whole", "end"}}
      end == CHOOSE j \in ends : \A k \in ends : j <= k
  IN  [k \in 1 .. end - i + 1 |-> i + k - 1]
OfWholeUnits(u) ==
  /\ \A k \in 1 .. Len(u.units) :
       u.units[k][1] \in Starts(u.timestamp) /\ u.units[k] = UnitFrom(u.units[k][1])
  /\ \A k, l \in 1 .. Len(u.units) : k < l => u.units[k][1] < u.units[l][1]
Complete(u) ==
  /\ OfWholeUnits(u)
  /\ \A i \in Starts(u.timestamp) : \E k \in 1 .. Len(u.units) : u.units[k][1] = i

(* What is handed on can be trusted: access units come in frame order,     *)
(* each made of whole NAL units of its own frame, in order, none spliced   *)
(* from fragments around a gap; and if one is not complete, or a frame is  *)
(* missing before it, a loss has been reported since the one before it, so *)
(* that the caller asks for a key frame.  Only what precedes the first     *)
(* access unit of all can be missing silently.                             *)
Trusted(u, previous) ==
  /\ u.timestamp > previous.timestamp /\ OfWholeUnits(u)
  /\ u.losses = previous.losses =>
       /\ Complete(u)
       /\ \A i \in Positions : ~(previous.timestamp < Timestamp(i) /\ Timestamp(i) < u.timestamp)
NoSilentDamage ==
  \A k \in 2 .. Len(completed) : Trusted(completed[k], completed[k - 1])

(* Reordering alone costs nothing: as long as packets overtake each other  *)
(* only where the buffer waits (InOrder), no loss is reported, and         *)
(* every frame that has arrived has been handed on, complete.              *)
OrderlyIsLossless ==
  orderly =>
    /\ losses = 0
    /\ \A i \in Positions : Frame(Timestamp(i)) \cap network = {} =>
         \E k \in 1 .. Len(completed) :
           completed[k].timestamp = Timestamp(i) /\ Complete(completed[k])

(* The comment in InboundStream::push, where it resumes after the buffer   *)
(* dropped stale frames: "Resume at the first packet of the intact newer   *)
(* burst".  So the first access unit handed on after a loss is complete.   *)
ResumesIntact ==
  \A k \in 2 .. Len(completed) :
    completed[k].losses # completed[k - 1].losses => Complete(completed[k])
=============================================================================
