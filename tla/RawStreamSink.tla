---------------------------- MODULE RawStreamSink ---------------------------
(***************************************************************************)
(* RawStreamSink (crates/ard-core/src/raw_stream.rs): the development dump *)
(* of what the server sent.  One sink lives as long as the application     *)
(* (main.rs, raw_stream).  The interface arms it for each take; the        *)
(* recording thread sets the take's origin with its first frame; the       *)
(* session's and the media threads describe their streams and record what  *)
(* they receive.  Every operation but the origin's holds the one lock.     *)
(*                                                                         *)
(* A dump is a pair of files, named after its stream and, from the second  *)
(* take on, its take's number: here <<kind, number>>.  What an entry holds *)
(* is left out.                                                            *)
(***************************************************************************)
EXTENDS Naturals

CONSTANTS
  Kinds,      \* RawStreamKind
  Described   \* the streams that are described: the viewer's is Video

VARIABLES
  takes,    \* how many takes this sink has been armed for
  take,     \* the armed take's number (NoTake: none)
  origin,   \* the armed take's first frame has come
  slot,     \* by stream: the RawStreamDump
  failure,  \* the first failure, which no take clears
  (* history *)
  whole,    \* the files with a footer
  late      \* the streams whose dump was made between two takes

vars == <<takes, take, origin, slot, failure, whole, late>>

NoTake == 0
Slots == [used : BOOLEAN, number : Nat, open : BOOLEAN]
Empty == [used |-> FALSE, number |-> 0, open |-> FALSE]
Planned(number) == [used |-> TRUE, number |-> number, open |-> FALSE]

TypeOK ==
  /\ takes \in Nat /\ take \in {NoTake, takes} /\ origin \in BOOLEAN
  /\ slot \in [Kinds -> Slots]
  /\ failure \in BOOLEAN
  /\ whole \subseteq Kinds \X Nat
  /\ late \subseteq Kinds

Init ==
  /\ takes = 0 /\ take = NoTake /\ origin = FALSE
  /\ slot = [k \in Kinds |-> Empty]
  /\ failure = FALSE
  /\ whole = {} /\ late = {}

-----------------------------------------------------------------------------
(* The application arms the next take when the last one is complete.       *)
StartRecording ==
  /\ take = NoTake
  /\ takes' = takes + 1
  /\ take' = takes + 1 /\ origin' = FALSE
  /\ UNCHANGED <<slot, failure, whole, late>>

FirstFrame ==
  /\ take # NoTake /\ ~origin
  /\ origin' = TRUE
  /\ UNCHANGED <<takes, take, slot, failure, whole, late>>

(* A take without a first frame leaves its slots; otherwise each is        *)
(* closed, and a footer that cannot be written is a failure.               *)
Closed(failed) == {<<k, slot[k].number>> : k \in {j \in Kinds : slot[j].open /\ j \notin failed}}
StopRecording ==
  /\ take # NoTake
  /\ take' = NoTake /\ origin' = FALSE
  /\ IF origin
     THEN \E failed \in SUBSET {k \in Kinds : slot[k].open} :
            /\ slot' = [k \in Kinds |-> Empty]
            /\ whole' = whole \cup Closed(failed)
            /\ failure' = (failure \/ failed # {})
     ELSE UNCHANGED <<slot, whole, failure>>
  /\ UNCHANGED <<takes, late>>

(* The dump that a stream without one gets.  Between takes it is the       *)
(* first take's.                                                           *)
NumberNow == IF take = NoTake THEN 1 ELSE take
SlotOf(k) == IF slot[k].used THEN slot[k] ELSE Planned(NumberNow)

DescribeStream(k) ==
  /\ slot' = [slot EXCEPT ![k] = SlotOf(k)]
  /\ late' = IF take = NoTake /\ takes # 0 /\ ~slot[k].used THEN late \cup {k} ELSE late
  /\ UNCHANGED <<takes, take, origin, failure, whole>>

(* The first entry creates the files, over what has their name; any step   *)
(* of it may fail, and then the dump is given up.                          *)
Appends(k, dump) ==
  /\ slot' = [slot EXCEPT ![k] = [dump EXCEPT !.open = TRUE]]
  /\ whole' = whole \ {<<k, dump.number>>}
  /\ UNCHANGED failure
AppendFails(k, dump) ==
  /\ slot' = [slot EXCEPT ![k] = Empty]
  /\ whole' \in {whole, whole \ {<<k, dump.number>>}}
  /\ failure' = TRUE

(* Nothing is recorded outside a take or after a failure. *)
Record(k) ==
  /\ ~failure /\ take # NoTake /\ origin
  /\ Appends(k, SlotOf(k)) \/ AppendFails(k, SlotOf(k))
  /\ UNCHANGED <<takes, take, origin, late>>

-----------------------------------------------------------------------------
Next ==
  \/ StartRecording \/ FirstFrame \/ StopRecording
  \/ \E k \in Kinds \cap Described : DescribeStream(k)
  \/ \E k \in Kinds : Record(k)

Spec == Init /\ [][Next]_vars

-----------------------------------------------------------------------------
(* Properties *)

(* The end of a take closes every file the take opened: between takes, and *)
(* before a take's first frame, no dump is open.                           *)
StopClosesWhatItOpened == \A k \in Kinds : slot[k].open => take # NoTake /\ origin

(* A dump with its footer is replaced by no later take, in this session or *)
(* the next, unless its stream was described anew between two takes: the   *)
(* name it is then given is the first take's.                              *)
FinishedDumpsStay == [][\A file \in whole : file \in whole' \/ file[1] \in late]_vars

(* What the comment on the file names says (raw_stream.rs:276): a second   *)
(* take cannot silently replace the first take's dump.                     *)
NoTakeReplacesAnother == [][whole \subseteq whole']_vars
=============================================================================
