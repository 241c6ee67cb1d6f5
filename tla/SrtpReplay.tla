----------------------------- MODULE SrtpReplay -----------------------------
(***************************************************************************)
(* The receiving half of SrtpContext in                                    *)
(* crates/ard-core/src/media_stream/srtp.rs: the rollover counter that is  *)
(* guessed from a packet's 16-bit sequence number, the authentication that *)
(* tells whether the guess was right, and the replay window.               *)
(*                                                                         *)
(* A packet is its index: its place in the sender's count, which starts in *)
(* cycle 0.  Only the index modulo SeqModulus travels in the packet, and   *)
(* the tag covers the cycle, so that authentication succeeds exactly when  *)
(* the cycle guessed is the sender's.  The cycle stays below 2^32.         *)
(***************************************************************************)
EXTENDS Integers

CONSTANTS
  SeqModulus,    \* 2^16
  WindowSize,    \* 64, the bits of replay_window
  Indices        \* the packets the sender sends

ASSUME SrtpAssumption ==
  /\ SeqModulus \in Nat \ {0} /\ SeqModulus % 2 = 0
  /\ WindowSize \in Nat \ {0} /\ WindowSize <= SeqModulus \div 2
  /\ Indices \subseteq Nat

NoIndex == -1

VARIABLES
  highest,    \* SrtpContext.highest_index
  window,     \* the bits set in replay_window: distances from highest
  decrypted   \* history: how often each packet was decrypted and handed on

srtp == <<highest, window, decrypted>>

SrtpTypeOK ==
  /\ highest \in Nat \cup {NoIndex}
  /\ window \subseteq 0 .. WindowSize - 1
  /\ decrypted \in [Indices -> Nat]

SrtpInit ==
  /\ highest = NoIndex /\ window = {}
  /\ decrypted = [i \in Indices |-> 0]

-----------------------------------------------------------------------------
Half == SeqModulus \div 2
SequenceOf(i) == i % SeqModulus
CycleOf(i) == i \div SeqModulus

(* guess_roc.  Before the first packet the counter is 0; in the first      *)
(* cycle there is none before it (saturating_sub).                         *)
Before(roc) == IF roc = 0 THEN 0 ELSE roc - 1
GuessIgnoringWrap(sequence) == IF highest = NoIndex THEN 0 ELSE CycleOf(highest)
GuessRoc(sequence) ==
  IF highest = NoIndex THEN 0
  ELSE LET last == SequenceOf(highest)
           roc == CycleOf(highest)
       IN  IF last < Half /\ sequence - last > Half THEN Before(roc)
           ELSE IF last >= Half /\ last - sequence > Half THEN roc + 1
           ELSE roc

(* decrypt_authenticated_rtp_packet_in_place: the tag is made with the     *)
(* sender's cycle.                                                         *)
Authentic(i) == GuessRoc(SequenceOf(i)) = CycleOf(i)

(* accept_replay_state. *)
IsReplayOfNewest(i) == highest # NoIndex /\ i = highest
IsReplay(i) == highest # NoIndex /\ i <= highest /\ highest - i \in window
IsTooOld(i) == highest # NoIndex /\ highest - i >= WindowSize

Refused(i) == ~Authentic(i) \/ IsReplay(i) \/ IsTooOld(i)

ShiftedOut(by) == {d + by : d \in window} \cap (0 .. WindowSize - 2)
Shifted(by) == {d + by : d \in window} \cap (0 .. WindowSize - 1)

(* A packet refused is an error and changes nothing.                       *)
Decrypt(i) ==
  /\ ~Refused(i)
  /\ IF i > highest
     THEN /\ window' = IF highest = NoIndex THEN {0} ELSE Shifted(i - highest) \cup {0}
          /\ highest' = i
     ELSE /\ window' = window \cup {highest - i}
          /\ highest' = highest
  /\ decrypted' = [decrypted EXCEPT ![i] = @ + 1]

-----------------------------------------------------------------------------
(* Any packet of the sender may come at any time, and again.               *)
SrtpNext == \E i \in Indices : Decrypt(i)
SrtpSpec == SrtpInit /\ [][SrtpNext]_srtp

-----------------------------------------------------------------------------
(* Properties *)

(* No packet is decrypted and handed on a second time, however often the   *)
(* network delivers it and whatever came in between.                       *)
AtMostOnce == \A i \in Indices : decrypted[i] <= 1

(* A packet not seen yet is never refused as long as it is less than half  *)
(* a cycle ahead of the newest one, or behind it within the window: the    *)
(* guess survives every wrap, and the window remembers nothing that was    *)
(* not decrypted.                                                          *)
InReach(i) == i - highest < Half /\ highest - i < WindowSize
FreshIsAccepted ==
  highest # NoIndex =>
    \A i \in Indices : decrypted[i] = 0 /\ InReach(i) => ~Refused(i)
=============================================================================
