---------------------------- MODULE SecureStream ----------------------------
(***************************************************************************)
(* One band of the video stream as AvcVideoStreamReceiver::receive_frame   *)
(* of crates/ard-core/src/media_stream/udp.rs runs it: a datagram goes     *)
(* through the band's SRTP context (SrtpReplay), is counted in its         *)
(* reception statistics (ReceptionStats), and is pushed into its stream    *)
(* (RtpStream).  The network loses, reorders and duplicates datagrams.     *)
(*                                                                         *)
(* The statistics count the cycles of the sequence number a second time,   *)
(* from the first packet on; the report of the timer and the jitter are    *)
(* left out.                                                               *)
(***************************************************************************)
EXTENDS RtpStream, SrtpReplay

(* A packet's index; both modules speak of the same sequence numbers.      *)
IndexOf(i) == FirstSequence + i - 1

ASSUME SecureAssumption ==
  /\ SeqModulus = SequenceModulus
  /\ Indices = {IndexOf(i) : i \in Positions}

VARIABLES
  received,        \* ReceptionStats.received, 0 until started
  cycles,          \* ReceptionStats.cycles
  highestSequence, \* ReceptionStats.highest
  base             \* ReceptionStats.base

stats == <<received, cycles, highestSequence, base>>
secureVars == <<vars, srtp, stats>>

StatsInit == received = 0 /\ cycles = 0 /\ highestSequence = 0 /\ base = 0

SecureInit == Init /\ SrtpInit /\ StatsInit

-----------------------------------------------------------------------------
(* ReceptionStats::record.  The distance is taken as an i16.               *)
Extended == cycles * SeqModulus + highestSequence
AdvancesAnywhere(sequence) == sequence # highestSequence
Advances(sequence) ==
  LET delta == (sequence - highestSequence) % SeqModulus IN delta # 0 /\ delta < Half

Record(sequence) ==
  IF received = 0
  THEN /\ received' = 1
       /\ highestSequence' = sequence /\ base' = sequence
       /\ UNCHANGED cycles
  ELSE /\ received' = received + 1
       /\ IF Advances(sequence)
          THEN /\ highestSequence' = sequence
               /\ cycles' = IF sequence < highestSequence THEN cycles + 1 ELSE cycles
          ELSE UNCHANGED <<highestSequence, cycles>>
       /\ UNCHANGED base

(* ReceptionStats::report: the loss since the first packet.                *)
CumulativeLost == Extended - base + 1 - received

-----------------------------------------------------------------------------
(* A datagram arrives, for the first time or again.                        *)
Receive(i) ==
  /\ Decrypt(IndexOf(i))
  /\ Record(SequenceOf(IndexOf(i)))
  /\ Push(i)

(* The pump answers an error of the read by giving up the chain.           *)
Refuse(i) ==
  /\ Refused(IndexOf(i))
  /\ ResetPending
  /\ UNCHANGED <<srtp, stats>>

Recover ==
  /\ ResetPending
  /\ UNCHANGED <<srtp, stats>>

SecureNext == (\E i \in Positions : Receive(i) \/ Refuse(i)) \/ Recover
SecureSpec == SecureInit /\ [][SecureNext]_secureVars

-----------------------------------------------------------------------------
(* Properties *)

(* SRTP gives the stream above it the network that one assumes: every step *)
(* is one of RtpStream, where no packet is delivered twice.                *)
ImplementsStream == Spec

(* The receiver report tells the truth: the packets between the first one  *)
(* decrypted and the newest, less those decrypted, whatever wrapped or was *)
(* refused.                                                                *)
DecryptedCount == Cardinality({i \in Positions : decrypted[IndexOf(i)] > 0})
ReportIsTrue ==
  received > 0 =>
    \E first \in Indices :
      /\ decrypted[first] > 0 /\ SequenceOf(first) = base
      /\ CumulativeLost = highest - first + 1 - DecryptedCount
=============================================================================
