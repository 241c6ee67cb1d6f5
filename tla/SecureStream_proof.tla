-------------------------- MODULE SecureStream_proof --------------------------
(***************************************************************************)
(* Proofs about SrtpReplay, for any sender, window and even modulus; about *)
(* SecureStream, for any packets that span at most half a cycle of         *)
(* sequence numbers; and about RtpStream, for any frames of such packets.  *)
(* No packet is handed on twice, none that is within reach is refused, RTP *)
(* sees the network it assumes, and the reception statistics are true; the *)
(* access units RTP hands on are never damaged silently, and reordering    *)
(* alone loses none.                                                       *)
(***************************************************************************)
EXTENDS SecureStream, FiniteSetTheorems, FunctionTheorems, SequenceTheorems, WellFoundedInduction, TLAPS

-----------------------------------------------------------------------------
(* Arithmetic of indices, cycles and sequence numbers. *)

LEMMA Euclid ==
  ASSUME NEW m \in Nat \ {0}, NEW x \in Nat
  PROVE  /\ x = m * (x \div m) + (x % m)
         /\ x % m \in 0 .. m - 1 /\ x \div m \in Nat
OBVIOUS

(* Two indices less than a cycle apart are in the same cycle or in         *)
(* neighbouring ones.                                                      *)
LEMMA Neighbours ==
  ASSUME NEW m \in Nat \ {0}, NEW x \in Nat, NEW y \in Nat, x - y < m, y - x < m
  PROVE  \/ x \div m = y \div m /\ x % m = (y % m) + (x - y)
         \/ x \div m = y \div m + 1 /\ x % m = (y % m) + (x - y) - m
         \/ x \div m = y \div m - 1 /\ x % m = (y % m) + (x - y) + m
<1>1. ASSUME NEW c \in Nat, NEW d \in Nat, NEW s \in 0 .. m - 1, NEW t \in 0 .. m - 1,
             m * c + s = m * d + t + (x - y)
      PROVE  \/ c = d /\ s = t + (x - y)
             \/ c = d + 1 /\ s = t + (x - y) - m
             \/ c = d - 1 /\ s = t + (x - y) + m
  BY <1>1
<1> DEFINE c == x \div m
           d == y \div m
           s == x % m
           t == y % m
<1>2. x = m * c + s /\ s \in 0 .. m - 1 /\ c \in Nat
  BY Euclid
<1>3. y = m * d + t /\ t \in 0 .. m - 1 /\ d \in Nat
  BY Euclid
<1> HIDE DEF c, d, s, t
<1>4. m * c \in Int /\ m * d \in Int
  BY <1>2, <1>3
<1>5. m * c + s = m * d + t + (x - y)
  BY <1>2, <1>3, <1>4
<1>6. \/ c = d /\ s = t + (x - y)
      \/ c = d + 1 /\ s = t + (x - y) - m
      \/ c = d - 1 /\ s = t + (x - y) + m
  BY <1>1, <1>2, <1>3, <1>5
<1> QED
  BY <1>6 DEF c, d, s, t

LEMMA HalfIsHalf ==
  /\ SeqModulus \in Nat \ {0} /\ Half \in Nat \ {0} /\ SeqModulus = 2 * Half
  /\ WindowSize \in Nat \ {0} /\ WindowSize <= Half
BY SrtpAssumption DEF Half

(* The cycle of a packet less than half a cycle away from the newest one   *)
(* is guessed right, whichever of the two has wrapped.                     *)
LEMMA GuessIsRight ==
  ASSUME highest \in Nat, NEW i \in Nat, i - highest < Half, highest - i < Half
  PROVE  Authentic(i)
<1>1. /\ i = SeqModulus * CycleOf(i) + SequenceOf(i)
      /\ SequenceOf(i) \in 0 .. SeqModulus - 1 /\ CycleOf(i) \in Nat
  BY HalfIsHalf, Euclid DEF CycleOf, SequenceOf
<1>2. /\ highest = SeqModulus * CycleOf(highest) + SequenceOf(highest)
      /\ SequenceOf(highest) \in 0 .. SeqModulus - 1 /\ CycleOf(highest) \in Nat
  BY HalfIsHalf, Euclid DEF CycleOf, SequenceOf
<1> DEFINE k == i - highest
<1>3. \/ CycleOf(i) = CycleOf(highest) /\ SequenceOf(i) = SequenceOf(highest) + k
      \/ CycleOf(i) = CycleOf(highest) + 1 /\ SequenceOf(i) = SequenceOf(highest) + k - SeqModulus
      \/ CycleOf(i) = CycleOf(highest) - 1 /\ SequenceOf(i) = SequenceOf(highest) + k + SeqModulus
  <2>1. SeqModulus \in Nat \ {0} /\ i - highest < SeqModulus /\ highest - i < SeqModulus
    BY HalfIsHalf
  <2> QED
    BY <2>1, Neighbours DEF CycleOf, SequenceOf
<1> HIDE DEF SequenceOf, CycleOf
<1>4. k \in Int /\ k < Half /\ -k < Half
  BY HalfIsHalf
<1> HIDE DEF k
<1>5. highest # NoIndex
  BY DEF NoIndex
<1>6. CASE CycleOf(i) = CycleOf(highest) /\ SequenceOf(i) = SequenceOf(highest) + k
  BY <1>1, <1>2, <1>4, <1>5, <1>6, HalfIsHalf DEF Authentic, GuessRoc
<1>7. CASE /\ CycleOf(i) = CycleOf(highest) + 1
           /\ SequenceOf(i) = SequenceOf(highest) + k - SeqModulus
  BY <1>1, <1>2, <1>4, <1>5, <1>7, HalfIsHalf DEF Authentic, GuessRoc
<1>8. CASE /\ CycleOf(i) = CycleOf(highest) - 1
           /\ SequenceOf(i) = SequenceOf(highest) + k + SeqModulus
  BY <1>1, <1>2, <1>4, <1>5, <1>8, HalfIsHalf DEF Authentic, GuessRoc, Before
<1> QED
  BY <1>3, <1>6, <1>7, <1>8

-----------------------------------------------------------------------------
(* SRTP *)

(* What the window knows: the packets decrypted within its reach, and only *)
(* those; nothing newer than the newest was decrypted.                     *)
WindowIsTrue ==
  /\ highest # NoIndex => highest \in Indices
  /\ \A i \in Indices : decrypted[i] > 0 => i <= highest
  /\ \A i \in Indices :
       i <= highest /\ highest - i < WindowSize =>
         (highest - i \in window <=> decrypted[i] > 0)

SrtpInv == SrtpTypeOK /\ WindowIsTrue /\ AtMostOnce

LEMMA SrtpInitially == SrtpInit => SrtpInv
BY SrtpAssumption DEF SrtpInit, SrtpInv, SrtpTypeOK, WindowIsTrue, AtMostOnce, NoIndex

(* A packet that is not refused was not decrypted before.                  *)
LEMMA AcceptedIsNew ==
  ASSUME SrtpInv, NEW i \in Indices, ~Refused(i)
  PROVE  decrypted[i] = 0
<1>1. decrypted[i] \in Nat /\ i \in Nat /\ highest \in Int
  BY SrtpAssumption DEF SrtpInv, SrtpTypeOK, NoIndex
<1>2. CASE decrypted[i] > 0
  <2>1. i <= highest /\ highest # NoIndex
    BY <1>1, <1>2 DEF SrtpInv, WindowIsTrue, NoIndex
  <2>2. highest - i < WindowSize
    BY <1>1, <2>1, HalfIsHalf DEF Refused, IsTooOld
  <2>3. highest - i \in window
    BY <1>2, <2>1, <2>2 DEF SrtpInv, WindowIsTrue
  <2> QED
    BY <2>1, <2>3 DEF Refused, IsReplay
<1> QED
  BY <1>1, <1>2

(* A packet ahead of the newest moves the window; what leaves it is out of *)
(* reach.                                                                  *)
LEMMA DecryptNewer ==
  ASSUME SrtpInv, NEW i \in Indices, Decrypt(i), i > highest
  PROVE  SrtpInv'
<1>1. /\ highest' = i /\ i \in Nat /\ highest \in Nat \cup {-1}
      /\ window' = IF highest = NoIndex THEN {0} ELSE Shifted(i - highest) \cup {0}
      /\ decrypted' = [decrypted EXCEPT ![i] = @ + 1]
      /\ decrypted \in [Indices -> Nat] /\ window \subseteq 0 .. WindowSize - 1
  BY SrtpAssumption DEF Decrypt, SrtpInv, SrtpTypeOK, NoIndex
<1>2. decrypted[i] = 0
  BY <1>1 DEF SrtpInv, WindowIsTrue
<1>3. \A j \in Indices : decrypted'[j] = IF j = i THEN 1 ELSE decrypted[j]
  BY <1>1, <1>2
<1>4. SrtpTypeOK'
  BY <1>1, HalfIsHalf DEF SrtpTypeOK, Shifted
<1>5. AtMostOnce'
  BY <1>3 DEF SrtpInv, AtMostOnce
<1>6. \A j \in Indices : decrypted'[j] > 0 => j <= highest'
  BY <1>1, <1>3, SrtpAssumption DEF SrtpInv, WindowIsTrue
<1>7. ASSUME NEW j \in Indices, j <= i, i - j < WindowSize
      PROVE  i - j \in window' <=> decrypted'[j] > 0
  <2>1. j \in Nat /\ decrypted[j] \in Nat
    BY SrtpAssumption, <1>1
  <2>2. CASE j = i
    BY <2>2, <1>1, <1>3
  <2>3. CASE j # i /\ highest = NoIndex
    BY <2>1, <2>3, <1>1, <1>3, <1>7 DEF NoIndex, SrtpInv, WindowIsTrue
  <2>4. CASE j # i /\ highest # NoIndex /\ j > highest
    <3>1. i - j \notin window'
      BY <2>1, <2>4, <1>1, <1>7, HalfIsHalf DEF Shifted, NoIndex
    <3>2. decrypted'[j] = 0
      BY <2>1, <2>4, <1>1, <1>3 DEF SrtpInv, WindowIsTrue
    <3> QED
      BY <3>1, <3>2
  <2>5. CASE j # i /\ highest # NoIndex /\ j <= highest
    <3>1. highest - j < WindowSize /\ highest - j \in Int
      BY <2>1, <2>5, <1>1, <1>7, HalfIsHalf DEF NoIndex
    <3>2. highest - j \in window <=> decrypted[j] > 0
      BY <2>5, <3>1 DEF SrtpInv, WindowIsTrue
    <3>3. i - j \in window' <=> highest - j \in window
      BY <2>1, <2>5, <3>1, <1>1, <1>7, HalfIsHalf DEF Shifted, NoIndex
    <3> QED
      BY <3>2, <3>3, <2>5, <1>3
  <2> QED
    BY <2>1, <2>2, <2>3, <2>4, <2>5, <1>1
<1>8. WindowIsTrue'
  BY <1>1, <1>6, <1>7 DEF WindowIsTrue
<1> QED
  BY <1>4, <1>5, <1>8 DEF SrtpInv

(* A packet behind the newest one gets its bit.                            *)
LEMMA DecryptOlder ==
  ASSUME SrtpInv, NEW i \in Indices, Decrypt(i), ~(i > highest)
  PROVE  SrtpInv'
<1>1. /\ highest' = highest /\ i \in Nat /\ highest \in Nat /\ i <= highest
      /\ window' = window \cup {highest - i}
      /\ decrypted' = [decrypted EXCEPT ![i] = @ + 1]
      /\ decrypted \in [Indices -> Nat] /\ window \subseteq 0 .. WindowSize - 1
  BY SrtpAssumption DEF Decrypt, SrtpInv, SrtpTypeOK, NoIndex
<1>2. decrypted[i] = 0 /\ highest - i < WindowSize
  BY AcceptedIsNew, <1>1, HalfIsHalf DEF Decrypt, Refused, IsTooOld, NoIndex
<1>3. \A j \in Indices : decrypted'[j] = IF j = i THEN 1 ELSE decrypted[j]
  BY <1>1, <1>2
<1>4. SrtpTypeOK'
  BY <1>1, <1>2, HalfIsHalf DEF SrtpTypeOK
<1>5. AtMostOnce'
  BY <1>3 DEF SrtpInv, AtMostOnce
<1>6. \A j \in Indices : highest - j = highest - i => j = i
  BY <1>1, SrtpAssumption
<1>7. WindowIsTrue'
  BY <1>1, <1>3, <1>6 DEF SrtpInv, WindowIsTrue
<1> QED
  BY <1>4, <1>5, <1>7 DEF SrtpInv

LEMMA DecryptKeeps ==
  ASSUME SrtpInv, NEW i \in Indices, Decrypt(i)
  PROVE  SrtpInv'
BY DecryptNewer, DecryptOlder

LEMMA SrtpStutters ==
  ASSUME SrtpInv, UNCHANGED srtp
  PROVE  SrtpInv'
BY DEF SrtpInv, SrtpTypeOK, WindowIsTrue, AtMostOnce, srtp

LEMMA InReachIsAccepted == SrtpInv => FreshIsAccepted
<1> SUFFICES ASSUME SrtpInv, highest # NoIndex,
                    NEW i \in Indices, decrypted[i] = 0, InReach(i)
             PROVE  ~Refused(i)
  BY DEF FreshIsAccepted
<1>1. highest \in Nat /\ i \in Nat
  BY SrtpAssumption DEF SrtpInv, SrtpTypeOK
<1>2. Authentic(i)
  BY <1>1, HalfIsHalf, GuessIsRight DEF InReach
<1>3. ~IsTooOld(i)
  BY <1>1, HalfIsHalf DEF InReach, IsTooOld
<1>4. ~IsReplay(i)
  BY <1>1 DEF InReach, IsReplay, SrtpInv, WindowIsTrue
<1> QED
  BY <1>2, <1>3, <1>4 DEF Refused

(* Whatever arrives in whatever order and however often, SRTP hands no     *)
(* packet on twice, and refuses none that is new and in reach.             *)
THEOREM SrtpIsSafe == SrtpSpec => [](AtMostOnce /\ FreshIsAccepted)
<1>1. SrtpInv /\ [SrtpNext]_srtp => SrtpInv'
  BY DecryptKeeps, SrtpStutters DEF SrtpNext
<1>2. SrtpInv => AtMostOnce /\ FreshIsAccepted
  BY InReachIsAccepted DEF SrtpInv
<1> QED
  BY <1>1, <1>2, SrtpInitially, PTL DEF SrtpSpec

-----------------------------------------------------------------------------
(* SRTP, the stream and the statistics together *)

(* What the network still has to bring is what was not decrypted.          *)
NetworkIsTheRest == network = {i \in Positions : decrypted[IndexOf(i)] = 0}

(* The statistics follow SRTP: they count the same packets, agree on the   *)
(* newest one, and are as far from their first as that one is.             *)
StatsFollow ==
  /\ received = DecryptedCount
  /\ received = 0 <=> highest = NoIndex
  /\ received = 0 => cycles = 0
  /\ cycles \in Nat
  /\ received > 0 =>
       /\ highestSequence = SequenceOf(highest)
       /\ \E first \in Indices :
            /\ decrypted[first] > 0 /\ SequenceOf(first) = base
            /\ Extended - base = highest - first

SecureInv == SrtpInv /\ NetworkIsTheRest /\ StatsFollow

(* All packets are within half a cycle, and each has one index.            *)
LEMMA PositionsAndIndices ==
  /\ Len(Sent) \in Nat /\ Len(Sent) <= Half /\ Positions = 1 .. Len(Sent)
  /\ \A i \in Positions : IndexOf(i) \in Indices
  /\ \A i, j \in Positions : IndexOf(i) = IndexOf(j) => i = j
  /\ \A i, j \in Indices : i \in Nat /\ j \in Nat /\ i - j < Half
  /\ \A i \in Indices : SequenceOf(i) \in 0 .. SeqModulus - 1
  /\ Indices = {IndexOf(i) : i \in Positions}
<1>1. /\ Len(Sent) \in Nat /\ Positions = 1 .. Len(Sent)
      /\ Indices = {IndexOf(i) : i \in Positions} /\ FirstSequence \in Nat
  BY RtpAssumption, SecureAssumption DEF Positions
<1>2. Len(Sent) <= Half
  BY <1>1, RtpAssumption, SecureAssumption, HalfIsHalf
<1>3. \A i, j \in Positions : IndexOf(i) = IndexOf(j) => i = j
  BY <1>1 DEF IndexOf
<1>4. \A i, j \in Positions : IndexOf(i) - IndexOf(j) < Half /\ IndexOf(i) \in Nat
  BY <1>1, <1>2, HalfIsHalf DEF IndexOf
<1>5. \A i \in Indices : SequenceOf(i) \in 0 .. SeqModulus - 1
  BY SrtpAssumption, Euclid DEF SequenceOf
<1> QED
  BY <1>1, <1>2, <1>3, <1>4, <1>5

LEMMA SecureInitially == SecureInit => SecureInv
<1> SUFFICES ASSUME SecureInit PROVE SecureInv
  OBVIOUS
<1>1. SrtpInv
  BY SrtpInitially DEF SecureInit
<1>2. \A i \in Positions : decrypted[IndexOf(i)] = 0
  BY PositionsAndIndices DEF SecureInit, SrtpInit
<1>3. NetworkIsTheRest
  BY <1>2 DEF SecureInit, Init, NetworkIsTheRest
<1>4. DecryptedCount = 0
  <2>1. {i \in Positions : decrypted[IndexOf(i)] > 0} = {}
    BY <1>2
  <2> QED
    BY <2>1, FS_EmptySet DEF DecryptedCount
<1>5. StatsFollow
  BY <1>4 DEF SecureInit, StatsInit, SrtpInit, StatsFollow, NoIndex
<1> QED
  BY <1>1, <1>3, <1>5 DEF SecureInv

(* ReceptionStats::record sees the newest packet as SRTP does, and one     *)
(* behind it as old.                                                       *)
LEMMA RecordAgrees ==
  ASSUME NEW h \in Indices, NEW i \in Indices, highestSequence = SequenceOf(h)
  PROVE  /\ Advances(SequenceOf(i)) <=> i > h
         /\ i > h =>
              LET turn == IF SequenceOf(i) < highestSequence THEN SeqModulus ELSE 0
              IN  SequenceOf(i) + turn = highestSequence + (i - h)
<1>1. /\ h \in Nat /\ i \in Nat /\ i - h < Half /\ h - i < Half
      /\ SequenceOf(i) \in 0 .. SeqModulus - 1 /\ SequenceOf(h) \in 0 .. SeqModulus - 1
  BY PositionsAndIndices
<1>2. \/ SequenceOf(i) = SequenceOf(h) + (i - h)
      \/ SequenceOf(i) = SequenceOf(h) + (i - h) - SeqModulus
      \/ SequenceOf(i) = SequenceOf(h) + (i - h) + SeqModulus
  <2>1. SeqModulus \in Nat \ {0} /\ i - h < SeqModulus /\ h - i < SeqModulus
    BY <1>1, HalfIsHalf
  <2> QED
    BY <1>1, <2>1, Neighbours DEF SequenceOf
<1> DEFINE delta == (SequenceOf(i) - highestSequence) % SeqModulus
<1>3. delta = IF i >= h THEN i - h ELSE i - h + SeqModulus
  <2>1. \A x \in Int : /\ x \in 0 .. SeqModulus - 1 => x % SeqModulus = x
                       /\ x \in -SeqModulus .. -1 => x % SeqModulus = x + SeqModulus
    BY HalfIsHalf, SrtpAssumption
  <2> HIDE DEF SequenceOf
  <2>2. SequenceOf(i) - highestSequence \in {i - h, i - h + SeqModulus, i - h - SeqModulus}
    BY <1>1, <1>2, HalfIsHalf
  <2> QED
    BY <2>1, <2>2, <1>1, HalfIsHalf
<1>4. Advances(SequenceOf(i)) <=> delta # 0 /\ delta < Half
  BY DEF Advances
<1> HIDE DEF delta, SequenceOf
<1>5. Advances(SequenceOf(i)) <=> i > h
  BY <1>1, <1>3, <1>4, HalfIsHalf
<1> QED
  BY <1>1, <1>2, <1>5, HalfIsHalf

(* A packet decrypted is one more.                                         *)
LEMMA CountsOneMore ==
  ASSUME SrtpInv, NEW i \in Positions, Decrypt(IndexOf(i))
  PROVE  /\ DecryptedCount' = DecryptedCount + 1 /\ DecryptedCount \in Nat
         /\ decrypted[IndexOf(i)] = 0
         /\ \A j \in Positions :
              decrypted'[IndexOf(j)] = IF j = i THEN 1 ELSE decrypted[IndexOf(j)]
<1> DEFINE before == {j \in Positions : decrypted[IndexOf(j)] > 0}
           now == {j \in Positions : decrypted'[IndexOf(j)] > 0}
<1>1. IndexOf(i) \in Indices /\ decrypted[IndexOf(i)] = 0
  BY PositionsAndIndices, AcceptedIsNew DEF Decrypt
<1>2. \A j \in Indices : decrypted'[j] = IF j = IndexOf(i) THEN 1 ELSE decrypted[j]
  BY <1>1 DEF Decrypt, SrtpInv, SrtpTypeOK
<1>3. \A j \in Positions :
        decrypted'[IndexOf(j)] = IF j = i THEN 1 ELSE decrypted[IndexOf(j)]
  BY <1>2, PositionsAndIndices
<1>4. now = before \cup {i} /\ i \notin before
  BY <1>1, <1>3
<1>5. IsFiniteSet(before)
  <2>1. IsFiniteSet(Positions)
    BY PositionsAndIndices, FS_Interval
  <2> QED
    BY <2>1, FS_Subset
<1> HIDE DEF before, now
<1>6. Cardinality(now) = Cardinality(before) + 1 /\ Cardinality(before) \in Nat
  BY <1>4, <1>5, FS_AddElement, FS_CardinalityType
<1> QED
  BY <1>1, <1>3, <1>6 DEF DecryptedCount, before, now

LEMMA ReceiveKeepsStats ==
  ASSUME SecureInv, NEW i \in Positions, Receive(i)
  PROVE  StatsFollow'
<1> DEFINE x == IndexOf(i)
<1>1. x \in Indices /\ Decrypt(x) /\ Record(SequenceOf(x)) /\ x \in Nat
  BY PositionsAndIndices DEF Receive
<1>2. /\ SrtpInv /\ StatsFollow /\ highest \in Nat \cup {NoIndex}
      /\ decrypted \in [Indices -> Nat] /\ SeqModulus \in Nat
  BY HalfIsHalf DEF SecureInv, SrtpInv, SrtpTypeOK
<1>3. /\ DecryptedCount' = received + 1 /\ received \in Nat
      /\ decrypted[x] = 0 /\ decrypted'[x] = 1
      /\ \A j \in Indices : decrypted[j] > 0 => decrypted'[j] > 0
  <2>1. /\ DecryptedCount' = DecryptedCount + 1 /\ DecryptedCount \in Nat
        /\ decrypted[x] = 0 /\ decrypted'[x] = 1
    BY <1>1, <1>2, CountsOneMore
  <2>2. received = DecryptedCount
    BY <1>2 DEF StatsFollow
  <2>3. decrypted' = [decrypted EXCEPT ![x] = @ + 1]
    BY <1>1 DEF Decrypt
  <2> HIDE DEF x
  <2>4. \A j \in Indices : decrypted[j] > 0 => decrypted'[j] > 0
    BY <2>3, <1>1, <1>2
  <2> QED
    BY <2>1, <2>2, <2>4
<1>4. highest' = IF x > highest THEN x ELSE highest
  BY <1>1 DEF Decrypt
<1>5. received' = received + 1
  BY <1>1, <1>3 DEF Record
<1>6. CASE received = 0
  <2>1. highest = NoIndex /\ highest' = x /\ cycles' = 0 /\ highest' # NoIndex
    BY <1>1, <1>2, <1>4, <1>6 DEF StatsFollow, Record, NoIndex
  <2>2. highestSequence' = SequenceOf(x) /\ base' = SequenceOf(x)
    BY <1>1, <1>6 DEF Record
  <2>3. Extended' - base' = highest' - x
    <3>1. SequenceOf(x) \in Int
      BY <1>1, PositionsAndIndices
    <3> HIDE DEF x, SequenceOf
    <3> QED
      BY <2>1, <2>2, <3>1, <1>1, <1>2 DEF Extended
  <2> HIDE DEF x
  <2> QED
    BY <2>1, <2>2, <2>3, <1>1, <1>3, <1>5 DEF StatsFollow, SequenceOf
<1>7. CASE received > 0
  <2>1. /\ highest \in Indices /\ highest \in Nat /\ highestSequence = SequenceOf(highest)
        /\ cycles \in Nat /\ highestSequence \in Nat /\ SequenceOf(x) \in Nat
    BY <1>1, <1>2, <1>7, PositionsAndIndices DEF StatsFollow, SrtpInv, WindowIsTrue
  <2>2. PICK first \in Indices :
          /\ decrypted[first] > 0 /\ SequenceOf(first) = base
          /\ Extended - base = highest - first
    BY <1>2, <1>7 DEF StatsFollow
  <2>3. base' = base /\ decrypted'[first] > 0
    BY <1>1, <1>3, <1>7, <2>2 DEF Record
  <2>4. CASE x > highest
    <3>1. /\ highestSequence' = SequenceOf(x)
          /\ cycles' = IF SequenceOf(x) < highestSequence THEN cycles + 1 ELSE cycles
      BY <1>1, <1>7, <2>1, <2>4, RecordAgrees DEF Record
    <3>2. SequenceOf(x) + (IF SequenceOf(x) < highestSequence THEN SeqModulus ELSE 0)
            = highestSequence + (x - highest)
      BY <1>1, <2>1, <2>4, RecordAgrees
    <3>3. (cycles + 1) * SeqModulus = cycles * SeqModulus + SeqModulus
          /\ cycles * SeqModulus \in Nat
      BY <1>2, <2>1
    <3> HIDE DEF x
    <3>4. Extended' = Extended + (x - highest)
      <4> HIDE DEF SequenceOf
      <4> QED
        BY <3>1, <3>2, <3>3, <2>1, <1>1, <1>2 DEF Extended
    <3>5. Extended \in Int /\ base \in Int /\ first \in Int
      <4>1. first \in Int /\ SequenceOf(first) \in Int
        BY <2>2, PositionsAndIndices
      <4> HIDE DEF SequenceOf
      <4>2. Extended \in Int
        BY <2>1, <3>3 DEF Extended
      <4> QED
        BY <2>2, <4>1, <4>2
    <3>6. Extended' - base' = highest' - first
      BY <3>4, <3>5, <2>1, <2>2, <2>3, <2>4, <1>1, <1>4
    <3>7. highestSequence' = SequenceOf(x) /\ highest' = x /\ cycles' \in Nat
          /\ highest' # NoIndex
      BY <3>1, <2>1, <2>4, <1>1, <1>4 DEF NoIndex
    <3> QED
      BY <3>6, <3>7, <2>2, <2>3, <1>3, <1>5 DEF StatsFollow, SequenceOf
  <2>5. CASE ~(x > highest)
    <3>1. UNCHANGED <<highestSequence, cycles, highest>>
      BY <1>1, <1>4, <1>7, <2>1, <2>5, RecordAgrees DEF Record
    <3>2. Extended' = Extended
      BY <3>1 DEF Extended
    <3>3. highest' # NoIndex
      BY <3>1, <2>1 DEF NoIndex
    <3>4. cycles' \in Nat /\ highestSequence' = SequenceOf(highest') /\ highest' = highest
      BY <3>1, <2>1
    <3> QED
      BY <3>2, <3>3, <3>4, <2>2, <2>3, <1>3, <1>5 DEF StatsFollow, SequenceOf
  <2> QED
    BY <2>4, <2>5
<1> QED
  BY <1>3, <1>6, <1>7

LEMMA ReceiveKeeps ==
  ASSUME SecureInv, NEW i \in Positions, Receive(i)
  PROVE  SecureInv' /\ i \in network
<1>1. SrtpInv'
  BY PositionsAndIndices, DecryptKeeps DEF SecureInv, Receive
<1>2. i \in network
  BY CountsOneMore DEF SecureInv, NetworkIsTheRest, Receive
<1>3. NetworkIsTheRest'
  <2>1. network' = network \ {i}
    BY DEF Receive, Push
  <2> QED
    BY <2>1, CountsOneMore DEF SecureInv, NetworkIsTheRest, Receive
<1> QED
  BY <1>1, <1>2, <1>3, ReceiveKeepsStats DEF SecureInv

(* A packet refused, or a chain given up, touches neither.                 *)
LEMMA QuietKeeps ==
  ASSUME SecureInv, UNCHANGED <<network, srtp, stats>>
  PROVE  SecureInv'
<1>1. SrtpInv'
  BY SrtpStutters DEF SecureInv
<1>2. NetworkIsTheRest'
  BY DEF SecureInv, NetworkIsTheRest, srtp
<1>3. StatsFollow'
  BY DEF SecureInv, StatsFollow, DecryptedCount, Extended, srtp, stats
<1> QED
  BY <1>1, <1>2, <1>3 DEF SecureInv

(* Each step keeps the invariant, and is one of RtpStream or changes       *)
(* nothing there.                                                          *)
LEMMA SecureSteps ==
  ASSUME SecureInv, [SecureNext]_secureVars
  PROVE  SecureInv' /\ [Next]_vars
<1>1. ASSUME NEW i \in Positions, Receive(i)
      PROVE  SecureInv' /\ [Next]_vars
  BY <1>1, ReceiveKeeps DEF Receive, Deliver, Next
<1>2. ASSUME ResetPending, UNCHANGED <<srtp, stats>>
      PROVE  SecureInv' /\ [Next]_vars
  BY <1>2, QuietKeeps DEF ResetPending, Next
<1>3. CASE UNCHANGED secureVars
  BY <1>3, QuietKeeps DEF secureVars, vars
<1> QED
  BY <1>1, <1>2, <1>3 DEF SecureNext, Refuse, Recover

LEMMA FollowingIsTrue == SecureInv => ReportIsTrue
<1> SUFFICES ASSUME SecureInv, received > 0 PROVE ReportIsTrue
  BY DEF ReportIsTrue
<1>1. PICK first \in Indices :
        /\ decrypted[first] > 0 /\ SequenceOf(first) = base
        /\ Extended - base = highest - first
  BY DEF SecureInv, StatsFollow
<1>2. CumulativeLost = highest - first + 1 - DecryptedCount
  BY <1>1 DEF CumulativeLost, SecureInv, StatsFollow
<1> QED
  BY <1>1, <1>2 DEF ReportIsTrue

(* What SRTP and the statistics promise of a band: nothing new and in      *)
(* reach is refused, and the receiver report tells how much was lost.      *)
THEOREM BandIsAccountedFor == SecureSpec => [](FreshIsAccepted /\ ReportIsTrue)
<1>1. SecureInv /\ [SecureNext]_secureVars => SecureInv'
  BY SecureSteps
<1>2. SecureInv => FreshIsAccepted /\ ReportIsTrue
  BY InReachIsAccepted, FollowingIsTrue DEF SecureInv
<1> QED
  BY <1>1, <1>2, SecureInitially, PTL DEF SecureSpec

(* The network duplicates packets, the stream never sees one twice: every  *)
(* behaviour of the band is one of RtpStream, where each packet is         *)
(* delivered once or never.                                                *)
THEOREM SecureImplementsStream == SecureSpec => ImplementsStream
<1>1. SecureInv /\ [SecureNext]_secureVars => SecureInv'
  BY SecureSteps
<1>2. SecureInv /\ [SecureNext]_secureVars => [Next]_vars
  BY SecureSteps
<1>3. SecureInit => Init
  BY DEF SecureInit
<1> QED
  BY <1>1, <1>2, <1>3, SecureInitially, PTL DEF SecureSpec, ImplementsStream, Spec

-----------------------------------------------------------------------------
(* The stream: RtpStream by itself, for any packets as FramesAssumption    *)
(* has them.  The argument follows one position p, that of the last packet *)
(* released or given up: the loop's state is a function of what lies       *)
(* before p, the buffer holds packets behind it.                           *)

(* Positions s to e, as the sequence a fragment or unit of them is.        *)
Span(s, e) == [k \in 1 .. e - s + 1 |-> s + k - 1]

AccessUnits == [timestamp : Nat, units : Seq(Seq(Positions)), losses : Nat]
Depacketizers ==
  [fragment : Seq(Positions), open : Nat \cup {None}, expected : {None} \cup 0 .. SequenceModulus - 1,
   frame : Nat \cup {None}, units : Seq(Seq(Positions)),
   next : {None} \cup 0 .. SequenceModulus - 1, damaged : Nat \cup {None},
   losses : Nat, done : Seq(AccessUnits)]

WholeUnits(t, units) == OfWholeUnits([timestamp |-> t, units |-> units])

(* What follows is about a state d of the loop when the packet at p was    *)
(* the last one released, and h is all that was handed on so far.          *)

(* The open fragment is a run up to p, from a start.                       *)
FragmentAt(d, p) ==
  d.fragment # <<>> =>
    /\ d.open = Timestamp(p) /\ d.expected = Sequence(p + 1)
    /\ \E s \in 1 .. p :
         /\ d.fragment = Span(s, p) /\ Sent[s].piece = "start"
         /\ \A j \in s .. p : Timestamp(j) = Timestamp(p) /\ Sent[j].piece \in {"start", "middle"}
         /\ \A j \in s + 1 .. p : Sent[j].piece = "middle"

(* The frame being collected is that of p, has not ended, and its units    *)
(* are whole; a unit in the middle of which p is has its fragment open.    *)
FrameAt(d, p) ==
  /\ d.frame = None => d.units = <<>>
  /\ d.frame # None =>
       /\ p > 0 /\ d.damaged = None /\ d.frame = Timestamp(p) /\ ~Sent[p].marker
       /\ WholeUnits(d.frame, d.units)
       /\ \A k \in 1 .. Len(d.units) :
            d.units[k][1] <= p /\ (d.fragment # <<>> => d.units[k][1] < d.fragment[1])
       /\ Sent[p].piece \in {"start", "middle"} => d.fragment # <<>>

DamageAt(d, p) ==
  d.damaged # None => p > 0 /\ Timestamp(p) = d.damaged /\ d.fragment = <<>> /\ d.frame = None

(* What was handed on can be trusted, and all of it is behind p.           *)
HistoryAt(h, d, p) ==
  /\ h \in Seq(AccessUnits)
  /\ \A k \in 2 .. Len(h) : Trusted(h[k], h[k - 1])
  /\ \A k \in 1 .. Len(h) : h[k].losses <= d.losses
  /\ \A k \in 1 .. Len(h) : \A j \in Positions : Timestamp(j) <= h[k].timestamp => j <= p

LastTimestamp(h) == IF h = <<>> THEN None ELSE h[Len(h)].timestamp
Clean(h, d) == h # <<>> /\ d.losses = h[Len(h)].losses

(* Of the frames after t, up to p, nothing is missing.                     *)
Holds(d, j) ==
  \/ \E k \in 1 .. Len(d.units) : d.units[k][1] = j
  \/ d.fragment # <<>> /\ d.fragment[1] = j
Gapless(d, p, t) ==
  /\ d.damaged = None
  /\ p > 0 =>
       /\ \A j \in Positions : t < Timestamp(j) => Timestamp(p) <= Timestamp(j)
       /\ Sent[p].marker => Timestamp(p) <= t
       /\ Sent[p].piece \in {"start", "middle"} => d.fragment # <<>>
  /\ \A j \in 1 .. p : CanStartNal(j) /\ t < Timestamp(j) => Holds(d, j)

Inside(h, d, p) ==
  /\ d \in Depacketizers
  /\ FragmentAt(d, p) /\ FrameAt(d, p) /\ DamageAt(d, p) /\ HistoryAt(h, d, p)
  /\ Clean(h, d) => Gapless(d, p, LastTimestamp(h))
NextAt(h, d, p) ==
  \/ d.next = Sequence(p + 1)
  \/ d.next = None /\ d.fragment = <<>> /\ d.frame = None /\ d.damaged = None /\ ~Clean(h, d)

(* Nothing was lost so far.                                                *)
HandedOn(h, t) == \E k \in 1 .. Len(h) : h[k].timestamp = t /\ Complete(h[k])
Lossless(h, d, p) ==
  /\ d.losses = 0 /\ (p > 0 => d.next = Sequence(p + 1))
  /\ Gapless(d, p, LastTimestamp(h))
  /\ \A j \in 1 .. p : Sent[j].marker => HandedOn(h, Timestamp(j))

(* The reorder buffer, when p was the last packet released or given up.    *)
BufferAt(p) ==
  /\ lastReleased = IF p = 0 THEN None ELSE Sequence(p)
  /\ \A i \in packets : i > p /\ Timestamp(i) \in tracked

OrderAt(p) ==
  /\ \A i \in Positions \ network : InOrder(i)
  /\ Positions \ network = (1 .. p) \cup packets
  /\ \A m \in packets : Sent[m].marker =>
       markerPending /\ \E hole \in network : p < hole /\ hole < m
  /\ continuation = IF p = 0 \/ Sent[p].marker THEN NoContinuation
                    ELSE <<Sequence(p + 1), Timestamp(p)>>
  /\ \A t \in tracked : /\ \E j \in Positions \ network : Timestamp(j) = t
                        /\ \A k \in 1 .. Len(completed) : completed[k].timestamp # t

Now ==
  [fragment |-> depacketizer.fragment, open |-> depacketizer.open,
   expected |-> depacketizer.expected, frame |-> depacketizer.frame,
   units |-> depacketizer.units, next |-> nextSequence, damaged |-> damaged,
   losses |-> losses, done |-> <<>>]

Safe(p) == BufferAt(p) /\ Inside(completed, Now, p) /\ NextAt(completed, Now, p)
OrderlyAt(p) == OrderAt(p) /\ Lossless(completed, Now, p) /\ failed = "no"
StreamInv ==
  /\ TypeOK /\ IsFiniteSet(tracked)
  /\ \E p \in 0 .. Len(Sent) : Safe(p) /\ (orderly => OrderlyAt(p))

-----------------------------------------------------------------------------
(* The stream itself.  First its sequence numbers: no two packets share    *)
(* one, and of two the nearer way round tells which was sent later.        *)

(* What is known of the packets and their numbers.                         *)
LEMMA Numbers ==
  /\ Len(Sent) \in Nat /\ Positions = 1 .. Len(Sent)
  /\ SequenceModulus \in Nat \ {0} /\ 2 * Len(Sent) <= SequenceModulus
  /\ FirstSequence \in 0 .. SequenceModulus - 1
  /\ \A i \in 1 .. Len(Sent) + 1 : Sequence(i) \in 0 .. SequenceModulus - 1
  /\ \A i \in 1 .. Len(Sent) + 1 : Sequence(i) # None
  /\ \A i \in Positions : /\ Timestamp(i) \in Nat /\ Sent[i].marker \in BOOLEAN
                          /\ Sent[i].piece \in {"whole", "start", "middle", "end"}
<1>1. /\ Len(Sent) \in Nat /\ Positions = 1 .. Len(Sent)
      /\ SequenceModulus \in Nat \ {0} /\ 2 * Len(Sent) <= SequenceModulus
      /\ FirstSequence \in 0 .. SequenceModulus - 1 /\ Sent \in Seq(Packet)
  BY RtpAssumption DEF Positions
<1>2. \A i \in Positions : Sent[i] \in Packet
  BY <1>1
<1>3. \A i \in Positions : /\ Timestamp(i) \in Nat /\ Sent[i].marker \in BOOLEAN
                           /\ Sent[i].piece \in {"whole", "start", "middle", "end"}
  BY <1>2 DEF Packet, Timestamp
<1>4. ASSUME NEW i \in 1 .. Len(Sent) + 1
      PROVE  Sequence(i) \in 0 .. SequenceModulus - 1
  <2>1. FirstSequence + i - 1 \in Nat
    BY <1>1
  <2> QED
    BY <2>1, <1>1, Euclid DEF Sequence
<1>5. \A i \in 1 .. Len(Sent) + 1 : Sequence(i) # None
  BY <1>1, <1>4 DEF None
<1> QED
  BY <1>1, <1>3, <1>4, <1>5

(* Two sequence numbers differ as the positions do, but for a cycle.       *)
LEMMA SequenceDistance ==
  ASSUME NEW i \in 1 .. Len(Sent) + 1, NEW j \in 1 .. Len(Sent) + 1
  PROVE  /\ i - j < SequenceModulus /\ j - i < SequenceModulus
         /\ \/ Sequence(i) = Sequence(j) + (i - j)
            \/ Sequence(i) = Sequence(j) + (i - j) - SequenceModulus
            \/ Sequence(i) = Sequence(j) + (i - j) + SequenceModulus
<1> DEFINE x == FirstSequence + i - 1
           y == FirstSequence + j - 1
<1>1. /\ x \in Nat /\ y \in Nat /\ x - y = i - j /\ i - j \in Int
      /\ i - j < SequenceModulus /\ j - i < SequenceModulus
      /\ SequenceModulus \in Nat \ {0}
  BY Numbers
<1>2. Sequence(i) = x % SequenceModulus /\ Sequence(j) = y % SequenceModulus
  BY DEF Sequence
<1> HIDE DEF x, y
<1>3. x - y < SequenceModulus /\ y - x < SequenceModulus
  BY <1>1
<1>4. \/ x % SequenceModulus = (y % SequenceModulus) + (x - y)
      \/ x % SequenceModulus = (y % SequenceModulus) + (x - y) - SequenceModulus
      \/ x % SequenceModulus = (y % SequenceModulus) + (x - y) + SequenceModulus
  BY <1>1, <1>3, Neighbours
<1> QED
  BY <1>1, <1>2, <1>4

(* No two packets share a sequence number.                                 *)
LEMMA SequenceApart ==
  ASSUME NEW i \in 1 .. Len(Sent) + 1, NEW j \in 1 .. Len(Sent) + 1, Sequence(i) = Sequence(j)
  PROVE  i = j
<1>1. \/ Sequence(i) = Sequence(j) + (i - j)
      \/ Sequence(i) = Sequence(j) + (i - j) - SequenceModulus
      \/ Sequence(i) = Sequence(j) + (i - j) + SequenceModulus
  BY SequenceDistance
<1>2. i - j < SequenceModulus /\ j - i < SequenceModulus
  BY SequenceDistance
<1>3. Sequence(i) \in Nat /\ SequenceModulus \in Nat /\ i - j \in Int
  BY Numbers
<1> QED
  BY <1>1, <1>2, <1>3

(* A remainder, of what is less than two cycles from zero.                 *)
LEMMA SmallRemainder ==
  ASSUME NEW m \in Nat \ {0}, NEW x \in Int
  PROVE  /\ x \in 0 .. m - 1 => x % m = x
         /\ x \in -m .. -1 => x % m = x + m
         /\ x = m => x % m = 0
OBVIOUS

(* sequence_is_newer tells which of two packets was sent later.            *)
LEMMA NewerIsLater ==
  ASSUME NEW i \in Positions, NEW j \in Positions
  PROVE  IsNewer(Sequence(i), Sequence(j)) <=> j < i
<1> DEFINE distance == (Sequence(i) - Sequence(j)) % SequenceModulus
           half == SequenceModulus \div 2
<1>1. /\ \/ Sequence(i) = Sequence(j) + (i - j)
         \/ Sequence(i) = Sequence(j) + (i - j) - SequenceModulus
         \/ Sequence(i) = Sequence(j) + (i - j) + SequenceModulus
      /\ i - j < SequenceModulus /\ j - i < SequenceModulus
  <2>1. i \in 1 .. Len(Sent) + 1 /\ j \in 1 .. Len(Sent) + 1
    BY Numbers
  <2> QED
    BY <2>1, SequenceDistance
<1>2. /\ Sequence(i) \in 0 .. SequenceModulus - 1 /\ Sequence(j) \in 0 .. SequenceModulus - 1
      /\ SequenceModulus \in Nat \ {0} /\ i \in Nat /\ j \in Nat
      /\ i - j < Len(Sent) /\ j - i < Len(Sent) /\ Len(Sent) \in Nat
      /\ 2 * Len(Sent) <= SequenceModulus
  BY Numbers
<1>3. half \in Nat /\ 2 * half <= SequenceModulus /\ SequenceModulus <= 2 * half + 1
  BY <1>2
<1>4. IsNewer(Sequence(i), Sequence(j)) <=> distance # 0 /\ distance < half
  BY DEF IsNewer
<1>5. distance = IF i >= j THEN i - j ELSE i - j + SequenceModulus
  <2>1. Sequence(i) - Sequence(j) \in {i - j, i - j - SequenceModulus, i - j + SequenceModulus}
    BY <1>1, <1>2
  <2>2. Sequence(i) - Sequence(j) \in -SequenceModulus + 1 .. SequenceModulus - 1
    BY <1>2
  <2> DEFINE x == Sequence(i) - Sequence(j)
  <2>3. /\ x \in 0 .. SequenceModulus - 1 => distance = x
        /\ x \in -SequenceModulus .. -1 => distance = x + SequenceModulus
        /\ x \in Int
    <3>1. x \in Int
      BY <1>2
    <3>2. distance = x % SequenceModulus
      OBVIOUS
    <3> HIDE DEF distance, x
    <3> QED
      BY <3>1, <3>2, <1>2, SmallRemainder
  <2> HIDE DEF distance, x
  <2>4. x \in {i - j, i - j - SequenceModulus, i - j + SequenceModulus}
        /\ x \in -SequenceModulus + 1 .. SequenceModulus - 1
    BY <2>1, <2>2 DEF x
  <2> QED
    BY <2>3, <2>4, <1>1, <1>2
<1> HIDE DEF distance, half
<1> QED
  BY <1>2, <1>3, <1>4, <1>5

(* A sequence number plus one is that of the next packet.                  *)
LEMMA NextSequence ==
  ASSUME NEW i \in Positions
  PROVE  After(Sequence(i)) = Sequence(i + 1)
<1>1. i \in 1 .. Len(Sent) + 1 /\ i + 1 \in 1 .. Len(Sent) + 1 /\ (i + 1) - i = 1
  BY Numbers
<1>2. /\ Sequence(i) \in 0 .. SequenceModulus - 1 /\ Sequence(i + 1) \in 0 .. SequenceModulus - 1
      /\ SequenceModulus \in Nat \ {0}
  BY <1>1, Numbers
<1>3. \/ Sequence(i + 1) = Sequence(i) + 1
      \/ Sequence(i + 1) = Sequence(i) + 1 - SequenceModulus
      \/ Sequence(i + 1) = Sequence(i) + 1 + SequenceModulus
  BY <1>1, SequenceDistance
<1> DEFINE z == Sequence(i) + 1
<1>4. /\ z \in 0 .. SequenceModulus - 1 => z % SequenceModulus = z
      /\ z = SequenceModulus => z % SequenceModulus = 0
  BY <1>2, SmallRemainder
<1>5. After(Sequence(i)) = z % SequenceModulus
  BY DEF After
<1> QED
  BY <1>2, <1>3, <1>4, <1>5

-----------------------------------------------------------------------------
(* Frames and units.                                                       *)

(* FramesAssumption, as the proofs need it.                                *)
LEMMA FrameShape ==
  /\ \A i, j \in Positions : i <= j => Timestamp(i) <= Timestamp(j)
  /\ \A i \in Positions : i + 1 \in Positions =>
       /\ Sent[i].marker <=> Timestamp(i + 1) # Timestamp(i)
       /\ Sent[i].marker => \A j \in Positions : j > i => Timestamp(j) > Timestamp(i)
       /\ CanStartNal(i + 1) <=> Sent[i].piece \in {"whole", "end"}
  /\ \A i \in Positions : i + 1 \notin Positions => Sent[i].marker
  /\ \A i \in Positions : Sent[i].marker => Sent[i].piece \in {"whole", "end"}
  /\ \A i \in Positions : i - 1 \notin Positions => CanStartNal(i)
  /\ \A i \in Positions : CanStartNal(i) <=> Sent[i].piece \in {"whole", "start"}
<1>1. \A i, j \in Positions : i <= j => Timestamp(i) <= Timestamp(j)
  BY FramesAssumption, Numbers
<1>2. ASSUME NEW i \in Positions, i + 1 \in Positions
      PROVE  /\ Sent[i].marker <=> Timestamp(i + 1) # Timestamp(i)
             /\ Sent[i].marker => \A j \in Positions : j > i => Timestamp(j) > Timestamp(i)
             /\ CanStartNal(i + 1) <=> Sent[i].piece \in {"whole", "end"}
  <2>1. i # Len(Sent) /\ i + 1 # 1 /\ (i + 1) - 1 = i
    BY <1>2, Numbers
  <2>2. Sent[i].marker <=> Timestamp(i + 1) # Timestamp(i)
    BY <2>1, FramesAssumption
  <2>3. CanStartNal(i + 1) <=> Sent[i].piece \in {"whole", "end"}
    BY <1>2, <2>1, FramesAssumption
  <2>4. ASSUME Sent[i].marker, NEW j \in Positions, j > i
        PROVE  Timestamp(j) > Timestamp(i)
    <3>1. i + 1 <= j /\ i <= i + 1
      BY <2>4, Numbers
    <3>2. Timestamp(i + 1) <= Timestamp(j) /\ Timestamp(i) <= Timestamp(i + 1)
      BY <3>1, <1>1, <1>2
    <3> QED
      BY <3>2, <2>2, <2>4, <1>2, Numbers
  <2> QED
    BY <2>2, <2>3, <2>4
<1>3. \A i \in Positions : i + 1 \notin Positions => Sent[i].marker
  BY FramesAssumption, Numbers
<1>4. \A i \in Positions : i - 1 \notin Positions => CanStartNal(i)
  BY FramesAssumption, Numbers
<1> QED
  BY <1>1, <1>2, <1>3, <1>4, FramesAssumption DEF CanStartNal

(* A unit is the run from its start to the first packet that ends one.     *)
LEMMA UnitIsSpan ==
  ASSUME NEW s \in Positions, NEW e \in Positions, s <= e, Sent[e].piece \in {"whole", "end"},
         \A j \in s .. e - 1 : Sent[j].piece \notin {"whole", "end"}
  PROVE  UnitFrom(s) = Span(s, e)
<1> DEFINE ends == {j \in s .. Len(Sent) : Sent[j].piece \in {"whole", "end"}}
           end == CHOOSE j \in ends : \A k \in ends : j <= k
<1>1. e \in ends /\ s \in Nat /\ e \in Nat
  BY Numbers
<1>2. \A k \in ends : k \in Nat /\ e <= k
  BY Numbers
<1>3. \E j \in ends : \A k \in ends : j <= k
  BY <1>1, <1>2
<1>4. end \in ends /\ \A k \in ends : end <= k
  BY <1>3
<1>5. UnitFrom(s) = [k \in 1 .. end - s + 1 |-> s + k - 1]
  BY DEF UnitFrom
<1> HIDE DEF ends, end
<1>6. end = e
  BY <1>1, <1>2, <1>4
<1> QED
  BY <1>5, <1>6 DEF Span

(* A run of positions, as a sequence.                                      *)
LEMMA SpanShape ==
  ASSUME NEW s \in Positions, NEW e \in Positions, s <= e
  PROVE  /\ Span(s, e) \in Seq(Positions) /\ Span(s, e) # <<>> /\ Span(s, e)[1] = s
         /\ Len(Span(s, e)) = e - s + 1
         /\ Span(s, s) = <<s>>
         /\ e + 1 \in Positions => Append(Span(s, e), e + 1) = Span(s, e + 1)
<1>1. s \in Nat /\ e \in Nat /\ e - s + 1 \in Nat /\ e - s + 1 >= 1 /\ (e + 1) - s + 1 = (e - s + 1) + 1
  BY Numbers
<1>2. \A k \in 1 .. e - s + 1 : s + k - 1 \in Positions
  BY <1>1, Numbers
<1>3. Span(s, e) \in Seq(Positions) /\ Len(Span(s, e)) = e - s + 1 /\ Span(s, e)[1] = s
  BY <1>1, <1>2 DEF Span
<1>4. Span(s, s) = <<s>>
  BY <1>1 DEF Span
<1>5. ASSUME e + 1 \in Positions PROVE Append(Span(s, e), e + 1) = Span(s, e + 1)
  <2>1. Span(s, e) = [k \in 1 .. e - s + 1 |-> s + k - 1] /\ Span(s, e + 1) = [k \in 1 .. (e - s + 1) + 1 |-> s + k - 1]
    BY <1>1 DEF Span
  <2>2. Append(Span(s, e), e + 1) = [k \in 1 .. (e - s + 1) + 1 |-> IF k = (e - s + 1) + 1 THEN e + 1 ELSE Span(s, e)[k]]
    BY <1>3, <1>1
  <2> QED
    BY <2>1, <2>2, <1>1
<1>6. Span(s, e) # <<>>
  BY <1>1, <1>3
<1> QED
  BY <1>3, <1>4, <1>5, <1>6

-----------------------------------------------------------------------------
(* Sorting by sequence number is sorting by position.                      *)

(* Every set of packets is finite.                                         *)
LEMMA PositionsAreFinite ==
  ASSUME NEW set \in SUBSET Positions
  PROVE  /\ IsFiniteSet(set) /\ Cardinality(set) \in Nat
         /\ Cardinality(set) = 0 <=> set = {}
<1>1. IsFiniteSet(Positions)
  BY Numbers, FS_Interval
<1>2. IsFiniteSet(set)
  BY <1>1, FS_Subset
<1> QED
  BY <1>2, FS_CardinalityType, FS_EmptySet

(* A set of packets has a first one,                                       *)
LEMMA StreamHasFirst ==
  ASSUME NEW set \in SUBSET Positions, set # {}
  PROVE  \E i \in set : \A j \in set : i <= j
<1> DEFINE R == OpToRel(<, Nat)
<1>1. IsWellFoundedOn(R, Nat)
  BY NatLessThanWellFounded
<1>2. \A x, y \in Nat : ~(<<y, x>> \in R) => x <= y
  BY DEF OpToRel
<1> HIDE DEF R
<1>3. set \subseteq Nat
  BY Numbers
<1>4. PICK x \in set : \A y \in set : ~(<<y, x>> \in R)
  BY <1>1, <1>3, WFMin
<1> QED
  BY <1>2, <1>3, <1>4

(* and a last one,                                                         *)
LEMMA StreamHasLast ==
  ASSUME NEW set \in SUBSET Positions, set # {}
  PROVE  \E i \in set : \A j \in set : j <= i
<1> DEFINE back == {Len(Sent) + 1 - i : i \in set}
<1>1. back \in SUBSET Positions /\ back # {}
  <2>1. \A i \in set : Len(Sent) + 1 - i \in Positions
    BY Numbers
  <2> QED
    BY <2>1
<1>2. PICK b \in back : \A c \in back : b <= c
  BY <1>1, StreamHasFirst
<1>3. PICK i \in set : b = Len(Sent) + 1 - i
  BY <1>2
<1>4. \A j \in set : b <= Len(Sent) + 1 - j
  BY <1>2
<1> QED
  BY <1>3, <1>4, Numbers

(* which is what Newest chooses.                                           *)
LEMMA NewestIsLast ==
  ASSUME NEW set \in SUBSET Positions, set # {}
  PROVE  Newest(set) \in set /\ \A j \in set : j <= Newest(set)
<1>1. PICK i \in set : \A j \in set : j <= i
  BY StreamHasLast
<1>2. \A j \in set \ {i} : Precedes(j, i)
  BY <1>1, NewerIsLater, Numbers DEF Precedes
<1>3. Newest(set) \in set /\ \A j \in set \ {Newest(set)} : Precedes(j, Newest(set))
  BY <1>2 DEF Newest
<1> QED
  BY <1>3, NewerIsLater, Numbers DEF Precedes

(* The packets of a set before i: how many they are is the place of i.     *)
SmallerIn(set, i) == {j \in set : j < i}

(* The places are 0, 1, 2 and so on, in sending order.                     *)
LEMMA RanksDiffer ==
  ASSUME NEW set \in SUBSET Positions
  PROVE  /\ \A i \in set : Cardinality(SmallerIn(set, i)) \in 0 .. Cardinality(set) - 1
         /\ \A i, j \in set : i < j => Cardinality(SmallerIn(set, i)) < Cardinality(SmallerIn(set, j))
         /\ \A i, j \in set : Cardinality(SmallerIn(set, i)) < Cardinality(SmallerIn(set, j)) => i < j
         /\ \A k \in 0 .. Cardinality(set) - 1 : \E i \in set : Cardinality(SmallerIn(set, i)) = k
<1>1. set \subseteq Nat /\ IsFiniteSet(set) /\ Cardinality(set) \in Nat
  BY Numbers, PositionsAreFinite
<1>2. \A i \in set : /\ SmallerIn(set, i) \in SUBSET Positions /\ SmallerIn(set, i) \subseteq set
                     /\ IsFiniteSet(SmallerIn(set, i)) /\ Cardinality(SmallerIn(set, i)) \in Nat
  BY PositionsAreFinite DEF SmallerIn
<1>3. ASSUME NEW i \in set PROVE Cardinality(SmallerIn(set, i)) \in 0 .. Cardinality(set) - 1
  <2>1. SmallerIn(set, i) # set
    BY <1>1 DEF SmallerIn
  <2>2. Cardinality(SmallerIn(set, i)) <= Cardinality(set) /\ Cardinality(SmallerIn(set, i)) # Cardinality(set)
    BY <2>1, <1>1, <1>2, FS_Subset
  <2> QED
    BY <2>2, <1>1, <1>2
<1>4. ASSUME NEW i \in set, NEW j \in set, i < j
      PROVE  Cardinality(SmallerIn(set, i)) < Cardinality(SmallerIn(set, j))
  <2>1. SmallerIn(set, i) \subseteq SmallerIn(set, j) /\ SmallerIn(set, i) # SmallerIn(set, j)
    <3>1. i \in SmallerIn(set, j) /\ i \notin SmallerIn(set, i)
      BY <1>1, <1>4 DEF SmallerIn
    <3>2. \A l \in set : l < i => l < j
      BY <1>1, <1>4
    <3> QED
      BY <3>1, <3>2 DEF SmallerIn
  <2>2. Cardinality(SmallerIn(set, i)) <= Cardinality(SmallerIn(set, j))
        /\ Cardinality(SmallerIn(set, i)) # Cardinality(SmallerIn(set, j))
    BY <2>1, <1>2, FS_Subset
  <2> QED
    BY <2>2, <1>2
<1>5. \A i, j \in set : Cardinality(SmallerIn(set, i)) < Cardinality(SmallerIn(set, j)) => i < j
  <2> SUFFICES ASSUME NEW i \in set, NEW j \in set,
                      Cardinality(SmallerIn(set, i)) < Cardinality(SmallerIn(set, j)), ~(i < j)
               PROVE  FALSE
    OBVIOUS
  <2>1. j < i \/ i = j
    BY <1>1
  <2>2. j < i => Cardinality(SmallerIn(set, j)) < Cardinality(SmallerIn(set, i))
    BY <1>4
  <2> QED
    BY <2>1, <2>2, <1>2
<1>6. ASSUME NEW k \in 0 .. Cardinality(set) - 1
      PROVE  \E i \in set : Cardinality(SmallerIn(set, i)) = k
  <2> DEFINE n == Cardinality(set)
             f == [i \in set |-> Cardinality(SmallerIn(set, i))]
  <2>1. f \in [set -> 0 .. n - 1]
    BY <1>3
  <2>2. \A i, j \in set : f[i] = f[j] => i = j
    <3> SUFFICES ASSUME NEW i \in set, NEW j \in set, f[i] = f[j], i # j PROVE FALSE
      OBVIOUS
    <3>1. i < j \/ j < i
      BY <1>1
    <3>2. f[i] = Cardinality(SmallerIn(set, i)) /\ f[j] = Cardinality(SmallerIn(set, j))
      OBVIOUS
    <3> QED
      BY <3>1, <3>2, <1>4, <1>2
  <2>3. IsFiniteSet(0 .. n - 1) /\ Cardinality(0 .. n - 1) = n
    BY <1>1, FS_Interval
  <2>4. f \in Injection(set, 0 .. n - 1)
    BY <2>1, <2>2, Fun_IsInj
  <2>5. f \in Surjection(set, 0 .. n - 1)
    BY <2>3, <2>4, FS_Injection
  <2>6. \A l \in 0 .. n - 1 : \E i \in set : f[i] = l
    BY <2>5, Fun_SurjectionProperties DEF Surjection
  <2> QED
    BY <2>6
<1> QED
  BY <1>3, <1>4, <1>5, <1>6

(* Sorted lists a set of packets, each once, in sending order.             *)
LEMMA SortedIsInOrder ==
  ASSUME NEW set \in SUBSET Positions
  PROVE  /\ Cardinality(set) \in Nat /\ Len(Sorted(set)) = Cardinality(set)
         /\ Sorted(set) \in Seq(Positions)
         /\ \A k \in 1 .. Cardinality(set) : Sorted(set)[k] \in set
         /\ \A k, l \in 1 .. Cardinality(set) : k < l => Sorted(set)[k] < Sorted(set)[l]
         /\ \A i \in set : \E k \in 1 .. Cardinality(set) : Sorted(set)[k] = i
<1> DEFINE n == Cardinality(set)
           queue == Sorted(set)
<1>1. n \in Nat
  BY PositionsAreFinite
<1>2. \A i \in set : {j \in set : Precedes(j, i)} = SmallerIn(set, i)
  BY NewerIsLater DEF Precedes, SmallerIn
<1>3. ASSUME NEW k \in 1 .. n
      PROVE  queue[k] \in set /\ Cardinality(SmallerIn(set, queue[k])) = k - 1
  <2>1. queue[k] = CHOOSE i \in set : Cardinality({j \in set : Precedes(j, i)}) = k - 1
    BY DEF Sorted
  <2>2. k - 1 \in 0 .. n - 1
    BY <1>1
  <2>3. PICK i \in set : Cardinality(SmallerIn(set, i)) = k - 1
    BY <2>2, RanksDiffer
  <2>4. Cardinality({j \in set : Precedes(j, i)}) = k - 1
    BY <2>3, <1>2
  <2> HIDE DEF queue
  <2>5. queue[k] \in set /\ Cardinality({j \in set : Precedes(j, queue[k])}) = k - 1
    BY <2>1, <2>4
  <2> QED
    BY <2>5, <1>2
<1>4. queue = [k \in 1 .. n |-> queue[k]]
  <2> DEFINE place(k) == CHOOSE i \in set : Cardinality({j \in set : Precedes(j, i)}) = k - 1
  <2>1. queue = [k \in 1 .. n |-> place(k)]
    BY DEF Sorted
  <2> HIDE DEF queue, place
  <2> QED
    BY <2>1
<1> HIDE DEF queue, n
<1>5. queue \in Seq(Positions) /\ Len(queue) = n
  <2>1. \A k \in 1 .. n : queue[k] \in Positions
    BY <1>3
  <2> QED
    BY <2>1, <1>1, <1>4
<1>6. \A k, l \in 1 .. n : k < l => queue[k] < queue[l]
  <2> TAKE k, l \in 1 .. n
  <2> HAVE k < l
  <2>1. queue[k] \in set /\ queue[l] \in set
    BY <1>3
  <2>2. Cardinality(SmallerIn(set, queue[k])) < Cardinality(SmallerIn(set, queue[l]))
    BY <1>1, <1>3
  <2> QED
    BY <2>1, <2>2, RanksDiffer
<1>7. ASSUME NEW i \in set PROVE \E k \in 1 .. n : queue[k] = i
  <2>1. Cardinality(SmallerIn(set, i)) \in 0 .. n - 1
    BY RanksDiffer DEF n
  <2> DEFINE k == Cardinality(SmallerIn(set, i)) + 1
  <2>2. k \in 1 .. n /\ k - 1 = Cardinality(SmallerIn(set, i))
    BY <2>1, <1>1
  <2>3. queue[k] \in set /\ Cardinality(SmallerIn(set, queue[k])) = Cardinality(SmallerIn(set, i))
    BY <2>2, <1>3
  <2> DEFINE j == queue[k]
  <2> HIDE DEF k, j
  <2>4. j \in set /\ Cardinality(SmallerIn(set, j)) = Cardinality(SmallerIn(set, i)) /\ Cardinality(SmallerIn(set, i)) \in Nat
    BY <2>1, <2>3 DEF j
  <2>5. ~(i < j) /\ ~(j < i)
    BY <2>4, RanksDiffer
  <2>6. i = j
    BY <2>4, <2>5, Numbers
  <2> QED
    BY <2>2, <2>6 DEF j
<1> QED
  BY <1>1, <1>3, <1>5, <1>6, <1>7 DEF n, queue

-----------------------------------------------------------------------------
(* The depacketizer, one packet at a time.                                 *)

(* The access unit that a unit completes.                                  *)
NewUnit(d, i, unit) ==
  [timestamp |-> Timestamp(i), units |-> Append(d.units, unit), losses |-> d.losses]

(* The fields of a state of the loop.                                      *)
LEMMA Fields ==
  ASSUME NEW d \in Depacketizers
  PROVE  /\ d.fragment \in Seq(Positions) /\ d.units \in Seq(Seq(Positions))
         /\ d.frame \in Nat \cup {None} /\ d.losses \in Nat /\ d.done \in Seq(AccessUnits)
         /\ d = [fragment |-> d.fragment, open |-> d.open, expected |-> d.expected,
                 frame |-> d.frame, units |-> d.units, next |-> d.next,
                 damaged |-> d.damaged, losses |-> d.losses, done |-> d.done]
BY DEF Depacketizers

(* FrameAssembler::push of a unit that belongs to the frame being          *)
(* collected.                                                              *)
LEMMA UnitOutcome ==
  ASSUME NEW d \in Depacketizers, NEW i \in Positions, NEW unit \in Seq(Positions),
         d.frame \in {None, Timestamp(i)}, d.frame = None => d.units = <<>>
  PROVE  LET e == Unit(d, i, unit)
         IN  /\ e \in Depacketizers /\ NewUnit(d, i, unit) \in AccessUnits
             /\ e.fragment = d.fragment /\ e.open = d.open /\ e.expected = d.expected
             /\ e.next = d.next /\ e.damaged = d.damaged /\ e.losses = d.losses
             /\ Sent[i].marker =>
                  e.frame = None /\ e.units = <<>> /\ e.done = Append(d.done, NewUnit(d, i, unit))
             /\ ~Sent[i].marker =>
                  e.frame = Timestamp(i) /\ e.units = Append(d.units, unit) /\ e.done = d.done
<1> DEFINE ts == Timestamp(i)
           all == IF d.frame = None THEN <<unit>> ELSE Append(d.units, unit)
           u == [timestamp |-> ts, units |-> all, losses |-> d.losses]
<1>1. all = Append(d.units, unit) /\ all \in Seq(Seq(Positions))
  <2>1. d.units \in Seq(Seq(Positions)) /\ Append(<<>>, unit) = <<unit>>
    BY Fields
  <2>2. Append(d.units, unit) \in Seq(Seq(Positions))
    BY <2>1
  <2> QED
    BY <2>1, <2>2
<1>2. ts \in Nat /\ ts # None /\ Sent[i].marker \in BOOLEAN
  BY Numbers DEF None
<1>3. u = NewUnit(d, i, unit) /\ u \in AccessUnits
  BY <1>1, <1>2 DEF NewUnit, AccessUnits, Depacketizers
<1>4. CASE Sent[i].marker
  <2>1. Unit(d, i, unit) = [Discard(d) EXCEPT !.done = Append(@, u)]
    BY <1>4 DEF Unit
  <2>2. Discard(d) = [fragment |-> d.fragment, open |-> d.open, expected |-> d.expected,
                      frame |-> None, units |-> <<>>, next |-> d.next, damaged |-> d.damaged,
                      losses |-> d.losses, done |-> d.done]
    <3> DEFINE c == Discard(d)
    <3>1. c = [d EXCEPT !.frame = None, !.units = <<>>]
      BY DEF Discard
    <3> HIDE DEF c
    <3>2. c = [fragment |-> d.fragment, open |-> d.open, expected |-> d.expected,
                      frame |-> None, units |-> <<>>, next |-> d.next, damaged |-> d.damaged,
                      losses |-> d.losses, done |-> d.done]
      BY <3>1 DEF Depacketizers
    <3> QED
      BY <3>2 DEF c
  <2> DEFINE e == [fragment |-> d.fragment, open |-> d.open, expected |-> d.expected,
                   frame |-> None, units |-> <<>>, next |-> d.next, damaged |-> d.damaged,
                   losses |-> d.losses, done |-> Append(d.done, u)]
  <2>3. Unit(d, i, unit) = e
    <3> HIDE DEF u
    <3> DEFINE c == Discard(d)
    <3>1. c.done = d.done /\ Unit(d, i, unit) = [c EXCEPT !.done = Append(d.done, u)]
      BY <2>1, <2>2
    <3>2. c = [fragment |-> d.fragment, open |-> d.open, expected |-> d.expected,
                      frame |-> None, units |-> <<>>, next |-> d.next, damaged |-> d.damaged,
                      losses |-> d.losses, done |-> d.done]
      BY <2>2
    <3> HIDE DEF c
    <3> QED
      BY <3>1, <3>2
  <2>4. e \in Depacketizers
    <3> HIDE DEF u
    <3>1. Append(d.done, u) \in Seq(AccessUnits)
      BY <1>3, Fields
    <3> QED
      BY <3>1 DEF Depacketizers
  <2> HIDE DEF u
  <2> QED
    BY <2>3, <2>4, <1>3, <1>4
<1>5. CASE ~Sent[i].marker
  <2>1. Unit(d, i, unit) = [d EXCEPT !.frame = ts, !.units = all]
    BY <1>5 DEF Unit
  <2> DEFINE e == [fragment |-> d.fragment, open |-> d.open, expected |-> d.expected,
                   frame |-> ts, units |-> all, next |-> d.next, damaged |-> d.damaged,
                   losses |-> d.losses, done |-> d.done]
  <2>2. Unit(d, i, unit) = e
    <3> HIDE DEF all, ts
    <3> DEFINE c == Unit(d, i, unit)
    <3>1. c = [d EXCEPT !.frame = ts, !.units = all]
      BY <2>1
    <3> HIDE DEF c
    <3>2. c = e
      BY <3>1 DEF Depacketizers
    <3> QED
      BY <3>2 DEF c
  <2>3. e \in Depacketizers
    <3> HIDE DEF all, ts
    <3> QED
      BY <1>1, <1>2 DEF Depacketizers
  <2> HIDE DEF u
  <2> QED
    BY <2>2, <2>3, <1>1, <1>3, <1>5
<1> QED
  BY <1>4, <1>5

(* One more whole unit of a frame, behind the others.                      *)
OneMore(t, units, more, s) ==
  /\ WholeUnits(t, more)
  /\ Len(more) = Len(units) + 1
  /\ \A k \in 1 .. Len(units) : more[k][1] = units[k][1]
  /\ more[Len(units) + 1][1] = s

(* It keeps the units whole and in order.                                  *)
LEMMA OneMoreUnit ==
  ASSUME NEW units \in Seq(Seq(Positions)), NEW t \in Nat, NEW s \in Positions, NEW e \in Positions,
         s <= e, UnitFrom(s) = Span(s, e), s \in Starts(t),
         WholeUnits(t, units),
         \A k \in 1 .. Len(units) : units[k][1] < s,
         NEW more, more = Append(units, Span(s, e))
  PROVE  OneMore(t, units, more, s)
<1>1. /\ Len(units) \in Nat /\ Len(more) = Len(units) + 1
      /\ \A k \in 1 .. Len(units) : more[k] = units[k]
      /\ more[Len(units) + 1] = Span(s, e)
  OBVIOUS
<1>2. Span(s, e)[1] = s
  BY SpanShape
<1>3. /\ \A k \in 1 .. Len(units) :
           units[k][1] \in Starts(t) /\ units[k] = UnitFrom(units[k][1])
      /\ \A k, l \in 1 .. Len(units) : k < l => units[k][1] < units[l][1]
  BY DEF OfWholeUnits, WholeUnits
<1>4. \A k \in 1 .. Len(more) : more[k][1] \in Starts(t) /\ more[k] = UnitFrom(more[k][1])
  <2> TAKE k \in 1 .. Len(more)
  <2>1. CASE k = Len(units) + 1
    BY <2>1, <1>1, <1>2
  <2>2. CASE k \in 1 .. Len(units)
    BY <2>2, <1>1, <1>3
  <2> QED
    BY <2>1, <2>2, <1>1
<1>5. \A k, l \in 1 .. Len(more) : k < l => more[k][1] < more[l][1]
  <2> TAKE k, l \in 1 .. Len(more)
  <2> HAVE k < l
  <2>1. k \in 1 .. Len(units) /\ more[k] = units[k]
    BY <1>1
  <2>2. CASE l = Len(units) + 1
    BY <2>1, <2>2, <1>1, <1>2
  <2>3. CASE l \in 1 .. Len(units)
    BY <2>1, <2>3, <1>1, <1>3
  <2>4. l \in 1 .. Len(units) \/ l = Len(units) + 1
    BY <1>1
  <2> QED
    BY <2>2, <2>3, <2>4
<1>6. WholeUnits(t, more)
  BY <1>4, <1>5 DEF OfWholeUnits, WholeUnits
<1> QED
  BY <1>1, <1>2, <1>6 DEF OneMore

(* Of the frames after t, up to i, nothing is missing but the unit from s. *)
Due(d, i, s, t) ==
  /\ \A j \in Positions : t < Timestamp(j) => Timestamp(i) <= Timestamp(j)
  /\ \A j \in 1 .. i : CanStartNal(j) /\ t < Timestamp(j) =>
       j = s \/ \E k \in 1 .. Len(d.units) : d.units[k][1] = j

(* What was handed on before i is handed on still.                         *)
LEMMA HistoryGrows ==
  ASSUME NEW h, NEW d \in Depacketizers, NEW i \in Positions, HistoryAt(h, d, i - 1),
         NEW e \in Depacketizers, e.losses = d.losses
  PROVE  HistoryAt(h, e, i)
BY Numbers DEF HistoryAt

(* The unit from s to i completes a frame: it can be trusted, and nothing  *)
(* of its frame is to come.                                                *)
LEMMA HandsOn ==
  ASSUME NEW h, NEW d \in Depacketizers, NEW i \in Positions, HistoryAt(h, d, i - 1),
         NEW u \in AccessUnits, u.timestamp = Timestamp(i), u.losses = d.losses,
         OfWholeUnits(u), Clean(h, d) => Complete(u),
         Clean(h, d) => \A j \in Positions : LastTimestamp(h) < Timestamp(j) => Timestamp(i) <= Timestamp(j),
         Sent[i].marker, NEW e \in Depacketizers, e.losses = d.losses
  PROVE  HistoryAt(Append(h, u), e, i)
<1> DEFINE g == Append(h, u)
           n == Len(h)
<1>1. /\ h \in Seq(AccessUnits) /\ n \in Nat /\ g \in Seq(AccessUnits) /\ Len(g) = n + 1
      /\ g[n + 1] = u /\ \A k \in 1 .. n : g[k] = h[k] /\ h[k] \in AccessUnits
  BY DEF HistoryAt
<1>2. /\ \A k \in 2 .. n : Trusted(h[k], h[k - 1])
      /\ \A k \in 1 .. n : h[k].losses <= d.losses
      /\ \A k \in 1 .. n : \A j \in Positions : Timestamp(j) <= h[k].timestamp => j <= i - 1
  BY DEF HistoryAt
<1>3. /\ i \in Nat /\ Timestamp(i) \in Nat /\ d.losses \in Nat
      /\ \A j \in Positions : j \in Nat /\ Timestamp(j) \in Nat
  BY Numbers DEF Depacketizers
<1>4. ASSUME n >= 1 PROVE Trusted(u, h[n])
  <2>1. n \in 1 .. n /\ h[n].timestamp \in Nat /\ h[n].losses \in Nat
    <3>1. n \in 1 .. n /\ h[n] \in AccessUnits
      BY <1>1, <1>4
    <3> QED
      BY <3>1 DEF AccessUnits
  <2>2. h[n].timestamp < Timestamp(i)
    <3>1. Timestamp(i) <= h[n].timestamp => i <= i - 1
      BY <2>1, <1>2
    <3> QED
      BY <3>1, <2>1, <1>3
  <2>3. h # <<>> /\ LastTimestamp(h) = h[n].timestamp
    BY <1>1, <1>4 DEF LastTimestamp
  <2>4. u.losses = h[n].losses => Clean(h, d)
    BY <2>3 DEF Clean
  <2>5. u.losses = h[n].losses =>
          \A j \in Positions : ~(h[n].timestamp < Timestamp(j) /\ Timestamp(j) < u.timestamp)
    BY <2>3, <2>4, <1>3
  <2> QED
    BY <2>2, <2>4, <2>5 DEF Trusted
<1> HIDE DEF g, n
<1>5. \A k \in 2 .. Len(g) : Trusted(g[k], g[k - 1])
  <2> TAKE k \in 2 .. Len(g)
  <2>1. CASE k = n + 1
    <3>1. n >= 1 /\ k - 1 = n /\ n \in 1 .. n
      BY <2>1, <1>1
    <3> QED
      BY <3>1, <2>1, <1>1, <1>4
  <2>2. CASE k # n + 1
    <3>1. k \in 2 .. n /\ k \in 1 .. n /\ k - 1 \in 1 .. n
      BY <2>2, <1>1
    <3> QED
      BY <3>1, <1>1, <1>2
  <2> QED
    BY <2>1, <2>2
<1>6. \A k \in 1 .. Len(g) : g[k].losses <= e.losses
  <2> TAKE k \in 1 .. Len(g)
  <2>1. k = n + 1 \/ k \in 1 .. n
    BY <1>1
  <2> QED
    BY <2>1, <1>1, <1>2, <1>3
<1>7. \A k \in 1 .. Len(g) : \A j \in Positions : Timestamp(j) <= g[k].timestamp => j <= i
  <2> TAKE k \in 1 .. Len(g)
  <2> TAKE j \in Positions
  <2> HAVE Timestamp(j) <= g[k].timestamp
  <2>1. CASE k = n + 1
    <3>1. Timestamp(j) <= Timestamp(i)
      BY <2>1, <1>1
    <3>2. i + 1 \in Positions => \A l \in Positions : l > i => Timestamp(l) > Timestamp(i)
      BY FrameShape
    <3>3. j > i => i + 1 \in Positions
      BY <1>3, Numbers
    <3> QED
      BY <3>1, <3>2, <3>3, <1>3
  <2>2. CASE k \in 1 .. n
    <3>1. j <= i - 1
      BY <2>2, <1>1, <1>2
    <3> QED
      BY <3>1, <1>3
  <2> QED
    BY <2>1, <2>2, <1>1
<1> QED
  BY <1>1, <1>5, <1>6, <1>7 DEF HistoryAt, g

(* The packet at i takes state d, with history h, to e and g.              *)
Onward(h, d, e, g, i) ==
  /\ e \in Depacketizers /\ e.next = d.next /\ e.losses = d.losses /\ e.damaged = None
  /\ \/ e.done = d.done /\ g = h
     \/ \E u \in AccessUnits :
          u.timestamp = Timestamp(i) /\ e.done = Append(d.done, u) /\ g = Append(h, u)
  /\ Inside(g, e, i)
(* Up to i nothing is missing, and the frame that i ends was handed on.    *)
NothingMissed(g, e, i) ==
  /\ Gapless(e, i, LastTimestamp(g))
  /\ Sent[i].marker => HandedOn(g, Timestamp(i))

(* The unit from s to i, when it does not complete its frame.              *)
LEMMA UnitCollected ==
  ASSUME NEW h, NEW d \in Depacketizers, NEW i \in Positions, NEW s \in Positions, s <= i,
         UnitFrom(s) = Span(s, i), CanStartNal(s), Timestamp(s) = Timestamp(i),
         Sent[i].piece \in {"whole", "end"}, d.fragment = <<>>, d.damaged = None,
         HistoryAt(h, d, i - 1), d.frame \in {None, Timestamp(i)}, d.frame = None => d.units = <<>>,
         WholeUnits(Timestamp(i), d.units),
         \A k \in 1 .. Len(d.units) : d.units[k][1] < s,
         Clean(h, d) => Due(d, i, s, LastTimestamp(h)), ~Sent[i].marker
  PROVE  LET e == Unit(d, i, Span(s, i))
         IN  Onward(h, d, e, h, i) /\ (Due(d, i, s, LastTimestamp(h)) => NothingMissed(h, e, i))
<1> DEFINE unit == Span(s, i)
           e == Unit(d, i, unit)
           ts == Timestamp(i)
           n == Len(d.units)
<1>1. unit \in Seq(Positions)
  BY SpanShape
<1>2. /\ e \in Depacketizers
      /\ e.fragment = <<>> /\ e.next = d.next /\ e.damaged = None /\ e.losses = d.losses
      /\ e.frame = ts /\ e.units = Append(d.units, unit) /\ e.done = d.done
  BY <1>1, UnitOutcome
<1>3. /\ ts \in Nat /\ ts # None /\ i \in Nat /\ i > 0 /\ s \in Nat /\ s \in Starts(ts)
      /\ d.units \in Seq(Seq(Positions)) /\ n \in Nat
  <2>1. d.units \in Seq(Seq(Positions)) /\ n \in Nat
    BY Fields
  <2> HIDE DEF n
  <2> QED
    BY <2>1, Numbers DEF Starts, Frame, None
<1>4. /\ WholeUnits(ts, e.units) /\ Len(e.units) = n + 1
      /\ \A k \in 1 .. n : e.units[k][1] = d.units[k][1]
      /\ e.units[n + 1][1] = s
  <2> DEFINE more == Append(d.units, unit)
  <2>1. /\ WholeUnits(ts, more) /\ Len(more) = n + 1
        /\ \A k \in 1 .. n : more[k][1] = d.units[k][1]
        /\ more[n + 1][1] = s
    <3> DEFINE units == d.units
    <3>1. /\ WholeUnits(ts, units) /\ more = Append(units, Span(s, i))
          /\ \A k \in 1 .. Len(units) : units[k][1] < s
          /\ n = Len(units) /\ units \in Seq(Seq(Positions))
      BY <1>3
    <3> HIDE DEF units, more, n, ts
    <3>2. OneMore(ts, units, more, s)
      BY <3>1, <1>3, OneMoreUnit
    <3> QED
      BY <3>1, <3>2 DEF units, OneMore
  <2>2. e.units = more
    BY <1>2
  <2> HIDE DEF e, more
  <2> QED
    BY <2>1, <2>2
<1> HIDE DEF e, unit, n
<1>5. FragmentAt(e, i) /\ DamageAt(e, i)
  BY <1>2 DEF FragmentAt, DamageAt
<1>6. FrameAt(e, i)
  <2>1. \A k \in 1 .. Len(e.units) : e.units[k][1] <= i
    <3> TAKE k \in 1 .. Len(e.units)
    <3>1. k = n + 1 \/ k \in 1 .. n
      BY <1>3, <1>4
    <3>2. k \in 1 .. n => d.units[k][1] \in Positions
      BY DEF OfWholeUnits, WholeUnits, Starts, Frame, n
    <3>3. k \in 1 .. n => d.units[k][1] < s
      BY DEF n
    <3>4. \A j \in Positions : j < s => j <= i
      BY <1>3, Numbers
    <3>5. CASE k \in 1 .. n
      BY <3>2, <3>3, <3>4, <3>5, <1>4
    <3> QED
      BY <3>1, <3>5, <1>3, <1>4
  <2> QED
    BY <2>1, <1>2, <1>3, <1>4 DEF FrameAt
<1>7. HistoryAt(h, e, i)
  BY <1>2, HistoryGrows
<1>8. ASSUME Due(d, i, s, LastTimestamp(h)) PROVE Gapless(e, i, LastTimestamp(h))
  <2> DEFINE t == LastTimestamp(h)
  <2>1. \A j \in 1 .. i : CanStartNal(j) /\ t < Timestamp(j) => Holds(e, j)
    <3> SUFFICES ASSUME NEW j \in 1 .. i, CanStartNal(j), t < Timestamp(j) PROVE Holds(e, j)
      OBVIOUS
    <3>1. CASE j = s
      <4>1. n + 1 \in 1 .. Len(e.units)
        BY <1>3, <1>4
      <4> QED
        BY <3>1, <4>1, <1>4 DEF Holds
    <3>2. CASE \E k \in 1 .. n : d.units[k][1] = j
      <4>1. \A k \in 1 .. n : k \in 1 .. Len(e.units)
        BY <1>3, <1>4
      <4> QED
        BY <3>2, <4>1, <1>4 DEF Holds
    <3> QED
      BY <3>1, <3>2, <1>8 DEF Due, n
  <2> QED
    BY <2>1, <1>2, <1>8 DEF Gapless, Due
<1>9. Clean(h, e) => Clean(h, d)
  BY <1>2 DEF Clean
<1>10. Inside(h, e, i)
  BY <1>2, <1>5, <1>6, <1>7, <1>8, <1>9 DEF Inside
<1> QED
  BY <1>2, <1>8, <1>10 DEF Onward, NothingMissed, e, unit

(* The same when it does.                                                  *)
LEMMA UnitCompletes ==
  ASSUME NEW h, NEW d \in Depacketizers, NEW i \in Positions, NEW s \in Positions, s <= i,
         UnitFrom(s) = Span(s, i), CanStartNal(s), Timestamp(s) = Timestamp(i),
         Sent[i].piece \in {"whole", "end"}, d.fragment = <<>>, d.damaged = None,
         HistoryAt(h, d, i - 1), d.frame \in {None, Timestamp(i)}, d.frame = None => d.units = <<>>,
         WholeUnits(Timestamp(i), d.units),
         \A k \in 1 .. Len(d.units) : d.units[k][1] < s,
         Clean(h, d) => Due(d, i, s, LastTimestamp(h)), Sent[i].marker
  PROVE  LET e == Unit(d, i, Span(s, i))
             g == Append(h, NewUnit(d, i, Span(s, i)))
         IN  Onward(h, d, e, g, i) /\ (Due(d, i, s, LastTimestamp(h)) => NothingMissed(g, e, i))
<1> DEFINE unit == Span(s, i)
           e == Unit(d, i, unit)
           u == NewUnit(d, i, unit)
           g == Append(h, u)
           ts == Timestamp(i)
           n == Len(d.units)
<1>1. unit \in Seq(Positions)
  BY SpanShape
<1>2. /\ e \in Depacketizers /\ u \in AccessUnits
      /\ e.fragment = <<>> /\ e.next = d.next /\ e.damaged = None /\ e.losses = d.losses
      /\ e.frame = None /\ e.units = <<>> /\ e.done = Append(d.done, u)
  BY <1>1, UnitOutcome
<1>3. /\ ts \in Nat /\ ts # None /\ i \in Nat /\ i > 0 /\ s \in Nat /\ s \in Starts(ts)
      /\ d.units \in Seq(Seq(Positions)) /\ n \in Nat
  <2>1. d.units \in Seq(Seq(Positions)) /\ n \in Nat
    BY Fields
  <2> HIDE DEF n
  <2> QED
    BY <2>1, Numbers DEF Starts, Frame, None
<1>4. u.timestamp = ts /\ u.losses = d.losses /\ u.units = Append(d.units, unit)
  BY DEF NewUnit
<1>5. /\ OfWholeUnits(u) /\ Len(u.units) = n + 1
      /\ \A k \in 1 .. n : u.units[k][1] = d.units[k][1]
      /\ u.units[n + 1][1] = s
  <2>1. /\ WholeUnits(ts, u.units) /\ Len(u.units) = n + 1
        /\ \A k \in 1 .. n : u.units[k][1] = d.units[k][1]
        /\ u.units[n + 1][1] = s
    <3> DEFINE more == Append(d.units, unit)
    <3>1. /\ WholeUnits(ts, more) /\ Len(more) = n + 1
          /\ \A k \in 1 .. n : more[k][1] = d.units[k][1]
          /\ more[n + 1][1] = s
      <4> DEFINE units == d.units
      <4>1. /\ WholeUnits(ts, units) /\ more = Append(units, Span(s, i))
            /\ \A k \in 1 .. Len(units) : units[k][1] < s
            /\ n = Len(units) /\ units \in Seq(Seq(Positions))
        BY <1>3
      <4> HIDE DEF units, more, n, ts
      <4>2. OneMore(ts, units, more, s)
        BY <4>1, <1>3, OneMoreUnit
      <4> QED
        BY <4>1, <4>2 DEF units, OneMore
    <3>2. u.units = more
      BY <1>4
    <3> HIDE DEF u, more
    <3> QED
      BY <3>1, <3>2
  <2> HIDE DEF u, ts
  <2> QED
    BY <2>1, <1>4 DEF OfWholeUnits, WholeUnits
<1> HIDE DEF e, unit, n, u
<1>6. \A j \in Frame(ts) : j \in 1 .. i
  <2> SUFFICES ASSUME NEW j \in Positions, Timestamp(j) = ts PROVE j \in 1 .. i
    BY DEF Frame
  <2>1. j > i => i + 1 \in Positions
    BY <1>3, Numbers
  <2>2. j > i => Timestamp(j) > ts
    BY <2>1, FrameShape
  <2> QED
    BY <2>2, <1>3, Numbers
<1>7. ASSUME Due(d, i, s, LastTimestamp(h)), LastTimestamp(h) < ts PROVE Complete(u)
  <2> SUFFICES ASSUME NEW j \in Starts(ts) PROVE \E k \in 1 .. Len(u.units) : u.units[k][1] = j
    BY <1>4, <1>5 DEF Complete
  <2>1. j \in 1 .. i /\ CanStartNal(j) /\ Timestamp(j) = ts
    BY <1>6 DEF Starts, Frame
  <2>2. CASE j = s
    <3>1. n + 1 \in 1 .. Len(u.units)
      BY <1>3, <1>5
    <3> QED
      BY <2>2, <3>1, <1>5
  <2>3. CASE \E k \in 1 .. n : d.units[k][1] = j
    <3>1. \A k \in 1 .. n : k \in 1 .. Len(u.units)
      BY <1>3, <1>5
    <3> QED
      BY <2>3, <3>1, <1>5
  <2> QED
    BY <2>1, <2>2, <2>3, <1>7 DEF Due, n
<1>8. LastTimestamp(h) < ts /\ Len(h) \in Nat /\ h \in Seq(AccessUnits)
  <2>1. h \in Seq(AccessUnits) /\ Len(h) \in Nat
    BY DEF HistoryAt
  <2>2. CASE h = <<>>
    BY <2>1, <2>2, <1>3 DEF LastTimestamp, None
  <2>3. CASE h # <<>>
    <3>1. Len(h) \in 1 .. Len(h) /\ LastTimestamp(h) = h[Len(h)].timestamp /\ h[Len(h)] \in AccessUnits
      BY <2>1, <2>3 DEF LastTimestamp
    <3>2. LastTimestamp(h) \in Nat
      BY <3>1 DEF AccessUnits
    <3>3. Timestamp(i) <= h[Len(h)].timestamp => i <= i - 1
      BY <3>1 DEF HistoryAt
    <3> QED
      BY <2>1, <3>1, <3>2, <3>3, <1>3
  <2> QED
    BY <2>2, <2>3
<1>9. HistoryAt(g, e, i)
  <2>1. Clean(h, d) => Complete(u)
    BY <1>7, <1>8
  <2>2. Clean(h, d) => \A j \in Positions : LastTimestamp(h) < Timestamp(j) => Timestamp(i) <= Timestamp(j)
    BY DEF Due
  <2> QED
    BY <2>1, <2>2, <1>2, <1>4, <1>5, HandsOn
<1>10. LastTimestamp(g) = ts
  BY <1>2, <1>4, <1>8 DEF LastTimestamp
<1>11. Gapless(e, i, ts)
  <2>1. \A j \in 1 .. i : j \in Positions /\ Timestamp(j) \in Nat /\ Timestamp(j) <= ts
    BY <1>3, Numbers, FrameShape
  <2>2. \A j \in Positions : ts < Timestamp(j) => ts <= Timestamp(j)
    BY <1>3, Numbers
  <2>3. Sent[i].piece \notin {"start", "middle"}
    OBVIOUS
  <2>4. \A j \in 1 .. i : ~(ts < Timestamp(j))
    BY <2>1, <1>3
  <2>5. ts <= ts
    BY <1>3
  <2> HIDE DEF ts
  <2> QED
    BY <2>2, <2>3, <2>4, <2>5, <1>2 DEF Gapless, ts
<1>12. Inside(g, e, i)
  <2>1. FragmentAt(e, i) /\ DamageAt(e, i) /\ FrameAt(e, i)
    BY <1>2 DEF FragmentAt, DamageAt, FrameAt
  <2> QED
    BY <2>1, <1>2, <1>9, <1>10, <1>11 DEF Inside
<1>13. Onward(h, d, e, g, i)
  BY <1>2, <1>4, <1>12 DEF Onward
<1>14. Due(d, i, s, LastTimestamp(h)) => HandedOn(g, ts)
  <2>1. Len(g) = Len(h) + 1 /\ g[Len(g)] = u /\ Len(g) \in 1 .. Len(g)
    BY <1>2, <1>8
  <2> HIDE DEF g
  <2> QED
    BY <2>1, <1>4, <1>7, <1>8 DEF HandedOn
<1> QED
  BY <1>10, <1>11, <1>13, <1>14 DEF NothingMissed, e, u, unit

(* What the packet at i makes of the state behind the one before it.       *)
Moves(h, d, e, i) ==
  \E g : /\ Onward(h, d, e, g, i)
         /\ Gapless(d, i - 1, LastTimestamp(h)) => NothingMissed(g, e, i)

(* What the packet at i finds, released right after the one before it.     *)
LEMMA AtNext ==
  ASSUME NEW h, NEW d \in Depacketizers, NEW i \in Positions, Inside(h, d, i - 1), d.damaged = None
  PROVE  /\ d.fragment # <<>> => /\ i - 1 \in Positions /\ ~CanStartNal(i)
                                 /\ Timestamp(i) = Timestamp(i - 1)
         /\ d.frame \in {None, Timestamp(i)} /\ (d.frame = None => d.units = <<>>)
         /\ WholeUnits(Timestamp(i), d.units)
         /\ \A k \in 1 .. Len(d.units) : d.units[k][1] \in Positions /\ d.units[k][1] < i
         /\ d.fragment = <<>> /\ ~CanStartNal(i) => d.frame = None
         /\ HistoryAt(h, d, i - 1) /\ LastTimestamp(h) \in Int
         /\ Clean(h, d) => Gapless(d, i - 1, LastTimestamp(h))
<1>1. /\ FragmentAt(d, i - 1) /\ FrameAt(d, i - 1) /\ HistoryAt(h, d, i - 1)
      /\ Clean(h, d) => Gapless(d, i - 1, LastTimestamp(h))
  BY DEF Inside
<1>2. i \in Nat /\ i >= 1 /\ (i - 1 > 0 => i - 1 \in Positions) /\ (i - 1) + 1 = i
  BY Numbers
<1>3. i - 1 \in Positions =>
        /\ CanStartNal(i) <=> Sent[i - 1].piece \in {"whole", "end"}
        /\ ~Sent[i - 1].marker => Timestamp(i) = Timestamp(i - 1)
        /\ Sent[i - 1].marker => Sent[i - 1].piece \in {"whole", "end"}
        /\ Sent[i - 1].piece \in {"whole", "start", "middle", "end"}
  BY <1>2, FrameShape, Numbers
<1>4. d.fragment # <<>> => /\ i - 1 \in Positions /\ ~CanStartNal(i)
                           /\ Timestamp(i) = Timestamp(i - 1)
  <2> SUFFICES ASSUME d.fragment # <<>>
               PROVE  i - 1 \in Positions /\ ~CanStartNal(i) /\ Timestamp(i) = Timestamp(i - 1)
    OBVIOUS
  <2>1. PICK s \in 1 .. i - 1 : \A j \in s .. i - 1 : Sent[j].piece \in {"start", "middle"}
    BY <1>1 DEF FragmentAt
  <2>2. i - 1 > 0 /\ i - 1 \in s .. i - 1
    BY <1>2
  <2> QED
    BY <2>1, <2>2, <1>2, <1>3
<1>5. d.frame # None => i - 1 \in Positions /\ d.frame = Timestamp(i)
  BY <1>1, <1>2, <1>3 DEF FrameAt
<1>6. d.frame = None => d.units = <<>>
  BY <1>1 DEF FrameAt
<1>7. WholeUnits(Timestamp(i), d.units)
  <2>1. CASE d.frame = None
    BY <2>1, <1>6 DEF WholeUnits, OfWholeUnits
  <2>2. CASE d.frame # None
    BY <2>2, <1>1, <1>5 DEF FrameAt
  <2> QED
    BY <2>1, <2>2
<1>8. \A k \in 1 .. Len(d.units) : d.units[k][1] \in Positions /\ d.units[k][1] < i
  <2>1. \A k \in 1 .. Len(d.units) : d.units[k][1] \in Positions
    BY <1>7 DEF WholeUnits, OfWholeUnits, Starts, Frame
  <2>2. d.frame # None => \A k \in 1 .. Len(d.units) : d.units[k][1] <= i - 1
    BY <1>1 DEF FrameAt
  <2>3. \A j \in Positions : j <= i - 1 => j < i
    BY Numbers
  <2>4. CASE d.frame = None
    BY <2>4, <1>6
  <2> QED
    BY <2>1, <2>2, <2>3, <2>4
<1>9. d.fragment = <<>> /\ ~CanStartNal(i) => d.frame = None
  BY <1>1, <1>3, <1>5 DEF FrameAt
<1>10. LastTimestamp(h) \in Int
  <2>1. h \in Seq(AccessUnits)
    BY <1>1 DEF HistoryAt
  <2>2. h # <<>> => h[Len(h)] \in AccessUnits
    BY <2>1
  <2> QED
    BY <2>2 DEF LastTimestamp, AccessUnits, None
<1> QED
  BY <1>1, <1>4, <1>5, <1>6, <1>7, <1>8, <1>9, <1>10

(* When nothing of the frames after t was missed, nothing of the frame of  *)
(* i is missed.                                                            *)
LEMMA GaplessIsDue ==
  ASSUME NEW d, NEW i \in Positions, NEW t \in Int, Gapless(d, i - 1, t)
  PROVE  /\ \A j \in Positions : t < Timestamp(j) => Timestamp(i) <= Timestamp(j)
         /\ ~CanStartNal(i) => d.fragment # <<>>
         /\ \A j \in 1 .. i - 1 : CanStartNal(j) /\ t < Timestamp(j) => Holds(d, j)
<1>1. i \in Nat /\ i >= 1 /\ (i - 1 > 0 <=> i - 1 \in Positions) /\ (i - 1) + 1 = i
  BY Numbers
<1>2. \A j \in Positions : j \in Nat /\ Timestamp(j) \in Nat
  BY Numbers
<1>3. ASSUME NEW j \in Positions, t < Timestamp(j) PROVE Timestamp(i) <= Timestamp(j)
  <2>1. CASE i <= j
    BY <2>1, FrameShape
  <2>2. CASE j < i
    <3>1. i - 1 \in Positions /\ j <= i - 1
      BY <2>2, <1>1, <1>2, Numbers
    <3>2. Timestamp(i - 1) <= Timestamp(j) /\ Timestamp(j) <= Timestamp(i - 1)
      BY <3>1, <1>1, <1>3, FrameShape DEF Gapless
    <3>3. Timestamp(i - 1) = Timestamp(j)
      BY <3>1, <3>2, <1>2
    <3>4. ~Sent[i - 1].marker
      BY <3>1, <3>3, <1>1, <1>2, <1>3 DEF Gapless
    <3>5. Timestamp(i) = Timestamp(i - 1)
      BY <3>1, <3>4, <1>1, FrameShape
    <3> QED
      BY <3>3, <3>5, <1>2
  <2> QED
    BY <2>1, <2>2, <1>2
<1>4. ~CanStartNal(i) => d.fragment # <<>>
  <2>1. ~CanStartNal(i) => i - 1 \in Positions
    BY FrameShape
  <2>2. ~CanStartNal(i) => Sent[i - 1].piece \in {"start", "middle"}
    BY <2>1, <1>1, FrameShape, Numbers
  <2> QED
    BY <2>1, <2>2, <1>1 DEF Gapless
<1> QED
  BY <1>3, <1>4 DEF Gapless

(* A packet that continues a unit of which the start is missing.           *)
LEMMA Skips ==
  ASSUME NEW h, NEW d \in Depacketizers, NEW i \in Positions, Inside(h, d, i - 1), d.damaged = None,
         d.fragment = <<>>, ~CanStartNal(i)
  PROVE  Moves(h, d, d, i)
<1>1. d.frame = None /\ d.units = <<>> /\ HistoryAt(h, d, i - 1) /\ LastTimestamp(h) \in Int
  BY AtNext
<1>2. ~Gapless(d, i - 1, LastTimestamp(h))
  BY <1>1, GaplessIsDue
<1>3. ~Clean(h, d)
  BY <1>2, AtNext
<1>4. HistoryAt(h, d, i)
  BY <1>1, HistoryGrows
<1>5. Inside(h, d, i)
  BY <1>1, <1>3, <1>4 DEF Inside, FragmentAt, FrameAt, DamageAt
<1> QED
  BY <1>2, <1>5 DEF Moves, Onward

(* A packet that is a whole unit.                                          *)
LEMMA WholeMoves ==
  ASSUME NEW h, NEW d \in Depacketizers, NEW i \in Positions, Inside(h, d, i - 1), d.damaged = None,
         Sent[i].piece = "whole"
  PROVE  Moves(h, d, Whole(d, i), i)
<1> DEFINE t == LastTimestamp(h)
           e == Unit(d, i, Span(i, i))
<1>1. CanStartNal(i) /\ i \in Nat /\ i <= i
  BY Numbers DEF CanStartNal
<1>2. d.fragment = <<>> /\ t \in Int /\ (Clean(h, d) => Gapless(d, i - 1, t)) /\ HistoryAt(h, d, i - 1)
  BY <1>1, AtNext
<1>3. Whole(d, i) = e
  BY <1>1, <1>2, SpanShape DEF Whole, Interrupted
<1>4. UnitFrom(i) = Span(i, i)
  BY <1>1, UnitIsSpan
<1>5. Gapless(d, i - 1, t) => Due(d, i, i, t)
  <2> SUFFICES ASSUME Gapless(d, i - 1, t) PROVE Due(d, i, i, t)
    OBVIOUS
  <2>1. \A j \in Positions : t < Timestamp(j) => Timestamp(i) <= Timestamp(j)
    BY <1>2, GaplessIsDue
  <2>2. \A j \in 1 .. i - 1 : CanStartNal(j) /\ t < Timestamp(j) => Holds(d, j)
    BY <1>2, GaplessIsDue
  <2>3. \A j \in 1 .. i : j = i \/ j \in 1 .. i - 1
    BY <1>1
  <2> QED
    BY <2>1, <2>2, <2>3, <1>2 DEF Due, Holds
<1>6. d.frame \in {None, Timestamp(i)} /\ (d.frame = None => d.units = <<>>)
      /\ WholeUnits(Timestamp(i), d.units) /\ \A k \in 1 .. Len(d.units) : d.units[k][1] < i
  BY AtNext
<1>7. Clean(h, d) => Due(d, i, i, t)
  BY <1>2, <1>5
<1> HIDE DEF e, t
<1>8. CASE Sent[i].marker
  <2>1. \E g : Onward(h, d, e, g, i) /\ (Due(d, i, i, t) => NothingMissed(g, e, i))
    BY <1>1, <1>2, <1>4, <1>6, <1>7, <1>8, UnitCompletes DEF e, t
  <2> QED
    BY <2>1, <1>3, <1>5 DEF Moves, t
<1>9. CASE ~Sent[i].marker
  <2>1. \E g : Onward(h, d, e, g, i) /\ (Due(d, i, i, t) => NothingMissed(g, e, i))
    BY <1>1, <1>2, <1>4, <1>6, <1>7, <1>9, UnitCollected DEF e, t
  <2> QED
    BY <2>1, <1>3, <1>5 DEF Moves, t
<1> QED
  BY <1>8, <1>9

(* The open fragment, by its start. *)
LEMMA StartMoves ==
  ASSUME NEW h, NEW d \in Depacketizers, NEW i \in Positions, Inside(h, d, i - 1), d.damaged = None,
         Sent[i].piece = "start"
  PROVE  Moves(h, d, Start(d, i), i)
<1> DEFINE t == LastTimestamp(h)
           e == Start(d, i)
<1>1. /\ CanStartNal(i) /\ i \in Nat /\ i > 0 /\ i <= i /\ ~Sent[i].marker
      /\ Timestamp(i) \in Nat /\ Sequence(i + 1) \in 0 .. SequenceModulus - 1
      /\ After(Sequence(i)) = Sequence(i + 1)
  <2>1. CanStartNal(i) /\ ~Sent[i].marker
    BY FrameShape DEF CanStartNal
  <2>2. i + 1 \in 1 .. Len(Sent) + 1 /\ i \in Nat /\ i > 0 /\ i <= i
    BY Numbers
  <2>3. Timestamp(i) \in Nat /\ Sequence(i + 1) \in 0 .. SequenceModulus - 1
    BY <2>2, Numbers
  <2> QED
    BY <2>1, <2>2, <2>3, NextSequence
<1>2. d.fragment = <<>> /\ t \in Int /\ (Clean(h, d) => Gapless(d, i - 1, t)) /\ HistoryAt(h, d, i - 1)
  BY <1>1, AtNext
<1>3. /\ e \in Depacketizers
      /\ e.fragment = <<i>> /\ e.open = Timestamp(i) /\ e.expected = Sequence(i + 1)
      /\ e.frame = d.frame /\ e.units = d.units /\ e.next = d.next /\ e.damaged = None
      /\ e.losses = d.losses /\ e.done = d.done
  <2>1. e = [d EXCEPT !.fragment = <<i>>, !.open = Timestamp(i), !.expected = Sequence(i + 1)]
    BY <1>1, <1>2 DEF Start, Interrupted
  <2>2. <<i>> \in Seq(Positions)
    OBVIOUS
  <2> HIDE DEF e
  <2> QED
    BY <2>1, <2>2, <1>1 DEF Depacketizers
<1>4. e.fragment # <<>> /\ e.fragment[1] = i /\ e.fragment = Span(i, i)
  BY <1>1, <1>3, SpanShape
<1> HIDE DEF e, t
<1>5. FragmentAt(e, i)
  <2>1. i \in 1 .. i /\ (\A j \in i .. i : j = i) /\ (\A j \in i + 1 .. i : FALSE)
    BY <1>1
  <2> QED
    BY <2>1, <1>3, <1>4 DEF FragmentAt
<1>6. /\ d.frame \in {None, Timestamp(i)} /\ (d.frame = None => d.units = <<>>)
      /\ WholeUnits(Timestamp(i), d.units)
      /\ \A k \in 1 .. Len(d.units) : d.units[k][1] \in Positions /\ d.units[k][1] < i
  BY AtNext
<1>7. FrameAt(e, i)
  <2>1. \A j \in Positions : j < i => j <= i
    BY Numbers
  <2> QED
    BY <2>1, <1>1, <1>3, <1>4, <1>6 DEF FrameAt
<1>8. DamageAt(e, i) /\ HistoryAt(h, e, i)
  BY <1>2, <1>3, HistoryGrows DEF DamageAt
<1>9. ASSUME Gapless(d, i - 1, t) PROVE Gapless(e, i, t)
  <2>1. \A j \in Positions : t < Timestamp(j) => Timestamp(i) <= Timestamp(j)
    BY <1>2, <1>9, GaplessIsDue
  <2>2. \A j \in 1 .. i - 1 : CanStartNal(j) /\ t < Timestamp(j) => Holds(d, j)
    BY <1>2, <1>9, GaplessIsDue
  <2>3. \A j \in 1 .. i : j = i \/ j \in 1 .. i - 1
    BY <1>1
  <2>4. \A j \in 1 .. i : CanStartNal(j) /\ t < Timestamp(j) => Holds(e, j)
    BY <2>2, <2>3, <1>2, <1>3, <1>4 DEF Holds
  <2> QED
    BY <2>1, <2>4, <1>1, <1>3, <1>4 DEF Gapless
<1>10. Inside(h, e, i)
  BY <1>2, <1>3, <1>5, <1>7, <1>8, <1>9 DEF Inside, Clean, t
<1>11. Onward(h, d, e, h, i)
  BY <1>3, <1>10 DEF Onward
<1> QED
  BY <1>1, <1>9, <1>11 DEF Moves, NothingMissed, e, t

(* A packet that continues the open fragment, as it finds it.              *)
Continues(d, i) ==
  /\ d.open = Timestamp(i) /\ d.expected = Sequence(i)
  /\ \E s \in Positions :
       /\ s <= i - 1 /\ d.fragment = Span(s, i - 1) /\ d.fragment[1] = s
       /\ Append(d.fragment, i) = Span(s, i)
       /\ Sent[s].piece = "start" /\ CanStartNal(s)
       /\ \A j \in s .. i - 1 : Timestamp(j) = Timestamp(i) /\ Sent[j].piece \in {"start", "middle"}
       /\ \A j \in s + 1 .. i - 1 : Sent[j].piece = "middle"
       /\ \A k \in 1 .. Len(d.units) : d.units[k][1] < s

(* A fragment that is open is that of the packet before.                   *)
LEMMA AtContinuation ==
  ASSUME NEW h, NEW d \in Depacketizers, NEW i \in Positions, Inside(h, d, i - 1), d.damaged = None,
         d.fragment # <<>>
  PROVE  Continues(d, i)
<1>1. i - 1 \in Positions /\ Timestamp(i) = Timestamp(i - 1) /\ (i - 1) + 1 = i /\ i \in Nat
  <2>1. i - 1 \in Positions /\ Timestamp(i) = Timestamp(i - 1)
    BY AtNext
  <2> QED
    BY <2>1, Numbers
<1>2. FragmentAt(d, i - 1) /\ FrameAt(d, i - 1)
  BY DEF Inside
<1>3. d.open = Timestamp(i) /\ d.expected = Sequence(i)
  BY <1>1, <1>2 DEF FragmentAt
<1>4. PICK s \in 1 .. i - 1 :
        /\ d.fragment = Span(s, i - 1) /\ Sent[s].piece = "start"
        /\ \A j \in s .. i - 1 : Timestamp(j) = Timestamp(i - 1) /\ Sent[j].piece \in {"start", "middle"}
        /\ \A j \in s + 1 .. i - 1 : Sent[j].piece = "middle"
  BY <1>2 DEF FragmentAt
<1>5. s \in Positions /\ s <= i - 1 /\ CanStartNal(s)
  BY <1>1, <1>4, Numbers DEF CanStartNal
<1>6. d.fragment[1] = s /\ Append(d.fragment, i) = Span(s, i)
  <2>1. PICK p \in Positions : p = i - 1 /\ p + 1 = i /\ s <= p
    BY <1>1, <1>5
  <2>2. Span(s, p)[1] = s /\ Append(Span(s, p), p + 1) = Span(s, p + 1)
    BY <2>1, <1>5, SpanShape
  <2> QED
    BY <2>1, <2>2, <1>4
<1>7. \A k \in 1 .. Len(d.units) : d.units[k][1] < s
  <2>1. d.frame = None => d.units = <<>>
    BY <1>2 DEF FrameAt
  <2>2. CASE d.frame = None
    BY <2>1, <2>2
  <2>3. CASE d.frame # None
    BY <2>3, <1>2, <1>6 DEF FrameAt
  <2> QED
    BY <2>2, <2>3
<1> QED
  BY <1>1, <1>3, <1>4, <1>5, <1>6, <1>7 DEF Continues

(* The fragment with one more packet.                                      *)
Grown(d, i) == [d EXCEPT !.fragment = Append(@, i), !.expected = After(Sequence(i))]

(* What appending to the fragment changes.                                 *)
LEMMA GrownFields ==
  ASSUME NEW d \in Depacketizers, NEW i \in Positions
  PROVE  LET e == Grown(d, i)
         IN  /\ e \in Depacketizers
             /\ e.fragment = Append(d.fragment, i) /\ e.open = d.open /\ e.expected = Sequence(i + 1)
             /\ e.frame = d.frame /\ e.units = d.units /\ e.next = d.next /\ e.damaged = d.damaged
             /\ e.losses = d.losses /\ e.done = d.done
<1> DEFINE e == Grown(d, i)
<1>1. After(Sequence(i)) = Sequence(i + 1) /\ Sequence(i + 1) \in 0 .. SequenceModulus - 1
  BY Numbers, NextSequence
<1>2. Append(d.fragment, i) \in Seq(Positions)
  BY Fields
<1>3. e = [d EXCEPT !.fragment = Append(d.fragment, i), !.expected = Sequence(i + 1)]
  BY <1>1 DEF Grown
<1> HIDE DEF e
<1>4. /\ e \in Depacketizers
      /\ e.fragment = Append(d.fragment, i) /\ e.open = d.open /\ e.expected = Sequence(i + 1)
      /\ e.frame = d.frame /\ e.units = d.units /\ e.next = d.next /\ e.damaged = d.damaged
      /\ e.losses = d.losses /\ e.done = d.done
  BY <1>1, <1>2, <1>3 DEF Depacketizers
<1> QED
  BY <1>4 DEF e

(* What closing the fragment changes.                                      *)
LEMMA ClosedFields ==
  ASSUME NEW d \in Depacketizers
  PROVE  LET e == CloseFragment(d)
         IN  /\ e \in Depacketizers /\ e.fragment = <<>>
             /\ e.frame = d.frame /\ e.units = d.units /\ e.next = d.next /\ e.damaged = d.damaged
             /\ e.losses = d.losses /\ e.done = d.done
<1> DEFINE e == CloseFragment(d)
<1>1. e = [d EXCEPT !.fragment = <<>>, !.open = None, !.expected = None]
  BY DEF CloseFragment
<1>2. <<>> \in Seq(Positions)
  OBVIOUS
<1> HIDE DEF e
<1>3. /\ e \in Depacketizers /\ e.fragment = <<>>
      /\ e.frame = d.frame /\ e.units = d.units /\ e.next = d.next /\ e.damaged = d.damaged
      /\ e.losses = d.losses /\ e.done = d.done
  BY <1>1, <1>2 DEF Depacketizers
<1> QED
  BY <1>3 DEF e

(* A packet in the middle of a unit.                                       *)
LEMMA MiddleMoves ==
  ASSUME NEW h, NEW d \in Depacketizers, NEW i \in Positions, Inside(h, d, i - 1), d.damaged = None,
         Sent[i].piece = "middle"
  PROVE  Moves(h, d, Continue(d, i), i)
<1>1. ~CanStartNal(i) /\ ~Sent[i].marker /\ i \in Nat /\ i > 0
  <2>1. ~CanStartNal(i) /\ ~Sent[i].marker
    BY FrameShape DEF CanStartNal
  <2> QED
    BY <2>1, Numbers
<1>2. CASE d.fragment = <<>>
  BY <1>1, <1>2, Skips DEF Continue
<1>3. CASE d.fragment # <<>>
  <2>0. Continues(d, i)
    BY <1>3, AtContinuation
  <2> DEFINE e == Grown(d, i)
             t == LastTimestamp(h)
  <2>1. /\ d.open = Timestamp(i) /\ d.expected = Sequence(i)
    BY <2>0 DEF Continues
  <2>2. PICK s \in Positions :
              /\ s <= i - 1 /\ d.fragment = Span(s, i - 1) /\ d.fragment[1] = s
              /\ Append(d.fragment, i) = Span(s, i)
              /\ Sent[s].piece = "start" /\ CanStartNal(s)
              /\ \A j \in s .. i - 1 : Timestamp(j) = Timestamp(i) /\ Sent[j].piece \in {"start", "middle"}
              /\ \A j \in s + 1 .. i - 1 : Sent[j].piece = "middle"
              /\ \A k \in 1 .. Len(d.units) : d.units[k][1] < s
    BY <2>0 DEF Continues
  <2>3. Continue(d, i) = e
    BY <1>3, <2>1 DEF Continue, Grown
  <2>4. /\ e \in Depacketizers
        /\ e.fragment = Span(s, i) /\ e.open = Timestamp(i) /\ e.expected = Sequence(i + 1)
        /\ e.frame = d.frame /\ e.units = d.units /\ e.next = d.next /\ e.damaged = None
        /\ e.losses = d.losses /\ e.done = d.done
    BY <2>1, <2>2, GrownFields
  <2> HIDE DEF e
  <2>5. e.fragment # <<>> /\ e.fragment[1] = s /\ s \in 1 .. i
    BY <2>2, <2>4, <1>1, SpanShape, Numbers
  <2>6. \A j \in s .. i : /\ j = i \/ j \in s .. i - 1
                          /\ j \in s + 1 .. i => j = i \/ j \in s + 1 .. i - 1
    BY <1>1, <2>2, Numbers
  <2>7. FragmentAt(e, i)
    <3>1. \A j \in s .. i : Timestamp(j) = Timestamp(i) /\ Sent[j].piece \in {"start", "middle"}
      BY <2>2, <2>6
    <3>2. \A j \in s + 1 .. i : Sent[j].piece = "middle"
      BY <2>2, <1>1, Numbers
    <3> QED
      BY <3>1, <3>2, <2>2, <2>4, <2>5 DEF FragmentAt
  <2>8. /\ d.frame \in {None, Timestamp(i)} /\ (d.frame = None => d.units = <<>>)
        /\ WholeUnits(Timestamp(i), d.units)
        /\ \A k \in 1 .. Len(d.units) : d.units[k][1] \in Positions /\ d.units[k][1] < i
        /\ HistoryAt(h, d, i - 1) /\ t \in Int /\ (Clean(h, d) => Gapless(d, i - 1, t))
    BY AtNext
  <2>9. FrameAt(e, i)
    <3>1. \A j \in Positions : j < i => j <= i
      BY Numbers
    <3> QED
      BY <3>1, <1>1, <2>2, <2>4, <2>5, <2>8 DEF FrameAt
  <2>10. DamageAt(e, i) /\ HistoryAt(h, e, i)
    BY <2>4, <2>8, HistoryGrows DEF DamageAt
  <2>11. ASSUME Gapless(d, i - 1, t) PROVE Gapless(e, i, t)
    <3>1. \A j \in Positions : t < Timestamp(j) => Timestamp(i) <= Timestamp(j)
      BY <2>8, <2>11, GaplessIsDue
    <3>2. \A j \in 1 .. i - 1 : CanStartNal(j) /\ t < Timestamp(j) => Holds(d, j)
      BY <2>8, <2>11, GaplessIsDue
    <3>3. \A j \in 1 .. i : j = i \/ j \in 1 .. i - 1
      BY <1>1
    <3> HIDE DEF t
    <3>4. \A j \in 1 .. i : CanStartNal(j) /\ t < Timestamp(j) => Holds(e, j)
      BY <3>2, <3>3, <1>1, <2>2, <2>4, <2>5 DEF Holds
    <3> QED
      BY <3>1, <3>4, <1>1, <2>4, <2>5 DEF Gapless
  <2>12. Inside(h, e, i)
    BY <2>4, <2>7, <2>8, <2>9, <2>10, <2>11 DEF Inside, Clean
  <2>13. Onward(h, d, e, h, i)
    BY <2>4, <2>12 DEF Onward
  <2> QED
    BY <1>1, <2>3, <2>11, <2>13 DEF Moves, NothingMissed
<1> QED
  BY <1>2, <1>3

(* A packet that ends a unit.                                              *)
LEMMA EndMoves ==
  ASSUME NEW h, NEW d \in Depacketizers, NEW i \in Positions, Inside(h, d, i - 1), d.damaged = None,
         Sent[i].piece = "end"
  PROVE  Moves(h, d, Continue(d, i), i)
<1>1. ~CanStartNal(i) /\ i \in Nat /\ i > 0
  BY FrameShape, Numbers DEF CanStartNal
<1>2. CASE d.fragment = <<>>
  BY <1>1, <1>2, Skips DEF Continue
<1>3. CASE d.fragment # <<>>
  <2>0. Continues(d, i)
    BY <1>3, AtContinuation
  <2>1. /\ d.open = Timestamp(i) /\ d.expected = Sequence(i)
    BY <2>0 DEF Continues
  <2> DEFINE c == CloseFragment(Grown(d, i))
             t == LastTimestamp(h)
  <2>2. PICK s \in Positions :
              /\ s <= i - 1 /\ d.fragment = Span(s, i - 1) /\ d.fragment[1] = s
              /\ Append(d.fragment, i) = Span(s, i)
              /\ Sent[s].piece = "start" /\ CanStartNal(s)
              /\ \A j \in s .. i - 1 : Timestamp(j) = Timestamp(i) /\ Sent[j].piece \in {"start", "middle"}
              /\ \A j \in s + 1 .. i - 1 : Sent[j].piece = "middle"
              /\ \A k \in 1 .. Len(d.units) : d.units[k][1] < s
    BY <2>0 DEF Continues
  <2>3. Grown(d, i) \in Depacketizers /\ Grown(d, i).fragment = Span(s, i)
    BY <2>2, GrownFields
  <2>4. /\ c \in Depacketizers /\ c.fragment = <<>>
        /\ c.frame = d.frame /\ c.units = d.units /\ c.next = d.next /\ c.damaged = None
        /\ c.losses = d.losses /\ c.done = d.done
    BY <2>3, GrownFields, ClosedFields
  <2> DEFINE e == Unit(c, i, Span(s, i))
  <2>5. Continue(d, i) = e
    BY <1>3, <2>1, <2>3 DEF Continue, Grown
  <2> HIDE DEF c
  <2>6. s <= i /\ s \in s .. i - 1 /\ Timestamp(s) = Timestamp(i)
    BY <1>1, <2>2, Numbers
  <2>7. UnitFrom(s) = Span(s, i)
    BY <2>2, <2>6, UnitIsSpan
  <2>8. /\ d.frame \in {None, Timestamp(i)} /\ (d.frame = None => d.units = <<>>)
        /\ WholeUnits(Timestamp(i), d.units)
        /\ HistoryAt(h, d, i - 1) /\ t \in Int /\ (Clean(h, d) => Gapless(d, i - 1, t))
    BY AtNext
  <2>9. HistoryAt(h, c, i - 1)
    BY <2>4, <2>8 DEF HistoryAt
  <2>10. Gapless(d, i - 1, t) => Due(c, i, s, t)
    <3> SUFFICES ASSUME Gapless(d, i - 1, t) PROVE Due(c, i, s, t)
      OBVIOUS
    <3>1. \A j \in Positions : t < Timestamp(j) => Timestamp(i) <= Timestamp(j)
      BY <2>8, GaplessIsDue
    <3>2. \A j \in 1 .. i - 1 : CanStartNal(j) /\ t < Timestamp(j) => Holds(d, j)
      BY <2>8, GaplessIsDue
    <3>3. \A j \in 1 .. i : CanStartNal(j) => j \in 1 .. i - 1
      BY <1>1
    <3> HIDE DEF t
    <3> QED
      BY <3>1, <3>2, <3>3, <2>2, <2>4 DEF Due, Holds
  <2>11. Clean(h, c) => Due(c, i, s, t)
    BY <2>4, <2>8, <2>10 DEF Clean
  <2> HIDE DEF e, t
  <2>12. \E g : Onward(h, c, e, g, i) /\ (Due(c, i, s, t) => NothingMissed(g, e, i))
    <3>1. CASE Sent[i].marker
      BY <3>1, <2>2, <2>4, <2>6, <2>7, <2>8, <2>9, <2>11, UnitCompletes DEF e, t
    <3>2. CASE ~Sent[i].marker
      BY <3>2, <2>2, <2>4, <2>6, <2>7, <2>8, <2>9, <2>11, UnitCollected DEF e, t
    <3> QED
      BY <3>1, <3>2
  <2>13. PICK g : Onward(h, c, e, g, i) /\ (Due(c, i, s, t) => NothingMissed(g, e, i))
    BY <2>12
  <2>14. Onward(h, d, e, g, i)
    BY <2>4, <2>13 DEF Onward
  <2> QED
    BY <2>5, <2>10, <2>13, <2>14 DEF Moves, t
<1> QED
  BY <1>2, <1>3

(* FrameAssembler and FragmentBuffer, whatever the packet carries.         *)
LEMMA PacketMoves ==
  ASSUME NEW h, NEW d \in Depacketizers, NEW i \in Positions, Inside(h, d, i - 1), d.damaged = None
  PROVE  Moves(h, d, Depacketized(d, i), i)
<1>1. CASE Sent[i].piece = "whole"
  BY <1>1, WholeMoves DEF Depacketized
<1>2. CASE Sent[i].piece = "start"
  BY <1>2, StartMoves DEF Depacketized
<1>3. CASE Sent[i].piece = "middle"
  BY <1>3, MiddleMoves DEF Depacketized
<1>4. CASE Sent[i].piece = "end"
  BY <1>4, EndMoves DEF Depacketized
<1> QED
  BY <1>1, <1>2, <1>3, <1>4, Numbers

-----------------------------------------------------------------------------
(* The loop of InboundStream::push.                                        *)

(* The packet at i, released after the one at p, takes state d, with       *)
(* history h, to e and g.                                                  *)
Passes(h, d, p, e, g, i) ==
  /\ \/ e.done = d.done /\ g = h
     \/ \E u \in AccessUnits :
          u.timestamp = Timestamp(i) /\ e.done = Append(d.done, u) /\ g = Append(h, u)
  /\ Inside(g, e, i) /\ e.next = Sequence(i + 1)
  /\ i = p + 1 /\ Lossless(h, d, p) => Lossless(g, e, i)

(* When nothing was lost, the next packet meets no gap.                    *)
LEMMA LosslessHasNoGap ==
  ASSUME NEW h, NEW d, NEW p \in 0 .. Len(Sent), p + 1 \in Positions,
         NextAt(h, d, p), Lossless(h, d, p)
  PROVE  ~Gap(d, p + 1) /\ d.damaged = None
BY DEF NextAt, Lossless, Gapless, Gap

(* A packet after a gap: the rest of its frame is damaged.                 *)
LEMMA GapPasses ==
  ASSUME NEW h, NEW d \in Depacketizers, NEW p \in 0 .. Len(Sent), NEW i \in Positions, p < i,
         Inside(h, d, p), NextAt(h, d, p), Gap(d, i)
  PROVE  Passes(h, d, p, Released(d, i), h, i)
<1> DEFINE e == Released(d, i)
           reset == ResetDepacketizer(d)
           at == [reset EXCEPT !.losses = @ + 1, !.damaged = Timestamp(i)]
           on == [at EXCEPT !.next = After(Sequence(i))]
<1>1. /\ After(Sequence(i)) = Sequence(i + 1) /\ Timestamp(i) \in Nat /\ i \in Nat /\ i > 0
      /\ Timestamp(i) # None
  BY Numbers, NextSequence DEF None
<1>2. Sequence(i + 1) \in 0 .. SequenceModulus - 1
  BY <1>1, Numbers
<1>3. /\ reset \in Depacketizers /\ reset.fragment = <<>> /\ reset.frame = None /\ reset.units = <<>>
      /\ reset.losses = d.losses /\ reset.done = d.done
  <2> DEFINE c == Discard(d)
  <2>1. c = [d EXCEPT !.frame = None, !.units = <<>>] /\ reset = CloseFragment(c)
    BY DEF Discard, ResetDepacketizer
  <2>2. <<>> \in Seq(Seq(Positions))
    OBVIOUS
  <2> HIDE DEF c
  <2>3. /\ c \in Depacketizers /\ c.frame = None /\ c.units = <<>>
        /\ c.losses = d.losses /\ c.done = d.done
    BY <2>1, <2>2 DEF Depacketizers
  <2> QED
    BY <2>1, <2>3, ClosedFields
<1> HIDE DEF reset
<1>4. /\ at \in Depacketizers /\ at.fragment = <<>> /\ at.frame = None /\ at.units = <<>>
      /\ at.losses = d.losses + 1 /\ at.done = d.done /\ at.damaged = Timestamp(i)
  <2>1. at = [reset EXCEPT !.losses = d.losses + 1, !.damaged = Timestamp(i)]
    BY <1>3
  <2>2. d.losses + 1 \in Nat
    BY Fields
  <2> HIDE DEF at
  <2> QED
    BY <2>1, <2>2, <1>1, <1>3 DEF Depacketizers
<1>5. e = on
  <2>1. on.damaged = Timestamp(i)
    <3>1. on = [at EXCEPT !.next = Sequence(i + 1)]
      BY <1>1
    <3> HIDE DEF at
    <3> HIDE DEF on
    <3> QED
      BY <3>1, <1>4 DEF Depacketizers
  <2>2. e = IF on.damaged = Timestamp(i) THEN on ELSE Depacketized([on EXCEPT !.damaged = None], i)
    BY DEF Released, reset
  <2> HIDE DEF e, on
  <2> QED
    BY <2>1, <2>2
<1>6. /\ e \in Depacketizers /\ e.fragment = <<>> /\ e.frame = None /\ e.units = <<>>
      /\ e.losses = d.losses + 1 /\ e.done = d.done /\ e.damaged = Timestamp(i)
      /\ e.next = Sequence(i + 1)
  <2>1. e = [at EXCEPT !.next = Sequence(i + 1)]
    BY <1>1, <1>5
  <2> HIDE DEF e, at
  <2> QED
    BY <2>1, <1>2, <1>4 DEF Depacketizers
<1> HIDE DEF e
<1>7. HistoryAt(h, d, p) /\ d.losses \in Nat
  BY Fields DEF Inside
<1>8. HistoryAt(h, e, i) /\ ~Clean(h, e)
  <2>1. /\ h \in Seq(AccessUnits) /\ \A k \in 1 .. Len(h) : h[k].losses <= d.losses /\ h[k].losses \in Nat
    <3>1. h \in Seq(AccessUnits) /\ \A k \in 1 .. Len(h) : h[k].losses <= d.losses
      BY <1>7 DEF HistoryAt
    <3>2. \A u \in AccessUnits : u.losses \in Nat
      BY DEF AccessUnits
    <3>3. \A k \in 1 .. Len(h) : h[k] \in AccessUnits
      BY <3>1
    <3> QED
      BY <3>1, <3>2, <3>3
  <2>2. \A k \in 1 .. Len(h) : h[k].losses <= e.losses /\ h[k].losses # e.losses
    BY <2>1, <1>6, <1>7
  <2>3. h # <<>> => Len(h) \in 1 .. Len(h)
    BY <2>1
  <2>4. ~Clean(h, e)
    BY <2>2, <2>3 DEF Clean
  <2>5. \A j \in Positions : j <= p => j <= i
    BY Numbers
  <2> QED
    BY <2>2, <2>4, <2>5, <1>7 DEF HistoryAt
<1>9. Inside(h, e, i)
  BY <1>1, <1>6, <1>8 DEF Inside, FragmentAt, FrameAt, DamageAt
<1>10. i = p + 1 => ~Lossless(h, d, p)
  BY LosslessHasNoGap
<1> QED
  BY <1>6, <1>9, <1>10 DEF Passes, e

(* A packet of the frame that a gap has damaged.                           *)
LEMMA DamagePasses ==
  ASSUME NEW h, NEW d \in Depacketizers, NEW p \in 0 .. Len(Sent), NEW i \in Positions, p < i,
         Inside(h, d, p), NextAt(h, d, p), ~Gap(d, i), d.damaged = Timestamp(i)
  PROVE  Passes(h, d, p, Released(d, i), h, i)
<1> DEFINE e == Released(d, i)
           on == [d EXCEPT !.next = After(Sequence(i))]
<1>1. /\ After(Sequence(i)) = Sequence(i + 1) /\ Timestamp(i) # None /\ i \in Nat /\ i > 0
      /\ Sequence(i + 1) \in 0 .. SequenceModulus - 1
  <2>1. i \in Nat /\ i > 0 /\ i + 1 \in 1 .. Len(Sent) + 1 /\ Timestamp(i) \in Nat
    BY Numbers
  <2> QED
    BY <2>1, Numbers, NextSequence DEF None
<1>2. /\ on \in Depacketizers /\ on.fragment = d.fragment /\ on.frame = d.frame /\ on.units = d.units
      /\ on.losses = d.losses /\ on.done = d.done /\ on.damaged = d.damaged
      /\ on.next = Sequence(i + 1)
  <2>1. on = [d EXCEPT !.next = Sequence(i + 1)]
    BY <1>1
  <2> HIDE DEF on
  <2> QED
    BY <2>1, <1>1 DEF Depacketizers
<1>3. e = on
  <2>1. e = IF on.damaged = Timestamp(i) THEN on ELSE Depacketized([on EXCEPT !.damaged = None], i)
    BY DEF Released
  <2> HIDE DEF e, on
  <2> QED
    BY <2>1, <1>2
<1> HIDE DEF e, on
<1>4. d.fragment = <<>> /\ d.frame = None /\ d.units = <<>>
  BY <1>1 DEF Inside, DamageAt, FrameAt
<1>5. ~Gapless(d, p, LastTimestamp(h))
  BY <1>1 DEF Gapless
<1>6. ~Clean(h, e) /\ ~Lossless(h, d, p)
  BY <1>2, <1>3, <1>5 DEF Clean, Inside, Lossless
<1>7. HistoryAt(h, e, i)
  <2>1. \A j \in Positions : j <= p => j <= i
    BY Numbers
  <2> QED
    BY <2>1, <1>2, <1>3 DEF HistoryAt, Inside
<1>8. Inside(h, e, i)
  BY <1>1, <1>2, <1>3, <1>4, <1>6, <1>7 DEF Inside, FragmentAt, FrameAt, DamageAt
<1> QED
  BY <1>2, <1>3, <1>6, <1>8 DEF Passes, e

(* What was handed on is so still, whatever follows.                       *)
LEMMA StillHandedOn ==
  ASSUME NEW h \in Seq(AccessUnits), NEW u, NEW t, HandedOn(h, t)
  PROVE  HandedOn(Append(h, u), t)
<1>1. \A k \in 1 .. Len(h) : k \in 1 .. Len(Append(h, u)) /\ Append(h, u)[k] = h[k]
  OBVIOUS
<1> QED
  BY <1>1 DEF HandedOn

(* Every other packet is depacketized.                                     *)
LEMMA PacketPasses ==
  ASSUME NEW h, NEW d \in Depacketizers, NEW p \in 0 .. Len(Sent), NEW i \in Positions, p < i,
         Inside(h, d, p), NextAt(h, d, p), ~Gap(d, i), d.damaged # Timestamp(i)
  PROVE  \E g : Passes(h, d, p, Released(d, i), g, i)
<1> DEFINE on == [d EXCEPT !.next = After(Sequence(i))]
           c == [on EXCEPT !.damaged = None]
           e == Depacketized(c, i)
           t == LastTimestamp(h)
<1>1. /\ After(Sequence(i)) = Sequence(i + 1) /\ i \in Nat /\ i > 0 /\ p <= i - 1
      /\ Sequence(i + 1) \in 0 .. SequenceModulus - 1
  <2>1. i \in Nat /\ i > 0 /\ i + 1 \in 1 .. Len(Sent) + 1 /\ p <= i - 1
    BY Numbers
  <2> QED
    BY <2>1, Numbers, NextSequence
<1>2. on \in Depacketizers /\ on.damaged = d.damaged
      /\ c \in Depacketizers /\ c.fragment = d.fragment /\ c.frame = d.frame /\ c.units = d.units
      /\ c.open = d.open /\ c.expected = d.expected
      /\ c.losses = d.losses /\ c.done = d.done /\ c.damaged = None
      /\ c.next = Sequence(i + 1)
  <2>1. on = [d EXCEPT !.next = Sequence(i + 1)]
    BY <1>1
  <2> DEFINE o == on
  <2>2. c = [o EXCEPT !.damaged = None] /\ o = [d EXCEPT !.next = Sequence(i + 1)]
    BY <2>1
  <2>3. o = on
    OBVIOUS
  <2> HIDE DEF c, o, on
  <2>4. o \in Depacketizers /\ o.damaged = d.damaged
        /\ o.fragment = d.fragment /\ o.frame = d.frame /\ o.units = d.units
        /\ o.open = d.open /\ o.expected = d.expected
        /\ o.losses = d.losses /\ o.done = d.done
        /\ o.next = Sequence(i + 1)
    BY <2>2, <1>1 DEF Depacketizers
  <2>5. c \in Depacketizers /\ c.fragment = o.fragment /\ c.frame = o.frame /\ c.units = o.units
        /\ c.open = o.open /\ c.expected = o.expected
        /\ c.losses = o.losses /\ c.done = o.done /\ c.damaged = None
        /\ c.next = o.next
    BY <2>2, <2>4 DEF Depacketizers
  <2> QED
    BY <2>3, <2>4, <2>5
<1>3. Released(d, i) = e
  <2>1. Released(d, i) = IF on.damaged = Timestamp(i) THEN on ELSE e
    BY DEF Released
  <2> HIDE DEF e, on
  <2> QED
    BY <2>1, <1>2
<1> HIDE DEF on, c
<1>4. d.next # None => p = i - 1
  <2>1. d.next # None => Sequence(i) = Sequence(p + 1)
    BY DEF Gap, NextAt
  <2>2. p + 1 \in 1 .. Len(Sent) + 1 /\ i \in 1 .. Len(Sent) + 1
    BY Numbers
  <2>3. d.next # None => i = p + 1
    BY <2>1, <2>2, SequenceApart
  <2> QED
    BY <2>3, <1>1
<1>5. Inside(h, c, i - 1)
  <2>1. CASE p = i - 1
    <3>1. FragmentAt(c, p) /\ FrameAt(c, p) /\ DamageAt(c, p) /\ HistoryAt(h, c, p)
      BY <1>2 DEF Inside, FragmentAt, FrameAt, DamageAt, HistoryAt
    <3>2. Clean(h, c) => Gapless(c, p, t)
      BY <1>2 DEF Inside, Clean, Gapless, Holds
    <3> QED
      BY <3>1, <3>2, <2>1, <1>2 DEF Inside
  <2>2. CASE p # i - 1
    <3>1. d.next = None
      BY <2>2, <1>4
    <3>2. d.fragment = <<>> /\ d.frame = None /\ ~Clean(h, d)
      BY <3>1, Numbers DEF NextAt
    <3>3. d.units = <<>> /\ HistoryAt(h, d, p)
      BY <3>2 DEF Inside, FrameAt
    <3>4. \A j \in Positions : j <= p => j <= i - 1
      BY <1>1, Numbers
    <3>5. HistoryAt(h, c, i - 1)
      BY <3>3, <3>4, <1>2 DEF HistoryAt
    <3>6. ~Clean(h, c)
      BY <3>2, <1>2 DEF Clean
    <3> QED
      BY <3>2, <3>3, <3>5, <3>6, <1>2 DEF Inside, FragmentAt, FrameAt, DamageAt
  <2> QED
    BY <2>1, <2>2
<1>6. PICK g : Onward(h, c, e, g, i) /\ (Gapless(c, i - 1, t) => NothingMissed(g, e, i))
  BY <1>2, <1>5, PacketMoves DEF Moves
<1> HIDE DEF e
<1>7. ASSUME i = p + 1, Lossless(h, d, p) PROVE Lossless(g, e, i)
  <2>1. Gapless(c, i - 1, t)
    BY <1>1, <1>2, <1>7 DEF Lossless, Gapless, Holds
  <2>2. NothingMissed(g, e, i) /\ e.losses = 0 /\ e.next = Sequence(i + 1)
    BY <2>1, <1>2, <1>6, <1>7 DEF Onward, Lossless
  <2>3. h \in Seq(AccessUnits)
    BY DEF Inside, HistoryAt
  <2>4. \A j \in 1 .. p : Sent[j].marker => HandedOn(g, Timestamp(j))
    BY <2>3, <1>6, <1>7, StillHandedOn DEF Onward, Lossless
  <2>5. \A j \in 1 .. i : j = i \/ j \in 1 .. p
    BY <1>1, <1>7
  <2> QED
    BY <2>2, <2>4, <2>5 DEF Lossless, NothingMissed
<1>8. Passes(h, d, p, e, g, i)
  BY <1>2, <1>6, <1>7 DEF Passes, Onward
<1> QED
  BY <1>3, <1>8

(* One round of the loop.                                                  *)
LEMMA ReleasedPasses ==
  ASSUME NEW h, NEW d \in Depacketizers, NEW p \in 0 .. Len(Sent), NEW i \in Positions, p < i,
         Inside(h, d, p), NextAt(h, d, p)
  PROVE  \E g : Passes(h, d, p, Released(d, i), g, i)
<1>1. CASE Gap(d, i)
  BY <1>1, GapPasses
<1>2. CASE ~Gap(d, i) /\ d.damaged = Timestamp(i)
  BY <1>2, DamagePasses
<1>3. CASE ~Gap(d, i) /\ d.damaged # Timestamp(i)
  BY <1>3, PacketPasses
<1> QED
  BY <1>1, <1>2, <1>3

(* f[i] is what the first i of the packets queue make of d.                *)
PassedOver(d, queue, f, n) ==
  f = [i \in 0 .. n |-> IF i = 0 THEN d ELSE Released(f[i - 1], queue[i])]

(* A set of numbers has a least element.                                   *)
LEMMA NatHasFirst ==
  ASSUME NEW S, S \subseteq Nat, S # {}
  PROVE  \E x \in S : \A y \in S : x <= y
<1> DEFINE R == OpToRel(<, Nat)
<1>1. IsWellFoundedOn(R, Nat)
  BY NatLessThanWellFounded
<1>2. \A x, y \in Nat : ~(<<y, x>> \in R) => x <= y
  BY DEF OpToRel
<1> HIDE DEF R
<1>3. PICK x \in S : \A y \in S : ~(<<y, x>> \in R)
  BY <1>1, WFMin
<1> QED
  BY <1>2, <1>3

(* The states of the loop, one by one, are a function.                     *)
LEMMA PassedOverExists ==
  ASSUME NEW d, NEW queue, NEW n \in Nat
  PROVE  \E f : PassedOver(d, queue, f, n)
<1> DEFINE Bad == {m \in Nat : ~\E f : PassedOver(d, queue, f, m)}
<1> SUFFICES ASSUME Bad # {} PROVE FALSE
  OBVIOUS
<1>1. PICK m \in Bad : \A y \in Bad : m <= y
  BY NatHasFirst
<1>2. CASE m = 0
  <2> DEFINE f == [i \in 0 .. 0 |-> d]
  <2>1. PassedOver(d, queue, f, 0)
    BY DEF PassedOver
  <2> QED
    BY <1>1, <1>2, <2>1
<1>3. CASE m # 0
  <2>1. m - 1 \in Nat /\ m - 1 \notin Bad
    BY <1>1, <1>3
  <2>2. PICK f : PassedOver(d, queue, f, m - 1)
    BY <2>1
  <2> DEFINE g == [i \in 0 .. m |-> IF i = m THEN Released(f[m - 1], queue[m]) ELSE f[i]]
  <2>3. PassedOver(d, queue, g, m)
    BY <1>3, <2>1, <2>2 DEF PassedOver
  <2> QED
    BY <1>1, <2>3
<1> QED
  BY <1>2, <1>3

Runs(f, d, queue, n) == f[0] = d /\ \A i \in 1 .. n : f[i] = Released(f[i - 1], queue[i])
Ascends(queue, n, p) ==
  /\ \A k \in 1 .. n : p < queue[k]
  /\ \A k, l \in 1 .. n : k < l => queue[k] < queue[l]

(* Burst is the last of them.                                              *)
LEMMA BurstSteps ==
  ASSUME NEW r, NEW n \in Nat, n = Len(r.ready)
  PROVE  \E f : Runs(f, Resumed(r), r.ready, n) /\ Burst(r) = f[n]
<1> DEFINE d == Resumed(r)
           queue == r.ready
           f == CHOOSE g : g = [i \in 0 .. Len(queue) |-> IF i = 0 THEN d ELSE Released(g[i - 1], queue[i])]
<1>1. \E g : PassedOver(d, queue, g, Len(queue))
  BY PassedOverExists
<1>2. \E g : g = [i \in 0 .. Len(queue) |-> IF i = 0 THEN d ELSE Released(g[i - 1], queue[i])]
  BY <1>1, Zenon DEF PassedOver
<1>3. f = [i \in 0 .. Len(queue) |-> IF i = 0 THEN d ELSE Released(f[i - 1], queue[i])]
  BY <1>2, Zenon
<1>4. Burst(r) = f[Len(queue)]
  BY DEF Burst
<1> HIDE DEF f, d, queue
<1>5. Len(queue) = n
  BY DEF queue
<1>6. f = [i \in 0 .. n |-> IF i = 0 THEN d ELSE Released(f[i - 1], queue[i])]
  BY <1>3, <1>5
<1>7. f[0] = d
  <2>1. 0 \in 0 .. n
    OBVIOUS
  <2> QED
    BY <1>6, <2>1
<1>8. ASSUME NEW i \in 1 .. n PROVE f[i] = Released(f[i - 1], queue[i])
  <2>1. i \in 0 .. n /\ i # 0
    OBVIOUS
  <2> QED
    BY <1>6, <2>1
<1> QED
  BY <1>4, <1>5, <1>7, <1>8 DEF Runs, d, queue

(* Appending to what a burst hands on appends to all that was handed on.   *)
LEMMA OneMoreHandedOn ==
  ASSUME NEW h \in Seq(AccessUnits), NEW done \in Seq(AccessUnits), NEW u \in AccessUnits
  PROVE  h \o Append(done, u) = Append(h \o done, u)
<1>1. /\ Len(h) \in Nat /\ Len(done) \in Nat
      /\ Append(done, u) \in Seq(AccessUnits) /\ Len(Append(done, u)) = Len(done) + 1
      /\ h \o done \in Seq(AccessUnits) /\ Len(h \o done) = Len(h) + Len(done)
  OBVIOUS
<1>2. /\ Len(h \o Append(done, u)) = Len(h) + Len(done) + 1
      /\ Len(Append(h \o done, u)) = Len(h) + Len(done) + 1
      /\ h \o Append(done, u) \in Seq(AccessUnits) /\ Append(h \o done, u) \in Seq(AccessUnits)
  BY <1>1
<1>3. ASSUME NEW k \in 1 .. Len(h) + Len(done) + 1
      PROVE  (h \o Append(done, u))[k] = Append(h \o done, u)[k]
  <2>1. CASE k \in 1 .. Len(h)
    BY <2>1, <1>1
  <2>2. CASE k > Len(h) /\ k < Len(h) + Len(done) + 1
    BY <2>2, <1>1
  <2>3. CASE k = Len(h) + Len(done) + 1
    BY <2>3, <1>1
  <2> QED
    BY <2>1, <2>2, <2>3, <1>1
<1> QED
  BY <1>2, <1>3, SeqEqual

(* What is known of the loop when the packets up to q were released.       *)
Known(h, d, p, e, q, queue, k) ==
  /\ Inside(h \o e.done, e, q) /\ NextAt(h \o e.done, e, q)
  /\ \A m \in 1 .. Len(e.done) : \E l \in 1 .. k : e.done[m].timestamp = Timestamp(queue[l])
  /\ (\A l \in 1 .. k : queue[l] = p + l) /\ Lossless(h, d, p) => Lossless(h \o e.done, e, q)

Place(queue, k, p) == IF k = 0 THEN p ELSE queue[k]

(* One more round of the loop.                                             *)
LEMMA KnownStays ==
  ASSUME NEW h \in Seq(AccessUnits), NEW d, NEW p \in 0 .. Len(Sent), NEW queue, NEW k \in Nat, k > 0,
         NEW e, NEW q \in 0 .. Len(Sent), NEW i \in Positions, queue[k] = i, q < i,
         q = Place(queue, k - 1, p), Known(h, d, p, e, q, queue, k - 1)
  PROVE  Known(h, d, p, Released(e, i), i, queue, k)
<1> DEFINE a == Released(e, i)
<1>1. /\ e \in Depacketizers /\ Inside(h \o e.done, e, q) /\ NextAt(h \o e.done, e, q)
      /\ e.done \in Seq(AccessUnits)
  BY Fields DEF Known, Inside
<1>2. PICK g : Passes(h \o e.done, e, q, a, g, i)
  BY <1>1, ReleasedPasses
<1> HIDE DEF a
<1>3. /\ g = h \o a.done
      /\ \/ a.done = e.done
         \/ \E u \in AccessUnits : u.timestamp = Timestamp(i) /\ a.done = Append(e.done, u)
  <2>1. \/ a.done = e.done /\ g = h \o e.done
        \/ \E u \in AccessUnits : /\ u.timestamp = Timestamp(i) /\ a.done = Append(e.done, u)
                                  /\ g = Append(h \o e.done, u)
    BY <1>2 DEF Passes
  <2>2. \A u \in AccessUnits : h \o Append(e.done, u) = Append(h \o e.done, u)
    BY <1>1, OneMoreHandedOn
  <2> QED
    BY <2>1, <2>2
<1>4. Inside(h \o a.done, a, i) /\ a.next = Sequence(i + 1) /\ a \in Depacketizers
  BY <1>2, <1>3 DEF Passes, Inside
<1>5. \A m \in 1 .. Len(a.done) : \E l \in 1 .. k : a.done[m].timestamp = Timestamp(queue[l])
  <2>1. \A m \in 1 .. Len(e.done) : \E l \in 1 .. k - 1 : e.done[m].timestamp = Timestamp(queue[l])
    BY DEF Known
  <2>2. k \in 1 .. k /\ \A l \in 1 .. k - 1 : l \in 1 .. k
    OBVIOUS
  <2>3. CASE a.done = e.done
    BY <2>1, <2>2, <2>3
  <2>4. ASSUME NEW u \in AccessUnits, u.timestamp = Timestamp(i), a.done = Append(e.done, u)
        PROVE  \A m \in 1 .. Len(a.done) : \E l \in 1 .. k : a.done[m].timestamp = Timestamp(queue[l])
    <3> TAKE m \in 1 .. Len(a.done)
    <3>1. CASE m \in 1 .. Len(e.done)
      <4>1. a.done[m] = e.done[m]
        BY <3>1, <2>4, <1>1
      <4> QED
        BY <3>1, <4>1, <2>1, <2>2
    <3>2. CASE m \notin 1 .. Len(e.done)
      <4>1. a.done[m] = u
        BY <3>2, <2>4, <1>1
      <4> QED
        BY <4>1, <2>2, <2>4
    <3> QED
      BY <3>1, <3>2
  <2> QED
    BY <2>3, <2>4, <1>3
<1>6. (\A l \in 1 .. k : queue[l] = p + l) /\ Lossless(h, d, p) => Lossless(h \o a.done, a, i)
  <2> SUFFICES ASSUME \A l \in 1 .. k : queue[l] = p + l, Lossless(h, d, p)
               PROVE  Lossless(h \o a.done, a, i)
    OBVIOUS
  <2>1. i = p + k
    OBVIOUS
  <2>2. q = p + (k - 1)
    <3>1. k - 1 = 0 \/ k - 1 \in 1 .. k
      OBVIOUS
    <3> QED
      BY <3>1 DEF Place
  <2>3. i = q + 1
    BY <2>1, <2>2
  <2>4. Lossless(h \o e.done, e, q)
    BY DEF Known
  <2> QED
    BY <2>3, <2>4, <1>2, <1>3 DEF Passes
<1> QED
  BY <1>4, <1>5, <1>6 DEF Known, NextAt, a

(* All of the rounds.                                                      *)
LEMMA BurstPasses ==
  ASSUME NEW h \in Seq(AccessUnits), NEW d, NEW p \in 0 .. Len(Sent),
         NEW queue \in Seq(Positions), NEW n \in Nat, n = Len(queue),
         Ascends(queue, n, p), NEW f, Runs(f, d, queue, n), Inside(h, d, p), NextAt(h, d, p), d.done = <<>>
  PROVE  Known(h, d, p, f[n], Place(queue, n, p), queue, n)
<1> DEFINE Good(k) == Known(h, d, p, f[k], Place(queue, k, p), queue, k)
           Bad == {k \in 0 .. n : ~Good(k)}
<1> SUFFICES ASSUME Bad # {} PROVE FALSE
  OBVIOUS
<1>0. /\ \A k \in 1 .. n : p < queue[k]
      /\ \A k, l \in 1 .. n : k < l => queue[k] < queue[l]
      /\ f[0] = d /\ \A i \in 1 .. n : f[i] = Released(f[i - 1], queue[i])
  BY DEF Ascends, Runs
<1>1. Good(0)
  <2>1. h \o <<>> = h
    OBVIOUS
  <2>2. Len(<<>>) = 0 /\ 1 .. 0 = {}
    OBVIOUS
  <2> QED
    BY <1>0, <2>1, <2>2 DEF Known, Place
<1>2. Bad \subseteq Nat
  OBVIOUS
<1> HIDE DEF Good
<1>3. PICK k \in Bad : \A y \in Bad : k <= y
  BY <1>2, NatHasFirst
<1>4. k \in 1 .. n /\ k - 1 \in 0 .. n /\ Good(k - 1) /\ ~Good(k)
  BY <1>1, <1>3
<1> DEFINE q == Place(queue, k - 1, p)
           i == queue[k]
<1>5. i \in Positions /\ q \in 0 .. Len(Sent) /\ q < i
  <2>1. i \in Positions /\ p < i
    BY <1>0, <1>4
  <2>2. CASE k - 1 = 0
    BY <2>1, <2>2 DEF Place
  <2>3. CASE k - 1 # 0
    <3>1. k - 1 \in 1 .. n /\ k - 1 < k
      BY <2>3, <1>4
    <3>2. q = queue[k - 1] /\ queue[k - 1] \in Positions /\ queue[k - 1] < i
      BY <1>0, <2>3, <3>1, <1>4 DEF Place
    <3> QED
      BY <2>1, <3>2, Numbers
  <2> QED
    BY <2>2, <2>3
<1>6. f[k] = Released(f[k - 1], i) /\ Place(queue, k, p) = i
  BY <1>0, <1>4 DEF Place
<1> HIDE DEF q, i
<1>7. Known(h, d, p, f[k - 1], q, queue, k - 1)
  BY <1>4 DEF Good, q
<1>8. k \in Nat /\ k > 0 /\ queue[k] = i /\ q = Place(queue, k - 1, p)
  BY <1>4 DEF q, i
<1>9. Known(h, d, p, Released(f[k - 1], i), i, queue, k)
  BY <1>5, <1>7, <1>8, KnownStays
<1> QED
  BY <1>4, <1>6, <1>9 DEF Good

-----------------------------------------------------------------------------
(* RtpReorderBuffer::push: what it decides on, by name.                    *)

StaleAt(i) == Stale(packets, i)
QueueAt(i) == (packets \ StaleAt(i)) \cup {i}
ResumeAt(i) == IF StaleAt(i) = {} THEN continuation ELSE NoContinuation
PendingAt(i) ==
  Sent[i].marker \/ IF StaleAt(i) = {} THEN markerPending ELSE \E j \in packets \ StaleAt(i) : Sent[j].marker
EndsAt(i) == IsFull(QueueAt(i)) \/ (PendingAt(i) /\ MarkerReady(QueueAt(i), ResumeAt(i)))
DroppedAt(i) == Cardinality({Timestamp(j) : j \in StaleAt(i)})
StopAt(i) == IF Sent[Newest(QueueAt(i))].marker THEN NoContinuation
             ELSE <<After(Sequence(Newest(QueueAt(i)))), Timestamp(Newest(QueueAt(i)))>>

(* What Reordered returns, by these names.                                 *)
LEMMA ReorderedIs ==
  ASSUME NEW i
  PROVE  /\ EndsAt(i) =>
              Reordered(i) = [ready |-> Sorted(QueueAt(i)), dropped |-> DroppedAt(i), packets |-> {},
                 lastReleased |-> Sequence(Newest(QueueAt(i))), markerPending |-> FALSE,
                 continuation |-> StopAt(i)]
         /\ ~EndsAt(i) =>
              Reordered(i) = [ready |-> <<>>, dropped |-> DroppedAt(i), packets |-> QueueAt(i),
                 lastReleased |-> IF StaleAt(i) = {} THEN lastReleased ELSE Sequence(Newest(StaleAt(i))),
                 markerPending |-> PendingAt(i), continuation |-> ResumeAt(i)]
BY DEF Reordered, EndsAt, QueueAt, StaleAt, ResumeAt, PendingAt, DroppedAt, StopAt

(* Frames are given up when there is a stale packet, and only then.        *)
LEMMA DroppedCounts ==
  ASSUME NEW i, packets \subseteq Positions
  PROVE  StaleAt(i) \subseteq packets /\ DroppedAt(i) \in Nat /\ (DroppedAt(i) = 0 <=> StaleAt(i) = {})
<1>1. StaleAt(i) \subseteq packets
  BY DEF StaleAt, Stale
<1>2. StaleAt(i) \in SUBSET Positions
  BY <1>1
<1> DEFINE times == {Timestamp(j) : j \in StaleAt(i)}
           f == [j \in StaleAt(i) |-> Timestamp(j)]
<1>3. f \in Surjection(StaleAt(i), times)
  <2>1. f \in [StaleAt(i) -> times] /\ \A t \in times : \E j \in StaleAt(i) : f[j] = t
    OBVIOUS
  <2> QED
    BY <2>1, Fun_IsSurj
<1>4. IsFiniteSet(times)
  BY <1>2, <1>3, PositionsAreFinite, FS_Surjection
<1>5. Cardinality(times) \in Nat /\ (Cardinality(times) = 0 <=> times = {})
  BY <1>4, FS_CardinalityType, FS_EmptySet
<1> QED
  BY <1>1, <1>5 DEF DroppedAt

(* What the buffer gives up is behind what it keeps.                       *)
LEMMA StaleIsBehind ==
  ASSUME packets \subseteq Positions, NEW i \in Positions, StaleAt(i) # {}
  PROVE  /\ Newest(StaleAt(i)) \in packets /\ Newest(StaleAt(i)) < i
         /\ \A j \in QueueAt(i) : Newest(StaleAt(i)) < j
<1> DEFINE older == {j \in packets : Timestamp(j) # Timestamp(i)}
           last == Newest(older)
<1>1. StaleAt(i) = older /\ Precedes(last, i) /\ older # {}
  BY DEF StaleAt, Stale
<1>2. last \in older /\ last \in Positions /\ \A j \in older : j <= last
  BY <1>1, NewestIsLast
<1> HIDE DEF last
<1>3. last < i /\ Timestamp(last) # Timestamp(i)
  BY <1>1, <1>2, NewerIsLater DEF Precedes
<1>4. Timestamp(last) < Timestamp(i)
  <2>1. Timestamp(last) <= Timestamp(i)
    BY <1>2, <1>3, FrameShape, Numbers
  <2> QED
    BY <2>1, <1>2, <1>3, Numbers
<1>5. ASSUME NEW j \in QueueAt(i) PROVE last < j
  <2>1. j \in Positions /\ Timestamp(j) = Timestamp(i)
    BY <1>1 DEF QueueAt
  <2>2. j <= last => Timestamp(j) <= Timestamp(last)
    BY <2>1, <1>2, FrameShape
  <2> QED
    BY <2>1, <2>2, <1>2, <1>4, Numbers
<1> QED
  BY <1>1, <1>2, <1>3, <1>5 DEF last

(* Where the packets that a push leaves or releases begin: behind p, or    *)
(* behind the frames it gave up.                                           *)
Behind(i, p) == IF StaleAt(i) = {} THEN p ELSE Newest(StaleAt(i))

(* What is queued lies ahead of what was released or given up.             *)
LEMMA QueueIsAhead ==
  ASSUME packets \subseteq Positions, NEW i \in Positions, NEW p \in 0 .. Len(Sent), p < i, BufferAt(p)
  PROVE  /\ QueueAt(i) \subseteq packets \cup {i} /\ QueueAt(i) \subseteq Positions /\ i \in QueueAt(i)
         /\ Behind(i, p) \in p .. Len(Sent) /\ (StaleAt(i) # {} => Behind(i, p) > 0)
         /\ \A j \in QueueAt(i) : Behind(i, p) < j
<1>1. QueueAt(i) \subseteq packets \cup {i} /\ QueueAt(i) \subseteq Positions /\ i \in QueueAt(i)
  BY DEF QueueAt
<1>2. \A j \in packets : p < j
  BY Numbers DEF BufferAt
<1>3. CASE StaleAt(i) = {}
  <2>1. Behind(i, p) = p /\ p \in p .. Len(Sent)
    BY <1>3, Numbers DEF Behind
  <2>2. \A j \in QueueAt(i) : p < j
    BY <1>1, <1>2
  <2> QED
    BY <1>1, <1>3, <2>1, <2>2
<1>4. CASE StaleAt(i) # {}
  <2> DEFINE last == Newest(StaleAt(i))
  <2>1. last \in packets /\ Behind(i, p) = last /\ \A j \in QueueAt(i) : last < j
    BY <1>4, StaleIsBehind DEF Behind
  <2> HIDE DEF last
  <2>2. last \in Positions /\ p < last
    BY <1>2, <2>1
  <2>3. last \in p .. Len(Sent) /\ last > 0
    BY <2>2, Numbers
  <2> QED
    BY <1>1, <2>1, <2>3
<1> QED
  BY <1>1, <1>3, <1>4

-----------------------------------------------------------------------------
(* InboundStream::push.                                                    *)

(* Giving the chain up, or what was stale: nothing collected, a loss told. *)
LEMMA StartsAnew ==
  ASSUME NEW h, NEW d, NEW p \in 0 .. Len(Sent), HistoryAt(h, d, p), d.losses \in Nat,
         NEW e \in Depacketizers, NEW q \in p .. Len(Sent), e.fragment = <<>>, e.frame = None, e.units = <<>>,
         e.damaged = None, e.losses > d.losses, e.next \in {None, Sequence(q + 1)}
  PROVE  Inside(h, e, q) /\ NextAt(h, e, q)
<1>1. h \in Seq(AccessUnits) /\ \A k \in 1 .. Len(h) : h[k].losses <= d.losses
  BY DEF HistoryAt
<1>2. \A k \in 1 .. Len(h) : h[k].losses \in Nat
  <2>1. \A u \in AccessUnits : u.losses \in Nat
    BY DEF AccessUnits
  <2>2. \A k \in 1 .. Len(h) : h[k] \in AccessUnits
    BY <1>1
  <2> QED
    BY <2>1, <2>2
<1>3. e.losses \in Nat
  BY Fields
<1>4. \A k \in 1 .. Len(h) : h[k].losses <= e.losses /\ h[k].losses # e.losses
  BY <1>1, <1>2, <1>3
<1>5. ~Clean(h, e)
  <2>1. h # <<>> => Len(h) \in 1 .. Len(h)
    BY <1>1
  <2> QED
    BY <2>1, <1>4 DEF Clean
<1>6. \A j \in Positions : j <= p => j <= q
  BY Numbers
<1>7. HistoryAt(h, e, q)
  BY <1>4, <1>6 DEF HistoryAt
<1> QED
  BY <1>5, <1>7 DEF Inside, FragmentAt, FrameAt, DamageAt, NextAt

(* Where the loop starts.  With nothing given up, where it stopped.        *)
LEMMA ResumedIsNow ==
  ASSUME losses \in Nat, NEW r, r.dropped = 0
  PROVE  Resumed(r) = Now
<1>1. losses + r.dropped = losses
  OBVIOUS
<1> QED
  BY <1>1 DEF Resumed, Now

(* After frames were given up, from the first packet of the burst.         *)
LEMMA ResumedAnew ==
  ASSUME Now \in Depacketizers, NEW r, r.dropped \in Nat \ {0},
         NEW next \in {None} \cup 0 .. SequenceModulus - 1,
         next = IF r.ready = <<>> THEN None ELSE Sequence(Head(r.ready))
  PROVE  /\ Resumed(r) \in Depacketizers
         /\ Resumed(r).fragment = <<>> /\ Resumed(r).frame = None /\ Resumed(r).units = <<>>
         /\ Resumed(r).damaged = None /\ Resumed(r).losses > Now.losses /\ Resumed(r).next = next
         /\ Resumed(r).done = <<>>
<1> DEFINE d == [fragment |-> depacketizer.fragment, open |-> depacketizer.open,
                 expected |-> depacketizer.expected, frame |-> depacketizer.frame,
                 units |-> depacketizer.units, next |-> nextSequence,
                 damaged |-> damaged, losses |-> losses + r.dropped, done |-> <<>>]
           b == Discard(d)
           c == CloseFragment(b)
           e == [c EXCEPT !.damaged = None, !.next = next]
<1>1. Resumed(r) = e
  BY DEF Resumed, ResetDepacketizer
<1>2. losses \in Nat /\ Now.losses = losses
  BY DEF Now, Depacketizers
<1>3. d \in Depacketizers /\ d.losses = losses + r.dropped /\ d.done = <<>>
  BY <1>2 DEF Now, Depacketizers
<1> HIDE DEF d
<1>4. /\ b \in Depacketizers /\ b.frame = None /\ b.units = <<>> /\ b.losses = d.losses /\ b.done = d.done
  <2>1. b = [d EXCEPT !.frame = None, !.units = <<>>]
    BY DEF Discard
  <2>2. <<>> \in Seq(Seq(Positions))
    OBVIOUS
  <2> HIDE DEF b
  <2> QED
    BY <1>3, <2>1, <2>2 DEF Depacketizers
<1> HIDE DEF b
<1>5. /\ c \in Depacketizers /\ c.fragment = <<>> /\ c.frame = b.frame /\ c.units = b.units
      /\ c.losses = b.losses /\ c.done = b.done
  BY <1>4, ClosedFields
<1> HIDE DEF c
<1>6. c \in Depacketizers /\ e = [c EXCEPT !.damaged = None, !.next = next]
  BY <1>5
<1> HIDE DEF e
<1>7. e \in Depacketizers
  <2>1. e = [fragment |-> c.fragment, open |-> c.open, expected |-> c.expected, frame |-> c.frame,
             units |-> c.units, next |-> next, damaged |-> None, losses |-> c.losses, done |-> c.done]
    BY <1>6 DEF Depacketizers
  <2>2. /\ c.fragment \in Seq(Positions) /\ c.open \in Nat \cup {None}
        /\ c.expected \in {None} \cup 0 .. SequenceModulus - 1
        /\ c.frame \in Nat \cup {None} /\ c.units \in Seq(Seq(Positions)) /\ c.losses \in Nat
        /\ c.done \in Seq(AccessUnits)
    BY <1>6 DEF Depacketizers
  <2> QED
    BY <2>1, <2>2 DEF Depacketizers
<1>8. /\ e.fragment = c.fragment /\ e.frame = c.frame /\ e.units = c.units
      /\ e.losses = c.losses /\ e.done = c.done /\ e.damaged = None /\ e.next = next
  BY <1>6 DEF Depacketizers
<1> QED
  BY <1>1, <1>2, <1>3, <1>4, <1>5, <1>7, <1>8

(* The invariants do not look at what the loop has just handed on.         *)
LEMMA SameState ==
  ASSUME NEW d \in Depacketizers, NEW e \in Depacketizers,
         e.fragment = d.fragment, e.open = d.open, e.expected = d.expected, e.frame = d.frame,
         e.units = d.units, e.next = d.next, e.damaged = d.damaged, e.losses = d.losses,
         NEW h, NEW p
  PROVE  /\ Inside(h, d, p) => Inside(h, e, p)
         /\ NextAt(h, d, p) => NextAt(h, e, p)
         /\ Lossless(h, d, p) => Lossless(h, e, p)
<1>1. FragmentAt(d, p) => FragmentAt(e, p)
  BY DEF FragmentAt
<1>2. FrameAt(d, p) => FrameAt(e, p)
  BY DEF FrameAt
<1>3. (DamageAt(d, p) => DamageAt(e, p)) /\ (HistoryAt(h, d, p) => HistoryAt(h, e, p))
  BY DEF DamageAt, HistoryAt
<1>4. \A t : Gapless(d, p, t) => Gapless(e, p, t)
  BY DEF Gapless, Holds
<1>5. Clean(h, e) = Clean(h, d)
  BY DEF Clean
<1>6. NextAt(h, d, p) => NextAt(h, e, p)
  BY <1>5 DEF NextAt
<1>7. Lossless(h, d, p) => Lossless(h, e, p)
  BY <1>4 DEF Lossless
<1> QED
  BY <1>1, <1>2, <1>3, <1>4, <1>5, <1>6, <1>7 DEF Inside

(* The state that the loop leaves in the variables.                        *)
Leaves(d) ==
  /\ depacketizer' = [f \in DOMAIN Empty |-> d[f]]
  /\ nextSequence' = d.next /\ damaged' = d.damaged /\ losses' = d.losses

(* These variables are the state of the loop.                              *)
LEMMA LoopLeaves ==
  ASSUME NEW d \in Depacketizers, Leaves(d)
  PROVE  /\ Now' \in Depacketizers
         /\ Now'.fragment = d.fragment /\ Now'.open = d.open /\ Now'.expected = d.expected
         /\ Now'.frame = d.frame /\ Now'.units = d.units /\ Now'.next = d.next
         /\ Now'.damaged = d.damaged /\ Now'.losses = d.losses
         /\ depacketizer'.fragment = d.fragment /\ depacketizer'.units = d.units
         /\ depacketizer'.frame = d.frame
<1>1. DOMAIN Empty = {"fragment", "open", "expected", "frame", "units"}
  BY DEF Empty
<1>2. /\ depacketizer'.fragment = d.fragment /\ depacketizer'.open = d.open
      /\ depacketizer'.expected = d.expected /\ depacketizer'.frame = d.frame
      /\ depacketizer'.units = d.units
  BY <1>1 DEF Leaves
<1>3. Now' = [fragment |-> d.fragment, open |-> d.open, expected |-> d.expected, frame |-> d.frame,
              units |-> d.units, next |-> d.next, damaged |-> d.damaged, losses |-> d.losses, done |-> <<>>]
  BY <1>2 DEF Now, Leaves
<1> DEFINE e == Now'
<1> HIDE DEF e
<1>4. e = [fragment |-> d.fragment, open |-> d.open, expected |-> d.expected, frame |-> d.frame,
              units |-> d.units, next |-> d.next, damaged |-> d.damaged, losses |-> d.losses, done |-> <<>>]
  BY <1>3 DEF e
<1>5. e \in Depacketizers
  BY <1>4 DEF Depacketizers
<1> QED
  BY <1>2, <1>4, <1>5 DEF e

-----------------------------------------------------------------------------
(* The reorder buffer and the loop together.                               *)

(* What a push with result r and loop state d does to the variables.       *)
Pushes(i, r, d) ==
  /\ packets' = r.packets /\ lastReleased' = r.lastReleased
  /\ continuation' = r.continuation /\ markerPending' = r.markerPending
  /\ Leaves(d)
  /\ tracked' = (tracked \cup {Timestamp(i)}) \ {u.timestamp : u \in Range(d.done)}
  /\ completed' = completed \o d.done
  /\ failed' = IF {u.timestamp : u \in Range(d.done)} \subseteq tracked \cup {Timestamp(i)}
                THEN "no" ELSE "untimed"
  /\ UNCHANGED resets

(* The burst a push releases starts behind b.                              *)
BurstFrom(r, b) ==
  /\ r.ready \in Seq(Positions)
  /\ Ascends(r.ready, Len(r.ready), b)
  /\ Inside(completed, Resumed(r), b) /\ NextAt(completed, Resumed(r), b) /\ Resumed(r).done = <<>>

(* The loop, from what the buffer releases.                                *)
LEMMA LoopRuns ==
  ASSUME NEW r, NEW b \in 0 .. Len(Sent), BurstFrom(r, b)
  PROVE  Known(completed, Resumed(r), b, Burst(r), Place(r.ready, Len(r.ready), b), r.ready, Len(r.ready))
<1> DEFINE n == Len(r.ready)
           queue == r.ready
           d == Resumed(r)
<1>1. n \in Nat /\ n = Len(queue) /\ queue \in Seq(Positions)
  BY DEF BurstFrom
<1>2. PICK f : Runs(f, d, queue, n) /\ Burst(r) = f[n]
  BY <1>1, BurstSteps
<1>3. /\ Ascends(queue, n, b)
      /\ Inside(completed, d, b) /\ NextAt(completed, d, b) /\ d.done = <<>>
  BY DEF BurstFrom
<1> HIDE DEF n, queue, d
<1>4. Inside(completed, d, b) /\ NextAt(completed, d, b) /\ d.done = <<>>
  BY <1>3
<1>5. Ascends(queue, n, b) /\ Runs(f, d, queue, n) /\ n = Len(queue)
  BY <1>1, <1>2, <1>3
<1>6. completed \in Seq(AccessUnits)
  BY <1>4 DEF Inside, HistoryAt
<1>7. Known(completed, d, b, f[n], Place(queue, n, b), queue, n)
  BY <1>1, <1>4, <1>5, <1>6, BurstPasses
<1> QED
  BY <1>2, <1>7 DEF n, queue, d

(* The timestamps of what a burst hands on,                                *)
LEMMA DoneTimes ==
  ASSUME NEW done \in Seq(AccessUnits)
  PROVE  {u.timestamp : u \in Range(done)} = {done[m].timestamp : m \in 1 .. Len(done)}
BY DEF Range

(* which are those of packets it released; the invariants hold after it.   *)
LEMMA LoopStays ==
  ASSUME NEW r, NEW b \in 0 .. Len(Sent), BurstFrom(r, b), NEW i, Pushes(i, r, Burst(r)),
         NEW q, q = Place(r.ready, Len(r.ready), b)
  PROVE  /\ Now' \in Depacketizers /\ Burst(r) \in Depacketizers
         /\ Inside(completed', Now', q) /\ NextAt(completed', Now', q)
         /\ (\A l \in 1 .. Len(r.ready) : r.ready[l] = b + l) /\ Lossless(completed, Resumed(r), b)
               => Lossless(completed', Now', q)
         /\ \A t \in {u.timestamp : u \in Range(Burst(r).done)} :
              \E l \in 1 .. Len(r.ready) : t = Timestamp(r.ready[l])
<1> DEFINE e == Burst(r)
<1>1. Known(completed, Resumed(r), b, e, q, r.ready, Len(r.ready))
  BY LoopRuns
<1> HIDE DEF e
<1>2. completed' = completed \o e.done /\ Leaves(e)
  BY DEF Pushes, e
<1>3. /\ Inside(completed', e, q) /\ NextAt(completed', e, q) /\ e \in Depacketizers
      /\ \A m \in 1 .. Len(e.done) : \E l \in 1 .. Len(r.ready) : e.done[m].timestamp = Timestamp(r.ready[l])
      /\ (\A l \in 1 .. Len(r.ready) : r.ready[l] = b + l) /\ Lossless(completed, Resumed(r), b)
            => Lossless(completed', e, q)
  BY <1>1, <1>2 DEF Known, Inside
<1>4. /\ Now' \in Depacketizers
      /\ Now'.fragment = e.fragment /\ Now'.open = e.open /\ Now'.expected = e.expected
      /\ Now'.frame = e.frame /\ Now'.units = e.units /\ Now'.next = e.next
      /\ Now'.damaged = e.damaged /\ Now'.losses = e.losses
  BY <1>2, <1>3, LoopLeaves
<1> DEFINE now == Now'
           done == completed'
<1> HIDE DEF now, done
<1>5. /\ Inside(done, e, q) => Inside(done, now, q)
      /\ NextAt(done, e, q) => NextAt(done, now, q)
      /\ Lossless(done, e, q) => Lossless(done, now, q)
  BY <1>3, <1>4, SameState DEF now
<1>6. \A t \in {u.timestamp : u \in Range(e.done)} : \E l \in 1 .. Len(r.ready) : t = Timestamp(r.ready[l])
  <2>1. e.done \in Seq(AccessUnits)
    BY <1>3, Fields
  <2>2. {u.timestamp : u \in Range(e.done)} = {e.done[m].timestamp : m \in 1 .. Len(e.done)}
    BY <2>1, DoneTimes
  <2>3. \A t \in {e.done[m].timestamp : m \in 1 .. Len(e.done)} : \E l \in 1 .. Len(r.ready) : t = Timestamp(r.ready[l])
    BY <1>3
  <2> QED
    BY <2>2, <2>3
<1> QED
  BY <1>3, <1>4, <1>5, <1>6 DEF now, done, e

(* The tracker: no timestamp is handed on that it does not hold, and it    *)
(* stays within its capacity.                                              *)
LEMMA TrackerStays ==
  ASSUME TypeOK, IsFiniteSet(tracked), NEW i \in Positions, NEW r, NEW d, Pushes(i, r, d),
         Timestamp(i) \in tracked \/ Cardinality(tracked) < MaxTracked,
         {u.timestamp : u \in Range(d.done)} \subseteq tracked \cup {Timestamp(i)}
  PROVE  /\ failed' = "no" /\ tracked' \subseteq Nat /\ IsFiniteSet(tracked')
         /\ Cardinality(tracked') <= MaxTracked
         /\ d.done = <<>> => tracked' = tracked \cup {Timestamp(i)}
<1> DEFINE more == tracked \cup {Timestamp(i)}
           out == {u.timestamp : u \in Range(d.done)}
<1>1. tracked \subseteq Nat /\ Cardinality(tracked) <= MaxTracked /\ MaxTracked \in Nat
      /\ Cardinality(tracked) \in Nat
  BY RtpAssumption, FS_CardinalityType DEF TypeOK
<1>2. tracked' = more \ out /\ failed' = "no"
  BY DEF Pushes
<1>3. d.done = <<>> => out = {}
  BY DEF Range
<1> HIDE DEF out
<1>4. IsFiniteSet(more) /\ Cardinality(more) \in Nat /\ Cardinality(more) <= MaxTracked
  <2>1. CASE Timestamp(i) \in tracked
    <3>1. more = tracked
      BY <2>1
    <3> HIDE DEF more
    <3> QED
      BY <1>1, <3>1
  <2>2. CASE Timestamp(i) \notin tracked
    <3>1. IsFiniteSet(more) /\ Cardinality(more) = Cardinality(tracked) + 1
      BY <2>2, FS_AddElement
    <3> HIDE DEF more
    <3> QED
      BY <1>1, <2>2, <3>1
  <2> QED
    BY <2>1, <2>2
<1>5. more \subseteq Nat
  BY <1>1, Numbers
<1>6. tracked' \subseteq more
  BY <1>2
<1> HIDE DEF more
<1>7. IsFiniteSet(tracked') /\ Cardinality(tracked') <= Cardinality(more) /\ Cardinality(tracked') \in Nat
  BY <1>4, <1>6, FS_Subset, FS_CardinalityType
<1>8. d.done = <<>> => tracked' = more
  BY <1>2, <1>3
<1> QED
  BY <1>1, <1>2, <1>4, <1>5, <1>6, <1>7, <1>8 DEF more

Room(i) == Timestamp(i) \in tracked \/ Cardinality(tracked) < MaxTracked

(* What RtpReorderBuffer::push may return: a burst behind b, with nothing  *)
(* older left in the buffer.                                               *)
Result(i, r, b) ==
  LET q == Place(r.ready, Len(r.ready), b)
  IN  /\ BurstFrom(r, b)
      /\ \A l \in 1 .. Len(r.ready) : r.ready[l] \in packets \cup {i}
      /\ r.packets \subseteq packets \cup {i} /\ Cardinality(r.packets) < MaxReorder
      /\ \A j \in r.packets : j > q
      /\ r.packets = {} \/ r.ready = <<>>
      /\ r.lastReleased = IF q = 0 THEN None ELSE Sequence(q)
      /\ r.continuation \in ({None} \cup 0 .. SequenceModulus - 1) \X (Nat \cup {None})
      /\ r.markerPending \in BOOLEAN

(* The loop ends at a packet, or where it started.                         *)
LEMMA PlaceIsPosition ==
  ASSUME NEW queue \in Seq(Positions), NEW b \in 0 .. Len(Sent)
  PROVE  Place(queue, Len(queue), b) \in 0 .. Len(Sent)
<1>1. Len(queue) \in Nat
  OBVIOUS
<1>2. CASE Len(queue) = 0
  BY <1>2 DEF Place
<1>3. CASE Len(queue) # 0
  <2>1. Len(queue) \in 1 .. Len(queue)
    BY <1>1, <1>3
  <2>2. queue[Len(queue)] \in Positions
    BY <2>1
  <2>3. Positions \subseteq 0 .. Len(Sent)
    BY Numbers
  <2> QED
    BY <1>3, <2>2, <2>3 DEF Place
<1> QED
  BY <1>2, <1>3

(* A push that finds room keeps the invariant.                             *)
LEMMA PushStays ==
  ASSUME TypeOK, IsFiniteSet(tracked), NEW p \in 0 .. Len(Sent), Safe(p), NEW i \in Positions,
         Room(i), NEW r, NEW b \in 0 .. Len(Sent), Result(i, r, b), Pushes(i, r, Burst(r)),
         network' \subseteq Positions, orderly' \in BOOLEAN,
         NEW q, q = Place(r.ready, Len(r.ready), b)
  PROVE  TypeOK' /\ IsFiniteSet(tracked') /\ q \in 0 .. Len(Sent) /\ Safe(q)' /\ failed' = "no"
<1> DEFINE d == Burst(r)
           out == {u.timestamp : u \in Range(d.done)}
<1>1. /\ BurstFrom(r, b) /\ \A l \in 1 .. Len(r.ready) : r.ready[l] \in packets \cup {i}
      /\ r.packets \subseteq packets \cup {i} /\ Cardinality(r.packets) < MaxReorder
      /\ \A j \in r.packets : j > q
      /\ r.packets = {} \/ r.ready = <<>>
      /\ r.lastReleased = IF q = 0 THEN None ELSE Sequence(q)
      /\ r.continuation \in ({None} \cup 0 .. SequenceModulus - 1) \X (Nat \cup {None})
      /\ r.markerPending \in BOOLEAN
  BY DEF Result
<1>2. /\ Now' \in Depacketizers /\ d \in Depacketizers
      /\ Inside(completed', Now', q) /\ NextAt(completed', Now', q)
      /\ \A t \in out : \E l \in 1 .. Len(r.ready) : t = Timestamp(r.ready[l])
  BY <1>1, LoopStays
<1>3. q \in 0 .. Len(Sent)
  BY <1>1, PlaceIsPosition DEF BurstFrom
<1> HIDE DEF d, out
<1>4. \A j \in packets : Timestamp(j) \in tracked
  BY DEF Safe, BufferAt
<1>5. out \subseteq tracked \cup {Timestamp(i)}
  <2> SUFFICES ASSUME NEW t \in out PROVE t \in tracked \cup {Timestamp(i)}
    OBVIOUS
  <2>1. PICK l \in 1 .. Len(r.ready) : t = Timestamp(r.ready[l])
    BY <1>2
  <2>2. r.ready[l] \in packets \/ r.ready[l] = i
    BY <1>1
  <2> QED
    BY <2>1, <2>2, <1>4
<1>6. /\ failed' = "no" /\ tracked' \subseteq Nat /\ IsFiniteSet(tracked')
      /\ Cardinality(tracked') <= MaxTracked
      /\ d.done = <<>> => tracked' = tracked \cup {Timestamp(i)}
  BY <1>5, TrackerStays DEF Room, d, out
<1>7. r.ready = <<>> => d.done = <<>>
  <2> SUFFICES ASSUME r.ready = <<>>, d.done # <<>> PROVE FALSE
    OBVIOUS
  <2>1. d.done \in Seq(AccessUnits)
    BY <1>2, Fields
  <2>2. 1 \in 1 .. Len(d.done)
    BY <2>1
  <2>3. out = {d.done[m].timestamp : m \in 1 .. Len(d.done)}
    BY <2>1, DoneTimes DEF out
  <2>4. d.done[1].timestamp \in out
    BY <2>2, <2>3
  <2>5. PICK l \in 1 .. Len(r.ready) : TRUE
    BY <1>2, <2>4
  <2>6. Len(r.ready) = 0
    OBVIOUS
  <2> QED
    BY <2>5, <2>6
<1>8. /\ packets' = r.packets /\ lastReleased' = r.lastReleased /\ continuation' = r.continuation
      /\ markerPending' = r.markerPending /\ Leaves(d) /\ resets' = resets
  BY DEF Pushes, d
<1>9. BufferAt(q)'
  <2>1. lastReleased' = IF q = 0 THEN None ELSE Sequence(q)
    BY <1>1, <1>8
  <2>2. ASSUME NEW j \in r.packets PROVE j > q /\ Timestamp(j) \in tracked'
    <3>1. tracked' = tracked \cup {Timestamp(i)}
      BY <1>1, <1>6, <1>7, <2>2
    <3>2. j \in packets \/ j = i
      BY <1>1
    <3> QED
      BY <1>1, <1>4, <3>1, <3>2
  <2> QED
    BY <1>8, <2>1, <2>2 DEF BufferAt
<1>10. Safe(q)'
  BY <1>2, <1>9 DEF Safe
<1>11. TypeOK'
  <2>1. packets' \subseteq Positions /\ Cardinality(packets') < MaxReorder
    BY <1>1, <1>8 DEF TypeOK
  <2>2. lastReleased' \in {None} \cup 0 .. SequenceModulus - 1
    <3>1. q = 0 \/ q \in 1 .. Len(Sent) + 1
      BY <1>3
    <3> QED
      BY <1>1, <1>8, <3>1, Numbers
  <2>3. /\ depacketizer'.fragment = d.fragment /\ depacketizer'.units = d.units
        /\ depacketizer'.frame = d.frame
    BY <1>2, <1>8, LoopLeaves
  <2>4. /\ nextSequence' = d.next /\ damaged' = d.damaged /\ losses' = d.losses
    BY <1>8 DEF Leaves
  <2>5. /\ d.fragment \in Seq(Positions) /\ d.units \in Seq(Seq(Positions))
        /\ d.frame \in Nat \cup {None} /\ d.next \in {None} \cup 0 .. SequenceModulus - 1
        /\ d.damaged \in Nat \cup {None} /\ d.losses \in Nat
    BY <1>2 DEF Depacketizers
  <2>6. resets' \in 0 .. MaxResets
    BY <1>8 DEF TypeOK
  <2> QED
    BY <1>1, <1>6, <1>8, <2>1, <2>2, <2>3, <2>4, <2>5, <2>6 DEF TypeOK
<1> QED
  BY <1>3, <1>6, <1>10, <1>11

(* A late packet changes nothing but the tracker.                          *)
LEMMA KeptIsResult ==
  ASSUME TypeOK, NEW p \in 0 .. Len(Sent), Safe(p), NEW i
  PROVE  /\ Result(i, Kept, p) /\ Place(Kept.ready, Len(Kept.ready), p) = p
         /\ Resumed(Kept) = Now
<1>1. Kept.ready = <<>> /\ Len(Kept.ready) = 0 /\ Kept.dropped = 0
  BY DEF Kept
<1>2. Place(Kept.ready, Len(Kept.ready), p) = p
  BY <1>1 DEF Place
<1>3. Resumed(Kept) = Now
  BY <1>1, ResumedIsNow DEF TypeOK
<1>4. Now.done = <<>>
  BY DEF Now
<1>5. BurstFrom(Kept, p)
  BY <1>1, <1>3, <1>4 DEF BurstFrom, Safe, Ascends
<1>6. /\ Kept.packets = packets /\ Kept.lastReleased = lastReleased /\ Kept.continuation = continuation
      /\ Kept.markerPending = markerPending
  BY DEF Kept
<1>7. /\ \A j \in packets : j > p
      /\ lastReleased = IF p = 0 THEN None ELSE Sequence(p)
  BY DEF Safe, BufferAt
<1>8. \A l \in 1 .. Len(Kept.ready) : Kept.ready[l] \in packets \cup {i}
  BY <1>1
<1>9. /\ Cardinality(packets) < MaxReorder /\ markerPending \in BOOLEAN
      /\ continuation \in ({None} \cup 0 .. SequenceModulus - 1) \X (Nat \cup {None})
  BY DEF TypeOK
<1>10. Result(i, Kept, p)
  BY <1>1, <1>2, <1>5, <1>6, <1>7, <1>8, <1>9 DEF Result
<1> QED
  BY <1>2, <1>3, <1>10

(* A packet behind which nothing was released and that waits.              *)
LEMMA WaitingIsResult ==
  ASSUME TypeOK, NEW p \in 0 .. Len(Sent), Safe(p), NEW i \in Positions, p < i, ~EndsAt(i)
  PROVE  LET r == Reordered(i)
         IN  /\ Result(i, r, Behind(i, p)) /\ Behind(i, p) \in 0 .. Len(Sent)
             /\ Place(r.ready, Len(r.ready), Behind(i, p)) = Behind(i, p)
<1> DEFINE r == Reordered(i)
           b == Behind(i, p)
<1>1. r = [ready |-> <<>>, dropped |-> DroppedAt(i), packets |-> QueueAt(i),
           lastReleased |-> IF StaleAt(i) = {} THEN lastReleased ELSE Sequence(Newest(StaleAt(i))),
           markerPending |-> PendingAt(i), continuation |-> ResumeAt(i)]
  BY ReorderedIs
<1>2. /\ QueueAt(i) \subseteq packets \cup {i} /\ QueueAt(i) \subseteq Positions
      /\ b \in p .. Len(Sent) /\ (StaleAt(i) # {} => b > 0)
      /\ \A j \in QueueAt(i) : b < j
  BY QueueIsAhead DEF TypeOK, Safe
<1>3. DroppedAt(i) \in Nat /\ (DroppedAt(i) = 0 <=> StaleAt(i) = {})
  BY DroppedCounts DEF TypeOK
<1>4. b = IF StaleAt(i) = {} THEN p ELSE Newest(StaleAt(i))
  BY DEF Behind
<1>5. Cardinality(QueueAt(i)) < MaxReorder
  <2>1. Cardinality(QueueAt(i)) \in Nat
    BY <1>2, PositionsAreFinite
  <2> QED
    BY <2>1, RtpAssumption DEF EndsAt, IsFull
<1> HIDE DEF r, b
<1>6. /\ r.ready = <<>> /\ Len(r.ready) = 0 /\ r.dropped = DroppedAt(i) /\ r.packets = QueueAt(i)
      /\ r.lastReleased = IF StaleAt(i) = {} THEN lastReleased ELSE Sequence(Newest(StaleAt(i)))
      /\ r.markerPending = PendingAt(i) /\ r.continuation = ResumeAt(i)
  BY <1>1
<1>7. b \in 0 .. Len(Sent) /\ Place(r.ready, Len(r.ready), b) = b
  BY <1>2, <1>6 DEF Place
<1>8. r.lastReleased = IF b = 0 THEN None ELSE Sequence(b)
  <2>1. lastReleased = IF p = 0 THEN None ELSE Sequence(p)
    BY DEF Safe, BufferAt
  <2>2. CASE StaleAt(i) = {}
    BY <1>4, <1>6, <2>1, <2>2
  <2>3. CASE StaleAt(i) # {}
    BY <1>2, <1>4, <1>6, <2>3
  <2> QED
    BY <2>2, <2>3
<1>9. /\ r.continuation \in ({None} \cup 0 .. SequenceModulus - 1) \X (Nat \cup {None})
      /\ r.markerPending \in BOOLEAN
  <2>1. ResumeAt(i) \in ({None} \cup 0 .. SequenceModulus - 1) \X (Nat \cup {None})
    BY DEF ResumeAt, NoContinuation, TypeOK
  <2>2. PendingAt(i) \in BOOLEAN
    BY Numbers DEF PendingAt, TypeOK
  <2> QED
    BY <1>6, <2>1, <2>2
<1>10. Inside(completed, Resumed(r), b) /\ NextAt(completed, Resumed(r), b) /\ Resumed(r).done = <<>>
  <2>1. CASE StaleAt(i) = {}
    <3>1. Resumed(r) = Now /\ b = p
      BY <1>3, <1>4, <1>6, <2>1, ResumedIsNow DEF TypeOK
    <3>2. Now.done = <<>>
      BY DEF Now
    <3> QED
      BY <3>1, <3>2 DEF Safe
  <2>2. CASE StaleAt(i) # {}
    <3>1. Now \in Depacketizers /\ HistoryAt(completed, Now, p) /\ Now.losses \in Nat
      BY Fields DEF Safe, Inside
    <3>2. r.dropped \in Nat \ {0} /\ None = IF r.ready = <<>> THEN None ELSE Sequence(Head(r.ready))
      BY <1>3, <1>6, <2>2
    <3> DEFINE e == Resumed(r)
    <3>3. /\ e \in Depacketizers /\ e.fragment = <<>> /\ e.frame = None /\ e.units = <<>>
          /\ e.damaged = None /\ e.losses > Now.losses /\ e.next = None /\ e.done = <<>>
      BY <3>1, <3>2, ResumedAnew
    <3> HIDE DEF e
    <3>4. Inside(completed, e, b) /\ NextAt(completed, e, b)
      BY <1>2, <3>1, <3>3, StartsAnew
    <3> QED
      BY <3>3, <3>4 DEF e
  <2> QED
    BY <2>1, <2>2
<1>11. BurstFrom(r, b)
  BY <1>6, <1>10 DEF BurstFrom, Ascends
<1>12. Result(i, r, b)
  BY <1>2, <1>5, <1>6, <1>7, <1>8, <1>9, <1>11 DEF Result
<1> QED
  BY <1>7, <1>12 DEF r, b

(* A packet that ends the wait: the burst starts behind its first packet.  *)
FirstAt(i) == Sorted(QueueAt(i))[1]
BaseAt(i, p) == IF StaleAt(i) = {} THEN p ELSE FirstAt(i) - 1

(* The burst, in sending order.                                            *)
LEMMA QueueIsSorted ==
  ASSUME packets \subseteq Positions, NEW i \in Positions, NEW p \in 0 .. Len(Sent), p < i, BufferAt(p)
  PROVE  LET queue == Sorted(QueueAt(i))
         IN  /\ Len(queue) = Cardinality(QueueAt(i)) /\ Len(queue) \in Nat \ {0}
             /\ queue \in Seq(Positions) /\ queue # <<>>
             /\ \A l \in 1 .. Len(queue) : queue[l] \in QueueAt(i)
             /\ \A k, l \in 1 .. Len(queue) : k < l => queue[k] < queue[l]
             /\ \A j \in QueueAt(i) : \E l \in 1 .. Len(queue) : queue[l] = j
             /\ Newest(QueueAt(i)) = queue[Len(queue)] /\ Newest(QueueAt(i)) \in QueueAt(i)
             /\ Head(queue) = FirstAt(i) /\ FirstAt(i) \in QueueAt(i)
             /\ \A j \in QueueAt(i) : FirstAt(i) <= j /\ j <= Newest(QueueAt(i))
<1> DEFINE set == QueueAt(i)
           queue == Sorted(set)
           n == Len(queue)
<1>1. set \in SUBSET Positions /\ i \in set /\ FirstAt(i) = queue[1]
  BY QueueIsAhead DEF FirstAt
<1> HIDE DEF set
<1>2. /\ n = Cardinality(set) /\ n \in Nat /\ queue \in Seq(Positions)
      /\ \A l \in 1 .. n : queue[l] \in set
      /\ \A k, l \in 1 .. n : k < l => queue[k] < queue[l]
      /\ \A j \in set : \E l \in 1 .. n : queue[l] = j
  BY <1>1, SortedIsInOrder
<1> HIDE DEF queue, n
<1>3. n # 0
  <2>1. PICK l \in 1 .. n : queue[l] = i
    BY <1>1, <1>2
  <2> QED
    BY <2>1, <1>2
<1>4. 1 \in 1 .. n /\ n \in 1 .. n
  BY <1>2, <1>3
<1>5. queue # <<>> /\ Head(queue) = queue[1]
  BY <1>2, <1>3 DEF n
<1>6. Newest(set) \in set /\ \A j \in set : j <= Newest(set)
  BY <1>1, NewestIsLast
<1>7. \A l \in 1 .. n : queue[l] \in Nat
  <2>1. \A j \in set : j \in Nat
    BY <1>1, Numbers
  <2> QED
    BY <1>2, <2>1
<1>8. \A l \in 1 .. n : queue[1] <= queue[l] /\ queue[l] <= queue[n]
  <2> TAKE l \in 1 .. n
  <2>1. (l = 1 \/ 1 < l) /\ (l = n \/ l < n)
    BY <1>2
  <2>2. 1 < l => queue[1] < queue[l]
    BY <1>2, <1>4
  <2>3. l < n => queue[l] < queue[n]
    BY <1>2, <1>4
  <2>4. queue[1] \in Nat /\ queue[l] \in Nat /\ queue[n] \in Nat
    BY <1>4, <1>7
  <2> QED
    BY <2>1, <2>2, <2>3, <2>4
<1>9. \A j \in set : queue[1] <= j /\ j <= queue[n]
  BY <1>2, <1>8
<1>10. Newest(set) = queue[n]
  <2>1. queue[n] \in set /\ queue[n] \in Nat /\ Newest(set) \in Nat
    <3>1. queue[n] \in set /\ queue[n] \in Nat
      BY <1>2, <1>4, <1>7
    <3>2. Newest(set) \in Positions
      BY <1>1, <1>6
    <3> QED
      BY <3>1, <3>2, Numbers
  <2>2. queue[n] <= Newest(set) /\ Newest(set) <= queue[n]
    BY <2>1, <1>6, <1>9
  <2> QED
    BY <2>1, <2>2
<1> QED
  BY <1>1, <1>2, <1>3, <1>4, <1>5, <1>6, <1>9, <1>10 DEF set, queue, n

(* It is a result, and ends at the newest packet.                          *)
LEMMA BurstIsResult ==
  ASSUME TypeOK, NEW p \in 0 .. Len(Sent), Safe(p), NEW i \in Positions, p < i, EndsAt(i)
  PROVE  LET r == Reordered(i)
             b == BaseAt(i, p)
         IN  /\ Result(i, r, b) /\ b \in 0 .. Len(Sent) /\ r.ready = Sorted(QueueAt(i))
             /\ Place(r.ready, Len(r.ready), b) = Newest(QueueAt(i))
             /\ StaleAt(i) = {} => Resumed(r) = Now
<1> DEFINE r == Reordered(i)
           b == BaseAt(i, p)
           first == FirstAt(i)
           last == Newest(QueueAt(i))
           queue == Sorted(QueueAt(i))
<1>1. r = [ready |-> queue, dropped |-> DroppedAt(i), packets |-> {},
           lastReleased |-> Sequence(last), markerPending |-> FALSE, continuation |-> StopAt(i)]
  BY ReorderedIs
<1>2. /\ Len(queue) \in Nat \ {0} /\ queue \in Seq(Positions) /\ queue # <<>>
      /\ \A l \in 1 .. Len(queue) : queue[l] \in QueueAt(i)
      /\ \A k, l \in 1 .. Len(queue) : k < l => queue[k] < queue[l]
      /\ last = queue[Len(queue)] /\ last \in QueueAt(i) /\ Head(queue) = first /\ first \in QueueAt(i)
      /\ \A j \in QueueAt(i) : first <= j
  BY QueueIsSorted DEF Safe, TypeOK
<1>3. /\ QueueAt(i) \subseteq packets \cup {i} /\ QueueAt(i) \subseteq Positions
      /\ Behind(i, p) \in p .. Len(Sent) /\ \A j \in QueueAt(i) : Behind(i, p) < j
  BY QueueIsAhead DEF Safe, TypeOK
<1>4. DroppedAt(i) \in Nat /\ (DroppedAt(i) = 0 <=> StaleAt(i) = {})
  BY DroppedCounts DEF TypeOK
<1>5. first \in Positions /\ last \in Positions /\ \A j \in QueueAt(i) : j \in Nat
  <2>1. \A j \in Positions : j \in Nat
    BY Numbers
  <2> QED
    BY <1>2, <1>3, <2>1
<1>6. b \in p .. Len(Sent) /\ \A j \in QueueAt(i) : b < j
  <2>1. CASE StaleAt(i) = {}
    <3>1. b = p /\ Behind(i, p) = p
      BY <2>1 DEF BaseAt, Behind
    <3> QED
      BY <1>3, <3>1
  <2>2. CASE StaleAt(i) # {}
    <3>1. b = first - 1
      BY <2>2 DEF BaseAt
    <3>2. p <= first - 1 /\ first - 1 \in 0 .. Len(Sent) /\ p \in Nat
      <4>1. Behind(i, p) < first
        BY <1>2, <1>3
      <4> HIDE DEF first
      <4> QED
        BY <4>1, <1>3, <1>5, Numbers
    <3> HIDE DEF b, first
    <3>3. b \in p .. Len(Sent)
      BY <3>1, <3>2
    <3>4. \A j \in QueueAt(i) : b < j
      BY <3>1, <1>2, <1>5, Numbers
    <3> QED
      BY <3>3, <3>4
  <2> QED
    BY <2>1, <2>2
<1>7. StopAt(i) \in ({None} \cup 0 .. SequenceModulus - 1) \X (Nat \cup {None})
  <2> HIDE DEF last
  <2>1. After(Sequence(last)) = Sequence(last + 1) /\ last + 1 \in 1 .. Len(Sent) + 1
    <3>1. last + 1 \in 1 .. Len(Sent) + 1
      BY <1>5, Numbers
    <3> QED
      BY <1>5, <3>1, NextSequence
  <2>2. Sequence(last + 1) \in 0 .. SequenceModulus - 1 /\ Timestamp(last) \in Nat
    BY <1>5, <2>1, Numbers
  <2> QED
    BY <2>1, <2>2 DEF StopAt, NoContinuation, last
<1>8. StaleAt(i) # {} => b + 1 = first
  BY <1>5, Numbers DEF BaseAt
<1>9. StaleAt(i) = {} => b = p
  BY DEF BaseAt
<1> HIDE DEF r, b, first, last, queue
<1>10. /\ r.ready = queue /\ r.dropped = DroppedAt(i) /\ r.packets = {}
       /\ r.lastReleased = Sequence(last) /\ r.markerPending = FALSE /\ r.continuation = StopAt(i)
  BY <1>1
<1>11. Place(queue, Len(queue), b) = last
  BY <1>2 DEF Place
<1>12. StaleAt(i) = {} => Resumed(r) = Now
  BY <1>4, <1>10, ResumedIsNow DEF TypeOK
<1>13. Inside(completed, Resumed(r), b) /\ NextAt(completed, Resumed(r), b) /\ Resumed(r).done = <<>>
  <2>1. CASE StaleAt(i) = {}
    <3>1. Now.done = <<>>
      BY DEF Now
    <3> QED
      BY <1>9, <1>12, <2>1, <3>1 DEF Safe
  <2>2. CASE StaleAt(i) # {}
    <3>1. Now \in Depacketizers /\ HistoryAt(completed, Now, p) /\ Now.losses \in Nat
      BY Fields DEF Safe, Inside
    <3> DEFINE next == Sequence(first)
    <3>2. next \in 0 .. SequenceModulus - 1 /\ next = Sequence(b + 1)
      BY <1>5, <1>8, <2>2, Numbers
    <3>3. r.dropped \in Nat \ {0} /\ next = IF r.ready = <<>> THEN None ELSE Sequence(Head(r.ready))
      BY <1>2, <1>4, <1>10, <2>2
    <3> DEFINE e == Resumed(r)
    <3> HIDE DEF next
    <3>4. /\ e \in Depacketizers /\ e.fragment = <<>> /\ e.frame = None /\ e.units = <<>>
          /\ e.damaged = None /\ e.losses > Now.losses /\ e.next = next /\ e.done = <<>>
      BY <3>1, <3>2, <3>3, ResumedAnew
    <3> HIDE DEF e
    <3>5. Inside(completed, e, b) /\ NextAt(completed, e, b)
      BY <1>6, <3>1, <3>2, <3>4, StartsAnew
    <3> QED
      BY <3>4, <3>5 DEF e
  <2> QED
    BY <2>1, <2>2
<1>14. Ascends(queue, Len(queue), b)
  BY <1>2, <1>6 DEF Ascends
<1>15. BurstFrom(r, b)
  BY <1>2, <1>10, <1>13, <1>14 DEF BurstFrom
<1>16. last # 0 /\ Cardinality({}) < MaxReorder
  BY <1>5, Numbers, FS_EmptySet, RtpAssumption
<1>17. \A l \in 1 .. Len(queue) : queue[l] \in packets \cup {i}
  BY <1>2, <1>3
<1>18. Result(i, r, b)
  BY <1>7, <1>10, <1>11, <1>15, <1>16, <1>17 DEF Result
<1>19. b \in 0 .. Len(Sent)
  BY <1>6
<1> QED
  BY <1>10, <1>11, <1>12, <1>18, <1>19 DEF r, b, last, queue

-----------------------------------------------------------------------------
(* The steps, but for what holds of orderly delivery.                      *)

PushResult(i) == IF Late(i) THEN Kept ELSE Reordered(i)

(* A push finds the tracker full, or goes on.                              *)
LEMMA PushSplits ==
  ASSUME TypeOK, IsFiniteSet(tracked), NEW i, Push(i)
  PROVE  /\ network' = network \ {i} /\ orderly' = (orderly /\ InOrder(i)) /\ failed = "no"
         /\ \/ /\ ~Room(i) /\ failed' = "tracker full"
               /\ UNCHANGED <<reorder, depacketizer, nextSequence, damaged, tracked, completed, losses, resets>>
            \/ Room(i) /\ Pushes(i, PushResult(i), Burst(PushResult(i)))
<1>1. Cardinality(tracked) \in Nat /\ MaxTracked \in Nat
  BY FS_CardinalityType, RtpAssumption
<1>2. Room(i) <=> ~(Timestamp(i) \notin tracked /\ Cardinality(tracked) >= MaxTracked)
  BY <1>1 DEF Room
<1>3. CASE Room(i)
  <2>1. PICK r \in {PushResult(i)} : \E d \in {Burst(r)} :
          /\ packets' = r.packets /\ lastReleased' = r.lastReleased
          /\ continuation' = r.continuation /\ markerPending' = r.markerPending
          /\ depacketizer' = [f \in DOMAIN Empty |-> d[f]]
          /\ nextSequence' = d.next /\ damaged' = d.damaged
          /\ losses' = d.losses
          /\ tracked' = (tracked \cup {Timestamp(i)}) \ {u.timestamp : u \in Range(d.done)}
          /\ completed' = completed \o d.done
          /\ failed' = IF {u.timestamp : u \in Range(d.done)} \subseteq tracked \cup {Timestamp(i)}
                        THEN "no" ELSE "untimed"
          /\ UNCHANGED resets
    BY <1>2, <1>3, Zenon DEF Push, PushResult
  <2>2. Pushes(i, r, Burst(r))
    BY <2>1, Zenon DEF Pushes, Leaves
  <2>3. Pushes(i, PushResult(i), Burst(PushResult(i)))
    BY <2>1, <2>2
  <2> QED
    BY <1>3, <2>3 DEF Push
<1>4. CASE ~Room(i)
  BY <1>2, <1>4 DEF Push
<1> QED
  BY <1>3, <1>4

(* When a packet is late: not beyond the last one released.                *)
LEMMA LateIsBehind ==
  ASSUME NEW p \in 0 .. Len(Sent), BufferAt(p), NEW i \in Positions
  PROVE  Late(i) <=> i <= p
<1>1. CASE p = 0
  BY <1>1, Numbers DEF Late, BufferAt
<1>2. CASE p # 0
  <2>1. p \in Positions /\ Sequence(p) # None /\ lastReleased = Sequence(p)
    BY <1>2, Numbers DEF BufferAt
  <2>2. IsNewer(Sequence(i), Sequence(p)) <=> p < i
    BY <2>1, NewerIsLater
  <2>3. p \in Nat /\ i \in Nat
    BY Numbers
  <2> QED
    BY <2>1, <2>2, <2>3 DEF Late
<1> QED
  BY <1>1, <1>2

(* Where the last packet released is after a push.                         *)
Ahead(i, p) ==
  IF ~Room(i) \/ i <= p THEN p
  ELSE IF EndsAt(i) THEN Newest(QueueAt(i)) ELSE Behind(i, p)

(* The state of the loop is that of four variables.                        *)
LEMMA NowStays ==
  ASSUME UNCHANGED <<depacketizer, nextSequence, damaged, losses>>
  PROVE  Now' = Now
BY DEF Now

(* A push keeps the invariant, but for orderly delivery.                   *)
LEMMA DeliverStays ==
  ASSUME TypeOK, IsFiniteSet(tracked), NEW p \in 0 .. Len(Sent), Safe(p), NEW i \in Positions, Push(i),
         NEW q, q = Ahead(i, p)
  PROVE  /\ TypeOK' /\ IsFiniteSet(tracked') /\ q \in 0 .. Len(Sent) /\ Safe(q)'
         /\ Room(i) => failed' = "no"
<1>1. /\ network' = network \ {i} /\ orderly' = (orderly /\ InOrder(i)) /\ failed = "no"
      /\ \/ /\ ~Room(i) /\ failed' = "tracker full"
            /\ UNCHANGED <<reorder, depacketizer, nextSequence, damaged, tracked, completed, losses, resets>>
         \/ Room(i) /\ Pushes(i, PushResult(i), Burst(PushResult(i)))
  BY PushSplits
<1>2. Late(i) <=> i <= p
  BY LateIsBehind DEF Safe
<1>3. network' \subseteq Positions /\ orderly' \in BOOLEAN
  BY <1>1 DEF TypeOK
<1>4. CASE ~Room(i)
  <2>1. UNCHANGED <<reorder, depacketizer, nextSequence, damaged, tracked, completed, losses, resets>>
        /\ failed' = "tracker full"
    BY <1>1, <1>4
  <2>2. q = p
    BY <1>4 DEF Ahead
  <2>3. Safe(p)'
    <3>1. Now' = Now
      BY <2>1, NowStays
    <3>2. UNCHANGED <<packets, lastReleased, tracked, completed>>
      BY <2>1 DEF reorder
    <3> QED
      BY <3>1, <3>2 DEF Safe, BufferAt
  <2>4. TypeOK'
    BY <1>3, <2>1 DEF TypeOK, reorder
  <2> QED
    BY <1>4, <2>1, <2>2, <2>3, <2>4
<1>5. CASE Room(i) /\ i <= p
  <2>1. Pushes(i, Kept, Burst(Kept))
    BY <1>1, <1>2, <1>5 DEF PushResult
  <2>2. Result(i, Kept, p) /\ Place(Kept.ready, Len(Kept.ready), p) = p
    BY KeptIsResult
  <2>3. q = p
    BY <1>5 DEF Ahead
  <2> QED
    BY <1>3, <1>5, <2>1, <2>2, <2>3, PushStays
<1>6. CASE Room(i) /\ ~(i <= p)
  <2>1. Pushes(i, Reordered(i), Burst(Reordered(i))) /\ p < i
    BY <1>1, <1>2, <1>6, Numbers DEF PushResult
  <2>2. CASE EndsAt(i)
    <3>1. /\ Result(i, Reordered(i), BaseAt(i, p)) /\ BaseAt(i, p) \in 0 .. Len(Sent)
          /\ Place(Reordered(i).ready, Len(Reordered(i).ready), BaseAt(i, p)) = Newest(QueueAt(i))
      BY <2>1, <2>2, BurstIsResult
    <3>2. q = Newest(QueueAt(i))
      BY <1>6, <2>2 DEF Ahead
    <3> QED
      BY <1>3, <1>6, <2>1, <3>1, <3>2, PushStays
  <2>3. CASE ~EndsAt(i)
    <3>1. /\ Result(i, Reordered(i), Behind(i, p)) /\ Behind(i, p) \in 0 .. Len(Sent)
          /\ Place(Reordered(i).ready, Len(Reordered(i).ready), Behind(i, p)) = Behind(i, p)
      BY <2>1, <2>3, WaitingIsResult
    <3>2. q = Behind(i, p)
      BY <1>6, <2>3 DEF Ahead
    <3> QED
      BY <1>3, <1>6, <2>1, <3>1, <3>2, PushStays
  <2> QED
    BY <2>2, <2>3
<1> QED
  BY <1>4, <1>5, <1>6

(* So does reset_pending.                                                  *)
LEMMA ResetStays ==
  ASSUME TypeOK, NEW p \in 0 .. Len(Sent), Safe(p), ResetPending
  PROVE  TypeOK' /\ IsFiniteSet(tracked') /\ Safe(p)'
<1> DEFINE e == Now'
<1>1. Now \in Depacketizers /\ HistoryAt(completed, Now, p) /\ Now.losses = losses /\ losses \in Nat
      /\ Now.next = nextSequence
  BY DEF Safe, Inside, Now, TypeOK
<1>2. /\ depacketizer' = Empty /\ damaged' = None /\ losses' = losses + 1 /\ nextSequence' = nextSequence
      /\ packets' = {} /\ lastReleased' = lastReleased /\ completed' = completed /\ tracked' = {}
      /\ resets' = (IF failed # "no" THEN resets ELSE resets + 1) /\ failed' = "no"
      /\ failed # "no" \/ resets < MaxResets
      /\ continuation' = NoContinuation /\ markerPending' = FALSE /\ orderly' = FALSE /\ network' = network
  BY DEF ResetPending
<1>3. e = [fragment |-> <<>>, open |-> None, expected |-> None, frame |-> None, units |-> <<>>,
           next |-> nextSequence, damaged |-> None, losses |-> losses + 1, done |-> <<>>]
  BY <1>2 DEF Now, Empty
<1>4. nextSequence \in {None} \cup 0 .. SequenceModulus - 1
  BY DEF TypeOK
<1> HIDE DEF e
<1>5. /\ e \in Depacketizers /\ e.fragment = <<>> /\ e.frame = None /\ e.units = <<>>
      /\ e.damaged = None /\ e.losses = losses + 1 /\ e.next = nextSequence
  BY <1>1, <1>3, <1>4 DEF Depacketizers
<1>6. nextSequence \in {None, Sequence(p + 1)}
  BY <1>1 DEF Safe, NextAt
<1>7. Inside(completed, e, p) /\ NextAt(completed, e, p)
  <2>1. e.losses > Now.losses /\ Now.losses \in Nat /\ p \in p .. Len(Sent)
    BY <1>1, <1>5
  <2> QED
    BY <1>1, <1>5, <1>6, <2>1, StartsAnew
<1>8. BufferAt(p)'
  BY <1>2 DEF BufferAt, Safe
<1>9. Safe(p)'
  BY <1>2, <1>7, <1>8 DEF Safe, e
<1>10. IsFiniteSet({}) /\ Cardinality({}) = 0 /\ MaxReorder > 0 /\ MaxTracked \in Nat
  BY FS_EmptySet, RtpAssumption
<1>11. TypeOK'
  <2>1. depacketizer'.fragment = <<>> /\ depacketizer'.units = <<>> /\ depacketizer'.frame = None
    BY <1>2 DEF Empty
  <2>2. <<>> \in Seq(Positions) /\ <<>> \in Seq(Seq(Positions))
    OBVIOUS
  <2>3. NoContinuation \in ({None} \cup 0 .. SequenceModulus - 1) \X (Nat \cup {None})
    BY DEF NoContinuation
  <2>4. resets' \in 0 .. MaxResets
    <3>1. MaxResets \in Nat /\ resets \in 0 .. MaxResets
      BY RtpAssumption DEF TypeOK
    <3> QED
      BY <1>2, <3>1
  <2>5. network' \subseteq Positions /\ lastReleased' \in {None} \cup 0 .. SequenceModulus - 1
    BY <1>2 DEF TypeOK
  <2>6. losses' \in Nat
    BY <1>1, <1>2
  <2>7. packets' \subseteq Positions /\ Cardinality(packets') < MaxReorder
    BY <1>2, <1>10, RtpAssumption
  <2>8. tracked' \subseteq Nat /\ Cardinality(tracked') <= MaxTracked
    BY <1>2, <1>10
  <2> QED
    BY <1>2, <1>4, <2>1, <2>2, <2>3, <2>4, <2>5, <2>6, <2>7, <2>8 DEF TypeOK
<1> QED
  BY <1>2, <1>9, <1>10, <1>11

-----------------------------------------------------------------------------
(* Orderly delivery.                                                       *)

(* Every frame begins with a packet that can start a unit, and ends with   *)
(* its marker.                                                             *)
LEMMA FrameEnds ==
  ASSUME NEW j \in Positions
  PROVE  /\ \E f \in Positions : f <= j /\ Timestamp(f) = Timestamp(j) /\ CanStartNal(f)
         /\ \E m \in Positions : j <= m /\ Timestamp(m) = Timestamp(j) /\ Sent[m].marker
<1> DEFINE frame == {k \in Positions : Timestamp(k) = Timestamp(j)}
<1>1. frame \in SUBSET Positions /\ j \in frame /\ frame # {}
  OBVIOUS
<1>2. PICK f \in frame : \A k \in frame : f <= k
  BY <1>1, StreamHasFirst
<1>3. PICK m \in frame : \A k \in frame : k <= m
  BY <1>1, StreamHasLast
<1>4. f \in Positions /\ f <= j /\ Timestamp(f) = Timestamp(j)
  BY <1>1, <1>2
<1>5. m \in Positions /\ j <= m /\ Timestamp(m) = Timestamp(j)
  BY <1>1, <1>3
<1>6. CanStartNal(f)
  <2>1. CASE f - 1 \notin Positions
    BY <1>4, <2>1, FrameShape
  <2>2. CASE f - 1 \in Positions
    <3>1. f - 1 \notin frame /\ (f - 1) + 1 = f
      BY <1>2, <1>4, Numbers
    <3>2. Timestamp((f - 1) + 1) # Timestamp(f - 1)
      BY <1>4, <2>2, <3>1
    <3>3. Sent[f - 1].marker
      BY <1>4, <2>2, <3>1, <3>2, FrameShape
    <3>4. Sent[f - 1].piece \in {"whole", "end"}
      BY <2>2, <3>3, FrameShape
    <3> QED
      BY <1>4, <2>2, <3>1, <3>4, FrameShape
  <2> QED
    BY <2>1, <2>2
<1>7. Sent[m].marker
  <2>1. CASE m + 1 \notin Positions
    BY <1>5, <2>1, FrameShape
  <2>2. CASE m + 1 \in Positions
    <3>1. m + 1 \notin frame
      BY <1>3, <1>5, Numbers
    <3>2. Timestamp(m + 1) # Timestamp(m)
      BY <1>5, <2>2, <3>1
    <3> QED
      BY <1>5, <2>2, <3>2, FrameShape
  <2> QED
    BY <2>1, <2>2
<1> QED
  BY <1>4, <1>5, <1>6, <1>7

(* In order, a packet meets only its own frame in the buffer, everything   *)
(* before that frame having been released.                                 *)
OneFrame(i, p) ==
  /\ p < i /\ i \notin packets
  /\ \A j \in packets : Timestamp(j) = Timestamp(i)
  /\ \A j \in Positions : Timestamp(j) < Timestamp(i) => j <= p
  /\ \A j \in Positions : j \in network \/ j <= p \/ j \in packets
  /\ p + 1 \in Positions /\ Timestamp(p + 1) = Timestamp(i)

(* This is so because of what OrderAt says of the packets before it.       *)
LEMMA OneFrameWaits ==
  ASSUME packets \subseteq Positions, network \subseteq Positions, NEW p \in 0 .. Len(Sent), BufferAt(p),
         OrderAt(p), NEW i \in network, InOrder(i)
  PROVE  OneFrame(i, p)
<1>1. /\ \A j \in Positions \ network : InOrder(j)
      /\ Positions \ network = (1 .. p) \cup packets
      /\ \A m \in packets : Sent[m].marker => \E hole \in network : p < hole /\ hole < m
  BY DEF OrderAt
<1>2. i \in Positions /\ i \in Nat /\ p \in Nat
  BY Numbers
<1>3. i \notin packets /\ p < i
  <2>1. i \notin (1 .. p) \cup packets
    BY <1>1
  <2> QED
    BY <2>1, <1>2, Numbers
<1>4. \A j \in Positions : j \in network \/ j <= p \/ j \in packets
  BY <1>1
<1>5. \A j \in packets : j \in Positions \ network /\ j > p
  BY <1>1 DEF BufferAt
<1>6. ASSUME NEW j \in Positions, Timestamp(j) < Timestamp(i) PROVE j \notin network
  <2>1. j < i
    <3>1. i <= j => Timestamp(i) <= Timestamp(j)
      BY <1>2, FrameShape
    <3> QED
      BY <3>1, <1>2, <1>6, Numbers
  <2>2. Timestamp(j) # Timestamp(i)
    BY <1>2, <1>6, Numbers
  <2> QED
    BY <2>1, <2>2 DEF InOrder
<1>7. ASSUME NEW j \in Positions, Timestamp(j) < Timestamp(i) PROVE j <= p
  <2> SUFFICES ASSUME j \in packets PROVE FALSE
    BY <1>4, <1>6, <1>7
  <2>1. PICK m \in Positions : j <= m /\ Timestamp(m) = Timestamp(j) /\ Sent[m].marker
    BY FrameEnds
  <2>2. m \notin network
    BY <1>6, <1>7, <2>1
  <2>3. m > p
    BY <1>2, <1>5, <2>1, Numbers
  <2>4. m \in packets
    BY <1>2, <1>4, <2>2, <2>3, Numbers
  <2>5. PICK hole \in network : hole < m
    BY <1>1, <2>1, <2>4
  <2>6. hole \in Positions /\ Timestamp(hole) <= Timestamp(m)
    BY <2>1, <2>5, FrameShape, Numbers
  <2>7. Timestamp(hole) < Timestamp(i)
    BY <1>2, <1>7, <2>1, <2>6, Numbers
  <2> QED
    BY <1>6, <2>5, <2>6, <2>7
<1>8. ASSUME NEW j \in packets PROVE Timestamp(j) = Timestamp(i)
  <2>1. j \in Positions /\ j \notin network /\ InOrder(j) /\ ~(j <= p)
    BY <1>1, <1>2, <1>5, Numbers
  <2>2. ~(Timestamp(j) < Timestamp(i))
    BY <1>7, <2>1
  <2>3. i < j => Timestamp(i) = Timestamp(j)
    BY <2>1 DEF InOrder
  <2>4. j <= i => Timestamp(j) <= Timestamp(i)
    BY <1>2, <2>1, FrameShape
  <2> QED
    BY <1>2, <2>1, <2>2, <2>3, <2>4, Numbers
<1>9. p + 1 \in Positions /\ Timestamp(p + 1) = Timestamp(i)
  <2>1. p + 1 \in Positions /\ p + 1 <= i /\ ~(p + 1 <= p)
    BY <1>2, <1>3, Numbers
  <2>2. Timestamp(p + 1) <= Timestamp(i) /\ ~(Timestamp(p + 1) < Timestamp(i))
    BY <1>2, <1>7, <2>1, FrameShape
  <2> QED
    BY <1>2, <2>1, <2>2, Numbers
<1> QED
  BY <1>3, <1>4, <1>7, <1>8, <1>9 DEF OneFrame

(* So none of them is stale.                                               *)
LEMMA NothingIsStale ==
  ASSUME NEW i, NEW p, OneFrame(i, p)
  PROVE  /\ StaleAt(i) = {} /\ QueueAt(i) = packets \cup {i} /\ ResumeAt(i) = continuation
         /\ PendingAt(i) = (Sent[i].marker \/ markerPending) /\ Behind(i, p) = p /\ BaseAt(i, p) = p
<1>1. StaleAt(i) = {}
  BY DEF StaleAt, Stale, OneFrame
<1> QED
  BY <1>1 DEF QueueAt, ResumeAt, PendingAt, Behind, BaseAt

(* The tracker has room: it holds nothing but the frame that is arriving.  *)
LEMMA RoomForFrame ==
  ASSUME NEW p \in 0 .. Len(Sent), OrderAt(p), Lossless(completed, Now, p), NEW i \in network,
         network \subseteq Positions, tracked \subseteq Nat, OneFrame(i, p)
  PROVE  Room(i)
<1>0. Cardinality({}) = 0 /\ 0 < MaxTracked
  BY FS_EmptySet, RtpAssumption
<1> SUFFICES ASSUME Timestamp(i) \notin tracked PROVE tracked = {}
  BY <1>0 DEF Room
<1> SUFFICES ASSUME NEW t \in tracked PROVE FALSE
  OBVIOUS
<1>1. PICK j \in Positions \ network : Timestamp(j) = t
  BY DEF OrderAt
<1>2. \A k \in 1 .. Len(completed) : completed[k].timestamp # t
  BY DEF OrderAt
<1>3. i \in Positions /\ t # Timestamp(i) /\ InOrder(j)
  BY <1>1 DEF OrderAt
<1>4. CASE Timestamp(i) < t
  <2>1. i < j
    <3>1. j <= i => Timestamp(j) <= Timestamp(i)
      BY <1>1, <1>3, FrameShape
    <3> QED
      BY <3>1, <1>1, <1>3, <1>4, Numbers
  <2> QED
    BY <2>1, <1>1, <1>3 DEF InOrder
<1>5. CASE t < Timestamp(i)
  <2>1. PICK m \in Positions : Timestamp(m) = t /\ Sent[m].marker
    BY <1>1, FrameEnds
  <2>2. m <= p
    BY <1>5, <2>1 DEF OneFrame
  <2>3. m \in 1 .. p
    BY <2>1, <2>2, Numbers
  <2>4. HandedOn(completed, t)
    BY <2>1, <2>3 DEF Lossless
  <2> QED
    BY <1>2, <2>4 DEF HandedOn
<1> QED
  BY <1>1, <1>3, <1>4, <1>5, Numbers

(* Nothing but i itself is missing between p and the last one queued.      *)
NoHole(i, p) == \A x \in Positions : p < x /\ x < Newest(QueueAt(i)) => x \in QueueAt(i)

(* The burst is then the packets from p on, one after the other.           *)
LEMMA QueueIsRun ==
  ASSUME packets \subseteq Positions, NEW i \in Positions, NEW p \in 0 .. Len(Sent), BufferAt(p),
         OneFrame(i, p), NoHole(i, p)
  PROVE  \A l \in 1 .. Len(Sorted(QueueAt(i))) : Sorted(QueueAt(i))[l] = p + l
<1> DEFINE queue == Sorted(QueueAt(i))
           n == Len(queue)
           last == Newest(QueueAt(i))
           Bad == {l \in 1 .. n : queue[l] # p + l}
<1>1. /\ n \in Nat \ {0} /\ \A l \in 1 .. n : queue[l] \in QueueAt(i)
      /\ \A k, l \in 1 .. n : k < l => queue[k] < queue[l]
      /\ \A j \in QueueAt(i) : \E l \in 1 .. n : queue[l] = j
      /\ \A j \in QueueAt(i) : j <= last
      /\ last \in QueueAt(i)
  BY QueueIsSorted DEF OneFrame
<1>2. \A j \in QueueAt(i) : j \in Positions /\ p < j
  <2>1. QueueAt(i) = packets \cup {i} /\ p < i /\ i \in Positions
    BY NothingIsStale DEF OneFrame
  <2>2. \A j \in packets : j \in Positions /\ p < j
    BY Numbers DEF BufferAt
  <2> QED
    BY <2>1, <2>2
<1>3. \A x \in Positions : p < x /\ x < last => x \in QueueAt(i)
  BY DEF NoHole
<1> HIDE DEF queue, n, last
<1> SUFFICES ASSUME Bad # {} PROVE FALSE
  BY DEF queue, n
<1>4. PICK l \in Bad : \A k \in Bad : l <= k
  <2>1. Bad \subseteq Nat
    BY <1>1
  <2> QED
    BY <2>1, NatHasFirst
<1>5. l \in 1 .. n /\ queue[l] # p + l /\ \A k \in 1 .. n : k < l => queue[k] = p + k
  BY <1>1, <1>4
<1>6. queue[l] \in Positions /\ queue[l] \in Nat /\ p < queue[l] /\ queue[l] <= last /\ p \in Nat /\ last \in Positions
  <2>1. queue[l] \in QueueAt(i) /\ last \in QueueAt(i)
    BY <1>1, <1>5
  <2>2. queue[l] \in Positions /\ p < queue[l] /\ queue[l] <= last /\ last \in Positions
    BY <1>1, <1>2, <2>1
  <2> QED
    BY <2>2, Numbers
<1>7. p + l < queue[l]
  <2>1. CASE l = 1
    BY <1>5, <1>6, <2>1
  <2>2. CASE l # 1
    <3>1. l - 1 \in 1 .. n /\ l - 1 < l
      BY <1>1, <1>5, <2>2
    <3>2. queue[l - 1] = p + (l - 1) /\ queue[l - 1] < queue[l]
      BY <1>1, <1>5, <3>1
    <3> DEFINE x == queue[l]
    <3>3. p + (l - 1) < x /\ x # p + l /\ x \in Nat /\ l \in Nat /\ p \in Nat
      BY <1>1, <1>5, <1>6, <3>2
    <3> HIDE DEF x
    <3>4. p + l < x
      BY <3>3
    <3> QED
      BY <3>4 DEF x
  <2> QED
    BY <2>1, <2>2
<1>8. p + l \in Positions /\ p < p + l /\ p + l < last
  <2> DEFINE x == queue[l]
  <2>1. /\ p + l < x /\ x <= last /\ x \in Nat /\ l \in Nat \ {0} /\ p \in Nat
        /\ last \in 1 .. Len(Sent) /\ Len(Sent) \in Nat
    BY <1>1, <1>5, <1>6, <1>7, Numbers
  <2> HIDE DEF x
  <2>2. p + l \in 1 .. Len(Sent) /\ p < p + l /\ p + l < last
    BY <2>1
  <2> QED
    BY <2>2 DEF Positions
<1>9. PICK k \in 1 .. n : queue[k] = p + l
  BY <1>1, <1>3, <1>8
<1>10. k < l \/ k = l \/ l < k
  BY <1>1, <1>5
<1>11. l < k => queue[l] < queue[k]
  BY <1>1, <1>5
<1> QED
  BY <1>1, <1>5, <1>6, <1>7, <1>9, <1>10, <1>11

(* marker_ready, on a sorted queue.                                        *)
LEMMA ReadyQueue ==
  ASSUME NEW buffer, NEW resume, MarkerReady(buffer, resume)
  PROVE  LET queue == Sorted(buffer)
         IN  /\ \E k \in 1 .. Len(queue) : Sent[queue[k]].marker
             /\ \/ resume = <<Sequence(queue[1]), Timestamp(queue[1])>>
                \/ CanStartNal(queue[1])
             /\ \A k \in 1 .. Len(queue) - 1 : Sequence(queue[k + 1]) = After(Sequence(queue[k]))
<1> DEFINE queue == Sorted(buffer)
           marker == {k \in 1 .. Len(queue) : Sent[queue[k]].marker}
<1>1. /\ marker # {}
      /\ \/ resume = <<Sequence(queue[1]), Timestamp(queue[1])>>
         \/ CanStartNal(queue[1])
      /\ \A k \in 1 .. Len(queue) - 1 : Sequence(queue[k + 1]) = After(Sequence(queue[k]))
  BY DEF MarkerReady
<1>2. \E k \in 1 .. Len(queue) : Sent[queue[k]].marker
  BY <1>1
<1> QED
  BY <1>1, <1>2

(* And back: a queue without gaps, from its start to a marker, is ready.   *)
LEMMA QueueReady ==
  ASSUME NEW buffer, NEW resume, NEW queue, queue = Sorted(buffer), NEW n \in Nat, n = Len(queue),
         \E k \in 1 .. n : Sent[queue[k]].marker,
         \A k \in 1 .. n : Timestamp(queue[k]) = Timestamp(queue[1]),
         \/ resume = <<Sequence(queue[1]), Timestamp(queue[1])>>
         \/ CanStartNal(queue[1]),
         \A k \in 1 .. n - 1 : Sequence(queue[k + 1]) = After(Sequence(queue[k]))
  PROVE  MarkerReady(buffer, resume)
<1> DEFINE marker == {k \in 1 .. n : Sent[queue[k]].marker}
           least == CHOOSE k \in marker : \A l \in marker : k <= l
<1>1. marker # {} /\ marker \subseteq Nat /\ 1 \in 1 .. n
  OBVIOUS
<1>2. \E k \in marker : \A l \in marker : k <= l
  BY <1>1, NatHasFirst
<1>3. least \in marker
  BY <1>2
<1>4. least \in 1 .. n
  BY <1>3
<1>5. Timestamp(queue[1]) = Timestamp(queue[least])
  BY <1>1, <1>4
<1> HIDE DEF least
<1>6. /\ marker # {}
      /\ Timestamp(queue[1]) = Timestamp(queue[least])
      /\ \/ resume = <<Sequence(queue[1]), Timestamp(queue[1])>>
         \/ CanStartNal(queue[1])
      /\ \A k \in 1 .. n - 1 : Sequence(queue[k + 1]) = After(Sequence(queue[k]))
  BY <1>1, <1>5
<1> QED
  BY <1>6 DEF MarkerReady, least

(* A burst in order leaves nothing out.  Of a full buffer: the frame fits. *)
LEMMA FullHasNoHole ==
  ASSUME packets \subseteq Positions, network \subseteq Positions, NEW p \in 0 .. Len(Sent), BufferAt(p),
         OrderAt(p), NEW i \in network, InOrder(i), OneFrame(i, p), IsFull(QueueAt(i))
  PROVE  NoHole(i, p)
<1> DEFINE last == Newest(QueueAt(i))
<1>1. QueueAt(i) = packets \cup {i} /\ QueueAt(i) \in SUBSET Positions
  BY NothingIsStale
<1>2. last \in QueueAt(i) /\ InOrder(last)
  <2>1. last \in QueueAt(i)
    BY <1>1, NewestIsLast
  <2>2. \A j \in packets : InOrder(j)
    BY DEF OrderAt
  <2> QED
    BY <1>1, <2>1, <2>2
<1>3. Timestamp(last) = Timestamp(i)
  BY <1>1, <1>2 DEF OneFrame
<1> HIDE DEF last
<1> SUFFICES ASSUME NEW x \in Positions, p < x, x < last, x \notin QueueAt(i) PROVE FALSE
  BY DEF NoHole, last
<1>4. x \in network
  <2>1. ~(x <= p)
    BY Numbers
  <2> QED
    BY <1>1, <2>1 DEF OneFrame
<1> DEFINE frame == Frame(Timestamp(i))
<1>5. Timestamp(x) = Timestamp(i) /\ Cardinality(frame) <= MaxReorder
  BY <1>2, <1>3, <1>4 DEF InOrder
<1>6. frame \in SUBSET Positions /\ x \in frame /\ QueueAt(i) \subseteq frame
  <2>1. \A j \in QueueAt(i) : j \in Positions /\ Timestamp(j) = Timestamp(i)
    BY <1>1 DEF OneFrame
  <2> QED
    BY <1>5, <2>1 DEF Frame
<1> HIDE DEF frame
<1>7. IsFiniteSet(frame) /\ QueueAt(i) # frame
  BY <1>6, PositionsAreFinite
<1>8. Cardinality(QueueAt(i)) <= Cardinality(frame) /\ Cardinality(QueueAt(i)) # Cardinality(frame)
  BY <1>6, <1>7, FS_Subset
<1>9. Cardinality(QueueAt(i)) \in Nat /\ Cardinality(frame) \in Nat
  BY <1>1, <1>6, PositionsAreFinite
<1> QED
  BY <1>5, <1>8, <1>9, RtpAssumption DEF IsFull

(* A set of one element.                                                   *)
LEMMA OneIsAll ==
  ASSUME NEW S, IsFiniteSet(S), Cardinality(S) = 1, NEW x \in S, NEW y \in S
  PROVE  x = y
<1>1. IsFiniteSet({x}) /\ Cardinality({x}) = 1 /\ {x} \subseteq S
  BY FS_Singleton
<1>2. {x} = S
  BY <1>1, FS_Subset
<1> QED
  BY <1>2

(* Of a marker: the sequence numbers follow each other, from p on or from  *)
(* the start of the only unit.                                             *)
LEMMA MarkerHasNoHole ==
  ASSUME packets \subseteq Positions, network \subseteq Positions, NEW p \in 0 .. Len(Sent), BufferAt(p),
         OrderAt(p), NEW i \in network, InOrder(i), OneFrame(i, p), MarkerReady(QueueAt(i), continuation)
  PROVE  NoHole(i, p)
<1> DEFINE queue == Sorted(QueueAt(i))
           n == Len(queue)
           last == Newest(QueueAt(i))
           first == FirstAt(i)
<1>1. /\ n \in Nat \ {0} /\ queue \in Seq(Positions) /\ \A l \in 1 .. n : queue[l] \in QueueAt(i)
      /\ \A k, l \in 1 .. n : k < l => queue[k] < queue[l]
      /\ last = queue[n] /\ first \in QueueAt(i)
      /\ \A j \in QueueAt(i) : first <= j /\ j <= last
  BY QueueIsSorted DEF OneFrame
<1>2. /\ \E k \in 1 .. n : Sent[queue[k]].marker
      /\ continuation = <<Sequence(first), Timestamp(first)>> \/ CanStartNal(first)
      /\ \A k \in 1 .. n - 1 : Sequence(queue[k + 1]) = After(Sequence(queue[k]))
  BY ReadyQueue DEF FirstAt
<1>3. QueueAt(i) = packets \cup {i} /\ QueueAt(i) \subseteq Positions
  BY NothingIsStale
<1>4. first = queue[1]
  BY DEF FirstAt
<1> HIDE DEF queue, n, last, first
<1>5. first \in Positions /\ p < first /\ Timestamp(first) = Timestamp(i)
  <2>1. first \in packets \/ first = i
    BY <1>1, <1>3
  <2> QED
    BY <2>1, Numbers DEF OneFrame, BufferAt
<1>6. first = p + 1
  <2>1. CASE continuation = <<Sequence(first), Timestamp(first)>>
    <3>1. first \in 1 .. Len(Sent) + 1 /\ p + 1 \in 1 .. Len(Sent) + 1
      BY <1>5, Numbers
    <3>2. continuation[1] = Sequence(first) /\ Sequence(first) # None
      BY <2>1, <3>1, Numbers
    <3>3. continuation = NoContinuation \/ continuation = <<Sequence(p + 1), Timestamp(p)>>
      BY DEF OrderAt
    <3>4. Sequence(first) = Sequence(p + 1)
      BY <3>2, <3>3 DEF NoContinuation
    <3> QED
      BY <3>1, <3>4, SequenceApart
  <2>2. CASE CanStartNal(first)
    <3> SUFFICES ASSUME first # p + 1 PROVE FALSE
      OBVIOUS
    <3>1. p + 1 < first
      BY <1>5, Numbers
    <3>2. PICK k \in 1 .. n : Sent[queue[k]].marker
      BY <1>2
    <3> DEFINE m == queue[k]
    <3>3. m \in QueueAt(i) /\ Sent[m].marker /\ first <= m /\ m \in Positions
      BY <1>1, <1>3, <3>2
    <3> HIDE DEF m
    <3>4. InOrder(m) /\ Timestamp(m) = Timestamp(i)
      <4>1. m \in packets \/ m = i
        BY <1>3, <3>3
      <4>2. \A j \in packets : InOrder(j) /\ Timestamp(j) = Timestamp(i)
        BY DEF OrderAt, OneFrame
      <4> QED
        BY <4>1, <4>2
    <3>5. p + 1 \in network
      <4>1. p + 1 \notin QueueAt(i) /\ p + 1 \in Positions /\ ~(p + 1 <= p)
        <5>1. ~(first <= p + 1)
          BY <1>5, <3>1, Numbers
        <5> QED
          BY <1>1, <5>1, Numbers DEF OneFrame
      <4> QED
        BY <1>3, <4>1 DEF OneFrame
    <3>6. p + 1 < m
      BY <1>5, <3>1, <3>3, Numbers
    <3> DEFINE starts == Starts(Timestamp(i))
    <3>7. Cardinality(starts) = 1
      BY <3>3, <3>4, <3>5, <3>6 DEF InOrder
    <3>8. PICK f \in Positions : f <= p + 1 /\ Timestamp(f) = Timestamp(p + 1) /\ CanStartNal(f)
      BY FrameEnds DEF OneFrame
    <3>9. f \in starts /\ first \in starts /\ f # first
      <4>1. f # first
        BY <1>5, <3>1, <3>8, Numbers
      <4> QED
        BY <1>5, <2>2, <3>8, <4>1 DEF Starts, Frame, OneFrame
    <3>10. IsFiniteSet(starts)
      BY PositionsAreFinite DEF Starts, Frame
    <3> HIDE DEF starts
    <3> QED
      BY <3>7, <3>9, <3>10, OneIsAll
  <2> QED
    BY <1>2, <2>1, <2>2
<1>7. \A k \in 1 .. n - 1 : queue[k + 1] = queue[k] + 1
  <2> TAKE k \in 1 .. n - 1
  <2> DEFINE x == queue[k]
             y == queue[k + 1]
  <2>1. k \in 1 .. n /\ k + 1 \in 1 .. n
    BY <1>1
  <2>2. x \in Positions /\ y \in Positions /\ Sequence(y) = After(Sequence(x))
    BY <1>1, <1>2, <1>3, <2>1
  <2> HIDE DEF x, y
  <2>3. Sequence(y) = Sequence(x + 1) /\ y \in 1 .. Len(Sent) + 1 /\ x + 1 \in 1 .. Len(Sent) + 1
    BY <2>2, NextSequence, Numbers
  <2>4. y = x + 1
    BY <2>3, SequenceApart
  <2> QED
    BY <2>4 DEF x, y
(* So the packet after one that is queued is queued, up to the last.       *)
<1> DEFINE Bad == {x \in Positions : p < x /\ x < last /\ x \notin QueueAt(i)}
<1> SUFFICES ASSUME Bad # {} PROVE FALSE
  BY DEF NoHole, last
<1>8. PICK x \in Bad : \A y \in Bad : x <= y
  <2>1. Bad \in SUBSET Positions
    OBVIOUS
  <2> QED
    BY <2>1, StreamHasFirst
<1>9. x \in Positions /\ p < x /\ x < last /\ x \notin QueueAt(i) /\ last \in Positions
  BY <1>1, <1>3, <1>8
<1>10. x - 1 \in QueueAt(i) /\ x - 1 < last
  <2>1. x # p + 1 /\ x \in Nat /\ p \in Nat
    <3>1. p + 1 \in QueueAt(i)
      BY <1>1, <1>6
    <3>2. x # p + 1
      BY <1>9, <3>1
    <3> QED
      BY <1>9, <3>2, Numbers
  <2>2. x - 1 \in Positions /\ p < x - 1 /\ x - 1 < last /\ ~(x <= x - 1)
    BY <1>9, <2>1, Numbers
  <2>3. x - 1 \notin Bad
    BY <1>8, <2>2
  <2> QED
    BY <2>2, <2>3
<1>11. PICK k \in 1 .. n : queue[k] = x - 1
  <2>1. \A j \in QueueAt(i) : \E l \in 1 .. n : queue[l] = j
    BY QueueIsSorted DEF OneFrame, n, queue
  <2> QED
    BY <1>10, <2>1
<1>12. k \in 1 .. n - 1
  <2>1. k # n
    BY <1>1, <1>9, <1>10, <1>11, Numbers
  <2> QED
    BY <1>1, <2>1
<1>13. queue[k + 1] = x /\ k + 1 \in 1 .. n
  <2>1. queue[k + 1] = (x - 1) + 1
    BY <1>7, <1>11, <1>12
  <2>2. (x - 1) + 1 = x
    BY <1>9, Numbers
  <2>3. k + 1 \in 1 .. n
    BY <1>1, <1>12
  <2> QED
    BY <2>1, <2>2, <2>3
<1> QED
  BY <1>1, <1>9, <1>13

(* A marker that is left waiting waits for a packet in front of it.        *)
LEMMA WaitingForHole ==
  ASSUME packets \subseteq Positions, network \subseteq Positions, NEW p \in 0 .. Len(Sent), BufferAt(p),
         OrderAt(p), NEW i \in network, InOrder(i), OneFrame(i, p), ~EndsAt(i),
         NEW m \in QueueAt(i), Sent[m].marker
  PROVE  PendingAt(i) /\ \E hole \in network \ {i} : p < hole /\ hole < m
<1> DEFINE queue == Sorted(QueueAt(i))
           n == Len(queue)
           last == Newest(QueueAt(i))
<1>1. /\ n \in Nat \ {0} /\ \A l \in 1 .. n : queue[l] \in QueueAt(i)
      /\ last = queue[n] /\ last \in QueueAt(i)
      /\ \A j \in QueueAt(i) : j <= last
      /\ \A j \in QueueAt(i) : \E l \in 1 .. n : queue[l] = j
  BY QueueIsSorted DEF OneFrame
<1>2. QueueAt(i) = packets \cup {i} /\ PendingAt(i) = (Sent[i].marker \/ markerPending)
      /\ ResumeAt(i) = continuation
  BY NothingIsStale
<1>3. PendingAt(i)
  <2>1. m \in packets => markerPending
    BY DEF OrderAt
  <2> QED
    BY <1>2, <2>1
<1>4. \A j \in QueueAt(i) : j \in Positions /\ p < j /\ Timestamp(j) = Timestamp(i)
  <2>1. \A j \in packets : j \in Positions /\ p < j /\ Timestamp(j) = Timestamp(i)
    BY Numbers DEF BufferAt, OneFrame
  <2> QED
    BY <1>2, <2>1 DEF OneFrame
<1>5. last = m
  <2>1. last \in Positions /\ m \in Positions /\ m <= last /\ Timestamp(last) = Timestamp(m)
    BY <1>1, <1>4
  <2> HIDE DEF last
  <2>2. m < last => m + 1 \in Positions
    BY <2>1, Numbers
  <2>3. ~(m < last)
    <3> SUFFICES ASSUME m < last PROVE FALSE
      OBVIOUS
    <3>1. Timestamp(last) > Timestamp(m)
      BY <2>1, <2>2, FrameShape
    <3> QED
      BY <2>1, <3>1, Numbers
  <2> QED
    BY <2>1, <2>3, Numbers
<1> SUFFICES ASSUME \A hole \in network \ {i} : ~(p < hole /\ hole < m) PROVE FALSE
  BY <1>3
<1>6. NoHole(i, p)
  <2> SUFFICES ASSUME NEW x \in Positions, p < x, x < last PROVE x \in QueueAt(i)
    BY DEF NoHole
  <2>1. x \in network \/ x <= p \/ x \in packets
    BY DEF OneFrame
  <2>2. ~(x <= p)
    BY Numbers
  <2> QED
    BY <1>2, <1>5, <2>1, <2>2
<1>7. \A l \in 1 .. n : queue[l] = p + l
  BY <1>6, QueueIsRun
<1> HIDE DEF queue, n, last
<1>8. \E k \in 1 .. n : Sent[queue[k]].marker
  BY <1>1
<1>9. \A k \in 1 .. n : Timestamp(queue[k]) = Timestamp(i)
  BY <1>1, <1>4
<1>10. queue[1] = p + 1 /\ p + 1 \in Positions /\ Timestamp(p + 1) = Timestamp(i)
  BY <1>1, <1>7 DEF OneFrame
<1>11. continuation = <<Sequence(p + 1), Timestamp(p + 1)>> \/ CanStartNal(p + 1)
  <2>1. CASE p = 0
    <3>1. (p + 1) - 1 \notin Positions
      BY <2>1, Numbers
    <3> QED
      BY <1>10, <3>1, FrameShape
  <2>2. CASE p # 0
    <3>1. p \in Positions /\ p < p + 1
      BY <2>2, Numbers
    <3>2. CASE Sent[p].marker
      <4>1. Sent[p].piece \in {"whole", "end"}
        BY <3>1, <3>2, FrameShape
      <4> QED
        BY <1>10, <3>1, <4>1, FrameShape
    <3>3. CASE ~Sent[p].marker
      <4>1. Timestamp(p + 1) = Timestamp(p)
        BY <1>10, <3>1, <3>3, FrameShape
      <4>2. continuation = <<Sequence(p + 1), Timestamp(p)>>
        BY <2>2, <3>3 DEF OrderAt
      <4> QED
        BY <4>1, <4>2
    <3> QED
      BY <3>2, <3>3
  <2> QED
    BY <2>1, <2>2
<1>12. \A k \in 1 .. n - 1 : Sequence(queue[k + 1]) = After(Sequence(queue[k]))
  <2> TAKE k \in 1 .. n - 1
  <2>1. k \in 1 .. n /\ k + 1 \in 1 .. n
    BY <1>1
  <2>2. queue[k] = p + k /\ queue[k + 1] = p + (k + 1) /\ queue[k] \in Positions
    BY <1>1, <1>4, <1>7, <2>1
  <2>3. p + (k + 1) = (p + k) + 1
    BY <1>1, Numbers
  <2> QED
    BY <2>2, <2>3, NextSequence
<1>13. MarkerReady(QueueAt(i), continuation)
  <2>1. queue = Sorted(QueueAt(i)) /\ n = Len(queue) /\ n \in Nat
    BY <1>1 DEF queue, n
  <2>2. \/ continuation = <<Sequence(queue[1]), Timestamp(queue[1])>>
        \/ CanStartNal(queue[1])
    BY <1>10, <1>11
  <2>3. \A k \in 1 .. n : Timestamp(queue[k]) = Timestamp(queue[1])
    BY <1>9, <1>10
  <2>4. \A k \in 1 .. n - 1 : Sequence(queue[k + 1]) = After(Sequence(queue[k]))
    BY <1>12
  <2> QED
    BY <1>8, <2>1, <2>2, <2>3, <2>4, QueueReady
<1> QED
  BY <1>2, <1>3, <1>13 DEF EndsAt

(* Nothing of the frame that is arriving has been handed on.               *)
LEMMA NotHandedOn ==
  ASSUME NEW p \in 0 .. Len(Sent), Inside(completed, Now, p), NEW i \in Positions, p < i
  PROVE  \A k \in 1 .. Len(completed) : completed[k].timestamp # Timestamp(i)
<1> SUFFICES ASSUME NEW k \in 1 .. Len(completed), completed[k].timestamp = Timestamp(i) PROVE FALSE
  OBVIOUS
<1>1. Timestamp(i) <= completed[k].timestamp
  BY Numbers
<1>2. i <= p
  BY <1>1 DEF Inside, HistoryAt
<1> QED
  BY <1>2, Numbers

(* Delivering a packet keeps the order of those before it.                 *)
LEMMA OrderSurvives ==
  ASSUME NEW i, network' = network \ {i}, NEW j, InOrder(j)
  PROVE  InOrder(j)'
BY DEF InOrder

(* A timestamp that neither history nor burst has.                         *)
LEMMA NotJustHandedOn ==
  ASSUME NEW h \in Seq(AccessUnits), NEW done \in Seq(AccessUnits), NEW t,
         \A k \in 1 .. Len(h) : h[k].timestamp # t,
         t \notin {u.timestamp : u \in Range(done)}
  PROVE  \A k \in 1 .. Len(h \o done) : (h \o done)[k].timestamp # t
<1>1. Len(h) \in Nat /\ Len(done) \in Nat /\ Len(h \o done) = Len(h) + Len(done)
  OBVIOUS
<1>2. \A m \in 1 .. Len(done) : done[m].timestamp # t
  BY DoneTimes
<1> TAKE k \in 1 .. Len(h \o done)
<1>3. CASE k \in 1 .. Len(h)
  <2>1. (h \o done)[k] = h[k]
    BY <1>1, <1>3
  <2> QED
    BY <1>3, <2>1
<1>4. CASE k \notin 1 .. Len(h)
  <2>1. k - Len(h) \in 1 .. Len(done) /\ (h \o done)[k] = done[k - Len(h)]
    BY <1>1, <1>4
  <2> QED
    BY <1>2, <2>1
<1> QED
  BY <1>3, <1>4

(* What a push that meets only its own frame does to the tracker.          *)
LEMMA TracksFrame ==
  ASSUME NEW p \in 0 .. Len(Sent), Safe(p), OrderAt(p), NEW i \in network, network \subseteq Positions,
         network' = network \ {i}, p < i, NEW r, NEW b \in 0 .. Len(Sent), BurstFrom(r, b), Pushes(i, r, Burst(r))
  PROVE  \A t \in tracked' : /\ \E j \in Positions \ network' : Timestamp(j) = t
                             /\ \A k \in 1 .. Len(completed') : completed'[k].timestamp # t
<1> DEFINE d == Burst(r)
           out == {u.timestamp : u \in Range(d.done)}
<1>1. /\ tracked' = (tracked \cup {Timestamp(i)}) \ out
      /\ completed' = completed \o d.done
  BY DEF Pushes
<1>2. d.done \in Seq(AccessUnits) /\ completed \in Seq(AccessUnits)
  <2>1. d \in Depacketizers
    BY LoopRuns DEF Known, Inside
  <2> HIDE DEF d
  <2> QED
    BY <2>1, Fields DEF Safe, Inside, HistoryAt
<1> HIDE DEF d
<1> TAKE t \in tracked'
<1>3. t \notin out /\ (t \in tracked \/ t = Timestamp(i))
  BY <1>1
<1>4. \A k \in 1 .. Len(completed) : completed[k].timestamp # t
  <2>1. t \in tracked => \A k \in 1 .. Len(completed) : completed[k].timestamp # t
    BY DEF OrderAt
  <2>2. i \in Positions /\ Inside(completed, Now, p)
    BY DEF Safe
  <2>3. \A k \in 1 .. Len(completed) : completed[k].timestamp # Timestamp(i)
    BY <2>2, NotHandedOn
  <2> QED
    BY <1>3, <2>1, <2>3
<1>5. \A k \in 1 .. Len(completed') : completed'[k].timestamp # t
  BY <1>1, <1>2, <1>3, <1>4, NotJustHandedOn
<1>6. \E j \in Positions \ network' : Timestamp(j) = t
  <2>1. t \in tracked => \E j \in Positions \ network : Timestamp(j) = t
    BY DEF OrderAt
  <2> QED
    BY <1>3, <2>1
<1> QED
  BY <1>5, <1>6

(* In order, a push that releases the frame hands on all of it.            *)
LEMMA OrderlyBurst ==
  ASSUME TypeOK, IsFiniteSet(tracked), NEW p \in 0 .. Len(Sent), Safe(p), OrderlyAt(p), NEW i \in network,
         InOrder(i), Push(i), EndsAt(i), OneFrame(i, p), Room(i), NEW q, q = Newest(QueueAt(i)), failed' = "no"
  PROVE  OrderlyAt(q)'
<1> DEFINE r == Reordered(i)
           queue == Sorted(QueueAt(i))
<1>1. packets \subseteq Positions /\ network \subseteq Positions /\ i \in Positions
  BY DEF TypeOK
<1>2. BufferAt(p) /\ OrderAt(p) /\ Lossless(completed, Now, p) /\ p < i /\ ~(i <= p)
  BY <1>1, Numbers DEF Safe, OrderlyAt, OneFrame
<1>3. /\ StaleAt(i) = {} /\ QueueAt(i) = packets \cup {i} /\ ResumeAt(i) = continuation /\ BaseAt(i, p) = p
  BY NothingIsStale
<1>4. NoHole(i, p)
  <2>1. CASE IsFull(QueueAt(i))
    BY <1>1, <1>2, <2>1, FullHasNoHole
  <2>2. CASE MarkerReady(QueueAt(i), ResumeAt(i))
    BY <1>1, <1>2, <1>3, <2>2, MarkerHasNoHole
  <2> QED
    BY <2>1, <2>2 DEF EndsAt
<1>5. \A l \in 1 .. Len(queue) : queue[l] = p + l
  BY <1>1, <1>2, <1>4, QueueIsRun
<1>6. q \in QueueAt(i) /\ \A j \in QueueAt(i) : j <= q
  BY <1>1, <1>2, QueueIsSorted
<1>7. q \in Positions /\ p < q /\ q > 0
  <2>1. \A j \in packets : j \in Positions /\ p < j
    BY <1>1, Numbers DEF Safe, BufferAt
  <2>2. q \in packets \/ q = i
    BY <1>3, <1>6
  <2>3. q \in Positions /\ p < q
    BY <1>1, <1>2, <2>1, <2>2
  <2> QED
    BY <2>3, Numbers
<1>8. /\ Result(i, r, p) /\ r.ready = queue /\ Place(r.ready, Len(r.ready), p) = q
      /\ Resumed(r) = Now
  BY <1>1, <1>2, <1>3, BurstIsResult
<1>9. BurstFrom(r, p)
  BY <1>8 DEF Result
<1>10. network' = network \ {i} /\ Pushes(i, r, Burst(r))
  <2>1. ~Late(i)
    BY <1>1, <1>2, LateIsBehind
  <2> QED
    BY <2>1, PushSplits DEF PushResult
<1>11. Lossless(completed', Now', q)
  BY <1>2, <1>5, <1>8, <1>9, <1>10, LoopStays
<1>12. packets' = {} /\ continuation' = StopAt(i) /\ q = Newest(QueueAt(i))
  <2>1. r = [ready |-> Sorted(QueueAt(i)), dropped |-> DroppedAt(i), packets |-> {},
                 lastReleased |-> Sequence(Newest(QueueAt(i))), markerPending |-> FALSE,
                 continuation |-> StopAt(i)]
    BY ReorderedIs
  <2>2. r.packets = {} /\ r.continuation = StopAt(i)
    BY <2>1
  <2> QED
    BY <1>10, <2>2 DEF Pushes
<1> HIDE DEF r, queue
<1>13. \A j \in Positions \ network' : InOrder(j)'
  <2> TAKE j \in Positions \ network'
  <2>1. j \in Positions \ network \/ j = i
    BY <1>10
  <2>2. InOrder(j)
    BY <1>2, <2>1 DEF OrderAt
  <2> QED
    BY <1>10, <2>2, OrderSurvives
<1>14. Positions \ network' = (1 .. q) \cup packets'
  <2>1. Positions \ network' = (1 .. p) \cup QueueAt(i)
    <3>1. Positions \ network = (1 .. p) \cup packets
      BY <1>2 DEF OrderAt
    <3>2. Positions \ network' = (Positions \ network) \cup {i}
      BY <1>1, <1>10
    <3> QED
      BY <1>3, <3>1, <3>2
  <2>2. ASSUME NEW x \in 1 .. q PROVE x \in (1 .. p) \cup QueueAt(i)
    <3>1. x \in Positions /\ x \in Nat /\ q \in Nat /\ p \in Nat /\ x <= q /\ 1 <= x
      BY <1>7, Numbers
    <3>2. x <= p \/ x = q \/ (p < x /\ x < q)
      BY <3>1
    <3>3. x <= p => x \in 1 .. p
      BY <3>1
    <3>4. p < x /\ x < q => x \in QueueAt(i)
      BY <1>4, <3>1 DEF NoHole
    <3> QED
      BY <1>6, <3>2, <3>3, <3>4
  <2>3. ASSUME NEW x \in (1 .. p) \cup QueueAt(i) PROVE x \in 1 .. q
    <3>1. CASE x \in 1 .. p
      BY <1>7, <3>1, Numbers
    <3>2. CASE x \in QueueAt(i)
      <4>1. x \in Positions /\ x <= q
        BY <1>1, <1>3, <1>6, <3>2
      <4> QED
        BY <1>7, <4>1, Numbers
    <3> QED
      BY <3>1, <3>2
  <2> QED
    BY <1>12, <2>1, <2>2, <2>3
<1>15. continuation' = IF q = 0 \/ Sent[q].marker THEN NoContinuation
                       ELSE <<Sequence(q + 1), Timestamp(q)>>
  <2>1. After(Sequence(q)) = Sequence(q + 1)
    BY <1>7, NextSequence
  <2>2. q # 0
    BY <1>7, Numbers
  <2> QED
    BY <1>12, <2>1, <2>2 DEF StopAt
<1>16. \A t \in tracked' : /\ \E j \in Positions \ network' : Timestamp(j) = t
                           /\ \A k \in 1 .. Len(completed') : completed'[k].timestamp # t
  BY <1>1, <1>2, <1>9, <1>10, TracksFrame
<1>17. OrderAt(q)'
  BY <1>12, <1>13, <1>14, <1>15, <1>16 DEF OrderAt
<1> QED
  BY <1>11, <1>17 DEF OrderlyAt

(* In order, a push that waits loses nothing.                              *)
LEMMA OrderlyWaiting ==
  ASSUME TypeOK, IsFiniteSet(tracked), NEW p \in 0 .. Len(Sent), Safe(p), OrderlyAt(p), NEW i \in network,
         InOrder(i), Push(i), ~EndsAt(i), OneFrame(i, p), Room(i), failed' = "no"
  PROVE  OrderlyAt(p)'
<1> DEFINE r == Reordered(i)
<1>1. packets \subseteq Positions /\ network \subseteq Positions /\ i \in Positions
  BY DEF TypeOK
<1>2. BufferAt(p) /\ OrderAt(p) /\ Lossless(completed, Now, p) /\ p < i /\ ~(i <= p)
  BY <1>1, Numbers DEF Safe, OrderlyAt, OneFrame
<1>3. /\ StaleAt(i) = {} /\ QueueAt(i) = packets \cup {i} /\ ResumeAt(i) = continuation /\ Behind(i, p) = p
  BY NothingIsStale
<1>4. /\ Result(i, r, p) /\ Place(r.ready, Len(r.ready), p) = p
  BY <1>1, <1>2, <1>3, WaitingIsResult
<1>5. BurstFrom(r, p)
  BY <1>4 DEF Result
<1>6. network' = network \ {i} /\ Pushes(i, r, Burst(r))
  <2>1. ~Late(i)
    BY <1>1, <1>2, LateIsBehind
  <2> QED
    BY <2>1, PushSplits DEF PushResult
<1>7. r.ready = <<>> /\ r.dropped = 0 /\ packets' = QueueAt(i) /\ markerPending' = PendingAt(i)
      /\ continuation' = continuation
  <2>1. r = [ready |-> <<>>, dropped |-> DroppedAt(i), packets |-> QueueAt(i),
                 lastReleased |-> IF StaleAt(i) = {} THEN lastReleased ELSE Sequence(Newest(StaleAt(i))),
                 markerPending |-> PendingAt(i), continuation |-> ResumeAt(i)]
    BY ReorderedIs
  <2>2. /\ r.ready = <<>> /\ r.dropped = DroppedAt(i) /\ r.packets = QueueAt(i)
        /\ r.markerPending = PendingAt(i) /\ r.continuation = ResumeAt(i)
    BY <2>1
  <2>3. DroppedAt(i) = 0
    BY <1>1, <1>3, DroppedCounts
  <2> QED
    BY <1>3, <1>6, <2>2, <2>3 DEF Pushes
<1> HIDE DEF r
<1>8. Lossless(completed', Now', p)
  <2>1. Resumed(r) = Now
    BY <1>7, ResumedIsNow DEF TypeOK
  <2>2. Len(r.ready) = 0
    BY <1>7
  <2>3. \A l \in 1 .. Len(r.ready) : r.ready[l] = p + l
    BY <2>2
  <2>4. p = Place(r.ready, Len(r.ready), p)
    BY <1>4
  <2> QED
    BY <1>2, <1>5, <1>6, <2>1, <2>3, <2>4, LoopStays
<1>9. \A j \in Positions \ network' : InOrder(j)'
  <2> TAKE j \in Positions \ network'
  <2>1. j \in Positions \ network \/ j = i
    BY <1>6
  <2>2. InOrder(j)
    BY <1>2, <2>1 DEF OrderAt
  <2> QED
    BY <1>6, <2>2, OrderSurvives
<1>10. Positions \ network' = (1 .. p) \cup packets'
  <2>1. Positions \ network = (1 .. p) \cup packets
    BY <1>2 DEF OrderAt
  <2>2. Positions \ network' = (Positions \ network) \cup {i}
    BY <1>1, <1>6
  <2> QED
    BY <1>3, <1>7, <2>1, <2>2
<1>11. ASSUME NEW m \in packets', Sent[m].marker
       PROVE  markerPending' /\ \E hole \in network' : p < hole /\ hole < m
  <2>1. m \in QueueAt(i)
    BY <1>7
  <2>2. PendingAt(i) /\ \E hole \in network \ {i} : p < hole /\ hole < m
    BY <1>1, <1>2, <1>11, <2>1, WaitingForHole
  <2> QED
    BY <1>6, <1>7, <2>2
<1>12. continuation = IF p = 0 \/ Sent[p].marker THEN NoContinuation ELSE <<Sequence(p + 1), Timestamp(p)>>
  BY <1>2 DEF OrderAt
<1>13. \A t \in tracked' : /\ \E j \in Positions \ network' : Timestamp(j) = t
                           /\ \A k \in 1 .. Len(completed') : completed'[k].timestamp # t
  BY <1>1, <1>2, <1>5, <1>6, TracksFrame
<1>14. OrderAt(p)'
  BY <1>7, <1>9, <1>10, <1>11, <1>12, <1>13 DEF OrderAt
<1> QED
  BY <1>8, <1>14 DEF OrderlyAt

-----------------------------------------------------------------------------
(* The invariant.                                                          *)

(* The invariant holds at first,                                           *)
LEMMA StreamStarts == Init => StreamInv
<1> SUFFICES ASSUME Init PROVE StreamInv
  OBVIOUS
<1> DEFINE d == Now
<1>1. /\ network = Positions /\ packets = {} /\ lastReleased = None /\ continuation = NoContinuation
      /\ markerPending = FALSE /\ depacketizer = Empty /\ nextSequence = None /\ damaged = None
      /\ tracked = {} /\ failed = "no" /\ completed = <<>> /\ losses = 0 /\ orderly = TRUE /\ resets = 0
  BY DEF Init
<1>2. d = [fragment |-> <<>>, open |-> None, expected |-> None, frame |-> None, units |-> <<>>,
           next |-> None, damaged |-> None, losses |-> 0, done |-> <<>>]
  BY <1>1 DEF Now, Empty
<1>3. <<>> \in Seq(Positions) /\ <<>> \in Seq(Seq(Positions)) /\ <<>> \in Seq(AccessUnits) /\ Len(<<>>) = 0
  OBVIOUS
<1>4. IsFiniteSet({}) /\ Cardinality({}) = 0 /\ MaxReorder > 0 /\ MaxTracked \in Nat /\ MaxResets \in Nat
  BY FS_EmptySet, RtpAssumption
<1>5. TypeOK
  <2>1. depacketizer.fragment = <<>> /\ depacketizer.units = <<>> /\ depacketizer.frame = None
    BY <1>1 DEF Empty
  <2>2. NoContinuation \in ({None} \cup 0 .. SequenceModulus - 1) \X (Nat \cup {None})
    BY DEF NoContinuation
  <2>3. resets \in 0 .. MaxResets
    BY <1>1, <1>4
  <2>4. Cardinality(packets) < MaxReorder /\ Cardinality(tracked) <= MaxTracked
    BY <1>1, <1>4
  <2> QED
    BY <1>1, <1>3, <2>1, <2>2, <2>3, <2>4 DEF TypeOK
<1> HIDE DEF d
<1>6. /\ d \in Depacketizers /\ d.fragment = <<>> /\ d.frame = None /\ d.units = <<>> /\ d.damaged = None
      /\ d.next = None /\ d.losses = 0
  BY <1>2, <1>3 DEF Depacketizers
<1>7. ~Clean(completed, d)
  BY <1>1 DEF Clean
<1>8. HistoryAt(completed, d, 0)
  BY <1>1, <1>3 DEF HistoryAt
<1>9. Safe(0)
  <2>1. Inside(completed, d, 0) /\ NextAt(completed, d, 0)
    BY <1>6, <1>7, <1>8 DEF Inside, FragmentAt, FrameAt, DamageAt, NextAt
  <2>2. BufferAt(0)
    BY <1>1 DEF BufferAt
  <2> QED
    BY <2>1, <2>2 DEF Safe, d
<1>10. OrderlyAt(0)
  <2>1. 1 .. 0 = {}
    OBVIOUS
  <2>2. Lossless(completed, d, 0)
    BY <1>6, <2>1 DEF Lossless, Gapless
  <2>3. OrderAt(0)
    BY <1>1, <2>1 DEF OrderAt
  <2> QED
    BY <1>1, <2>2, <2>3 DEF OrderlyAt, d
<1>11. 0 \in 0 .. Len(Sent)
  BY Numbers
<1> QED
  BY <1>1, <1>4, <1>5, <1>9, <1>10, <1>11 DEF StreamInv

(* a push keeps it, orderly delivery included,                             *)
LEMMA DeliverKeeps ==
  ASSUME StreamInv, NEW i \in Positions, Deliver(i)
  PROVE  StreamInv'
<1>1. TypeOK /\ IsFiniteSet(tracked) /\ i \in network /\ Push(i)
  BY DEF StreamInv, Deliver
<1>2. PICK p \in 0 .. Len(Sent) : Safe(p) /\ (orderly => OrderlyAt(p))
  BY DEF StreamInv
<1>3. PICK q : q = Ahead(i, p)
  OBVIOUS
<1>4. /\ TypeOK' /\ IsFiniteSet(tracked') /\ q \in 0 .. Len(Sent) /\ Safe(q)'
      /\ Room(i) => failed' = "no"
  BY <1>1, <1>2, <1>3, DeliverStays
<1>5. network' = network \ {i} /\ orderly' = (orderly /\ InOrder(i))
  BY <1>1, PushSplits
<1>6. ASSUME orderly' PROVE OrderlyAt(q)'
  <2>1. orderly /\ InOrder(i) /\ orderly \in BOOLEAN
    BY <1>1, <1>5, <1>6 DEF TypeOK
  <2>2. OrderlyAt(p) /\ OrderAt(p) /\ Lossless(completed, Now, p) /\ BufferAt(p)
    BY <1>2, <2>1 DEF OrderlyAt, Safe
  <2>3. packets \subseteq Positions /\ network \subseteq Positions /\ tracked \subseteq Nat
    BY <1>1 DEF TypeOK
  <2>4. OneFrame(i, p)
    BY <1>1, <2>1, <2>2, <2>3, OneFrameWaits
  <2>5. Room(i)
    BY <1>1, <2>2, <2>3, <2>4, RoomForFrame
  <2>6. failed' = "no" /\ ~(i <= p)
    BY <1>4, <2>4, <2>5, Numbers DEF OneFrame
  <2>7. CASE EndsAt(i)
    <3>1. q = Newest(QueueAt(i))
      BY <1>3, <2>5, <2>6, <2>7 DEF Ahead
    <3> QED
      BY <1>1, <1>2, <2>1, <2>2, <2>4, <2>5, <2>6, <2>7, <3>1, OrderlyBurst
  <2>8. CASE ~EndsAt(i)
    <3>1. q = p
      BY <1>3, <2>4, <2>5, <2>6, <2>8, NothingIsStale DEF Ahead
    <3>2. OrderlyAt(p)'
      BY <1>1, <1>2, <2>1, <2>2, <2>4, <2>5, <2>6, <2>8, OrderlyWaiting
    <3> QED
      BY <3>1, <3>2
  <2> QED
    BY <2>7, <2>8
<1> QED
  BY <1>4, <1>6 DEF StreamInv

(* and so does every step.                                                 *)
LEMMA StreamSteps == StreamInv /\ [Next]_vars => StreamInv'
<1> SUFFICES ASSUME StreamInv, [Next]_vars PROVE StreamInv'
  OBVIOUS
<1>1. CASE \E i \in Positions : Deliver(i)
  BY <1>1, DeliverKeeps
<1>2. CASE ResetPending
  <2>1. PICK p \in 0 .. Len(Sent) : Safe(p)
    BY DEF StreamInv
  <2>2. TypeOK' /\ IsFiniteSet(tracked') /\ Safe(p)'
    BY <1>2, <2>1, ResetStays DEF StreamInv
  <2>3. ~orderly'
    BY <1>2 DEF ResetPending
  <2> QED
    BY <2>2, <2>3 DEF StreamInv
<1>3. CASE UNCHANGED vars
  <2>1. /\ UNCHANGED <<network, packets, lastReleased, continuation, markerPending>>
        /\ UNCHANGED <<depacketizer, nextSequence, damaged, tracked, failed>>
        /\ UNCHANGED <<completed, losses, orderly, resets>>
    BY <1>3 DEF vars, reorder, inbound, history
  <2>2. Now' = Now
    BY <2>1, NowStays
  <2>3. PICK p \in 0 .. Len(Sent) : Safe(p) /\ (orderly => OrderlyAt(p))
    BY DEF StreamInv
  <2>4. Safe(p)'
    BY <2>1, <2>2, <2>3 DEF Safe, BufferAt
  <2>5. OrderlyAt(p) => OrderlyAt(p)'
    BY <2>1, <2>2 DEF OrderlyAt, OrderAt, InOrder
  <2>6. TypeOK' /\ IsFiniteSet(tracked')
    BY <2>1 DEF StreamInv, TypeOK
  <2> QED
    BY <2>1, <2>3, <2>4, <2>5, <2>6 DEF StreamInv
<1> QED
  BY <1>1, <1>2, <1>3 DEF Next

(* It says that what was handed on can be trusted,                         *)
LEMMA StreamInvIsTrusted == StreamInv => NoSilentDamage
BY DEF StreamInv, Safe, Inside, HistoryAt, NoSilentDamage

(* and that a frame that arrived in order was handed on.                   *)
LEMMA StreamInvIsLossless == StreamInv => OrderlyIsLossless
<1> SUFFICES ASSUME StreamInv, orderly PROVE OrderlyIsLossless
  BY DEF OrderlyIsLossless
<1>1. PICK p \in 0 .. Len(Sent) : BufferAt(p) /\ OrderAt(p) /\ Lossless(completed, Now, p)
  BY DEF StreamInv, Safe, OrderlyAt
<1>2. losses = 0
  BY <1>1 DEF Lossless, Now
<1>3. ASSUME NEW i \in Positions, Frame(Timestamp(i)) \cap network = {}
      PROVE  HandedOn(completed, Timestamp(i))
  <2>1. PICK m \in Positions : Timestamp(m) = Timestamp(i) /\ Sent[m].marker
    BY FrameEnds
  <2>2. m \notin network
    BY <1>3, <2>1 DEF Frame
  <2>3. m \in (1 .. p) \cup packets /\ InOrder(m)
    BY <1>1, <2>2 DEF OrderAt
  <2>4. m \notin packets
    <3> SUFFICES ASSUME m \in packets PROVE FALSE
      OBVIOUS
    <3>1. PICK hole \in network : hole < m
      BY <1>1, <2>1 DEF OrderAt
    <3>2. Timestamp(hole) = Timestamp(i) /\ hole \in Positions
      BY <2>1, <2>3, <3>1 DEF InOrder, StreamInv, TypeOK
    <3> QED
      BY <1>3, <3>1, <3>2 DEF Frame
  <2>5. HandedOn(completed, Timestamp(m))
    BY <1>1, <2>1, <2>3, <2>4 DEF Lossless
  <2> QED
    BY <2>1, <2>5
<1> QED
  BY <1>2, <1>3 DEF OrderlyIsLossless, HandedOn

(* Of every stream that a server may send, however it is delivered: the    *)
(* reorder buffer and the tracker stay within their capacities, and no     *)
(* access unit is completed whose first packet was not tracked.            *)
THEOREM StreamTypesHold == Spec => []TypeOK
<1>1. StreamInv => TypeOK
  BY DEF StreamInv
<1> QED
  BY <1>1, StreamStarts, StreamSteps, PTL DEF Spec

(* Whatever the network loses and reorders, and whenever the chain is      *)
(* reset: access units come in frame order, of whole NAL units of their    *)
(* own frame, and none is incomplete, nor a frame missing before it,       *)
(* without a loss reported since the one before it.                        *)
THEOREM NothingIsSilentlyDamaged == Spec => []NoSilentDamage
BY StreamStarts, StreamSteps, StreamInvIsTrusted, PTL DEF Spec

(* As long as packets overtake each other only where the buffer waits, no  *)
(* loss is reported and every frame that has arrived has been handed on,   *)
(* complete.                                                               *)
THEOREM ReorderingIsLossless == Spec => []OrderlyIsLossless
BY StreamStarts, StreamSteps, StreamInvIsLossless, PTL DEF Spec

(* And so of the band as a whole: with SRTP in front of it, on a network   *)
(* that also duplicates packets, the stream keeps all of this.             *)
THEOREM BandIsTrustworthy == SecureSpec => [](TypeOK /\ NoSilentDamage /\ OrderlyIsLossless)
BY SecureImplementsStream, StreamTypesHold, NothingIsSilentlyDamaged, ReorderingIsLossless, PTL
   DEF ImplementsStream
=============================================================================
