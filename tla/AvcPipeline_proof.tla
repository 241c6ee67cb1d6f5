------------------------- MODULE AvcPipeline_proof --------------------------
(***************************************************************************)
(* Proofs about AvcPipeline, for any number of pictures and any capacities *)
(* of the network, the assembler, the queue and the decoder's output: its  *)
(* types, that the decoder is given no picture across a break of the       *)
(* prediction chain, and that nobody waits for a key picture that nobody   *)
(* was asked for.                                                          *)
(***************************************************************************)
EXTENDS AvcPipeline, TLAPS, FiniteSetTheorems, SequenceTheorems, WellFoundedInduction

-----------------------------------------------------------------------------
(* A set of pictures has a first and a last one. *)
LEMMA HasLeast ==
  ASSUME NEW S, S \subseteq Nat, S # {}
  PROVE  \E x \in S : \A y \in S : x <= y
<1> DEFINE R == OpToRel(<, Nat)
<1>1. PICK x \in S : \A y \in S : ~(<<y, x>> \in R)
  <2>1. IsWellFoundedOn(R, Nat)
    BY NatLessThanWellFounded
  <2> HIDE DEF R
  <2> QED  BY <2>1, WFMin
<1>2. ASSUME NEW y \in S PROVE x <= y
  <2>1. x \in Nat /\ y \in Nat
    OBVIOUS
  <2>2. ~(<<y, x>> \in R)
    BY <1>1
  <2>3. ~(y < x)
    BY <2>1, <2>2 DEF OpToRel
  <2> QED  BY <2>1, <2>3
<1> QED  BY <1>2

LEMMA MinIsLeast ==
  ASSUME NEW S, S \subseteq Nat, S # {}
  PROVE  Min(S) \in S /\ \A y \in S : Min(S) <= y
BY HasLeast DEF Min

LEMMA MaxIsLast ==
  ASSUME NEW b \in Nat, NEW S, S \subseteq 0 .. b, S # {}
  PROVE  Max(S) \in S /\ \A y \in S : Max(S) >= y
<1> DEFINE T == {n \in Nat : b - n \in S}
<1>1. PICK z \in T : \A y \in T : z <= y
  <2>1. T \subseteq Nat
    OBVIOUS
  <2>2. T # {}
    <3>1. PICK s \in S : s \in 0 .. b
      OBVIOUS
    <3>2. b - s \in Nat /\ b - (b - s) = s
      BY <3>1
    <3> QED  BY <3>2
  <2> HIDE DEF T
  <2> QED  BY <2>1, <2>2, HasLeast
<1>2. b - z \in S
  OBVIOUS
<1>3. ASSUME NEW y \in S PROVE b - z >= y
  <2>1. y \in 0 .. b
    OBVIOUS
  <2>2. b - y \in Nat /\ b - (b - y) = y
    BY <2>1
  <2>3. z <= b - y
    BY <1>1, <2>2
  <2> QED  BY <2>1, <2>3
<1> QED  BY <1>2, <1>3 DEF Max

-----------------------------------------------------------------------------
(* What the assembler holds and what is handed on was seen by the streams. *)
SeenBounds == released <= newest /\ pending \subseteq 1 .. newest

(* A run of packets lies between its first and its last. *)
LEMMA RunBounds ==
  ASSUME TypeOK, NEW r \in Runs
  PROVE  /\ r \subseteq 1 .. sent /\ r # {} /\ r \subseteq flying
         /\ Min(r) \in r /\ Max(r) \in r
         /\ \A p \in r : Min(r) <= p /\ p <= Max(r)
         /\ r = Min(r) .. Max(r)
         /\ newest = None => r = {Min(r)}
<1>1. r \subseteq 1 .. sent /\ r # {} /\ r \subseteq flying /\ sent \in Nat /\ r = Min(r) .. Max(r)
  BY DEF TypeOK, Runs
<1>2. Min(r) \in r /\ \A p \in r : Min(r) <= p
  <2>1. r \subseteq Nat
    BY <1>1
  <2> QED  BY <1>1, <2>1, MinIsLeast
<1>3. Max(r) \in r /\ \A p \in r : Max(r) >= p
  <2>1. r \subseteq 0 .. sent
    BY <1>1
  <2> QED  BY <1>1, <2>1, MaxIsLast
<1>4. newest = None => r = {Min(r)}
  <2> SUFFICES ASSUME newest = None PROVE r = {Min(r)}
    OBVIOUS
  <2>1. Cardinality(r) = 1
    BY DEF Runs
  <2>2. IsFiniteSet(1 .. sent)
    BY <1>1, FS_Interval
  <2>3. IsFiniteSet(r)
    BY <1>1, <2>2, FS_Subset
  <2>4. PICK p : r = {p}
    BY <2>1, <2>3, FS_Singleton
  <2> QED  BY <1>2, <2>4
<1> QED  BY <1>1, <1>2, <1>3, <1>4

(* What of it is kept is newer than what was seen, or nothing. *)
LEMMA KeptBounds ==
  ASSUME TypeOK, NEW r \in Runs, NEW kept \in Kept(r)
  PROVE  kept \subseteq r /\ (IsLate(r) => kept = {})
BY DEF Kept

(* What is inserted is kept, and begins with a key picture if one was      *)
(* awaited.                                                                *)
LEMMA InsertedBounds ==
  ASSUME TypeOK, NEW kept, kept \subseteq 1 .. sent
  PROVE  /\ Inserted(kept) \subseteq kept
         /\ ~awaitingSync => \A p \in kept : p > released => p \in Inserted(kept)
         /\ \A k \in kept \cap keys : awaitingSync => k \in Inserted(kept)
         /\ Inserted(kept) # {} =>
              /\ Min(Inserted(kept)) \in Inserted(kept)
              /\ \A p \in Inserted(kept) : Min(Inserted(kept)) <= p
              /\ awaitingSync => Min(Inserted(kept)) \in keys
<1>1. /\ Inserted(kept) \subseteq kept
      /\ ~awaitingSync => \A p \in kept : p > released => p \in Inserted(kept)
  BY DEF Inserted
<1>2. \A k \in kept \cap keys : awaitingSync => k \in Inserted(kept)
  <2> SUFFICES ASSUME NEW k \in kept \cap keys, awaitingSync PROVE k \in Inserted(kept)
    OBVIOUS
  <2>1. k <= k
    BY DEF TypeOK
  <2> QED  BY <2>1 DEF Inserted
<1>3. ASSUME Inserted(kept) # {}
      PROVE  /\ Min(Inserted(kept)) \in Inserted(kept)
             /\ \A p \in Inserted(kept) : Min(Inserted(kept)) <= p
             /\ awaitingSync => Min(Inserted(kept)) \in keys
  <2>1. Inserted(kept) \subseteq Nat
    <3>1. 1 .. sent \subseteq Nat
      BY DEF TypeOK
    <3> QED  BY <1>1, <3>1
  <2>2. /\ Min(Inserted(kept)) \in Inserted(kept)
        /\ \A p \in Inserted(kept) : Min(Inserted(kept)) <= p
    BY <1>3, <2>1, MinIsLeast
  <2>3. ASSUME awaitingSync PROVE Min(Inserted(kept)) \in keys
    <3>1. PICK k \in kept \cap keys : k <= Min(Inserted(kept))
      BY <2>2, <2>3 DEF Inserted
    <3>2. k \in Inserted(kept)
      BY <1>2, <2>3
    <3>3. Min(Inserted(kept)) <= k /\ k \in Nat /\ Min(Inserted(kept)) \in Nat
      BY <2>1, <2>2, <3>2
    <3> QED  BY <3>1, <3>3
  <2> QED  BY <2>2, <2>3
<1> QED  BY <1>1, <1>2, <1>3

-----------------------------------------------------------------------------
(* The invariants. *)
Links(p, q) == q \in keys \/ q = p + 1
IsFrame(event) == event.kind = "frame"
Last == events[Len(events)]

(* The picture submitted last and the pictures queued are a chain, unless  *)
(* there is a break between them.                                          *)
HeadFollows ==
  events # <<>> /\ IsFrame(events[1]) /\ ~needsSync => Links(decoded, events[1].picture)
QueueFollows ==
  \A i \in 1 .. Len(events) - 1 :
    IsFrame(events[i]) /\ IsFrame(events[i + 1]) => Links(events[i].picture, events[i + 1].picture)

(* The picture just read belongs at the end of that chain, and so does the *)
(* one after the picture released last.                                    *)
GotFollows ==
  got \in Sent =>
    IF events = <<>> THEN needsSync \/ Links(decoded, got)
    ELSE IsFrame(Last) => Links(Last.picture, got)
ReleasedIsLast ==
  ~awaitingSync =>
    IF got \in Sent THEN got = released
    ELSE IF events = <<>> THEN needsSync \/ decoded = released
    ELSE IsFrame(Last) => Last.picture = released

(* An assembler that awaits a key picture holds nothing, and a break is    *)
(* queued behind every picture it handed on.                               *)
SyncIsCut ==
  awaitingSync =>
    pending = {} /\ got \notin Sent /\ (events # <<>> => ~IsFrame(Last))

(* What was read is checked or published next; a key picture read is the   *)
(* recording's.                                                            *)
GotIsFresh ==
  /\ got # Nothing => pump \in {"check", "publish"}
  /\ got \in keys => take # "asked"

(* An error is told behind a break, of which the decoder may already know. *)
TellsOfBreak ==
  pump \in {"tell", "tellThenRead"} =>
    /\ Len(events) <= 1 /\ \A i \in 1 .. Len(events) : ~IsFrame(events[i])
    /\ events = <<>> => needsSync

Chain == HeadFollows /\ QueueFollows /\ GotFollows /\ ReleasedIsLast /\ SyncIsCut
IInv == TypeOK /\ SeenBounds /\ GotIsFresh /\ TellsOfBreak /\ Chain

-----------------------------------------------------------------------------
(* What an insertion may do, where n is the newest picture seen by then:   *)
(* hand on the picture that is next, or none; a key picture is among those *)
(* inserted if one was awaited, and it is next.                            *)
HandsOn(n) ==
  /\ awaitingSync' = FALSE
  /\ pending' \subseteq 1 .. n /\ Cardinality(pending') <= MaxPending
  /\ released' \in 0 .. n
  /\ \/ got' = Nothing /\ ~awaitingSync /\ released' = released
     \/ got' \in 1 .. n /\ got' = released'
        /\ IF awaitingSync THEN got' \in keys ELSE got' = released + 1

LEMMA InsertStep ==
  ASSUME TypeOK, SeenBounds, NEW n \in newest .. sent,
         NEW kept, kept \subseteq 1 .. n,
         Inserted(kept) # {}, ~MustOverflow(kept), Insert(Inserted(kept))
  PROVE  /\ HandsOn(n)
         /\ \A k \in pending \cup Inserted(kept) : k = got' \/ k \in pending'
<1> DEFINE inserted == Inserted(kept)
           waiting == pending \cup inserted
           next == Before(inserted) + 1
<1>1. /\ n \in Nat /\ sent \in Nat /\ newest \in Nat /\ n <= sent
      /\ newest <= n /\ MaxPending \in Nat /\ kept \subseteq 1 .. sent
      /\ released \in Nat /\ released <= n /\ pending \subseteq 1 .. n
  BY PipelineAssumption DEF TypeOK, SeenBounds
<1>2. /\ inserted \subseteq 1 .. n /\ inserted # {}
      /\ Min(inserted) \in inserted
      /\ awaitingSync => Min(inserted) \in keys
  BY <1>1, InsertedBounds
<1>3. waiting \subseteq 1 .. n /\ IsFiniteSet(waiting) /\ Cardinality(waiting) <= MaxPending
  <2>1. waiting \subseteq 1 .. n
    BY <1>1, <1>2
  <2>2. IsFiniteSet(1 .. n)
    BY <1>1, FS_Interval
  <2>3. IsFiniteSet(waiting) /\ Cardinality(waiting) \in Nat
    BY <2>1, <2>2, FS_Subset, FS_CardinalityType
  <2>4. ~(Cardinality(waiting) > MaxPending)
    BY DEF MustOverflow
  <2> QED  BY <1>1, <2>1, <2>3, <2>4
<1>4. /\ next - 1 \in 0 .. n
      /\ awaitingSync => next = Min(inserted) /\ next \in waiting
      /\ ~awaitingSync => next = released + 1
  BY <1>1, <1>2 DEF Before
<1>5. /\ awaitingSync' = FALSE
      /\ got' = IF next \in waiting THEN next ELSE Nothing
      /\ released' = IF next \in waiting THEN next ELSE next - 1
      /\ pending' = waiting \ {next}
  BY DEF Insert
<1>6. pending' \subseteq 1 .. n /\ Cardinality(pending') <= MaxPending
  <2>1. pending' \subseteq waiting
    BY <1>5
  <2>2. /\ Cardinality(pending') <= Cardinality(waiting)
        /\ Cardinality(pending') \in Nat /\ Cardinality(waiting) \in Nat
    BY <1>3, <2>1, FS_Subset, FS_CardinalityType
  <2> QED  BY <1>1, <1>3, <2>1, <2>2
<1>7. \A k \in waiting : k = got' \/ k \in pending'
  BY <1>5
<1> HIDE DEF waiting, next, inserted
<1>8. released' \in 0 .. n
  <2>1. CASE next \in waiting
    BY <1>1, <1>3, <1>5, <2>1
  <2>2. CASE next \notin waiting
    BY <1>4, <1>5, <2>2
  <2> QED  BY <2>1, <2>2
<1>9. \/ got' = Nothing /\ ~awaitingSync /\ released' = released
      \/ got' \in 1 .. n /\ got' = released'
         /\ IF awaitingSync THEN got' \in keys ELSE got' = released + 1
  <2>1. CASE next \in waiting
    BY <1>1, <1>2, <1>3, <1>4, <1>5, <2>1
  <2>2. CASE next \notin waiting
    BY <1>1, <1>2, <1>3, <1>4, <1>5, <2>2
  <2> QED  BY <2>1, <2>2
<1> QED  BY <1>5, <1>6, <1>7, <1>8, <1>9 DEF HandsOn, waiting, inserted

(* Whoever asks is heard, or it is known that he was not. *)
IsAsked == pli' = TRUE \/ missed' = TRUE
AskTypes == pli' \in BOOLEAN /\ recent' \in BOOLEAN /\ missed' \in BOOLEAN

LEMMA AskStep ==
  ASSUME TypeOK
  PROVE  /\ AskAndSucceed \/ AskAndFail => IsAsked /\ AskTypes
         /\ DoNotAsk => AskTypes
BY DEF TypeOK, AskAndSucceed, AskAndFail, DoNotAsk, IsAsked, AskTypes

(* The key pictures that may still come to the decoder. *)
KeepsKeys ==
  \A k \in keys : k > newest \/ k \in pending => k > newest' \/ k \in pending' \/ k = got'

(* What reading accepted packets may do. *)
LEMMA AcceptedStep ==
  ASSUME TypeOK, SeenBounds, SyncIsCut, got = Nothing, NEW r \in Runs, ReadAccepted(r)
  PROVE  /\ newest' \in newest .. sent
         /\ \/ got' = Nothing /\ EnterSyncRecovery /\ events' = <<Reset>>
            \/ /\ events' \in {events, <<Reset>>}
               /\ (got' = Nothing /\ UNCHANGED assembler) \/ HandsOn(newest')
         /\ AskTypes
         /\ \/ IsAsked
            \/ /\ UNCHANGED <<pli, missed, events>> /\ KeepsKeys
               /\ awaitingSync' \in {awaitingSync, FALSE}
<1>1. PICK kept \in Kept(r), overflows \in BOOLEAN :
        /\ IF overflows THEN Overflow(kept) ELSE Assemble(kept)
        /\ IF Loses(r) \/ overflows
           THEN events' = <<Reset>> /\ AskAndSucceed
           ELSE /\ events' = events
                /\ IF TakeAsks THEN AskAndSucceed
                   ELSE missed' = (missed \/ Unnoticed(Min(r))) /\ UNCHANGED <<pli, recent>>
  BY DEF ReadAccepted
<1>2. /\ newest' = IF IsLate(r) THEN newest ELSE Max(r)
      /\ UNCHANGED <<keys, commands>>
  BY DEF ReadAccepted, ReadPacket
<1>3. /\ r \subseteq 1 .. sent /\ r # {} /\ Min(r) \in r /\ Max(r) \in r
      /\ \A p \in r : Min(r) <= p /\ p <= Max(r)
      /\ r = Min(r) .. Max(r)
      /\ newest = None => r = {Min(r)}
  BY RunBounds
<1>4. kept \subseteq r /\ (IsLate(r) => kept = {})
  BY KeptBounds
<1>5. /\ sent \in Nat /\ newest \in Nat /\ newest <= sent
      /\ Min(r) \in Nat /\ Max(r) \in 1 .. sent /\ Min(r) <= Max(r)
  <2>1. sent \in Nat /\ newest \in Nat /\ newest <= sent
    BY DEF TypeOK
  <2>2. Min(r) \in 1 .. sent /\ Max(r) \in 1 .. sent
    BY <1>3
  <2>3. Min(r) <= Max(r)
    BY <1>3
  <2> QED  BY <2>1, <2>2, <2>3
<1>6. newest' \in newest .. sent /\ kept \subseteq 1 .. newest'
  <2>1. CASE IsLate(r)
    BY <1>2, <1>4, <1>5, <2>1
  <2>2. CASE ~IsLate(r)
    <3>1. newest <= Max(r)
      BY <1>5, <2>2 DEF IsLate
    <3>2. \A p \in kept : p \in 1 .. sent /\ p <= Max(r)
      BY <1>3, <1>4
    <3> QED  BY <1>2, <1>5, <2>2, <3>1, <3>2
  <2> QED  BY <2>1, <2>2
<1>7. \/ overflows /\ got' = Nothing /\ EnterSyncRecovery
      \/ ~overflows /\ Inserted(kept) = {} /\ got' = Nothing /\ UNCHANGED assembler
      \/ /\ ~overflows /\ Inserted(kept) # {} /\ HandsOn(newest')
         /\ \A k \in pending \cup Inserted(kept) : k = got' \/ k \in pending'
  <2>1. CASE overflows
    BY <1>1, <2>1 DEF Overflow
  <2>2. CASE ~overflows /\ Inserted(kept) = {}
    BY <1>1, <2>2 DEF Assemble
  <2>3. CASE ~overflows /\ Inserted(kept) # {}
    <3>1. ~MustOverflow(kept) /\ Insert(Inserted(kept))
      BY <1>1, <2>3 DEF Assemble
    <3> QED  BY <1>6, <2>3, <3>1, InsertStep
  <2> QED  BY <2>1, <2>2, <2>3
<1>8. \/ got' = Nothing /\ EnterSyncRecovery /\ events' = <<Reset>>
      \/ /\ events' \in {events, <<Reset>>}
         /\ (got' = Nothing /\ UNCHANGED assembler) \/ HandsOn(newest')
  BY <1>1, <1>7
<1>9. AskTypes
  <2>1. CASE AskAndSucceed
    BY <2>1, AskStep
  <2>2. CASE missed' = (missed \/ Unnoticed(Min(r))) /\ UNCHANGED <<pli, recent>>
    BY <2>2 DEF TypeOK, AskTypes
  <2> QED  BY <1>1, <2>1, <2>2
<1>10. \/ IsAsked
       \/ /\ UNCHANGED <<pli, missed, events>> /\ KeepsKeys
          /\ awaitingSync' \in {awaitingSync, FALSE}
  <2>1. CASE AskAndSucceed
    BY <2>1, AskStep
  <2>2. CASE missed' = TRUE
    BY <2>2 DEF IsAsked
  <2>3. CASE ~AskAndSucceed /\ missed' # TRUE
    <3>1. ~Loses(r) /\ ~overflows /\ UNCHANGED <<pli, events>> /\ missed' = (missed \/ Unnoticed(Min(r)))
      BY <1>1, <2>3
    <3>2. missed' = missed /\ ~Unnoticed(Min(r))
      BY <2>3, <3>1 DEF TypeOK
    <3>3. awaitingSync' \in {awaitingSync, FALSE}
      BY <1>7, <3>1 DEF HandsOn, assembler
    <3>4. ASSUME NEW k \in keys, k > newest \/ k \in pending
          PROVE  k > newest' \/ k \in pending' \/ k = got'
      <4>1. CASE k \in pending
        BY <1>7, <3>1, <4>1 DEF assembler
      <4>2. CASE IsLate(r) /\ k > newest
        BY <1>2, <4>2
      <4>3. CASE ~IsLate(r) /\ k > newest
        <5>1. k \in 1 .. sent
          BY DEF TypeOK
        <5>2. kept = r /\ newest' = Max(r)
          BY <1>2, <3>1, <4>3 DEF Kept
        <5>3. CASE k > Max(r)
          BY <5>2, <5>3
        <5>4. CASE k <= Max(r)
          <6>1. Min(r) <= k
            BY <1>3, <1>5, <3>1, <3>2, <4>3, <5>1, <5>4 DEF Loses, Unnoticed, None
          <6>2. k \in kept
            BY <1>3, <1>5, <5>1, <5>2, <5>4, <6>1
          <6>3. k \in Inserted(kept)
            <7>1. released \in Nat /\ released <= newest
              BY DEF TypeOK, SeenBounds
            <7>2. kept \subseteq 1 .. sent
              BY <1>3, <1>4
            <7>3. k > released
              BY <1>5, <4>3, <5>1, <7>1
            <7> QED  BY <6>2, <7>2, <7>3, InsertedBounds
          <6> QED  BY <1>7, <3>1, <6>3
        <5> QED  BY <1>5, <5>1, <5>3, <5>4
      <4> QED  BY <3>4, <4>1, <4>2, <4>3
    <3> QED  BY <3>1, <3>2, <3>3, <3>4 DEF KeepsKeys
  <2> QED  BY <2>1, <2>2, <2>3
<1> QED  BY <1>6, <1>8, <1>9, <1>10

-----------------------------------------------------------------------------
(* Types. *)
Queued == [kind : {"frame", "reset", "overrun", "error"}, picture : 0 .. sent]

LEMMA QueueTypes ==
  ASSUME TypeOK
  PROVE  /\ events \in Seq(Queued) /\ Len(events) \in 0 .. QueueCapacity
         /\ QueueCapacity \in Nat /\ QueueCapacity > 1
         /\ \A e \in Queued : <<e>> \in Seq(Queued) /\ Len(<<e>>) = 1 /\ <<e>>[1] = e
         /\ Reset \in Queued /\ Overrun \in Queued /\ Error \in Queued
         /\ \A p \in 0 .. sent : Frame(p) \in Queued
         /\ events # <<>> =>
              /\ Len(events) >= 1 /\ Head(events) = events[1] /\ Head(events) \in Queued
              /\ Tail(events) \in Seq(Queued) /\ Len(Tail(events)) = Len(events) - 1
              /\ \A i \in 1 .. Len(events) - 1 : Tail(events)[i] = events[i + 1]
         /\ \A e \in Queued :
              /\ Append(events, e) \in Seq(Queued) /\ Len(Append(events, e)) = Len(events) + 1
              /\ \A i \in 1 .. Len(events) : Append(events, e)[i] = events[i]
              /\ Append(events, e)[Len(events) + 1] = e
         /\ \A i \in 1 .. Len(events) : events[i] \in Queued
<1>1. events \in Seq(Queued) /\ Len(events) <= QueueCapacity /\ sent \in Nat
  BY DEF TypeOK, Queued
<1>2. QueueCapacity \in Nat /\ QueueCapacity > 1
  BY PipelineAssumption
<1>3. Len(events) \in Nat
  BY <1>1, LenProperties
<1>4. /\ Reset \in Queued /\ Overrun \in Queued /\ Error \in Queued
      /\ \A p \in 0 .. sent : Frame(p) \in Queued
  BY <1>1 DEF Queued, Reset, Overrun, Error, Frame, Event, None
<1>5. \A e \in Queued :
        /\ Append(events, e) \in Seq(Queued) /\ Len(Append(events, e)) = Len(events) + 1
        /\ \A i \in 1 .. Len(events) : Append(events, e)[i] = events[i]
        /\ Append(events, e)[Len(events) + 1] = e
  BY <1>1, AppendProperties
<1>6. \A i \in 1 .. Len(events) : events[i] \in Queued
  BY <1>1, ElementOfSeq
<1>7. \A e \in Queued : <<e>> \in Seq(Queued) /\ Len(<<e>>) = 1 /\ <<e>>[1] = e
  OBVIOUS
<1>8. events # <<>> =>
        /\ Len(events) >= 1 /\ Head(events) = events[1] /\ Head(events) \in Queued
        /\ Tail(events) \in Seq(Queued) /\ Len(Tail(events)) = Len(events) - 1
        /\ \A i \in 1 .. Len(events) - 1 : Tail(events)[i] = events[i + 1]
  <2> SUFFICES ASSUME events # <<>>
               PROVE  /\ Len(events) >= 1 /\ Head(events) = events[1] /\ Head(events) \in Queued
                      /\ Tail(events) \in Seq(Queued) /\ Len(Tail(events)) = Len(events) - 1
                      /\ \A i \in 1 .. Len(events) - 1 : Tail(events)[i] = events[i + 1]
    OBVIOUS
  <2>1. Len(events) >= 1
    BY <1>1, <1>3, EmptySeq
  <2>2. Head(events) = events[1] /\ Head(events) \in Queued
    BY <1>1, <1>3, <1>6, <2>1
  <2>3. /\ Tail(events) \in Seq(Queued) /\ Len(Tail(events)) = Len(events) - 1
        /\ \A i \in 1 .. Len(Tail(events)) : Tail(events)[i] = events[i + 1]
    BY <1>1, HeadTailProperties
  <2> QED  BY <2>1, <2>2, <2>3
<1> QED  BY <1>1, <1>2, <1>3, <1>4, <1>5, <1>6, <1>7, <1>8

(* The types of what the receive thread and the decode loop share. *)
QueueTyped == events' \in Seq(Queued) /\ Len(events') <= QueueCapacity
AssemblerTyped ==
  /\ awaitingSync' \in BOOLEAN /\ released' \in 0 .. newest' /\ pending' \subseteq 1 .. newest'
  /\ Cardinality(pending') <= MaxPending
  /\ got' \in -1 .. sent

LEMMA AssemblerStep ==
  ASSUME TypeOK, SeenBounds, newest' \in newest .. sent, got' \in {got, Nothing, Failure},
         UNCHANGED assembler \/ EnterSyncRecovery
  PROVE  AssemblerTyped
<1>1. /\ sent \in Nat /\ newest \in 0 .. sent /\ newest' \in newest .. sent
      /\ released \in 0 .. sent /\ released <= newest /\ got \in -1 .. sent
      /\ pending \subseteq 1 .. newest /\ Cardinality(pending) <= MaxPending
      /\ awaitingSync \in BOOLEAN
  BY DEF TypeOK, SeenBounds
<1>2. MaxPending \in Nat /\ Cardinality({}) = 0
  BY PipelineAssumption, FS_EmptySet
<1>3. got' \in -1 .. sent
  BY <1>1 DEF Nothing, Failure
<1>4. CASE UNCHANGED assembler
  BY <1>1, <1>3, <1>4 DEF AssemblerTyped, assembler
<1>5. CASE EnterSyncRecovery
  BY <1>1, <1>2, <1>3, <1>5 DEF AssemblerTyped, EnterSyncRecovery, None
<1> QED  BY <1>4, <1>5

(* A step that keeps the types of the changed variables keeps the types.   *)
LEMMA TypeCompose ==
  ASSUME TypeOK, UNCHANGED <<sent, keys>>, flying' \subseteq flying,
         newest' \in 0 .. sent, AssemblerTyped, AskTypes, QueueTyped,
         take' \in {"off", "armed", "asked"},
         pump' \in {"commands", "read", "check", "publish", "tell", "tellThenRead", "ended"},
         commands' \in BOOLEAN, loop' \in {"wait", "asks", "joins", "done"},
         needsSync' \in BOOLEAN, registered' \in 0 .. MaxRegistered, begun' \in BOOLEAN,
         decoded' \in 0 .. sent, stop' \in BOOLEAN
  PROVE  TypeOK' /\ SeenBounds'
<1>1. events' \in Seq([kind : {"frame", "reset", "overrun", "error"}, picture : 0 .. sent'])
      /\ Len(events') <= QueueCapacity
  BY DEF QueueTyped, Queued
<1>2. /\ sent' \in 0 .. Pictures /\ keys' \subseteq 1 .. sent' /\ flying' \subseteq 1 .. sent'
      /\ newest' \in 0 .. sent' /\ decoded' \in 0 .. sent'
  BY DEF TypeOK
<1>3. /\ awaitingSync' \in BOOLEAN /\ released' \in 0 .. sent' /\ pending' \subseteq 1 .. sent'
      /\ released' <= newest' /\ pending' \subseteq 1 .. newest'
      /\ Cardinality(pending') <= MaxPending
      /\ got' \in -1 .. sent'
  <2>1. sent \in Nat /\ newest' \in 0 .. sent /\ sent' = sent
    BY DEF TypeOK
  <2> QED  BY <2>1 DEF AssemblerTyped
<1>4. pli' \in BOOLEAN /\ recent' \in BOOLEAN /\ missed' \in BOOLEAN
  BY DEF AskTypes
<1> QED  BY <1>1, <1>2, <1>3, <1>4 DEF TypeOK, SeenBounds

LEMMA QueueStep ==
  ASSUME TypeOK,
         \/ events' = events
         \/ events' \in {<<Reset>>, <<Overrun>>}
         \/ events # <<>> /\ events' = Tail(events)
         \/ ~IsFull /\ \E e \in Queued : events' = Append(events, e)
  PROVE  QueueTyped
<1>1. CASE events' = events
  BY <1>1, QueueTypes DEF QueueTyped
<1>2. CASE events' \in {<<Reset>>, <<Overrun>>}
  <2>1. /\ <<Reset>> \in Seq(Queued) /\ Len(<<Reset>>) = 1
        /\ <<Overrun>> \in Seq(Queued) /\ Len(<<Overrun>>) = 1
        /\ QueueCapacity \in Nat /\ QueueCapacity > 1
    BY QueueTypes
  <2>2. events' \in Seq(Queued) /\ Len(events') = 1
    BY <1>2, <2>1
  <2> QED  BY <2>1, <2>2 DEF QueueTyped
<1>3. CASE events # <<>> /\ events' = Tail(events)
  <2>1. /\ Tail(events) \in Seq(Queued) /\ Len(Tail(events)) = Len(events) - 1
        /\ Len(events) \in 0 .. QueueCapacity /\ QueueCapacity \in Nat
    BY <1>3, QueueTypes
  <2>2. events' \in Seq(Queued) /\ Len(events') = Len(events) - 1
    BY <1>3, <2>1
  <2>3. Len(events') <= QueueCapacity
    BY <2>1, <2>2
  <2> QED  BY <2>2, <2>3 DEF QueueTyped
<1>4. CASE ~IsFull /\ \E e \in Queued : events' = Append(events, e)
  BY <1>4, QueueTypes DEF QueueTyped, IsFull
<1> QED  BY <1>1, <1>2, <1>3, <1>4

ControlTyped ==
  /\ take' \in {"off", "armed", "asked"}
  /\ pump' \in {"commands", "read", "check", "publish", "tell", "tellThenRead", "ended"}
  /\ commands' \in BOOLEAN /\ loop' \in {"wait", "asks", "joins", "done"}
  /\ stop' \in BOOLEAN
OutputTyped ==
  /\ needsSync' \in BOOLEAN /\ registered' \in 0 .. MaxRegistered /\ begun' \in BOOLEAN
  /\ decoded' \in 0 .. sent

LEMMA OutputStep ==
  ASSUME TypeOK, UNCHANGED output
  PROVE  OutputTyped
BY DEF TypeOK, output, OutputTyped

LEMMA TypesCompose ==
  ASSUME TypeOK, UNCHANGED <<sent, keys>>, flying' \subseteq flying, newest' \in 0 .. sent,
         AssemblerTyped, AskTypes, QueueTyped, ControlTyped, OutputTyped
  PROVE  TypeOK' /\ SeenBounds'
BY TypeCompose DEF ControlTyped, OutputTyped

-----------------------------------------------------------------------------
(* The environment. *)
LEMMA EnvironmentTypes ==
  ASSUME TypeOK, SeenBounds, Environment
  PROVE  TypeOK' /\ SeenBounds'
<1>1. CASE ServerSends
  <2>1. sent' = sent + 1 /\ sent' \in 0 .. Pictures /\ sent \in Nat
    BY <1>1, PipelineAssumption DEF ServerSends, TypeOK
  <2>2. /\ UNCHANGED <<newest, awaitingSync, pending, released, take, recent, pump, got, commands,
                       events, loop, needsSync, registered, begun, decoded, stop, missed>>
        /\ pli' \in {pli, FALSE}
    BY <1>1 DEF ServerSends, assembler, queue, output
  <2>3. keys' \subseteq 1 .. sent' /\ flying' \subseteq 1 .. sent'
    <3>1. keys \subseteq 1 .. sent /\ flying \subseteq 1 .. sent
      BY DEF TypeOK
    <3>2. keys' \in {keys, keys \cup {sent + 1}} /\ flying' = flying \cup {sent + 1}
      BY <1>1 DEF ServerSends
    <3> QED  BY <2>1, <3>1, <3>2
  <2>4. events' \in Seq([kind : {"frame", "reset", "overrun", "error"}, picture : 0 .. sent'])
    <3> DEFINE Later == [kind : {"frame", "reset", "overrun", "error"}, picture : 0 .. sent']
    <3>1. Queued \subseteq Later
      BY <2>1 DEF Queued
    <3>2. \A i \in 1 .. Len(events) : events[i] \in Later
      BY <3>1, QueueTypes
    <3> HIDE DEF Later
    <3>3. events \in Seq(Later)
      BY <3>2, QueueTypes, SeqDef, LenProperties
    <3> QED  BY <2>2, <3>3 DEF Later
  <2>5. /\ newest' \in 0 .. sent' /\ released' \in 0 .. sent' /\ got' \in -1 .. sent'
        /\ decoded' \in 0 .. sent' /\ pending' \subseteq 1 .. sent'
    BY <2>1, <2>2 DEF TypeOK
  <2>6. pli' \in BOOLEAN
    BY <2>2 DEF TypeOK
  <2> QED  BY <2>1, <2>2, <2>3, <2>4, <2>5, <2>6 DEF TypeOK, SeenBounds
<1>2. CASE PacketIsLost \/ RequestIsLost \/ IntervalPasses \/ StopRequested \/ RecordingStarts
  <2> USE DEF PacketIsLost, RequestIsLost, IntervalPasses, StopRequested, RecordingStarts,
              network, assembler, queue, output
  <2>1. UNCHANGED <<sent, keys, newest, assembler, got, events, output>> /\ flying' \subseteq flying
    BY <1>2
  <2>2. newest' \in 0 .. sent /\ newest' \in newest .. sent
    BY <2>1 DEF TypeOK
  <2>3. AssemblerTyped /\ QueueTyped /\ OutputTyped
    BY <2>1, <2>2, AssemblerStep, QueueStep, OutputStep
  <2>4. AskTypes
    BY <1>2 DEF AskTypes, TypeOK
  <2>5. ControlTyped
    <3>1. UNCHANGED <<pump, commands, loop>> /\ take' \in {take, "armed"}
      BY <1>2
    <3>2. stop' = stop \/ stop' = TRUE
      BY <1>2
    <3>3. stop' \in BOOLEAN
      BY <3>2 DEF TypeOK
    <3> QED
      BY <3>1, <3>3 DEF ControlTyped, TypeOK
  <2>6. UNCHANGED <<sent, keys>> /\ flying' \subseteq flying
    BY <2>1
  <2> HIDE DEF PacketIsLost, RequestIsLost, IntervalPasses, StopRequested, RecordingStarts,
               network, assembler, queue, output
  <2> QED  BY <2>2, <2>3, <2>4, <2>5, <2>6, TypesCompose
<1> QED  BY <1>1, <1>2 DEF Environment

(* A read. *)
LEMMA ReadTypes ==
  ASSUME TypeOK, SeenBounds, SyncIsCut, GotIsFresh, Read
  PROVE  TypeOK' /\ SeenBounds'
<1> USE DEF network, queue
<1>1. /\ UNCHANGED <<sent, keys, commands, loop, output, stop>> /\ flying' \subseteq flying
      /\ pump' = "check" /\ got = Nothing
  <2>1. pump = "read"
    BY DEF Read, ReadReady, ReadNothing, ReadFails, ReadAccepted, ReadAndAskFails, ReadPacket
  <2>2. got = Nothing
    BY <2>1 DEF GotIsFresh
  <2>3. CASE ReadReady \/ ReadNothing \/ ReadFails
    BY <2>2, <2>3 DEF ReadReady, ReadNothing, ReadFails
  <2>4. CASE \E r \in Runs : ReadAccepted(r) \/ ReadAndAskFails(r)
    BY <2>2, <2>4 DEF ReadAccepted, ReadAndAskFails, ReadPacket
  <2> QED  BY <2>3, <2>4 DEF Read
<1>2. OutputTyped
  BY <1>1, OutputStep
<1>3. ControlTyped
  <2>1. take' \in {take, "asked", "off"}
    BY DEF Read, ReadReady, ReadNothing, ReadFails, ReadAccepted, ReadAndAskFails, Carries, Asked
  <2> QED  BY <1>1, <2>1 DEF ControlTyped, TypeOK
<1>4. newest' \in newest .. sent /\ AssemblerTyped /\ AskTypes /\ QueueTyped
  <2>1. /\ sent \in Nat /\ newest \in 0 .. sent /\ released \in 0 .. sent /\ released <= newest
        /\ pending \subseteq 1 .. newest
    BY DEF TypeOK, SeenBounds
  <2>2. CASE ReadReady
    <3>1. /\ newest' = newest /\ events' = events /\ UNCHANGED <<awaitingSync, pli, recent, missed>>
          /\ Expected \in pending /\ got' = Expected /\ released' = Expected
          /\ pending' = pending \ {Expected}
      BY <2>2 DEF ReadReady, IsReady
    <3>2. Cardinality(pending') <= MaxPending
      <4>1. IsFiniteSet(1 .. newest)
        BY <2>1, FS_Interval
      <4>2. IsFiniteSet(pending)
        BY <2>1, <4>1, FS_Subset
      <4>3. /\ Cardinality(pending') <= Cardinality(pending)
            /\ Cardinality(pending') \in Nat /\ Cardinality(pending) \in Nat
        BY <3>1, <4>2, FS_Subset, FS_CardinalityType
      <4>4. Cardinality(pending) <= MaxPending /\ MaxPending \in Nat
        BY PipelineAssumption DEF TypeOK
      <4> QED  BY <4>3, <4>4
    <3>3. AssemblerTyped
      <4>1. got' \in 1 .. newest /\ released' \in 1 .. newest /\ pending' \subseteq 1 .. newest
        BY <2>1, <3>1
      <4> QED  BY <2>1, <3>1, <3>2, <4>1 DEF AssemblerTyped, TypeOK
    <3>4. QueueTyped /\ AskTypes
      BY <3>1, QueueStep, AskStep DEF DoNotAsk
    <3> QED  BY <2>1, <3>1, <3>3, <3>4
  <2>3. CASE ReadNothing \/ ReadFails
    <3>1. /\ newest' = newest /\ events' = events /\ UNCHANGED <<assembler, pli, recent, missed>>
          /\ got' \in {Nothing, Failure}
      BY <2>3 DEF ReadNothing, ReadFails
    <3>2. newest' \in newest .. sent
      BY <2>1, <3>1
    <3>3. QueueTyped /\ AskTypes
      BY <3>1, QueueStep, AskStep DEF DoNotAsk
    <3> QED  BY <3>1, <3>2, <3>3, AssemblerStep
  <2>4. ASSUME NEW r \in Runs, ReadAccepted(r)
        PROVE  newest' \in newest .. sent /\ AssemblerTyped /\ AskTypes /\ QueueTyped
    <3>1. /\ newest' \in newest .. sent /\ AskTypes
          /\ events' \in {events, <<Reset>>}
          /\ \/ got' = Nothing /\ (EnterSyncRecovery \/ UNCHANGED assembler)
             \/ HandsOn(newest')
      BY <1>1, <2>4, AcceptedStep
    <3>2. QueueTyped
      BY <3>1, QueueStep
    <3>3. CASE got' = Nothing /\ (EnterSyncRecovery \/ UNCHANGED assembler)
      BY <3>1, <3>2, <3>3, AssemblerStep
    <3>4. CASE HandsOn(newest')
      <4>1. got' \in -1 .. sent
        BY <2>1, <3>1, <3>4 DEF HandsOn, Nothing
      <4> QED  BY <3>1, <3>2, <3>4, <4>1 DEF HandsOn, AssemblerTyped
    <3> QED  BY <3>1, <3>3, <3>4
  <2>5. ASSUME NEW r \in Runs, ReadAndAskFails(r)
        PROVE  newest' \in newest .. sent /\ AssemblerTyped /\ AskTypes /\ QueueTyped
    <3>1. /\ got' = Failure /\ AskAndFail
          /\ UNCHANGED assembler \/ EnterSyncRecovery
          /\ events' \in {events, <<Reset>>}
          /\ newest' = newest \/ (newest' = Max(r) /\ (Loses(r) \/ ~IsLate(r)))
      BY <2>5 DEF ReadAndAskFails
    <3>2. newest' \in newest .. sent
      <4>1. /\ Max(r) \in r /\ r \subseteq 1 .. sent /\ Min(r) \in r
            /\ \A p \in r : Min(r) <= p
        BY RunBounds
      <4>2. Max(r) \in 1 .. sent /\ Min(r) \in 1 .. sent /\ Min(r) <= Max(r)
        BY <4>1
      <4>3. Loses(r) \/ ~IsLate(r) => newest <= Max(r)
        BY <2>1, <4>2 DEF IsLate, Loses
      <4> QED  BY <2>1, <3>1, <4>2, <4>3
    <3> QED  BY <3>1, <3>2, AssemblerStep, QueueStep, AskStep
  <2> QED  BY <2>2, <2>3, <2>4, <2>5 DEF Read
<1>5. newest' \in 0 .. sent
  BY <1>4 DEF TypeOK
<1> QED  BY <1>1, <1>2, <1>3, <1>4, <1>5, TypesCompose

(* The receive thread.  An error is told to a queue that has a place.      *)
LEMMA RequestTypes ==
  ASSUME TypeOK, NEW a, NEW b, RequestKeyframe(a, b)
  PROVE  EnterSyncRecovery /\ AskTypes /\ IsAsked /\ pump' \in {a, b}
BY AskStep DEF RequestKeyframe

LEMMA PumpTypes ==
  ASSUME TypeOK, SeenBounds, TellsOfBreak,
         PumpEnds \/ PumpTakesCommands \/ PumpChecksCommands \/ PumpPublishes \/ PumpTells
  PROVE  TypeOK' /\ SeenBounds'
<1> USE DEF network, queue
<1>1. /\ UNCHANGED <<sent, keys, flying, newest, take, loop, output, stop>>
      /\ got' \in {got, Nothing}
      /\ commands' \in {commands, FALSE}
  BY DEF PumpEnds, PumpTakesCommands, PumpChecksCommands, PumpPublishes, PumpTells
<1>2. /\ newest' \in newest .. sent /\ newest' \in 0 .. sent
      /\ OutputTyped
  BY <1>1, OutputStep DEF TypeOK
<1>3. /\ pump' \in {"commands", "read", "check", "publish", "tell", "tellThenRead", "ended"}
      /\ EnterSyncRecovery \/ UNCHANGED assembler
      /\ AskTypes /\ QueueTyped
  <2>1. CASE PumpEnds
    <3>1. pump' = "ended" /\ UNCHANGED <<events, assembler, pli, recent, missed>>
      BY <2>1 DEF PumpEnds
    <3> QED  BY <3>1, QueueStep, AskStep DEF DoNotAsk
  <2>2. CASE PumpTakesCommands
    <3>1. CASE commands
      <4>1. events' = <<Reset>> /\ RequestKeyframe("read", "tellThenRead")
        BY <2>2, <3>1 DEF PumpTakesCommands
      <4> QED  BY <4>1, QueueStep, RequestTypes
    <3>2. CASE ~commands
      <4>1. events' = events /\ pump' = "read" /\ DoNotAsk /\ UNCHANGED assembler
        BY <2>2, <3>2 DEF PumpTakesCommands
      <4> QED  BY <4>1, QueueStep, AskStep
    <3> QED  BY <3>1, <3>2
  <2>3. CASE PumpChecksCommands
    <3>1. CASE commands
      <4>1. events' = <<Reset>> /\ RequestKeyframe("commands", "tell")
        BY <2>3, <3>1 DEF PumpChecksCommands
      <4> QED  BY <4>1, QueueStep, RequestTypes
    <3>2. CASE ~commands
      <4>1. events' = events /\ pump' = "publish" /\ DoNotAsk /\ UNCHANGED assembler
        BY <2>3, <3>2 DEF PumpChecksCommands
      <4> QED  BY <4>1, QueueStep, AskStep
    <3> QED  BY <3>1, <3>2
  <2>4. CASE PumpPublishes
    <3>1. CASE PushFrame /\ IsFull
      <4>1. events' = <<Overrun>> /\ RequestKeyframe("commands", "tell")
        BY <3>1 DEF PushFrame
      <4> QED  BY <4>1, QueueStep, RequestTypes
    <3>2. CASE PushFrame /\ ~IsFull
      <4>1. /\ got \in Sent /\ events' = Append(events, Frame(got))
            /\ pump' = "commands" /\ DoNotAsk /\ UNCHANGED assembler
        BY <3>2 DEF PushFrame
      <4>2. got \in 0 .. sent
        BY <4>1 DEF TypeOK, Sent
      <4>3. Frame(got) \in Queued
        BY <4>2, QueueTypes
      <4>4. QueueTyped
        BY <3>2, <4>1, <4>3, QueueStep
      <4> QED  BY <4>1, <4>4, AskStep
    <3>3. CASE PushFailure
      <4>1. events' = <<Reset>> /\ RequestKeyframe("tell", "tell")
        BY <3>3 DEF PushFailure
      <4> QED  BY <4>1, QueueStep, RequestTypes
    <3>4. CASE PushNothing
      BY <3>4, QueueStep, AskStep DEF PushNothing
    <3> QED  BY <2>4, <3>1, <3>2, <3>3, <3>4 DEF PumpPublishes
  <2>5. CASE PumpTells
    <3>1. /\ pump \in {"tell", "tellThenRead"} /\ pump' \in {"commands", "read"}
          /\ UNCHANGED <<assembler, pli, recent, missed>>
          /\ events' = Append(IF IsFull THEN Tail(events) ELSE events, Error)
      BY <2>5 DEF PumpTells
    <3>2. ~IsFull
      <4>1. Len(events) <= 1 /\ Len(events) \in Nat /\ QueueCapacity \in Nat /\ QueueCapacity > 1
        BY <3>1, QueueTypes DEF TellsOfBreak
      <4> QED  BY <4>1 DEF IsFull
    <3>3. events' = Append(events, Error) /\ Error \in Queued
      BY <3>1, <3>2, QueueTypes
    <3> QED  BY <3>1, <3>2, <3>3, QueueStep, AskStep DEF DoNotAsk
  <2> QED  BY <2>1, <2>2, <2>3, <2>4, <2>5
<1>4. AssemblerTyped
  BY <1>1, <1>2, <1>3, AssemblerStep
<1>5. ControlTyped
  BY <1>1, <1>3 DEF ControlTyped, TypeOK
<1> QED  BY <1>1, <1>2, <1>3, <1>4, <1>5, TypesCompose

(* What the decode loop does with the head of the queue. *)
LoopTakes == LoopRefuses \/ LoopSkips \/ LoopDecodes \/ LoopResets

LEMMA TakesEvents ==
  ASSUME TypeOK, LoopTakes
  PROVE  /\ events # <<>> /\ loop = "wait"
         /\ UNCHANGED <<network, pli, newest, assembler, take, recent, pump, got, stop, missed,
                        commands>>
         /\ \/ events' = <<Reset>> /\ loop' = "asks" /\ needsSync' = TRUE
            \/ /\ events' = Tail(events) /\ loop' \in {"wait", "joins"}
               /\ \/ LoopSkips \/ LoopResets
                  \/ LoopDecodes /\ needsSync' = FALSE
BY DEF LoopTakes, LoopRefuses, LoopSkips, LoopDecodes, LoopResets, Take, Fails, RequireSync

LEMMA LoopTypes ==
  ASSUME TypeOK, SeenBounds, Loop
  PROVE  TypeOK' /\ SeenBounds'
<1> USE DEF network, queue
<1>1. CASE LoopTakes
  <2>1. /\ UNCHANGED <<sent, keys, flying, newest, assembler, got>>
        /\ UNCHANGED <<take, pump, stop, commands, pli, recent, missed>>
        /\ loop' \in {"wait", "asks", "joins"}
        /\ events # <<>> /\ events' \in {<<Reset>>, Tail(events)}
    BY <1>1, TakesEvents
  <2>2. newest' \in newest .. sent /\ newest' \in 0 .. sent
    BY <2>1 DEF TypeOK
  <2>3. AssemblerTyped /\ QueueTyped /\ AskTypes
    BY <2>1, <2>2, AssemblerStep, QueueStep, AskStep DEF DoNotAsk
  <2>4. ControlTyped
    BY <2>1 DEF ControlTyped, TypeOK
  <2>5. OutputTyped
    <3>1. /\ registered \in 0 .. MaxRegistered /\ MaxRegistered \in Nat
          /\ begun \in BOOLEAN /\ needsSync \in BOOLEAN /\ decoded \in 0 .. sent
      BY PipelineAssumption DEF TypeOK
    <3>2. Head(events) \in Queued
      BY <2>1, QueueTypes
    <3>3. Head(events).picture \in 0 .. sent
      BY <3>2 DEF Queued
    <3>4. needsSync' \in {needsSync, TRUE, FALSE} /\ decoded' \in {decoded, Head(events).picture}
      BY <1>1 DEF LoopTakes, LoopRefuses, LoopSkips, LoopDecodes, LoopResets, Fails, RequireSync
    <3>5. begun' \in {begun, TRUE, FALSE}
      BY <1>1 DEF LoopTakes, LoopRefuses, LoopSkips, LoopDecodes, LoopResets, Fails, RequireSync
    <3>6. registered' \in {registered, 0} \/ (Registers /\ registered' = registered + 1)
      BY <1>1 DEF LoopTakes, LoopRefuses, LoopSkips, LoopDecodes, LoopResets, Fails, RequireSync
    <3>7. registered' \in 0 .. MaxRegistered
      BY <3>1, <3>6 DEF Registers
    <3> QED  BY <3>1, <3>3, <3>4, <3>5, <3>7 DEF OutputTyped
  <2> QED  BY <2>1, <2>2, <2>3, <2>4, <2>5, TypesCompose
<1>2. CASE LoopAsks \/ LoopLeaves \/ LoopEnds
  <2>1. /\ UNCHANGED <<sent, keys, flying, newest, assembler, got, events, output>>
        /\ UNCHANGED <<take, pump, stop, pli, recent, missed>>
        /\ loop' \in {"wait", "joins", "done"} /\ commands' \in {commands, TRUE, FALSE}
    BY <1>2 DEF LoopAsks, LoopLeaves, LoopEnds
  <2>2. newest' \in newest .. sent /\ newest' \in 0 .. sent
    BY <2>1 DEF TypeOK
  <2>3. AssemblerTyped /\ QueueTyped /\ AskTypes /\ OutputTyped
    BY <2>1, <2>2, AssemblerStep, QueueStep, AskStep, OutputStep DEF DoNotAsk
  <2>4. ControlTyped
    BY <2>1 DEF ControlTyped, TypeOK
  <2> QED  BY <2>1, <2>2, <2>3, <2>4, TypesCompose
<1> QED  BY <1>1, <1>2 DEF Loop, LoopTakes

-----------------------------------------------------------------------------
(* A break is no frame. *)
LEMMA BreaksAreNoFrames == ~IsFrame(Reset) /\ ~IsFrame(Overrun) /\ ~IsFrame(Error)
BY DEF IsFrame, Reset, Overrun, Error, Event

LEMMA NoPictures == Nothing \notin Sent /\ Failure \notin Sent
BY DEF Nothing, Failure, Sent

(* The chain. *)
LEMMA ChainSame ==
  ASSUME Chain, keys \subseteq keys', needsSync' = needsSync, decoded' = decoded,
         events' = events, UNCHANGED assembler,
         got' = got \/ (got \notin Sent /\ got' \notin Sent)
  PROVE  Chain'
<1> USE DEF Links, assembler
<1>1. HeadFollows' /\ QueueFollows'
  BY DEF Chain, HeadFollows, QueueFollows
<1>2. GotFollows'
  BY DEF Chain, GotFollows, Last
<1>3. ReleasedIsLast'
  BY DEF Chain, ReleasedIsLast, Last
<1>4. SyncIsCut'
  BY DEF Chain, SyncIsCut, Last
<1> QED  BY <1>1, <1>2, <1>3, <1>4 DEF Chain

(* A picture handed on is the one after the picture released last, or the  *)
(* key picture awaited.                                                    *)
HandsOnNext ==
  /\ awaitingSync' = FALSE
  /\ \/ got' = Nothing /\ ~awaitingSync /\ released' = released
     \/ /\ got' \in Sent /\ got' = released'
        /\ IF awaitingSync THEN got' \in keys ELSE got' = released + 1

LEMMA ChainCut ==
  ASSUME Chain, events' = <<Reset>> \/ events' = <<Overrun>>,
         \/ got' \notin Sent /\ (EnterSyncRecovery \/ UNCHANGED assembler)
         \/ got' = got /\ UNCHANGED assembler
         \/ HandsOnNext
  PROVE  Chain'
<1>1. Len(events') = 1 /\ ~IsFrame(events'[1]) /\ events' # <<>> /\ ~IsFrame(Last')
  BY BreaksAreNoFrames DEF Last
<1>2. HeadFollows' /\ QueueFollows' /\ GotFollows'
  BY <1>1 DEF HeadFollows, QueueFollows, GotFollows
<1>3. ReleasedIsLast'
  <2>1. ~awaitingSync' /\ got' \in Sent => got' = released'
    <3>1. CASE got' \notin Sent
      BY <3>1
    <3>2. CASE got' = got /\ UNCHANGED assembler
      BY <3>2 DEF Chain, ReleasedIsLast, assembler
    <3>3. CASE HandsOnNext
      BY <3>3 DEF HandsOnNext, Nothing, Sent
    <3> QED  BY <3>1, <3>2, <3>3
  <2> QED  BY <1>1, <2>1 DEF ReleasedIsLast
<1>4. SyncIsCut'
  <2>1. awaitingSync' => pending' = {} /\ got' \notin Sent
    BY DEF Chain, SyncIsCut, EnterSyncRecovery, assembler, HandsOnNext
  <2> QED  BY <1>1, <2>1 DEF SyncIsCut
<1> QED  BY <1>2, <1>3, <1>4 DEF Chain

LEMMA ChainHands ==
  ASSUME TypeOK, Chain, got = Nothing, HandsOnNext, keys' = keys, events' = events,
         needsSync' = needsSync, decoded' = decoded
  PROVE  Chain'
<1> USE DEF Links
<1>1. got \notin Sent /\ Nothing \notin Sent
  BY DEF Nothing, Sent
<1>2. HeadFollows' /\ QueueFollows'
  BY DEF Chain, HeadFollows, QueueFollows
<1>3. GotFollows'
  <2> SUFFICES ASSUME got' \in Sent
               PROVE  IF events = <<>> THEN needsSync \/ Links(decoded, got')
                      ELSE IsFrame(Last) => Links(Last.picture, got')
    BY DEF GotFollows, Last
  <2>1. CASE awaitingSync
    BY <1>1, <2>1 DEF HandsOnNext
  <2>2. CASE ~awaitingSync
    BY <1>1, <2>2 DEF HandsOnNext, Chain, ReleasedIsLast
  <2> QED  BY <2>1, <2>2
<1>4. ReleasedIsLast'
  BY <1>1 DEF Chain, ReleasedIsLast, HandsOnNext, Last
<1>5. SyncIsCut'
  BY DEF SyncIsCut, HandsOnNext
<1> QED  BY <1>2, <1>3, <1>4, <1>5 DEF Chain

(* A picture is published behind what is queued; so is an error. *)
LEMMA ChainAppend ==
  ASSUME TypeOK, Chain, UNCHANGED <<keys, needsSync, decoded, assembler>>,
         NEW e \in Queued, events' = Append(events, e), got' = Nothing \/ got' = got,
         IF IsFrame(e) THEN got \in Sent /\ e.picture = got /\ got' = Nothing ELSE got \notin Sent
  PROVE  Chain'
<1> USE DEF Links
<1>1. /\ Len(events) \in Nat /\ Len(events') = Len(events) + 1
      /\ \A i \in 1 .. Len(events) : events'[i] = events[i]
      /\ events'[Len(events) + 1] = e /\ events' # <<>>
      /\ events # <<>> => Len(events) >= 1
  BY QueueTypes
<1>2. Last' = e
  BY <1>1 DEF Last
<1>3. got' \notin Sent
  BY DEF Nothing, Sent
<1>4. HeadFollows'
  <2>1. CASE events = <<>>
    BY <1>1, <2>1 DEF HeadFollows, Chain, GotFollows
  <2>2. CASE events # <<>>
    BY <1>1, <2>2 DEF HeadFollows, Chain
  <2> QED  BY <2>1, <2>2
<1>5. QueueFollows'
  <2> SUFFICES ASSUME NEW i \in 1 .. Len(events), IsFrame(events'[i]), IsFrame(events'[i + 1])
               PROVE  Links(events'[i].picture, events'[i + 1].picture)
    BY <1>1 DEF QueueFollows
  <2>1. CASE i = Len(events)
    <3>1. events # <<>> /\ events'[i] = Last /\ events'[i + 1] = e
      BY <1>1, <2>1 DEF Last
    <3> QED  BY <3>1 DEF Chain, GotFollows
  <2>2. CASE i < Len(events)
    BY <1>1, <2>2 DEF Chain, QueueFollows
  <2> QED  BY <1>1, <2>1, <2>2
<1>6. GotFollows'
  BY <1>3 DEF GotFollows
<1>7. ReleasedIsLast'
  <2> SUFFICES ASSUME ~awaitingSync, IsFrame(e) PROVE e.picture = released
    BY <1>1, <1>2, <1>3 DEF ReleasedIsLast, assembler
  <2> QED  BY DEF Chain, ReleasedIsLast
<1>8. SyncIsCut'
  BY <1>2, <1>3 DEF Chain, SyncIsCut, assembler
<1> QED  BY <1>4, <1>5, <1>6, <1>7, <1>8 DEF Chain

(* The decode loop takes the head: it skips a picture while it needs a key *)
(* picture, decodes it, or comes to need a key picture.                    *)
LEMMA ChainTake ==
  ASSUME TypeOK, Chain, UNCHANGED <<keys, got, awaitingSync, pending, released>>,
         events # <<>>, events' = Tail(events),
         \/ needsSync' = TRUE
         \/ IsFrame(events[1]) /\ decoded' = events[1].picture
  PROVE  Chain'
<1> USE DEF Links
<1>1. /\ Len(events) \in Nat /\ Len(events) >= 1 /\ Len(events') = Len(events) - 1
      /\ \A i \in 1 .. Len(events) - 1 : events'[i] = events[i + 1]
      /\ IF events' = <<>> THEN Len(events) = 1 ELSE Len(events') >= 1
  <2>1. /\ Len(events) \in Nat /\ Len(events) >= 1 /\ Len(events') = Len(events) - 1
        /\ \A i \in 1 .. Len(events) - 1 : events'[i] = events[i + 1]
        /\ events' \in Seq(Queued)
    BY QueueTypes
  <2>2. events' = <<>> <=> Len(events') = 0
    BY <2>1, EmptySeq
  <2> QED  BY <2>1, <2>2
<1>2. events' # <<>> => Last' = Last
  <2> SUFFICES ASSUME events' # <<>> PROVE events'[Len(events')] = events[Len(events)]
    BY DEF Last
  <2>1. Len(events') \in 1 .. Len(events) - 1 /\ Len(events') + 1 = Len(events)
    BY <1>1
  <2> QED  BY <1>1, <2>1
<1>3. events' = <<>> => Last = events[1]
  BY <1>1 DEF Last
<1>4. HeadFollows'
  <2> SUFFICES ASSUME events' # <<>>, IsFrame(events'[1]), ~needsSync'
               PROVE  Links(decoded', events'[1].picture)
    BY DEF HeadFollows
  <2>1. events'[1] = events[2] /\ 1 \in 1 .. Len(events) - 1
    BY <1>1
  <2> QED  BY <2>1 DEF Chain, QueueFollows
<1>5. QueueFollows'
  <2> SUFFICES ASSUME NEW i \in 1 .. Len(events') - 1, IsFrame(events'[i]), IsFrame(events'[i + 1])
               PROVE  Links(events'[i].picture, events'[i + 1].picture)
    BY DEF QueueFollows
  <2>1. events'[i] = events[i + 1] /\ events'[i + 1] = events[i + 1 + 1] /\ i + 1 \in 1 .. Len(events) - 1
    BY <1>1
  <2> QED  BY <2>1 DEF Chain, QueueFollows
<1>6. GotFollows'
  BY <1>2, <1>3 DEF GotFollows, Chain
<1>7. ReleasedIsLast'
  BY <1>2, <1>3 DEF ReleasedIsLast, Chain
<1>8. SyncIsCut'
  BY <1>2 DEF SyncIsCut, Chain
<1> QED  BY <1>4, <1>5, <1>6, <1>7, <1>8 DEF Chain

LEMMA EnvironmentChain ==
  ASSUME IInv, Environment
  PROVE  Chain' /\ GotIsFresh' /\ TellsOfBreak'
<1> USE DEF network, assembler, queue, output
<1> USE DEF ServerSends, PacketIsLost, RequestIsLost, IntervalPasses, StopRequested, RecordingStarts
<1>1. /\ UNCHANGED <<events, needsSync, decoded, awaitingSync, pending, released, got, pump>>
      /\ keys' \in {keys, keys \cup {sent + 1}}
      /\ take' \in {take, "armed"}
  BY DEF Environment
<1>2. Chain'
  BY <1>1, ChainSame DEF IInv
<1>3. GotIsFresh'
  <2>1. got' \in keys' => got \in keys
    BY <1>1 DEF IInv, TypeOK
  <2> QED  BY <1>1, <2>1 DEF GotIsFresh, IInv
<1>4. TellsOfBreak'
  BY <1>1 DEF TellsOfBreak, IInv
<1> QED  BY <1>2, <1>3, <1>4

LEMMA HandsOnIsNext ==
  ASSUME TypeOK, NEW n \in 0 .. sent, HandsOn(n)
  PROVE  HandsOnNext
<1>1. sent \in 0 .. Pictures /\ Pictures \in Nat
  BY PipelineAssumption DEF TypeOK
<1>2. \A p \in 1 .. n : p \in Sent
  BY <1>1 DEF Sent
<1> QED  BY <1>2 DEF HandsOn, HandsOnNext

LEMMA ReadChain ==
  ASSUME IInv, Read
  PROVE  Chain' /\ GotIsFresh' /\ TellsOfBreak'
<1> USE DEF network, queue
<1>1. TypeOK /\ SeenBounds /\ Chain /\ GotIsFresh /\ SyncIsCut
  BY DEF IInv, Chain
<1>2. pump' = "check" /\ pump = "read" /\ got = Nothing
      /\ keys' = keys /\ needsSync' = needsSync /\ decoded' = decoded
  <2>1. pump = "read"
    BY DEF Read, ReadReady, ReadNothing, ReadFails, ReadAccepted, ReadAndAskFails, ReadPacket
  <2>2. got = Nothing
    BY <1>1, <2>1 DEF GotIsFresh
  <2>3. CASE ReadReady \/ ReadNothing \/ ReadFails
    BY <2>1, <2>2, <2>3 DEF ReadReady, ReadNothing, ReadFails, output
  <2>4. CASE \E r \in Runs : ReadAccepted(r) \/ ReadAndAskFails(r)
    BY <2>1, <2>2, <2>4 DEF ReadAccepted, ReadAndAskFails, ReadPacket, output
  <2> QED  BY <2>3, <2>4 DEF Read
<1>3. TellsOfBreak'
  BY <1>2 DEF TellsOfBreak
<1>4. Chain' /\ (got' \in keys => take' # "asked")
  <2> USE DEF output
  <2>1. CASE ReadReady
    <3>1. /\ ~awaitingSync /\ awaitingSync' = awaitingSync /\ events' = events
          /\ Expected \in pending /\ got' = Expected /\ released' = Expected
          /\ take' = Carries(take, Expected)
      BY <2>1 DEF ReadReady, IsReady
    <3>2. Expected \in Sent
      <4>1. pending \subseteq 1 .. sent /\ sent \in 0 .. Pictures
        BY <1>1 DEF TypeOK
      <4> QED  BY <3>1, <4>1, PipelineAssumption DEF Sent
    <3>3. HandsOnNext
      BY <3>1, <3>2, <1>1 DEF HandsOnNext, Expected, TypeOK
    <3> QED  BY <1>1, <1>2, <3>1, <3>3, ChainHands DEF Carries
  <2>2. CASE ReadNothing \/ ReadFails
    <3>1. got' \in {Nothing, Failure} /\ events' = events /\ UNCHANGED assembler
      BY <2>2 DEF ReadNothing, ReadFails
    <3>2. got' \notin Sent /\ got \notin Sent
      BY <1>2, <3>1, NoPictures
    <3>3. got' \notin keys
      BY <1>1, <3>1 DEF TypeOK, Nothing, Failure
    <3> QED  BY <1>1, <1>2, <3>1, <3>2, <3>3, ChainSame
  <2>3. ASSUME NEW r \in Runs, ReadAccepted(r)
        PROVE  Chain' /\ (got' \in keys => take' # "asked")
    <3>1. take' = Carries(Asked, got')
      BY <2>3 DEF ReadAccepted
    <3>2. /\ newest' \in newest .. sent
          /\ \/ got' = Nothing /\ EnterSyncRecovery /\ events' = <<Reset>>
             \/ /\ events' \in {events, <<Reset>>}
                /\ (got' = Nothing /\ UNCHANGED assembler) \/ HandsOn(newest')
      BY <1>1, <1>2, <2>3, AcceptedStep
    <3>3. newest' \in 0 .. sent
      BY <1>1, <3>2 DEF TypeOK
    <3>4. ASSUME HandsOn(newest') /\ events' \in {events, <<Reset>>} PROVE Chain'
      <4>1. HandsOnNext
        BY <1>1, <3>3, <3>4, HandsOnIsNext
      <4> QED  BY <1>1, <1>2, <3>4, <4>1, ChainHands, ChainCut
    <3>5. ASSUME got' = Nothing /\ events' = <<Reset>> /\ (EnterSyncRecovery \/ UNCHANGED assembler)
          PROVE  Chain'
      BY <1>1, <3>5, ChainCut, NoPictures
    <3>6. ASSUME got' = Nothing /\ events' = events /\ UNCHANGED assembler
          PROVE  Chain'
      BY <1>1, <1>2, <3>6, ChainSame
    <3>7. Chain'
      BY <3>2, <3>4, <3>5, <3>6
    <3> QED  BY <3>1, <3>7 DEF Carries
  <2>4. ASSUME NEW r \in Runs, ReadAndAskFails(r)
        PROVE  Chain' /\ (got' \in keys => take' # "asked")
    <3>1. /\ got' = Failure
          /\ \/ events' = events /\ UNCHANGED assembler
             \/ events' = <<Reset>> /\ (EnterSyncRecovery \/ UNCHANGED assembler)
      BY <2>4 DEF ReadAndAskFails
    <3>2. got' \notin Sent /\ got \notin Sent
      BY <1>2, <3>1, NoPictures
    <3>3. got' \notin keys
      BY <1>1, <3>1 DEF TypeOK, Failure
    <3>4. ASSUME events' = events /\ UNCHANGED assembler PROVE Chain'
      BY <1>1, <1>2, <3>2, <3>4, ChainSame
    <3>5. ASSUME events' = <<Reset>> /\ (EnterSyncRecovery \/ UNCHANGED assembler)
          PROVE  Chain'
      BY <1>1, <3>2, <3>5, ChainCut
    <3> QED  BY <3>1, <3>3, <3>4, <3>5
  <2> QED  BY <2>1, <2>2, <2>3, <2>4 DEF Read
<1>5. GotIsFresh'
  BY <1>2, <1>4 DEF GotIsFresh
<1> QED  BY <1>3, <1>4, <1>5

(* A break that is queued alone may have an error told behind it. *)
LEMMA TellsOfOne ==
  ASSUME events' = <<Reset>> \/ events' = <<Overrun>>
  PROVE  TellsOfBreak'
<1>1. Len(events') = 1 /\ ~IsFrame(events'[1]) /\ events' # <<>>
  BY BreaksAreNoFrames
<1> QED  BY <1>1 DEF TellsOfBreak

LEMMA PumpChain ==
  ASSUME IInv, PumpEnds \/ PumpTakesCommands \/ PumpChecksCommands \/ PumpPublishes \/ PumpTells
  PROVE  Chain' /\ GotIsFresh' /\ TellsOfBreak'
<1> USE DEF network, queue
<1>1. TypeOK /\ Chain /\ GotIsFresh /\ TellsOfBreak
  BY DEF IInv
<1>2. keys' = keys /\ needsSync' = needsSync /\ decoded' = decoded /\ take' = take
  BY DEF PumpEnds, PumpTakesCommands, PumpChecksCommands, PumpPublishes, PumpTells, output
<1>3. GotIsFresh'
  <2>1. \/ got' = Nothing
        \/ got' = got /\ ((pump = "check" /\ pump' = "publish") \/ pump \notin {"check", "publish"})
    BY DEF PumpEnds, PumpTakesCommands, PumpChecksCommands, PumpPublishes, PumpTells
  <2>2. Nothing \notin keys
    BY <1>1 DEF TypeOK, Nothing
  <2> QED  BY <1>1, <1>2, <2>1, <2>2 DEF GotIsFresh
<1>4. Chain' /\ TellsOfBreak'
  <2>1. ASSUME events' = <<Reset>> \/ events' = <<Overrun>>, EnterSyncRecovery, got' = Nothing
        PROVE  Chain' /\ TellsOfBreak'
    BY <1>1, <2>1, ChainCut, TellsOfOne, NoPictures
  <2>2. ASSUME events' = events, UNCHANGED assembler, pump' \notin {"tell", "tellThenRead"},
               got' = got \/ (got \notin Sent /\ got' \notin Sent)
        PROVE  Chain' /\ TellsOfBreak'
    <3>1. Chain'
      BY <1>1, <1>2, <2>2, ChainSame
    <3> QED  BY <2>2, <3>1 DEF TellsOfBreak
  <2>3. CASE PumpEnds
    <3>1. events' = events /\ UNCHANGED assembler /\ got' = got
          /\ pump' \notin {"tell", "tellThenRead"}
      BY <2>3 DEF PumpEnds
    <3> QED  BY <2>2, <3>1
  <2>4. CASE PumpTakesCommands
    <3>1. got = Nothing /\ got' = got
      BY <1>1, <2>4 DEF PumpTakesCommands, GotIsFresh
    <3>2. CASE commands
      <4>1. events' = <<Reset>> /\ EnterSyncRecovery
        BY <2>4, <3>2 DEF PumpTakesCommands, RequestKeyframe
      <4> QED  BY <2>1, <3>1, <4>1
    <3>3. CASE ~commands
      BY <2>2, <2>4, <3>1, <3>3 DEF PumpTakesCommands
    <3> QED  BY <3>2, <3>3
  <2>5. CASE PumpChecksCommands
    <3>1. CASE commands
      <4>1. events' = <<Reset>> /\ EnterSyncRecovery /\ got' = Nothing
        BY <2>5, <3>1 DEF PumpChecksCommands, RequestKeyframe
      <4> QED  BY <2>1, <4>1
    <3>2. CASE ~commands
      <4>1. events' = events /\ UNCHANGED assembler /\ got' = got /\ pump' = "publish"
        BY <2>5, <3>2 DEF PumpChecksCommands
      <4> QED  BY <2>2, <4>1
    <3> QED  BY <3>1, <3>2
  <2>6. CASE PumpPublishes
    <3>1. got' = Nothing
      BY <2>6 DEF PumpPublishes
    <3>2. CASE PushFrame /\ ~IsFull
      <4>1. /\ got \in Sent /\ events' = Append(events, Frame(got))
            /\ pump' = "commands" /\ UNCHANGED assembler
        BY <3>2 DEF PushFrame
      <4>2. Frame(got) \in Queued /\ IsFrame(Frame(got)) /\ Frame(got).picture = got
        <5>1. got \in 0 .. sent
          BY <1>1, <4>1 DEF TypeOK, Sent
        <5> QED  BY <1>1, <5>1, QueueTypes DEF Frame, Event, IsFrame
      <4>3. Chain'
        BY <1>1, <1>2, <3>1, <4>1, <4>2, ChainAppend
      <4> QED  BY <4>1, <4>3 DEF TellsOfBreak
    <3>3. CASE PushFrame /\ IsFull
      <4>1. events' = <<Overrun>> /\ EnterSyncRecovery
        BY <3>3 DEF PushFrame, RequestKeyframe
      <4> QED  BY <2>1, <3>1, <4>1
    <3>4. CASE PushFailure
      <4>1. events' = <<Reset>> /\ EnterSyncRecovery
        BY <3>4 DEF PushFailure, RequestKeyframe
      <4> QED  BY <2>1, <3>1, <4>1
    <3>5. CASE PushNothing
      BY <2>2, <3>1, <3>5, NoPictures DEF PushNothing
    <3> QED  BY <2>6, <3>2, <3>3, <3>4, <3>5 DEF PumpPublishes
  <2>7. CASE PumpTells
    <3>1. /\ pump \in {"tell", "tellThenRead"} /\ pump' \in {"commands", "read"}
          /\ UNCHANGED assembler /\ got' = got
          /\ events' = Append(IF IsFull THEN Tail(events) ELSE events, Error)
      BY <2>7 DEF PumpTells
    <3>2. ~IsFull
      <4>1. Len(events) <= 1 /\ Len(events) \in Nat /\ QueueCapacity \in Nat /\ QueueCapacity > 1
        BY <1>1, <3>1, QueueTypes DEF TellsOfBreak
      <4> QED  BY <4>1 DEF IsFull
    <3>3. events' = Append(events, Error) /\ Error \in Queued
      BY <1>1, <3>1, <3>2, QueueTypes
    <3>4. got \notin Sent
      BY <1>1, <3>1, NoPictures DEF GotIsFresh
    <3>5. Chain'
      BY <1>1, <1>2, <3>1, <3>3, <3>4, ChainAppend, BreaksAreNoFrames
    <3> QED  BY <3>1, <3>5 DEF TellsOfBreak
  <2> QED  BY <2>3, <2>4, <2>5, <2>6, <2>7
<1> QED  BY <1>3, <1>4

LEMMA LoopChain ==
  ASSUME IInv, Loop
  PROVE  Chain' /\ GotIsFresh' /\ TellsOfBreak'
<1> USE DEF network, queue
<1>1. TypeOK /\ Chain /\ GotIsFresh /\ TellsOfBreak
  BY DEF IInv
<1>2. CASE LoopTakes
  <2>1. /\ keys' = keys /\ got' = got /\ take' = take /\ pump' = pump /\ UNCHANGED assembler
        /\ events # <<>>
        /\ \/ events' = <<Reset>>
           \/ /\ events' = Tail(events)
              /\ \/ LoopSkips \/ LoopResets
                 \/ LoopDecodes /\ needsSync' = FALSE
    BY <1>1, <1>2, TakesEvents
  <2>2. GotIsFresh'
    BY <1>1, <2>1 DEF GotIsFresh
  <2>3. CASE events' = <<Reset>>
    BY <1>1, <2>1, <2>2, <2>3, ChainCut, TellsOfOne
  <2>4. CASE /\ events' = Tail(events)
             /\ LoopSkips \/ LoopResets \/ (LoopDecodes /\ needsSync' = FALSE)
    <3>1. /\ Len(events) \in Nat /\ Len(events) >= 1 /\ Len(Tail(events)) = Len(events) - 1
          /\ Head(events) = events[1] /\ 1 \in 1 .. Len(events)
      BY <1>1, <2>1, QueueTypes
    <3>2. \/ needsSync' = TRUE
          \/ IsFrame(events[1]) /\ decoded' = events[1].picture
      <4>1. CASE LoopSkips
        BY <1>1, <4>1 DEF LoopSkips, NeedsKey, TypeOK
      <4>2. CASE LoopResets
        BY <4>2 DEF LoopResets, RequireSync
      <4>3. CASE LoopDecodes
        BY <3>1, <4>3 DEF LoopDecodes, Take, IsFrame
      <4> QED  BY <2>4, <4>1, <4>2, <4>3
    <3>3. Chain'
      <4>1. awaitingSync' = awaitingSync /\ pending' = pending /\ released' = released
        BY <2>1 DEF assembler
      <4> QED  BY <1>1, <2>1, <2>4, <3>2, <4>1, ChainTake
    <3>4. TellsOfBreak'
      <4>1. ASSUME pump \in {"tell", "tellThenRead"}
            PROVE  Len(events') = 0 /\ needsSync' = TRUE
        <5>1. Len(events) <= 1 /\ \A i \in 1 .. Len(events) : ~IsFrame(events[i])
          BY <1>1, <4>1 DEF TellsOfBreak
        <5>2. Len(events) = 1
          <6>1. Len(events) \in Nat /\ Len(events) >= 1 /\ Len(events) <= 1
            BY <3>1, <5>1
          <6> QED  BY <6>1
        <5>3. ~IsFrame(events[1])
          BY <3>1, <5>1
        <5>4. Len(events') = 0
          BY <2>4, <3>1, <5>2
        <5> QED  BY <3>2, <5>3, <5>4
      <4> SUFFICES ASSUME pump' \in {"tell", "tellThenRead"}
                   PROVE  /\ Len(events') <= 1
                          /\ \A i \in 1 .. Len(events') : ~IsFrame(events'[i])
                          /\ needsSync' = TRUE
        BY DEF TellsOfBreak
      <4>2. Len(events') = 0 /\ needsSync' = TRUE
        BY <2>1, <4>1
      <4>3. 1 .. 0 = {}
        OBVIOUS
      <4> QED  BY <4>2, <4>3
    <3> QED  BY <2>2, <3>3, <3>4
  <2> QED  BY <2>1, <2>3, <2>4
<1>3. CASE LoopAsks \/ LoopLeaves \/ LoopEnds
  <2>1. /\ keys' = keys /\ got' = got /\ take' = take /\ pump' = pump /\ UNCHANGED assembler
        /\ events' = events /\ needsSync' = needsSync /\ decoded' = decoded
    BY <1>3 DEF LoopAsks, LoopLeaves, LoopEnds, output
  <2>2. Chain'
    BY <1>1, <2>1, ChainSame
  <2>3. GotIsFresh' /\ TellsOfBreak'
    BY <1>1, <2>1 DEF GotIsFresh, TellsOfBreak
  <2> QED  BY <2>2, <2>3
<1> QED  BY <1>2, <1>3 DEF Loop, LoopTakes

-----------------------------------------------------------------------------
(* The invariant. *)
LEMMA InitIInv == Init => IInv
<1> SUFFICES ASSUME Init PROVE IInv
  OBVIOUS
<1>1. TypeOK
  <2>1. Cardinality({}) = 0 /\ MaxPending \in Nat /\ MaxRegistered \in Nat /\ QueueCapacity \in Nat
        /\ Pictures \in Nat
    BY PipelineAssumption, FS_EmptySet
  <2>2. events \in Seq([kind : {"frame", "reset", "overrun", "error"}, picture : 0 .. sent])
        /\ Len(events) = 0
    BY DEF Init
  <2>3. /\ sent \in 0 .. Pictures /\ keys \subseteq 1 .. sent /\ flying \subseteq 1 .. sent
        /\ newest \in 0 .. sent /\ released \in 0 .. sent /\ got \in -1 .. sent
        /\ decoded \in 0 .. sent /\ registered \in 0 .. MaxRegistered
        /\ pending \subseteq 1 .. sent /\ Cardinality(pending) <= MaxPending
        /\ Len(events) <= QueueCapacity
    BY <2>1, <2>2 DEF Init, None, Nothing
  <2> QED  BY <2>2, <2>3 DEF Init, TypeOK
<1>2. SeenBounds /\ GotIsFresh /\ TellsOfBreak
  BY DEF Init, SeenBounds, GotIsFresh, TellsOfBreak, None, Nothing
<1>3. Chain
  BY NoPictures
     DEF Init, Chain, HeadFollows, QueueFollows, GotFollows, ReleasedIsLast, SyncIsCut, Nothing
<1> QED  BY <1>1, <1>2, <1>3 DEF IInv

LEMMA NextIInv == IInv /\ [Next]_vars => IInv'
<1> SUFFICES ASSUME IInv, [Next]_vars PROVE IInv'
  OBVIOUS
<1>1. TypeOK /\ SeenBounds /\ Chain /\ SyncIsCut /\ GotIsFresh /\ TellsOfBreak
  BY DEF IInv, Chain
<1>2. CASE Environment
  BY <1>1, <1>2, EnvironmentTypes, EnvironmentChain DEF IInv
<1>3. CASE Read
  BY <1>1, <1>3, ReadTypes, ReadChain DEF IInv
<1>4. CASE PumpEnds \/ PumpTakesCommands \/ PumpChecksCommands \/ PumpPublishes \/ PumpTells
  BY <1>1, <1>4, PumpTypes, PumpChain DEF IInv
<1>5. CASE Loop
  BY <1>1, <1>5, LoopTypes, LoopChain DEF IInv
<1>6. CASE UNCHANGED vars
  <2> USE <1>6 DEF vars, network, assembler, queue, output
  <2>1. TypeOK'
    BY <1>1 DEF TypeOK
  <2>2. SeenBounds' /\ GotIsFresh' /\ TellsOfBreak'
    BY <1>1 DEF SeenBounds, GotIsFresh, TellsOfBreak
  <2>3. Chain'
    BY <1>1, ChainSame
  <2> QED  BY <2>1, <2>2, <2>3 DEF IInv
<1> QED  BY <1>2, <1>3, <1>4, <1>5, <1>6 DEF Next, Pump

LEMMA Invariant == Spec => []IInv
BY InitIInv, NextIInv, PTL DEF Spec

(* Every variable of the pipeline has its type; above all the queue never  *)
(* holds more than its capacity, the assembler never holds more pictures   *)
(* than it may, and the decoder's output never more than it may.           *)
THEOREM TypesHold == Spec => []TypeOK
<1>1. IInv => TypeOK
  BY DEF IInv
<1> QED  BY <1>1, Invariant, PTL

(* A picture is submitted to the decoder only if it is a key picture or    *)
(* follows the one submitted before it, whatever was lost, reset, refused  *)
(* or dropped in between.                                                  *)
LEMMA DecodeFollows ==
  ASSUME IInv, [Next]_vars, decoded' # decoded
  PROVE  decoded' \in keys \/ decoded' = decoded + 1
<1> USE DEF network, assembler, queue, output
<1>1. LoopDecodes
  <2>1. ~Environment
    BY DEF Environment, ServerSends, PacketIsLost, RequestIsLost, IntervalPasses, StopRequested,
           RecordingStarts
  <2>2. ~Read
    BY DEF Read, ReadReady, ReadNothing, ReadFails, ReadAccepted, ReadAndAskFails, ReadPacket
  <2>3. ~(PumpEnds \/ PumpTakesCommands \/ PumpChecksCommands \/ PumpPublishes \/ PumpTells)
    BY DEF PumpEnds, PumpTakesCommands, PumpChecksCommands, PumpPublishes, PumpTells
  <2>4. ~(LoopRefuses \/ LoopSkips \/ LoopResets \/ LoopAsks \/ LoopLeaves \/ LoopEnds)
    BY DEF LoopRefuses, LoopSkips, LoopResets, LoopAsks, LoopLeaves, LoopEnds
  <2>5. ~UNCHANGED vars
    BY DEF vars
  <2> QED  BY <2>1, <2>2, <2>3, <2>4, <2>5 DEF Next, Pump, Loop
<1>2. /\ events # <<>> /\ Head(events).kind = "frame" /\ decoded' = Head(events).picture
      /\ ~NeedsKey(Head(events).picture)
  BY <1>1 DEF LoopDecodes, Take
<1>3. Head(events) = events[1]
  BY <1>2, QueueTypes DEF IInv
<1>4. CASE needsSync
  BY <1>2, <1>4 DEF NeedsKey
<1>5. CASE ~needsSync
  BY <1>2, <1>3, <1>5 DEF IInv, Chain, HeadFollows, IsFrame, Links
<1> QED  BY <1>4, <1>5

THEOREM DecodesAChain == Spec => DecodesChain
<1>1. IInv /\ [Next]_vars => [decoded' # decoded => decoded' \in keys \/ decoded' = decoded + 1]_vars
  BY DecodeFollows
<1> QED  BY <1>1, Invariant, PTL DEF Spec, DecodesChain

-----------------------------------------------------------------------------
(* Whether whoever decodes the queue q waits for a key picture, where n    *)
(* says that he waits for one already and ks are the key pictures.         *)
Hungry(q, n, ks) ==
  /\ n \/ \E i \in DOMAIN q : q[i].kind # "frame"
  /\ \A i \in DOMAIN q :
       q[i].kind = "frame" /\ q[i].picture \in ks =>
         \E j \in DOMAIN q : j > i /\ q[j].kind # "frame"

LEMMA StarvedIsHungry ==
  /\ Starved <=> Hungry(events, needsSync, keys)
  /\ Starved' <=> Hungry(events', needsSync', keys')
BY DEF Starved, Hungry, Breaks, IsKeyFrame

(* He waited before he took the head if he waits afterwards: what he takes *)
(* is a break, or is decoded, or is skipped because he waits.              *)
LEMMA HungryTail ==
  ASSUME NEW S, NEW q \in Seq(S), q # <<>>, NEW ks, NEW n \in BOOLEAN, NEW m \in BOOLEAN,
         Hungry(Tail(q), m, ks),
         \/ q[1].kind # "frame"
         \/ m = FALSE
         \/ n = TRUE /\ q[1].picture \notin ks
  PROVE  Hungry(q, n, ks)
<1> DEFINE t == Tail(q)
<1>1. /\ Len(q) \in Nat /\ Len(q) >= 1 /\ Len(t) = Len(q) - 1
      /\ \A i \in 1 .. Len(q) - 1 : t[i] = q[i + 1]
      /\ DOMAIN q = 1 .. Len(q) /\ DOMAIN t = 1 .. Len(q) - 1
  <2>1. Len(q) \in Nat /\ DOMAIN q = 1 .. Len(q)
    BY LenProperties
  <2>2. Len(q) \in Nat \ {0}
    BY EmptySeq
  <2>3. /\ t \in Seq(S) /\ Len(t) = Len(q) - 1
        /\ \A i \in 1 .. Len(t) : t[i] = q[i + 1]
    BY HeadTailProperties
  <2>4. DOMAIN t = 1 .. Len(t)
    BY <2>3, LenProperties
  <2> QED  BY <2>1, <2>2, <2>3, <2>4
<1>2. /\ m \/ \E i \in DOMAIN t : t[i].kind # "frame"
      /\ \A i \in DOMAIN t :
           t[i].kind = "frame" /\ t[i].picture \in ks =>
             \E j \in DOMAIN t : j > i /\ t[j].kind # "frame"
  BY DEF Hungry
<1> HIDE DEF t
<1>3. ASSUME NEW j \in DOMAIN t
      PROVE  j + 1 \in DOMAIN q /\ t[j] = q[j + 1] /\ j \in Nat
  BY <1>1
<1>4. n \/ \E i \in DOMAIN q : q[i].kind # "frame"
  <2>1. CASE q[1].kind # "frame"
    BY <1>1, <2>1
  <2>2. CASE m = FALSE
    BY <1>2, <1>3, <2>2
  <2> QED  BY <2>1, <2>2
<1>5. ASSUME NEW i \in DOMAIN q, q[i].kind = "frame" /\ q[i].picture \in ks
      PROVE  \E j \in DOMAIN q : j > i /\ q[j].kind # "frame"
  <2>1. CASE i = 1
    <3>1. PICK j \in DOMAIN t : t[j].kind # "frame"
      BY <1>2, <1>5, <2>1
    <3>2. j + 1 \in DOMAIN q /\ j + 1 > i /\ q[j + 1].kind # "frame"
      BY <1>1, <1>3, <2>1, <3>1
    <3> QED  BY <3>2
  <2>2. CASE i # 1
    <3>1. i - 1 \in DOMAIN t /\ t[i - 1] = q[i] /\ i \in Nat
      BY <1>1, <2>2
    <3>2. PICK j \in DOMAIN t : j > i - 1 /\ t[j].kind # "frame"
      BY <1>2, <1>5, <3>1
    <3>3. j + 1 \in DOMAIN q /\ j + 1 > i /\ q[j + 1].kind # "frame"
      BY <1>3, <3>1, <3>2
    <3> QED  BY <3>3
  <2> QED  BY <2>1, <2>2
<1> QED  BY <1>4, <1>5 DEF Hungry

(* Nobody waits behind a key picture that is published; behind another     *)
(* picture waits who waited before.                                        *)
LEMMA HungryAppend ==
  ASSUME NEW S, NEW q \in Seq(S), NEW e \in S, e.kind = "frame", NEW ks, NEW n \in BOOLEAN,
         Hungry(Append(q, e), n, ks)
  PROVE  e.picture \notin ks /\ Hungry(q, n, ks)
<1> DEFINE a == Append(q, e)
<1>1. /\ Len(q) \in Nat /\ DOMAIN q = 1 .. Len(q) /\ DOMAIN a = 1 .. Len(q) + 1
      /\ \A i \in 1 .. Len(q) : a[i] = q[i]
      /\ a[Len(q) + 1] = e
  <2>1. Len(q) \in Nat /\ DOMAIN q = 1 .. Len(q)
    BY LenProperties
  <2>2. /\ a \in Seq(S) /\ Len(a) = Len(q) + 1
        /\ \A i \in 1 .. Len(q) : a[i] = q[i]
        /\ a[Len(q) + 1] = e
    BY AppendProperties
  <2>3. DOMAIN a = 1 .. Len(a)
    BY <2>2, LenProperties
  <2> QED  BY <2>1, <2>2, <2>3
<1>2. /\ n \/ \E i \in DOMAIN a : a[i].kind # "frame"
      /\ \A i \in DOMAIN a :
           a[i].kind = "frame" /\ a[i].picture \in ks =>
             \E j \in DOMAIN a : j > i /\ a[j].kind # "frame"
  BY DEF Hungry
<1> HIDE DEF a
<1>3. ASSUME NEW j \in DOMAIN a, a[j].kind # "frame"
      PROVE  j \in DOMAIN q /\ a[j] = q[j]
  BY <1>1, <1>3
<1>4. e.picture \notin ks
  <2> SUFFICES ASSUME e.picture \in ks PROVE FALSE
    OBVIOUS
  <2>1. PICK j \in DOMAIN a : j > Len(q) + 1 /\ a[j].kind # "frame"
    BY <1>1, <1>2
  <2> QED  BY <1>1, <2>1
<1>5. n \/ \E i \in DOMAIN q : q[i].kind # "frame"
  BY <1>2, <1>3
<1>6. ASSUME NEW i \in DOMAIN q, q[i].kind = "frame" /\ q[i].picture \in ks
      PROVE  \E j \in DOMAIN q : j > i /\ q[j].kind # "frame"
  <2>1. i \in DOMAIN a /\ a[i] = q[i]
    BY <1>1
  <2>2. PICK j \in DOMAIN a : j > i /\ a[j].kind # "frame"
    BY <1>2, <1>6, <2>1
  <2> QED  BY <1>3, <2>2
<1> QED  BY <1>4, <1>5, <1>6 DEF Hungry

(* Who waits although the queue is the same waited before. *)
LEMMA WaitsSame ==
  ASSUME events' = events, needsSync' = needsSync, keys \subseteq keys',
         awaitingSync' => awaitingSync, take' = "asked" => take = "asked", Waits'
  PROVE  Waits
<1>1. Starved' => Starved
  BY StarvedIsHungry DEF Hungry
<1> QED  BY <1>1 DEF Waits

(* A key picture comes, or somebody is about to ask, or it is known that   *)
(* the server was not asked.                                               *)
Answered == KeyOnItsWay \/ WillAsk \/ missed

LEMMA AskedIsAnswered == IsAsked => Answered'
BY DEF IsAsked, Answered, KeyOnItsWay

LEMMA AnsweredSame ==
  ASSUME Answered, pli' = pli, missed' = missed, keys' = keys, newest' = newest,
         pending' = pending, got' = got, commands' = commands, loop' = loop
  PROVE  Answered'
BY DEF Answered, KeyOnItsWay, WillAsk

(* The environment. *)
LEMMA EnvironmentAnswers ==
  ASSUME IInv, NobodyWaitsUnasked, Environment
  PROVE  NobodyWaitsUnasked'
<1> USE DEF network, assembler, queue, output
<1>1. CASE ServerSends
  <2>1. /\ events' = events /\ needsSync' = needsSync /\ keys \subseteq keys'
        /\ awaitingSync' = awaitingSync /\ take' = take /\ pump' = pump /\ loop' = loop
        /\ newest' = newest /\ pending' = pending /\ got' = got /\ commands' = commands
        /\ missed' = missed
        /\ pli' = pli \/ sent + 1 \in keys'
    BY <1>1 DEF ServerSends
  <2> SUFFICES ASSUME Running', Waits' PROVE Answered'
    BY DEF NobodyWaitsUnasked, Answered
  <2>2. Answered
    BY <2>1, WaitsSame DEF NobodyWaitsUnasked, Running, Answered
  <2>3. CASE sent + 1 \in keys'
    <3>1. sent + 1 > newest'
      BY <2>1 DEF IInv, TypeOK
    <3> QED  BY <2>3, <3>1 DEF Answered, KeyOnItsWay
  <2>4. CASE pli' = pli
    BY <2>1, <2>2, <2>4 DEF Answered, KeyOnItsWay, WillAsk
  <2> QED  BY <2>1, <2>3, <2>4
<1>2. CASE RequestIsLost
  BY <1>2 DEF RequestIsLost, NobodyWaitsUnasked
<1>3. CASE PacketIsLost \/ IntervalPasses \/ StopRequested \/ RecordingStarts
  <2>1. /\ events' = events /\ needsSync' = needsSync /\ keys' = keys
        /\ awaitingSync' = awaitingSync /\ pump' = pump /\ loop' = loop
        /\ newest' = newest /\ pending' = pending /\ got' = got /\ commands' = commands
        /\ missed' = missed /\ pli' = pli
        /\ take' = take \/ take' = "armed"
    BY <1>3 DEF PacketIsLost, IntervalPasses, StopRequested, RecordingStarts
  <2> SUFFICES ASSUME Running', Waits' PROVE Answered'
    BY DEF NobodyWaitsUnasked, Answered
  <2>2. Waits
    BY <2>1, WaitsSame
  <2>3. Answered
    BY <2>1, <2>2 DEF NobodyWaitsUnasked, Running, Answered
  <2> QED  BY <2>1, <2>3, AnsweredSame
<1> QED  BY <1>1, <1>2, <1>3 DEF Environment

LEMMA ReadAnswers ==
  ASSUME IInv, NobodyWaitsUnasked, Read
  PROVE  NobodyWaitsUnasked'
<1> USE DEF network, queue
<1>1. TypeOK /\ SeenBounds /\ Chain /\ GotIsFresh /\ SyncIsCut
  BY DEF IInv, Chain
<1>2. /\ keys' = keys /\ needsSync' = needsSync /\ commands' = commands /\ loop' = loop
      /\ pump = "read" /\ got = Nothing
  <2>1. pump = "read"
    BY DEF Read, ReadReady, ReadNothing, ReadFails, ReadAccepted, ReadAndAskFails, ReadPacket
  <2>2. got = Nothing
    BY <1>1, <2>1 DEF GotIsFresh
  <2>3. CASE ReadReady \/ ReadNothing \/ ReadFails
    BY <2>1, <2>2, <2>3 DEF ReadReady, ReadNothing, ReadFails, output
  <2>4. CASE \E r \in Runs : ReadAccepted(r) \/ ReadAndAskFails(r)
    BY <2>1, <2>2, <2>4 DEF ReadAccepted, ReadAndAskFails, ReadPacket, output
  <2> QED  BY <2>3, <2>4 DEF Read
<1> SUFFICES ASSUME Running', Waits' PROVE Answered'
  BY DEF NobodyWaitsUnasked, Answered
<1>3. Running
  BY <1>2 DEF Running
<1>4. Nothing \notin keys /\ Nothing # Failure
  BY <1>1 DEF TypeOK, Nothing, Failure
<1>5. ASSUME Waits
      PROVE  pli \/ missed \/ commands \/ loop = "asks" \/ \E k \in keys : k > newest \/ k \in pending
  BY <1>2, <1>3, <1>4, <1>5 DEF NobodyWaitsUnasked, KeyOnItsWay, WillAsk
<1>6. CASE ReadReady
  <2>1. /\ events' = events /\ awaitingSync' = awaitingSync /\ newest' = newest
        /\ pending' = pending \ {Expected} /\ got' = Expected
        /\ take' = Carries(take, Expected) /\ pli' = pli /\ missed' = missed
    BY <1>6 DEF ReadReady
  <2>2. Waits
    BY <1>2, <2>1, WaitsSame DEF Carries
  <2>3. KeepsKeys
    BY <2>1 DEF KeepsKeys
  <2> QED  BY <1>2, <1>5, <2>1, <2>2, <2>3 DEF Answered, KeyOnItsWay, WillAsk, KeepsKeys
<1>7. CASE ReadNothing
  <2>1. /\ events' = events /\ newest' = newest /\ UNCHANGED assembler /\ got' = Nothing
        /\ take' = take /\ pli' = pli /\ missed' = missed
    BY <1>7 DEF ReadNothing
  <2>2. Waits
    BY <1>2, <2>1, WaitsSame DEF assembler
  <2> QED  BY <1>2, <1>5, <2>1, <2>2 DEF Answered, KeyOnItsWay, WillAsk, assembler
<1>8. CASE ReadFails
  BY <1>8 DEF ReadFails, Answered, WillAsk
<1>9. ASSUME NEW r \in Runs, ReadAccepted(r) PROVE Answered'
  <2>1. \/ IsAsked
        \/ /\ UNCHANGED <<pli, missed, events>> /\ KeepsKeys
           /\ awaitingSync' \in {awaitingSync, FALSE}
    BY <1>1, <1>2, <1>9, AcceptedStep
  <2>2. CASE IsAsked
    BY <2>2, AskedIsAnswered
  <2>3. CASE /\ UNCHANGED <<pli, missed, events>> /\ KeepsKeys
             /\ awaitingSync' \in {awaitingSync, FALSE} /\ ~IsAsked
    <3>1. take' = "asked" => take = "asked" \/ IsAsked
      <4>1. take' = Carries(Asked, got')
        BY <1>9 DEF ReadAccepted
      <4>2. TakeAsks => AskAndSucceed
        BY <1>9 DEF ReadAccepted
      <4> QED  BY <1>1, <4>1, <4>2, AskStep DEF Carries, Asked
    <3>2. take' = "asked" => take = "asked"
      BY <2>3, <3>1
    <3>3. (awaitingSync' => awaitingSync) /\ events' = events
      <4>1. awaitingSync' = awaitingSync \/ awaitingSync' = FALSE
        BY <2>3
      <4>2. awaitingSync' => awaitingSync
        BY <4>1
      <4>3. events' = events
        BY <2>3
      <4> QED  BY <4>2, <4>3
    <3>4. Waits
      BY <1>2, <3>2, <3>3, WaitsSame
    <3> QED  BY <1>2, <1>5, <2>3, <3>4 DEF Answered, KeyOnItsWay, WillAsk, KeepsKeys
  <2> QED  BY <2>1, <2>2, <2>3
<1>10. ASSUME NEW r \in Runs, ReadAndAskFails(r) PROVE Answered'
  BY <1>10 DEF ReadAndAskFails, AskAndFail, Answered
<1> QED  BY <1>6, <1>7, <1>8, <1>9, <1>10 DEF Read

(* The receive thread. *)
LEMMA PumpAnswers ==
  ASSUME IInv, NobodyWaitsUnasked,
         PumpEnds \/ PumpTakesCommands \/ PumpChecksCommands \/ PumpPublishes \/ PumpTells
  PROVE  NobodyWaitsUnasked'
<1> USE DEF network, queue
<1>1. TypeOK /\ Chain /\ SyncIsCut /\ GotIsFresh /\ TellsOfBreak
  BY DEF IInv, Chain
<1>2. /\ keys' = keys /\ needsSync' = needsSync /\ loop' = loop /\ newest' = newest /\ take' = take
  BY DEF PumpEnds, PumpTakesCommands, PumpChecksCommands, PumpPublishes, PumpTells, output
<1> SUFFICES ASSUME Running', Waits' PROVE Answered'
  BY DEF NobodyWaitsUnasked, Answered
<1>3. ASSUME Waits, pump # "ended" PROVE Answered
  <2>1. Running
    BY <1>2, <1>3 DEF Running
  <2> QED  BY <1>3, <2>1 DEF NobodyWaitsUnasked, Answered
<1>4. ASSUME NEW a, NEW b, RequestKeyframe(a, b) PROVE Answered'
  <2>1. IsAsked
    BY <1>1, <1>4, RequestTypes
  <2> QED  BY <2>1, AskedIsAnswered
<1>5. ASSUME events' = events, UNCHANGED assembler, DoNotAsk, got' = got,
             commands' = commands \/ (~commands /\ commands' = FALSE), pump # "ended"
      PROVE  Answered'
  <2>1. Waits
    BY <1>2, <1>5, WaitsSame DEF assembler
  <2>2. Answered
    BY <1>3, <1>5, <2>1
  <2> QED  BY <1>2, <1>5, <2>2 DEF Answered, KeyOnItsWay, WillAsk, assembler, DoNotAsk
<1>6. CASE PumpEnds
  BY <1>6 DEF PumpEnds, Running
<1>7. CASE PumpTakesCommands
  <2>1. CASE commands
    BY <1>4, <1>7, <2>1 DEF PumpTakesCommands
  <2>2. CASE ~commands
    BY <1>5, <1>7, <2>2 DEF PumpTakesCommands
  <2> QED  BY <2>1, <2>2
<1>8. CASE PumpChecksCommands
  <2>1. CASE commands
    BY <1>4, <1>8, <2>1 DEF PumpChecksCommands
  <2>2. CASE ~commands
    BY <1>5, <1>8, <2>2 DEF PumpChecksCommands
  <2> QED  BY <2>1, <2>2
<1>9. CASE PumpPublishes
  <2>1. got' = Nothing /\ commands' = commands /\ pump = "publish"
    BY <1>9 DEF PumpPublishes
  <2>2. CASE PushFrame /\ ~IsFull
    <3>1. /\ got \in Sent /\ events' = Append(events, Frame(got))
          /\ pump' = "commands" /\ DoNotAsk /\ UNCHANGED assembler
      BY <2>2 DEF PushFrame
    <3>2. Frame(got) \in Queued /\ Frame(got).kind = "frame" /\ Frame(got).picture = got
      <4>1. got \in 0 .. sent
        BY <1>1, <3>1 DEF TypeOK, Sent
      <4> QED  BY <1>1, <4>1, QueueTypes DEF Frame, Event
    <3>3. Starved' => got \notin keys /\ Starved
      <4> SUFFICES ASSUME Starved' PROVE got \notin keys /\ Starved
        OBVIOUS
      <4>1. Hungry(Append(events, Frame(got)), needsSync, keys)
        BY <1>2, <3>1, StarvedIsHungry
      <4>2. events \in Seq(Queued) /\ needsSync \in BOOLEAN
        BY <1>1, QueueTypes DEF TypeOK
      <4>3. got \notin keys /\ Hungry(events, needsSync, keys)
        BY <3>2, <4>1, <4>2, HungryAppend
      <4> QED  BY <4>3, StarvedIsHungry
    <3>4. ~awaitingSync
      BY <1>1, <3>1 DEF SyncIsCut
    <3>5. got \notin keys /\ Waits
      <4>1. CASE Starved'
        BY <3>3, <4>1 DEF Waits
      <4>2. CASE take = "asked"
        BY <1>1, <4>2 DEF Waits, GotIsFresh
      <4> QED  BY <1>2, <3>1, <3>4, <4>1, <4>2 DEF Waits, assembler
    <3>6. Answered
      BY <1>3, <2>1, <3>5
    <3>7. got # Failure
      BY <3>1, NoPictures
    <3> QED  BY <1>2, <2>1, <3>1, <3>5, <3>6, <3>7 DEF Answered, KeyOnItsWay, WillAsk, assembler, DoNotAsk
  <2>3. CASE PushFrame /\ IsFull
    BY <1>4, <2>3 DEF PushFrame
  <2>4. CASE PushFailure
    BY <1>4, <2>4 DEF PushFailure
  <2>5. CASE PushNothing
    BY <1>5, <2>1, <2>5 DEF PushNothing
  <2> QED  BY <1>9, <2>2, <2>3, <2>4, <2>5 DEF PumpPublishes
<1>10. CASE PumpTells
  <2>1. /\ pump \in {"tell", "tellThenRead"} /\ UNCHANGED assembler
        /\ pli' = pli /\ missed' = missed /\ got' = got /\ commands' = commands
    BY <1>10 DEF PumpTells
  <2>2. Starved
    <3>1. /\ Len(events) <= 1 /\ \A i \in 1 .. Len(events) : ~IsFrame(events[i])
          /\ events = <<>> => needsSync
      BY <1>1, <2>1 DEF TellsOfBreak
    <3>2. DOMAIN events = 1 .. Len(events) /\ Len(events) \in Nat
          /\ (events # <<>> => Len(events) >= 1)
      <4>1. events \in Seq(Queued)
        BY <1>1, QueueTypes
      <4>2. DOMAIN events = 1 .. Len(events) /\ Len(events) \in Nat
        BY <4>1, LenProperties
      <4>3. events # <<>> => Len(events) >= 1
        BY <1>1, QueueTypes
      <4> QED  BY <4>2, <4>3
    <3>3. \A i \in DOMAIN events : Breaks(i)
      BY <3>1, <3>2 DEF Breaks, IsFrame
    <3>4. events # <<>> => 1 \in DOMAIN events
      BY <3>2
    <3> QED  BY <3>1, <3>3, <3>4 DEF Starved, Breaks, IsKeyFrame
  <2>3. Answered
    BY <1>3, <2>1, <2>2 DEF Waits
  <2> QED  BY <1>2, <2>1, <2>3, AnsweredSame DEF assembler
<1> QED  BY <1>6, <1>7, <1>8, <1>9, <1>10

(* The decode loop. *)
LEMMA LoopAnswers ==
  ASSUME IInv, NobodyWaitsUnasked, Loop
  PROVE  NobodyWaitsUnasked'
<1> USE DEF network, queue
<1>1. TypeOK
  BY DEF IInv
<1> SUFFICES ASSUME Running', Waits' PROVE Answered'
  BY DEF NobodyWaitsUnasked, Answered
<1>2. CASE LoopTakes
  <2>1. /\ keys' = keys /\ got' = got /\ take' = take /\ pump' = pump /\ UNCHANGED assembler
        /\ newest' = newest /\ pli' = pli /\ missed' = missed /\ commands' = commands
        /\ events # <<>> /\ loop = "wait"
        /\ \/ loop' = "asks"
           \/ /\ events' = Tail(events)
              /\ \/ LoopSkips \/ LoopResets
                 \/ LoopDecodes /\ needsSync' = FALSE
    BY <1>1, <1>2, TakesEvents
  <2>2. CASE loop' = "asks"
    BY <2>2 DEF Answered, WillAsk
  <2>3. CASE /\ events' = Tail(events)
             /\ LoopSkips \/ LoopResets \/ (LoopDecodes /\ needsSync' = FALSE)
    <3>1. events \in Seq(Queued) /\ Head(events) = events[1] /\ needsSync \in BOOLEAN
      BY <1>1, <2>1, QueueTypes DEF TypeOK
    <3>2. \/ events[1].kind # "frame"
          \/ needsSync' = FALSE
          \/ needsSync = TRUE /\ events[1].picture \notin keys
      <4>1. CASE LoopSkips
        <5>1. NeedsKey(events[1].picture)
          BY <3>1, <4>1 DEF LoopSkips
        <5> QED  BY <3>1, <5>1 DEF NeedsKey
      <4>2. CASE LoopResets
        BY <3>1, <4>2 DEF LoopResets, Take
      <4> QED  BY <2>3, <4>1, <4>2
    <3>3. needsSync' \in BOOLEAN
      BY <1>1, <2>3 DEF LoopSkips, LoopResets, RequireSync, TypeOK
    <3>4. Starved' => Starved
      BY <2>1, <2>3, <3>1, <3>2, <3>3, HungryTail, StarvedIsHungry
    <3>5. Waits
      BY <2>1, <3>4 DEF Waits, assembler
    <3>6. Answered
      BY <2>1, <3>5 DEF NobodyWaitsUnasked, Running, Answered
    <3> QED  BY <2>1, <3>6 DEF Answered, KeyOnItsWay, WillAsk, assembler
  <2> QED  BY <2>1, <2>2, <2>3
<1>3. CASE LoopAsks
  BY <1>3 DEF LoopAsks, Running, Answered, WillAsk
<1>4. CASE LoopLeaves \/ LoopEnds
  BY <1>4 DEF LoopLeaves, LoopEnds, Running
<1> QED  BY <1>2, <1>3, <1>4 DEF Loop, LoopTakes

LEMMA InitAnswers == Init => NobodyWaitsUnasked
BY DEF Init, NobodyWaitsUnasked

LEMMA NextAnswers == IInv /\ NobodyWaitsUnasked /\ [Next]_vars => NobodyWaitsUnasked'
<1> SUFFICES ASSUME IInv, NobodyWaitsUnasked, [Next]_vars PROVE NobodyWaitsUnasked'
  OBVIOUS
<1>1. CASE Environment
  BY <1>1, EnvironmentAnswers
<1>2. CASE Read
  BY <1>2, ReadAnswers
<1>3. CASE PumpEnds \/ PumpTakesCommands \/ PumpChecksCommands \/ PumpPublishes \/ PumpTells
  BY <1>3, PumpAnswers
<1>4. CASE Loop
  BY <1>4, LoopAnswers
<1>5. CASE UNCHANGED vars
  BY <1>5 DEF vars, network, assembler, queue, output, NobodyWaitsUnasked, Running, Waits, Starved,
              IsKeyFrame, Breaks, KeyOnItsWay, WillAsk
<1> QED  BY <1>1, <1>2, <1>3, <1>4, <1>5 DEF Next, Pump

(* Whoever waits for a key picture - the assembler, the decoder behind a   *)
(* break of the queue, or a recording that asked - does not wait for one   *)
(* nobody asked for: it is coming, or is about to be asked for, or the     *)
(* request was suppressed, lost or refused.                                *)
THEOREM WaitersAreAnswered == Spec => []NobodyWaitsUnasked
BY InitAnswers, NextAnswers, Invariant, PTL DEF Spec
=============================================================================
