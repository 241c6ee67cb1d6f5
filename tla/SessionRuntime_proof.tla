------------------------- MODULE SessionRuntime_proof -------------------------
(***************************************************************************)
(* Proofs about SessionRuntime, for any numbers of attempts, sessions and  *)
(* pipelines and any mailbox with a place for each class of events: its    *)
(* types and all the safety invariants of its run.                         *)
(***************************************************************************)
EXTENDS SessionRuntime, FiniteSetTheorems, SequenceTheorems, TLAPS

-----------------------------------------------------------------------------
(* The queue of the mailbox *)

Places(q) == 1 .. Len(q)
OnePerClass(q) ==
  \A i, j \in Places(q) : Class(q[i]) = Class(q[j]) => i = j

LEMMA ClassOf ==
  ASSUME NEW e \in Event
  PROVE  /\ e.kind \in Kinds /\ e.of \in 0 .. MaxSessions
         /\ Class(e) \in {"state", "input", "clipboard", "render"}
         /\ e.kind \in States <=> Class(e) = "state"
         /\ e.kind = "input" <=> Class(e) = "input"
BY DEF Event, Kinds, States, Class

(* Events of different classes: there are at most four, and no more than   *)
(* three if none of them is of a given event's class.                      *)
LEMMA QueueIsShort ==
  ASSUME NEW q \in Seq(Event), OnePerClass(q), NEW e \in Event
  PROVE  /\ Len(q) <= 4
         /\ (\A i \in Places(q) : Class(q[i]) # Class(e)) => Len(q) <= 3
<1>1. \A i \in Places(q) : Class(q[i]) \in {"state", "input", "clipboard", "render"}
  <2>1. \A i \in Places(q) : q[i] \in Event
    BY ElementOfSeq DEF Places
  <2> QED
    BY <2>1, ClassOf
<1>2. \A i, j \in Places(q) : i # j => Class(q[i]) # Class(q[j])
  BY DEF OnePerClass
<1>3. Len(q) >= 5 => \A i \in 1 .. 5 : i \in Places(q)
  BY DEF Places
<1>4. Len(q) >= 4 => \A i \in 1 .. 4 : i \in Places(q)
  BY DEF Places
<1>5. Class(e) \in {"state", "input", "clipboard", "render"}
  BY ClassOf
<1>6. ~ Len(q) >= 5
  BY <1>1, <1>2, <1>3
<1>7. (\A i \in Places(q) : Class(q[i]) # Class(e)) => ~ Len(q) >= 4
  BY <1>1, <1>2, <1>4, <1>5
<1> QED
  BY <1>6, <1>7

(* c is q with the event at place k, if there is one, taken out and e put  *)
(* last; k is the place of the event of e's class.                         *)
Pushed(q, e, c, k) ==
  /\ k \in 1 .. Len(q) + 1
  /\ Len(c) = IF k \in Places(q) THEN Len(q) ELSE Len(q) + 1
  /\ c[Len(c)] = e
  /\ \A i \in Places(c) \ {Len(c)} : c[i] = IF i < k THEN q[i] ELSE q[i + 1]
  /\ \A i \in Places(q) : Class(q[i]) = Class(e) <=> i = k

(* push_event never meets the limit, and does just that.                   *)
LEMMA CoalescedIsPushed ==
  ASSUME NEW q \in Seq(Event), OnePerClass(q), NEW e \in Event
  PROVE  /\ Coalesced(q, e) \in Seq(Event)
         /\ \E k \in 1 .. Len(q) + 1 : Pushed(q, e, Coalesced(q, e), k)
<1> DEFINE older == {i \in 1 .. Len(q) : Class(q[i]) = Class(e)}
<1>1. Len(q) \in Nat /\ Len(q) <= 4 /\ MaxEvents \in Nat /\ MaxEvents >= 4
  BY QueueIsShort, RuntimeAssumption
<1>2. CASE older = {}
  <2>1. Len(q) <= 3
    BY <1>2, QueueIsShort DEF Places
  <2>2. Coalesced(q, e) = Append(q, e)
    BY <1>1, <1>2, <2>1 DEF Coalesced
  <2>3. Pushed(q, e, Append(q, e), Len(q) + 1)
    <3>1. /\ Len(Append(q, e)) = Len(q) + 1 /\ Append(q, e)[Len(q) + 1] = e
          /\ \A i \in 1 .. Len(q) : Append(q, e)[i] = q[i]
      BY AppendProperties
    <3>2. \A i \in Places(q) : Class(q[i]) # Class(e)
      BY <1>2 DEF Places
    <3> QED
      BY <1>1, <3>1, <3>2 DEF Pushed, Places
  <2> QED
    BY <1>1, <2>2, <2>3, AppendProperties
<1>3. CASE older # {}
  <2> DEFINE k == CHOOSE i \in older : TRUE
             rest == RemoveAt(q, k)
  <2>1. k \in Places(q) /\ Class(q[k]) = Class(e)
    BY <1>3 DEF Places
  <2>2. \A i \in Places(q) : Class(q[i]) = Class(e) <=> i = k
    BY <2>1 DEF OnePerClass
  <2>3. Coalesced(q, e) = IF Len(rest) < MaxEvents THEN Append(rest, e)
                          ELSE IF e.kind = "clipboard" THEN rest
                          ELSE Append(Tail(rest), e)
    BY <1>3 DEF Coalesced
  <2> HIDE DEF k, older
  <2>4. /\ rest \in Seq(Event) /\ Len(rest) = Len(q) - 1
        /\ \A i \in 1 .. Len(q) - 1 : rest[i] = IF i < k THEN q[i] ELSE q[i + 1]
    <3> DEFINE before == SubSeq(q, 1, k - 1)
               behind == SubSeq(q, k + 1, Len(q))
    <3>1. k \in 1 .. Len(q)
      BY <2>1 DEF Places
    <3>2. \A i \in 1 .. Len(q) : q[i] \in Event
      BY ElementOfSeq
    <3>3. /\ before \in Seq(Event) /\ Len(before) = k - 1
          /\ \A i \in 1 .. k - 1 : before[i] = q[i]
      <4>1. 1 \in Int /\ k - 1 \in Int /\ \A i \in 1 .. k - 1 : q[i] \in Event
        BY <3>1, <3>2, <1>1
      <4>2. /\ before \in Seq(Event)
            /\ Len(before) = IF 1 <= k - 1 THEN (k - 1) - 1 + 1 ELSE 0
            /\ \A i \in 1 .. (k - 1) - 1 + 1 : before[i] = q[1 + i - 1]
        BY <4>1, SubSeqProperties
      <4> QED
        BY <4>2, <3>1, <1>1
    <3>4. /\ behind \in Seq(Event) /\ Len(behind) = Len(q) - k
          /\ \A i \in 1 .. Len(q) - k : behind[i] = q[k + i]
      <4>1. k + 1 \in Int /\ Len(q) \in Int /\ \A i \in k + 1 .. Len(q) : q[i] \in Event
        BY <3>1, <3>2, <1>1
      <4>2. /\ behind \in Seq(Event)
            /\ Len(behind) = IF k + 1 <= Len(q) THEN Len(q) - (k + 1) + 1 ELSE 0
            /\ \A i \in 1 .. Len(q) - (k + 1) + 1 : behind[i] = q[k + 1 + i - 1]
        BY <4>1, SubSeqProperties
      <4> QED
        BY <4>2, <3>1, <1>1
    <3> HIDE DEF before, behind
    <3>5. /\ before \o behind \in Seq(Event)
          /\ Len(before \o behind) = Len(before) + Len(behind)
          /\ \A i \in 1 .. Len(before) + Len(behind) : (before \o behind)[i] =
               IF i <= Len(before) THEN before[i] ELSE behind[i - Len(before)]
      BY <3>3, <3>4, ConcatProperties
    <3>6. rest = before \o behind
      BY DEF RemoveAt, before, behind
    <3> HIDE DEF rest
    <3>7. rest \in Seq(Event) /\ Len(rest) = Len(q) - 1
      BY <3>1, <3>3, <3>4, <3>5, <3>6, <1>1
    <3>8. ASSUME NEW i \in 1 .. Len(q) - 1
          PROVE  rest[i] = IF i < k THEN q[i] ELSE q[i + 1]
      <4>1. rest[i] = IF i <= k - 1 THEN before[i] ELSE behind[i - (k - 1)]
        BY <3>1, <3>3, <3>4, <3>5, <3>6, <1>1
      <4>2. CASE i < k
        BY <4>1, <4>2, <3>1, <3>3, <1>1
      <4>3. CASE ~ i < k
        <5>1. i - (k - 1) \in 1 .. Len(q) - k /\ k + (i - (k - 1)) = i + 1
          BY <4>3, <3>1, <1>1
        <5>2. behind[i - (k - 1)] = q[k + (i - (k - 1))]
          BY <5>1, <3>4
        <5> QED
          BY <4>1, <4>3, <5>1, <5>2, <3>1, <1>1
      <4> QED
        BY <4>2, <4>3
    <3> QED
      BY <3>7, <3>8
  <2> HIDE DEF rest
  <2>5. Coalesced(q, e) = Append(rest, e)
    BY <2>3, <2>4, <1>1
  <2>6. /\ Len(Append(rest, e)) = Len(rest) + 1 /\ Append(rest, e)[Len(rest) + 1] = e
        /\ \A i \in 1 .. Len(rest) : Append(rest, e)[i] = rest[i]
        /\ Append(rest, e) \in Seq(Event)
    BY <2>4, AppendProperties
  <2>7. Pushed(q, e, Append(rest, e), k)
    BY <2>1, <2>2, <2>4, <2>6, <1>1 DEF Pushed, Places
  <2> QED
    BY <2>1, <2>5, <2>6, <2>7, <1>1 DEF Places
<1> QED
  BY <1>2, <1>3

(* Where each event of c was in q, and where each event of q is in c.      *)
From(k, i) == IF i < k THEN i ELSE i + 1
To(k, m) == IF m < k THEN m ELSE m - 1

LEMMA PushedMoves ==
  ASSUME NEW q \in Seq(Event), NEW c \in Seq(Event), NEW e \in Event,
         NEW k \in Int, Pushed(q, e, c, k)
  PROVE  /\ Len(c) \in Places(c) /\ c[Len(c)] = e
         /\ \A i \in Places(c) : i # Len(c) =>
              /\ From(k, i) \in Places(q) /\ From(k, i) # k
              /\ c[i] = q[From(k, i)]
         /\ \A m \in Places(q) : m # k =>
              /\ To(k, m) \in Places(c) /\ To(k, m) < Len(c)
              /\ c[To(k, m)] = q[m]
         /\ \A i \in Places(c), j \in Places(c) : i < j => From(k, i) < From(k, j)
         /\ \A m, n \in Places(q) : m < n /\ m # k /\ n # k => To(k, m) < To(k, n)
<1>1. Len(q) \in Nat /\ Len(c) \in Nat
  OBVIOUS
<1>2. /\ k \in 1 .. Len(q) + 1
      /\ Len(c) = IF k \in Places(q) THEN Len(q) ELSE Len(q) + 1
      /\ \A i \in Places(c) \ {Len(c)} : c[i] = q[From(k, i)]
      /\ c[Len(c)] = e
  BY DEF Pushed, From
<1>3. \A i \in Places(c) : i # Len(c) => From(k, i) \in Places(q) /\ From(k, i) # k
  BY <1>1, <1>2 DEF Places, From
<1>4. ASSUME NEW m \in Places(q), m # k
      PROVE  To(k, m) \in Places(c) /\ To(k, m) < Len(c) /\ From(k, To(k, m)) = m
  BY <1>1, <1>2, <1>4 DEF Places, From, To
<1>5. \A m \in Places(q) : m # k => c[To(k, m)] = q[m]
  <2> TAKE m \in Places(q)
  <2> HAVE m # k
  <2>1. To(k, m) \in Places(c) \ {Len(c)} /\ From(k, To(k, m)) = m
    BY <1>1, <1>4 DEF Places
  <2> QED
    BY <2>1, <1>2
<1>6. \A i \in Places(c), j \in Places(c) : i < j => From(k, i) < From(k, j)
  BY <1>1, <1>2 DEF Places, From
<1>7. \A m, n \in Places(q) : m < n /\ m # k /\ n # k => To(k, m) < To(k, n)
  BY <1>1, <1>2 DEF Places, To
<1>8. Len(c) \in Places(c)
  BY <1>1, <1>2 DEF Places
<1> QED
  BY <1>2, <1>3, <1>4, <1>5, <1>6, <1>7, <1>8

LEMMA PushKeepsOnePerClass ==
  ASSUME NEW q \in Seq(Event), NEW c \in Seq(Event), NEW e \in Event,
         NEW k \in Int, Pushed(q, e, c, k), OnePerClass(q)
  PROVE  OnePerClass(c)
<1>1. \A m \in Places(q) : m # k => Class(q[m]) # Class(e)
  BY DEF Pushed
<1> SUFFICES ASSUME NEW i \in Places(c), NEW j \in Places(c), i < j,
                    Class(c[i]) = Class(c[j])
             PROVE  FALSE
  BY DEF OnePerClass, Places
<1>2. i # Len(c) /\ From(k, i) \in Places(q) /\ From(k, i) # k /\ c[i] = q[From(k, i)]
  BY PushedMoves DEF Places
<1>3. CASE j = Len(c)
  BY <1>1, <1>2, <1>3, PushedMoves
<1>4. CASE j # Len(c)
  <2>1. From(k, j) \in Places(q) /\ c[j] = q[From(k, j)] /\ From(k, i) < From(k, j)
    BY <1>4, PushedMoves
  <2> QED
    BY <1>2, <2>1 DEF OnePerClass, Places
<1> QED
  BY <1>3, <1>4

-----------------------------------------------------------------------------
(* What the queue, the state shown and the session the input goes to tell  *)
(* together, with s connections made.                                      *)

(* The window shows session s and sends it its input, or is about to.      *)
Up(q, sh, in, s) ==
  /\ \A i \in Places(q) :
       /\ q[i].kind \in States => q[i].kind = "connected" /\ q[i].of = s
       /\ q[i].kind = "input" => q[i].of = s
  /\ (\A i \in Places(q) : q[i].kind \notin States) => sh.kind = "connected" /\ sh.of = s
  /\ (\A i \in Places(q) : q[i].kind # "input") => in = s

(* It shows no connection and sends no input, or is about to.              *)
Down(q, sh, in, s) ==
  /\ \A i \in Places(q) :
       /\ q[i].kind \in States => q[i].kind # "connected" /\ q[i].of <= s
       /\ q[i].kind = "input" => \E j \in Places(q) : j > i /\ q[j].kind \in Losses
  /\ (\A i \in Places(q) : q[i].kind \notin States) => sh.kind # "connected" /\ sh.of <= s
  /\ (\A i \in Places(q) : q[i].kind \notin Losses) => in = 0

(* Between the two: its input goes to session s already, or is about to,   *)
(* and it still shows what came before.                                    *)
Between(q, sh, in, s) ==
  /\ \A i \in Places(q) :
       /\ q[i].kind \in States => q[i].kind # "connected" /\ q[i].of < s
       /\ q[i].kind = "input" =>
            q[i].of = s /\ \A j \in Places(q) : j > i => q[j].kind \notin States
  /\ (\A i \in Places(q) : q[i].kind \notin States) => sh.kind # "connected" /\ sh.of < s
  /\ (\A i \in Places(q) : q[i].kind # "input") =>
       in = s /\ \A i \in Places(q) : q[i].kind \notin States

(* The last state will be a failure.                                       *)
Told(q, sh) ==
  \/ \E i \in Places(q) : q[i].kind = "failed"
  \/ sh.kind = "failed" /\ \A i \in Places(q) : q[i].kind \notin States

LEMMA KindOf ==
  ASSUME NEW e \in Event
  PROVE  /\ e.kind \in Losses => e.kind \in States
         /\ e.kind = "failed" => e.kind \in States
         /\ e.kind = "connected" => e.kind \in States /\ e.kind \notin Losses
         /\ e.kind = "input" => e.kind \notin States /\ e.kind \notin Losses
         /\ e.of \in Nat /\ e.of <= MaxSessions
BY RuntimeAssumption DEF Event, Kinds, States, Losses

(* A picture's or the clipboard's event changes none of this.              *)
Neutral == {"render", "clipboard"}

LEMMA PushNeutral ==
  ASSUME NEW q \in Seq(Event), NEW c \in Seq(Event), NEW e \in Event,
         NEW k \in Int, Pushed(q, e, c, k), e.kind \in Neutral,
         NEW sh, NEW in, NEW s \in Int
  PROVE  /\ Up(q, sh, in, s) => Up(c, sh, in, s)
         /\ Down(q, sh, in, s) => Down(c, sh, in, s)
         /\ Told(q, sh) => Told(c, sh)
<1>1. /\ e.kind \notin States /\ e.kind \notin Losses /\ e.kind # "input"
      /\ e.kind # "failed" /\ e.kind # "connected"
  BY DEF Neutral, States, Losses
<1>2. \A m \in Places(q) :
        q[m].kind \in States \cup Losses \cup {"input", "failed"} => m # k
  <2>1. k \in Places(q) => Class(q[k]) = e.kind /\ q[k] \in Event
    BY <1>1, ElementOfSeq DEF Pushed, Class, Places
  <2>2. k \in Places(q) => q[k].kind = e.kind
    BY <2>1, <1>1 DEF Class, Neutral
  <2> QED
    BY <2>2, <1>1
<1>3. \A i \in Places(c) :
        \/ c[i] = e
        \/ From(k, i) \in Places(q) /\ c[i] = q[From(k, i)]
  BY PushedMoves
<1>4. \A m \in Places(q) : m # k => To(k, m) \in Places(c) /\ c[To(k, m)] = q[m]
  BY PushedMoves
<1>5. Up(q, sh, in, s) => Up(c, sh, in, s)
  <2> SUFFICES ASSUME Up(q, sh, in, s) PROVE Up(c, sh, in, s)
    OBVIOUS
  <2>1. \A i \in Places(c) :
          /\ c[i].kind \in States => c[i].kind = "connected" /\ c[i].of = s
          /\ c[i].kind = "input" => c[i].of = s
    BY <1>1, <1>3 DEF Up
  <2>2. (\A i \in Places(c) : c[i].kind \notin States) => sh.kind = "connected" /\ sh.of = s
    BY <1>2, <1>4 DEF Up
  <2>3. (\A i \in Places(c) : c[i].kind # "input") => in = s
    BY <1>2, <1>4 DEF Up
  <2> QED
    BY <2>1, <2>2, <2>3 DEF Up
<1>6. Down(q, sh, in, s) => Down(c, sh, in, s)
  <2> SUFFICES ASSUME Down(q, sh, in, s) PROVE Down(c, sh, in, s)
    OBVIOUS
  <2>1. \A i \in Places(c) :
          c[i].kind \in States => c[i].kind # "connected" /\ c[i].of <= s
    BY <1>1, <1>3 DEF Down
  <2>2. ASSUME NEW i \in Places(c), c[i].kind = "input"
        PROVE  \E j \in Places(c) : j > i /\ c[j].kind \in Losses
    <3>1. i # Len(c) /\ From(k, i) \in Places(q) /\ c[i] = q[From(k, i)]
      BY <2>2, <1>1, PushedMoves
    <3>2. PICK n \in Places(q) : n > From(k, i) /\ q[n].kind \in Losses
      BY <2>2, <3>1 DEF Down
    <3>3. n # k /\ To(k, n) \in Places(c) /\ c[To(k, n)] = q[n]
      BY <3>2, <1>2, <1>4
    <3>4. To(k, n) > i
      BY <3>1, <3>2, <3>3 DEF From, To, Places
    <3> QED
      BY <3>2, <3>3, <3>4
  <2>3. (\A i \in Places(c) : c[i].kind \notin States) => sh.kind # "connected" /\ sh.of <= s
    BY <1>2, <1>4 DEF Down
  <2>4. (\A i \in Places(c) : c[i].kind \notin Losses) => in = 0
    BY <1>2, <1>4 DEF Down
  <2> QED
    BY <2>1, <2>2, <2>3, <2>4 DEF Down
<1>7. Told(q, sh) => Told(c, sh)
  <2> SUFFICES ASSUME Told(q, sh) PROVE Told(c, sh)
    OBVIOUS
  <2>1. CASE \E i \in Places(q) : q[i].kind = "failed"
    BY <2>1, <1>2, <1>4 DEF Told
  <2>2. CASE sh.kind = "failed" /\ \A i \in Places(q) : q[i].kind \notin States
    BY <2>2, <1>1, <1>3 DEF Told
  <2> QED
    BY <2>1, <2>2 DEF Told
<1> QED
  BY <1>5, <1>6, <1>7

(* A loss leaves nothing of what was, whatever that was.                   *)
LEMMA PushLoss ==
  ASSUME NEW q \in Seq(Event), NEW c \in Seq(Event), NEW e \in Event,
         NEW k \in Int, Pushed(q, e, c, k), OnePerClass(q), e.kind \in Losses,
         NEW sh, NEW in, NEW s \in Int, e.of <= s
  PROVE  Down(c, sh, in, s) /\ (e.kind = "failed" => Told(c, sh))
<1>1. e.kind \in States /\ e.kind # "connected" /\ Class(e) = "state"
  BY DEF Losses, States, Class
<1>2. Len(c) \in Places(c) /\ c[Len(c)] = e /\ OnePerClass(c)
  BY PushedMoves, PushKeepsOnePerClass
<1>3. \A i \in Places(c) : c[i].kind \in States => i = Len(c)
  BY <1>1, <1>2 DEF OnePerClass, Class
<1>4. \A i \in Places(c) : c[i].kind = "input" => i < Len(c)
  BY <1>1, <1>2 DEF Places, States
<1> QED
  BY <1>1, <1>2, <1>3, <1>4 DEF Down, Told

(* The first attempt to connect.                                           *)
LEMMA PushFirst ==
  ASSUME NEW c \in Seq(Event), NEW e \in Event,
         NEW k \in Int, Pushed(<<>>, e, c, k), e.kind = "connecting",
         NEW sh, NEW in, in = 0, NEW s \in Int, e.of <= s
  PROVE  Down(c, sh, in, s)
<1>1. e.kind \in States /\ e.kind # "connected"
  BY DEF States
<1>2. <<>> \in Seq(Event) /\ Places(<<>>) = {}
  BY DEF Places
<1>3. Len(c) = 1 /\ c[1] = e
  BY <1>2 DEF Pushed
<1> QED
  BY <1>1, <1>3 DEF Down, Places

(* The input goes to a new session.                                        *)
LEMMA PushInput ==
  ASSUME NEW q \in Seq(Event), NEW c \in Seq(Event), NEW e \in Event,
         NEW k \in Int, Pushed(q, e, c, k), OnePerClass(q), e.kind = "input",
         NEW sh, NEW in, NEW s \in Int, e.of = s, Down(q, sh, in, s - 1),
         sh.of \in Int
  PROVE  Between(c, sh, in, s)
<1>1. e.kind \notin States /\ e.kind # "connected" /\ Class(e) = "input"
  BY DEF States, Class
<1>2. Len(c) \in Places(c) /\ c[Len(c)] = e /\ OnePerClass(c)
  BY PushedMoves, PushKeepsOnePerClass
<1>3. \A i \in Places(c) : c[i].kind = "input" => i = Len(c)
  BY <1>1, <1>2 DEF OnePerClass, Class
<1>4. \A m \in Places(q) : q[m].kind \in States => m # k
  BY <1>1 DEF Pushed, Class
<1>5. ASSUME NEW i \in Places(c), c[i].kind \in States
      PROVE  c[i].kind # "connected" /\ c[i].of < s
  <2>1. From(k, i) \in Places(q) /\ c[i] = q[From(k, i)]
    BY <1>1, <1>2, <1>5, PushedMoves
  <2>2. c[i].of <= s - 1 /\ c[i].kind # "connected"
    BY <2>1, <1>5 DEF Down
  <2>3. c[i].of \in Nat
    BY ElementOfSeq, KindOf DEF Places
  <2> QED
    BY <2>2, <2>3
<1>6. (\A i \in Places(c) : c[i].kind \notin States) => sh.kind # "connected" /\ sh.of < s
  <2>1. \A m \in Places(q) : q[m].kind \in States => To(k, m) \in Places(c) /\ c[To(k, m)] = q[m]
    BY <1>4, PushedMoves
  <2>2. (\A m \in Places(q) : q[m].kind \notin States) => sh.kind # "connected" /\ sh.of <= s - 1
    BY DEF Down
  <2> QED
    BY <2>1, <2>2
<1>7. \A j \in Places(c) : ~ j > Len(c)
  BY DEF Places
<1> QED
  BY <1>1, <1>2, <1>3, <1>5, <1>6, <1>7 DEF Between

(* The window is told of it: nothing is left of what came before.          *)
LEMMA PushConnected ==
  ASSUME NEW q \in Seq(Event), NEW c \in Seq(Event), NEW e \in Event,
         NEW k \in Int, Pushed(q, e, c, k), OnePerClass(q), e.kind = "connected",
         NEW sh, NEW in, NEW s \in Int, e.of = s, Between(q, sh, in, s)
  PROVE  Up(c, sh, in, s)
<1>1. e.kind \in States /\ e.kind # "input" /\ Class(e) = "state"
  BY DEF States, Class
<1>2. Len(c) \in Places(c) /\ c[Len(c)] = e /\ OnePerClass(c)
  BY PushedMoves, PushKeepsOnePerClass
<1>3. \A i \in Places(c) : c[i].kind \in States => i = Len(c)
  BY <1>1, <1>2 DEF OnePerClass, Class
<1>4. \A m \in Places(q) : q[m].kind = "input" => m # k
  BY <1>1 DEF Pushed, Class, States
<1>5. \A i \in Places(c) : c[i].kind = "input" => c[i].of = s
  BY <1>1, PushedMoves DEF Between
<1>6. (\A i \in Places(c) : c[i].kind # "input") => in = s
  BY <1>4, PushedMoves DEF Between
<1> QED
  BY <1>1, <1>2, <1>3, <1>5, <1>6 DEF Up

(* What the window shows, and where its input goes, after it has drained   *)
(* the queue.                                                              *)
LEMMA DrainedShown ==
  ASSUME NEW q \in Seq(Event), OnePerClass(q)
  PROVE  /\ \A i \in Places(q) : q[i].kind \in States => ShownAfter(q) = q[i]
         /\ (\A i \in Places(q) : q[i].kind \notin States) => ShownAfter(q) = shown
<1> DEFINE last == LastOf(q, States)
<1>1. \A i, j \in Places(q) : q[i].kind \in States /\ q[j].kind \in States => i = j
  BY DEF OnePerClass, Class
<1>2. \A i \in last : i \in Places(q) /\ q[i].kind \in States
  BY DEF LastOf, Places
<1>3. \A i \in Places(q) : q[i].kind \in States => i \in last
  <2> TAKE i \in Places(q)
  <2> HAVE q[i].kind \in States
  <2>1. \A j \in i + 1 .. Len(q) : j \in Places(q) /\ j # i
    BY DEF Places
  <2> QED
    BY <2>1, <1>1 DEF LastOf, Places
<1> HIDE DEF last
<1>4. ShownAfter(q) = IF last = {} THEN shown ELSE q[CHOOSE i \in last : TRUE]
  BY DEF ShownAfter, last
<1>5. last # {} => (CHOOSE i \in last : TRUE) \in last
  OBVIOUS
<1> QED
  BY <1>1, <1>2, <1>3, <1>4, <1>5

LEMMA DrainedInput ==
  ASSUME NEW q \in Seq(Event), OnePerClass(q)
  PROVE  /\ \A i \in Places(q) :
              /\ q[i].kind = "input"
              /\ \A j \in Places(q) : j > i => q[j].kind \notin Losses
              => InputAfter(q) = q[i].of
         /\ \A i \in Places(q) :
              /\ q[i].kind \in Losses
              /\ \A j \in Places(q) : j > i => q[j].kind # "input"
              => InputAfter(q) = 0
         /\ (\A i \in Places(q) : q[i].kind \notin Losses \cup {"input"}) =>
              InputAfter(q) = input
<1> DEFINE heard == Losses \cup {"input"}
           last == LastOf(q, heard)
           l == CHOOSE i \in last : TRUE
<1>1. \A i, j \in Places(q) : q[i].kind = "input" /\ q[j].kind = "input" => i = j
  BY DEF OnePerClass, Class, States
<1>2. \A i, j \in Places(q) : q[i].kind \in Losses /\ q[j].kind \in Losses => i = j
  BY DEF OnePerClass, Class, States, Losses
<1>3. "input" \notin Losses
  BY DEF Losses
<1>4. \A i \in last : /\ i \in Places(q) /\ q[i].kind \in heard
                      /\ \A j \in Places(q) : j > i => q[j].kind \notin heard
  BY DEF LastOf, Places
<1>5. \A i \in Places(q) :
        q[i].kind \in heard /\ (\A j \in Places(q) : j > i => q[j].kind \notin heard)
        => i \in last
  BY DEF LastOf, Places
<1>6. InputAfter(q) = IF last = {} THEN input
                      ELSE IF q[l].kind = "input" THEN q[l].of ELSE 0
  BY DEF InputAfter
<1>7. last # {} => l \in last
  OBVIOUS
<1> HIDE DEF last, l
<1>8. ASSUME NEW i \in Places(q), q[i].kind \in heard,
             \A j \in Places(q) : j > i => q[j].kind \notin heard
      PROVE  last # {} /\ l = i
  <2>1. i \in last /\ l \in last /\ l \in Places(q)
    BY <1>4, <1>5, <1>7, <1>8
  <2>2. ~ l > i
    BY <2>1, <1>4, <1>8
  <2>3. ~ i > l
    BY <2>1, <1>4, <1>8
  <2> QED
    BY <2>1, <2>2, <2>3 DEF Places
<1>9. ASSUME NEW i \in Places(q), q[i].kind = "input",
             \A j \in Places(q) : j > i => q[j].kind \notin Losses
      PROVE  InputAfter(q) = q[i].of
  <2>1. \A j \in Places(q) : j > i => q[j].kind \notin heard
    BY <1>1, <1>9 DEF Places
  <2> QED
    BY <2>1, <1>6, <1>8, <1>9
<1>10. ASSUME NEW i \in Places(q), q[i].kind \in Losses,
              \A j \in Places(q) : j > i => q[j].kind # "input"
       PROVE  InputAfter(q) = 0
  <2>1. \A j \in Places(q) : j > i => q[j].kind \notin heard
    BY <1>2, <1>10 DEF Places
  <2> QED
    BY <2>1, <1>3, <1>6, <1>8, <1>10
<1>11. (\A i \in Places(q) : q[i].kind \notin heard) => last = {}
  BY <1>4
<1> QED
  BY <1>6, <1>9, <1>10, <1>11

(* After that the queue is empty, and what it told holds of the window.    *)
LEMMA DrainTells ==
  ASSUME NEW q \in Seq(Event), OnePerClass(q), NEW s \in Int, shown \in Shown
  PROVE  /\ Up(q, shown, input, s) => Up(<<>>, ShownAfter(q), InputAfter(q), s)
         /\ Down(q, shown, input, s) => Down(<<>>, ShownAfter(q), InputAfter(q), s)
         /\ Between(q, shown, input, s) => Between(<<>>, ShownAfter(q), InputAfter(q), s)
         /\ Told(q, shown) => Told(<<>>, ShownAfter(q))
<1>1. Places(<<>>) = {}
  BY DEF Places
<1>2. \A i \in Places(q) : q[i].kind \in Losses => q[i].kind \in States /\ q[i].kind # "connected"
  BY DEF Losses, States
<1>3. \A i, j \in Places(q) : q[i].kind \in States /\ q[j].kind \in States => i = j
  BY DEF OnePerClass, Class
<1>4. \A i, j \in Places(q) : q[i].kind = "input" /\ q[j].kind = "input" => i = j
  BY DEF OnePerClass, Class, States
<1>5. ASSUME Up(q, shown, input, s) PROVE Up(<<>>, ShownAfter(q), InputAfter(q), s)
  <2>1. ShownAfter(q).kind = "connected" /\ ShownAfter(q).of = s
    BY <1>5, DrainedShown DEF Up
  <2>2. \A i \in Places(q) : q[i].kind \notin Losses
    BY <1>2, <1>5 DEF Up
  <2>3. InputAfter(q) = s
    BY <1>5, <2>2, DrainedInput DEF Up
  <2> QED
    BY <1>1, <2>1, <2>3 DEF Up
<1>6. ASSUME Down(q, shown, input, s) PROVE Down(<<>>, ShownAfter(q), InputAfter(q), s)
  <2>1. ShownAfter(q).kind # "connected" /\ ShownAfter(q).of <= s
    BY <1>6, DrainedShown DEF Down
  <2>2. CASE \E i \in Places(q) : q[i].kind \in Losses
    <3>1. PICK i \in Places(q) : q[i].kind \in Losses
      BY <2>2
    <3>2. \A j \in Places(q) : j > i => q[j].kind # "input"
      <4> SUFFICES ASSUME NEW j \in Places(q), j > i, q[j].kind = "input" PROVE FALSE
        OBVIOUS
      <4>1. PICK n \in Places(q) : n > j /\ q[n].kind \in Losses
        BY <1>6 DEF Down
      <4>2. n = i
        BY <1>2, <1>3, <3>1, <4>1
      <4> QED
        BY <4>1, <4>2 DEF Places
    <3> QED
      BY <3>1, <3>2, <2>1, <1>1, DrainedInput DEF Down
  <2>3. CASE \A i \in Places(q) : q[i].kind \notin Losses
    <3>1. \A i \in Places(q) : q[i].kind # "input"
      BY <2>3, <1>6 DEF Down
    <3>2. InputAfter(q) = 0
      BY <3>1, <2>3, <1>6, DrainedInput DEF Down
    <3> QED
      BY <3>2, <2>1, <1>1 DEF Down
  <2> QED
    BY <2>2, <2>3
<1>7. ASSUME Between(q, shown, input, s)
      PROVE  Between(<<>>, ShownAfter(q), InputAfter(q), s)
  <2>1. ShownAfter(q).kind # "connected" /\ ShownAfter(q).of < s
    BY <1>7, DrainedShown DEF Between
  <2>2. CASE \E i \in Places(q) : q[i].kind = "input"
    <3>1. PICK i \in Places(q) : q[i].kind = "input"
      BY <2>2
    <3>2. q[i].of = s /\ \A j \in Places(q) : j > i => q[j].kind \notin Losses
      BY <1>2, <1>7, <3>1 DEF Between
    <3>3. InputAfter(q) = s
      BY <3>1, <3>2, DrainedInput
    <3> QED
      BY <3>3, <2>1, <1>1 DEF Between
  <2>3. CASE \A i \in Places(q) : q[i].kind # "input"
    <3>1. input = s /\ \A i \in Places(q) : q[i].kind \notin Losses
      BY <2>3, <1>2, <1>7 DEF Between
    <3>2. InputAfter(q) = s
      BY <3>1, <2>3, DrainedInput
    <3> QED
      BY <3>2, <2>1, <1>1 DEF Between
  <2> QED
    BY <2>2, <2>3
<1>8. ASSUME Told(q, shown) PROVE Told(<<>>, ShownAfter(q))
  <2>1. "failed" \in States
    BY DEF States
  <2> QED
    BY <1>1, <1>8, <2>1, DrainedShown DEF Told
<1> QED
  BY <1>5, <1>6, <1>7, <1>8

-----------------------------------------------------------------------------
(* The inductive invariant *)

(* The worker ends with its last attempt.                                  *)
AttemptsLeft == attempts = MaxAttempts => worker = "exit"

(* From the first retry on it says that it reconnects.                     *)
Again == worker \notin {"top", "connect", "register", "exit"} => reconnecting

Disconnecting == {"flag", "unblock", "join", "gone"}
AsCancelled == cancel <=> ui \in Disconnecting

JoinedIsOver == ui = "gone" => worker = "exit"

(* The worker holds the one pipeline that may be running, the pipelines    *)
(* are started in order, and a join ends the way it was begun for.         *)
Holds ==
  /\ \A g \in Running : g = avc
  /\ avc # 0 => worker \in {"loop", "event", "join", "publish", "exit"}
  /\ after # "exit" => worker = "join"
  /\ worker = "join" /\ after = "exit" => cancel
  /\ worker = "join" /\ after = "spawn" => Started < MaxPipelines

InOrder == \E n \in 0 .. MaxPipelines : \A g \in Pipelines : pipeline[g] # "none" <=> g <= n

(* disconnect finds the flag of the pipeline, unless the worker is about   *)
(* to look at cancel.                                                      *)
FlagFound ==
  avc # 0 =>
    /\ worker \in {"loop", "event", "exit"} /\ ui \notin {"unblock", "join", "gone"} =>
         registered = avc
    /\ worker \in {"event", "exit"} /\ ui \in {"unblock", "join", "gone"} => avc \in stops

Control ==
  /\ TypeOK
  /\ OnePerClass(events)
  /\ AttemptsLeft
  /\ Again
  /\ AsCancelled
  /\ JoinedIsOver
  /\ Holds
  /\ InOrder
  /\ FlagFound

-----------------------------------------------------------------------------
(* The mailbox changes by one event, or is drained *)

LEMMA EventOf ==
  ASSUME TypeOK, NEW kind \in Kinds
  PROVE  [kind |-> kind, of |-> session] \in Event
BY DEF TypeOK, Event

LEMMA AllKinds ==
  {"connecting", "reconnecting", "connected", "disconnected", "failed", "input",
   "clipboard", "render"} \subseteq Kinds
BY DEF Kinds, States

QueueStep ==
  events' = events \/ events' = <<>> \/ \E e \in Event : events' = Coalesced(events, e)

LEMMA PushIsStep ==
  ASSUME TypeOK, NEW p, NEW kind \in Kinds, Push(p, kind)
  PROVE  QueueStep
BY EventOf DEF Push, QueueStep

LEMMA QueueNext ==
  ASSUME TypeOK, [Next]_vars
  PROVE  QueueStep
<1>1. CASE Work
  <2>1. CASE Top
    BY <2>1, PushIsStep, AllKinds DEF Top, Quiet, mailbox, QueueStep
  <2>2. CASE ConnectFails
    BY <2>2, PushIsStep, AllKinds DEF ConnectFails, Fail, Quiet, mailbox, QueueStep
  <2>3. CASE Announce
    BY <2>3, PushIsStep, AllKinds DEF Announce
  <2>4. CASE Lost
    BY <2>4, PushIsStep, AllKinds DEF Lost
  <2>5. CASE Register \/ CheckCancel \/ Join \/ RegisterPipeline \/ ForgetPipeline \/ WaitForRetry
    BY <2>5 DEF Register, CheckCancel, Join, RegisterPipeline, ForgetPipeline, WaitForRetry,
                Quiet, mailbox, QueueStep
  <2> QED
    BY <1>1, <2>1, <2>2, <2>3, <2>4, <2>5 DEF Work
<1>2. CASE RefuseQuality \/ RegisterFails
  BY <1>2, PushIsStep, AllKinds DEF RefuseQuality, RegisterFails, Fail
<1>3. CASE FrameArrives
  BY <1>3, PushIsStep, AllKinds DEF FrameArrives, Fail, Publish, Quiet, mailbox, QueueStep
<1>4. CASE ClipboardArrives
  BY <1>4, PushIsStep, AllKinds DEF ClipboardArrives, Quiet, mailbox, QueueStep
<1>5. CASE MediaArrives \/ NextEventFails
  BY <1>5, PushIsStep, AllKinds DEF MediaArrives, NextEventFails, Fail, Quiet, mailbox, QueueStep
<1>6. CASE Connects \/ TimePasses
  BY <1>6 DEF Connects, TimePasses, Quiet, mailbox, QueueStep
<1>7. ASSUME NEW p \in Producers, Notify(p) PROVE QueueStep
  BY <1>7 DEF Notify, Swap, SendWake, mailbox, QueueStep
<1>8. ASSUME NEW g \in Pipelines, Pipeline(g) PROVE QueueStep
  <2>1. OnFrame(g) => QueueStep
    BY EventOf, PushIsStep, AllKinds DEF OnFrame, Show, Quiet, mailbox, QueueStep
  <2> QED
    BY <1>8, <2>1 DEF Pipeline, PipelineWorks, PipelineFlushes, Quiet, mailbox, QueueStep
<1>9. CASE Ui \/ Disconnect
  BY <1>9 DEF Ui, WakeUp, Acknowledge, Drain, Draw, TakeStop, Unblock, JoinWorker, Disconnect,
              mailbox, QueueStep
<1>10. CASE UNCHANGED vars
  BY <1>10 DEF vars, mailbox, QueueStep
<1> QED
  BY <1>1, <1>2, <1>3, <1>4, <1>5, <1>6, <1>7, <1>8, <1>9, <1>10 DEF Next

LEMMA QueueKept ==
  ASSUME TypeOK, OnePerClass(events), [Next]_vars
  PROVE  /\ events' \in Seq(Event) /\ Len(events') <= MaxEvents
         /\ OnePerClass(events')
<1>1. events \in Seq(Event) /\ Len(events) <= MaxEvents
  BY DEF TypeOK
<1>2. CASE events' = events
  BY <1>1, <1>2
<1>3. CASE events' = <<>>
  BY <1>3, RuntimeAssumption DEF OnePerClass, Places
<1>4. CASE \E e \in Event : events' = Coalesced(events, e)
  <2>1. PICK e \in Event : events' = Coalesced(events, e)
    BY <1>4
  <2>2. PICK k \in Int : Pushed(events, e, events', k)
    BY <1>1, <2>1, CoalescedIsPushed
  <2>3. events' \in Seq(Event) /\ OnePerClass(events')
    BY <1>1, <2>1, <2>2, CoalescedIsPushed, PushKeepsOnePerClass
  <2>4. Len(events') <= 4
    BY <2>3, QueueIsShort
  <2> QED
    BY <2>3, <2>4, RuntimeAssumption
<1> QED
  BY <1>2, <1>3, <1>4, QueueNext DEF QueueStep

-----------------------------------------------------------------------------
(* Types, and what the worker holds *)

LEMMA StartedAreFirst ==
  ASSUME TypeOK, InOrder
  PROVE  /\ Started \in 0 .. MaxPipelines
         /\ \A g \in Pipelines : pipeline[g] # "none" <=> g <= Started
<1>1. PICK n \in 0 .. MaxPipelines : \A g \in Pipelines : pipeline[g] # "none" <=> g <= n
  BY DEF InOrder
<1>2. {g \in Pipelines : pipeline[g] # "none"} = 1 .. n
  BY <1>1, RuntimeAssumption DEF Pipelines
<1>3. Cardinality(1 .. n) = n
  BY FS_Interval, RuntimeAssumption
<1> QED
  BY <1>1, <1>2, <1>3 DEF Started

LEMMA DrainIsTyped ==
  ASSUME TypeOK, OnePerClass(events)
  PROVE  ShownAfter(events) \in Shown /\ InputAfter(events) \in 0 .. MaxSessions
<1>1. /\ events \in Seq(Event) /\ shown \in Shown /\ input \in 0 .. MaxSessions
      /\ 0 \in 0 .. MaxSessions
  BY RuntimeAssumption DEF TypeOK
<1>2. \A i \in Places(events) : events[i] \in Event
  BY <1>1, ElementOfSeq DEF Places
<1>3. ShownAfter(events) \in Shown
  <2>1. CASE \E i \in Places(events) : events[i].kind \in States
    <3>1. PICK i \in Places(events) : events[i].kind \in States
      BY <2>1
    <3>2. events[i] \in Shown
      BY <3>1, <1>2 DEF Event, Shown
    <3> QED
      BY <3>1, <3>2, <1>1, DrainedShown
  <2>2. CASE \A i \in Places(events) : events[i].kind \notin States
    BY <2>2, <1>1, DrainedShown
  <2> QED
    BY <2>1, <2>2
<1>4. InputAfter(events) \in 0 .. MaxSessions
  <2> DEFINE last == LastOf(events, Losses \cup {"input"})
             l == CHOOSE i \in last : TRUE
  <2>1. last # {} => l \in last
    OBVIOUS
  <2>2. \A i \in last : i \in Places(events)
    BY DEF LastOf, Places
  <2>3. InputAfter(events) = IF last = {} THEN input
                             ELSE IF events[l].kind = "input" THEN events[l].of ELSE 0
    BY DEF InputAfter
  <2> HIDE DEF last, l
  <2>4. last # {} => events[l].of \in 0 .. MaxSessions
    BY <2>1, <2>2, <1>2 DEF Event
  <2> QED
    BY <2>3, <2>4, <1>1
<1> QED
  BY <1>3, <1>4

LEMMA InitControl == Init => Control
<1> SUFFICES ASSUME Init PROVE Control
  OBVIOUS
<1>1. /\ MaxEvents \in Nat /\ MaxAttempts \in Nat \ {0}
      /\ MaxSessions \in Nat /\ MaxPipelines \in Nat
  BY RuntimeAssumption
<1>2. shown \in Shown
  BY <1>1 DEF Init, Shown, States
<1>3. TypeOK
  <2>1. events \in Seq(Event) /\ Len(events) <= MaxEvents
    BY <1>1 DEF Init
  <2>2. /\ notify \in [Producers -> {"none", "swap", "send"}]
        /\ pipeline \in [Pipelines -> {"none", "run", "flush", "exit"}]
    BY DEF Init
  <2>3. stops \subseteq Pipelines /\ shut \subseteq 1 .. MaxSessions
    BY DEF Init
  <2>4. /\ attempts \in 0 .. MaxAttempts /\ session \in 0 .. MaxSessions
        /\ avc \in 0 .. MaxPipelines /\ wakes \in Nat /\ handle \in 0 .. MaxSessions
        /\ registered \in 0 .. MaxPipelines /\ input \in 0 .. MaxSessions
    BY <1>1 DEF Init
  <2>5. /\ highPerformance \in BOOLEAN /\ reconnecting \in BOOLEAN /\ elapsed \in BOOLEAN
        /\ frame \in BOOLEAN /\ pending \in BOOLEAN /\ cancel \in BOOLEAN
    BY DEF Init
  <2>6. /\ worker = "top" /\ after = "exit" /\ ui = "idle"
    BY DEF Init
  <2> QED
    BY <1>2, <2>1, <2>2, <2>3, <2>4, <2>5, <2>6 DEF TypeOK
<1>4. OnePerClass(events)
  BY DEF Init, OnePerClass, Places
<1>5. AttemptsLeft /\ Again /\ AsCancelled /\ JoinedIsOver
  BY <1>1 DEF Init, AttemptsLeft, Again, AsCancelled, Disconnecting, JoinedIsOver
<1>6. Holds /\ FlagFound
  BY DEF Init, Holds, Running, FlagFound
<1>7. InOrder
  <2>1. \A g \in Pipelines : pipeline[g] # "none" <=> g <= 0
    BY <1>1 DEF Init, Pipelines
  <2> QED
    BY <1>1, <2>1 DEF InOrder
<1> QED
  BY <1>3, <1>4, <1>5, <1>6, <1>7 DEF Control

(* What a step into the mailbox does to the rest of it.                    *)
Mailed ==
  /\ frame' \in BOOLEAN /\ pending' \in BOOLEAN /\ wakes' \in Nat
  /\ notify' \in [Producers -> {"none", "swap", "send"}]

LEMMA MailIsTyped ==
  ASSUME TypeOK, NEW p \in Producers
  PROVE  /\ \A kind : Push(p, kind) => Mailed
         /\ Publish(p) => Mailed
         /\ OnFrame(p) => Mailed
         /\ Quiet => Mailed
<1>1. ASSUME NEW kind, Push(p, kind) PROVE Mailed
  BY <1>1 DEF Push, Mailed, TypeOK
<1>2. Publish(p) \/ Show(p) => Mailed
  BY DEF Publish, Show, Mailed, TypeOK
<1>3. Quiet => Mailed
  BY DEF Quiet, mailbox, waking, Mailed, TypeOK
<1> QED
  BY <1>1, <1>2, <1>3 DEF OnFrame

LEMMA TypesNext ==
  ASSUME Control, [Next]_vars
  PROVE  TypeOK'
<1>1. TypeOK /\ OnePerClass(events) /\ AttemptsLeft /\ Holds /\ InOrder
  BY DEF Control
<1>2. events' \in Seq(Event) /\ Len(events') <= MaxEvents
  BY <1>1, QueueKept
<1>3. /\ MaxAttempts \in Nat \ {0} /\ MaxSessions \in Nat /\ MaxPipelines \in Nat
      /\ Receiver \in Producers /\ Pipelines \subseteq Producers
  BY RuntimeAssumption DEF Producers
<1>4. /\ \A p \in Producers, kind \in Kinds : Push(p, kind) => Mailed
      /\ \A p \in Producers : Publish(p) \/ OnFrame(p) => Mailed
      /\ Quiet => Mailed
  BY <1>1, <1>3, MailIsTyped
<1> USE DEF TypeOK, Outside, flags, screen, At, Go, Fail
<1>5. CASE Top
  BY <1>1, <1>2, <1>3, <1>4, <1>5, AllKinds DEF Top, Mailed
<1>6. CASE RefuseQuality
  BY <1>1, <1>2, <1>3, <1>4, <1>6, AllKinds DEF RefuseQuality, Mailed
<1>7. CASE ConnectFails
  <2>1. attempts \in 0 .. MaxAttempts /\ attempts # MaxAttempts
    BY <1>1, <1>7 DEF ConnectFails, AttemptsLeft
  <2>2. attempts' \in 0 .. MaxAttempts /\ reconnecting' \in BOOLEAN
    <3>1. attempts' = attempts + 1
      BY <1>7 DEF ConnectFails
    <3>2. reconnecting' \in {reconnecting, TRUE}
      BY <1>7 DEF ConnectFails
    <3>3. attempts' \in 0 .. MaxAttempts
      BY <1>3, <2>1, <3>1
    <3> QED
      BY <1>1, <3>2, <3>3
  <2>3. Mailed
    BY <1>3, <1>4, <1>7, AllKinds DEF ConnectFails
  <2> QED
    BY <1>1, <1>2, <1>7, <2>2, <2>3 DEF ConnectFails, Mailed
<1>8. CASE Connects
  BY <1>1, <1>2, <1>3, <1>4, <1>8 DEF Connects, Mailed
<1>9. CASE Register
  <2>1. attempts' \in 0 .. MaxAttempts /\ handle' \in 0 .. MaxSessions
    BY <1>1, <1>3, <1>9 DEF Register
  <2> QED
    BY <1>1, <1>2, <1>4, <1>9, <2>1 DEF Register, Mailed
<1>10. CASE RegisterFails
  BY <1>1, <1>2, <1>3, <1>4, <1>10, AllKinds DEF RegisterFails, Mailed
<1>11. CASE Announce
  BY <1>1, <1>2, <1>3, <1>4, <1>11, AllKinds DEF Announce, Mailed
<1>31. \A then : StopPipeline(then) => stops' \subseteq Pipelines /\ after' = then
  BY <1>1, <1>3 DEF StopPipeline, Pipelines
<1>12. CASE CheckCancel
  <2>1. stops' \subseteq Pipelines /\ after' \in {"exit", "spawn", "forget"}
    BY <1>1, <1>12, <1>31 DEF CheckCancel
  <2> QED
    BY <1>1, <1>2, <1>4, <1>12, <2>1 DEF CheckCancel, StopPipeline, Mailed
<1>13. CASE Join
  <2>1. /\ avc' \in 0 .. MaxPipelines
        /\ pipeline' \in [Pipelines -> {"none", "run", "flush", "exit"}]
    <3>1. Started \in 0 .. MaxPipelines
      BY <1>1, StartedAreFirst
    <3>2. CASE after = "spawn"
      BY <1>1, <1>3, <1>13, <3>1, <3>2 DEF Join, Holds, Pipelines
    <3>3. CASE after # "spawn"
      BY <1>1, <1>3, <1>13, <3>3 DEF Join
    <3> QED
      BY <3>2, <3>3
  <2>2. worker' \in {"publish", "exit", "forget"}
    BY <1>1, <1>13 DEF Join
  <2> QED
    BY <1>1, <1>2, <1>4, <1>13, <2>1, <2>2 DEF Join, Mailed
<1>14. CASE RegisterPipeline
  BY <1>1, <1>2, <1>3, <1>4, <1>14 DEF RegisterPipeline, Mailed
<1>15. CASE FrameArrives
  BY <1>1, <1>2, <1>3, <1>4, <1>15, AllKinds DEF FrameArrives, Mailed
<1>16. CASE ClipboardArrives
  BY <1>1, <1>2, <1>3, <1>4, <1>16, AllKinds DEF ClipboardArrives, Mailed
<1>17. CASE MediaArrives
  <2>1. stops' \subseteq Pipelines /\ after' \in {"exit", "spawn", "forget"}
    BY <1>1, <1>17, <1>31 DEF MediaArrives
  <2>2. Mailed
    BY <1>3, <1>4, <1>17, AllKinds DEF MediaArrives
  <2> QED
    BY <1>1, <1>2, <1>17, <2>1, <2>2 DEF MediaArrives, StopPipeline, Mailed
<1>18. CASE NextEventFails
  <2>1. stops' \subseteq Pipelines /\ after' \in {"exit", "spawn", "forget"}
    BY <1>1, <1>18, <1>31 DEF NextEventFails
  <2>2. Mailed
    BY <1>3, <1>4, <1>18, AllKinds DEF NextEventFails
  <2> QED
    BY <1>1, <1>2, <1>18, <2>1, <2>2 DEF NextEventFails, StopPipeline, Mailed
<1>19. CASE ForgetPipeline
  BY <1>1, <1>2, <1>3, <1>4, <1>19 DEF ForgetPipeline, Mailed
<1>20. CASE Lost
  BY <1>1, <1>2, <1>3, <1>4, <1>20, AllKinds DEF Lost, Mailed
<1>21. CASE WaitForRetry
  BY <1>1, <1>2, <1>3, <1>4, <1>21 DEF WaitForRetry, Mailed
<1>22. CASE TimePasses
  BY <1>1, <1>2, <1>22 DEF TimePasses, mailbox, waking
<1>23. ASSUME NEW p \in Producers, Notify(p) PROVE TypeOK'
  <2>1. CASE Swap(p)
    <3>1. pending' = TRUE /\ notify' = [notify EXCEPT ![p] = IF pending THEN "none" ELSE "send"]
      BY <2>1 DEF Swap
    <3>2. notify' \in [Producers -> {"none", "swap", "send"}]
      BY <1>1, <3>1
    <3> QED
      BY <1>1, <1>2, <2>1, <3>2 DEF Swap, loop, mailbox
  <2>2. CASE SendWake(p)
    <3>1. notify' \in [Producers -> {"none", "swap", "send"}] /\ wakes' \in Nat
      BY <1>1, <2>2 DEF SendWake
    <3> QED
      BY <1>1, <1>2, <2>2, <3>1 DEF SendWake, loop, mailbox
  <2> QED
    BY <1>23, <2>1, <2>2 DEF Notify
<1>24. ASSUME NEW g \in Pipelines, Pipeline(g) PROVE TypeOK'
  <2>1. Mailed
    BY <1>3, <1>4, <1>24 DEF Pipeline, PipelineWorks, PipelineFlushes
  <2>2. pipeline' \in [Pipelines -> {"none", "run", "flush", "exit"}]
    BY <1>1, <1>24 DEF Pipeline, PipelineWorks, PipelineFlushes
  <2>3. UNCHANGED <<highPerformance, loop, stops, flags, screen>>
    BY <1>24 DEF Pipeline, PipelineWorks, PipelineFlushes
  <2> QED
    BY <1>1, <1>2, <2>1, <2>2, <2>3 DEF loop, Mailed
<1>25. CASE Drain
  BY <1>1, <1>2, <1>25, DrainIsTyped DEF Drain, UiOnly, loop, waking
<1>26. CASE TakeStop
  BY <1>1, <1>2, <1>3, <1>26 DEF TakeStop, loop, mailbox, waking, Pipelines
<1>27. CASE Unblock
  BY <1>1, <1>2, <1>3, <1>27 DEF Unblock, UiOnly, loop, mailbox, waking
<1>28. CASE JoinWorker
  BY <1>1, <1>2, <1>3, <1>28 DEF JoinWorker, UiOnly, loop, mailbox, waking, Shown
<1>29. CASE WakeUp
  BY <1>1, <1>2, <1>29 DEF WakeUp, UiOnly, loop, mailbox
<1>32. CASE Acknowledge
  <2>1. pending' = FALSE
    BY <1>32 DEF Acknowledge
  <2>2. /\ ui' = "drain"
        /\ UNCHANGED <<highPerformance, stops, pipeline, frame, wakes, notify, cancel,
                       handle, registered, shut, shown, input>>
        /\ UNCHANGED <<worker, after, attempts, reconnecting, session, avc, elapsed>>
    BY <1>32 DEF Acknowledge, UiOnly, mailbox, loop
  <2>3. pending' \in BOOLEAN
    BY <2>1
  <2> QED
    BY <1>1, <1>2, <2>2, <2>3
<1>34. CASE Draw
  <2>1. frame' = FALSE
    BY <1>34 DEF Draw
  <2>2. /\ ui' = "idle"
        /\ UNCHANGED <<highPerformance, stops, pipeline, pending, wakes, notify, cancel,
                       handle, registered, shut, shown, input>>
        /\ UNCHANGED <<worker, after, attempts, reconnecting, session, avc, elapsed>>
    BY <1>34 DEF Draw, UiOnly, waking, loop
  <2>3. frame' \in BOOLEAN
    BY <2>1
  <2> QED
    BY <1>1, <1>2, <2>2, <2>3
<1>33. CASE Disconnect
  BY <1>1, <1>2, <1>33 DEF Disconnect, UiOnly, loop, mailbox, waking
<1>30. CASE UNCHANGED vars
  BY <1>1, <1>30 DEF vars, loop, mailbox, waking
<1> QED
  BY <1>5, <1>6, <1>7, <1>8, <1>9, <1>10, <1>11, <1>12, <1>13, <1>14, <1>15, <1>16, <1>17,
     <1>18, <1>19, <1>20, <1>21, <1>22, <1>23, <1>24, <1>25, <1>26, <1>27, <1>28, <1>29,
     <1>30, <1>32, <1>33, <1>34 DEF Next, Work, Ui

LEMMA LifeNext ==
  ASSUME Control, [Next]_vars
  PROVE  AttemptsLeft' /\ Again' /\ AsCancelled' /\ JoinedIsOver'
<1>1. /\ MaxAttempts \in Nat \ {0} /\ attempts \in 0 .. MaxAttempts
      /\ after \in {"exit", "spawn", "forget"} /\ cancel \in BOOLEAN
      /\ AttemptsLeft /\ Again /\ AsCancelled /\ JoinedIsOver /\ Holds
  BY RuntimeAssumption DEF Control, TypeOK
<1> DEFINE Life == AttemptsLeft /\ Again /\ AsCancelled /\ JoinedIsOver
<1> USE DEF AttemptsLeft, Again, AsCancelled, Disconnecting, JoinedIsOver, Outside, flags,
            screen, At, Go, Fail
<1>2. CASE Top \/ RefuseQuality
  BY <1>1, <1>2 DEF Top, RefuseQuality
<1>3. CASE ConnectFails
  BY <1>1, <1>3 DEF ConnectFails, GivesUp
<1>4. CASE Connects \/ Register \/ RegisterFails
  BY <1>1, <1>4 DEF Connects, Register, RegisterFails
<1>5. CASE Announce \/ CheckCancel
  BY <1>1, <1>5 DEF Announce, CheckCancel, StopPipeline
<1>6. CASE Join
  BY <1>1, <1>6 DEF Join
<1>7. CASE RegisterPipeline \/ FrameArrives \/ ClipboardArrives
  BY <1>1, <1>7 DEF RegisterPipeline, FrameArrives, ClipboardArrives
<1>8. CASE MediaArrives \/ NextEventFails
  BY <1>1, <1>8 DEF MediaArrives, NextEventFails, StopPipeline
<1>9. CASE ForgetPipeline \/ Lost \/ WaitForRetry
  BY <1>1, <1>9 DEF ForgetPipeline, Lost, WaitForRetry
<1>10. CASE TimePasses
  BY <1>1, <1>10 DEF TimePasses
<1>11. ASSUME NEW p \in Producers, Notify(p) PROVE Life'
  BY <1>1, <1>11 DEF Notify, Swap, SendWake, loop
<1>12. ASSUME NEW g \in Pipelines, Pipeline(g) PROVE Life'
  BY <1>1, <1>12 DEF Pipeline, PipelineWorks, PipelineFlushes, loop
<1>13. CASE Ui
  BY <1>1, <1>13 DEF Ui, WakeUp, Acknowledge, Drain, Draw, TakeStop, Unblock, JoinWorker, UiOnly, loop
<1>14. CASE Disconnect
  BY <1>1, <1>14 DEF Disconnect, UiOnly, loop
<1>15. CASE UNCHANGED vars
  BY <1>1, <1>15 DEF vars, loop
<1> QED
  BY <1>2, <1>3, <1>4, <1>5, <1>6, <1>7, <1>8, <1>9, <1>10, <1>11, <1>12, <1>13, <1>14, <1>15
     DEF Next, Work

LEMMA SamePipelines ==
  ASSUME UNCHANGED pipeline
  PROVE  Running' = Running /\ Started' = Started
BY DEF Running, Started

(* A pipeline that goes on, or ends.                                       *)
LEMMA PipelineStep ==
  ASSUME TypeOK, NEW g \in Pipelines, Pipeline(g)
  PROVE  /\ Running' \subseteq Running /\ Started' = Started
         /\ \A h \in Pipelines : pipeline'[h] # "none" <=> pipeline[h] # "none"
         /\ UNCHANGED <<highPerformance, loop, stops, flags, screen>>
<1>1. /\ pipeline[g] \in {"run", "flush"}
      /\ \/ UNCHANGED pipeline
         \/ pipeline' = [pipeline EXCEPT ![g] = "flush"]
         \/ pipeline' = [pipeline EXCEPT ![g] = "exit"]
      /\ UNCHANGED <<highPerformance, loop, stops, flags, screen>>
  BY DEF Pipeline, PipelineWorks, PipelineFlushes
<1>2. pipeline \in [Pipelines -> {"none", "run", "flush", "exit"}]
  BY DEF TypeOK
<1>3. \A h \in Pipelines :
        /\ pipeline'[h] # "none" <=> pipeline[h] # "none"
        /\ pipeline'[h] \in {"run", "flush"} => pipeline[h] \in {"run", "flush"}
  BY <1>1, <1>2
<1> QED
  BY <1>1, <1>3 DEF Running, Started

LEMMA HoldsNext ==
  ASSUME Control, [Next]_vars
  PROVE  Holds' /\ InOrder'
<1>1. /\ TypeOK /\ Holds /\ InOrder /\ AsCancelled /\ MaxPipelines \in Nat
      /\ cancel \in BOOLEAN
  BY RuntimeAssumption DEF Control, TypeOK
<1>2. UNCHANGED pipeline => InOrder' /\ Running' = Running /\ Started' = Started
  BY <1>1, SamePipelines DEF InOrder
<1> USE DEF Outside, flags, screen, At, Go, Fail
<1>3. CASE Top \/ RefuseQuality \/ ConnectFails \/ Connects \/ Register \/ RegisterFails \/ Announce
  BY <1>1, <1>2, <1>3 DEF Top, RefuseQuality, ConnectFails, Connects, Register, RegisterFails,
                          Announce, Holds
<1>4. CASE CheckCancel
  BY <1>1, <1>2, <1>4 DEF CheckCancel, StopPipeline, Holds
<1>5. CASE Join
  <2>1. after \in {"exit", "spawn", "forget"} /\ avc \in 0 .. MaxPipelines
    BY <1>1 DEF TypeOK
  <2>2. Running = {}
    <3> SUFFICES ASSUME NEW g \in Running PROVE FALSE
      OBVIOUS
    <3>1. g = avc /\ g \in Pipelines /\ pipeline[g] \in {"run", "flush"}
      BY <1>1 DEF Holds, Running
    <3>2. avc # 0
      BY <3>1, <1>1 DEF Pipelines
    <3> QED
      BY <1>5, <3>1, <3>2 DEF Join, Joined
  <2>3. CASE after = "spawn"
    <3> DEFINE n == Started
    <3>1. n \in 0 .. MaxPipelines /\ n < MaxPipelines /\ \A g \in Pipelines : pipeline[g] # "none" <=> g <= n
      BY <1>1, <1>5, <2>3, StartedAreFirst DEF Join, Holds
    <3>2. /\ avc' = n + 1 /\ pipeline' = [pipeline EXCEPT ![n + 1] = "run"]
          /\ worker' = "publish" /\ after' = "exit"
      BY <1>5, <2>3 DEF Join
    <3> HIDE DEF n
    <3>3. /\ pipeline \in [Pipelines -> {"none", "run", "flush", "exit"}]
          /\ n + 1 \in Pipelines
      BY <1>1, <3>1 DEF TypeOK, Pipelines
    <3>4. \A g \in Pipelines : pipeline'[g] = IF g = n + 1 THEN "run" ELSE pipeline[g]
      BY <3>2, <3>3
    <3>5. \A g \in Pipelines : pipeline'[g] # "none" <=> g <= n + 1
      BY <1>1, <3>1, <3>4 DEF Pipelines
    <3>6. InOrder'
      BY <1>1, <3>1, <3>5 DEF InOrder
    <3>7. \A g \in Running' : g = avc'
      BY <2>2, <3>2, <3>4 DEF Running
    <3> QED
      BY <3>2, <3>6, <3>7 DEF Holds
  <2>4. CASE after # "spawn"
    BY <1>1, <1>2, <1>5, <2>1, <2>2, <2>4 DEF Join, Holds
  <2> QED
    BY <2>3, <2>4
<1>6. CASE RegisterPipeline \/ FrameArrives \/ ClipboardArrives \/ TimePasses
  BY <1>1, <1>2, <1>6 DEF RegisterPipeline, FrameArrives, ClipboardArrives, TimePasses, Holds
<1>7. CASE MediaArrives
  BY <1>1, <1>2, <1>7 DEF MediaArrives, StopPipeline, Holds
<1>8. CASE NextEventFails
  BY <1>1, <1>2, <1>8 DEF NextEventFails, StopPipeline, Holds
<1>9. CASE ForgetPipeline \/ Lost \/ WaitForRetry
  BY <1>1, <1>2, <1>9 DEF ForgetPipeline, Lost, WaitForRetry, Holds
<1>10. ASSUME NEW p \in Producers, Notify(p) PROVE Holds' /\ InOrder'
  BY <1>1, <1>2, <1>10 DEF Notify, Swap, SendWake, loop, Holds
<1>11. ASSUME NEW g \in Pipelines, Pipeline(g) PROVE Holds' /\ InOrder'
  <2>1. InOrder'
    BY <1>1, <1>11, PipelineStep DEF InOrder
  <2>2. Holds'
    BY <1>1, <1>11, PipelineStep DEF Holds, loop
  <2> QED
    BY <2>1, <2>2
<1>12. CASE Ui
  BY <1>1, <1>2, <1>12 DEF Ui, WakeUp, Acknowledge, Drain, Draw, TakeStop, Unblock, JoinWorker, UiOnly, loop, Holds
<1>13. CASE Disconnect
  BY <1>1, <1>2, <1>13 DEF Disconnect, UiOnly, loop, Holds
<1>14. CASE UNCHANGED vars
  BY <1>1, <1>2, <1>14 DEF vars, loop, Holds
<1> QED
  BY <1>3, <1>4, <1>5, <1>6, <1>7, <1>8, <1>9, <1>10, <1>11, <1>12, <1>13, <1>14 DEF Next, Work

LEMMA FlagNext ==
  ASSUME Control, [Next]_vars
  PROVE  FlagFound'
<1>1. /\ TypeOK /\ Holds /\ AsCancelled /\ FlagFound
      /\ avc \in 0 .. MaxPipelines /\ after \in {"exit", "spawn", "forget"}
  BY DEF Control, TypeOK
<1> USE DEF Outside, flags, screen, At, Go, Fail, FlagFound
<1>2. CASE Top \/ RefuseQuality \/ ConnectFails \/ Connects \/ Register \/ RegisterFails \/ Announce
  BY <1>1, <1>2 DEF Top, RefuseQuality, ConnectFails, Connects, Register, RegisterFails,
                    Announce, Holds
<1>3. CASE CheckCancel
  BY <1>1, <1>3 DEF CheckCancel, StopPipeline, AsCancelled, Disconnecting
<1>4. CASE Join
  BY <1>1, <1>4 DEF Join
<1>5. CASE RegisterPipeline
  BY <1>1, <1>5 DEF RegisterPipeline
<1>6. CASE FrameArrives \/ ClipboardArrives \/ TimePasses
  BY <1>1, <1>6 DEF FrameArrives, ClipboardArrives, TimePasses
<1>7. CASE MediaArrives \/ NextEventFails
  BY <1>1, <1>7 DEF MediaArrives, NextEventFails, StopPipeline
<1>8. CASE ForgetPipeline \/ Lost \/ WaitForRetry
  BY <1>1, <1>8 DEF ForgetPipeline, Lost, WaitForRetry, Holds
<1>9. ASSUME NEW p \in Producers, Notify(p) PROVE FlagFound'
  BY <1>1, <1>9 DEF Notify, Swap, SendWake, loop
<1>10. ASSUME NEW g \in Pipelines, Pipeline(g) PROVE FlagFound'
  BY <1>1, <1>10, PipelineStep DEF loop
<1>11. CASE TakeStop
  BY <1>1, <1>11 DEF TakeStop, loop
<1>12. CASE WakeUp \/ Acknowledge \/ Drain \/ Draw \/ Unblock \/ JoinWorker \/ Disconnect
  BY <1>1, <1>12 DEF WakeUp, Acknowledge, Drain, Draw, Unblock, JoinWorker, Disconnect, UiOnly, loop
<1>13. CASE UNCHANGED vars
  BY <1>1, <1>13 DEF vars, loop
<1> QED
  BY <1>2, <1>3, <1>4, <1>5, <1>6, <1>7, <1>8, <1>9, <1>10, <1>11, <1>12, <1>13
     DEF Next, Work, Ui

LEMMA ControlNext ==
  Control /\ [Next]_vars => Control'
<1> SUFFICES ASSUME Control, [Next]_vars PROVE Control'
  OBVIOUS
<1>1. TypeOK' /\ AttemptsLeft' /\ Again' /\ AsCancelled' /\ JoinedIsOver' /\ Holds' /\ InOrder'
      /\ FlagFound'
  BY TypesNext, LifeNext, HoldsNext, FlagNext
<1>2. OnePerClass(events)'
  BY QueueKept DEF Control
<1> QED
  BY <1>1, <1>2 DEF Control

-----------------------------------------------------------------------------
(* No wake-up is lost *)

(* While pending is set, the message it stands for is on its way, or the   *)
(* UI thread has taken it and not yet reset pending.                       *)
Looking == ui \in {"idle", "poll", "drain", "draw"}
PendingMeansComing ==
  Looking /\ pending =>
    wakes > 0 \/ ui = "poll" \/ \E p \in Producers : notify[p] = "send"

(* A producer puts something into the mailbox, and is about to notify.     *)
Mails ==
  \E p \in Producers :
    /\ notify[p] = "none" /\ notify' = [notify EXCEPT ![p] = "swap"]
    /\ UNCHANGED <<pending, wakes>>

LEMMA WhoMails ==
  ASSUME TypeOK, [Next]_vars
  PROVE  \/ UNCHANGED ui /\ (Mails \/ UNCHANGED <<mailbox, waking>>)
         \/ \E p \in Producers : Notify(p)
         \/ Ui \/ Disconnect
<1>1. \A kind : Push(Receiver, kind) \/ Publish(Receiver) =>
        notify' = [notify EXCEPT ![Receiver] = "swap"] /\ UNCHANGED <<pending, wakes>>
  BY DEF Push, Publish
<1>2. notify[Receiver] = "none" /\ (\E kind : Push(Receiver, kind) \/ Publish(Receiver)) => Mails
  BY <1>1 DEF Mails, Producers
<1> USE DEF Outside, screen, Quiet, At, Go, Fail
<1>3. CASE Top \/ RefuseQuality \/ ConnectFails \/ Connects \/ Register \/ RegisterFails \/ Announce
  BY <1>2, <1>3 DEF Top, RefuseQuality, ConnectFails, Connects, Register, RegisterFails, Announce
<1>4. CASE CheckCancel \/ Join \/ RegisterPipeline \/ ForgetPipeline \/ WaitForRetry \/ Lost
  BY <1>2, <1>4 DEF CheckCancel, Join, RegisterPipeline, ForgetPipeline, WaitForRetry, Lost
<1>5. CASE FrameArrives \/ ClipboardArrives \/ MediaArrives \/ NextEventFails \/ TimePasses
  BY <1>2, <1>5 DEF FrameArrives, ClipboardArrives, MediaArrives, NextEventFails, TimePasses
<1>6. ASSUME NEW g \in Pipelines, Pipeline(g)
      PROVE  UNCHANGED ui /\ (Mails \/ UNCHANGED <<mailbox, waking>>)
  <2>1. notify[g] = "none" /\ UNCHANGED ui /\ (OnFrame(g) \/ Quiet)
    BY <1>6 DEF Pipeline, PipelineWorks, PipelineFlushes
  <2>2. OnFrame(g) => \/ Quiet
                      \/ notify' = [notify EXCEPT ![g] = "swap"] /\ UNCHANGED <<pending, wakes>>
    BY DEF OnFrame, Show, Push
  <2>3. g \in Producers
    BY DEF Producers
  <2> QED
    BY <2>1, <2>2, <2>3 DEF Mails
<1>7. CASE UNCHANGED vars
  BY <1>7 DEF vars
<1> QED
  BY <1>3, <1>4, <1>5, <1>6, <1>7 DEF Next, Work

LEMMA WakesNext ==
  ASSUME Control, PendingMeansComing, MailboxWakes, [Next]_vars
  PROVE  PendingMeansComing' /\ MailboxWakes'
<1>1. /\ notify \in [Producers -> {"none", "swap", "send"}] /\ wakes \in Nat
      /\ TypeOK /\ pending \in BOOLEAN /\ frame \in BOOLEAN
  BY DEF Control, TypeOK
<1> USE DEF PendingMeansComing, MailboxWakes, Looking, Coming
<1>2. CASE UNCHANGED ui /\ Mails
  <2>1. PICK p \in Producers :
          /\ notify[p] = "none" /\ notify' = [notify EXCEPT ![p] = "swap"]
          /\ UNCHANGED <<pending, wakes>>
    BY <1>2 DEF Mails
  <2>2. notify'[p] = "swap" /\ \A o \in Producers : notify[o] = "send" => notify'[o] = "send"
    BY <1>1, <2>1
  <2> QED
    BY <1>1, <1>2, <2>1, <2>2
<1>3. CASE UNCHANGED ui /\ UNCHANGED <<mailbox, waking>>
  BY <1>1, <1>3 DEF mailbox, waking
<1>4. ASSUME NEW p \in Producers, Swap(p)
      PROVE  PendingMeansComing' /\ MailboxWakes'
  <2>1. CASE pending
    <3>1. /\ notify' = [notify EXCEPT ![p] = "none"] /\ notify[p] = "swap"
          /\ UNCHANGED <<wakes, ui, mailbox>>
      BY <1>4, <2>1 DEF Swap, screen
    <3>2. \A o \in Producers : notify[o] = "send" => notify'[o] = "send"
      BY <1>1, <3>1
    <3> QED
      BY <1>1, <2>1, <3>1, <3>2 DEF mailbox
  <2>2. CASE ~pending
    <3>1. /\ notify' = [notify EXCEPT ![p] = "send"]
          /\ UNCHANGED <<wakes, ui, mailbox>>
      BY <1>4, <2>2 DEF Swap, screen
    <3>2. notify'[p] = "send"
      BY <1>1, <3>1
    <3> QED
      BY <1>1, <3>1, <3>2 DEF mailbox
  <2> QED
    BY <2>1, <2>2
<1>5. ASSUME NEW p \in Producers, SendWake(p)
      PROVE  PendingMeansComing' /\ MailboxWakes'
  <2>1. wakes' > 0
    BY <1>1, <1>5 DEF SendWake
  <2> QED
    BY <2>1
<1>6. CASE WakeUp
  BY <1>1, <1>6 DEF WakeUp, mailbox
<1>7. CASE Acknowledge
  BY <1>1, <1>7 DEF Acknowledge, mailbox
<1>8. CASE Drain
  BY <1>1, <1>8 DEF Drain, waking
<1>9. CASE Draw
  BY <1>1, <1>9 DEF Draw, waking
<1>10. CASE TakeStop \/ Unblock \/ JoinWorker \/ Disconnect
  BY <1>10 DEF TakeStop, Unblock, JoinWorker, Disconnect
<1> QED
  BY <1>1, <1>2, <1>3, <1>4, <1>5, <1>6, <1>7, <1>8, <1>9, <1>10, WhoMails DEF Notify, Ui

-----------------------------------------------------------------------------
(* What the window is told *)

UpNow == Up(events, shown, input, session)
DownNow(s) == Down(events, shown, input, s)

Tells ==
  ui # "gone" =>
    /\ worker \in {"loop", "event", "join", "publish", "forget", "lost"} => UpNow
    /\ worker \in {"retry", "top", "connect"} => DownNow(session)
    /\ worker \in {"register", "announce"} => session > 0 /\ DownNow(session - 1)
    /\ worker = "announced" => Between(events, shown, input, session)
    /\ worker = "exit" => UpNow \/ DownNow(session)
    /\ worker = "top" /\ ~reconnecting => events = <<>> /\ input = 0

FailureTold == worker = "exit" /\ ~cancel => Told(events, shown)

LEMMA PushEvent ==
  ASSUME Control, NEW kind \in Kinds,
         events' = Coalesced(events, [kind |-> kind, of |-> session])
  PROVE  LET e == [kind |-> kind, of |-> session]
         IN  /\ events \in Seq(Event) /\ events' \in Seq(Event) /\ e \in Event
             /\ OnePerClass(events) /\ session \in Nat
             /\ \E k \in Int : Pushed(events, e, events', k)
<1> DEFINE e == [kind |-> kind, of |-> session]
<1>1. events \in Seq(Event) /\ OnePerClass(events) /\ TypeOK /\ session \in Nat
  BY RuntimeAssumption DEF Control, TypeOK
<1>2. e \in Event
  BY <1>1, EventOf
<1> HIDE DEF e
<1>3. events' = Coalesced(events, e)
  BY DEF e
<1>4. events' \in Seq(Event) /\ \E k \in 1 .. Len(events) + 1 : Pushed(events, e, events', k)
  BY <1>1, <1>2, <1>3, CoalescedIsPushed
<1>5. Len(events) \in Nat
  BY <1>1
<1>6. \E k \in Int : Pushed(events, e, events', k)
  BY <1>4, <1>5
<1> QED
  BY <1>1, <1>2, <1>4, <1>6 DEF e

LEMMA NeutralTells ==
  ASSUME Control, NEW kind \in Neutral,
         events' = Coalesced(events, [kind |-> kind, of |-> session]),
         UNCHANGED <<session, shown, input>>
  PROVE  /\ UpNow => UpNow'
         /\ DownNow(session) => DownNow(session)'
         /\ Told(events, shown) => Told(events, shown)'
<1> DEFINE e == [kind |-> kind, of |-> session]
<1>1. kind \in Kinds /\ e.kind = kind
  BY DEF Neutral, Kinds
<1>2. /\ events \in Seq(Event) /\ events' \in Seq(Event) /\ e \in Event /\ session \in Nat
      /\ \E k \in Int : Pushed(events, e, events', k)
  BY <1>1, PushEvent
<1> HIDE DEF e
<1>3. PICK k \in Int : Pushed(events, e, events', k)
  BY <1>2
<1>4. /\ Up(events, shown, input, session) => Up(events', shown, input, session)
      /\ Down(events, shown, input, session) => Down(events', shown, input, session)
      /\ Told(events, shown) => Told(events', shown)
  <2>1. e.kind \in Neutral /\ session \in Int
    BY <1>1, <1>2
  <2> QED
    BY <1>2, <1>3, <2>1, PushNeutral
<1> QED
  BY <1>4 DEF UpNow, DownNow

LEMMA LossTells ==
  ASSUME Control, NEW kind \in Losses, Push(Receiver, kind), UNCHANGED <<session, shown, input>>
  PROVE  /\ DownNow(session)'
         /\ kind = "failed" => Told(events, shown)'
<1> DEFINE e == [kind |-> kind, of |-> session]
<1>1. kind \in Kinds /\ e.kind = kind /\ e.of = session
  BY DEF Losses, Kinds, States
<1>2. /\ events \in Seq(Event) /\ events' \in Seq(Event) /\ e \in Event /\ session \in Nat
      /\ OnePerClass(events) /\ \E k \in Int : Pushed(events, e, events', k)
  BY <1>1, PushEvent DEF Push
<1> HIDE DEF e
<1>3. PICK k \in Int : Pushed(events, e, events', k)
  BY <1>2
<1>4. Down(events', shown, input, session) /\ (e.kind = "failed" => Told(events', shown))
  <2>1. e.kind \in Losses /\ e.of <= session /\ session \in Int
    BY <1>1, <1>2
  <2> QED
    BY <1>2, <1>3, <2>1, PushLoss
<1> QED
  BY <1>1, <1>4 DEF DownNow

LEMMA InputTells ==
  ASSUME Control, Push(Receiver, "input"), UNCHANGED <<session, shown, input>>,
         DownNow(session - 1)
  PROVE  Between(events, shown, input, session)'
<1> DEFINE e == [kind |-> "input", of |-> session]
<1>1. "input" \in Kinds /\ e.kind = "input" /\ e.of = session
  BY AllKinds
<1>2. /\ events \in Seq(Event) /\ events' \in Seq(Event) /\ e \in Event /\ session \in Nat
      /\ OnePerClass(events) /\ \E k \in Int : Pushed(events, e, events', k)
  BY <1>1, PushEvent DEF Push
<1> HIDE DEF e
<1>3. PICK k \in Int : Pushed(events, e, events', k)
  BY <1>2
<1>4. shown.of \in Int
  BY RuntimeAssumption DEF Control, TypeOK, Shown
<1>5. Between(events', shown, input, session)
  BY <1>1, <1>2, <1>3, <1>4, PushInput DEF DownNow
<1> QED
  BY <1>5

LEMMA ConnectedTells ==
  ASSUME Control, Push(Receiver, "connected"), UNCHANGED <<session, shown, input>>,
         Between(events, shown, input, session)
  PROVE  UpNow'
<1> DEFINE e == [kind |-> "connected", of |-> session]
<1>1. "connected" \in Kinds /\ e.kind = "connected" /\ e.of = session
  BY AllKinds
<1>2. /\ events \in Seq(Event) /\ events' \in Seq(Event) /\ e \in Event /\ session \in Nat
      /\ OnePerClass(events) /\ \E k \in Int : Pushed(events, e, events', k)
  BY <1>1, PushEvent DEF Push
<1> HIDE DEF e
<1>3. PICK k \in Int : Pushed(events, e, events', k)
  BY <1>2
<1>4. Up(events', shown, input, session)
  BY <1>1, <1>2, <1>3, PushConnected
<1> QED
  BY <1>4 DEF UpNow

LEMMA FirstTells ==
  ASSUME Control, Push(Receiver, "connecting"), UNCHANGED <<session, shown, input>>,
         events = <<>>, input = 0
  PROVE  DownNow(session)'
<1> DEFINE e == [kind |-> "connecting", of |-> session]
<1>1. "connecting" \in Kinds /\ e.kind = "connecting" /\ e.of = session
  BY AllKinds
<1>2. /\ events' \in Seq(Event) /\ e \in Event /\ session \in Nat
      /\ \E k \in Int : Pushed(events, e, events', k)
  BY <1>1, PushEvent DEF Push
<1> HIDE DEF e
<1>3. PICK k \in Int : Pushed(<<>>, e, events', k)
  BY <1>2
<1>4. Down(events', shown, input, session)
  BY <1>1, <1>2, <1>3, PushFirst
<1> QED
  BY <1>4 DEF DownNow

LEMMA SameTells ==
  ASSUME UNCHANGED <<events, shown, input, session>>
  PROVE  /\ UpNow' <=> UpNow
         /\ DownNow(session)' <=> DownNow(session)
         /\ DownNow(session - 1)' <=> DownNow(session - 1)
         /\ Between(events, shown, input, session)' <=> Between(events, shown, input, session)
         /\ Told(events, shown)' <=> Told(events, shown)
BY DEF UpNow, DownNow

(* While the worker holds no pipeline, none is running.                    *)
LEMMA NoneRuns ==
  ASSUME Control, avc = 0
  PROVE  Running = {}
BY DEF Control, Holds, Running, Pipelines

(* What a pipeline puts into the mailbox tells of no session.              *)
LEMMA PipelineTells ==
  ASSUME Control, NEW g \in Pipelines, Pipeline(g)
  PROVE  /\ UNCHANGED <<loop, flags, screen>>
         /\ worker \in {"loop", "event", "join", "publish", "exit"}
         /\ UpNow => UpNow'
         /\ DownNow(session) => DownNow(session)'
         /\ Told(events, shown) => Told(events, shown)'
<1>1. UNCHANGED <<loop, flags, screen>> /\ g \in Running
  BY DEF Pipeline, PipelineWorks, PipelineFlushes, Running
<1>2. worker \in {"loop", "event", "join", "publish", "exit"}
  BY <1>1, NoneRuns DEF Control, Holds
<1>3. UNCHANGED <<session, shown, input>>
  BY <1>1 DEF loop, screen
<1>4. events' = events \/ events' = Coalesced(events, [kind |-> "render", of |-> session])
  BY DEF Pipeline, PipelineWorks, PipelineFlushes, OnFrame, Show, Push, Quiet, mailbox
<1>5. "render" \in Neutral
  BY DEF Neutral
<1> QED
  BY <1>1, <1>2, <1>3, <1>4, <1>5, NeutralTells, SameTells

LEMMA DrainKeepsTelling ==
  ASSUME Control, Drain
  PROVE  /\ UpNow => UpNow'
         /\ \A s \in Int : Down(events, shown, input, s) => Down(events', shown', input', s)
         /\ Between(events, shown, input, session) => Between(events, shown, input, session)'
         /\ Told(events, shown) => Told(events, shown)'
<1>1. /\ events \in Seq(Event) /\ OnePerClass(events) /\ shown \in Shown /\ session \in Int
  BY RuntimeAssumption DEF Control, TypeOK
<1>2. /\ events' = <<>> /\ shown' = ShownAfter(events) /\ input' = InputAfter(events)
      /\ session' = session
  BY DEF Drain, UiOnly, loop
<1> QED
  BY <1>1, <1>2, DrainTells DEF UpNow

LEMMA TellsNext ==
  ASSUME Control, Tells, [Next]_vars
  PROVE  Tells'
<1>1. /\ Again /\ Holds /\ JoinedIsOver /\ AttemptsLeft /\ session \in Nat
      /\ reconnecting \in BOOLEAN /\ after \in {"exit", "spawn", "forget"}
      /\ cancel \in BOOLEAN
  BY RuntimeAssumption DEF Control, TypeOK
<1> USE DEF Tells, Outside, flags, screen, At, Go, Fail, Quiet, mailbox
<1>2. /\ "failed" \in Losses /\ "disconnected" \in Losses /\ "reconnecting" \in Losses
      /\ "render" \in Neutral /\ "clipboard" \in Neutral
  BY DEF Losses, Neutral
<1>3. CASE Top
  <2>1. UNCHANGED <<session, shown, input, ui, reconnecting>> /\ worker = "top"
    BY <1>3 DEF Top
  <2>2. CASE cancel
    BY <1>3, <2>1, <2>2, SameTells DEF Top
  <2>3. CASE ~cancel /\ reconnecting
    <3>1. Push(Receiver, "reconnecting") /\ worker' = "connect"
      BY <1>3, <2>3 DEF Top
    <3> QED
      BY <1>2, <2>1, <3>1, LossTells
  <2>4. CASE ~cancel /\ ~reconnecting
    <3>1. Push(Receiver, "connecting") /\ worker' = "connect"
      BY <1>3, <2>4 DEF Top
    <3> QED
      BY <2>1, <2>4, <3>1, FirstTells
  <2> QED
    BY <2>2, <2>3, <2>4
<1>4. ASSUME Push(Receiver, "failed"), UNCHANGED <<session, shown, input, ui>>, worker' = "exit",
             ui # "gone"
      PROVE  Tells'
  BY <1>2, <1>4, LossTells
<1>5. CASE RefuseQuality
  BY <1>1, <1>4, <1>5 DEF RefuseQuality, JoinedIsOver
<1>6. CASE ConnectFails
  <2>1. UNCHANGED <<session, shown, input, ui>> /\ worker = "connect"
    BY <1>6 DEF ConnectFails
  <2>2. CASE GivesUp(attempts')
    BY <1>1, <1>4, <1>6, <2>1, <2>2 DEF ConnectFails, JoinedIsOver
  <2>3. CASE ~GivesUp(attempts')
    BY <1>6, <2>1, <2>3, SameTells DEF ConnectFails
  <2> QED
    BY <2>2, <2>3
<1>7. CASE Connects
  <2>1. /\ UNCHANGED <<events, shown, input, ui>> /\ session' = session + 1
        /\ worker = "connect" /\ worker' = "register"
    BY <1>7 DEF Connects
  <2>2. session' > 0 /\ session' - 1 = session
    BY <1>1, <2>1
  <2>3. ui # "gone" => Down(events', shown', input', session)
    BY <2>1 DEF DownNow
  <2> QED
    BY <2>1, <2>2, <2>3 DEF DownNow
<1>8. CASE Register
  BY <1>8, SameTells DEF Register
<1>9. CASE RegisterFails
  BY <1>1, <1>4, <1>9 DEF RegisterFails, JoinedIsOver
<1>10. CASE Announce
  <2>1. UNCHANGED <<session, shown, input, ui>>
    BY <1>10 DEF Announce
  <2>2. CASE At("announce") /\ Push(Receiver, "input") /\ Go("announced")
    BY <2>1, <2>2, InputTells
  <2>3. CASE At("announced") /\ Push(Receiver, "connected") /\ Go("loop")
    BY <2>1, <2>3, ConnectedTells
  <2> QED
    BY <1>10, <2>2, <2>3 DEF Announce
<1>11. CASE CheckCancel
  BY <1>11, SameTells DEF CheckCancel, StopPipeline
<1>12. CASE Join
  BY <1>1, <1>12, SameTells DEF Join
<1>13. CASE RegisterPipeline \/ ForgetPipeline
  BY <1>13, SameTells DEF RegisterPipeline, ForgetPipeline
<1>14. ASSUME worker = "event", worker' = "loop", UNCHANGED <<session, shown, input, ui>>,
              \/ Quiet \/ Publish(Receiver)
              \/ Push(Receiver, "render") \/ Push(Receiver, "clipboard")
       PROVE  Tells'
  <2>1. UpNow => UpNow'
    BY <1>2, <1>14, NeutralTells, SameTells DEF Push, Publish
  <2> QED
    BY <1>14, <2>1
<1>15. CASE FrameArrives
  <2>1. UNCHANGED <<session, shown, input, ui>> /\ worker = "event"
    BY <1>15 DEF FrameArrives
  <2>2. CASE TooLate
    BY <1>1, <1>4, <1>15, <2>1, <2>2 DEF FrameArrives, JoinedIsOver
  <2>3. CASE ~TooLate
    BY <1>14, <1>15, <2>1, <2>3 DEF FrameArrives
  <2> QED
    BY <2>2, <2>3
<1>16. CASE ClipboardArrives
  BY <1>14, <1>16 DEF ClipboardArrives
<1>17. CASE MediaArrives
  <2>1. UNCHANGED <<session, shown, input, ui>> /\ worker = "event"
    BY <1>17 DEF MediaArrives
  <2>2. CASE Fail
    BY <1>1, <1>4, <2>1, <2>2 DEF JoinedIsOver
  <2>3. CASE Quiet /\ StopPipeline("spawn")
    BY <2>1, <2>3, SameTells DEF StopPipeline
  <2> QED
    BY <1>17, <2>2, <2>3 DEF MediaArrives
<1>18. CASE NextEventFails
  <2>1. UNCHANGED <<session, shown, input, ui>> /\ worker = "event"
    BY <1>18 DEF NextEventFails
  <2>2. CASE TooLate
    BY <1>1, <1>4, <1>18, <2>1, <2>2 DEF NextEventFails, JoinedIsOver
  <2>3. CASE ~TooLate
    BY <1>18, <2>1, <2>3, SameTells DEF NextEventFails, StopPipeline
  <2> QED
    BY <2>2, <2>3
<1>19. CASE Lost
  BY <1>2, <1>19, LossTells DEF Lost
<1>20. CASE WaitForRetry
  BY <1>1, <1>20, SameTells DEF WaitForRetry, Again
<1>21. CASE TimePasses
  BY <1>21, SameTells DEF TimePasses
<1>22. ASSUME NEW p \in Producers, Notify(p) PROVE Tells'
  BY <1>22, SameTells DEF Notify, Swap, SendWake, loop
<1>23. ASSUME NEW g \in Pipelines, Pipeline(g) PROVE Tells'
  BY <1>23, PipelineTells DEF loop
<1>24. CASE Drain
  <2>1. /\ UNCHANGED <<worker, session, reconnecting>> /\ ui = "drain" /\ ui' = "draw"
        /\ events' = <<>> /\ input' = InputAfter(events)
    BY <1>24 DEF Drain, UiOnly, loop
  <2>2. events = <<>> => InputAfter(events) = input
    <3>1. OnePerClass(<<>>) /\ Places(<<>>) = {} /\ <<>> \in Seq(Event)
      BY DEF OnePerClass, Places
    <3> QED
      BY <3>1, DrainedInput
  <2>3. session \in Int /\ session - 1 \in Int
    BY <1>1
  <2>4. /\ UpNow => UpNow'
        /\ DownNow(session) => DownNow(session)'
        /\ DownNow(session - 1) => DownNow(session - 1)'
        /\ Between(events, shown, input, session) => Between(events, shown, input, session)'
    BY <1>24, <2>1, <2>3, DrainKeepsTelling DEF DownNow
  <2> QED
    BY <2>1, <2>2, <2>4
<1>25. CASE JoinWorker
  BY <1>25 DEF JoinWorker
<1>26. CASE WakeUp \/ Acknowledge \/ Draw \/ TakeStop \/ Unblock \/ Disconnect
  BY <1>26, SameTells DEF WakeUp, Acknowledge, Draw, TakeStop, Unblock, Disconnect, UiOnly, loop
<1>27. CASE UNCHANGED vars
  BY <1>27, SameTells DEF vars, loop
<1> QED
  BY <1>3, <1>5, <1>6, <1>7, <1>8, <1>9, <1>10, <1>11, <1>12, <1>13, <1>15, <1>16, <1>17,
     <1>18, <1>19, <1>20, <1>21, <1>22, <1>23, <1>24, <1>25, <1>26, <1>27 DEF Next, Work, Ui

LEMMA FailureNext ==
  ASSUME Control, FailureTold, [Next]_vars
  PROVE  FailureTold'
<1>1. /\ Holds /\ AsCancelled /\ after \in {"exit", "spawn", "forget"}
      /\ cancel \in BOOLEAN /\ "failed" \in Losses
  BY DEF Control, TypeOK, Losses
<1> USE DEF FailureTold, Outside, flags, screen, At, Go, Quiet, mailbox
<1>2. Fail /\ UNCHANGED <<session, shown, input>> => FailureTold'
  BY <1>1, LossTells DEF Fail
<1>3. CASE Top
  BY <1>3 DEF Top
<1>4. CASE RefuseQuality \/ ConnectFails \/ RegisterFails
  BY <1>2, <1>4 DEF RefuseQuality, ConnectFails, RegisterFails
<1>5. CASE Connects \/ Register \/ Announce \/ RegisterPipeline \/ ForgetPipeline \/ Lost
  BY <1>5 DEF Connects, Register, Announce, RegisterPipeline, ForgetPipeline, Lost
<1>6. CASE CheckCancel
  BY <1>6 DEF CheckCancel, StopPipeline
<1>7. CASE Join
  BY <1>1, <1>7 DEF Join, Holds
<1>8. CASE FrameArrives \/ ClipboardArrives \/ MediaArrives \/ NextEventFails
  BY <1>2, <1>8 DEF FrameArrives, ClipboardArrives, MediaArrives, NextEventFails, StopPipeline
<1>9. CASE WaitForRetry
  BY <1>9 DEF WaitForRetry
<1>10. CASE TimePasses
  BY <1>10 DEF TimePasses
<1>11. ASSUME NEW p \in Producers, Notify(p) PROVE FailureTold'
  BY <1>11, SameTells DEF Notify, Swap, SendWake, loop
<1>12. ASSUME NEW g \in Pipelines, Pipeline(g) PROVE FailureTold'
  BY <1>12, PipelineTells DEF loop
<1>13. CASE Drain
  BY <1>13, DrainKeepsTelling DEF Drain, UiOnly, loop
<1>14. CASE JoinWorker
  BY <1>1, <1>14 DEF JoinWorker, AsCancelled, Disconnecting
<1>15. CASE WakeUp \/ Acknowledge \/ Draw \/ TakeStop \/ Unblock \/ Disconnect
  BY <1>15, SameTells DEF WakeUp, Acknowledge, Draw, TakeStop, Unblock, Disconnect, UiOnly, loop
<1>16. CASE UNCHANGED vars
  BY <1>16, SameTells DEF vars, loop
<1> QED
  BY <1>3, <1>4, <1>5, <1>6, <1>7, <1>8, <1>9, <1>10, <1>11, <1>12, <1>13, <1>14, <1>15, <1>16
     DEF Next, Work, Ui

-----------------------------------------------------------------------------
(* The theorems *)

(* Only drain and the end of disconnect change what the window shows.      *)
LEMMA ShownNext ==
  ASSUME TypeOK, [Next]_vars
  PROVE  UNCHANGED <<shown, input>> \/ Drain \/ JoinWorker
<1> USE DEF Outside, screen
<1>1. CASE Work
  BY <1>1 DEF Work, Top, ConnectFails, Register, Announce, CheckCancel, Join, RegisterPipeline,
              ForgetPipeline, Lost, WaitForRetry
<1>2. CASE RefuseQuality \/ Connects \/ RegisterFails \/ FrameArrives \/ ClipboardArrives
           \/ MediaArrives \/ NextEventFails \/ TimePasses
  BY <1>2 DEF RefuseQuality, Connects, RegisterFails, FrameArrives, ClipboardArrives,
              MediaArrives, NextEventFails, TimePasses
<1>3. (\E p \in Producers : Notify(p)) => UNCHANGED <<shown, input>>
  BY DEF Notify, Swap, SendWake
<1>4. (\E g \in Pipelines : Pipeline(g)) => UNCHANGED <<shown, input>>
  BY DEF Pipeline, PipelineWorks, PipelineFlushes
<1>5. CASE Ui \/ Disconnect
  BY <1>5 DEF Ui, WakeUp, Acknowledge, Draw, TakeStop, Unblock, Disconnect
<1>6. CASE UNCHANGED vars
  BY <1>6 DEF vars
<1> QED
  BY <1>1, <1>2, <1>3, <1>4, <1>5, <1>6 DEF Next

LEMMA AgreesNext ==
  ASSUME Control, Tells, Tells', ShownInputAgrees, [Next]_vars
  PROVE  ShownInputAgrees'
<1>1. TypeOK /\ TypeOK' /\ session \in Nat
  <2>1. Control'
    BY ControlNext
  <2>2. TypeOK
    BY DEF Control
  <2>3. TypeOK'
    BY <2>1 DEF Control
  <2>4. session \in Nat
    BY <2>2, RuntimeAssumption DEF TypeOK
  <2> QED
    BY <2>2, <2>3, <2>4
<1>2. CASE UNCHANGED <<shown, input>>
  BY <1>2 DEF ShownInputAgrees
<1>3. CASE Drain
  <2>1. events' = <<>> /\ ui' = "draw"
    BY <1>3 DEF Drain
  <2>2. Places(events') = {}
    BY <2>1 DEF Places
  <2>3. \/ UpNow' \/ DownNow(session)' \/ DownNow(session - 1)'
        \/ Between(events, shown, input, session)'
    BY <1>1, <2>1 DEF Tells, TypeOK
  <2>4. "connected" \notin Losses
    BY DEF Losses
  <2>5. CASE UpNow'
    BY <2>2, <2>4, <2>5 DEF UpNow, Up, ShownInputAgrees
  <2>6. CASE DownNow(session)' \/ DownNow(session - 1)'
    BY <2>2, <2>6 DEF DownNow, Down, ShownInputAgrees
  <2>7. CASE Between(events, shown, input, session)'
    BY <2>2, <2>7 DEF Between, ShownInputAgrees
  <2> QED
    BY <2>3, <2>5, <2>6, <2>7
<1>4. CASE JoinWorker
  BY <1>4 DEF JoinWorker, ShownInputAgrees, Losses
<1> QED
  BY <1>1, <1>2, <1>3, <1>4, ShownNext

IInv ==
  /\ Control
  /\ PendingMeansComing /\ MailboxWakes
  /\ Tells /\ FailureTold
  /\ ShownInputAgrees

LEMMA InitIInv == Init => IInv
<1> SUFFICES ASSUME Init PROVE IInv
  OBVIOUS
<1>1. Control
  BY InitControl
<1>2. PendingMeansComing /\ MailboxWakes
  BY DEF Init, PendingMeansComing, MailboxWakes
<1>3. Places(<<>>) = {}
  BY DEF Places
<1>4. Down(<<>>, shown, 0, 0)
  BY <1>3 DEF Init, Down
<1>5. Tells
  BY <1>4 DEF Init, Tells, DownNow
<1>6. FailureTold /\ ShownInputAgrees
  BY DEF Init, FailureTold, ShownInputAgrees
<1> QED
  BY <1>1, <1>2, <1>5, <1>6 DEF IInv

LEMMA NextIInv == IInv /\ [Next]_vars => IInv'
BY ControlNext, WakesNext, TellsNext, FailureNext, AgreesNext DEF IInv

LEMMA Invariant == Spec => []IInv
BY InitIInv, NextIInv, PTL DEF Spec

(* The types of all variables; no more events are queued than the mailbox  *)
(* holds.                                                                  *)
THEOREM TypesHold == Spec => []TypeOK
<1>1. IInv => TypeOK
  BY DEF IInv, Control
<1> QED
  BY <1>1, Invariant, PTL

(* Whatever events replace each other in the mailbox, and whenever the     *)
(* window drains it: a window that shows a connection sends its input to   *)
(* it, and one that shows a loss sends none to what was lost.              *)
THEOREM ShownAndInputAgree == Spec => []ShownInputAgrees
<1>1. IInv => ShownInputAgrees
  BY DEF IInv
<1> QED
  BY <1>1, Invariant, PTL

(* The pending flag and the channel never lose a wake-up, for any number   *)
(* of producers.                                                           *)
THEOREM NoWakeIsLost == Spec => []MailboxWakes
<1>1. IInv => MailboxWakes
  BY DEF IInv
<1> QED
  BY <1>1, Invariant, PTL

(* One pipeline runs at a time, and none while there is no session.        *)
THEOREM OneAtATime == Spec => []OnePipeline
<1>1. IInv => OnePipeline
  <2> SUFFICES ASSUME Control PROVE OnePipeline
    BY DEF IInv
  <2>1. Running \subseteq {avc}
    BY DEF Control, Holds
  <2>2. IsFiniteSet({avc}) /\ Cardinality({avc}) = 1
    BY FS_Singleton
  <2>3. Cardinality(Running) <= 1
    BY <2>1, <2>2, FS_Subset
  <2>4. worker \in {"top", "connect", "retry", "lost"} => Running = {}
    BY NoneRuns DEF Control, Holds
  <2> QED
    BY <2>3, <2>4 DEF OnePipeline
<1> QED
  BY <1>1, Invariant, PTL

(* After disconnect no pipeline runs that has not been told to stop.       *)
THEOREM DisconnectLeavesNothing == Spec => []NothingOutlives
<1>1. IInv => NothingOutlives
  <2> SUFFICES ASSUME Control, ui = "gone" PROVE worker = "exit" /\ Running \subseteq stops
    BY DEF IInv, NothingOutlives
  <2>1. worker = "exit"
    BY DEF Control, JoinedIsOver
  <2>2. \A g \in Running : g = avc /\ avc # 0
    BY DEF Control, Holds, Running, Pipelines
  <2>3. avc # 0 => avc \in stops
    BY <2>1 DEF Control, FlagFound
  <2> QED
    BY <2>1, <2>2, <2>3
<1> QED
  BY <1>1, Invariant, PTL

(* A worker that ends on its own has said why, or its last word is queued. *)
THEOREM ExitIsExplained == Spec => []ExitExplained
<1>1. IInv => ExitExplained
  BY DEF IInv, FailureTold, Told, Places, ExitExplained
<1> QED
  BY <1>1, Invariant, PTL
=============================================================================
