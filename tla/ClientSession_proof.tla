------------------------- MODULE ClientSession_proof ------------------------
(***************************************************************************)
(* Proofs about ClientSession, for any number of sessions, messages and    *)
(* attempts and for records cut anywhere: every message becomes one event  *)
(* of its own session, in order, and the picture never waits for a request *)
(* nobody sent.                                                            *)
(***************************************************************************)
EXTENDS ClientSession, FiniteSetTheorems, SequenceTheorems, WellFoundedInduction, TLAPS

-----------------------------------------------------------------------------
(* The inductive invariant.                                                *)

(* The halves of a session's messages are numbered: half n is Half(n).     *)
Place(h) == 2 * (h.id - 1) + h.part

IsRun(record, from) == \A j \in 1 .. Len(record) : record[j] = Half(from + j)

(* The place before a record's first half, and that of its last half.      *)
Before(record) == Place(record[1]) - 1
EndOf(record) == Before(record) + Len(record)

(* How many halves were read of put ones, if the records w are on the way. *)
ReadOf(w, put) == IF w = <<>> THEN put ELSE Before(w[1])

(* The records w follow each other, up to half put, and hold what was not  *)
(* read.                                                                   *)
RunsTo(w, put) ==
  /\ put \in Nat /\ w \in Seq(Seq(Halves))
  /\ \A i \in 1 .. Len(w) :
       /\ w[i] # <<>> /\ IsRun(w[i], Before(w[i])) /\ EndOf(w[i]) <= put
       /\ i = Len(w) => EndOf(w[i]) = put
       /\ i < Len(w) => Before(w[i + 1]) = EndOf(w[i])
  /\ \A n \in ReadOf(w, put) + 1 .. put :
       \E i \in 1 .. Len(w) : \E j \in 1 .. Len(w[i]) : w[i][j] = Half(n)

ReadHalves == ReadOf(wire, server.put)
ReadMessages == ReadHalves \div 2

(* The client keeps the half of a message whose other half it has not got. *)
Kept(read) == IF read % 2 = 1 THEN <<Half(read)>> ELSE <<>>

Clients ==
  [buffer : Seq(Halves), kept : BOOLEAN, pending : Seq(Events), started : BOOLEAN,
   offered : BOOLEAN, key : 0 .. 1, active : BOOLEAN, timed : BOOLEAN, lost : BOOLEAN]

Messages == [kind : Kinds, key : 0 .. MaxMessages]

Servers ==
  [session : 1 .. MaxSessions, up : BOOLEAN, sent : Seq(Messages), put : Nat,
   asked : BOOLEAN, armed : BOOLEAN, offers : 0 .. 1, answered : 0 .. 1]

Calls ==
  [state : {"idle", "checking", "reading", "retrying", "ended"}, attempts : 0 .. MaxAttempts]

Shapes ==
  /\ config \in [automatic : BOOLEAN, media : BOOLEAN]
  /\ server \in Servers /\ client \in Clients /\ call \in Calls
  /\ writer \in {"ok", "failed"} /\ told \in Seq(Events)
  /\ Len(server.sent) <= MaxMessages /\ Len(client.buffer) <= 1
  /\ client.key <= server.offers

(* The server is offered one stream at most and so sends one reply at most. *)
IsReply(sent, id) == sent[id].kind \in {"answer", "refusal"}

RepliesAgree(sent, answered) ==
  /\ \A id \in DOMAIN sent : IsReply(sent, id) => sent[id].key = 1 /\ answered = 1
  /\ \A i, j \in DOMAIN sent : IsReply(sent, i) /\ IsReply(sent, j) => i = j

ServerInv ==
  /\ server.put <= 2 * Len(server.sent) /\ server.answered <= server.offers
  /\ RepliesAgree(server.sent, server.answered)

(* A client holds the keys of its offer until it has handled the reply; it *)
(* has handled the messages up to the last.                                *)
OfferAgrees(c, offers, sent, answered, last) ==
  /\ c.offered <=> offers = 1
  /\ c.offered /\ answered = 0 => c.key = 1
  /\ \A id \in DOMAIN sent : id > last /\ IsReply(sent, id) => c.key = 1
  /\ c.key # None \/ c.active => c.offered

ClientInv ==
  /\ client.buffer = Kept(ReadHalves)
  /\ OfferAgrees(client, server.offers, server.sent, server.answered, ReadMessages)
  /\ client.started => config.automatic /\ server.armed

(* Without an offer, the client waits for a picture that will come.        *)
PictureInv ==
  server.up /\ ~client.lost /\ ~client.offered =>
    \/ server.asked \/ server.armed
    \/ \E id \in DOMAIN server.sent : id > ReadMessages /\ server.sent[id].kind = "frame"

PendingInv == call.state \in {"reading", "retrying"} => client.pending = <<>>

(* An event is made of messages of its kind, after the first and up to the *)
(* last; a stream has the keys of the offer that was answered.             *)
KindOf(sent, id) == IF sent[id].kind = "answer" THEN "stream" ELSE sent[id].kind

Made(sent, session, e, first, last) ==
  /\ e.session = session /\ e.ids # <<>>
  /\ \A k \in DOMAIN e.ids :
       /\ e.ids[k] \in DOMAIN sent /\ first < e.ids[k] /\ e.ids[k] <= last
       /\ KindOf(sent, e.ids[k]) = e.kind
  /\ e.kind = "stream" => e.key = sent[e.ids[1]].key

Ordered(s) == \A i, j \in DOMAIN s : i < j => s[i].ids[1] < s[j].ids[1]

(* No message is in two events of s. *)
Apart(s) ==
  \A i, j \in DOMAIN s : \A k \in DOMAIN s[i].ids, l \in DOMAIN s[j].ids :
    s[i].ids[k] = s[j].ids[l] => i = j

Tells(sent, session, s, first, last) ==
  /\ \A i \in DOMAIN s : Made(sent, session, s[i], first, last)
  /\ Ordered(s) /\ Apart(s)

(* The kinds of messages that become events, and that all of them do.      *)
Telling == {"frame", "notice", "answer"}

In(id, e) == \E k \in DOMAIN e.ids : e.ids[k] = id

TellsAll(sent, s, first, last) ==
  \A id \in DOMAIN sent :
    first < id /\ id <= last /\ sent[id].kind \in Telling => \E i \in DOMAIN s : In(id, s[i])

ToldInv ==
  /\ Tells(server.sent, server.session, Told, 0, ReadMessages)
  /\ call.state # "ended" /\ ~client.lost => TellsAll(server.sent, Told, 0, ReadMessages)

IInv ==
  /\ Shapes /\ RunsTo(wire, server.put) /\ ServerInv
  /\ call.state # "ended" => ClientInv /\ PictureInv
  /\ PendingInv /\ ToldInv

-----------------------------------------------------------------------------
(* Halves and the wire.                                                    *)

LEMMA HalfPlace ==
  ASSUME NEW n \in Nat \ {0}
  PROVE  /\ Place(Half(n)) = n /\ Half(n).id \in Nat \ {0} /\ Half(n).part \in 1 .. 2
         /\ n <= 2 * MaxMessages => Half(n) \in Halves
         /\ Half(2 * n).id = n
  BY ClientAssumption DEF Place, Half, Halves

LEMMA PlaceHalf ==
  ASSUME NEW h \in Halves
  PROVE  Place(h) \in Nat \ {0} /\ Half(Place(h)) = h
  BY ClientAssumption DEF Place, Half, Halves

LEMMA ReadBounds ==
  ASSUME NEW w, NEW put, RunsTo(w, put)
  PROVE  /\ ReadOf(w, put) \in Nat /\ ReadOf(w, put) <= put
         /\ \A i \in 1 .. Len(w) : Before(w[i]) \in Nat /\ Len(w[i]) \in Nat \ {0}
<1>1. ASSUME NEW i \in 1 .. Len(w)
      PROVE  Before(w[i]) \in Nat /\ Len(w[i]) \in Nat \ {0} /\ Before(w[i]) <= put
  <2>1. w[i] \in Seq(Halves) /\ w[i] # <<>> /\ EndOf(w[i]) <= put /\ put \in Nat
    BY DEF RunsTo
  <2>2. w[i][1] \in Halves /\ Len(w[i]) \in Nat \ {0}
    BY <2>1
  <2> QED
    BY <2>1, <2>2, PlaceHalf DEF Before, EndOf
<1>2. CASE w = <<>>
  BY <1>1, <1>2 DEF ReadOf, RunsTo
<1>3. CASE w # <<>>
  <2>1. 1 \in 1 .. Len(w)
    BY <1>3 DEF RunsTo
  <2> QED
    BY <1>1, <1>3, <2>1 DEF ReadOf
<1> QED
  BY <1>2, <1>3

(* A record put on the wire. *)
LEMMA RecordPut ==
  ASSUME NEW w, NEW put, RunsTo(w, put), NEW size \in Nat \ {0}, put + size <= 2 * MaxMessages
  PROVE  LET v == Append(w, [i \in 1 .. size |-> Half(put + i)])
         IN  RunsTo(v, put + size) /\ ReadOf(v, put + size) = ReadOf(w, put)
<1> DEFINE r == [i \in 1 .. size |-> Half(put + i)]
           v == Append(w, r)
<1>0. put \in Nat /\ w \in Seq(Seq(Halves)) /\ Len(w) \in Nat
  BY DEF RunsTo
<1>1. r \in Seq(Halves) /\ Len(r) = size /\ r # <<>> /\ \A j \in 1 .. size : r[j] = Half(put + j)
  <2>1. ASSUME NEW i \in 1 .. size PROVE Half(put + i) \in Halves
    <3>1. put + i \in Nat \ {0} /\ put + i <= 2 * MaxMessages
      BY <1>0, ClientAssumption
    <3> QED
      BY <3>1, HalfPlace
  <2> QED
    BY <2>1
<1>2. Before(r) = put /\ EndOf(r) = put + size /\ IsRun(r, put)
  <2>1. put + 1 \in Nat \ {0} /\ r[1] = Half(put + 1)
    BY <1>0, <1>1
  <2>2. Place(r[1]) = put + 1
    BY <2>1, HalfPlace
  <2> HIDE DEF r
  <2>3. IsRun(r, put)
    BY <1>1 DEF IsRun
  <2> QED
    BY <1>0, <1>1, <2>2, <2>3 DEF Before, EndOf
<1>3. v \in Seq(Seq(Halves)) /\ Len(v) = Len(w) + 1 /\ v[Len(w) + 1] = r
      /\ \A i \in 1 .. Len(w) : v[i] = w[i]
  BY <1>0, <1>1
<1> HIDE DEF r, v
<1>4. v # <<>> /\ ReadOf(v, put + size) = ReadOf(w, put)
  <2>1. v # <<>>
    BY <1>0, <1>3
  <2>2. CASE w = <<>>
    <3>1. v[1] = r
      BY <1>3, <2>2
    <3> QED
      BY <1>2, <2>1, <2>2, <3>1 DEF ReadOf
  <2>3. CASE w # <<>>
    <3>1. 1 \in 1 .. Len(w)
      BY <1>0, <2>3
    <3>2. v[1] = w[1]
      BY <1>3, <3>1
    <3> QED
      BY <2>1, <2>3, <3>2 DEF ReadOf
  <2> QED
    BY <2>1, <2>2, <2>3
<1>5. ASSUME NEW i \in 1 .. Len(v)
      PROVE  /\ v[i] # <<>> /\ IsRun(v[i], Before(v[i])) /\ EndOf(v[i]) <= put + size
             /\ i = Len(v) => EndOf(v[i]) = put + size
             /\ i < Len(v) => Before(v[i + 1]) = EndOf(v[i])
  <2>1. CASE i = Len(w) + 1
    BY <1>0, <1>1, <1>2, <1>3, <2>1
  <2>2. CASE i \in 1 .. Len(w)
    <3>1. /\ w[i] # <<>> /\ IsRun(w[i], Before(w[i])) /\ EndOf(w[i]) <= put
          /\ i = Len(w) => EndOf(w[i]) = put
          /\ i < Len(w) => Before(w[i + 1]) = EndOf(w[i])
      BY <2>2 DEF RunsTo
    <3>2. EndOf(w[i]) \in Int
      BY <2>2, ReadBounds DEF EndOf
    <3>3. CASE i = Len(w)
      <4>1. i < Len(v) /\ i # Len(v) /\ v[i] = w[i] /\ v[i + 1] = r
        BY <1>0, <1>3, <3>3
      <4> QED
        BY <1>0, <1>2, <3>1, <3>2, <3>3, <4>1
    <3>4. CASE i # Len(w)
      <4>0. i < Len(w) /\ i # Len(v) /\ i + 1 \in 1 .. Len(w)
        <5>1. Len(w) \in Nat /\ Len(v) = Len(w) + 1
          BY <1>0, <1>3
        <5> QED
          BY <2>2, <3>4, <5>1
      <4>1. i < Len(w) /\ i # Len(v) /\ v[i] = w[i] /\ v[i + 1] = w[i + 1]
        BY <1>3, <2>2, <4>0
      <4> QED
        BY <1>0, <3>1, <3>2, <4>1
    <3> QED
      BY <3>3, <3>4
  <2> QED
    BY <1>0, <1>3, <2>1, <2>2
<1>6. ASSUME NEW n \in ReadOf(v, put + size) + 1 .. put + size
      PROVE  \E i \in 1 .. Len(v) : \E j \in 1 .. Len(v[i]) : v[i][j] = Half(n)
  <2>0. ReadOf(w, put) \in Nat
    BY ReadBounds
  <2>1. CASE n <= put
    <3>1. PICK i \in 1 .. Len(w) : \E j \in 1 .. Len(w[i]) : w[i][j] = Half(n)
      BY <1>0, <1>4, <2>0, <2>1 DEF RunsTo
    <3>2. i \in 1 .. Len(v) /\ v[i] = w[i]
      BY <1>0, <1>3
    <3> QED
      BY <3>1, <3>2
  <2>2. CASE n > put
    <3>1. n - put \in 1 .. Len(r) /\ r[n - put] = Half(n)
      BY <1>0, <1>1, <2>0, <1>4, <2>2
    <3>2. Len(w) + 1 \in 1 .. Len(v) /\ v[Len(w) + 1] = r
      BY <1>0, <1>3
    <3> QED
      BY <3>1, <3>2
  <2> QED
    BY <1>0, <1>4, <2>0, <2>1, <2>2
<1>7. RunsTo(v, put + size)
  BY <1>0, <1>3, <1>5, <1>6 DEF RunsTo
<1> QED
  BY <1>4, <1>7 DEF v, r

(* A record taken off the wire. *)
LEMMA RecordTaken ==
  ASSUME NEW w, NEW put, RunsTo(w, put), w # <<>>
  PROVE  /\ RunsTo(Tail(w), put) /\ IsRun(Head(w), ReadOf(w, put)) /\ Head(w) \in Seq(Halves)
         /\ ReadOf(Tail(w), put) = ReadOf(w, put) + Len(Head(w))
<1> DEFINE v == Tail(w)
<1>0. put \in Nat /\ w \in Seq(Seq(Halves)) /\ Len(w) \in Nat \ {0}
  BY DEF RunsTo
<1>1. /\ v \in Seq(Seq(Halves)) /\ Len(v) = Len(w) - 1 /\ Head(w) = w[1]
      /\ \A i \in 1 .. Len(v) : v[i] = w[i + 1]
  BY <1>0
<1> HIDE DEF v
<1>2. /\ w[1] \in Seq(Halves) /\ IsRun(w[1], Before(w[1]))
      /\ 1 = Len(w) => EndOf(w[1]) = put
      /\ 1 < Len(w) => Before(w[1 + 1]) = EndOf(w[1])
  BY <1>0 DEF RunsTo
<1>3. ReadOf(w, put) = Before(w[1])
  BY DEF ReadOf
<1>4. ReadOf(v, put) = EndOf(w[1])
  <2>1. CASE Len(w) = 1
    <3>1. v = <<>>
      BY <1>1, <2>1
    <3> QED
      BY <1>2, <2>1, <3>1 DEF ReadOf
  <2>2. CASE Len(w) # 1
    <3>1. v # <<>> /\ v[1] = w[1 + 1] /\ 1 < Len(w)
      BY <1>0, <1>1, <2>2
    <3> QED
      BY <1>2, <3>1 DEF ReadOf
  <2> QED
    BY <2>1, <2>2
<1>5. ASSUME NEW i \in 1 .. Len(v)
      PROVE  /\ v[i] # <<>> /\ IsRun(v[i], Before(v[i])) /\ EndOf(v[i]) <= put
             /\ i = Len(v) => EndOf(v[i]) = put
             /\ i < Len(v) => Before(v[i + 1]) = EndOf(v[i])
  <2>1. i + 1 \in 1 .. Len(w) /\ v[i] = w[i + 1] /\ (i < Len(v) => v[i + 1] = w[(i + 1) + 1])
    <3>1. i + 1 \in 1 .. Len(w) /\ (i < Len(v) => i + 1 \in 1 .. Len(v))
      BY <1>0, <1>1
    <3> QED
      BY <1>1, <3>1
  <2>2. /\ w[i + 1] # <<>> /\ IsRun(w[i + 1], Before(w[i + 1])) /\ EndOf(w[i + 1]) <= put
        /\ i + 1 = Len(w) => EndOf(w[i + 1]) = put
        /\ i + 1 < Len(w) => Before(w[(i + 1) + 1]) = EndOf(w[i + 1])
    BY <2>1 DEF RunsTo
  <2> QED
    BY <1>0, <1>1, <2>1, <2>2
<1>6. ASSUME NEW n \in ReadOf(v, put) + 1 .. put
      PROVE  \E i \in 1 .. Len(v) : \E j \in 1 .. Len(v[i]) : v[i][j] = Half(n)
  <2>0. Before(w[1]) \in Nat /\ Len(w[1]) \in Nat
    BY <1>0, ReadBounds
  <2>1. n \in ReadOf(w, put) + 1 .. put /\ n > EndOf(w[1])
    BY <1>0, <1>3, <1>4, <2>0 DEF EndOf
  <2>2. PICK i \in 1 .. Len(w) : \E j \in 1 .. Len(w[i]) : w[i][j] = Half(n)
    BY <2>1 DEF RunsTo
  <2>3. i # 1
    <3> SUFFICES ASSUME i = 1 PROVE FALSE
      OBVIOUS
    <3>1. PICK j \in 1 .. Len(w[1]) : w[1][j] = Half(n)
      BY <2>2
    <3>2. Half(n) = Half(Before(w[1]) + j) /\ n \in Nat \ {0} /\ Before(w[1]) + j \in Nat \ {0}
      <4>1. w[1][j] = Half(Before(w[1]) + j)
        BY <1>2, <3>1 DEF IsRun
      <4>2. n \in Nat \ {0}
        BY <1>0, <1>3, <2>0, <2>1
      <4>3. Before(w[1]) + j \in Nat \ {0}
        BY <2>0
      <4> QED
        BY <3>1, <4>1, <4>2, <4>3
    <3>3. n = Before(w[1]) + j
      BY <3>2, HalfPlace
    <3> QED
      BY <2>0, <2>1, <3>1, <3>3 DEF EndOf
  <2>4. i - 1 \in 1 .. Len(v) /\ v[i - 1] = w[i]
    <3>1. i - 1 \in 1 .. Len(v) /\ (i - 1) + 1 = i
      BY <1>0, <1>1, <2>3
    <3> QED
      BY <1>1, <3>1
  <2> QED
    BY <2>2, <2>4
<1> QED
  BY <1>0, <1>1, <1>2, <1>3, <1>4, <1>5, <1>6 DEF RunsTo, v, EndOf

-----------------------------------------------------------------------------
(* The buffer.                                                             *)

LEMMA KeptShape ==
  ASSUME NEW n \in Nat, n <= 2 * MaxMessages
  PROVE  Kept(n) \in Seq(Halves) /\ Len(Kept(n)) = n % 2
<1>1. CASE n % 2 = 1
  <2>1. Half(n) \in Halves
    BY <1>1, HalfPlace
  <2> QED
    BY <1>1, <2>1 DEF Kept
<1>2. CASE n % 2 = 0
  BY <1>2 DEF Kept
<1> QED
  BY <1>1, <1>2

LEMMA Halving ==
  ASSUME NEW n \in Nat
  PROVE  n \div 2 \in Nat /\ n % 2 \in 0 .. 1 /\ n = 2 * (n \div 2) + (n % 2)
<1>1. n \div 2 \in Nat
  OBVIOUS
<1>2. PICK a \in Nat : a = n \div 2
  BY <1>1
<1>3. n = 2 * a \/ n = 2 * a + 1
  BY <1>2
<1>4. n % 2 \in 0 .. 1 /\ (n = 2 * a => n % 2 = 0) /\ (n = 2 * a + 1 => n % 2 = 1)
  OBVIOUS
<1> QED
  BY <1>2, <1>3, <1>4

LEMMA HalfOf ==
  ASSUME NEW a \in Nat, NEW n \in Nat, n = 2 * a \/ n = 2 * a + 1
  PROVE  n \div 2 = a
  OBVIOUS

LEMMA SubSeqOfOne ==
  ASSUME NEW S, NEW s \in Seq(S), NEW n \in 1 .. Len(s)
  PROVE  SubSeq(s, n, n) = <<s[n]>>
<1>1. n \in Int /\ \A i \in n .. n : s[i] \in S
  BY ElementOfSeq
<1>2. /\ SubSeq(s, n, n) \in Seq(S) /\ Len(SubSeq(s, n, n)) = IF n <= n THEN n - n + 1 ELSE 0
      /\ \A i \in 1 .. n - n + 1 : SubSeq(s, n, n)[i] = s[n + i - 1]
  BY <1>1, SubSeqProperties
<1>3. Len(SubSeq(s, n, n)) = 1 /\ SubSeq(s, n, n)[1] = s[n] /\ <<s[n]>> \in Seq(S)
  BY <1>1, <1>2
<1>4. Len(<<s[n]>>) = 1 /\ \A i \in 1 .. 1 : SubSeq(s, n, n)[i] = <<s[n]>>[i]
  BY <1>3
<1> QED
  BY <1>2, <1>3, <1>4, SeqEqual

(* What is in the buffer when a record follows the half that was kept.     *)
LEMMA BufferHolds ==
  ASSUME NEW n \in Nat, NEW record \in Seq(Halves), IsRun(record, n),
         n + Len(record) <= 2 * MaxMessages
  PROVE  LET buffer == Kept(n) \o record
             first == n \div 2
             last == (n + Len(record)) \div 2
         IN  /\ Len(Complete(buffer)) = last - first /\ first <= last
             /\ \A i \in 1 .. last - first : Complete(buffer)[i] = first + i
             /\ Rest(buffer) = Kept(n + Len(record))
<1> DEFINE buffer == Kept(n) \o record
           first == n \div 2
           last == (n + Len(record)) \div 2
<1>a. /\ Len(record) \in Nat /\ n <= 2 * MaxMessages /\ n + Len(record) \in Nat
      /\ MaxMessages \in Nat
  BY ClientAssumption
<1>b. /\ first \in Nat /\ n = 2 * first + (n % 2) /\ n % 2 \in 0 .. 1
      /\ last \in Nat /\ n + Len(record) = 2 * last + ((n + Len(record)) % 2)
      /\ (n + Len(record)) % 2 \in 0 .. 1
  BY <1>a, Halving
<1>0. /\ Kept(n) \in Seq(Halves) /\ Len(Kept(n)) = n % 2 /\ Len(record) \in Nat
      /\ first \in Nat /\ last \in Nat /\ n = 2 * first + (n % 2) /\ n % 2 \in 0 .. 1
      /\ n + Len(record) = 2 * last + ((n + Len(record)) % 2)
      /\ (n + Len(record)) % 2 \in 0 .. 1
  BY <1>a, <1>b, KeptShape
<1>1. /\ buffer \in Seq(Halves) /\ Len(buffer) = (n % 2) + Len(record)
      /\ \A i \in 1 .. Len(buffer) :
           buffer[i] = IF i <= n % 2 THEN Kept(n)[i] ELSE record[i - (n % 2)]
  BY <1>0
<1> HIDE DEF buffer, first, last
<1>2. ASSUME NEW i \in 1 .. Len(buffer)
      PROVE  buffer[i] = Half(2 * first + i)
  <2>1. CASE i <= n % 2
    <3>1. i = 1 /\ n % 2 = 1
      BY <1>0, <2>1
    <3>2. buffer[1] = Half(n)
      <4>1. Kept(n) = <<Half(n)>>
        BY <3>1 DEF Kept
      <4> QED
        BY <1>1, <3>1, <4>1
    <3> QED
      BY <1>0, <3>1, <3>2
  <2>2. CASE i > n % 2
    <3>1. i - (n % 2) \in 1 .. Len(record) /\ buffer[i] = record[i - (n % 2)]
      BY <1>0, <1>1, <2>2
    <3>2. record[i - (n % 2)] = Half(n + (i - (n % 2)))
      BY <3>1 DEF IsRun
    <3>3. n + (i - (n % 2)) = 2 * first + i
      BY <1>0
    <3> QED
      BY <3>1, <3>2, <3>3
  <2> QED
    BY <1>0, <1>1, <2>1, <2>2
<1>3. Len(buffer) \div 2 = last - first /\ first <= last /\ Len(buffer) \in Nat
      /\ Len(buffer) = (n + Len(record)) - 2 * first
  <2>1. Len(buffer) = (n + Len(record)) - 2 * first /\ Len(buffer) \in Nat
    <3> DEFINE odd == n % 2
    <3>1. /\ Len(buffer) = odd + Len(record) /\ n = 2 * first + odd
          /\ odd \in 0 .. 1 /\ first \in Nat /\ Len(record) \in Nat
      BY <1>0, <1>1
    <3> HIDE DEF odd
    <3> QED
      BY <3>1
  <2>2. first <= last /\ last - first \in Nat
    BY <1>0
  <2>3. Len(buffer) = 2 * (last - first) \/ Len(buffer) = 2 * (last - first) + 1
    <3> DEFINE total == n + Len(record)
               odd == total % 2
    <3>1. /\ total = 2 * last + odd /\ odd \in 0 .. 1 /\ last \in Nat /\ first \in Nat
          /\ Len(buffer) = total - 2 * first
      BY <1>0, <2>1
    <3> HIDE DEF total, odd
    <3> QED
      BY <3>1
  <2> QED
    BY <2>1, <2>2, <2>3, HalfOf
<1>4. Len(Complete(buffer)) = last - first
      /\ \A i \in 1 .. last - first : Complete(buffer)[i] = first + i
  <2>1. Len(Complete(buffer)) = last - first
    BY <1>0, <1>3 DEF Complete
  <2>2. ASSUME NEW i \in 1 .. last - first
        PROVE  Complete(buffer)[i] = first + i
    <3>1. 2 * i \in 1 .. Len(buffer) /\ i \in 1 .. Len(buffer) \div 2
      BY <1>0, <1>3
    <3>2. Complete(buffer)[i] = buffer[2 * i].id /\ buffer[2 * i] = Half(2 * first + 2 * i)
      BY <1>2, <3>1 DEF Complete
    <3>3. 2 * first + 2 * i = 2 * (first + i) /\ first + i \in Nat \ {0}
      BY <1>0, <1>3
    <3> QED
      BY <3>2, <3>3, HalfPlace
  <2> QED
    BY <2>1, <2>2
<1>5. Rest(buffer) = Kept(n + Len(record))
  <2> DEFINE m == n + Len(record)
             from == 2 * (Len(buffer) \div 2) + 1
  <2>1. from = 2 * last - 2 * first + 1 /\ m \in Nat /\ m = 2 * last + (m % 2) /\ m % 2 \in 0 .. 1
        /\ Len(buffer) = m - 2 * first
    <3>1. m \in Nat /\ m = 2 * last + (m % 2) /\ m % 2 \in 0 .. 1
      BY <1>a, <1>0
    <3>2. Len(buffer) = m - 2 * first
      BY <1>3
    <3>3. Len(buffer) \div 2 = last - first /\ last \in Nat /\ first \in Nat
      BY <1>0, <1>3
    <3>4. from = 2 * last - 2 * first + 1
      BY <3>3
    <3> QED
      BY <3>1, <3>2, <3>4
  <2>2. CASE m % 2 = 1
    <3>1. from = Len(buffer) /\ from \in 1 .. Len(buffer) /\ 2 * first + from = m
      BY <1>0, <1>3, <2>1, <2>2
    <3> HIDE DEF from
    <3>2. SubSeq(buffer, from, Len(buffer)) = <<buffer[from]>>
      <4>1. SubSeq(buffer, from, from) = <<buffer[from]>>
        BY <1>1, <3>1, SubSeqOfOne
      <4> QED
        BY <3>1, <4>1
    <3>3. buffer[from] = Half(m)
      BY <1>2, <3>1
    <3> QED
      BY <2>2, <3>2, <3>3 DEF Rest, Kept, from
  <2>3. CASE m % 2 = 0
    <3>1. from = Len(buffer) + 1 /\ from \in Nat
      <4>1. /\ from = 2 * last - 2 * first + 1 /\ m = 2 * last /\ Len(buffer) = m - 2 * first
            /\ Len(buffer) \in Nat /\ last \in Nat /\ first \in Nat
        <5>1. Len(buffer) \in Nat /\ last \in Nat /\ first \in Nat /\ m \in Nat
          BY <1>0, <1>3, <2>1
        <5>2. from = 2 * last - 2 * first + 1 /\ m = 2 * last + (m % 2) /\ Len(buffer) = m - 2 * first
          BY <2>1
        <5> HIDE DEF from, m
        <5> QED
          BY <2>3, <5>1, <5>2
      <4> HIDE DEF from, m
      <4> QED
        BY <4>1
    <3> HIDE DEF from
    <3>2. SubSeq(buffer, from, Len(buffer)) = <<>>
      <4>1. Len(buffer) \in Int /\ from \in Int /\ Len(buffer) < from
        BY <1>3, <3>1
      <4> QED
        BY <4>1, SubSeqEmpty
    <3>3. Rest(buffer) = <<>>
      BY <3>2 DEF Rest, from
    <3>4. Kept(m) = <<>>
      BY <2>3 DEF Kept
    <3> QED
      BY <3>3, <3>4
  <2> QED
    BY <2>1, <2>2, <2>3
<1> QED
  BY <1>3, <1>4, <1>5 DEF buffer, first, last

-----------------------------------------------------------------------------
(* The messages of a record, one after the other.                          *)

LEMMA HasFirst ==
  ASSUME NEW S, S \subseteq Nat, S # {}
  PROVE  \E x \in S : \A y \in S : x <= y
<1> DEFINE R == OpToRel(<, Nat)
<1>1. IsWellFoundedOn(R, Nat)
  BY NatLessThanWellFounded
<1>2. \A x, y \in Nat : ~(<<y, x>> \in R) => x <= y
  BY DEF OpToRel
<1> HIDE DEF R
<1>3. PICK x \in S : \A y \in S : ~(<<y, x>> \in R)
  BY <1>1, WFMin
<1> QED
  BY <1>2, <1>3

(* f[i] is what the first i of the messages ids make of base. *)
Steps(base, ids, f, n) ==
  f = [i \in 0 .. n |-> IF i = 0 THEN base ELSE Handle(f[i - 1], ids[i])]

LEMMA StepsExist ==
  ASSUME NEW base, NEW ids, NEW n \in Nat
  PROVE  \E f : Steps(base, ids, f, n)
<1> DEFINE Bad == {m \in Nat : ~\E f : Steps(base, ids, f, m)}
<1> SUFFICES ASSUME Bad # {} PROVE FALSE
  OBVIOUS
<1>1. PICK m \in Bad : \A y \in Bad : m <= y
  BY HasFirst
<1>2. CASE m = 0
  <2> DEFINE f == [i \in 0 .. 0 |-> base]
  <2>1. Steps(base, ids, f, 0)
    BY DEF Steps
  <2> QED
    BY <1>1, <1>2, <2>1
<1>3. CASE m # 0
  <2>1. m - 1 \in Nat /\ m - 1 \notin Bad
    BY <1>1, <1>3
  <2>2. PICK f : Steps(base, ids, f, m - 1)
    BY <2>1
  <2> DEFINE g == [i \in 0 .. m |-> IF i = m THEN Handle(f[m - 1], ids[m]) ELSE f[i]]
  <2>3. Steps(base, ids, g, m)
    BY <1>3, <2>1, <2>2 DEF Steps
  <2> QED
    BY <1>1, <2>3
<1> QED
  BY <1>2, <1>3

LEMMA BatchSteps ==
  ASSUME NEW buffer, NEW n \in Nat, n = Len(Complete(buffer))
  PROVE  \E f : /\ f[0] = Unhandled(buffer) /\ Batch(buffer) = f[n]
                /\ \A i \in 1 .. n : f[i] = Handle(f[i - 1], Complete(buffer)[i])
<1> DEFINE base == Unhandled(buffer)
           ids == Complete(buffer)
           f == CHOOSE g : g = [i \in 0 .. Len(ids) |-> IF i = 0 THEN base ELSE Handle(g[i - 1], ids[i])]
<1>1. \E g : Steps(base, ids, g, Len(ids))
  BY StepsExist
<1>2. \E g : g = [i \in 0 .. Len(ids) |-> IF i = 0 THEN base ELSE Handle(g[i - 1], ids[i])]
  BY <1>1, Zenon DEF Steps
<1>3. f = [i \in 0 .. Len(ids) |-> IF i = 0 THEN base ELSE Handle(f[i - 1], ids[i])]
  BY <1>2, Zenon
<1>4. Batch(buffer) = f[Len(ids)]
  BY DEF Batch
<1> HIDE DEF f, base, ids
<1>5. Len(ids) = n
  BY DEF ids
<1>6. f[0] = base /\ \A i \in 1 .. n : f[i] = Handle(f[i - 1], ids[i])
  BY <1>3, <1>5
<1> QED
  BY <1>4, <1>5, <1>6 DEF base, ids

-----------------------------------------------------------------------------
(* What a batch is when the messages after the first, up to the last, were *)
(* handled.                                                                *)

Batches ==
  [client : Clients, offers : 0 .. 1, events : Seq(Events), at : Nat,
   frames : Seq(1 .. MaxMessages), failed : BOOLEAN]

(* Notices and streams: an event for each. *)
EventsAgree(s, first, last) ==
  /\ \A i \in 1 .. Len(s) :
       Made(server.sent, server.session, s[i], first, last) /\ Len(s[i].ids) = 1 /\ s[i].kind # "frame"
  /\ \A i, j \in 1 .. Len(s) : i < j => s[i].ids[1] < s[j].ids[1]
  /\ \A id \in DOMAIN server.sent :
       first < id /\ id <= last /\ server.sent[id].kind \in {"notice", "answer"} =>
         \E i \in 1 .. Len(s) : s[i].ids[1] = id

(* Frames, and the place of their event among the others.                  *)
FramesAgree(frames, at, s, first, last) ==
  /\ \A k \in 1 .. Len(frames) :
       /\ frames[k] \in DOMAIN server.sent /\ first < frames[k] /\ frames[k] <= last
       /\ server.sent[frames[k]].kind = "frame" /\ frames[1] <= frames[k]
  /\ \A id \in DOMAIN server.sent :
       first < id /\ id <= last /\ server.sent[id].kind = "frame" =>
         \E k \in 1 .. Len(frames) : frames[k] = id
  /\ frames = <<>> => at = 0
  /\ frames # <<>> =>
       /\ at \in 1 .. Len(s) + 1
       /\ \A i \in 1 .. Len(s) : IF i < at THEN s[i].ids[1] < frames[1] ELSE frames[1] < s[i].ids[1]

Agreement(b, first, last) ==
  /\ OfferAgrees(b.client, b.offers, server.sent, server.answered, last)
  /\ EventsAgree(b.events, first, last)
  /\ FramesAgree(b.frames, b.at, b.events, first, last)

SameReader(b, rest) ==
  /\ b \in Batches /\ server.offers <= b.offers
  /\ b.client.buffer = rest /\ b.client.pending = client.pending /\ b.client.started = client.started
  /\ b.client.timed = client.timed /\ b.client.lost = client.lost

Handled(b, rest, first, last) ==
  SameReader(b, rest) /\ (~b.failed => Agreement(b, first, last))

LEMMA SentShape ==
  ASSUME Shapes
  PROVE  /\ DOMAIN server.sent = 1 .. Len(server.sent) /\ Len(server.sent) \in Nat
         /\ Len(server.sent) <= MaxMessages /\ MaxMessages \in Nat
         /\ \A id \in DOMAIN server.sent : server.sent[id] \in Messages /\ id \in 1 .. MaxMessages
         /\ server.session \in 1 .. MaxSessions /\ server.answered \in 0 .. 1
  BY ClientAssumption DEF Shapes, Servers

LEMMA NumbersOf ==
  ASSUME NEW s \in Seq(1 .. MaxMessages)
  PROVE  /\ DOMAIN s = 1 .. Len(s) /\ Len(s) \in Nat
         /\ \A k \in 1 .. Len(s) : s[k] \in Nat
         /\ s # <<>> => 1 \in DOMAIN s
<1>1. DOMAIN s = 1 .. Len(s) /\ Len(s) \in Nat
  BY LenProperties
<1>2. \A k \in 1 .. Len(s) : s[k] \in 1 .. MaxMessages
  BY ElementOfSeq
<1>3. s # <<>> => Len(s) # 0
  BY EmptySeq
<1> QED
  BY <1>1, <1>2, <1>3

LEMMA EventFields ==
  ASSUME NEW e \in Events
  PROVE  /\ e.ids \in Seq(1 .. MaxMessages) /\ DOMAIN e.ids = 1 .. Len(e.ids) /\ Len(e.ids) \in Nat
         /\ \A k \in DOMAIN e.ids : e.ids[k] \in Nat
         /\ e.ids # <<>> => 1 \in DOMAIN e.ids
<1>1. e.ids \in Seq(1 .. MaxMessages)
  BY DEF Events
<1> QED
  BY <1>1, NumbersOf

LEMMA KeysTaken ==
  ASSUME NEW b \in Batches, NEW k \in 0 .. 1
  PROVE  LET o == [b EXCEPT !.offers = k, !.client.offered = TRUE, !.client.key = k]
         IN  /\ o \in Batches /\ o.offers = k /\ o.client = [b.client EXCEPT !.offered = TRUE, !.key = k]
             /\ o.events = b.events /\ o.at = b.at /\ o.frames = b.frames /\ o.failed = b.failed
  BY DEF Batches, Clients

(* An offer made now is not answered. *)
LEMMA OffersKeep ==
  ASSUME Shapes, ServerInv, NEW b, NEW rest, SameReader(b, rest), NEW last \in Nat,
         OfferAgrees(b.client, b.offers, server.sent, server.answered, last)
  PROVE  LET o == Offers(b)
         IN  /\ SameReader(o, rest) /\ o.events = b.events /\ o.at = b.at /\ o.frames = b.frames
             /\ o.client.kept = b.client.kept
             /\ b.failed => o.failed
             /\ OfferAgrees(o.client, o.offers, server.sent, server.answered, last)
<1>1. CASE ~config.media \/ b.client.offered
  BY <1>1 DEF Offers
<1>2. CASE ~(~config.media \/ b.client.offered) /\ writer = "failed"
  <2>1. Offers(b) = [b EXCEPT !.failed = TRUE]
    BY <1>2 DEF Offers
  <2> QED
    BY <2>1 DEF SameReader, Batches, OfferAgrees
<1>3. CASE ~(~config.media \/ b.client.offered) /\ writer # "failed"
  <2>1. b \in Batches /\ b.client \in Clients /\ b.offers = 0 /\ server.offers = 0
    BY <1>3 DEF SameReader, Batches, OfferAgrees, Shapes, Servers
  <2>2. server.answered = 0 /\ \A id \in DOMAIN server.sent : ~IsReply(server.sent, id)
    BY <2>1 DEF ServerInv, RepliesAgree, Shapes, Servers
  <2>3. PICK k \in 0 .. 1 : k = 1
    OBVIOUS
  <2>4. b.offers + 1 = k
    BY <2>1, <2>3
  <2>5. Offers(b) = [b EXCEPT !.offers = @ + 1, !.client.offered = TRUE, !.client.key = b.offers + 1]
    BY <1>3 DEF Offers
  <2>6. Offers(b) = [b EXCEPT !.offers = k, !.client.offered = TRUE, !.client.key = k]
    BY <2>1, <2>4, <2>5 DEF Batches
  <2> DEFINE c == [b.client EXCEPT !.offered = TRUE, !.key = k]
  <2>7. /\ Offers(b) \in Batches /\ Offers(b).offers = k /\ Offers(b).client = c
        /\ Offers(b).events = b.events /\ Offers(b).at = b.at /\ Offers(b).frames = b.frames
        /\ Offers(b).failed = b.failed
    <3> DEFINE o == [b EXCEPT !.offers = k, !.client.offered = TRUE, !.client.key = k]
    <3>1. /\ o \in Batches /\ o.offers = k /\ o.client = c
          /\ o.events = b.events /\ o.at = b.at /\ o.frames = b.frames /\ o.failed = b.failed
      BY <2>1, KeysTaken
    <3> HIDE DEF o, c
    <3>2. Offers(b) = o
      BY <2>6 DEF o
    <3> QED
      BY <3>1, <3>2
  <2>8. /\ c.offered = TRUE /\ c.key = k /\ c.buffer = b.client.buffer
        /\ c.pending = b.client.pending /\ c.started = b.client.started
        /\ c.timed = b.client.timed /\ c.lost = b.client.lost /\ c.kept = b.client.kept
    BY <2>1 DEF Clients
  <2> HIDE DEF c
  <2>9. SameReader(Offers(b), rest)
    BY <2>1, <2>7, <2>8 DEF SameReader
  <2>10. OfferAgrees(Offers(b).client, Offers(b).offers, server.sent, server.answered, last)
    BY <2>2, <2>3, <2>7, <2>8 DEF OfferAgrees
  <2> QED
    BY <2>7, <2>8, <2>9, <2>10
<1> QED
  BY <1>1, <1>2, <1>3

(* A message that becomes an event of its own. *)
LEMMA EventAdded ==
  ASSUME Shapes, NEW s \in Seq(Events), NEW frames \in Seq(1 .. MaxMessages), NEW at \in Nat,
         NEW first \in Nat, NEW last \in Nat, first <= last, last + 1 \in DOMAIN server.sent,
         EventsAgree(s, first, last), FramesAgree(frames, at, s, first, last),
         NEW e \in Events, e.session = server.session, e.ids = <<last + 1>>,
         server.sent[last + 1].kind \in {"notice", "answer"}, e.kind = KindOf(server.sent, last + 1),
         e.kind = "stream" => e.key = server.sent[last + 1].key
  PROVE  /\ EventsAgree(Append(s, e), first, last + 1)
         /\ FramesAgree(frames, at, Append(s, e), first, last + 1)
<1> DEFINE t == Append(s, e)
<1>1. /\ t \in Seq(Events) /\ Len(t) = Len(s) + 1 /\ t[Len(s) + 1] = e /\ Len(s) \in Nat
      /\ \A i \in 1 .. Len(s) : t[i] = s[i]
  OBVIOUS
<1> HIDE DEF t
<1>2. Len(e.ids) = 1 /\ e.ids[1] = last + 1 /\ DOMAIN e.ids = 1 .. 1 /\ e.ids # <<>>
  OBVIOUS
<1>3. \A i \in 1 .. Len(s) : /\ Made(server.sent, server.session, s[i], first, last)
                             /\ Len(s[i].ids) = 1 /\ s[i].kind # "frame"
                             /\ s[i].ids[1] \in Nat /\ s[i].ids[1] <= last
  <2> SUFFICES ASSUME NEW i \in 1 .. Len(s)
               PROVE  /\ Made(server.sent, server.session, s[i], first, last)
                      /\ Len(s[i].ids) = 1 /\ s[i].kind # "frame"
                      /\ s[i].ids[1] \in Nat /\ s[i].ids[1] <= last
    OBVIOUS
  <2>1. Made(server.sent, server.session, s[i], first, last) /\ Len(s[i].ids) = 1 /\ s[i].kind # "frame"
    BY DEF EventsAgree
  <2>2. s[i].ids \in Seq(1 .. MaxMessages) /\ 1 \in DOMAIN s[i].ids
    <3>1. s[i] \in Events
      OBVIOUS
    <3>2. s[i].ids \in Seq(1 .. MaxMessages)
      BY <3>1 DEF Events
    <3> QED
      BY <2>1, <3>2
  <2>3. s[i].ids[1] \in Nat
    BY <2>2, NumbersOf
  <2>4. s[i].ids[1] <= last
    BY <2>1, <2>2 DEF Made
  <2> QED
    BY <2>1, <2>3, <2>4
<1>4. Made(server.sent, server.session, e, first, last + 1) /\ e.kind # "frame"
  BY <1>2 DEF Made, KindOf
<1>5. \A i \in 1 .. Len(s) : Made(server.sent, server.session, s[i], first, last + 1)
  BY <1>3, SentShape DEF Made
<1>6. ASSUME NEW i \in 1 .. Len(t), NEW j \in 1 .. Len(t), i < j
      PROVE  t[i].ids[1] < t[j].ids[1]
  <2>1. i \in 1 .. Len(s) /\ t[i] = s[i]
    BY <1>1, <1>6
  <2>2. CASE j = Len(s) + 1
    BY <1>1, <1>2, <1>3, <2>1, <2>2
  <2>3. CASE j \in 1 .. Len(s)
    BY <1>1, <1>6, <2>1, <2>3 DEF EventsAgree
  <2> QED
    BY <1>1, <2>2, <2>3
<1>7. ASSUME NEW id \in DOMAIN server.sent, first < id, id <= last + 1,
             server.sent[id].kind \in {"notice", "answer"}
      PROVE  \E i \in 1 .. Len(t) : t[i].ids[1] = id
  <2>1. CASE id = last + 1
    <3>1. Len(s) + 1 \in 1 .. Len(t)
      BY <1>1
    <3> QED
      BY <1>1, <1>2, <2>1, <3>1
  <2>2. CASE id # last + 1
    <3>1. id <= last
      BY <1>7, <2>2, SentShape
    <3>2. PICK i \in 1 .. Len(s) : s[i].ids[1] = id
      BY <1>7, <3>1 DEF EventsAgree
    <3> QED
      BY <1>1, <3>2
  <2> QED
    BY <2>1, <2>2
<1>8. EventsAgree(t, first, last + 1)
  <2>1. ASSUME NEW i \in 1 .. Len(t)
        PROVE  /\ Made(server.sent, server.session, t[i], first, last + 1)
               /\ Len(t[i].ids) = 1 /\ t[i].kind # "frame"
    <3>1. CASE i = Len(s) + 1
      BY <1>1, <1>2, <1>4, <3>1
    <3>2. CASE i \in 1 .. Len(s)
      BY <1>1, <1>3, <1>5, <3>2
    <3> QED
      BY <1>1, <3>1, <3>2
  <2> QED
    BY <1>6, <1>7, <2>1 DEF EventsAgree
<1>9. FramesAgree(frames, at, t, first, last + 1)
  <2>1. ASSUME NEW k \in 1 .. Len(frames)
        PROVE  /\ frames[k] \in DOMAIN server.sent /\ first < frames[k] /\ frames[k] <= last + 1
               /\ server.sent[frames[k]].kind = "frame" /\ frames[1] <= frames[k]
               /\ frames[k] <= last
    <3>1. /\ frames[k] \in DOMAIN server.sent /\ first < frames[k] /\ frames[k] <= last
          /\ server.sent[frames[k]].kind = "frame" /\ frames[1] <= frames[k]
      BY DEF FramesAgree
    <3>2. frames[k] \in Int
      BY NumbersOf
    <3>3. frames[k] <= last + 1
      BY <3>1, <3>2
    <3> QED
      BY <3>1, <3>3
  <2>2. ASSUME NEW id \in DOMAIN server.sent, first < id, id <= last + 1,
               server.sent[id].kind = "frame"
        PROVE  \E k \in 1 .. Len(frames) : frames[k] = id
    <3>1. id # last + 1
      BY <2>2
    <3>2. id <= last
      BY <2>2, <3>1, SentShape
    <3> QED
      BY <2>2, <3>2 DEF FramesAgree
  <2>3. frames = <<>> => at = 0
    BY DEF FramesAgree
  <2>4. ASSUME frames # <<>>
        PROVE  /\ at \in 1 .. Len(t) + 1
               /\ \A i \in 1 .. Len(t) :
                    IF i < at THEN t[i].ids[1] < frames[1] ELSE frames[1] < t[i].ids[1]
    <3>1. /\ at \in 1 .. Len(s) + 1
          /\ \A i \in 1 .. Len(s) : IF i < at THEN s[i].ids[1] < frames[1] ELSE frames[1] < s[i].ids[1]
      BY <2>4 DEF FramesAgree
    <3>2. frames[1] \in Nat /\ frames[1] < last + 1
      <4>1. 1 \in 1 .. Len(frames)
        BY <2>4
      <4>2. frames[1] \in DOMAIN server.sent /\ frames[1] <= last
        BY <2>1, <4>1
      <4> QED
        BY <4>2, SentShape
    <3>3. ASSUME NEW i \in 1 .. Len(t)
          PROVE  IF i < at THEN t[i].ids[1] < frames[1] ELSE frames[1] < t[i].ids[1]
      <4>1. CASE i = Len(s) + 1
        <5>1. ~(i < at) /\ t[i].ids[1] = last + 1
          BY <1>1, <1>2, <3>1, <4>1
        <5> QED
          BY <3>2, <5>1
      <4>2. CASE i \in 1 .. Len(s)
        BY <1>1, <3>1, <4>2
      <4> QED
        BY <1>1, <4>1, <4>2
    <3> QED
      BY <1>1, <3>1, <3>3
  <2> QED
    BY <2>1, <2>2, <2>3, <2>4 DEF FramesAgree
<1> QED
  BY <1>8, <1>9 DEF t

(* A message that becomes no event. *)
LEMMA NothingAdded ==
  ASSUME Shapes, NEW s, NEW frames, NEW at,
         NEW first \in Nat, NEW last \in Nat, first <= last, last + 1 \in DOMAIN server.sent,
         EventsAgree(s, first, last), server.sent[last + 1].kind \notin {"notice", "answer"}
  PROVE  /\ EventsAgree(s, first, last + 1)
         /\ FramesAgree(frames, at, s, first, last) /\ server.sent[last + 1].kind # "frame" =>
              FramesAgree(frames, at, s, first, last + 1)
<1>1. \A id \in DOMAIN server.sent : id \in Nat /\ (id <= last + 1 => id <= last \/ id = last + 1)
                                     /\ (id <= last => id <= last + 1)
  BY SentShape
<1>2. ASSUME NEW i \in 1 .. Len(s)
      PROVE  Made(server.sent, server.session, s[i], first, last + 1) /\ Len(s[i].ids) = 1 /\ s[i].kind # "frame"
  <2>1. Made(server.sent, server.session, s[i], first, last) /\ Len(s[i].ids) = 1 /\ s[i].kind # "frame"
    BY DEF EventsAgree
  <2> QED
    BY <1>1, <2>1 DEF Made
<1>3. EventsAgree(s, first, last + 1)
  BY <1>1, <1>2 DEF EventsAgree
<1>4. ASSUME FramesAgree(frames, at, s, first, last), server.sent[last + 1].kind # "frame"
      PROVE  FramesAgree(frames, at, s, first, last + 1)
  BY <1>1, <1>4 DEF FramesAgree
<1> QED
  BY <1>3, <1>4

(* A frame joins the others of its record, or is their first.              *)
LEMMA FrameAdded ==
  ASSUME Shapes, NEW s \in Seq(Events), NEW frames \in Seq(1 .. MaxMessages), NEW at \in Nat,
         NEW first \in Nat, NEW last \in Nat, first <= last, last + 1 \in DOMAIN server.sent,
         EventsAgree(s, first, last), FramesAgree(frames, at, s, first, last),
         server.sent[last + 1].kind = "frame"
  PROVE  FramesAgree(Append(frames, last + 1), IF at = 0 THEN Len(s) + 1 ELSE at, s, first, last + 1)
<1> DEFINE more == Append(frames, last + 1)
           place == IF at = 0 THEN Len(s) + 1 ELSE at
<1>0. \A id \in DOMAIN server.sent : id \in Nat /\ (id <= last + 1 => id <= last \/ id = last + 1)
                                     /\ (id <= last => id <= last + 1 /\ id < last + 1)
  BY SentShape
<1>1. /\ Len(more) = Len(frames) + 1 /\ more[Len(frames) + 1] = last + 1 /\ Len(frames) \in Nat
      /\ \A k \in 1 .. Len(frames) : more[k] = frames[k]
      /\ more # <<>> /\ (frames # <<>> <=> Len(frames) > 0) /\ Len(s) \in Nat
  OBVIOUS
<1> HIDE DEF more
<1>2. ASSUME NEW k \in 1 .. Len(frames)
      PROVE  /\ frames[k] \in DOMAIN server.sent /\ first < frames[k] /\ frames[k] <= last
             /\ server.sent[frames[k]].kind = "frame" /\ frames[1] <= frames[k]
  BY DEF FramesAgree
<1>3. frames # <<>> => 1 \in 1 .. Len(frames) /\ more[1] = frames[1] /\ frames[1] < last + 1
  BY <1>0, <1>1, <1>2
<1>4. frames = <<>> => more[1] = last + 1
  BY <1>1
<1>5. ASSUME NEW k \in 1 .. Len(more)
      PROVE  /\ more[k] \in DOMAIN server.sent /\ first < more[k] /\ more[k] <= last + 1
             /\ server.sent[more[k]].kind = "frame" /\ more[1] <= more[k]
  <2>1. CASE k = Len(frames) + 1
    BY <1>0, <1>1, <1>2, <1>3, <1>4, <2>1
  <2>2. CASE k \in 1 .. Len(frames)
    <3>1. frames # <<>> /\ more[k] = frames[k]
      BY <1>1, <2>2
    <3> QED
      BY <1>0, <1>2, <1>3, <2>2, <3>1
  <2> QED
    BY <1>1, <2>1, <2>2
<1>6. ASSUME NEW id \in DOMAIN server.sent, first < id, id <= last + 1, server.sent[id].kind = "frame"
      PROVE  \E k \in 1 .. Len(more) : more[k] = id
  <2>1. CASE id = last + 1
    <3>1. Len(frames) + 1 \in 1 .. Len(more)
      BY <1>1
    <3> QED
      BY <1>1, <2>1, <3>1
  <2>2. CASE id <= last
    <3>1. PICK k \in 1 .. Len(frames) : frames[k] = id
      BY <1>6, <2>2 DEF FramesAgree
    <3>2. k \in 1 .. Len(more) /\ more[k] = id
      BY <1>1, <3>1
    <3> QED
      BY <3>2
  <2> QED
    BY <1>0, <1>6, <2>1, <2>2
<1>7. /\ place \in 1 .. Len(s) + 1
      /\ \A i \in 1 .. Len(s) : IF i < place THEN s[i].ids[1] < more[1] ELSE more[1] < s[i].ids[1]
  <2>1. CASE frames = <<>>
    <3>1. at = 0
      BY <2>1 DEF FramesAgree
    <3>2. ASSUME NEW i \in 1 .. Len(s) PROVE s[i].ids[1] < last + 1
      <4>1. Made(server.sent, server.session, s[i], first, last) /\ s[i] \in Events
        BY DEF EventsAgree
      <4>2. s[i].ids \in Seq(1 .. MaxMessages)
        BY <4>1 DEF Events
      <4>3. 1 \in DOMAIN s[i].ids
        BY <4>1, <4>2 DEF Made
      <4> QED
        BY <1>0, <4>1, <4>3 DEF Made
    <3> QED
      BY <1>1, <1>4, <2>1, <3>1, <3>2
  <2>2. CASE frames # <<>>
    BY <1>1, <1>3, <2>2 DEF FramesAgree
  <2> QED
    BY <2>1, <2>2
<1> HIDE DEF place
<1>8. FramesAgree(more, place, s, first, last + 1)
  BY <1>1, <1>5, <1>6, <1>7 DEF FramesAgree
<1> QED
  BY <1>8 DEF more, place

LEMMA StillAgrees ==
  ASSUME Shapes, NEW c, NEW offers, NEW last \in Nat,
         OfferAgrees(c, offers, server.sent, server.answered, last)
  PROVE  OfferAgrees(c, offers, server.sent, server.answered, last + 1)
<1>1. \A id \in DOMAIN server.sent : id \in Nat
  BY SentShape
<1> QED
  BY <1>1 DEF OfferAgrees

(* An update: a frame perhaps, and the replies it brings.                  *)
LEMMA UpdateKeeps ==
  ASSUME Shapes, ServerInv, NEW b, NEW rest, NEW first \in Nat, NEW last \in Nat, first <= last,
         last + 1 \in DOMAIN server.sent, Handled(b, rest, first, last), ~b.failed,
         server.sent[last + 1].kind \in {"frame", "control", "port"}
  PROVE  Handled(Updates(b, server.sent[last + 1].kind, last + 1), rest, first, last + 1)
<1> DEFINE kind == server.sent[last + 1].kind
           shown == IF kind # "frame" THEN b
                    ELSE [b EXCEPT !.frames = Append(@, last + 1),
                                   !.at = IF @ = 0 THEN Len(b.events) + 1 ELSE @]
           unkept == [shown EXCEPT !.client.kept = FALSE]
           heard == IF shown.client.kept THEN Offers(unkept) ELSE shown
<1>0. /\ SameReader(b, rest) /\ b \in Batches /\ b.client \in Clients /\ b.events \in Seq(Events)
      /\ b.frames \in Seq(1 .. MaxMessages) /\ b.at \in Nat /\ last + 1 \in 1 .. MaxMessages
      /\ OfferAgrees(b.client, b.offers, server.sent, server.answered, last + 1)
      /\ EventsAgree(b.events, first, last) /\ FramesAgree(b.frames, b.at, b.events, first, last)
  BY SentShape, StillAgrees DEF Handled, SameReader, Agreement, Batches
<1>1. EventsAgree(b.events, first, last + 1)
  BY <1>0, NothingAdded
<1>2. /\ SameReader(shown, rest) /\ shown.client = b.client /\ shown.offers = b.offers
      /\ shown.events = b.events
      /\ FramesAgree(shown.frames, shown.at, b.events, first, last + 1)
  <2>1. CASE kind # "frame"
    BY <1>0, <2>1, NothingAdded
  <2>2. CASE kind = "frame"
    <3>1. FramesAgree(Append(b.frames, last + 1), IF b.at = 0 THEN Len(b.events) + 1 ELSE b.at,
                      b.events, first, last + 1)
      BY <1>0, <2>2, FrameAdded
    <3> DEFINE frames == Append(b.frames, last + 1)
               at == IF b.at = 0 THEN Len(b.events) + 1 ELSE b.at
    <3>2. frames \in Seq(1 .. MaxMessages) /\ at \in Nat
      BY <1>0
    <3>3. shown = [b EXCEPT !.frames = frames, !.at = at]
      BY <1>0, <2>2 DEF Batches
    <3> HIDE DEF frames, at, shown
    <3>4. /\ shown \in Batches /\ shown.frames = frames /\ shown.at = at /\ shown.client = b.client
          /\ shown.offers = b.offers /\ shown.events = b.events
      BY <1>0, <3>2, <3>3 DEF Batches
    <3> QED
      BY <1>0, <3>1, <3>4 DEF SameReader, frames, at
  <2> QED
    BY <2>1, <2>2
<1> HIDE DEF shown
<1>3. /\ SameReader(heard, rest) /\ heard.events = b.events
      /\ heard.frames = shown.frames /\ heard.at = shown.at
      /\ OfferAgrees(heard.client, heard.offers, server.sent, server.answered, last + 1)
  <2>1. /\ SameReader(unkept, rest) /\ unkept.events = b.events
        /\ unkept.frames = shown.frames /\ unkept.at = shown.at
        /\ OfferAgrees(unkept.client, unkept.offers, server.sent, server.answered, last + 1)
    <3>1. shown \in Batches /\ shown.client \in Clients
      BY <1>2 DEF SameReader, Batches
    <3> DEFINE c == [shown.client EXCEPT !.kept = FALSE]
    <3>2. /\ unkept \in Batches /\ unkept.client = c /\ unkept.offers = shown.offers
          /\ unkept.events = shown.events /\ unkept.frames = shown.frames /\ unkept.at = shown.at
      BY <3>1 DEF Batches, Clients
    <3>3. /\ c.offered = shown.client.offered /\ c.key = shown.client.key
          /\ c.active = shown.client.active /\ c.buffer = shown.client.buffer
          /\ c.pending = shown.client.pending /\ c.started = shown.client.started
          /\ c.timed = shown.client.timed /\ c.lost = shown.client.lost
      BY <3>1 DEF Clients
    <3> HIDE DEF c, unkept
    <3> QED
      BY <1>0, <1>2, <3>2, <3>3 DEF SameReader, OfferAgrees
  <2>2. CASE shown.client.kept
    <3> HIDE DEF unkept
    <3>1. last + 1 \in Nat /\ heard = Offers(unkept)
      BY <2>2
    <3> HIDE DEF heard
    <3> QED
      BY <2>1, <3>1, OffersKeep
  <2>3. CASE ~shown.client.kept
    BY <1>0, <1>2, <2>3
  <2> QED
    BY <2>2, <2>3
<1> HIDE DEF heard
<1>4. Updates(b, kind, last + 1) = IF kind = "port" /\ ~heard.failed THEN Offers(heard) ELSE heard
  BY DEF Updates, heard, shown
<1>5. ASSUME NEW o, SameReader(o, rest), o.events = b.events, o.frames = shown.frames, o.at = shown.at,
             OfferAgrees(o.client, o.offers, server.sent, server.answered, last + 1)
      PROVE  Handled(o, rest, first, last + 1)
  BY <1>1, <1>2, <1>5 DEF Handled, Agreement
<1>6. Handled(heard, rest, first, last + 1)
  BY <1>3, <1>5
<1>7. Handled(Offers(heard), rest, first, last + 1)
  <2>1. /\ SameReader(Offers(heard), rest) /\ Offers(heard).events = heard.events
        /\ Offers(heard).at = heard.at /\ Offers(heard).frames = heard.frames
        /\ OfferAgrees(Offers(heard).client, Offers(heard).offers, server.sent, server.answered, last + 1)
    BY <1>3, OffersKeep
  <2> QED
    BY <1>3, <1>5, <2>1
<1> QED
  BY <1>4, <1>6, <1>7

LEMMA EventShape ==
  ASSUME Shapes, NEW id \in DOMAIN server.sent, NEW kind \in {"notice", "stream"}, NEW key \in 0 .. 1
  PROVE  /\ Event(kind, <<id>>, key) \in Events /\ Event(kind, <<id>>, key).session = server.session
         /\ Event(kind, <<id>>, key).ids = <<id>> /\ Event(kind, <<id>>, key).kind = kind
         /\ Event(kind, <<id>>, key).key = key
<1>1. id \in 1 .. MaxMessages /\ server.session \in 1 .. MaxSessions /\ MaxMessages \in Nat
  BY SentShape
<1>2. <<id>> \in Seq(1 .. MaxMessages) /\ key \in 0 .. MaxMessages + 1 /\ kind \in {"frame", "notice", "stream"}
  BY <1>1
<1> QED
  BY <1>1, <1>2 DEF Event, Events

LEMMA NoticeKeeps ==
  ASSUME Shapes, ServerInv, NEW b, NEW rest, NEW first \in Nat, NEW last \in Nat, first <= last,
         last + 1 \in DOMAIN server.sent, Handled(b, rest, first, last), ~b.failed,
         server.sent[last + 1].kind = "notice"
  PROVE  Handled([b EXCEPT !.events = Append(@, Event("notice", <<last + 1>>, None))],
                 rest, first, last + 1)
<1> DEFINE e == Event("notice", <<last + 1>>, None)
           o == [b EXCEPT !.events = Append(@, e)]
<1>0. /\ SameReader(b, rest) /\ b \in Batches /\ b.client \in Clients /\ b.events \in Seq(Events)
      /\ b.frames \in Seq(1 .. MaxMessages) /\ b.at \in Nat
      /\ OfferAgrees(b.client, b.offers, server.sent, server.answered, last + 1)
      /\ EventsAgree(b.events, first, last) /\ FramesAgree(b.frames, b.at, b.events, first, last)
  BY StillAgrees DEF Handled, SameReader, Agreement, Batches
<1>1. None \in 0 .. 1
  BY DEF None
<1>2. e \in Events /\ e.session = server.session /\ e.ids = <<last + 1>> /\ e.kind = "notice"
  <2> DEFINE id == last + 1
  <2>1. "notice" \in {"notice", "stream"} /\ id \in DOMAIN server.sent
    OBVIOUS
  <2> HIDE DEF id
  <2>2. /\ Event("notice", <<id>>, None) \in Events
        /\ Event("notice", <<id>>, None).session = server.session
        /\ Event("notice", <<id>>, None).ids = <<id>> /\ Event("notice", <<id>>, None).kind = "notice"
    <3>1. id \in 1 .. MaxMessages /\ MaxMessages \in Nat /\ server.session \in 1 .. MaxSessions
      BY <2>1, SentShape
    <3>2. <<id>> \in Seq(1 .. MaxMessages) /\ None \in 0 .. MaxMessages + 1
      BY <1>1, <3>1
    <3> QED
      BY <3>1, <3>2 DEF Event, Events
  <2> QED
    BY <2>2 DEF id
<1> HIDE DEF e
<1>3. /\ EventsAgree(Append(b.events, e), first, last + 1)
      /\ FramesAgree(b.frames, b.at, Append(b.events, e), first, last + 1)
  BY <1>0, <1>2, EventAdded DEF KindOf
<1>4. Append(b.events, e) \in Seq(Events)
  BY <1>0, <1>2
<1>5. /\ o \in Batches /\ o.events = Append(b.events, e) /\ o.client = b.client /\ o.offers = b.offers
      /\ o.frames = b.frames /\ o.at = b.at
  BY <1>0, <1>4 DEF Batches
<1> HIDE DEF o
<1>6. Handled(o, rest, first, last + 1)
  BY <1>0, <1>3, <1>5 DEF Handled, SameReader, Agreement
<1> QED
  BY <1>6 DEF o, e

(* The answer to the one offer: its keys are still there.                  *)
LEMMA AnswerKeeps ==
  ASSUME Shapes, ServerInv, NEW b, NEW rest, NEW first \in Nat, NEW last \in Nat, first <= last,
         last + 1 \in DOMAIN server.sent, Handled(b, rest, first, last), ~b.failed,
         server.sent[last + 1].kind = "answer"
  PROVE  Handled(Accepts(b, last + 1), rest, first, last + 1)
<1> DEFINE e == Event("stream", <<last + 1>>, b.client.key)
           es == Append(b.events, e)
           c == [b.client EXCEPT !.key = None, !.active = TRUE]
<1>0. /\ SameReader(b, rest) /\ b \in Batches /\ b.client \in Clients /\ b.events \in Seq(Events)
      /\ b.frames \in Seq(1 .. MaxMessages) /\ b.at \in Nat
      /\ OfferAgrees(b.client, b.offers, server.sent, server.answered, last)
      /\ EventsAgree(b.events, first, last) /\ FramesAgree(b.frames, b.at, b.events, first, last)
  BY DEF Handled, SameReader, Agreement, Batches
<1>1. /\ IsReply(server.sent, last + 1) /\ b.client.key = 1 /\ server.sent[last + 1].key = 1
      /\ server.answered = 1
      /\ \A id \in DOMAIN server.sent : id > last + 1 => ~IsReply(server.sent, id)
  <2>1. IsReply(server.sent, last + 1)
    BY DEF IsReply
  <2>2. server.sent[last + 1].key = 1 /\ server.answered = 1
        /\ \A id \in DOMAIN server.sent : IsReply(server.sent, id) => id = last + 1
    BY <2>1 DEF ServerInv, RepliesAgree
  <2>3. b.client.key = 1
    BY <1>0, <2>1 DEF OfferAgrees
  <2> QED
    BY <2>1, <2>2, <2>3
<1>2. b.client.key \in 0 .. 1 /\ None \in 0 .. 1 /\ b.client.key # None
  BY <1>0, <1>1 DEF Clients, None
<1>3. /\ e \in Events /\ e.session = server.session /\ e.ids = <<last + 1>> /\ e.kind = "stream"
      /\ e.key = 1
  BY <1>1, <1>2, EventShape
<1> HIDE DEF e
<1>4. /\ EventsAgree(es, first, last + 1)
      /\ FramesAgree(b.frames, b.at, es, first, last + 1)
  BY <1>0, <1>1, <1>3, EventAdded DEF KindOf
<1>5. es \in Seq(Events)
  BY <1>0, <1>3
<1> HIDE DEF es
<1>6. Accepts(b, last + 1) = [b EXCEPT !.events = es, !.client.key = None, !.client.active = TRUE]
  BY <1>0, <1>2 DEF Accepts, es, e, Batches
<1> DEFINE o == [b EXCEPT !.events = es, !.client.key = None, !.client.active = TRUE]
<1>7. /\ o \in Batches /\ o.events = es /\ o.offers = b.offers /\ o.at = b.at
      /\ o.frames = b.frames /\ o.client = c
  <2>1. PICK none \in 0 .. 1 : none = None
    BY <1>2
  <2> DEFINE a == [b EXCEPT !.events = es, !.client.key = none, !.client.active = TRUE]
  <2>2. /\ a \in Batches /\ a.events = es /\ a.offers = b.offers /\ a.at = b.at
        /\ a.frames = b.frames /\ a.client = [b.client EXCEPT !.key = none, !.active = TRUE]
    BY <1>0, <1>5 DEF Batches, Clients
  <2> QED
    BY <2>1, <2>2, Zenon
<1>8. /\ c.offered = b.client.offered /\ c.key = None /\ c.active = TRUE
      /\ c.buffer = b.client.buffer /\ c.pending = b.client.pending
      /\ c.started = b.client.started /\ c.timed = b.client.timed /\ c.lost = b.client.lost
  BY <1>0 DEF Clients
<1> HIDE DEF o, c
<1>9. OfferAgrees(o.client, o.offers, server.sent, server.answered, last + 1)
  BY <1>0, <1>1, <1>2, <1>7, <1>8 DEF OfferAgrees
<1>10. Handled(o, rest, first, last + 1)
  BY <1>0, <1>4, <1>7, <1>8, <1>9 DEF Handled, SameReader, Agreement
<1> QED
  BY <1>6, <1>10 DEF o

LEMMA HandleKeeps ==
  ASSUME Shapes, ServerInv, NEW b, NEW rest, NEW first \in Nat, NEW last \in Nat, first <= last,
         last + 1 \in DOMAIN server.sent, Handled(b, rest, first, last)
  PROVE  Handled(Handle(b, last + 1), rest, first, last + 1)
<1> DEFINE kind == server.sent[last + 1].kind
<1>1. CASE b.failed
  BY <1>1 DEF Handle, Handled
<1>2. CASE ~b.failed /\ kind \in {"frame", "control", "port"}
  <2>1. Handle(b, last + 1) = Updates(b, kind, last + 1)
    BY <1>2 DEF Handle
  <2> QED
    BY <1>2, <2>1, UpdateKeeps
<1>3. CASE ~b.failed /\ kind = "notice"
  <2>1. Handle(b, last + 1) = [b EXCEPT !.events = Append(@, Event("notice", <<last + 1>>, None))]
    BY <1>3 DEF Handle
  <2> QED
    BY <1>3, <2>1, NoticeKeeps
<1>4. CASE ~b.failed /\ kind = "answer"
  <2>1. Handle(b, last + 1) = Accepts(b, last + 1)
    BY <1>4 DEF Handle
  <2> QED
    BY <1>4, <2>1, AnswerKeeps
<1>5. CASE ~b.failed /\ kind \notin {"frame", "control", "port", "notice", "answer"}
  <2>1. Handle(b, last + 1) = [b EXCEPT !.failed = TRUE]
    BY <1>5 DEF Handle
  <2> QED
    BY <2>1 DEF Handled, SameReader, Batches
<1> QED
  BY <1>1, <1>2, <1>3, <1>4, <1>5

LEMMA UnhandledShape ==
  ASSUME Shapes, ServerInv, OfferAgrees(client, server.offers, server.sent, server.answered, ReadMessages),
         ReadMessages \in Nat, NEW buffer, Rest(buffer) \in Seq(Halves)
  PROVE  Handled(Unhandled(buffer), Rest(buffer), ReadMessages, ReadMessages)
<1> DEFINE c == [client EXCEPT !.buffer = Rest(buffer)]
           b == Unhandled(buffer)
<1>1. client \in Clients /\ server.offers \in 0 .. 1
  BY DEF Shapes, Servers
<1>2. /\ c \in Clients /\ c.buffer = Rest(buffer) /\ c.pending = client.pending
      /\ c.started = client.started /\ c.timed = client.timed /\ c.lost = client.lost
      /\ c.offered = client.offered /\ c.key = client.key /\ c.active = client.active
  BY <1>1 DEF Clients
<1> HIDE DEF c
<1>3. /\ b = [client |-> c, offers |-> server.offers, events |-> <<>>, at |-> 0, frames |-> <<>>,
              failed |-> FALSE]
  BY DEF Unhandled, c
<1>4. /\ b \in Batches /\ b.client = c /\ b.offers = server.offers /\ b.events = <<>> /\ b.at = 0
      /\ b.frames = <<>>
  BY <1>1, <1>2, <1>3 DEF Batches
<1> HIDE DEF b
<1>5. SameReader(b, Rest(buffer))
  BY <1>1, <1>2, <1>4 DEF SameReader
<1>6. OfferAgrees(b.client, b.offers, server.sent, server.answered, ReadMessages)
  BY <1>2, <1>4 DEF OfferAgrees
<1>7. \A id \in DOMAIN server.sent : ~(ReadMessages < id /\ id <= ReadMessages)
  BY SentShape
<1>8. Len(<<>>) = 0 /\ 1 .. 0 = {}
  OBVIOUS
<1>9. EventsAgree(b.events, ReadMessages, ReadMessages)
  BY <1>4, <1>7, <1>8 DEF EventsAgree
<1>10. FramesAgree(b.frames, b.at, b.events, ReadMessages, ReadMessages)
  BY <1>4, <1>7, <1>8 DEF FramesAgree
<1> QED
  BY <1>5, <1>6, <1>9, <1>10 DEF Handled, Agreement, b

(* What a record makes of the client, read from where the last one ended.  *)
NextHalves == ReadOf(Tail(wire), server.put)
NextMessages == NextHalves \div 2

LEMMA RecordRead ==
  ASSUME Shapes, ServerInv, ClientInv, RunsTo(wire, server.put), wire # <<>>
  PROVE  LET buffer == client.buffer \o Head(wire)
         IN  /\ Len(Complete(buffer)) = NextMessages - ReadMessages
             /\ \A i \in 1 .. NextMessages - ReadMessages : Complete(buffer)[i] = ReadMessages + i
             /\ Rest(buffer) = Kept(NextHalves) /\ Kept(NextHalves) \in Seq(Halves)
             /\ Len(Kept(NextHalves)) <= 1
             /\ ReadMessages \in Nat /\ NextMessages \in Nat /\ ReadMessages <= NextMessages
             /\ NextMessages <= Len(server.sent)
<1> DEFINE n == ReadHalves
           record == Head(wire)
<1>1. /\ RunsTo(Tail(wire), server.put) /\ IsRun(record, n) /\ record \in Seq(Halves)
      /\ NextHalves = n + Len(record)
  BY RecordTaken DEF ReadHalves, NextHalves
<1>2. n \in Nat /\ NextHalves \in Nat /\ NextHalves <= server.put
  BY <1>1, ReadBounds DEF ReadHalves, NextHalves
<1>3. server.put \in Nat /\ server.put <= 2 * Len(server.sent) /\ Len(server.sent) \in Nat
      /\ Len(server.sent) <= MaxMessages /\ MaxMessages \in Nat
  BY SentShape DEF RunsTo, ServerInv
<1>4. NextHalves <= 2 * MaxMessages
  BY <1>2, <1>3
<1>5. client.buffer = Kept(n)
  BY DEF ClientInv
<1> HIDE DEF n, record
<1>6. LET buffer == Kept(n) \o record
          first == n \div 2
          last == (n + Len(record)) \div 2
      IN  /\ Len(Complete(buffer)) = last - first /\ first <= last
          /\ \A i \in 1 .. last - first : Complete(buffer)[i] = first + i
          /\ Rest(buffer) = Kept(n + Len(record))
  BY <1>1, <1>2, <1>4, BufferHolds
<1>7. Kept(NextHalves) \in Seq(Halves) /\ Len(Kept(NextHalves)) <= 1
  BY <1>2, <1>4, KeptShape, Halving
<1>8. ReadMessages = n \div 2 /\ NextMessages = (n + Len(record)) \div 2
  BY <1>1 DEF ReadMessages, NextMessages, n
<1>9. n \div 2 \in Nat /\ NextHalves \div 2 \in Nat /\ NextHalves \div 2 <= Len(server.sent)
  <2>1. PICK a \in Nat : a = NextHalves \div 2
    BY <1>2
  <2>2. NextHalves = 2 * a \/ NextHalves = 2 * a + 1
    BY <1>2, <2>1
  <2> QED
    BY <1>2, <1>3, <2>1, <2>2
<1> QED
  BY <1>1, <1>5, <1>6, <1>7, <1>8, <1>9 DEF record

LEMMA BatchHandled ==
  ASSUME Shapes, ServerInv, ClientInv, RunsTo(wire, server.put), wire # <<>>
  PROVE  Handled(Batch(client.buffer \o Head(wire)), Kept(NextHalves), ReadMessages, NextMessages)
<1> DEFINE buffer == client.buffer \o Head(wire)
           n == NextMessages - ReadMessages
<1>1. /\ Len(Complete(buffer)) = n
      /\ \A i \in 1 .. n : Complete(buffer)[i] = ReadMessages + i
      /\ Rest(buffer) = Kept(NextHalves) /\ Kept(NextHalves) \in Seq(Halves)
      /\ ReadMessages \in Nat /\ NextMessages \in Nat /\ ReadMessages <= NextMessages
      /\ NextMessages <= Len(server.sent)
  BY RecordRead
<1>2. n \in Nat /\ ReadMessages + n = NextMessages
  BY <1>1
<1> HIDE DEF buffer, n
<1>3. PICK f : /\ f[0] = Unhandled(buffer) /\ Batch(buffer) = f[n]
               /\ \A i \in 1 .. n : f[i] = Handle(f[i - 1], Complete(buffer)[i])
  BY <1>1, <1>2, BatchSteps
<1> DEFINE Holds(i) == Handled(f[i], Kept(NextHalves), ReadMessages, ReadMessages + i)
           Bad == {i \in 0 .. n : ~Holds(i)}
<1>4. Holds(0)
  <2>1. Handled(Unhandled(buffer), Rest(buffer), ReadMessages, ReadMessages)
    BY <1>1, UnhandledShape DEF ClientInv
  <2> QED
    BY <1>1, <1>3, <2>1
<1>5. ASSUME NEW i \in 1 .. n, Holds(i - 1)
      PROVE  Holds(i)
  <2> DEFINE last == ReadMessages + (i - 1)
  <2>1. last \in Nat /\ ReadMessages <= last /\ last + 1 = ReadMessages + i
        /\ last + 1 \in 1 .. Len(server.sent)
    BY <1>1, <1>2
  <2>2. f[i] = Handle(f[i - 1], last + 1)
    BY <1>1, <1>3, <2>1
  <2> HIDE DEF last
  <2>3. Handled(f[i - 1], Kept(NextHalves), ReadMessages, last) /\ last + 1 \in DOMAIN server.sent
    BY <1>5, <2>1, SentShape DEF last
  <2>4. Handled(Handle(f[i - 1], last + 1), Kept(NextHalves), ReadMessages, last + 1)
    BY <1>1, <2>1, <2>3, HandleKeeps
  <2> QED
    BY <2>1, <2>2, <2>4
<1> HIDE DEF Holds
<1>6. Bad = {}
  <2> SUFFICES ASSUME Bad # {} PROVE FALSE
    OBVIOUS
  <2>1. PICK i \in Bad : \A j \in Bad : i <= j
    <3>1. Bad \subseteq Nat
      BY <1>2
    <3> HIDE DEF Bad
    <3> QED
      BY <3>1, HasFirst
  <2>2. i \in 1 .. n /\ i - 1 \in 0 .. n /\ i - 1 \notin Bad
    BY <1>2, <1>4, <2>1
  <2> QED
    BY <1>5, <2>1, <2>2
<1>7. Holds(n)
  BY <1>2, <1>6
<1> QED
  BY <1>2, <1>3, <1>7 DEF Holds, buffer

-----------------------------------------------------------------------------
(* What a record tells.                                                    *)

(* t is s with e put at place at.                                          *)
Inserted(t, s, at, e) ==
  /\ t \in Seq(Events) /\ Len(t) = Len(s) + 1
  /\ \A i \in 1 .. Len(t) : t[i] = IF i < at THEN s[i] ELSE IF i = at THEN e ELSE s[i - 1]

LEMMA InsertIs ==
  ASSUME NEW s \in Seq(Events), NEW at \in 1 .. Len(s) + 1, NEW e \in Events,
         NEW t, t = InsertAt(s, at, e)
  PROVE  Inserted(t, s, at, e)
<1> DEFINE x == SubSeq(s, 1, at - 1)
           y == SubSeq(s, at, Len(s))
<1>0. Len(s) \in Nat /\ at \in Nat /\ at - 1 \in Int
  OBVIOUS
<1>1. x \in Seq(Events) /\ Len(x) = at - 1 /\ \A i \in 1 .. at - 1 : x[i] = s[i]
  <2>1. \A i \in 1 .. at - 1 : s[i] \in Events
    BY <1>0, ElementOfSeq
  <2>2. /\ x \in Seq(Events) /\ Len(x) = IF 1 <= at - 1 THEN at - 1 - 1 + 1 ELSE 0
        /\ \A i \in 1 .. at - 1 - 1 + 1 : x[i] = s[1 + i - 1]
    BY <1>0, <2>1, SubSeqProperties
  <2> QED
    BY <1>0, <2>2
<1>2. y \in Seq(Events) /\ Len(y) = Len(s) - at + 1
      /\ \A i \in 1 .. Len(s) - at + 1 : y[i] = s[at + i - 1]
  <2>1. \A i \in at .. Len(s) : s[i] \in Events
    BY <1>0, ElementOfSeq
  <2>2. /\ y \in Seq(Events) /\ Len(y) = IF at <= Len(s) THEN Len(s) - at + 1 ELSE 0
        /\ \A i \in 1 .. Len(s) - at + 1 : y[i] = s[at + i - 1]
    BY <1>0, <2>1, SubSeqProperties
  <2> QED
    BY <1>0, <2>2
<1> HIDE DEF x, y
<1>3. /\ x \o <<e>> \in Seq(Events) /\ Len(x \o <<e>>) = at
      /\ \A i \in 1 .. at : (x \o <<e>>)[i] = IF i < at THEN s[i] ELSE e
  <2>1. <<e>> \in Seq(Events) /\ Len(<<e>>) = 1 /\ <<e>>[1] = e
    OBVIOUS
  <2>2. /\ x \o <<e>> \in Seq(Events) /\ Len(x \o <<e>>) = Len(x) + Len(<<e>>)
        /\ \A i \in 1 .. Len(x) + Len(<<e>>) :
             (x \o <<e>>)[i] = IF i <= Len(x) THEN x[i] ELSE <<e>>[i - Len(x)]
    BY <1>1, <2>1, ConcatProperties
  <2>3. Len(x) + Len(<<e>>) = at
    BY <1>0, <1>1, <2>1
  <2>4. ASSUME NEW i \in 1 .. at
        PROVE  (x \o <<e>>)[i] = IF i < at THEN s[i] ELSE e
    <3>1. CASE i < at
      <4>1. i \in 1 .. at - 1 /\ i <= Len(x) /\ i \in 1 .. Len(x) + Len(<<e>>)
        BY <1>0, <1>1, <2>3, <3>1
      <4> QED
        BY <1>1, <2>2, <3>1, <4>1
    <3>2. CASE i = at
      <4>1. ~(i <= Len(x)) /\ i - Len(x) = 1 /\ i \in 1 .. Len(x) + Len(<<e>>)
        BY <1>0, <1>1, <2>3, <3>2
      <4> QED
        BY <2>1, <2>2, <3>2, <4>1
    <3>3. i < at \/ i = at
      BY <1>0
    <3> QED
      BY <3>1, <3>2, <3>3
  <2> QED
    BY <2>2, <2>3, <2>4
<1> DEFINE z == x \o <<e>>
<1> HIDE DEF z
<1>4. /\ z \o y \in Seq(Events) /\ Len(z \o y) = Len(s) + 1
      /\ \A i \in 1 .. Len(s) + 1 :
           (z \o y)[i] = IF i < at THEN s[i] ELSE IF i = at THEN e ELSE s[i - 1]
  <2>1. /\ z \in Seq(Events) /\ Len(z) = at
        /\ \A i \in 1 .. at : z[i] = IF i < at THEN s[i] ELSE e
    BY <1>3 DEF z
  <2>2. /\ z \o y \in Seq(Events) /\ Len(z \o y) = Len(s) + 1
        /\ \A i \in 1 .. Len(s) + 1 : (z \o y)[i] = IF i <= at THEN z[i] ELSE y[i - at]
    <3>1. /\ z \o y \in Seq(Events) /\ Len(z \o y) = Len(z) + Len(y)
          /\ \A i \in 1 .. Len(z) + Len(y) : (z \o y)[i] = IF i <= Len(z) THEN z[i] ELSE y[i - Len(z)]
      BY <1>2, <2>1, ConcatProperties
    <3>2. Len(z) + Len(y) = Len(s) + 1
      BY <1>0, <1>2, <2>1
    <3> QED
      BY <2>1, <3>1, <3>2
  <2>3. ASSUME NEW i \in 1 .. Len(s) + 1, i > at
        PROVE  y[i - at] = s[i - 1]
    <3>1. i - at \in 1 .. Len(s) - at + 1 /\ at + (i - at) - 1 = i - 1
      BY <1>0, <2>3
    <3> QED
      BY <1>2, <3>1
  <2>4. ASSUME NEW i \in 1 .. Len(s) + 1
        PROVE  (z \o y)[i] = IF i < at THEN s[i] ELSE IF i = at THEN e ELSE s[i - 1]
    <3>1. CASE i <= at
      <4>1. i \in 1 .. at
        BY <1>0, <3>1
      <4> QED
        BY <1>0, <2>1, <2>2, <3>1, <4>1
    <3>2. CASE i > at
      <4>1. ~(i <= at) /\ ~(i < at) /\ i # at
        BY <1>0, <3>2
      <4> QED
        BY <2>2, <2>3, <3>2, <4>1
    <3>3. i <= at \/ i > at
      BY <1>0
    <3> QED
      BY <3>1, <3>2, <3>3
  <2> QED
    BY <2>2, <2>4
<1> QED
  <2>1. t = z \o y
    BY DEF InsertAt, x, y, z
  <2> QED
    BY <1>4, <2>1 DEF Inserted

(* What was made of the messages of a record, the frames as one event.     *)
LEMMA BatchTells ==
  ASSUME Shapes, NEW b, NEW rest, NEW first \in Nat, NEW last \in Nat,
         SameReader(b, rest), Agreement(b, first, last)
  PROVE  /\ WithFrame(b) \in Seq(Events)
         /\ Tells(server.sent, server.session, WithFrame(b), first, last)
         /\ TellsAll(server.sent, WithFrame(b), first, last)
<1> DEFINE s == b.events
           frames == b.frames
           at == b.at
           e == Event("frame", frames, None)
           t == WithFrame(b)
<1>0. /\ s \in Seq(Events) /\ frames \in Seq(1 .. MaxMessages) /\ at \in Nat
      /\ EventsAgree(s, first, last) /\ FramesAgree(frames, at, s, first, last)
  BY DEF SameReader, Agreement, Batches
<1> HIDE DEF s, frames, at
<1>1. ASSUME NEW i \in 1 .. Len(s)
      PROVE  /\ s[i] \in Events /\ Made(server.sent, server.session, s[i], first, last)
             /\ s[i].kind # "frame" /\ DOMAIN s[i].ids = 1 .. 1 /\ s[i].ids[1] \in Nat
             /\ s[i].ids[1] \in DOMAIN server.sent /\ KindOf(server.sent, s[i].ids[1]) = s[i].kind
  <2>1. s[i] \in Events /\ Made(server.sent, server.session, s[i], first, last) /\ Len(s[i].ids) = 1
        /\ s[i].kind # "frame"
    BY <1>0 DEF EventsAgree
  <2>2. DOMAIN s[i].ids = 1 .. 1 /\ 1 \in DOMAIN s[i].ids /\ s[i].ids[1] \in Nat
    BY <2>1, EventFields
  <2> QED
    BY <2>1, <2>2 DEF Made
<1>2. \A i, j \in 1 .. Len(s) : i < j => s[i].ids[1] < s[j].ids[1]
  BY <1>0 DEF EventsAgree
<1>3. DOMAIN s = 1 .. Len(s) /\ Len(s) \in Nat
  BY <1>0
<1>4. CASE frames = <<>>
  <2>1. t = s
    BY <1>4 DEF WithFrame, s, frames
  <2>2. Ordered(s)
    BY <1>2, <1>3 DEF Ordered
  <2>3. Apart(s)
    BY <1>1, <1>2, <1>3 DEF Apart
  <2>4. TellsAll(server.sent, s, first, last)
    <3> SUFFICES ASSUME NEW id \in DOMAIN server.sent, first < id, id <= last,
                        server.sent[id].kind \in Telling
                 PROVE  \E i \in DOMAIN s : In(id, s[i])
      BY DEF TellsAll
    <3>1. server.sent[id].kind # "frame"
      BY <1>0, <1>4 DEF FramesAgree
    <3>2. PICK i \in 1 .. Len(s) : s[i].ids[1] = id
      BY <1>0, <3>1 DEF EventsAgree, Telling
    <3>3. In(id, s[i])
      BY <1>1, <3>2 DEF In
    <3> QED
      BY <1>3, <3>3
  <2> QED
    BY <1>0, <1>1, <1>3, <2>1, <2>2, <2>3, <2>4 DEF Tells
<1>5. CASE frames # <<>>
  <2>1. /\ DOMAIN frames = 1 .. Len(frames) /\ 1 \in DOMAIN frames
        /\ \A k \in DOMAIN frames :
             /\ frames[k] \in DOMAIN server.sent /\ first < frames[k] /\ frames[k] <= last
             /\ server.sent[frames[k]].kind = "frame" /\ frames[k] \in Nat
        /\ at \in 1 .. Len(s) + 1
        /\ \A i \in 1 .. Len(s) : IF i < at THEN s[i].ids[1] < frames[1] ELSE frames[1] < s[i].ids[1]
    <3>1. DOMAIN frames = 1 .. Len(frames) /\ 1 \in DOMAIN frames
      BY <1>0, <1>5, NumbersOf
    <3>2. \A k \in DOMAIN frames : frames[k] \in Nat
      BY <1>0, <3>1, NumbersOf
    <3>3. \A k \in DOMAIN frames :
            /\ frames[k] \in DOMAIN server.sent /\ first < frames[k] /\ frames[k] <= last
            /\ server.sent[frames[k]].kind = "frame"
      BY <1>0, <3>1 DEF FramesAgree
    <3>4. /\ at \in 1 .. Len(s) + 1
          /\ \A i \in 1 .. Len(s) : IF i < at THEN s[i].ids[1] < frames[1] ELSE frames[1] < s[i].ids[1]
      BY <1>0, <1>5 DEF FramesAgree
    <3> QED
      BY <3>1, <3>2, <3>3, <3>4
  <2>2. e \in Events /\ e.session = server.session /\ e.kind = "frame" /\ e.ids = frames
    <3>1. None \in 0 .. MaxMessages + 1 /\ server.session \in 1 .. MaxSessions
      BY SentShape DEF None
    <3> QED
      BY <1>0, <3>1 DEF Event, Events
  <2>3. Made(server.sent, server.session, e, first, last)
    BY <1>5, <2>1, <2>2 DEF Made, KindOf
  <2>4. t = InsertAt(s, at, e)
    BY <1>5 DEF WithFrame, s, frames, at
  <2> HIDE DEF t, e
  <2>5. /\ t \in Seq(Events) /\ Len(t) = Len(s) + 1 /\ DOMAIN t = 1 .. Len(t)
        /\ \A i \in 1 .. Len(t) : t[i] = IF i < at THEN s[i] ELSE IF i = at THEN e ELSE s[i - 1]
    <3>1. /\ t \in Seq(Events) /\ Len(t) = Len(s) + 1
          /\ \A i \in 1 .. Len(t) : t[i] = IF i < at THEN s[i] ELSE IF i = at THEN e ELSE s[i - 1]
      <4>1. s \in Seq(Events) /\ at \in 1 .. Len(s) + 1 /\ e \in Events
        BY <1>0, <2>1, <2>2
      <4>2. Inserted(t, s, at, e)
        BY <2>4, <4>1, InsertIs
      <4> QED
        BY <4>2 DEF Inserted
    <3> QED
      BY <3>1
  \* Where an event of t comes from.
  <2> DEFINE From(i) == IF i < at THEN i ELSE i - 1
  <2>6. ASSUME NEW i \in DOMAIN t
        PROVE  IF i = at THEN t[i] = e ELSE From(i) \in 1 .. Len(s) /\ t[i] = s[From(i)]
    BY <1>3, <2>1, <2>5
  <2>7. Ordered(t)
    <3> SUFFICES ASSUME NEW i \in DOMAIN t, NEW j \in DOMAIN t, i < j
                 PROVE  t[i].ids[1] < t[j].ids[1]
      BY DEF Ordered
    <3>1. CASE i = at
      <4>1. From(j) = j - 1 /\ ~(From(j) < at) /\ j # at
        BY <2>1, <2>5, <3>1
      <4> QED
        BY <2>1, <2>2, <2>6, <3>1, <4>1
    <3>2. CASE j = at
      <4>1. From(i) = i /\ From(i) < at /\ i # at
        BY <2>1, <2>5, <3>2
      <4> QED
        BY <2>1, <2>2, <2>6, <3>2, <4>1
    <3>3. CASE i # at /\ j # at
      <4>1. From(i) < From(j)
        BY <2>1, <2>5, <3>3
      <4> QED
        BY <1>2, <2>6, <3>3, <4>1
    <3> QED
      BY <3>1, <3>2, <3>3
  <2>8. Apart(t)
    <3> SUFFICES ASSUME NEW i \in DOMAIN t, NEW j \in DOMAIN t, NEW k \in DOMAIN t[i].ids,
                        NEW l \in DOMAIN t[j].ids, t[i].ids[k] = t[j].ids[l]
                 PROVE  i = j
      BY DEF Apart
    <3>1. ASSUME NEW m \in DOMAIN t, m # at
          PROVE  \A n \in DOMAIN t[m].ids : /\ t[m].ids[n] \in DOMAIN server.sent /\ n = 1
                                            /\ server.sent[t[m].ids[n]].kind # "frame"
      BY <1>1, <2>6, <3>1 DEF KindOf
    <3>2. \A n \in DOMAIN t[at].ids : server.sent[t[at].ids[n]].kind = "frame"
      BY <2>1, <2>2, <2>5, <2>6
    <3>3. CASE i # at /\ j # at
      <4>1. t[i].ids[1] = t[j].ids[1] /\ t[i] = s[From(i)] /\ t[j] = s[From(j)]
            /\ From(i) \in 1 .. Len(s) /\ From(j) \in 1 .. Len(s)
        BY <2>6, <3>1, <3>3
      <4>2. From(i) = From(j)
        <5>1. ~(From(i) < From(j)) /\ ~(From(j) < From(i))
          BY <1>1, <1>2, <4>1
        <5> QED
          BY <1>3, <4>1, <5>1
      <4> QED
        BY <2>1, <2>5, <3>3, <4>2
    <3> QED
      BY <3>1, <3>2, <3>3
  <2>9. TellsAll(server.sent, t, first, last)
    <3> SUFFICES ASSUME NEW id \in DOMAIN server.sent, first < id, id <= last,
                        server.sent[id].kind \in Telling
                 PROVE  \E i \in DOMAIN t : In(id, t[i])
      BY DEF TellsAll
    <3>1. CASE server.sent[id].kind = "frame"
      <4>1. PICK k \in 1 .. Len(frames) : frames[k] = id
        BY <1>0, <3>1 DEF FramesAgree
      <4>2. In(id, e)
        BY <2>1, <2>2, <4>1 DEF In
      <4>3. at \in DOMAIN t /\ t[at] = e
        BY <2>1, <2>5
      <4> QED
        BY <4>2, <4>3
    <3>2. CASE server.sent[id].kind # "frame"
      <4>1. PICK j \in 1 .. Len(s) : s[j].ids[1] = id
        BY <1>0, <3>2 DEF EventsAgree, Telling
      <4>2. In(id, s[j])
        BY <1>1, <4>1 DEF In
      <4>3. \E i \in DOMAIN t : t[i] = s[j]
        <5>1. CASE j < at
          <6>1. j \in DOMAIN t /\ t[j] = s[j]
            BY <1>3, <2>5, <4>1, <5>1
          <6> QED
            BY <6>1
        <5>2. CASE ~(j < at)
          <6>1. j + 1 \in DOMAIN t /\ t[j + 1] = s[j]
            BY <1>3, <2>1, <2>5, <4>1, <5>2
          <6> QED
            BY <6>1
        <5> QED
          BY <5>1, <5>2
      <4> QED
        BY <4>2, <4>3
    <3> QED
      BY <3>1, <3>2
  <2>10. \A i \in DOMAIN t : Made(server.sent, server.session, t[i], first, last)
    BY <1>1, <2>3, <2>6
  <2> QED
    BY <2>5, <2>7, <2>8, <2>9, <2>10 DEF Tells, t
<1> QED
  BY <1>4, <1>5

(* What was told stays told while the server says more and more is read.   *)
LEMMA StillTells ==
  ASSUME NEW sent \in Seq(Messages), NEW more \in Seq(Messages), Len(sent) <= Len(more),
         \A id \in 1 .. Len(sent) : more[id] = sent[id],
         NEW session, NEW s \in Seq(Events), NEW first \in Nat, NEW last \in Nat,
         NEW later \in Nat, last <= later
  PROVE  /\ Tells(sent, session, s, first, last) => Tells(more, session, s, first, later)
         /\ TellsAll(sent, s, first, last) /\ last <= Len(sent) => TellsAll(more, s, first, last)
<1>1. /\ DOMAIN sent = 1 .. Len(sent) /\ DOMAIN more = 1 .. Len(more)
      /\ \A id \in DOMAIN sent : id \in DOMAIN more /\ more[id] = sent[id] /\ (id <= last => id <= later)
  OBVIOUS
<1>2. ASSUME NEW i \in DOMAIN s, Made(sent, session, s[i], first, last)
      PROVE  Made(more, session, s[i], first, later)
  <2>1. 1 \in DOMAIN s[i].ids
    BY <1>2, EventFields DEF Made
  <2> QED
    BY <1>1, <1>2, <2>1 DEF Made, KindOf
<1>3. TellsAll(sent, s, first, last) /\ last <= Len(sent) => TellsAll(more, s, first, last)
  <2> SUFFICES ASSUME TellsAll(sent, s, first, last), last <= Len(sent),
                      NEW id \in DOMAIN more, first < id, id <= last, more[id].kind \in Telling
               PROVE  \E i \in DOMAIN s : In(id, s[i])
    BY DEF TellsAll
  <2>1. id \in DOMAIN sent /\ more[id] = sent[id]
    BY <1>1
  <2> QED
    BY <2>1 DEF TellsAll
<1> QED
  BY <1>2, <1>3 DEF Tells

(* What a record tells follows what was told before.                       *)
LEMMA TellsJoin ==
  ASSUME NEW sent, NEW session, NEW s \in Seq(Events), NEW t \in Seq(Events),
         NEW middle \in Nat, NEW last \in Nat, middle <= last,
         Tells(sent, session, s, 0, middle), Tells(sent, session, t, middle, last),
         sent \in Seq(Messages)
  PROVE  /\ Tells(sent, session, s \o t, 0, last)
         /\ TellsAll(sent, s, 0, middle) /\ TellsAll(sent, t, middle, last) =>
              TellsAll(sent, s \o t, 0, last)
<1> DEFINE u == s \o t
<1>1. /\ u \in Seq(Events) /\ Len(u) = Len(s) + Len(t) /\ Len(s) \in Nat /\ Len(t) \in Nat
      /\ DOMAIN u = 1 .. Len(u) /\ DOMAIN s = 1 .. Len(s) /\ DOMAIN t = 1 .. Len(t)
      /\ \A i \in 1 .. Len(u) : u[i] = IF i <= Len(s) THEN s[i] ELSE t[i - Len(s)]
      /\ \A id \in DOMAIN sent : id \in Nat
  OBVIOUS
<1> HIDE DEF u
<1>2. ASSUME NEW i \in DOMAIN u
      PROVE  IF i <= Len(s) THEN i \in DOMAIN s /\ u[i] = s[i]
             ELSE i - Len(s) \in DOMAIN t /\ u[i] = t[i - Len(s)]
  BY <1>1
<1>3. ASSUME NEW i \in DOMAIN s
      PROVE  /\ Made(sent, session, s[i], 0, last) /\ 1 \in DOMAIN s[i].ids
             /\ \A k \in DOMAIN s[i].ids : s[i].ids[k] <= middle /\ s[i].ids[k] \in Nat
  <2>1. Made(sent, session, s[i], 0, middle) /\ s[i] \in Events
    BY DEF Tells
  <2>2. 1 \in DOMAIN s[i].ids /\ \A k \in DOMAIN s[i].ids : s[i].ids[k] \in Nat
    BY <2>1, EventFields DEF Made
  <2> QED
    BY <2>1, <2>2 DEF Made
<1>4. ASSUME NEW i \in DOMAIN t
      PROVE  /\ Made(sent, session, t[i], 0, last) /\ 1 \in DOMAIN t[i].ids
             /\ \A k \in DOMAIN t[i].ids : middle < t[i].ids[k] /\ t[i].ids[k] \in Nat
  <2>1. Made(sent, session, t[i], middle, last) /\ t[i] \in Events
    BY DEF Tells
  <2>2. 1 \in DOMAIN t[i].ids /\ \A k \in DOMAIN t[i].ids : t[i].ids[k] \in Nat
    BY <2>1, EventFields DEF Made
  <2> QED
    BY <2>1, <2>2 DEF Made
<1>5. \A i \in DOMAIN u : Made(sent, session, u[i], 0, last)
  BY <1>2, <1>3, <1>4
<1>6. Ordered(u)
  <2> SUFFICES ASSUME NEW i \in DOMAIN u, NEW j \in DOMAIN u, i < j
               PROVE  u[i].ids[1] < u[j].ids[1]
    BY DEF Ordered
  <2>1. CASE j <= Len(s)
    <3>1. i <= Len(s)
      BY <1>1, <2>1
    <3> QED
      BY <1>2, <2>1, <3>1 DEF Tells, Ordered
  <2>2. CASE i <= Len(s) /\ ~(j <= Len(s))
    <3>1. u[i].ids[1] <= middle /\ middle < u[j].ids[1] /\ u[i].ids[1] \in Nat /\ u[j].ids[1] \in Nat
      BY <1>2, <1>3, <1>4, <2>2
    <3> QED
      BY <3>1
  <2>3. CASE ~(i <= Len(s)) /\ ~(j <= Len(s))
    <3>1. i - Len(s) < j - Len(s)
      BY <1>1
    <3> QED
      BY <1>2, <2>3, <3>1 DEF Tells, Ordered
  <2> QED
    BY <1>1, <2>1, <2>2, <2>3
<1>7. Apart(u)
  <2> SUFFICES ASSUME NEW i \in DOMAIN u, NEW j \in DOMAIN u, NEW k \in DOMAIN u[i].ids,
                      NEW l \in DOMAIN u[j].ids, u[i].ids[k] = u[j].ids[l]
               PROVE  i = j
    BY DEF Apart
  <2>1. CASE i <= Len(s) /\ j <= Len(s)
    BY <1>2, <2>1 DEF Tells, Apart
  <2>2. CASE ~(i <= Len(s)) /\ ~(j <= Len(s))
    <3>1. i - Len(s) = j - Len(s)
      BY <1>2, <2>2 DEF Tells, Apart
    <3> QED
      BY <1>1, <3>1
  <2>3. CASE i <= Len(s) /\ ~(j <= Len(s))
    <3>1. u[i].ids[k] <= middle /\ middle < u[j].ids[l] /\ u[i].ids[k] \in Nat
      BY <1>2, <1>3, <1>4, <2>3
    <3> QED
      BY <3>1
  <2>4. CASE ~(i <= Len(s)) /\ j <= Len(s)
    <3>1. u[j].ids[l] <= middle /\ middle < u[i].ids[k] /\ u[j].ids[l] \in Nat
      BY <1>2, <1>3, <1>4, <2>4
    <3> QED
      BY <3>1
  <2> QED
    BY <2>1, <2>2, <2>3, <2>4
<1>8. ASSUME TellsAll(sent, s, 0, middle), TellsAll(sent, t, middle, last)
      PROVE  TellsAll(sent, u, 0, last)
  <2> SUFFICES ASSUME NEW id \in DOMAIN sent, 0 < id, id <= last, sent[id].kind \in Telling
               PROVE  \E i \in DOMAIN u : In(id, u[i])
    BY DEF TellsAll
  <2>1. CASE id <= middle
    <3>1. PICK i \in DOMAIN s : In(id, s[i])
      BY <1>8, <2>1 DEF TellsAll
    <3>2. i \in DOMAIN u /\ u[i] = s[i]
      BY <1>1, <3>1
    <3> QED
      BY <3>1, <3>2
  <2>2. CASE middle < id
    <3>1. PICK i \in DOMAIN t : In(id, t[i])
      BY <1>8, <2>2 DEF TellsAll
    <3>2. i + Len(s) \in DOMAIN u /\ u[i + Len(s)] = t[i]
      BY <1>1, <3>1
    <3> QED
      BY <3>1, <3>2
  <2> QED
    BY <1>1, <2>1, <2>2
<1> QED
  BY <1>5, <1>6, <1>7, <1>8 DEF Tells, u

-----------------------------------------------------------------------------
(* Every step keeps the invariant.                                         *)

LEMMA ReadSoFar ==
  ASSUME IInv
  PROVE  /\ ReadMessages \in Nat /\ ReadMessages <= Len(server.sent)
         /\ Told \in Seq(Events) /\ server.sent \in Seq(Messages) /\ server.put \in Nat
         /\ ReadHalves \in Nat
<1>1. ReadHalves \in Nat /\ ReadHalves <= server.put
  BY ReadBounds DEF IInv, ReadHalves
<1>2. server.put <= 2 * Len(server.sent) /\ Len(server.sent) \in Nat /\ server.put \in Nat
  BY SentShape DEF IInv, ServerInv, RunsTo
<1>3. PICK a \in Nat : a = ReadHalves \div 2
  BY <1>1
<1>4. ReadHalves = 2 * a \/ ReadHalves = 2 * a + 1
  BY <1>1, <1>3
<1>5. a <= Len(server.sent)
  BY <1>1, <1>2, <1>4
<1>6. Told \in Seq(Events)
  BY DEF IInv, Shapes, Clients, Told
<1> QED
  BY <1>1, <1>2, <1>3, <1>5, <1>6 DEF ReadMessages, IInv, Shapes, Servers

LEMMA InitHolds == Init => IInv
<1> SUFFICES ASSUME Init PROVE IInv
  OBVIOUS
<1>1. PICK early \in BOOLEAN : client = NewClient(early, config.media)
  BY DEF Init
<1>2. /\ config \in [automatic : BOOLEAN, media : BOOLEAN] /\ server = NewServer /\ wire = <<>>
      /\ writer = "ok" /\ call = [state |-> "idle", attempts |-> 0] /\ told = <<>>
      /\ MaxAttempts \in Nat /\ MaxSessions \in Nat \ {0} /\ MaxMessages \in Nat
  BY ClientAssumption DEF Init
<1>3. ReadHalves = 0 /\ ReadMessages = 0
  <2>1. ReadHalves = 0
    BY <1>2 DEF ReadHalves, ReadOf, NewServer
  <2> QED
    BY <2>1, HalfOf DEF ReadMessages
<1>4. Shapes
  <2>1. 1 \in 1 .. MaxSessions /\ 0 \in 0 .. 1 /\ 0 \in 0 .. MaxAttempts
    BY <1>2
  <2>2. server \in Servers
    BY <1>2, <2>1 DEF NewServer, Servers
  <2>3. client \in Clients
    BY <1>1, <1>2, <2>1 DEF NewClient, Clients, None
  <2>4. call \in Calls
    BY <1>2, <2>1 DEF Calls
  <2>5. Len(server.sent) = 0 /\ Len(client.buffer) = 0 /\ client.key = 0 /\ server.offers = 0
    BY <1>1, <1>2 DEF NewServer, NewClient, None
  <2> QED
    BY <1>2, <2>2, <2>3, <2>4, <2>5 DEF Shapes
<1>5. RunsTo(wire, server.put)
  BY <1>2 DEF RunsTo, ReadOf, NewServer
<1>6. ServerInv
  BY <1>2 DEF ServerInv, RepliesAgree, NewServer
<1>7. ClientInv
  <2>1. Kept(0) = <<>>
    BY Halving DEF Kept
  <2> QED
    BY <1>1, <1>2, <1>3, <2>1 DEF ClientInv, OfferAgrees, NewServer, NewClient, None
<1>8. PictureInv
  BY <1>2 DEF PictureInv, NewServer
<1>9. PendingInv
  BY <1>2 DEF PendingInv
<1>10. ToldInv
  <2>1. Told = <<>> /\ server.sent = <<>>
    BY <1>1, <1>2 DEF Told, NewServer, NewClient
  <2> QED
    BY <2>1 DEF ToldInv, Tells, TellsAll, Ordered, Apart
<1> QED
  BY <1>4, <1>5, <1>6, <1>7, <1>8, <1>9, <1>10 DEF IInv

(* Steps of the caller and of the writer: the session is as it was.        *)
LEMMA SessionUntouched ==
  ASSUME IInv, UNCHANGED <<config, server, wire, client, told>>,
         call' \in Calls, writer' \in {"ok", "failed"}, call.state = "ended" => call'.state = "ended",
         PendingInv'
  PROVE  IInv'
  BY DEF IInv, Shapes, ServerInv, ClientInv, PictureInv, ToldInv, Told, ReadMessages, ReadHalves

LEMMA CallerSteps ==
  ASSUME IInv
  PROVE  Call \/ Check \/ ReadFails \/ ReconnectFails \/ WriterFails => IInv'
<1>0. /\ call \in Calls /\ call.state \in {"idle", "checking", "reading", "retrying", "ended"}
      /\ call.attempts \in 0 .. MaxAttempts /\ MaxAttempts \in Nat /\ writer \in {"ok", "failed"}
      /\ Ended \in Calls /\ Ended.state = "ended"
  BY ClientAssumption DEF IInv, Shapes, Calls, Ended
<1>1. ASSUME Call PROVE IInv'
  <2>1. call' \in Calls /\ call'.state = "checking" /\ call.state # "ended"
    BY <1>0, <1>1 DEF Call, Calls
  <2> QED
    BY <1>0, <1>1, <2>1, SessionUntouched DEF Call, PendingInv
<1>2. ASSUME Check PROVE IInv'
  <2>1. call' \in Calls /\ call.state # "ended"
    BY <1>0, <1>2 DEF Check, Calls
  <2> QED
    BY <1>0, <1>2, <2>1, SessionUntouched DEF Check, PendingInv
<1>3. ASSUME ReadFails PROVE IInv'
  <2>1. call' \in Calls /\ call.state # "ended"
    BY <1>0, <1>3 DEF ReadFails, IoError, CanRetry, Calls
  <2>2. client.pending = <<>>
    BY <1>3 DEF IInv, PendingInv, ReadFails
  <2> QED
    BY <1>0, <1>3, <2>1, <2>2, SessionUntouched DEF ReadFails, PendingInv
<1>4. ASSUME ReconnectFails PROVE IInv'
  <2>1. call' \in Calls /\ call.state # "ended" /\ call'.state \in {"ended", "checking"}
    BY <1>0, <1>4 DEF ReconnectFails, Loop, Calls
  <2> QED
    BY <1>0, <1>4, <2>1, SessionUntouched DEF ReconnectFails, PendingInv
<1>5. ASSUME WriterFails PROVE IInv'
  BY <1>0, <1>5, SessionUntouched DEF WriterFails, PendingInv, IInv
<1> QED
  BY <1>1, <1>2, <1>3, <1>4, <1>5

LEMMA BreakKeeps == IInv /\ Break => IInv'
<1> SUFFICES ASSUME IInv, Break PROVE IInv'
  OBVIOUS
<1>1. server \in Servers /\ server' = [server EXCEPT !.up = FALSE]
      /\ UNCHANGED <<config, wire, client, writer, call, told>>
  BY DEF IInv, Shapes, Break
<1>2. /\ server' \in Servers /\ server'.up = FALSE /\ server'.session = server.session
      /\ server'.sent = server.sent /\ server'.put = server.put /\ server'.asked = server.asked
      /\ server'.armed = server.armed /\ server'.offers = server.offers
      /\ server'.answered = server.answered
  BY <1>1 DEF Servers
<1> QED
  BY <1>1, <1>2 DEF IInv, Shapes, ServerInv, ClientInv, PictureInv, PendingInv, ToldInv, Told,
     ReadMessages, ReadHalves

LEMMA SelectKeeps == IInv /\ SelectDisplay => IInv'
<1> SUFFICES ASSUME IInv, SelectDisplay PROVE IInv'
  OBVIOUS
<1>1. server \in Servers /\ server' = [server EXCEPT !.asked = TRUE]
      /\ UNCHANGED <<config, wire, client, writer, call, told>>
  BY DEF IInv, Shapes, SelectDisplay
<1>2. /\ server' \in Servers /\ server'.up = server.up /\ server'.session = server.session
      /\ server'.sent = server.sent /\ server'.put = server.put /\ server'.asked = TRUE
      /\ server'.armed = server.armed /\ server'.offers = server.offers
      /\ server'.answered = server.answered
  BY <1>1 DEF Servers
<1> QED
  BY <1>1, <1>2 DEF IInv, Shapes, ServerInv, ClientInv, PictureInv, PendingInv, ToldInv, Told,
     ReadMessages, ReadHalves

LEMMA TimesOutKeeps == IInv /\ TimesOut => IInv'
<1> SUFFICES ASSUME IInv, TimesOut PROVE IInv'
  OBVIOUS
<1> DEFINE gone == client.lost \/ wire # <<>>
<1>1. client \in Clients /\ client' = [client EXCEPT !.lost = gone] /\ call.state = "reading"
      /\ UNCHANGED <<config, server, wire, writer, told>>
  BY DEF IInv, Shapes, TimesOut, Clients
<1>2. gone \in BOOLEAN /\ (client.lost => gone)
  OBVIOUS
<1> HIDE DEF gone
<1>3. /\ client' \in Clients /\ client'.buffer = client.buffer /\ client'.pending = client.pending
      /\ client'.started = client.started /\ client'.offered = client.offered
      /\ client'.key = client.key /\ client'.active = client.active /\ client'.lost = gone
  BY <1>1, <1>2 DEF Clients
<1>4. call' \in Calls
  BY ClientAssumption DEF TimesOut, IoError, CanRetry, Ended, Calls, IInv, Shapes
<1>5. client.pending = <<>> /\ call.state # "ended"
  BY <1>1 DEF IInv, PendingInv
<1>6. Told' = Told /\ ReadHalves' = ReadHalves /\ ReadMessages' = ReadMessages
  BY <1>1, <1>3 DEF Told, ReadHalves, ReadMessages
<1>7. Shapes' /\ RunsTo(wire, server.put)' /\ ServerInv' /\ PendingInv'
  BY <1>1, <1>3, <1>4, <1>5 DEF IInv, Shapes, ServerInv, PendingInv
<1>8. ClientInv'
  BY <1>1, <1>3, <1>5, <1>6 DEF IInv, ClientInv, OfferAgrees
<1>9. PictureInv'
  BY <1>1, <1>2, <1>3, <1>5, <1>6 DEF IInv, PictureInv
<1>10. ToldInv'
  BY <1>1, <1>2, <1>3, <1>5, <1>6 DEF IInv, ToldInv
<1> QED
  BY <1>7, <1>8, <1>9, <1>10 DEF IInv

LEMMA SayKeeps ==
  ASSUME IInv, NEW kind \in Kinds, Say(kind)
  PROVE  IInv'
<1> DEFINE reply == kind \in {"answer", "refusal"}
           key == IF reply THEN server.answered + 1 ELSE None
           m == [kind |-> kind, key |-> key]
           sent == Append(server.sent, m)
           n == Len(server.sent) + 1
           asked == server.asked /\ kind # "frame"
           answered == IF reply THEN server.answered + 1 ELSE server.answered
<1>1. /\ server \in Servers /\ server.sent \in Seq(Messages) /\ Len(server.sent) \in Nat
      /\ n <= MaxMessages /\ MaxMessages \in Nat /\ server.answered \in 0 .. 1 /\ server.offers \in 0 .. 1
      /\ call.state # "ended" /\ MaySay(kind)
      /\ UNCHANGED <<config, wire, client, writer, call, told>>
  BY SentShape DEF IInv, Shapes, Servers, Say, Going
<1>2. server' = [server EXCEPT !.sent = sent, !.asked = asked, !.answered = answered]
  BY <1>1 DEF Say, Servers
<1>3. reply => server.answered = 0 /\ server.offers = 1 /\ key = 1
  BY <1>1 DEF MaySay
<1>4. m \in Messages
  BY <1>1, <1>3 DEF Messages, None
<1>5. /\ sent \in Seq(Messages) /\ Len(sent) = n /\ DOMAIN sent = 1 .. n /\ sent[n] = m
      /\ DOMAIN server.sent = 1 .. Len(server.sent)
      /\ \A id \in 1 .. Len(server.sent) : sent[id] = server.sent[id]
  BY <1>1, <1>4
<1>6. asked \in BOOLEAN /\ answered \in 0 .. 1 /\ answered <= server.offers
  BY <1>1, <1>3 DEF IInv, ServerInv
<1>7. reply => answered = 1
  BY <1>3
<1> HIDE DEF sent, asked, answered
<1>8. /\ server' \in Servers /\ server'.sent = sent /\ server'.asked = asked
      /\ server'.answered = answered /\ server'.session = server.session /\ server'.up = server.up
      /\ server'.put = server.put /\ server'.armed = server.armed /\ server'.offers = server.offers
  BY <1>1, <1>2, <1>5, <1>6 DEF Servers
<1>9. Told' = Told /\ ReadHalves' = ReadHalves /\ ReadMessages' = ReadMessages
  BY <1>1, <1>8 DEF Told, ReadHalves, ReadMessages
<1>10. ReadMessages \in Nat /\ ReadMessages <= Len(server.sent) /\ Told \in Seq(Events)
       /\ server.put \in Nat /\ ReadMessages < n
  BY <1>1, ReadSoFar
<1>11. Shapes'
  BY <1>1, <1>5, <1>8 DEF IInv, Shapes
<1>12. RunsTo(wire, server.put)' /\ PendingInv'
  BY <1>1, <1>8 DEF IInv, PendingInv
<1>13. \A id \in 1 .. Len(server.sent) : IsReply(sent, id) <=> IsReply(server.sent, id)
  BY <1>5 DEF IsReply
<1>14. IsReply(sent, n) => reply
  BY <1>5 DEF IsReply
<1>15. ServerInv'
  <2>1. server.put <= 2 * n
    BY <1>1, <1>10 DEF IInv, ServerInv
  <2>2. CASE reply
    <3>1. \A id \in 1 .. Len(server.sent) : ~IsReply(server.sent, id)
      BY <1>3, <1>5, <2>2 DEF IInv, ServerInv, RepliesAgree
    <3>2. \A id \in DOMAIN sent : IsReply(sent, id) => id = n
      BY <1>1, <1>5, <1>13, <3>1
    <3>3. RepliesAgree(sent, answered)
      BY <1>3, <1>5, <1>7, <2>2, <3>2 DEF RepliesAgree
    <3> QED
      BY <1>5, <1>6, <1>8, <2>1, <3>3 DEF ServerInv
  <2>3. CASE ~reply
    <3>1. \A id \in DOMAIN sent : IsReply(sent, id) => id \in 1 .. Len(server.sent) /\ IsReply(server.sent, id)
      BY <1>1, <1>5, <1>13, <1>14, <2>3
    <3>2. answered = server.answered
      BY <2>3 DEF answered
    <3>3. RepliesAgree(sent, answered)
      BY <1>5, <3>1, <3>2 DEF IInv, ServerInv, RepliesAgree
    <3> QED
      BY <1>5, <1>6, <1>8, <2>1, <3>3 DEF ServerInv
  <2> QED
    BY <2>2, <2>3
<1>16. ClientInv'
  <2>1. ClientInv /\ OfferAgrees(client, server.offers, server.sent, server.answered, ReadMessages)
    BY <1>1 DEF IInv, ClientInv
  <2>2. answered = 0 => server.answered = 0
    BY <1>1 DEF answered
  <2>3. ASSUME NEW id \in DOMAIN sent, id > ReadMessages, IsReply(sent, id)
        PROVE  client.key = 1
    <3>1. CASE id = n
      BY <1>3, <1>14, <2>1, <2>3, <3>1 DEF OfferAgrees
    <3>2. CASE id \in 1 .. Len(server.sent)
      BY <1>5, <1>13, <2>1, <2>3, <3>2 DEF OfferAgrees
    <3> QED
      BY <1>1, <1>5, <3>1, <3>2
  <2>4. OfferAgrees(client, server.offers, sent, answered, ReadMessages)
    BY <2>1, <2>2, <2>3 DEF OfferAgrees
  <2> QED
    BY <1>1, <1>8, <1>9, <2>1, <2>4 DEF ClientInv
<1>17. PictureInv'
  <2>1. PictureInv
    BY <1>1 DEF IInv
  <2>2. CASE kind = "frame"
    <3>1. n \in DOMAIN sent /\ n > ReadMessages /\ sent[n].kind = "frame"
      BY <1>1, <1>5, <1>10, <2>2
    <3> QED
      BY <1>8, <1>9, <3>1 DEF PictureInv
  <2>3. CASE kind # "frame"
    <3>1. asked = server.asked
      BY <1>1, <2>3 DEF asked, Servers
    <3>2. \A id \in DOMAIN server.sent : id \in DOMAIN sent /\ sent[id] = server.sent[id]
      BY <1>1, <1>5
    <3> QED
      BY <1>1, <1>8, <1>9, <2>1, <3>1, <3>2 DEF PictureInv
  <2> QED
    BY <2>2, <2>3
<1>18. ToldInv'
  <2>1. Len(server.sent) <= Len(sent)
    BY <1>1, <1>5
  <2>2. Tells(sent, server.session, Told, 0, ReadMessages)
    <3>1. 0 \in Nat /\ ReadMessages <= ReadMessages
      BY <1>10
    <3>2. Tells(server.sent, server.session, Told, 0, ReadMessages)
      BY DEF IInv, ToldInv
    <3> QED
      BY <1>1, <1>5, <1>10, <2>1, <3>1, <3>2, StillTells
  <2>3. TellsAll(server.sent, Told, 0, ReadMessages) => TellsAll(sent, Told, 0, ReadMessages)
    <3>1. 0 \in Nat /\ ReadMessages <= ReadMessages
      BY <1>10
    <3> QED
      BY <1>1, <1>5, <1>10, <2>1, <3>1, StillTells
  <2> QED
    BY <1>1, <1>8, <1>9, <2>2, <2>3 DEF IInv, ToldInv
<1> QED
  BY <1>1, <1>11, <1>12, <1>15, <1>16, <1>17, <1>18 DEF IInv

LEMMA PutKeeps ==
  ASSUME IInv, NEW size \in 1 .. MaxRecord, Put(size)
  PROVE  IInv'
<1> DEFINE put == server.put + size
<1>1. /\ server \in Servers /\ put <= 2 * Len(server.sent) /\ call.state # "ended"
      /\ wire' = Append(wire, [i \in 1 .. size |-> Half(server.put + i)])
      /\ server' = [server EXCEPT !.put = put]
      /\ UNCHANGED <<config, client, writer, call, told>>
  BY DEF IInv, Shapes, Servers, Put, Going
<1>2. /\ size \in Nat \ {0} /\ server.put \in Nat /\ put \in Nat /\ put <= 2 * MaxMessages
      /\ RunsTo(wire, server.put)
  <2>1. RunsTo(wire, server.put) /\ server.put \in Nat
    BY DEF IInv, RunsTo
  <2>2. size \in Nat \ {0} /\ MaxMessages \in Nat
    BY ClientAssumption
  <2>3. Len(server.sent) \in Nat /\ Len(server.sent) <= MaxMessages
    BY SentShape DEF IInv
  <2> QED
    BY <1>1, <2>1, <2>2, <2>3
<1>3. /\ server' \in Servers /\ server'.put = put /\ server'.session = server.session
      /\ server'.sent = server.sent /\ server'.up = server.up /\ server'.asked = server.asked
      /\ server'.armed = server.armed /\ server'.offers = server.offers
      /\ server'.answered = server.answered
  BY <1>1, <1>2 DEF Servers
<1>4. RunsTo(wire', put) /\ ReadOf(wire', put) = ReadOf(wire, server.put)
  BY <1>1, <1>2, RecordPut
<1> HIDE DEF put
<1>5. Told' = Told /\ ReadHalves' = ReadHalves /\ ReadMessages' = ReadMessages
  BY <1>1, <1>3, <1>4 DEF Told, ReadHalves, ReadMessages
<1>6. Shapes' /\ RunsTo(wire, server.put)' /\ ServerInv' /\ PendingInv'
  BY <1>1, <1>3, <1>4 DEF IInv, Shapes, ServerInv, PendingInv
<1>7. ClientInv' /\ PictureInv' /\ ToldInv'
  BY <1>1, <1>3, <1>5 DEF IInv, ClientInv, PictureInv, ToldInv
<1> QED
  BY <1>6, <1>7 DEF IInv

LEMMA ReturnKeeps == IInv /\ Return => IInv'
<1> SUFFICES ASSUME IInv, Return PROVE IInv'
  OBVIOUS
<1> DEFINE e == Head(client.pending)
           rest == Tail(client.pending)
           timed == client.timed /\ e.kind # "stream"
<1>1. /\ client \in Clients /\ client.pending \in Seq(Events) /\ client.pending # <<>>
      /\ call.state = "checking" /\ told \in Seq(Events)
      /\ told' = Append(told, e) /\ call' = Idle
      /\ UNCHANGED <<config, server, wire, writer>>
  BY DEF IInv, Shapes, Clients, Return
<1>2. client' = [client EXCEPT !.pending = rest, !.timed = timed]
  BY <1>1 DEF Return, Clients
<1>3. e \in Events /\ rest \in Seq(Events) /\ client.pending = <<e>> \o rest
  <2>1. e \in Events /\ rest \in Seq(Events) /\ Len(rest) = Len(client.pending) - 1
        /\ \A i \in 1 .. Len(rest) : rest[i] = client.pending[i + 1]
    BY <1>1
  <2> HIDE DEF rest
  <2>2. /\ <<e>> \o rest \in Seq(Events) /\ Len(<<e>> \o rest) = Len(client.pending)
        /\ \A i \in 1 .. Len(client.pending) : client.pending[i] = (<<e>> \o rest)[i]
    BY <1>1, <2>1
  <2> QED
    BY <1>1, <2>1, <2>2, SeqEqual
<1>4. timed \in BOOLEAN
  OBVIOUS
<1>5. Append(told, e) \o rest = told \o client.pending
  <2> HIDE DEF e, rest
  <2>1. Append(told, e) = told \o <<e>> /\ <<e>> \in Seq(Events)
    BY <1>1, <1>3, AppendIsConcat
  <2>2. (told \o <<e>>) \o rest = told \o (<<e>> \o rest)
    BY <1>1, <1>3, <2>1, ConcatAssociative
  <2> QED
    BY <1>3, <2>1, <2>2
<1> HIDE DEF e, rest, timed
<1>6. /\ client' \in Clients /\ client'.buffer = client.buffer /\ client'.pending = rest
      /\ client'.started = client.started /\ client'.offered = client.offered
      /\ client'.key = client.key /\ client'.active = client.active /\ client'.lost = client.lost
  BY <1>1, <1>2, <1>3, <1>4 DEF Clients
<1>7. Told' = Told /\ ReadHalves' = ReadHalves /\ ReadMessages' = ReadMessages
  BY <1>1, <1>5, <1>6 DEF Told, ReadHalves, ReadMessages
<1>8. Idle \in Calls /\ Idle.state = "idle" /\ told' \in Seq(Events)
  BY <1>1, <1>3, ClientAssumption DEF Idle, Calls
<1>9. Shapes' /\ RunsTo(wire, server.put)' /\ ServerInv' /\ PendingInv'
  BY <1>1, <1>6, <1>8 DEF IInv, Shapes, ServerInv, PendingInv
<1>10. ClientInv' /\ PictureInv' /\ ToldInv'
  BY <1>1, <1>6, <1>7 DEF IInv, ClientInv, OfferAgrees, PictureInv, ToldInv
<1> QED
  BY <1>9, <1>10 DEF IInv

LEMMA ReconnectKeeps ==
  ASSUME IInv, NEW early \in BOOLEAN, Reconnect(early)
  PROVE  IInv'
<1> DEFINE session == server.session + 1
<1>1. /\ session \in 1 .. MaxSessions /\ client' = NewClient(early, FALSE)
      /\ wire' = <<>> /\ writer' = "ok" /\ told' = <<>> /\ call' = Idle /\ UNCHANGED config
  BY ClientAssumption DEF Reconnect, Replaced, IInv, Shapes, Servers
<1>a. server' = [NewServer EXCEPT !.session = session]
  BY DEF Reconnect
<1> HIDE DEF session
<1>2. /\ server' = [session |-> session, up |-> TRUE, sent |-> <<>>, put |-> 0,
                    asked |-> TRUE, armed |-> FALSE, offers |-> 0, answered |-> 0]
      /\ MaxAttempts \in Nat /\ MaxMessages \in Nat
  BY <1>a, ClientAssumption DEF NewServer
<1>3. ReadHalves' = 0 /\ ReadMessages' = 0
  <2>1. ReadHalves' = 0
    BY <1>1, <1>2 DEF ReadHalves, ReadOf
  <2> QED
    BY <2>1, HalfOf DEF ReadMessages
<1>4. Shapes'
  <2>1. 0 \in 0 .. 1 /\ 0 \in 0 .. MaxAttempts
    BY <1>2
  <2>2. server' \in Servers
    BY <1>1, <1>2, <2>1 DEF Servers
  <2>3. client' \in Clients
    BY <1>1, <1>2, <2>1 DEF NewClient, Clients, None
  <2>4. call' \in Calls
    BY <1>1, <2>1 DEF Calls, Idle
  <2>5. Len(server'.sent) = 0 /\ Len(client'.buffer) = 0 /\ client'.key = 0 /\ server'.offers = 0
    BY <1>1, <1>2 DEF NewClient, None
  <2> QED
    <3>1. /\ config' \in [automatic : BOOLEAN, media : BOOLEAN] /\ told' \in Seq(Events)
          /\ writer' \in {"ok", "failed"}
      BY <1>1 DEF IInv, Shapes
    <3>2. Len(server'.sent) <= MaxMessages /\ Len(client'.buffer) <= 1 /\ client'.key <= server'.offers
      BY <1>2, <2>5
    <3> QED
      BY <2>2, <2>3, <2>4, <3>1, <3>2 DEF Shapes
<1>5. RunsTo(wire, server.put)'
  BY <1>1, <1>2 DEF RunsTo, ReadOf
<1>6. ServerInv'
  BY <1>1, <1>2 DEF ServerInv, RepliesAgree
<1>7. ClientInv'
  <2>1. Kept(0) = <<>>
    BY Halving DEF Kept
  <2> QED
    BY <1>1, <1>2, <1>3, <2>1 DEF ClientInv, OfferAgrees, NewClient, None
<1>8. PictureInv' /\ PendingInv'
  BY <1>1, <1>2 DEF PictureInv, PendingInv, Idle
<1>9. ToldInv'
  <2>1. Told' = <<>> /\ server'.sent = <<>>
    BY <1>1, <1>2 DEF Told, NewClient
  <2> QED
    BY <2>1 DEF ToldInv, Tells, TellsAll, Ordered, Apart
<1> QED
  BY <1>4, <1>5, <1>6, <1>7, <1>8, <1>9 DEF IInv

(* Once next_event has failed, all that matters is what it returned before. *)
LEMMA EndKeeps ==
  ASSUME IInv, wire # <<>>, wire' = Tail(wire), call' = Ended, NEW offers \in 0 .. 1,
         server.offers <= offers, server' = [server EXCEPT !.offers = offers],
         UNCHANGED <<config, client, writer, told>>
  PROVE  IInv'
<1>1. /\ server \in Servers /\ client \in Clients /\ Ended \in Calls /\ Ended.state = "ended"
      /\ client.key \in 0 .. 1 /\ server.offers \in 0 .. 1 /\ server.answered \in 0 .. 1
  BY ClientAssumption DEF IInv, Shapes, Servers, Clients, Ended, Calls
<1>2. /\ server' \in Servers /\ server'.offers = offers /\ server'.up = server.up
      /\ server'.session = server.session /\ server'.put = server.put
      /\ server'.sent = server.sent /\ server'.answered = server.answered
  BY <1>1 DEF Servers
<1>3. /\ RunsTo(wire, server.put)' /\ Head(wire) \in Seq(Halves)
      /\ ReadHalves' = ReadHalves + Len(Head(wire))
  BY <1>2, RecordTaken DEF IInv, ReadHalves
<1>4. /\ Len(Head(wire)) \in Nat /\ ReadHalves \in Nat /\ ReadHalves' \in Nat
      /\ ReadHalves <= ReadHalves' /\ ReadMessages \in Nat
  BY <1>3, ReadSoFar
<1>5. ReadMessages' \in Nat /\ ReadMessages <= ReadMessages'
  <2>1. PICK a \in Nat, b \in Nat : a = ReadHalves \div 2 /\ b = ReadHalves' \div 2
    BY <1>4
  <2>2. a <= b
    BY <1>4, <2>1
  <2> QED
    BY <2>1, <2>2 DEF ReadMessages
<1>6. Shapes'
  BY <1>1, <1>2 DEF IInv, Shapes
<1>7. ServerInv'
  BY <1>1, <1>2 DEF IInv, ServerInv
<1>8. PendingInv'
  BY <1>1 DEF PendingInv
<1>9. ToldInv'
  <2>1. Told' = Told /\ Told \in Seq(Events) /\ server.sent \in Seq(Messages)
    BY ReadSoFar DEF Told
  <2>2. Tells(server.sent, server.session, Told, 0, ReadMessages')
    <3>1. /\ Len(server.sent) <= Len(server.sent) /\ 0 \in Nat
          /\ Tells(server.sent, server.session, Told, 0, ReadMessages)
      BY SentShape DEF IInv, ToldInv
    <3> QED
      BY <1>4, <1>5, <2>1, <3>1, StillTells
  <2> QED
    BY <1>1, <1>2, <2>1, <2>2 DEF ToldInv
<1> QED
  BY <1>1, <1>3, <1>6, <1>7, <1>8, <1>9 DEF IInv

LEMMA GarbageKeeps == IInv /\ TakeGarbage => IInv'
<1> SUFFICES ASSUME IInv, TakeGarbage PROVE IInv'
  OBVIOUS
<1>1. server \in Servers /\ server.offers \in 0 .. 1 /\ server.offers <= server.offers
      /\ server = [server EXCEPT !.offers = server.offers]
  BY DEF IInv, Shapes, Servers
<1> QED
  BY <1>1, EndKeeps DEF TakeGarbage

(* A record whose messages were handled.                                   *)
LEMMA RecordKeeps ==
  ASSUME IInv, call.state = "reading", wire # <<>>, ~client.lost, NEW b,
         b = Batch(client.buffer \o Head(wire)), ~b.failed, wire' = Tail(wire), call' = Loop,
         client' = [b.client EXCEPT !.pending = WithFrame(b),
                                    !.started = @ \/ (Asks(b) /\ config.automatic)],
         server' = [server EXCEPT !.offers = b.offers,
                                  !.asked = @ \/ (Asks(b) /\ ~config.automatic),
                                  !.armed = @ \/ (Asks(b) /\ config.automatic)],
         UNCHANGED <<config, writer, told>>
  PROVE  IInv'
<1> DEFINE started == b.client.started \/ (Asks(b) /\ config.automatic)
           asked == server.asked \/ (Asks(b) /\ ~config.automatic)
           armed == server.armed \/ (Asks(b) /\ config.automatic)
           first == ReadMessages
           last == NextMessages
<1>1. /\ Shapes /\ ServerInv /\ ClientInv /\ PictureInv /\ RunsTo(wire, server.put)
      /\ client.pending = <<>> /\ server \in Servers /\ call \in Calls /\ told \in Seq(Events)
  BY DEF IInv, PendingInv, Shapes
<1>2. Handled(b, Kept(NextHalves), first, last)
  BY <1>1, BatchHandled
<1>3. SameReader(b, Kept(NextHalves)) /\ Agreement(b, first, last)
  BY <1>2 DEF Handled
<1>4. /\ first \in Nat /\ last \in Nat /\ first <= last /\ last <= Len(server.sent)
      /\ Kept(NextHalves) \in Seq(Halves) /\ Len(Kept(NextHalves)) <= 1
  BY <1>1, RecordRead
<1> HIDE DEF first, last
<1>5. /\ WithFrame(b) \in Seq(Events) /\ TellsAll(server.sent, WithFrame(b), first, last)
      /\ Tells(server.sent, server.session, WithFrame(b), first, last)
  BY <1>1, <1>3, <1>4, BatchTells
<1>6. b \in Batches /\ b.client \in Clients /\ b.offers \in 0 .. 1 /\ server.offers <= b.offers
      /\ b.client.key \in 0 .. 1
  BY <1>3 DEF SameReader, Batches, Clients
<1>7. client' = [b.client EXCEPT !.pending = WithFrame(b), !.started = started]
  BY <1>6 DEF Clients
<1>8. server' = [server EXCEPT !.offers = b.offers, !.asked = asked, !.armed = armed]
  BY <1>1 DEF Servers
<1>9. started \in BOOLEAN /\ asked \in BOOLEAN /\ armed \in BOOLEAN
  OBVIOUS
<1>10. /\ Asks(b) => asked \/ armed
       /\ server.asked => asked
       /\ server.armed => armed
       /\ started => config.automatic /\ armed
  BY <1>1, <1>3 DEF ClientInv, SameReader
<1> HIDE DEF started, asked, armed
<1>11. /\ client' \in Clients /\ client'.buffer = b.client.buffer /\ client'.pending = WithFrame(b)
       /\ client'.started = started /\ client'.offered = b.client.offered
       /\ client'.key = b.client.key /\ client'.active = b.client.active
       /\ client'.lost = b.client.lost
  BY <1>5, <1>6, <1>7, <1>9 DEF Clients
<1>12. /\ server' \in Servers /\ server'.offers = b.offers /\ server'.asked = asked
       /\ server'.armed = armed /\ server'.sent = server.sent /\ server'.put = server.put
       /\ server'.session = server.session /\ server'.up = server.up
       /\ server'.answered = server.answered
  BY <1>1, <1>6, <1>8, <1>9 DEF Servers
<1>13. RunsTo(wire, server.put)' /\ ReadHalves' = NextHalves /\ ReadMessages' = last
  BY <1>1, <1>12, RecordTaken DEF ReadHalves, ReadMessages, NextHalves, NextMessages, last
<1>14. call' \in Calls /\ call'.state = "checking" /\ call.state # "ended"
  BY <1>1 DEF Loop, Calls
<1>15. OfferAgrees(b.client, b.offers, server.sent, server.answered, last)
  BY <1>3 DEF Agreement
<1>16. Shapes'
  <2>1. client'.key <= server'.offers
    BY <1>6, <1>11, <1>12, <1>15 DEF OfferAgrees, None
  <2> QED
    BY <1>1, <1>3, <1>4, <1>11, <1>12, <1>14, <2>1 DEF Shapes, SameReader
<1>17. ServerInv'
  <2>1. server.answered \in 0 .. 1 /\ server.offers \in 0 .. 1
    BY <1>1 DEF Servers
  <2> QED
    BY <1>1, <1>6, <1>12, <2>1 DEF ServerInv
<1>18. ClientInv'
  <2>1. OfferAgrees(client', server'.offers, server'.sent, server'.answered, last)
    BY <1>11, <1>12, <1>15 DEF OfferAgrees
  <2> QED
    BY <1>3, <1>10, <1>11, <1>12, <1>13, <2>1 DEF ClientInv, SameReader
<1>19. PictureInv'
  <2> SUFFICES ASSUME server.up, ~b.client.offered
               PROVE  \/ asked \/ armed
                      \/ \E id \in DOMAIN server.sent : id > last /\ server.sent[id].kind = "frame"
    BY <1>11, <1>12, <1>13 DEF PictureInv
  <2>1. ~client.offered
    BY <1>1, <1>6, <1>15 DEF ClientInv, OfferAgrees, Servers
  <2>2. CASE server.asked \/ server.armed
    BY <1>10, <2>2
  <2>3. CASE ~(server.asked \/ server.armed)
    <3>1. PICK id \in DOMAIN server.sent : id > first /\ server.sent[id].kind = "frame"
      BY <1>1, <2>1, <2>3 DEF PictureInv, first
    <3>2. CASE id > last
      BY <3>1, <3>2
    <3>3. CASE id <= last
      <4>1. b.frames # <<>>
        <5>1. \E k \in 1 .. Len(b.frames) : b.frames[k] = id
          BY <1>3, <1>4, <3>1, <3>3, SentShape DEF Agreement, FramesAgree
        <5> QED
          BY <5>1
      <4>2. ~b.client.active
        BY <1>15 DEF OfferAgrees
      <4>3. ~(config.automatic /\ b.client.started)
        BY <1>1, <1>3, <2>3 DEF ClientInv, SameReader
      <4> QED
        BY <1>10, <4>1, <4>2, <4>3 DEF Asks
    <3> QED
      BY <1>1, <1>4, <3>1, <3>2, <3>3, SentShape
  <2> QED
    BY <2>2, <2>3
<1>20. PendingInv'
  BY <1>14 DEF PendingInv
<1>21. ToldInv'
  <2>1. Told = told /\ Told' = told \o WithFrame(b)
    BY <1>1, <1>11, ConcatEmptySeq DEF Told
  <2>2. Tells(server.sent, server.session, told, 0, first) /\ TellsAll(server.sent, told, 0, first)
    BY <1>14, <2>1 DEF IInv, ToldInv, first
  <2>3. /\ Tells(server.sent, server.session, told \o WithFrame(b), 0, last)
        /\ TellsAll(server.sent, told \o WithFrame(b), 0, last)
    BY <1>1, <1>4, <1>5, <2>2, TellsJoin DEF Servers
  <2> QED
    BY <1>12, <1>13, <2>1, <2>3 DEF ToldInv
<1> QED
  BY <1>13, <1>14, <1>16, <1>17, <1>18, <1>19, <1>20, <1>21 DEF IInv

LEMMA TakeRecordKeeps == IInv /\ TakeRecord => IInv'
<1> SUFFICES ASSUME IInv, TakeRecord PROVE IInv'
  OBVIOUS
<1> DEFINE buffer == client.buffer \o Head(wire)
           b == Batch(buffer)
           refused == Unreadable(buffer) \/ b.failed \/ (Asks(b) /\ writer = "failed")
<1>1. /\ call.state = "reading" /\ wire # <<>> /\ ~client.lost /\ wire' = Tail(wire)
      /\ UNCHANGED <<config, writer, told>>
  BY DEF TakeRecord
<1>2. CASE refused
  <2> DEFINE offers == IF Unreadable(buffer) THEN server.offers ELSE b.offers
  <2>1. call' = Ended /\ client' = client /\ server' = [server EXCEPT !.offers = offers]
    BY <1>2 DEF TakeRecord, IInv, Shapes, Servers
  <2>2. server.offers \in 0 .. 1 /\ b.offers \in 0 .. 1 /\ server.offers <= b.offers
    <3>1. Handled(b, Kept(NextHalves), ReadMessages, NextMessages)
      BY <1>1, BatchHandled DEF IInv
    <3> QED
      BY <3>1 DEF Handled, SameReader, Batches, IInv, Shapes, Servers
  <2>3. offers \in 0 .. 1 /\ server.offers <= offers
    BY <2>2
  <2> HIDE DEF offers
  <2> QED
    BY <1>1, <2>1, <2>3, EndKeeps
<1>3. CASE ~refused
  <2>1. /\ call' = Loop
        /\ client' = [b.client EXCEPT !.pending = WithFrame(b),
                                      !.started = @ \/ (Asks(b) /\ config.automatic)]
        /\ server' = [server EXCEPT !.offers = b.offers,
                                    !.asked = @ \/ (Asks(b) /\ ~config.automatic),
                                    !.armed = @ \/ (Asks(b) /\ config.automatic)]
    BY <1>3 DEF TakeRecord
  <2>2. ~b.failed
    BY <1>3
  <2> HIDE DEF b
  <2>3. b = Batch(client.buffer \o Head(wire))
    BY DEF b
  <2> QED
    BY <1>1, <2>1, <2>2, <2>3, RecordKeeps
<1> QED
  BY <1>2, <1>3

LEMMA StepKeeps == IInv /\ [Next]_vars => IInv'
<1> SUFFICES ASSUME IInv, [Next]_vars PROVE IInv'
  OBVIOUS
<1>1. CASE \E kind \in Kinds : Say(kind)
  BY <1>1, SayKeeps
<1>2. CASE \E size \in 1 .. MaxRecord : Put(size)
  BY <1>2, PutKeeps
<1>3. CASE \E early \in BOOLEAN : Reconnect(early)
  BY <1>3, ReconnectKeeps
<1>4. CASE Call \/ Check \/ ReadFails \/ ReconnectFails \/ WriterFails
  BY <1>4, CallerSteps
<1>5. CASE Break \/ SelectDisplay \/ TimesOut \/ Return
  BY <1>5, BreakKeeps, SelectKeeps, TimesOutKeeps, ReturnKeeps
<1>6. CASE TakeRecord \/ TakeGarbage
  BY <1>6, TakeRecordKeeps, GarbageKeeps
<1>7. CASE UNCHANGED vars
  BY <1>7 DEF vars, IInv, Shapes, ServerInv, ClientInv, PictureInv, PendingInv, ToldInv, Told,
     ReadMessages, ReadHalves
<1> QED
  BY <1>1, <1>2, <1>3, <1>4, <1>5, <1>6, <1>7 DEF Next

(* The state of a session agrees with the messages its server has sent and *)
(* the halves of them that the client has read.                            *)
THEOREM Invariance == Spec => []IInv
<1>1. Init => IInv
  BY InitHolds
<1>2. IInv /\ [Next]_vars => IInv'
  BY StepKeeps
<1> QED
  BY <1>1, <1>2, PTL DEF Spec

-----------------------------------------------------------------------------
(* What it says of a session.                                              *)

(* Every variable has its type; next_event never makes more attempts than  *)
(* its policy has, and never keeps more than one half of a message.        *)
THEOREM TypesHold == Spec => []TypeOK
<1>1. IInv => TypeOK
  <2> SUFFICES ASSUME IInv PROVE TypeOK
    OBVIOUS
  <2>1. /\ server \in Servers /\ client \in Clients /\ call \in Calls /\ told \in Seq(Events)
        /\ config \in [automatic : BOOLEAN, media : BOOLEAN] /\ writer \in {"ok", "failed"}
        /\ Len(server.sent) <= MaxMessages /\ Len(client.buffer) <= 1 /\ client.key <= server.offers
    BY DEF IInv, Shapes
  <2>2. server.put \in 0 .. 2 * MaxMessages
    BY SentShape DEF IInv, ServerInv, RunsTo
  <2>3. server.answered \in 0 .. server.offers /\ client.key \in 0 .. server.offers
    BY <2>1 DEF IInv, ServerInv, Servers, Clients
  <2>4. \A i \in DOMAIN wire : wire[i] \in Seq(Halves)
    BY DEF IInv, RunsTo
  <2>5. \A flag \in {client.kept, client.started, client.offered, client.active, client.timed, client.lost} :
          flag \in BOOLEAN
    BY <2>1 DEF Clients
  <2>6. /\ server.session \in 1 .. MaxSessions /\ server.up \in BOOLEAN
        /\ server.sent \in Seq(Messages) /\ server.asked \in BOOLEAN /\ server.armed \in BOOLEAN
    BY <2>1 DEF Servers
  <2>7. client.buffer \in Seq(Halves) /\ client.pending \in Seq(Events)
    BY <2>1 DEF Clients
  <2> QED
    BY <2>1, <2>2, <2>3, <2>4, <2>5, <2>6, <2>7 DEF TypeOK, Messages, Calls
<1> QED
  BY <1>1, Invariance, PTL

(* A message the client has not read whole is on its way: the other half   *)
(* of what the buffer holds, too.                                          *)
LEMMA UnreadIsOnTheWay ==
  ASSUME IInv, NEW id \in DOMAIN server.sent, id > ReadMessages
  PROVE  id \in OnTheWay
<1>0. /\ ReadHalves \in Nat /\ ReadMessages = ReadHalves \div 2 /\ id \in Nat \ {0}
      /\ server.put \in Nat /\ RunsTo(wire, server.put)
  BY ReadSoFar, SentShape DEF ReadMessages, IInv
<1>1. CASE server.put < 2 * id
  BY <1>1 DEF OnTheWay
<1>2. CASE ~(server.put < 2 * id)
  <2>1. 2 * id \in ReadHalves + 1 .. server.put
    <3>1. PICK a \in Nat : a = ReadHalves \div 2
      BY <1>0
    <3>2. ReadHalves = 2 * a \/ ReadHalves = 2 * a + 1
      BY <1>0, <3>1
    <3> QED
      BY <1>0, <1>2, <3>1, <3>2
  <2>2. PICK i \in 1 .. Len(wire) : \E j \in 1 .. Len(wire[i]) : wire[i][j] = Half(2 * id)
    BY <1>0, <2>1 DEF RunsTo, ReadHalves
  <2>3. PICK j \in 1 .. Len(wire[i]) : wire[i][j] = Half(2 * id)
    BY <2>2
  <2>4. wire[i][j].id = id
    BY <1>0, <2>3, HalfPlace
  <2>5. i \in DOMAIN wire /\ wire[i][j] \in ToSet(wire[i])
    BY <1>0, <2>2, <2>3 DEF RunsTo, ToSet
  <2>6. wire[i][j] \in UNION {ToSet(wire[k]) : k \in DOMAIN wire}
    BY <2>5
  <2> QED
    BY <2>4, <2>6 DEF OnTheWay
<1> QED
  BY <1>1, <1>2

(* Whatever records cut and join, a session's messages become events in    *)
(* their order, every frame, notice and accepted answer in exactly one, of *)
(* this session and with the keys of the offer that was answered.          *)
THEOREM EveryMessageIsTold == Spec => []ToldInOrder
<1>1. IInv => ToldInOrder
  <2> SUFFICES ASSUME IInv PROVE ToldInOrder
    OBVIOUS
  <2>0. /\ Told \in Seq(Events) /\ DOMAIN Told = 1 .. Len(Told)
        /\ Tells(server.sent, server.session, Told, 0, ReadMessages)
    BY ReadSoFar DEF IInv, ToldInv
  <2>1. ASSUME NEW i \in DOMAIN Told
        PROVE  LET e == Told[i] IN
               /\ e.session = server.session
               /\ i > 1 => Told[i - 1].ids[1] < e.ids[1]
               /\ e.kind = "stream" => e.key = server.sent[e.ids[1]].key
    <3>1. Made(server.sent, server.session, Told[i], 0, ReadMessages) /\ Ordered(Told)
      BY <2>0 DEF Tells
    <3>2. i > 1 => i - 1 \in DOMAIN Told /\ i - 1 < i
      BY <2>0
    <3> QED
      BY <3>1, <3>2 DEF Made, Ordered
  <2>2. ASSUME call.state # "ended", ~client.lost, NEW id \in DOMAIN server.sent \ OnTheWay,
               server.sent[id].kind \in {"frame", "notice", "answer"}
        PROVE  Cardinality({i \in DOMAIN Told : id \in ToSet(Told[i].ids)}) = 1
    <3>1. 0 < id /\ id <= ReadMessages
      <4>1. ~(id > ReadMessages)
        BY UnreadIsOnTheWay
      <4> QED
        BY <4>1, ReadSoFar, SentShape DEF IInv
    <3>2. TellsAll(server.sent, Told, 0, ReadMessages)
      BY <2>2 DEF IInv, ToldInv
    <3>3. PICK i \in DOMAIN Told : In(id, Told[i])
      BY <2>2, <3>1, <3>2 DEF TellsAll, Telling
    <3>4. \A j \in DOMAIN Told : id \in ToSet(Told[j].ids) <=> In(id, Told[j])
      BY DEF ToSet, In
    <3>5. \A j \in DOMAIN Told : In(id, Told[j]) => j = i
      BY <2>0, <3>3 DEF Tells, Apart, In
    <3>6. {j \in DOMAIN Told : id \in ToSet(Told[j].ids)} = {i}
      BY <3>3, <3>4, <3>5
    <3> QED
      BY <3>6, FS_Singleton
  <2> QED
    BY <2>1, <2>2 DEF ToldInOrder
<1> QED
  BY <1>1, Invariance, PTL

(* As long as the server was offered no stream, it owes the client a frame *)
(* or will send one by itself, or one is on its way that the client will   *)
(* answer with a request.                                                  *)
THEOREM PictureComes == Spec => []LoopAlive
<1>1. IInv => LoopAlive
  <2> SUFFICES ASSUME IInv, call.state # "ended", server.up, ~client.lost, ~client.offered,
                      ~(server.asked \/ server.armed)
               PROVE  \E id \in OnTheWay : server.sent[id].kind = "frame"
    BY DEF LoopAlive
  <2>1. PICK id \in DOMAIN server.sent : id > ReadMessages /\ server.sent[id].kind = "frame"
    BY DEF IInv, PictureInv
  <2> QED
    BY <2>1, UnreadIsOnTheWay
<1> QED
  BY <1>1, Invariance, PTL
=============================================================================
