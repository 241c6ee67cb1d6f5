------------------------- MODULE OutboundQueue_proof -------------------------
(***************************************************************************)
(* Proofs about OutboundQueue, for any number of senders, any capacity and *)
(* record size, and any number of submissions: its types, that a reported  *)
(* drain is a real one, that only the socket makes the writer fail, and    *)
(* that the queue implements the input log.                                *)
(***************************************************************************)
EXTENDS OutboundQueue, SequenceTheorems, TLAPS

(* A thread that is somewhere in a call has a message in hand. *)
HeldInv ==
  \A s \in Senders : sender[s] # "idle" => held[s] \in Message

(* A batch is in the air only while in_flight is set, or it was lost and   *)
(* the error is recorded; the flag and the writer's place agree.           *)
BatchInv ==
  /\ inFlight <=> writer \in {"write", "written", "failed"}
  /\ batch # <<>> => inFlight \/ writerError
  /\ writer \in {"receive", "wait", "written"} => batch = <<>>
  /\ writer = "failed" => writerError

(* What a drain has seen stays true: the wire only grows. *)
FlushInv ==
  /\ flush = "waiting" => owed <= Len(Log)
  /\ flush = "drained" => writerError \/ owed <= Len(wire)
  /\ flush = "ok" => owed <= Len(wire)

(* Closing stops the queue for good, so a drained queue stays empty. *)
CloseInv ==
  /\ closer # "open" => stopped
  /\ closer \in {"joining", "closed"} => messages = <<>> /\ ~inFlight

(* What the writer is about to encode fits in a record, so an error it has *)
(* recorded came from a socket that was down, and stays down.              *)
RecordInv ==
  /\ writer = "write" => FitsRecord(batch)
  /\ writerError => ~socketUp

IInv == TypeOK /\ HeldInv /\ BatchInv /\ FlushInv /\ CloseInv

-----------------------------------------------------------------------------
(* The log and its length, piece by piece. *)

LEMMA LogLength ==
  ASSUME TypeOK
  PROVE  /\ Log \in Seq(Message)
         /\ Len(Log) = Len(wire) + Len(batch) + Len(messages)
         /\ Len(wire) \in Nat /\ Len(batch) \in Nat /\ Len(messages) \in Nat
<1>1. wire \in Seq(Message) /\ batch \in Seq(Message) /\ messages \in Seq(Message)
  BY DEF TypeOK
<1>2. wire \o batch \in Seq(Message) /\ Len(wire \o batch) = Len(wire) + Len(batch)
  BY <1>1, ConcatProperties
<1>3. /\ (wire \o batch) \o messages \in Seq(Message)
      /\ Len((wire \o batch) \o messages) = Len(wire \o batch) + Len(messages)
  BY <1>1, <1>2, ConcatProperties
<1>4. Len(wire) \in Nat /\ Len(batch) \in Nat /\ Len(messages) \in Nat
  BY <1>1, LenProperties
<1> QED  BY <1>2, <1>3, <1>4 DEF Log

(* A prefix of a sequence. *)
LEMMA Prefix ==
  ASSUME NEW S, NEW ms \in Seq(S), NEW n \in 0 .. Len(ms)
  PROVE  /\ SubSeq(ms, 1, n) \in Seq(S)
         /\ Len(SubSeq(ms, 1, n)) = n
         /\ \A i \in 1 .. n : SubSeq(ms, 1, n)[i] = ms[i]
<1>1. Len(ms) \in Nat /\ \A i \in 1 .. Len(ms) : ms[i] \in S
  BY LenProperties, ElementOfSeq
<1>2. n \in Int /\ \A i \in 1 .. n : ms[i] \in S
  BY <1>1
<1> DEFINE front == SubSeq(ms, 1, n)
<1>3. /\ front \in Seq(S)
      /\ Len(front) = IF 1 <= n THEN n - 1 + 1 ELSE 0
      /\ \A i \in 1 .. n - 1 + 1 : front[i] = ms[1 + i - 1]
  BY <1>2, SubSeqProperties
<1> HIDE DEF front
<1>4. front \in Seq(S) /\ Len(front) = n
  BY <1>1, <1>3
<1>5. ASSUME NEW i \in 1 .. n PROVE front[i] = ms[i]
  <2>1. i \in 1 .. n - 1 + 1 /\ 1 + i - 1 = i
    BY <1>1
  <2> QED  BY <1>3, <2>1
<1> QED  BY <1>4, <1>5 DEF front

(* Taking the first entries off a sequence and putting them before the     *)
(* rest is the sequence again: a batch keeps the order of the queue.       *)
LEMMA SplitSequence ==
  ASSUME NEW S, NEW ms \in Seq(S), NEW k \in 1 .. Len(ms)
  PROVE  /\ SubSeq(ms, 1, k) \in Seq(S)
         /\ SubSeq(ms, k + 1, Len(ms)) \in Seq(S)
         /\ Len(SubSeq(ms, 1, k)) = k
         /\ Len(SubSeq(ms, k + 1, Len(ms))) = Len(ms) - k
         /\ SubSeq(ms, 1, k) \o SubSeq(ms, k + 1, Len(ms)) = ms
<1> DEFINE front == SubSeq(ms, 1, k)
           back  == SubSeq(ms, k + 1, Len(ms))
<1>1. Len(ms) \in Nat /\ \A i \in 1 .. Len(ms) : ms[i] \in S
  BY LenProperties, ElementOfSeq
<1>2. front \in Seq(S) /\ Len(front) = k
  BY <1>1, Prefix
<1>3. /\ back \in Seq(S) /\ Len(back) = Len(ms) - k
      /\ \A i \in 1 .. Len(ms) - k : back[i] = ms[k + i]
  <2>1. \A i \in k + 1 .. Len(ms) : ms[i] \in S
    BY <1>1
  <2>2. /\ back \in Seq(S)
        /\ Len(back) = IF k + 1 <= Len(ms) THEN Len(ms) - (k + 1) + 1 ELSE 0
        /\ \A i \in 1 .. Len(ms) - (k + 1) + 1 : back[i] = ms[k + 1 + i - 1]
    BY <2>1, <1>1, SubSeqProperties
  <2> QED  BY <2>2, <1>1
<1>4. front \o back = SubSeq(ms, 1, Len(ms))
  <2>1. 1 \in 1 .. Len(ms) + 1 /\ k \in 1 - 1 .. Len(ms) /\ Len(ms) \in k .. Len(ms)
    BY <1>1
  <2> QED  BY <2>1, ConcatAdjacentSubSeq
<1>5. SubSeq(ms, 1, Len(ms)) = ms
  BY SubSeqFull
<1> QED  BY <1>2, <1>3, <1>4, <1>5

(* Putting a message in the place of the newest one. *)
LEMMA ReplaceLast ==
  ASSUME NEW S, NEW ms \in Seq(S), ms # <<>>, NEW m \in S
  PROVE  /\ Append(Front(ms), m) \in Seq(S)
         /\ Len(Append(Front(ms), m)) = Len(ms)
         /\ Append(Front(ms), m) = [ms EXCEPT ![Len(ms)] = m]
         /\ Len(ms) \in Nat \ {0}
<1>1. Len(ms) \in Nat \ {0} /\ \A i \in 1 .. Len(ms) : ms[i] \in S
  BY EmptySeq, ElementOfSeq
<1>2. /\ Front(ms) \in Seq(S) /\ Len(Front(ms)) = Len(ms) - 1
      /\ \A i \in 1 .. Len(ms) - 1 : Front(ms)[i] = ms[i]
  <2>1. Front(ms) = SubSeq(ms, 1, Len(ms) - 1) /\ Len(ms) - 1 \in 0 .. Len(ms)
    BY <1>1 DEF Front
  <2> HIDE DEF Front
  <2> QED  BY <2>1, Prefix
<1>3. /\ Append(Front(ms), m) \in Seq(S)
      /\ Len(Append(Front(ms), m)) = Len(ms)
      /\ \A i \in 1 .. Len(ms) :
           Append(Front(ms), m)[i] = IF i = Len(ms) THEN m ELSE ms[i]
  <2> HIDE DEF Front
  <2>1. /\ Append(Front(ms), m) \in Seq(S)
        /\ Len(Append(Front(ms), m)) = Len(Front(ms)) + 1
        /\ \A i \in 1 .. Len(Front(ms)) : Append(Front(ms), m)[i] = Front(ms)[i]
        /\ Append(Front(ms), m)[Len(Front(ms)) + 1] = m
    BY <1>2, AppendProperties
  <2> QED  BY <1>1, <1>2, <2>1
<1>4. /\ [ms EXCEPT ![Len(ms)] = m] \in Seq(S)
      /\ Len([ms EXCEPT ![Len(ms)] = m]) = Len(ms)
      /\ \A i \in 1 .. Len(ms) :
           [ms EXCEPT ![Len(ms)] = m][i] = IF i = Len(ms) THEN m ELSE ms[i]
  BY <1>1, ExceptSeq
<1>5. Append(Front(ms), m) = [ms EXCEPT ![Len(ms)] = m]
  <2> DEFINE a == Append(Front(ms), m)
             b == [ms EXCEPT ![Len(ms)] = m]
  <2>1. /\ a \in Seq(S) /\ b \in Seq(S) /\ Len(a) = Len(b)
        /\ \A i \in 1 .. Len(a) : a[i] = b[i]
    BY <1>1, <1>3, <1>4
  <2> HIDE DEF a, b
  <2>2. a = b
    BY <2>1, SeqEqual
  <2> QED  BY <2>2 DEF a, b
<1> QED  BY <1>1, <1>3, <1>5
-----------------------------------------------------------------------------
(* Types *)

SenderState == {"idle", "again", "submit", "wait", "woken"}

(* Waking threads only turns waiting ones into woken ones. *)
LEMMA Waking ==
  ASSUME NEW f \in [Senders -> SenderState]
  PROVE  /\ WakeEveryWaiter(f) \in [Senders -> SenderState]
         /\ \A t \in Senders : WakeEveryWaiter(f)[t] # "idle" => f[t] # "idle"
         /\ \A g \in WakeOneWaiter(f) :
              /\ g \in [Senders -> SenderState]
              /\ \A t \in Senders : g[t] # "idle" => f[t] # "idle"
  BY DEF WakeEveryWaiter, WakeOneWaiter, SenderState

(* A thread whose payload was accepted either goes on to the next part of  *)
(* the same message, or is done and holds nothing.                         *)
LEMMA HandingOver ==
  ASSUME TypeOK, NEW s \in Senders, held[s] \in Message, Accepted(s)
  PROVE  /\ AcceptedSender(s) \in [Senders -> SenderState]
         /\ \A t \in Senders : AcceptedSender(s)[t] # "idle" =>
              (t # s /\ sender[t] # "idle") \/ (t = s /\ More(s))
         /\ held' \in [Senders -> Message \cup {NoMessage}]
         /\ \A t \in Senders : t # s => held'[t] = held[t]
         /\ More(s) => held'[s] \in Message
<1>1. More(s) => [held[s] EXCEPT !.part = @ + 1] \in Message
  BY QueueAssumption DEF Message, More
<1>2. held' = [held EXCEPT ![s] =
                 IF More(s) THEN [held[s] EXCEPT !.part = @ + 1] ELSE NoMessage]
  BY DEF Accepted
<1>3. held \in [Senders -> Message \cup {NoMessage}] /\ sender \in [Senders -> SenderState]
  BY DEF TypeOK, SenderState
<1>4. /\ AcceptedSender(s) \in [Senders -> SenderState]
      /\ \A t \in Senders : AcceptedSender(s)[t] # "idle" =>
           (t # s /\ sender[t] # "idle") \/ (t = s /\ More(s))
  BY <1>3 DEF AcceptedSender, SenderState
<1> QED  BY <1>1, <1>2, <1>3, <1>4

(* The steps of a submission that put nothing in the queue. *)
Waits(s) ==
  \/ NextPart(s) \/ AbandonParts(s)
  \/ Refuse(s) \/ RefuseFull(s) \/ WaitForSpace(s)

(* The typing of the queue, the threads and the messages they hold. *)
LEMMA TypeInit == Init => TypeOK /\ HeldInv
<1> SUFFICES ASSUME Init PROVE TypeOK /\ HeldInv
  OBVIOUS
<1>1. <<>> \in Seq(Message) /\ Len(<<>>) = 0
  BY EmptySeq
<1>2. messages \in Seq(Message) /\ batch \in Seq(Message) /\ wire \in Seq(Message)
  BY <1>1 DEF Init
<1>3. Len(messages) <= MaxInputQueue
  BY <1>1, QueueAssumption DEF Init
<1>4. issued \in 0 .. MaxSubmissions /\ owed \in Nat
  BY QueueAssumption DEF Init
<1>5. /\ sender \in [Senders -> {"idle", "submit", "wait", "woken"}]
      /\ held \in [Senders -> Message \cup {NoMessage}]
      /\ HeldInv
  BY DEF Init, HeldInv
<1> QED  BY <1>2, <1>3, <1>4, <1>5 DEF Init, TypeOK

(* Every step of a submitter, the writer, a flush or a close keeps the     *)
(* typing.                                                                 *)
LEMMA TypeStep == TypeOK /\ HeldInv /\ [Next]_vars => TypeOK' /\ HeldInv'
<1> SUFFICES ASSUME TypeOK, HeldInv, [Next]_vars PROVE TypeOK' /\ HeldInv'
  OBVIOUS
<1> USE QueueAssumption
<1>e. <<>> \in Seq(Message) /\ Len(<<>>) = 0 /\ Len(messages) \in Nat
  BY EmptySeq, LenProperties DEF TypeOK
<1>t. sender \in [Senders -> SenderState]
  BY DEF TypeOK, SenderState
<1>1. ASSUME NEW s \in Senders, NEW kind \in Kinds[s], BeginSubmit(s, kind)
      PROVE  TypeOK' /\ HeldInv'
  <2>1. /\ issued + 1 \in 1 .. MaxSubmissions
        /\ kind[1] \in Modes /\ kind[2] \in 1 .. MaxPayload /\ kind[3] \in 1 .. MaxParts
        /\ 1 \in 1 .. MaxParts
    BY <1>1 DEF BeginSubmit, TypeOK
  <2>2. [id |-> issued + 1, mode |-> kind[1], size |-> kind[2], part |-> 1, of |-> kind[3]]
          \in Message
    BY <2>1 DEF Message
  <2> QED  BY <1>1, <2>1, <2>2 DEF BeginSubmit, TypeOK, HeldInv, queue, writing, flushing
<1>2. ASSUME NEW s \in Senders, Waits(s)
      PROVE  TypeOK' /\ HeldInv'
  <2>1. CASE Refuse(s)
    BY <2>1 DEF Refuse, Return, TypeOK, HeldInv, queue, writing, flushing
  <2>2. CASE RefuseFull(s)
    BY <2>2 DEF RefuseFull, Return, TypeOK, HeldInv, queue, writing, flushing
  <2>3. CASE WaitForSpace(s)
    BY <2>3 DEF WaitForSpace, TypeOK, HeldInv, queue, writing, flushing
  <2>4. CASE NextPart(s)
    BY <2>4 DEF NextPart, TypeOK, HeldInv, queue, writing, flushing
  <2>5. CASE AbandonParts(s)
    BY <2>5 DEF AbandonParts, Return, TypeOK, HeldInv, queue, writing, flushing
  <2> QED  BY <1>2, <2>1, <2>2, <2>3, <2>4, <2>5 DEF Waits
<1>3. ASSUME NEW s \in Senders, Coalesce(s)
      PROVE  TypeOK' /\ HeldInv'
  <2>1. messages # <<>> /\ held[s] \in Message
    BY <1>3 DEF Coalesce, Supersedes, HeldInv
  <2>2. messages' \in Seq(Message) /\ Len(messages') = Len(messages)
    BY <1>3, <2>1, ReplaceLast DEF Coalesce, TypeOK
  <2>3. /\ AcceptedSender(s) \in [Senders -> SenderState]
        /\ \A t \in Senders : AcceptedSender(s)[t] # "idle" =>
             (t # s /\ sender[t] # "idle") \/ (t = s /\ More(s))
        /\ held' \in [Senders -> Message \cup {NoMessage}]
        /\ \A t \in Senders : t # s => held'[t] = held[t]
        /\ More(s) => held'[s] \in Message
    BY <1>3, <1>t, <2>1, HandingOver DEF Coalesce
  <2>4. /\ sender' \in [Senders -> SenderState]
        /\ \A t \in Senders : sender'[t] # "idle" => AcceptedSender(s)[t] # "idle"
    BY <1>3, <2>3, Waking DEF Coalesce
  <2>5. writer' \in {"receive", "wait", "write", "written", "failed", "stop", "exit"}
    BY <1>3 DEF Coalesce, WakeWriter, TypeOK
  <2>6. HeldInv'
    BY <2>3, <2>4 DEF HeldInv
  <2> QED  BY <1>3, <2>2, <2>3, <2>4, <2>5, <2>6
           DEF Coalesce, TypeOK, SenderState, flushing
<1>4. ASSUME NEW s \in Senders, Push(s)
      PROVE  TypeOK' /\ HeldInv'
  <2>1. held[s] \in Message
    BY <1>4 DEF Push, HeldInv
  <2>2. messages' \in Seq(Message) /\ Len(messages') = Len(messages) + 1
    BY <1>4, <2>1, AppendProperties DEF Push, TypeOK
  <2>3. Len(messages') <= MaxInputQueue
    BY <1>4, <1>e, <2>2 DEF Push, Full, TypeOK
  <2>4. /\ sender' = AcceptedSender(s) /\ sender' \in [Senders -> SenderState]
        /\ \A t \in Senders : sender'[t] # "idle" =>
             (t # s /\ sender[t] # "idle") \/ (t = s /\ More(s))
        /\ held' \in [Senders -> Message \cup {NoMessage}]
        /\ \A t \in Senders : t # s => held'[t] = held[t]
        /\ More(s) => held'[s] \in Message
    BY <1>4, <1>t, <2>1, HandingOver DEF Push
  <2>5. HeldInv'
    BY <2>4 DEF HeldInv
  <2> QED  BY <1>4, <2>2, <2>3, <2>4, <2>5
           DEF Push, WakeWriter, TypeOK, SenderState, flushing
<1>5. ASSUME NEW k \in 1 .. Len(messages), ReceiveBatch(k)
      PROVE  TypeOK' /\ HeldInv'
  <2>1. /\ batch' \in Seq(Message) /\ messages' \in Seq(Message)
        /\ Len(messages') = Len(messages) - k
    BY <1>5, SplitSequence DEF ReceiveBatch, TypeOK
  <2>2. /\ sender' \in [Senders -> SenderState]
        /\ \A t \in Senders : sender'[t] # "idle" => sender[t] # "idle"
    BY <1>5, <1>t, Waking DEF ReceiveBatch
  <2>3. Len(messages') <= MaxInputQueue
    BY <1>e, <2>1 DEF TypeOK
  <2> QED  BY <1>5, <2>1, <2>2, <2>3
           DEF ReceiveBatch, TypeOK, HeldInv, SenderState, flushing
<1>6. CASE WriteSucceeds
  <2>1. wire' \in Seq(Message)
    BY <1>6, ConcatProperties DEF WriteSucceeds, TypeOK
  <2> QED  BY <1>6, <1>e, <2>1 DEF WriteSucceeds, TypeOK, HeldInv, queue, sending, flushing
<1>7. CASE ReceiveWaits \/ ReceiveNothing \/ WriteFails \/ FinishBatch
  <2>1. CASE ReceiveWaits
    BY <2>1 DEF ReceiveWaits, TypeOK, HeldInv, queue, sending, flushing
  <2>2. CASE ReceiveNothing
    BY <2>2 DEF ReceiveNothing, TypeOK, HeldInv, queue, sending, flushing
  <2>3. CASE WriteFails
    BY <2>3 DEF WriteFails, TypeOK, HeldInv, queue, sending, flushing
  <2>4. CASE FinishBatch
    BY <2>4 DEF FinishBatch, TypeOK, HeldInv, queue, sending, flushing
  <2> QED
    BY <1>7, <2>1, <2>2, <2>3, <2>4
<1>8. CASE WriterStops
  <2>1. /\ sender' \in [Senders -> SenderState]
        /\ \A t \in Senders : sender'[t] # "idle" => sender[t] # "idle"
    BY <1>8, <1>t, Waking DEF WriterStops
  <2> QED  BY <1>8, <2>1 DEF WriterStops, TypeOK, HeldInv, SenderState, flushing
<1>9. CASE SocketFails \/ FlushDrained \/ FlushTimesOut \/ EndFlush \/ Closing
  <2>1. CASE SocketFails
    BY <2>1 DEF SocketFails, TypeOK, HeldInv, queue, writing, sending, flushing
  <2>2. CASE FlushDrained \/ FlushTimesOut \/ EndFlush
    BY <2>2 DEF FlushDrained, FlushTimesOut, EndFlush, TypeOK, HeldInv, queue, writing, sending
  <2>3. CASE Closing
    BY <2>3 DEF Closing, CloseDrained, CloseTimesOut, CloseJoins, TypeOK, HeldInv,
                queue, writing, sending, flushing
  <2> QED  BY <1>9, <2>1, <2>2, <2>3
<1>10. CASE BeginFlush
  <2>1. owed' \in Nat
    BY <1>10, LogLength DEF BeginFlush
  <2> QED  BY <1>10, <2>1 DEF BeginFlush, TypeOK, HeldInv, queue, writing, sending
<1>11. CASE Close
  <2>1. /\ sender' \in [Senders -> SenderState]
        /\ \A t \in Senders : sender'[t] # "idle" => sender[t] # "idle"
    BY <1>11, <1>t, Waking DEF Close
  <2> QED  BY <1>11, <2>1 DEF Close, TypeOK, HeldInv, SenderState, flushing
<1>12. CASE UNCHANGED vars
  BY <1>12 DEF vars, queue, writing, sending, flushing, TypeOK, HeldInv
<1> QED  BY <1>1, <1>2, <1>3, <1>4, <1>5, <1>6, <1>7, <1>8, <1>9, <1>10, <1>11, <1>12
         DEF Next, Submit, Waits, Writer
-----------------------------------------------------------------------------
(* The input log *)

(* Changing the last entry of a sequence changes the last entry of any     *)
(* sequence that ends with it.                                             *)
LEMMA ReplaceLastOfConcat ==
  ASSUME NEW S, NEW u \in Seq(S), NEW ms \in Seq(S), ms # <<>>, NEW m \in S
  PROVE  /\ u \o [ms EXCEPT ![Len(ms)] = m] = [u \o ms EXCEPT ![Len(u \o ms)] = m]
         /\ (u \o ms)[Len(u \o ms)] = ms[Len(ms)]
<1> DEFINE b  == [ms EXCEPT ![Len(ms)] = m]
           um == u \o ms
           lhs == u \o b
           rhs == [um EXCEPT ![Len(um)] = m]
<1>1. Len(ms) \in Nat \ {0} /\ Len(u) \in Nat
  BY EmptySeq, LenProperties
<1>2. /\ um \in Seq(S) /\ Len(um) = Len(u) + Len(ms)
      /\ \A i \in 1 .. Len(u) + Len(ms) :
           um[i] = IF i <= Len(u) THEN u[i] ELSE ms[i - Len(u)]
  BY ConcatProperties
<1>3. /\ b \in Seq(S) /\ Len(b) = Len(ms)
      /\ \A i \in 1 .. Len(ms) : b[i] = IF i = Len(ms) THEN m ELSE ms[i]
  <2>1. Len(ms) \in 1 .. Len(ms)
    BY <1>1
  <2> QED  BY <2>1, ExceptSeq
<1> HIDE DEF b, um
<1>4. /\ lhs \in Seq(S) /\ Len(lhs) = Len(u) + Len(ms)
      /\ \A i \in 1 .. Len(u) + Len(ms) :
           lhs[i] = IF i <= Len(u) THEN u[i] ELSE b[i - Len(u)]
  <2>1. b \in Seq(S)
    BY <1>3
  <2>2. /\ lhs \in Seq(S) /\ Len(lhs) = Len(u) + Len(b)
        /\ \A i \in 1 .. Len(u) + Len(b) :
             lhs[i] = IF i <= Len(u) THEN u[i] ELSE b[i - Len(u)]
    BY <2>1, ConcatProperties
  <2> HIDE DEF lhs
  <2> QED  BY <1>3, <2>2
<1>5. /\ rhs \in Seq(S) /\ Len(rhs) = Len(u) + Len(ms)
      /\ \A i \in 1 .. Len(um) : rhs[i] = IF i = Len(um) THEN m ELSE um[i]
  <2>1. Len(um) \in 1 .. Len(um)
    BY <1>1, <1>2
  <2> QED  BY <1>2, <2>1, ExceptSeq
<1> HIDE DEF lhs, rhs
<1>6. ASSUME NEW i \in 1 .. Len(lhs) PROVE lhs[i] = rhs[i]
  <2>1. CASE i <= Len(u)
    BY <1>1, <1>2, <1>4, <1>5, <2>1
  <2>2. CASE i > Len(u)
    <3>1. i - Len(u) \in 1 .. Len(ms)
      BY <1>1, <1>4, <2>2
    <3>2. /\ lhs[i] = b[i - Len(u)] /\ um[i] = ms[i - Len(u)]
          /\ rhs[i] = IF i = Len(um) THEN m ELSE um[i]
      BY <1>1, <1>2, <1>4, <1>5, <2>2
    <3>3. b[i - Len(u)] = IF i - Len(u) = Len(ms) THEN m ELSE ms[i - Len(u)]
      BY <1>3, <3>1
    <3>4. i - Len(u) = Len(ms) <=> i = Len(um)
      BY <1>1, <1>2, <1>4
    <3> QED  BY <3>2, <3>3, <3>4
  <2> QED  BY <1>1, <1>4, <2>1, <2>2
<1>7. lhs = rhs
  BY <1>4, <1>5, <1>6, SeqEqual
<1>8. um[Len(um)] = ms[Len(ms)]
  BY <1>1, <1>2
<1> QED  BY <1>7, <1>8 DEF lhs, rhs, um, b

(* Every step of the queue is a step of the log, or leaves it alone; and   *)
(* nothing already on the wire comes off it.                               *)
LEMMA LogStep ==
  ASSUME TypeOK, HeldInv, BatchInv, [Next]_vars
  PROVE  /\ \/ \E m \in Message : InputLog!Accept(m) \/ InputLog!Supersede(m)
            \/ InputLog!Commit
            \/ UNCHANGED <<Log, Len(wire) + Len(batch)>>
         /\ Len(wire') >= Len(wire)
<1> DEFINE Claim == /\ \/ \E m \in Message : InputLog!Accept(m) \/ InputLog!Supersede(m)
                       \/ InputLog!Commit
                       \/ UNCHANGED <<Log, Len(wire) + Len(batch)>>
                    /\ Len(wire') >= Len(wire)
<1>t. wire \in Seq(Message) /\ batch \in Seq(Message) /\ messages \in Seq(Message)
  BY DEF TypeOK
<1>u. wire \o batch \in Seq(Message) /\ Len(wire) \in Nat /\ Len(batch) \in Nat
  BY <1>t, ConcatProperties, LenProperties
<1>1. ASSUME UNCHANGED <<wire, batch, messages>> PROVE Claim
  BY <1>1, <1>u DEF Log
<1>2. ASSUME NEW s \in Senders, Coalesce(s) PROVE Claim
  <2>1. held[s] \in Pointer /\ messages # <<>> /\ messages[Len(messages)] \in Motion
    <3>1. messages # <<>> /\ held[s] \in Message
      BY <1>2 DEF Coalesce, Supersedes, HeldInv
    <3>2. Len(messages) \in 1 .. Len(messages) /\ messages[Len(messages)] \in Message
      <4>1. Len(messages) \in Nat \ {0}
        BY <1>t, <3>1, EmptySeq
      <4> QED  BY <1>t, <4>1, ElementOfSeq
    <3> QED  BY <1>2, <3>1, <3>2 DEF Coalesce, Supersedes, Last, Motion, Pointer
  <2>2. held[s] \in Message
    BY <2>1 DEF Pointer
  <2>3. /\ messages' = [messages EXCEPT ![Len(messages)] = held[s]]
        /\ Len(messages) \in Nat \ {0}
    <3>1. messages' = Append(Front(messages), held[s])
      BY <1>2 DEF Coalesce
    <3>2. /\ Append(Front(messages), held[s]) = [messages EXCEPT ![Len(messages)] = held[s]]
          /\ Len(messages) \in Nat \ {0}
      BY <1>t, <2>1, <2>2, ReplaceLast
    <3> QED  BY <3>1, <3>2
  <2>4. UNCHANGED <<wire, batch>>
    BY <1>2 DEF Coalesce
  <2>5. Log' = [Log EXCEPT ![Len(Log)] = held[s]] /\ Log[Len(Log)] \in Motion
    <3> DEFINE taken == wire \o batch
    <3>1. taken \in Seq(Message) /\ messages \in Seq(Message) /\ messages # <<>>
      BY <1>t, <1>u, <2>1
    <3> HIDE DEF taken
    <3>2. /\ taken \o [messages EXCEPT ![Len(messages)] = held[s]]
                = [taken \o messages EXCEPT ![Len(taken \o messages)] = held[s]]
          /\ (taken \o messages)[Len(taken \o messages)] = messages[Len(messages)]
      BY <2>2, <3>1, ReplaceLastOfConcat, SMTT(60)
    <3>3. Log = taken \o messages /\ Log' = taken \o messages'
      BY <2>4 DEF Log, taken
    <3> QED  BY <2>1, <2>3, <3>2, <3>3
  <2>6. Len(wire) + Len(batch) < Len(Log)
    BY <2>3, <1>u, LogLength
  <2>7. InputLog!Supersede(held[s])
    BY <2>1, <2>4, <2>5, <2>6 DEF InputLog!Supersede
  <2> QED  BY <2>2, <2>4, <2>7, <1>u
<1>3. ASSUME NEW s \in Senders, Push(s) PROVE Claim
  <2>1. held[s] \in Message
    BY <1>3 DEF Push, HeldInv
  <2>2. UNCHANGED <<wire, batch>> /\ messages' = Append(messages, held[s])
    BY <1>3 DEF Push
  <2>3. /\ messages' = messages \o <<held[s]>>
        /\ Append(Log, held[s]) = Log \o <<held[s]>>
    BY <1>t, <2>1, <2>2, LogLength, AppendIsConcat
  <2>4. <<held[s]>> \in Seq(Message)
    BY <2>1
  <2>5. Log' = Append(Log, held[s])
    BY <1>t, <1>u, <2>2, <2>3, <2>4, ConcatAssociative, SMTT(40) DEF Log
  <2>6. InputLog!Accept(held[s])
    BY <2>2, <2>5 DEF InputLog!Accept
  <2> QED  BY <2>1, <2>2, <2>6, <1>u
<1>4. ASSUME NEW k \in 1 .. Len(messages), ReceiveBatch(k) PROVE Claim
  <2> DEFINE front == SubSeq(messages, 1, k)
             back  == SubSeq(messages, k + 1, Len(messages))
  <2>1. wire' = wire /\ batch = <<>> /\ batch' = front /\ messages' = back
    BY <1>4 DEF ReceiveBatch, BatchInv
  <2>2. /\ front \in Seq(Message) /\ back \in Seq(Message) /\ Len(front) = k
        /\ front \o back = messages
    BY <1>t, SplitSequence
  <2> HIDE DEF front, back
  <2>3. Log' = Log
    <3>1. Log = wire \o messages
      BY <1>t, <2>1, ConcatEmptySeq DEF Log
    <3>2. (wire \o front) \o back = wire \o (front \o back)
      <4>1. wire \in Seq(Message) /\ front \in Seq(Message) /\ back \in Seq(Message)
        BY <1>t, <2>2
      <4> QED  BY <4>1, ConcatAssociative
    <3> QED  BY <2>1, <2>2, <3>1, <3>2 DEF Log
  <2>4. Len(batch) = 0 /\ Len(messages) \in Nat
    BY <1>t, <2>1, EmptySeq, LenProperties
  <2>5. Len(wire') + Len(batch') \in Len(wire) + Len(batch) + 1 .. Len(Log)
    BY <1>u, <2>1, <2>2, <2>4, LogLength
  <2>6. InputLog!Commit
    BY <2>3, <2>5 DEF InputLog!Commit
  <2> QED  BY <2>1, <2>6, <1>u
<1>5. ASSUME WriteSucceeds PROVE Claim
  <2>1. wire' = wire \o batch /\ batch' = <<>> /\ messages' = messages
    BY <1>5 DEF WriteSucceeds, queue
  <2>2. wire' \o batch' = wire \o batch
    BY <1>u, <2>1, ConcatEmptySeq
  <2>3. Log' = Log
    BY <2>1, <2>2 DEF Log
  <2>4. Len(wire') = Len(wire) + Len(batch) /\ Len(batch') = 0
    BY <1>t, <2>1, ConcatProperties, EmptySeq
  <2> QED  BY <2>3, <2>4, <1>u
<1>6. ASSUME UNCHANGED vars PROVE UNCHANGED <<wire, batch, messages>>
  BY <1>6 DEF vars, queue, writing
<1>7. ASSUME NEW s \in Senders, Waits(s)
      PROVE  UNCHANGED <<wire, batch, messages>>
  BY <1>7 DEF Waits, NextPart, AbandonParts, Refuse, RefuseFull, WaitForSpace, queue, writing
<1>8. ASSUME NEW s \in Senders, NEW kind \in Kinds[s], BeginSubmit(s, kind)
      PROVE  UNCHANGED <<wire, batch, messages>>
  BY <1>8 DEF BeginSubmit, queue, writing
<1>9. ASSUME ReceiveWaits \/ ReceiveNothing \/ WriteFails \/ FinishBatch \/ WriterStops
      PROVE  UNCHANGED <<wire, batch, messages>>
  BY <1>9 DEF ReceiveWaits, ReceiveNothing, WriteFails, FinishBatch, WriterStops, queue
<1>10. ASSUME SocketFails \/ BeginFlush \/ FlushDrained \/ FlushTimesOut \/ EndFlush
       PROVE  UNCHANGED <<wire, batch, messages>>
  BY <1>10 DEF SocketFails, BeginFlush, FlushDrained, FlushTimesOut, EndFlush, queue, writing
<1>11. ASSUME Close \/ Closing PROVE UNCHANGED <<wire, batch, messages>>
  BY <1>11 DEF Close, Closing, CloseDrained, CloseTimesOut, CloseJoins, queue, writing
<1> HIDE DEF Claim
<1>12. Claim
  BY <1>1, <1>2, <1>3, <1>4, <1>5, <1>6, <1>7, <1>8, <1>9, <1>10, <1>11
     DEF Next, Submit, Waits, Writer
<1> QED  BY <1>12 DEF Claim
-----------------------------------------------------------------------------
(* The inductive invariant *)

(* The inductive invariant holds when the path is opened, with an empty    *)
(* queue and nobody waiting.                                               *)
LEMMA InitIInv == Init => IInv
<1> SUFFICES ASSUME Init PROVE IInv
  OBVIOUS
<1>1. TypeOK /\ HeldInv
  BY TypeInit
<1>2. BatchInv /\ FlushInv /\ CloseInv
  BY DEF Init, BatchInv, FlushInv, CloseInv
<1> QED  BY <1>1, <1>2 DEF IInv

(* The steps that leave the writer, its batch and its flags alone, and     *)
(* those of a submitter or a closer, which may wake it.                    *)
LEMMA BatchStep ==
  ASSUME TypeOK, BatchInv, [Next]_vars
  PROVE  BatchInv'
<1>1. ASSUME NEW s \in Senders, Coalesce(s) \/ Push(s) PROVE BatchInv'
  BY <1>1 DEF Coalesce, Push, WakeWriter, BatchInv
<1>2. CASE Close
  BY <1>2 DEF Close, BatchInv
<1>3. CASE ReceiveWaits \/ ReceiveNothing
  BY <1>3 DEF ReceiveWaits, ReceiveNothing, BatchInv, queue
<1>4. ASSUME NEW k \in 1 .. Len(messages), ReceiveBatch(k) PROVE BatchInv'
  BY <1>4 DEF ReceiveBatch, BatchInv
<1>5. CASE WriteSucceeds
  BY <1>5 DEF WriteSucceeds, BatchInv, queue
<1>6. CASE WriteFails
  BY <1>6 DEF WriteFails, BatchInv, queue
<1>7. CASE FinishBatch
  BY <1>7 DEF FinishBatch, BatchInv
<1>8. CASE WriterStops
  BY <1>8 DEF WriterStops, BatchInv
<1>9. ASSUME UNCHANGED <<queue, writing>> PROVE BatchInv'
  BY <1>9 DEF queue, writing, BatchInv
<1>10. ASSUME NEW s \in Senders, Waits(s)
       PROVE  UNCHANGED <<queue, writing>>
  BY <1>10 DEF Waits, NextPart, AbandonParts, Refuse, RefuseFull, WaitForSpace
<1>11. ASSUME NEW s \in Senders, NEW kind \in Kinds[s], BeginSubmit(s, kind)
       PROVE  UNCHANGED <<queue, writing>>
  BY <1>11 DEF BeginSubmit
<1>12. ASSUME SocketFails \/ BeginFlush \/ FlushDrained \/ FlushTimesOut \/ EndFlush
       PROVE  UNCHANGED <<queue, writing>>
  BY <1>12 DEF SocketFails, BeginFlush, FlushDrained, FlushTimesOut, EndFlush
<1>13. ASSUME Closing PROVE UNCHANGED <<queue, writing>>
  BY <1>13 DEF Closing, CloseDrained, CloseTimesOut, CloseJoins
<1>14. ASSUME UNCHANGED vars PROVE UNCHANGED <<queue, writing>>
  BY <1>14 DEF vars
<1> QED  BY <1>1, <1>2, <1>3, <1>4, <1>5, <1>6, <1>7, <1>8, <1>9, <1>10, <1>11, <1>12,
            <1>13, <1>14
         DEF Next, Submit, Waits, Writer

(* Nothing starts a stopped queue again, and nobody adds to one.           *)
LEMMA CloseStep ==
  ASSUME TypeOK, BatchInv, CloseInv, [Next]_vars
  PROVE  CloseInv'
<1>1. ASSUME NEW s \in Senders, Coalesce(s) \/ Push(s) PROVE CloseInv'
  BY <1>1 DEF Coalesce, Push, CloseInv
<1>2. CASE Close
  BY <1>2 DEF Close, CloseInv
<1>3. ASSUME NEW k \in 1 .. Len(messages), ReceiveBatch(k) PROVE CloseInv'
  <2>1. messages # <<>>
    BY <1>3, EmptySeq
  <2> QED  BY <1>3, <2>1 DEF ReceiveBatch, CloseInv
<1>4. CASE FinishBatch \/ WriterStops
  BY <1>4 DEF FinishBatch, WriterStops, CloseInv
<1>5. CASE CloseDrained \/ CloseTimesOut \/ CloseJoins
  BY <1>5 DEF CloseDrained, CloseTimesOut, CloseJoins, Drained, CloseInv, queue
<1>6. ASSUME UNCHANGED <<queue, closer>> PROVE CloseInv'
  BY <1>6 DEF queue, CloseInv
<1>7. ASSUME NEW s \in Senders, Waits(s)
      PROVE  UNCHANGED <<queue, closer>>
  BY <1>7 DEF Waits, NextPart, AbandonParts, Refuse, RefuseFull, WaitForSpace
<1>8. ASSUME NEW s \in Senders, NEW kind \in Kinds[s], BeginSubmit(s, kind)
      PROVE  UNCHANGED <<queue, closer>>
  BY <1>8 DEF BeginSubmit
<1>9. ASSUME ReceiveWaits \/ ReceiveNothing \/ WriteSucceeds \/ WriteFails
      PROVE  UNCHANGED <<queue, closer>>
  BY <1>9 DEF ReceiveWaits, ReceiveNothing, WriteSucceeds, WriteFails
<1>10. ASSUME SocketFails \/ BeginFlush \/ FlushDrained \/ FlushTimesOut \/ EndFlush
       PROVE  UNCHANGED <<queue, closer>>
  BY <1>10 DEF SocketFails, BeginFlush, FlushDrained, FlushTimesOut, EndFlush
<1>11. ASSUME UNCHANGED vars PROVE UNCHANGED <<queue, closer>>
  BY <1>11 DEF vars
<1> QED  BY <1>1, <1>2, <1>3, <1>4, <1>5, <1>6, <1>7, <1>8, <1>9, <1>10, <1>11
         DEF Next, Submit, Waits, Writer, Closing

(* The log never gets shorter and an error is never forgotten, so what a   *)
(* waiting drain owes stays owed, and what a finished one saw stays true.  *)
LEMMA FlushStep ==
  ASSUME TypeOK, HeldInv, BatchInv, FlushInv, TypeOK', [Next]_vars
  PROVE  FlushInv'
<1>1. Len(wire') >= Len(wire) /\ Len(Log') >= Len(Log)
  <2>1. Log \in Seq(Message) /\ Len(Log) \in Nat
    BY LogLength, LenProperties
  <2>2. ASSUME NEW m \in Message, InputLog!Accept(m) PROVE Len(Log') = Len(Log) + 1
    BY <2>1, <2>2, AppendProperties DEF InputLog!Accept
  <2>3. ASSUME NEW m \in Message, InputLog!Supersede(m) PROVE Len(Log') = Len(Log)
    BY <2>1, <2>3 DEF InputLog!Supersede
  <2>4. ASSUME InputLog!Commit PROVE Len(Log') = Len(Log)
    BY <2>4 DEF InputLog!Commit
  <2> QED  BY <2>1, <2>2, <2>3, <2>4, LogStep
<1>2. Len(wire) \in Nat /\ Len(wire') \in Nat /\ Len(Log) \in Nat /\ Len(Log') \in Nat
      /\ owed \in Nat
  BY LenProperties, LogLength DEF TypeOK
<1>3. ASSUME UNCHANGED <<flush, owed>>, writerError => writerError' PROVE FlushInv'
  BY <1>1, <1>2, <1>3 DEF FlushInv
<1>4. CASE BeginFlush
  BY <1>4, <1>1, <1>2 DEF BeginFlush, FlushInv
<1>5. CASE FlushDrained
  <2>1. batch = <<>> \/ writerError
    BY <1>5 DEF FlushDrained, Drained, BatchInv
  <2>2. batch = <<>> => Len(Log) = Len(wire)
    BY <1>5, LogLength, EmptySeq DEF FlushDrained, Drained
  <2> QED  BY <1>5, <1>1, <1>2, <2>1, <2>2 DEF FlushDrained, FlushInv, queue, writing
<1>6. CASE FlushTimesOut
  BY <1>6 DEF FlushTimesOut, FlushInv
<1>7. CASE EndFlush
  BY <1>7, <1>1, <1>2 DEF EndFlush, FlushInv, writing
<1>8. ASSUME NEW s \in Senders, NEW kind \in Kinds[s], BeginSubmit(s, kind)
      PROVE  UNCHANGED <<flush, owed, writerError>>
  BY <1>8 DEF BeginSubmit, flushing, writing
<1>9. ASSUME NEW s \in Senders, Submit(s) PROVE UNCHANGED <<flush, owed, writerError>>
  BY <1>9 DEF Submit, NextPart, AbandonParts, Refuse, RefuseFull, Coalesce, Push, WaitForSpace, flushing, writing
<1>10. ASSUME Writer
       PROVE  UNCHANGED <<flush, owed>> /\ (writerError => writerError')
  BY <1>10 DEF Writer, ReceiveWaits, ReceiveNothing, ReceiveBatch, WriteSucceeds, WriteFails,
               FinishBatch, WriterStops, flushing
<1>11. ASSUME SocketFails \/ Close \/ Closing \/ UNCHANGED vars
       PROVE  UNCHANGED <<flush, owed, writerError>>
  BY <1>11 DEF SocketFails, Close, Closing, CloseDrained, CloseTimesOut, CloseJoins, vars,
               flushing, writing
<1> QED  BY <1>3, <1>4, <1>5, <1>6, <1>7, <1>8, <1>9, <1>10, <1>11 DEF Next

(* No step of the queue breaks the inductive invariant. *)
LEMMA StepIInv == IInv /\ [Next]_vars => IInv'
  BY TypeStep, BatchStep, CloseStep, FlushStep DEF IInv

(* So it holds in every state of every run of the input path. *)
LEMMA InvariantHolds == Spec => []IInv
  BY InitIInv, StepIInv, PTL DEF Spec

-----------------------------------------------------------------------------
(* Theorems *)

(* Every reachable state is well typed; in particular the queue never      *)
(* exceeds MAX_INPUT_QUEUE, however many threads submit at once.           *)
THEOREM TypeCorrect == Spec => []TypeOK
<1>1. IInv => TypeOK
  BY DEF IInv
<1> QED  BY <1>1, InvariantHolds, PTL

(* A flush or a shutdown that reports a drained queue tells the truth.     *)
THEOREM DrainIsTrue == Spec => []DrainTruth
<1>1. ASSUME IInv PROVE DrainTruth
  <2>1. flush = "ok" => owed <= Len(wire)
    BY <1>1 DEF IInv, FlushInv
  <2>2. ASSUME closer \in {"joining", "closed"}, ~writerError PROVE wire = Log
    <3>1. messages = <<>> /\ batch = <<>>
      BY <1>1, <2>2 DEF IInv, CloseInv, BatchInv
    <3>2. wire \in Seq(Message)
      BY <1>1 DEF IInv, TypeOK
    <3> QED  BY <3>1, <3>2, ConcatEmptySeq DEF Log
  <2> QED  BY <2>1, <2>2 DEF DrainTruth
<1> QED  BY <1>1, InvariantHolds, PTL

(* No step builds a record that is too large: the writer takes a batch     *)
(* that fits, and nobody touches it until it is written or lost.           *)
LEMMA RecordStep == RecordInv /\ [Next]_vars => RecordInv'
<1> SUFFICES ASSUME RecordInv, [Next]_vars PROVE RecordInv'
  OBVIOUS
<1>1. ASSUME NEW k \in 1 .. Len(messages), ReceiveBatch(k) PROVE RecordInv'
  BY <1>1 DEF ReceiveBatch, IsRecord, RecordInv
<1>2. CASE WriteFails
  BY <1>2 DEF WriteFails, RecordInv
<1>3. CASE WriteSucceeds \/ FinishBatch \/ WriterStops \/ ReceiveWaits \/ ReceiveNothing
  BY <1>3 DEF WriteSucceeds, FinishBatch, WriterStops, ReceiveWaits, ReceiveNothing, RecordInv
<1>4. CASE Close
  BY <1>4 DEF Close, RecordInv
<1>5. CASE SocketFails
  BY <1>5 DEF SocketFails, writing, RecordInv
<1>6. ASSUME NEW s \in Senders, Coalesce(s) \/ Push(s) PROVE RecordInv'
  BY <1>6 DEF Coalesce, Push, WakeWriter, RecordInv
<1>7. ASSUME UNCHANGED <<writing, socketUp>> PROVE RecordInv'
  BY <1>7 DEF writing, RecordInv
<1>8. ASSUME NEW s \in Senders, Waits(s) PROVE UNCHANGED <<writing, socketUp>>
  BY <1>8 DEF Waits, NextPart, AbandonParts, Refuse, RefuseFull, WaitForSpace
<1>9. ASSUME NEW s \in Senders, NEW kind \in Kinds[s], BeginSubmit(s, kind)
      PROVE  UNCHANGED <<writing, socketUp>>
  BY <1>9 DEF BeginSubmit
<1>10. ASSUME BeginFlush \/ FlushDrained \/ FlushTimesOut \/ EndFlush \/ Closing \/ UNCHANGED vars
       PROVE  UNCHANGED <<writing, socketUp>>
  BY <1>10 DEF BeginFlush, FlushDrained, FlushTimesOut, EndFlush, Closing, CloseDrained,
               CloseTimesOut, CloseJoins, vars
<1> QED  BY <1>1, <1>2, <1>3, <1>4, <1>5, <1>6, <1>7, <1>8, <1>9, <1>10
         DEF Next, Submit, Waits, Writer

(* Whatever is submitted, coalesced and batched, the writer fails only     *)
(* because the socket did.                                                 *)
THEOREM OnlyTheSocketFails == Spec => []OnlySocketErrors
<1>1. Init => RecordInv
  BY DEF Init, RecordInv
<1>2. RecordInv => OnlySocketErrors
  BY DEF RecordInv, OnlySocketErrors
<1> QED  BY <1>1, <1>2, RecordStep, PTL DEF Spec

(* The threads, the queue and its coalescing implement the input log.      *)
THEOREM QueueImplementsLog == Spec => ImplementsLog
<1>1. Init => InputLog!LogInit
  <2> SUFFICES ASSUME Init PROVE InputLog!LogInit
    OBVIOUS
  <2>1. Log = <<>> /\ Len(wire) = 0 /\ Len(batch) = 0
    <3>1. wire = <<>> /\ batch = <<>> /\ messages = <<>>
      BY DEF Init
    <3>2. <<>> \in Seq(Message)
      BY EmptySeq
    <3> QED  BY <3>1, <3>2, ConcatEmptySeq, EmptySeq DEF Log
  <2> QED  BY <2>1 DEF InputLog!LogInit
<1>2. IInv /\ [Next]_vars => [InputLog!LogNext]_InputLog!logVars
  <2> SUFFICES ASSUME IInv, [Next]_vars PROVE [InputLog!LogNext]_InputLog!logVars
    OBVIOUS
  <2>1. CASE \E m \in Message : InputLog!Accept(m) \/ InputLog!Supersede(m)
    <3>1. CASE Log' = Log
      BY <2>1, <3>1 DEF InputLog!Accept, InputLog!Supersede, InputLog!logVars
    <3>2. CASE Log' # Log
      BY <2>1, <3>2 DEF InputLog!LogNext, InputLog!Edit
    <3> QED  BY <3>1, <3>2
  <2>2. CASE InputLog!Commit
    BY <2>2 DEF InputLog!LogNext
  <2>3. CASE UNCHANGED <<Log, Len(wire) + Len(batch)>>
    BY <2>3 DEF InputLog!logVars
  <2> QED  BY <2>1, <2>2, <2>3, LogStep DEF IInv
<1> QED  BY <1>1, <1>2, InvariantHolds, PTL DEF Spec, ImplementsLog, InputLog!LogSpec
=============================================================================
