---------------------------- MODULE OutboundQueue ----------------------------
(***************************************************************************)
(* The outbound half of a client session (crates/ard-core/src/client.rs):  *)
(* any number of threads submit input through clones of ArdClientInput,    *)
(* one writer thread encrypts batches of it onto the session socket, a     *)
(* caller may wait for the queue to drain (flush_input), and dropping the  *)
(* client stops and drains the queue (InputWriter::shutdown).              *)
(*                                                                         *)
(* An action is one critical section of the queue's mutex, or one step     *)
(* between two of them.  A payload is abstracted to its mode, its size in  *)
(* units of a record and an identity.  The count of live producers is left *)
(* out: it can only reach zero after ArdClient has dropped its own handle, *)
(* and ArdClient drops its InputWriter, which stops the queue, first.      *)
(***************************************************************************)
EXTENDS Integers, Sequences, SequencesExt

CONSTANTS
  Senders,          \* threads that hold an ArdClientInput
  MaxInputQueue,    \* MAX_INPUT_QUEUE
  MaxPayload,       \* MAX_OUTBOUND_PAYLOAD_BYTES, in size units
  MaxParts,         \* bound: payloads a clipboard message is split into
  Kinds,            \* the <<mode, size, parts>> triples each sender submits
  MaxSubmissions    \* bound: messages submitted over the whole behaviour

(* OutboundMode: Control and Reliable are queued alike; tryMotion is the   *)
(* position sent through try_submit, which never blocks.                   *)
Modes == {"reliable", "state", "motion", "tryMotion"}

ASSUME QueueAssumption ==
  /\ MaxInputQueue \in Nat \ {0}
  /\ MaxPayload \in Nat \ {0}
  /\ MaxParts \in Nat \ {0}
  /\ MaxSubmissions \in Nat
  /\ Kinds \in [Senders -> SUBSET (Modes \X (1 .. MaxPayload) \X (1 .. MaxParts))]

(* One queued payload: the part-th of the `of` parts of a submitted message. *)
Message == [id : 1 .. MaxSubmissions, mode : Modes, size : 1 .. MaxPayload,
            part : 1 .. MaxParts, of : 1 .. MaxParts]
Motion  == {m \in Message : m.mode \in {"motion", "tryMotion"}}
Pointer == {m \in Message : m.mode # "reliable"}
NoMessage == [id |-> 0, mode |-> "none", size |-> 0, part |-> 0, of |-> 0]

VARIABLES
  messages,     \* OutboundQueueState.messages
  stopped,      \* OutboundQueueState.stopped
  inFlight,     \* OutboundQueueState.in_flight
  writer,       \* where the writer thread is
  batch,        \* the messages receive_batch returned; kept when they are lost
  writerError,  \* the writer_error cell is set
  socketUp,     \* the peer still reads: a write to the socket succeeds
  wire,         \* the messages written to the socket, in order
  sender,       \* where each submitting thread is
  held,         \* the message each of them is submitting
  issued,       \* number of messages submitted so far
  flush,        \* the thread inside flush_input, and what it returned
  owed,         \* length of the log when that call began
  closer        \* where InputWriter::shutdown is

queue  == <<messages, stopped, inFlight>>
writing == <<writer, batch, writerError, wire>>
sending == <<sender, held, issued>>
flushing == <<flush, owed>>
vars == <<queue, writing, socketUp, sending, flushing, closer>>

(* Everything accepted so far, superseded positions aside, oldest first. *)
Log == wire \o batch \o messages

TypeOK ==
  /\ messages \in Seq(Message)
  /\ Len(messages) <= MaxInputQueue
  /\ stopped \in BOOLEAN /\ inFlight \in BOOLEAN
  /\ writer \in {"receive", "wait", "write", "written", "failed", "stop", "exit"}
  /\ batch \in Seq(Message)
  /\ writerError \in BOOLEAN /\ socketUp \in BOOLEAN
  /\ wire \in Seq(Message)
  /\ sender \in [Senders -> {"idle", "again", "submit", "wait", "woken"}]
  /\ held \in [Senders -> Message \cup {NoMessage}]
  /\ issued \in 0 .. MaxSubmissions
  /\ flush \in {"none", "waiting", "drained", "ok", "late"}
  /\ owed \in Nat
  /\ closer \in {"open", "draining", "joining", "closed", "detached"}

Init ==
  /\ messages = <<>> /\ stopped = FALSE /\ inFlight = FALSE
  /\ writer = "receive" /\ batch = <<>> /\ writerError = FALSE
  /\ socketUp = TRUE /\ wire = <<>>
  /\ sender = [s \in Senders |-> "idle"]
  /\ held = [s \in Senders |-> NoMessage]
  /\ issued = 0
  /\ flush = "none" /\ owed = 0
  /\ closer = "open"

-----------------------------------------------------------------------------
(* Submitting *)

(* The position at the back of the queue that m may take the place of. *)
SupersedesAnything(ms, m) == ms # <<>> /\ m.mode # "reliable"
Supersedes(ms, m) ==
  /\ ms # <<>>
  /\ m.mode # "reliable"
  /\ Last(ms).mode \in {"motion", "tryMotion"}

FullPastCapacity(ms) == Len(ms) > MaxInputQueue
Full(ms) == Len(ms) >= MaxInputQueue

(* notify_one and notify_all on the condition variable for space. *)
WakeOneWaiter(from) ==
  IF \E s \in Senders : from[s] = "wait"
  THEN {[from EXCEPT ![s] = "woken"] : s \in {t \in Senders : from[t] = "wait"}}
  ELSE {from}
WakeNoWaiter(from) == from
WakeEveryWaiter(from) ==
  [s \in Senders |-> IF from[s] = "wait" THEN "woken" ELSE from[s]]

(* The send_* call: check_writer_error, then on to the queue's lock. *)
BeginSubmit(s, kind) ==
  /\ sender[s] = "idle"
  /\ ~writerError
  /\ issued < MaxSubmissions
  /\ issued' = issued + 1
  /\ held' = [held EXCEPT ![s] = [id |-> issued + 1, mode |-> kind[1], size |-> kind[2],
                                  part |-> 1, of |-> kind[3]]]
  /\ sender' = [sender EXCEPT ![s] = "submit"]
  /\ UNCHANGED <<queue, writing, socketUp, flushing, closer>>

Return(s) == held' = [held EXCEPT ![s] = NoMessage]

(* A payload is in the queue: the call returns, or send_clipboard_text goes *)
(* on to its next chunk, which is a submission of its own.                  *)
More(s) == held[s].part < held[s].of
AcceptedSender(s) == [sender EXCEPT ![s] = IF More(s) THEN "again" ELSE "idle"]
Accepted(s) ==
  held' = [held EXCEPT ![s] = IF More(s) THEN [held[s] EXCEPT !.part = @ + 1] ELSE NoMessage]

(* check_writer_error before the next chunk. *)
NextPart(s) ==
  /\ sender[s] = "again"
  /\ ~writerError
  /\ sender' = [sender EXCEPT ![s] = "submit"]
  /\ UNCHANGED <<queue, writing, socketUp, held, issued, flushing, closer>>

AbandonParts(s) ==
  /\ sender[s] = "again"
  /\ writerError
  /\ sender' = [sender EXCEPT ![s] = "idle"]
  /\ Return(s)
  /\ UNCHANGED <<queue, writing, socketUp, issued, flushing, closer>>

(* The writer is woken by notify_one after a push. *)
WakeWriterNever == UNCHANGED writer
WakeWriter == writer' = IF writer = "wait" THEN "receive" ELSE writer

(* A stopped queue, or a full one that must not block, refuses loudly. *)
Refuse(s) ==
  /\ sender[s] \in {"submit", "woken"}
  /\ stopped
  /\ sender' = [sender EXCEPT ![s] = "idle"]
  /\ Return(s)
  /\ UNCHANGED <<queue, writing, socketUp, issued, flushing, closer>>

RefuseFull(s) ==
  /\ sender[s] = "submit"
  /\ ~stopped
  /\ held[s].mode = "tryMotion"
  /\ ~Supersedes(messages, held[s])
  /\ Full(messages)
  /\ sender' = [sender EXCEPT ![s] = "idle"]
  /\ Return(s)
  /\ UNCHANGED <<queue, writing, socketUp, issued, flushing, closer>>

(* A motion overwrites the queued one in place; a pointer state pops it    *)
(* and is pushed in the room that leaves, after waking one waiter for it.  *)
Coalesce(s) ==
  /\ sender[s] = "submit"
  /\ ~stopped
  /\ Supersedes(messages, held[s])
  /\ messages' = Append(Front(messages), held[s])
  /\ IF held[s].mode = "state"
     THEN /\ sender' \in WakeOneWaiter(AcceptedSender(s))
          /\ WakeWriter
     ELSE /\ sender' = AcceptedSender(s)
          /\ UNCHANGED writer
  /\ Accepted(s)
  /\ UNCHANGED <<stopped, inFlight, batch, writerError, wire, socketUp, issued,
                 flushing, closer>>

Push(s) ==
  /\ \/ sender[s] = "submit" /\ ~Supersedes(messages, held[s])
     \/ sender[s] = "woken"
  /\ ~stopped
  /\ ~Full(messages)
  /\ messages' = Append(messages, held[s])
  /\ sender' = AcceptedSender(s)
  /\ WakeWriter
  /\ Accepted(s)
  /\ UNCHANGED <<stopped, inFlight, batch, writerError, wire, socketUp, issued,
                 flushing, closer>>

WaitForSpace(s) ==
  /\ \/ /\ sender[s] = "submit"
        /\ held[s].mode # "tryMotion"
        /\ ~Supersedes(messages, held[s])
     \/ sender[s] = "woken"
  /\ ~stopped
  /\ Full(messages)
  /\ sender' = [sender EXCEPT ![s] = "wait"]
  /\ UNCHANGED <<queue, writing, socketUp, held, issued, flushing, closer>>

Submit(s) ==
  \/ NextPart(s) \/ AbandonParts(s)
  \/ Refuse(s) \/ RefuseFull(s) \/ Coalesce(s) \/ Push(s) \/ WaitForSpace(s)

-----------------------------------------------------------------------------
(* The writer thread *)

Bytes(ms) == FoldSeq(LAMBDA m, total : m.size + total, 0, ms)
FitsRecord(ms) == Bytes(ms) <= MaxPayload

(* The longest prefix of the queue that fits in one encrypted record. *)
IsRecordUncapped(ms, k) == k = Len(ms)
IsRecord(ms, k) ==
  /\ FitsRecord(SubSeq(ms, 1, k))
  /\ k < Len(ms) => ~FitsRecord(SubSeq(ms, 1, k + 1))

(* receive_batch. *)
ReceiveWaits ==
  /\ writer = "receive"
  /\ messages = <<>> /\ ~stopped
  /\ writer' = "wait"
  /\ UNCHANGED <<queue, batch, writerError, wire, socketUp, sending, flushing, closer>>

ReceiveNothing ==
  /\ writer = "receive"
  /\ messages = <<>> /\ stopped
  /\ writer' = "stop"
  /\ UNCHANGED <<queue, batch, writerError, wire, socketUp, sending, flushing, closer>>

ReceiveBatch(k) ==
  /\ writer = "receive"
  /\ IsRecord(messages, k)
  /\ batch' = SubSeq(messages, 1, k)
  /\ messages' = SubSeq(messages, k + 1, Len(messages))
  /\ inFlight' = TRUE
  /\ writer' = "write"
  /\ sender' = WakeEveryWaiter(sender)
  /\ UNCHANGED <<stopped, writerError, wire, socketUp, held, issued, flushing, closer>>

(* encode_wire, write_all and flush succeed. *)
WriteSucceeds ==
  /\ writer = "write"
  /\ socketUp /\ FitsRecord(batch)
  /\ wire' = wire \o batch
  /\ batch' = <<>>
  /\ writer' = "written"
  /\ UNCHANGED <<queue, writerError, socketUp, sending, flushing, closer>>

(* encode_wire refuses the record or the socket fails: the error is left   *)
(* where the next send_* finds it, before the batch is finished.           *)
WriteFailsLate ==
  /\ writer = "write"
  /\ ~socketUp \/ ~FitsRecord(batch)
  /\ inFlight' = FALSE
  /\ writer' = "failed"
  /\ UNCHANGED <<messages, stopped, batch, writerError, wire, socketUp, sending,
                 flushing, closer>>
WriteFails ==
  /\ writer = "write"
  /\ ~socketUp \/ ~FitsRecord(batch)
  /\ writerError' = TRUE
  /\ writer' = "failed"
  /\ UNCHANGED <<queue, batch, wire, socketUp, sending, flushing, closer>>

FinishBatch ==
  /\ writer \in {"written", "failed"}
  /\ inFlight' = FALSE
  /\ writer' = IF writer = "written" THEN "receive" ELSE "stop"
  /\ UNCHANGED <<messages, stopped, batch, writerError, wire, socketUp, sending,
                 flushing, closer>>

(* The thread stops the queue on its way out, whatever ended its loop. *)
WriterStopsSilently ==
  /\ writer = "stop"
  /\ writer' = "exit"
  /\ UNCHANGED <<queue, batch, writerError, wire, socketUp, sending, flushing, closer>>
WriterStops ==
  /\ writer = "stop"
  /\ stopped' = TRUE
  /\ writer' = "exit"
  /\ sender' = WakeEveryWaiter(sender)
  /\ UNCHANGED <<messages, inFlight, batch, writerError, wire, socketUp, held, issued,
                 flushing, closer>>

Writer ==
  \/ ReceiveWaits \/ ReceiveNothing
  \/ \E k \in 1 .. Len(messages) : ReceiveBatch(k)
  \/ WriteSucceeds \/ WriteFails
  \/ FinishBatch \/ WriterStops

(* The peer goes away, or stops reading until the write times out. *)
SocketFails ==
  /\ socketUp
  /\ socketUp' = FALSE
  /\ UNCHANGED <<queue, writing, sending, flushing, closer>>

-----------------------------------------------------------------------------
(* Waiting for the queue to drain *)

DrainedIgnoringFlight(ms, flying) == ms = <<>>
Drained(ms, flying) == ms = <<>> /\ ~flying

(* flush_input: wait_until_drained, then the writer's error. *)
BeginFlush ==
  /\ flush = "none"
  /\ closer = "open"
  /\ flush' = "waiting"
  /\ owed' = Len(Log)
  /\ UNCHANGED <<queue, writing, socketUp, sending, closer>>

FlushDrained ==
  /\ flush = "waiting"
  /\ Drained(messages, inFlight)
  /\ flush' = "drained"
  /\ UNCHANGED <<queue, writing, socketUp, sending, owed, closer>>

FlushTimesOut ==
  /\ flush = "waiting"
  /\ ~Drained(messages, inFlight)
  /\ flush' = "late" /\ owed' = 0
  /\ UNCHANGED <<queue, writing, socketUp, sending, closer>>

EndFlush ==
  /\ flush = "drained"
  /\ IF writerError THEN flush' = "late" /\ owed' = 0
                    ELSE flush' = "ok" /\ UNCHANGED owed
  /\ UNCHANGED <<queue, writing, socketUp, sending, closer>>

(* InputWriter::shutdown: stop, drain for a bounded time, join the writer. *)
Close ==
  /\ closer = "open"
  /\ flush \in {"none", "ok", "late"}
  /\ stopped' = TRUE
  /\ closer' = "draining"
  /\ sender' = WakeEveryWaiter(sender)
  /\ writer' = IF writer = "wait" THEN "receive" ELSE writer
  /\ UNCHANGED <<messages, inFlight, batch, writerError, wire, socketUp, held, issued,
                 flushing>>

CloseDrained ==
  /\ closer = "draining"
  /\ Drained(messages, inFlight)
  /\ closer' = "joining"
  /\ UNCHANGED <<queue, writing, socketUp, sending, flushing>>

CloseTimesOut ==
  /\ closer = "draining"
  /\ ~Drained(messages, inFlight)
  /\ closer' = "detached"
  /\ UNCHANGED <<queue, writing, socketUp, sending, flushing>>

CloseJoins ==
  /\ closer = "joining"
  /\ writer = "exit"
  /\ closer' = "closed"
  /\ UNCHANGED <<queue, writing, socketUp, sending, flushing>>

Closing == CloseDrained \/ CloseTimesOut \/ CloseJoins

-----------------------------------------------------------------------------
Next ==
  \/ \E s \in Senders : \E kind \in Kinds[s] : BeginSubmit(s, kind)
  \/ \E s \in Senders : Submit(s)
  \/ Writer
  \/ SocketFails
  \/ BeginFlush \/ FlushDrained \/ FlushTimesOut \/ EndFlush
  \/ Close \/ Closing

(* The threads run: each gets the lock in the end, a write to the socket   *)
(* returns (it has a timeout), and a bounded wait ends.  Nothing makes a   *)
(* user submit, flush or close, or the peer fail.                          *)
Fairness ==
  /\ \A s \in Senders : WF_vars(Submit(s))
  /\ WF_vars(Writer)
  /\ WF_vars(Closing)

Spec == Init /\ [][Next]_vars
FairSpec == Spec /\ Fairness

-----------------------------------------------------------------------------
(* Properties *)

(* The queue, with its coalescing, batching and locks, is one log: input   *)
(* reaches the wire in the order it was accepted, nothing accepted is      *)
(* dropped or altered, and coalescing replaces only the newest position    *)
(* not yet taken by the writer, never across a key or a button.            *)
InputLog == INSTANCE InputLog WITH log <- Log, committed <- Len(wire) + Len(batch)
ImplementsLog == InputLog!LogSpec

(* flush_input that answers true, and a shutdown that drained without a    *)
(* write error, never lie: everything accepted before the call (for        *)
(* shutdown: everything ever accepted) is on the wire, even though the     *)
(* last batch leaves the queue before it is written and the error of a     *)
(* failed batch is set in another critical section.                        *)
DrainTruth ==
  /\ flush = "ok" => owed <= Len(wire)
  /\ closer \in {"joining", "closed"} /\ ~writerError => wire = Log

(* Batching never builds a record the encoder refuses: the writer fails    *)
(* only because the socket did.                                            *)
OnlySocketErrors == writerError => ~socketUp

(* The payloads of one clipboard message stay together: the peer reads the *)
(* wire as one byte stream, so anything between two chunks of a message    *)
(* would be read as the message's own text.                                *)
MessagesStayWhole ==
  \A i \in 1 .. Len(Log) - 1 :
    Log[i].part < Log[i].of =>
      Log[i + 1].id = Log[i].id /\ Log[i + 1].part = Log[i].part + 1

(* Nobody waits for ever.  Once the client is being dropped, every thread  *)
(* blocked on a full queue returns and the writer thread ends, so teardown *)
(* joins it or gives up; after the writer dies by itself, a thread blocked *)
(* on the queue it left behind is told so, although nobody closes.         *)
NobodyWaitsForEver ==
  /\ closer # "open" ~> /\ \A s \in Senders : sender[s] = "idle"
                        /\ writer = "exit"
                        /\ closer \in {"closed", "detached"}
  /\ writerError ~> \A s \in Senders : sender[s] = "idle"

(* No wake-up is lost: while the writer works, what was accepted leaves.   *)
AcceptedInputLeaves == messages # <<>> ~> (messages = <<>> \/ writerError)
=============================================================================
