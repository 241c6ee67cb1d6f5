------------------------------ MODULE InputLog ------------------------------
(***************************************************************************)
(* What the client's input path promises the user, whatever threads, locks *)
(* and queues it is built from: the accepted input is one log.  Input goes *)
(* out in log order; what has been committed to the socket never changes;  *)
(* and the only entry that may ever be replaced is the newest one, while   *)
(* it is an uncommitted pointer position, by a newer pointer message.      *)
(***************************************************************************)
EXTENDS Integers, Sequences

CONSTANTS
  Message,      \* everything that can be submitted
  Motion,       \* those of them that are a pointer position only
  Pointer       \* those of them that carry a pointer position

VARIABLES
  log,          \* the accepted input, oldest first
  committed     \* how many of its entries have left for the socket

logVars == <<log, committed>>

LogInit == log = <<>> /\ committed = 0

(* One more message is accepted. *)
Accept(m) ==
  /\ log' = Append(log, m)
  /\ UNCHANGED committed

(* A pointer message takes the place of a position nobody has sent yet. *)
Supersede(m) ==
  /\ committed < Len(log)
  /\ log[Len(log)] \in Motion
  /\ m \in Pointer
  /\ log' = [log EXCEPT ![Len(log)] = m]
  /\ UNCHANGED committed

(* The next entries, however many, are handed to the socket together. *)
Commit ==
  /\ committed' \in (committed + 1) .. Len(log)
  /\ UNCHANGED log

Edit ==
  /\ log' # log
  /\ \E m \in Message : Accept(m) \/ Supersede(m)

LogNext == Edit \/ Commit

LogSpec == LogInit /\ [][LogNext]_logVars
=============================================================================
