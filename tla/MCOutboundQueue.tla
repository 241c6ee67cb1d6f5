--------------------------- MODULE MCOutboundQueue ---------------------------
(* Small instances of OutboundQueue for TLC.  A queue of two entries, so   *)
(* that threads block on it, and records that hold two pointer messages    *)
(* but only one chunk.  In the first instance one thread sends clipboard   *)
(* text in two chunks, and positions through the call that never blocks;   *)
(* the other sends button states, which replace a position or wait for     *)
(* room.  In the second one thread sends clipboard text and the other one, *)
(* like the receiver thread, single control messages.                      *)
EXTENDS OutboundQueue

CONSTANTS dispatch, other

MCKinds ==
  [s \in Senders |->
     CASE s = dispatch -> {<<"reliable", 2, 2>>, <<"tryMotion", 1, 1>>}
       [] s = other    -> {<<"state", 1, 1>>}]

ClipboardKinds ==
  [s \in Senders |->
     CASE s = dispatch -> {<<"reliable", 2, 2>>}
       [] s = other    -> {<<"reliable", 1, 1>>}]
=============================================================================
