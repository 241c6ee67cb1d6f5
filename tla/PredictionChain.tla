--------------------------- MODULE PredictionChain ---------------------------
(***************************************************************************)
(* What a decoder may be given, whatever was lost, delayed or reordered on *)
(* the way: whole pictures, each of which only depends on what the decoder *)
(* has just decoded.  So every picture handed on is a key picture, or the  *)
(* one right after the picture handed on before it; and none comes after a *)
(* later one.                                                              *)
(***************************************************************************)
EXTENDS Integers, Sequences

CONSTANTS
  Picture,      \* the pictures that were sent: a sequence of their contents
  Keys          \* the numbers of those that depend on no other

VARIABLE shown  \* the contents handed to the decoder, in order

Follows(p) ==
  /\ shown # <<>>
  /\ p > 1
  /\ shown[Len(shown)] = Picture[p - 1]

IsLater(p) ==
  shown # <<>> => \E q \in 1 .. p - 1 : shown[Len(shown)] = Picture[q]

Show(p) ==
  /\ p \in Keys \/ Follows(p)
  /\ IsLater(p)
  /\ shown' = Append(shown, Picture[p])

ChainInit == shown = <<>>
ChainNext == \E p \in DOMAIN Picture : Show(p)
ChainSpec == ChainInit /\ [][ChainNext]_shown
=============================================================================
