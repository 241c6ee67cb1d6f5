-------------------------- MODULE MCVideoAssembler --------------------------
(***************************************************************************)
(* An instance of VideoAssembler for TLC: three bands; a band's unit from  *)
(* before the receiver joined; a key picture whose decode order numbers    *)
(* wrap; pictures in which only one or two bands changed, one of them with *)
(* the bands in another order; a second key picture; two sparse ones after *)
(* it.  Two batches may be pending, so that any picture can overflow them. *)
(***************************************************************************)
EXTENDS VideoAssembler

LOCAL U(p, s, key) == [picture |-> p, slot |-> s, sync |-> key]
MCUnits ==
  << U(1, 2, FALSE),
     U(2, 1, TRUE), U(2, 2, FALSE), U(2, 3, FALSE),
     U(3, 3, FALSE),
     U(4, 2, FALSE), U(4, 1, FALSE),
     U(5, 1, TRUE), U(5, 2, FALSE), U(5, 3, FALSE),
     U(6, 2, FALSE), U(7, 1, FALSE) >>
=============================================================================
