----------------------------- MODULE MCRtpStream -----------------------------
(* A small instance of SecureStream: a frame of two whole units, one  *)
(* of a fragmented unit, one of a whole and a fragmented unit, and one     *)
(* packet; the sequence numbers wrap around inside the third, and the first SRTP    *)
(* cycle ends there.                                                      *)
EXTENDS SecureStream

LOCAL P(ts, piece, marker) == [timestamp |-> ts, piece |-> piece, marker |-> marker]

FourFrames ==
  << P(1, "whole", FALSE), P(1, "whole", TRUE),
     P(2, "start", FALSE), P(2, "middle", FALSE), P(2, "middle", FALSE), P(2, "end", TRUE),
     P(3, "whole", FALSE), P(3, "start", FALSE), P(3, "end", TRUE), P(4, "whole", TRUE) >>

MCIndices == {IndexOf(i) : i \in Positions}
=============================================================================
