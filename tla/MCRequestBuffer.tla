--------------------------- MODULE MCRequestBuffer ---------------------------
(* Small instances of RequestBuffer for TLC.                               *)
EXTENDS RequestBuffer

\* A request without a body, one with, one of several buffers' length and
\* one that exceeds the limit of 16.
Mixed == {[h |-> 2, b |-> 0], [h |-> 2, b |-> 3], [h |-> 5, b |-> 8],
          [h |-> 6, b |-> 11]}
=============================================================================
