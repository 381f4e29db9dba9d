--------------------------- MODULE MCClientStream ---------------------------
(* A small instance of ClientStream for TLC.                               *)
EXTENDS ClientStream

\* Two request objects: of three parts with one empty, and of one part.
TwoObjects == <<<<2, 0, 1>>, <<1>>>>

\* Against header buffers of 3 bytes and bodies up to 3: a head alone, a body
\* that stays with the head, one that moves, an answer without keep-alive, an
\* answer to HEAD, a body without a length, a body and a head beyond the limits.
Several == {[h |-> 1, a |-> 0, b |-> 0, keep |-> TRUE],
            [h |-> 1, a |-> 2, b |-> 2, keep |-> TRUE],
            [h |-> 1, a |-> 3, b |-> 3, keep |-> TRUE],
            [h |-> 1, a |-> 1, b |-> 1, keep |-> FALSE],
            [h |-> 1, a |-> 2, b |-> 0, keep |-> TRUE],
            [h |-> 1, a |-> 0, b |-> 1, keep |-> TRUE],
            [h |-> 1, a |-> 4, b |-> 4, keep |-> TRUE],
            [h |-> 5, a |-> 0, b |-> 0, keep |-> TRUE]}
=============================================================================
