---------------------------- MODULE MCResponseWrite ----------------------------
(* Small instances of ResponseWrite for TLC.                               *)
EXTENDS ResponseWrite

\* Two of the first three can fill the array of three; the last never fits.
Answers == {<<2>>, <<1, 2>>, <<1, 1, 2>>, <<1, 1, 1, 1>>}
=============================================================================
