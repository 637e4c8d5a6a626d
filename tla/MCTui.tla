-------------------------------- MODULE MCTui --------------------------------
(* An instance of Tui for TLC. *)
EXTENDS Tui

\* Enough in the first turn to cut a character off the buffer while a byte of the
\* answer is on display; the second turn meets what the first one left.
MCMaxBytes == <<5, 2>>
=============================================================================
