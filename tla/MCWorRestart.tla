--------------------------- MODULE MCWorRestart ---------------------------
(***************************************************************************)
(* One client program, run twice, each time to write its own command.      *)
(***************************************************************************)
EXTENDS WorRestart

CONSTANTS v1, v2

Write(x, v) == [op |-> "write", addr |-> x, cmd |-> v]

OneWriter == {<<1, Write(0, v1)>>, <<1, Write(0, v2)>>}
=============================================================================
