------------------------------- MODULE MCWor -------------------------------
(***************************************************************************)
(* Small instances of Wor for TLC: the operations the clients run.         *)
(***************************************************************************)
EXTENDS WorCallInvariant

CONSTANTS v1, v2

Write(x, v) == [op |-> "write", addr |-> x, cmd |-> v]
Read(x) == [op |-> "read", addr |-> x, cmd |-> UndefCmd]

\* One client writes at an address where another one writes or reads.
Contention == {<<1, Write(0, v1)>>, <<2, Write(0, v2)>>, <<2, Read(0)>>}

\* One client writes and reads the same address, again and again.
OneAddress == {<<1, Write(0, v1)>>, <<1, Write(0, v2)>>, <<1, Read(0)>>}

\* One client uses two addresses in turn.
TwoAddresses == {<<1, Write(0, v1)>>, <<1, Write(1, v2)>>}
=============================================================================
