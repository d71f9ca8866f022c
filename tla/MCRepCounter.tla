---------------------------- MODULE MCRepCounter ----------------------------
(***************************************************************************)
(* A small instance of RepCounter for TLC: two counters, incremented and   *)
(* read over a log of three addresses.                                     *)
(***************************************************************************)
EXTENDS RepCounter

CONSTANT MaxLate    \* bound on late

VARIABLE late       \* the write rounds that ended without an answer

\* The first client increments its counter and reads it, the other increments.
MixedCalls == [c \in Clients |-> IF c = 1 THEN <<INC(1), READ>> ELSE <<INC(2)>>]

\* The first client increments its counter twice, the other reads.
IncsThenRead == [c \in Clients |-> IF c = 1 THEN <<INC(1), INC(1)>> ELSE <<READ>>]

CounterCmd == {INC(c) : c \in Clients} \cup {READ}

LogAddr == 0 .. LogSize - 1

MCCounterInit == CounterInit /\ late = 0

CountLate ==
    late' = IF \E c \in Clients : AcknowledgedLate(c) \/ RunsOut(c)
            THEN late + 1 ELSE late

\* CounterSpec, with its late rounds counted.
MCCounterSpec ==
    /\ MCCounterInit
    /\ [][CounterNext /\ CountLate]_<<vars, late>>
    /\ \A c \in Clients : WF_vars(Runs(c))

\* Behaviours with more late rounds are not explored.
FewLate == late <= MaxLate
=============================================================================
