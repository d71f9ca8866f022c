-------------------------- MODULE MCWormSharedLog --------------------------
(***************************************************************************)
(* A small instance of WormSharedLog for TLC.                              *)
(***************************************************************************)
EXTENDS WormSharedLog

CONSTANTS
    own1, own2, app,
    MaxLate     \* bound on late

VARIABLE late   \* the write rounds that ended without an answer

SmallAddr == 0 .. NumSegments * WosSize - 1

SmallOwnerCmd == <<own1, own2>>

\* The first client fills a segment, the second one appends once.
SmallAppends == <<2, 1>>

SmallCmd == {own1, own2, app, JUNK}

MCWormInit == WormInit /\ late = 0

CountLate ==
    late' = IF \E c \in Clients : AcknowledgedLate(c) \/ RunsOut(c)
            THEN late + 1 ELSE late

\* WormSpec, with its late rounds counted.
MCWormSpec ==
    /\ MCWormInit
    /\ [][WormNext /\ CountLate]_<<vars, late>>
    /\ \A c \in Clients : WF_vars(Runs(c))

\* Behaviours with more late rounds are not explored.
FewLate == late <= MaxLate
=============================================================================
