----------------------------- MODULE WriteOnce -----------------------------
(***************************************************************************)
(* What the write-once registers promise (wor.h, wor_steps.h): a register  *)
(* takes one of the commands some client tried to write there, at most     *)
(* once, and never changes afterwards.                                     *)
(***************************************************************************)
CONSTANTS Addr, Cmd

VARIABLES
    proposed,   \* proposed[x]: the commands clients tried to write at x
    register    \* register[x]: the commands written at x, none or one

vars == <<proposed, register>>

Init ==
    /\ proposed = [x \in Addr |-> {}]
    /\ register = [x \in Addr |-> {}]

Propose(x, v) ==
    /\ proposed' = [proposed EXCEPT ![x] = @ \cup {v}]
    /\ UNCHANGED register

Decide(x, v) ==
    /\ v \in proposed[x]
    /\ register[x] = {}
    /\ register' = [register EXCEPT ![x] = {v}]
    /\ UNCHANGED proposed

Next ==
    \E x \in Addr, v \in Cmd : Propose(x, v) \/ Decide(x, v)

Spec == Init /\ [][Next]_vars
=============================================================================
