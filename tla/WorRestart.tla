---------------------------- MODULE WorRestart ----------------------------
(***************************************************************************)
(* A client program that ends, or crashes, and is started again with the   *)
(* same identifier.  All of its state is in memory (space.c, paxos_view.c, *)
(* wor_quorums.c), so the new process counts its proposals from the start, *)
(* while datagrams of the old one may still be in transit.                 *)
(***************************************************************************)
EXTENDS Wor

CONSTANT MaxRestarts    \* bound on the restarts of all clients together

VARIABLE restarts

restartVars == <<vars, restarts>>

\* The static variables of the program are zero again.
ClientRestart(c) ==
    /\ restarts < MaxRestarts
    /\ restarts' = restarts + 1
    /\ cspace' = [cspace EXCEPT ![c] = [x \in Addr |-> EmptyEntry]]
    /\ written' = [written EXCEPT ![c] = [x \in Addr |-> FALSE]]
    /\ captureRow' = [captureRow EXCEPT ![c] = [x \in Addr |-> {}]]
    /\ writeRow' = [writeRow EXCEPT ![c] = [x \in Addr |-> {}]]
    /\ Idle(c)
    /\ call' = [call EXCEPT ![c] = NoCall]
    /\ status' = [status EXCEPT ![c] = "none"]
    /\ readCmd' = [readCmd EXCEPT ![c] = UndefCmd]
    /\ UNCHANGED <<netVars, acceptorVars, inputVars>>

RestartInit == Init /\ restarts = 0

RestartNext ==
    \/ Next /\ UNCHANGED restarts
    \/ \E c \in Clients : ClientRestart(c)

RestartSpec == RestartInit /\ [][RestartNext]_restartVars

(***************************************************************************)
(* "All future reads will return the value written to it" (wor_steps.h):   *)
(* once a command is chosen at an address, no other one is.  A client      *)
(* program run twice under one identifier breaks it.                       *)
(***************************************************************************)
StaysWritten ==
    \A x \in Addr : \A v, w \in Cmd : Chosen(x, v) /\ Chosen(x, w) => v = w
=============================================================================
