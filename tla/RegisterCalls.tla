--------------------------- MODULE RegisterCalls ---------------------------
(***************************************************************************)
(* What the callers of wor_capture_and_write and wor_read (wor.h) can rely *)
(* on: write-once registers, and what each client's calls may answer and   *)
(* may leave behind in the client's own paxos_space.  The detailed rounds  *)
(* of Wor implement it; the shared logs are built on it.                   *)
(***************************************************************************)
CONSTANTS
    Clients,    \* the client processes
    Addr,       \* log addresses
    Cmd,        \* commands with cmd0 # CMD_UNDEF
    UndefCmd    \* the pair <<CMD_UNDEF, 0>>

VARIABLES
    proposed,   \* proposed[x]: the commands clients asked acceptors to take
    register,   \* register[x]: the commands written at x, none or one
    doing,      \* doing[c]: the call client c is in, or NoCall
    asking,     \* asking[c]: it is in a write round
    held,       \* held[c][x]: what c's paxos_space says is written at x, and
                \* whether a quorum acknowledged it; empty: not is_written
    before,     \* history: what was written at the address when c called
    answer,     \* answer[c]: the status of c's last call, "none" in a call
    readCmd     \* wor_read_cmd0, wor_read_cmd1

registerVars == <<proposed, register>>
callVars == <<doing, asking, held, before, answer, readCmd>>
registerCallVars == <<registerVars, callVars>>

Registers == INSTANCE WriteOnce WITH proposed <- proposed,
                                     register <- register
-----------------------------------------------------------------------------
NoCall == [op |-> "none", addr |-> 0, cmd |-> UndefCmd]

Busy(c) == doing[c].op # "none"

Written(c, x) == held[c][x] # {}

\* The command c's paxos_space holds at an address it knows to be written.
HeldCmd(c, x) == (CHOOSE e \in held[c][x] : TRUE).cmd

RegistersInit ==
    /\ Registers!Init
    /\ doing = [c \in Clients |-> NoCall]
    /\ asking = [c \in Clients |-> FALSE]
    /\ held = [c \in Clients |-> [x \in Addr |-> {}]]
    /\ before = [c \in Clients |-> {}]
    /\ answer = [c \in Clients |-> "none"]
    /\ readCmd = [c \in Clients |-> UndefCmd]
-----------------------------------------------------------------------------
Begin(c, call) ==
    /\ doing' = [doing EXCEPT ![c] = call]
    /\ answer' = [answer EXCEPT ![c] = "none"]
    /\ UNCHANGED readCmd

\* wor_read finds is_written set and asks nobody.
ReadHeld(c, x) ==
    /\ Written(c, x)
    /\ answer' = [answer EXCEPT ![c] = "ALREADYWRITTEN"]
    /\ readCmd' = [readCmd EXCEPT ![c] = HeldCmd(c, x)]
    /\ UNCHANGED doing

Called(c, x) ==
    /\ before' = [before EXCEPT ![c] = register[x]]
    /\ UNCHANGED <<registerVars, asking, held>>

wor_capture_and_write(c, x, cmd) ==
    /\ ~Busy(c)
    /\ Begin(c, [op |-> "write", addr |-> x, cmd |-> cmd])
    /\ Called(c, x)

wor_read(c, x) ==
    /\ ~Busy(c)
    /\ \/ ReadHeld(c, x)
       \/ /\ ~Written(c, x)
          /\ Begin(c, [op |-> "read", addr |-> x, cmd |-> UndefCmd])
    /\ Called(c, x)
-----------------------------------------------------------------------------
\* Enough acceptors took v, asked by any client in any of its rounds.
Decide(x, v) ==
    /\ Registers!Decide(x, v)
    /\ UNCHANGED callVars

\* The register is captured: a command the capture found is written again,
\* whoever proposed it; a writer that found none proposes its own.
Ask(c) ==
    LET call == doing[c] IN
    /\ Busy(c)
    /\ ~asking[c]
    /\ ~Written(c, call.addr)
    /\ asking' = [asking EXCEPT ![c] = TRUE]
    /\ \/ /\ proposed[call.addr] # {}
          /\ UNCHANGED registerVars
       \/ /\ call.op = "write"
          /\ Registers!Propose(call.addr, call.cmd)
    /\ UNCHANGED <<doing, held, before, answer, readCmd>>

RoundEnds(c) ==
    /\ asking[c]
    /\ asking' = [asking EXCEPT ![c] = FALSE]

\* is_written is set when a write round ends, with or without a quorum.
Hold(c, v, quorum) ==
    /\ held' = [held EXCEPT ![c][doing[c].addr] =
                    {[cmd |-> v, sure |-> quorum]}]
    /\ UNCHANGED <<registerVars, before>>

Answers(c, st) ==
    /\ doing' = [doing EXCEPT ![c] = NoCall]
    /\ answer' = [answer EXCEPT ![c] = st]

\* The command a read leaves for wor_read_cmd0_get and wor_read_cmd1_get.
Reads(c, v) ==
    readCmd' = IF doing[c].op = "read" THEN [readCmd EXCEPT ![c] = v]
               ELSE readCmd

Acknowledged(c) ==
    /\ RoundEnds(c)
    /\ \E v \in register[doing[c].addr] :
            /\ Hold(c, v, TRUE)
            /\ Answers(c, "OK")
            /\ Reads(c, v)

\* A quorum reached with the last datagram counts as a preemption.
AcknowledgedLate(c) ==
    /\ RoundEnds(c)
    /\ \E v \in register[doing[c].addr] :
            /\ Hold(c, v, TRUE)
            /\ UNCHANGED <<doing, answer, readCmd>>

\* The commands c's paxos_space may hold when no quorum acknowledged any.  A
\* writer whose ACCEPTs nobody acknowledged holds CMD_UNDEF.
Unacknowledged(c) ==
    LET call == doing[c] IN
    IF before[c] # {} THEN before[c]
    ELSE proposed[call.addr]
         \cup (IF call.op = "write" THEN {UndefCmd} ELSE {})

\* The round used up its turns without a quorum.
RunsOut(c) ==
    /\ RoundEnds(c)
    /\ \E v \in Unacknowledged(c) :
            /\ Hold(c, v, FALSE)
            /\ UNCHANGED <<doing, answer, readCmd>>

\* The next round of the same call, or of a later one, finds is_written set.
FindsWritten(c) ==
    LET x == doing[c].addr IN
    /\ Busy(c)
    /\ Written(c, x)
    /\ Answers(c, IF doing[c].op = "read" THEN "OK" ELSE "ALREADYWRITTEN")
    /\ Reads(c, HeldCmd(c, x))
    /\ UNCHANGED <<registerVars, asking, held, before>>

\* The call ends before it asks the acceptors for a command.
Fails(c, st) ==
    /\ Busy(c)
    /\ ~asking[c]
    /\ ~Written(c, doing[c].addr)
    /\ Answers(c, st)
    /\ Reads(c, UndefCmd)
    /\ UNCHANGED <<registerVars, asking, held, before>>

\* The register could not be captured.  No caller tells ERROR (no proposal
\* number is left) from TIMEOUT, and both are TIMEOUT here.
TimesOut(c) == Fails(c, "TIMEOUT")

FindsUnwritten(c) ==
    /\ doing[c].op = "read"
    /\ before[c] = {}
    /\ Fails(c, "UNWRITTEN")
-----------------------------------------------------------------------------
\* The steps of c's call between its begin and its answer.  Nothing says which
\* of them the datagrams allow: any call may run out or time out.
Proceeds(c) ==
    \/ Ask(c)
    \/ Acknowledged(c)
    \/ AcknowledgedLate(c)
    \/ RunsOut(c)
    \/ FindsWritten(c)
    \/ FindsUnwritten(c)
    \/ TimesOut(c)

Calls(c) ==
    \E x \in Addr :
        \/ \E v \in Cmd : wor_capture_and_write(c, x, v)
        \/ wor_read(c, x)

Decides == \E x \in Addr, v \in Cmd : Decide(x, v)

RegistersNext == Decides \/ \E c \in Clients : Proceeds(c) \/ Calls(c)

\* Steps that leave the layer alone are named first for the sake of TLC, which
\* then evaluates nothing else of them.
RegistersSpec ==
    /\ RegistersInit
    /\ [][UNCHANGED registerCallVars \/ RegistersNext]_registerCallVars
=============================================================================
