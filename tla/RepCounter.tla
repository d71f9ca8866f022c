----------------------------- MODULE RepCounter -----------------------------
(***************************************************************************)
(* The replicated counter on the shared log (repcounter0.c), driven by an  *)
(* application that makes a fixed list of calls, as client.c does.         *)
(***************************************************************************)
EXTENDS SharedLog, FiniteSetsExt, Sequences

CONSTANTS
    Program,    \* Program[c]: the commands c's main appends, in order
    UintSize    \* how many values a uint has, 2^32

ASSUME ProgramAssumption == \A c \in Clients : Program[c] \in Seq(Cmd)

\* cmd1 and counter.value are of type uint.
ASSUME UintAssumption ==
    /\ UintSize \in Nat \ {0}
    /\ \A cmd \in Cmd :
        cmd.type = "REPCOUNTER_INC" => cmd.arg \in 0 .. UintSize - 1

VARIABLES
    phase,      \* where c is in repcounter_read or repcounter_inc
    done,       \* done[c]: how many of its calls c has made
    value,      \* value[c]: counter.value
    failed,     \* history: an append of c returned UNKNOWNERROR
    seen        \* history: the length of the log prefix that was written
                \* when c's call began

counterVars == <<phase, done, value, failed, seen>>
vars == <<sharedLogVars, counterVars>>

\* The commands of the counter.
INC(x) == [type |-> "REPCOUNTER_INC", arg |-> x]
READ == [type |-> "REPCOUNTER_READ", arg |-> 0]

\* The length of the log: its addresses 1 to n are written, and not the next.
IsLogLength(n) ==
    /\ \A x \in 1 .. n : register[x] # {}
    /\ n + 1 \in Addr => register[n + 1] = {}

CounterInit ==
    /\ LogInit
    /\ phase = [c \in Clients |-> "idle"]
    /\ done = [c \in Clients |-> 0]
    /\ value = [c \in Clients |-> 0]
    /\ failed = [c \in Clients |-> FALSE]
    /\ seen = [c \in Clients |-> 0]
-----------------------------------------------------------------------------
\* repcounter_read and repcounter_inc append their command first.
Call(c) ==
    /\ phase[c] = "idle"
    /\ done[c] < Len(Program[c])
    /\ sharedlog_append(c, Program[c][done[c] + 1])
    /\ phase' = [phase EXCEPT ![c] = "append"]
    /\ done' = [done EXCEPT ![c] = @ + 1]
    /\ \E n \in Addr : IsLogLength(n) /\ seen' = [seen EXCEPT ![c] = n]
    /\ UNCHANGED <<value, failed>>

\* Mutant: an append that failed is waited for.
AppendedWaits(c) ==
    /\ phase[c] = "append"
    /\ \E st \in {"OK", "UNKNOWNERROR"} : AppendReturns(c, st)
    /\ phase' = IF answer[c] = "OK" THEN [phase EXCEPT ![c] = "execute"]
                ELSE phase
    /\ UNCHANGED <<done, value, failed, seen>>

Appended(c) ==
    /\ phase[c] = "append"
    /\ \/ /\ AppendReturns(c, "OK")
          /\ phase' = [phase EXCEPT ![c] = "execute"]
          /\ UNCHANGED failed
       \/ /\ AppendReturns(c, "UNKNOWNERROR")
          /\ phase' = [phase EXCEPT ![c] = "idle"]
          /\ failed' = [failed EXCEPT ![c] = TRUE]
    /\ UNCHANGED <<done, value, seen>>

\* What counter_perform_cmd makes of a counter with value n.
Performed(n, cmd) ==
    IF cmd # UndefCmd /\ cmd.type = "REPCOUNTER_INC"
    THEN (n + cmd.arg) % UintSize ELSE n

\* The values of a counter that starts with n and performs the commands at
\* the addresses first, first + 1, ... of a log: Performing(..)[i] after i of
\* them.
Performing(n, log, first) ==
    LET counter[i \in Nat] ==
        IF i = 0 THEN n ELSE Performed(counter[i - 1], log[first + i - 1])
    IN counter

\* repcounter_execute_all_pending, and the call returns.
repcounter_execute_all_pending(c) ==
    LET log == [x \in Addr |-> NextCmd(c, x)]
        next == Max(Pending(c)) + 1
    IN
    /\ phase[c] = "execute"
    /\ \/ /\ Pending(c) # {}
          /\ sharedlog_getnext(c, next)
          /\ value' = [value EXCEPT ![c] =
                Performing(@, log, unexecuted[c])[next - unexecuted[c]]]
       \/ /\ Pending(c) = {}
          /\ UNCHANGED <<sharedLogVars, value>>
    /\ phase' = [phase EXCEPT ![c] = "idle"]
    /\ UNCHANGED <<done, failed, seen>>

\* The call of the registers, or the next one of the same append.
LogRuns(c) ==
    /\ \/ /\ Proceeds(c)
          /\ UNCHANGED logVars
       \/ AppendRetries(c)
    /\ UNCHANGED <<phase, done, value, failed, seen>>

Runs(c) ==
    \/ LogRuns(c)
    \/ Appended(c)
    \/ repcounter_execute_all_pending(c)

Decided(x) ==
    /\ \E v \in Cmd : Decide(x, v)
    /\ UNCHANGED <<logVars, counterVars>>

CounterNext ==
    \/ \E x \in Addr : Decided(x)
    \/ \E c \in Clients : Call(c) \/ Runs(c)

\* A client runs its code, and its calls of the registers come to an answer
\* (CallsReturn of Wor), whichever it is: that they write is not assumed.
CounterSpec == /\ CounterInit
               /\ [][CounterNext]_vars
               /\ \A c \in Clients : WF_vars(Runs(c))
-----------------------------------------------------------------------------
CounterTypeOK ==
    /\ \A x \in Addr : register[x] \subseteq proposed[x]
    /\ phase \in [Clients -> {"idle", "append", "execute"}]
    /\ \A c \in Clients : done[c] \in 0 .. Len(Program[c])
    /\ value \in [Clients -> 0 .. UintSize - 1]
    /\ failed \in [Clients -> BOOLEAN]
    /\ seen \in [Clients -> Addr]
    /\ \A c \in Clients : Appending(c) <=> phase[c] = "append"

\* The log as the registers have it, but for address 0.
Only(cmds) == CHOOSE v \in cmds : TRUE

RegisterLog == [x \in Addr |->
    IF x = 0 \/ register[x] = {} THEN UndefCmd ELSE Only(register[x])]

\* What the log amounts to below address n.
LogValue(n) == Performing(0, RegisterLog, 0)[n]

\* Quorums acknowledged what c has executed.
ExecutedSure(c) ==
    \A x \in 1 .. unexecuted[c] - 1 : \A e \in held[c][x] : e.sure

(***************************************************************************)
(* The replicas agree: a client whose written addresses were acknowledged  *)
(* by quorums has the value of the log prefix it has executed, each        *)
(* command counted once, whoever appended it.  (Address 0 is written only  *)
(* when the log is full.)                                                  *)
(***************************************************************************)
ReplicasAgree ==
    \A c \in Clients :
        ~Written(c, 0) /\ ExecutedSure(c)
            => value[c] = LogValue(unexecuted[c])

\* c's last call returned OK.
ReturnedOK(c) == phase[c] = "idle" /\ appended[c] = "OK"

(***************************************************************************)
(* "After appending a 'read' command, the log local copy will be           *)
(* up-to-date" (repcounter0.c): a call that returns OK leaves the counter  *)
(* with the value of the log up to and beyond the prefix that was written  *)
(* when the call began.  It holds of a client whose appends never failed,  *)
(* when its last address was still unwritten as it called                  *)
(* wor_capture_and_write, and if quorums acknowledged every address to it  *)
(* (or else it has executed a hole where the log has a command).           *)
(***************************************************************************)
UpToDateIfFirst ==
    \A c \in Clients :
        /\ ReturnedOK(c)
        /\ ~failed[c]
        /\ before[c] = {}
        /\ unwritten[c] # 0
        /\ ExecutedSure(c)
        => /\ seen[c] + 1 < unexecuted[c]
           /\ value[c] = LogValue(unexecuted[c])

(***************************************************************************)
(* Every append returns, by finding an address or an error, unless the     *)
(* log is full: at address 0 it may be answered ALREADYWRITTEN for ever.   *)
(***************************************************************************)
AppendsEnd ==
    \A c \in Clients :
        phase[c] = "append" ~> (phase[c] # "append" \/ LogFull(c))

(***************************************************************************)
(* The counter uses the log as sharedlog.h allows.                         *)
(***************************************************************************)
ImplementsLog == LogSpec

(***************************************************************************)
(* The same sentence of repcounter0.c without those conditions: a read     *)
(* that returns OK has executed every command written when it began.       *)
(***************************************************************************)
UpToDate ==
    \A c \in Clients :
        /\ done[c] > 0 /\ Program[c][done[c]] = READ
        /\ ReturnedOK(c)
        /\ unwritten[c] # 0
        => seen[c] < unexecuted[c]
=============================================================================
