-------------------------- MODULE RepCounterProofs --------------------------
(***************************************************************************)
(* The counter on the shared log, for every program of calls, log size and *)
(* number of clients.  Its steps are steps of the log, so what is proved   *)
(* of the indices holds of it; what a client has executed is what its      *)
(* registers say; and a call that returns OK has executed the log prefix   *)
(* it found, under the conditions of UpToDateIfFirst.                      *)
(***************************************************************************)
EXTENDS RepCounter, SharedLogProofs, WellFoundedInduction

CallsTyped ==
    /\ phase \in [Clients -> {"idle", "append", "execute"}]
    /\ done \in [Clients -> Nat]
    /\ failed \in [Clients -> BOOLEAN]
    /\ seen \in [Clients -> Addr]

\* c holds every address it fetched, but for the one of an append that has not
\* found it written yet.
Tried(c) ==
    \/ \A x \in 1 .. blank[c] - 1 : Written(c, x)
    \/ /\ phase[c] = "append"
       /\ \A x \in 1 .. blank[c] - 2 : Written(c, x)
       /\ answer[c] \notin {"OK", "ALREADYWRITTEN"}
       /\ Busy(c) => doing[c].addr = blank[c] - 1

CallInv(c) ==
    /\ Appending(c) => phase[c] = "append"
    /\ \A x \in 1 .. seen[c] : register[x] # {}
    /\ ~failed[c] => Tried(c)
    /\ blank[c] > 1 /\ ~LogFull(c) /\ before[c] = {} => seen[c] + 1 < blank[c]
    /\ phase[c] # "idle" \/ appended[c] = "OK" => blank[c] > 1
    /\ phase[c] = "execute" /\ ~failed[c] /\ unwritten[c] # 0
            => unwritten[c] = blank[c]
    /\ ReturnedOK(c) /\ ~failed[c] /\ unwritten[c] # 0
            => unwritten[c] = blank[c] /\ unexecuted[c] = unwritten[c]

CounterInv ==
    /\ LogInv
    /\ CallsTyped
    /\ \A c \in Clients : CallInv(c)
-----------------------------------------------------------------------------
\* The addresses repcounter_execute_all_pending goes through.
LEMMA LastPending ==
    ASSUME LogInv, NEW c \in Clients, Pending(c) # {}
    PROVE  Max(Pending(c)) = unwritten[c] - 1 /\ unwritten[c] \in 1 .. LogSize
<1>1. /\ unexecuted[c] \in Nat /\ unwritten[c] \in Nat
      /\ unwritten[c] < LogSize /\ LogSize \in Nat
    BY LogSizeAssumption DEF LogInv, IndicesTyped
<1>2. Pending(c) = unexecuted[c] .. unwritten[c] - 1
    BY DEF Pending
<1>3. unexecuted[c] <= unwritten[c] - 1
    BY <1>1, <1>2
<1>4. \A m \in Pending(c) :
        (\A y \in Pending(c) : m >= y) <=> m = unwritten[c] - 1
    BY <1>1, <1>2, <1>3
<1>5. unwritten[c] - 1 \in Pending(c)
    BY <1>1, <1>2, <1>3
<1>6. Max(Pending(c)) = unwritten[c] - 1
    BY <1>4, <1>5 DEF Max
<1> QED
    BY <1>1, <1>3, <1>6

LEMMA CallCommand ==
    ASSUME CallsTyped, NEW c \in Clients, done[c] < Len(Program[c])
    PROVE  Program[c][done[c] + 1] \in Cmd
<1>1. Program[c] \in Seq(Cmd) /\ done[c] \in Nat
    BY ProgramAssumption DEF CallsTyped
<1> QED
    BY <1>1

LEMMA CounterStepIsLogStep ==
    ASSUME LogInv, CallsTyped, [CounterNext]_vars
    PROVE  [LogNext]_sharedLogVars
<1>1. CASE UNCHANGED vars
    BY <1>1 DEF vars
<1>2. ASSUME NEW x \in Addr, Decided(x) PROVE LogNext
    BY <1>2 DEF Decided, LogNext, Decides
<1>3. ASSUME NEW c \in Clients, Call(c) PROVE LogNext
    BY <1>3, CallCommand DEF Call, LogNext
<1>4. ASSUME NEW c \in Clients, LogRuns(c) PROVE LogNext
    BY <1>4 DEF LogRuns, LogNext
<1>5. ASSUME NEW c \in Clients, Appended(c) PROVE LogNext
    BY <1>5 DEF Appended, LogNext
<1>6. ASSUME NEW c \in Clients, repcounter_execute_all_pending(c)
      PROVE  [LogNext]_sharedLogVars
    <2>1. CASE /\ Pending(c) # {}
               /\ sharedlog_getnext(c, Max(Pending(c)) + 1)
        <3>1. Max(Pending(c)) + 1 \in 1 .. LogSize
            BY <2>1, LastPending DEF LogInv, IndicesTyped
        <3> QED
            BY <2>1, <3>1 DEF LogNext
    <2>2. CASE UNCHANGED sharedLogVars
        BY <2>2
    <2> QED
        BY <1>6, <2>1, <2>2 DEF repcounter_execute_all_pending
<1> QED
    BY <1>1, <1>2, <1>3, <1>4, <1>5, <1>6 DEF CounterNext, Runs
-----------------------------------------------------------------------------
LEMMA CounterInitInv == CounterInit => CounterInv
<1> SUFFICES ASSUME CounterInit PROVE CounterInv
    OBVIOUS
<1>1. LogInv
    BY LogInitInv DEF CounterInit
<1>2. CallsTyped
    BY LogSizeAssumption DEF CounterInit, CallsTyped
<1>3. ASSUME NEW c \in Clients PROVE CallInv(c)
    <2>1. /\ blank[c] = 1 /\ seen[c] = 0 /\ appended[c] = "none"
          /\ phase[c] = "idle" /\ appending[c] = UndefCmd
        BY <1>3 DEF CounterInit, LogInit
    <2> QED
        BY <2>1 DEF CallInv, Tried, ReturnedOK, Appending
<1> QED
    BY <1>1, <1>2, <1>3 DEF CounterInv

\* A client that makes no step keeps its part of the invariant.
LEMMA CallKept ==
    ASSUME NEW c \in Clients, CallInv(c), seen[c] \in Addr, RegistersGrow,
           UNCHANGED <<unexecuted[c], unwritten[c], blank[c], appending[c],
                       appended[c], phase[c], failed[c], seen[c], doing[c],
                       held[c], answer[c], before[c]>>
    PROVE  CallInv(c)'
<1>1. \A x \in 1 .. seen[c] : register'[x] # {}
    BY LogSizeAssumption DEF CallInv, RegistersGrow
<1>2. Tried(c) => Tried(c)'
    BY DEF Tried, Written, Busy
<1> QED
    BY <1>1, <1>2 DEF CallInv, LogFull, ReturnedOK, Appending

\* The part of the others, when c alone makes a step.
LEMMA OthersKept ==
    ASSUME CounterInv, NEW c \in Clients, RegistersGrow, OthersKeep(c),
           \A d \in Clients \ {c} :
                UNCHANGED <<unexecuted[d], unwritten[d], blank[d],
                            appending[d], appended[d], phase[d], failed[d],
                            seen[d]>>
    PROVE  \A d \in Clients \ {c} : CallInv(d)'
<1> SUFFICES ASSUME NEW d \in Clients \ {c} PROVE CallInv(d)'
    OBVIOUS
<1>1. CallInv(d) /\ seen[d] \in Addr
    BY DEF CounterInv, CallsTyped
<1> QED
    BY <1>1, CallKept DEF OthersKeep
-----------------------------------------------------------------------------
\* A turn of sharedlog_append fetches a new address, or 0 in a full log.
LEMMA TryKeeps ==
    ASSUME LogInv, NEW c \in Clients, NEW cmd \in Cmd, Try(c, cmd)
    PROVE  /\ UNCHANGED <<register, held>>
           /\ OthersKeep(c)
           /\ answer'[c] = "none"
           /\ \A d \in Clients \ {c} : blank'[d] = blank[d]
           /\ \/ /\ ~LogFull(c)
                 /\ blank'[c] = blank[c] + 1
                 /\ doing'[c].addr = blank[c]
                 /\ before'[c] = register[blank[c]]
              \/ /\ LogFull(c)
                 /\ blank'[c] = blank[c]
<1>1. PICK x \in Addr :
        fetch_and_inc_first_blank_addr(c, x) /\ wor_capture_and_write(c, x, cmd)
    BY DEF Try
<1>2. /\ UNCHANGED <<registerVars, held>>
      /\ OthersKeep(c)
      /\ answer'[c] = "none"
      /\ doing'[c] = [op |-> "write", addr |-> x, cmd |-> cmd]
      /\ before'[c] = register[x]
    BY <1>1, WriteCallEffect DEF LogInv
<1>3. blank \in [Clients -> Nat]
    BY DEF LogInv, IndicesTyped
<1> QED
    BY <1>1, <1>2, <1>3 DEF fetch_and_inc_first_blank_addr, registerVars

\* What such a turn leaves c with, when c holds all it fetched before.
LEMMA TryCall ==
    ASSUME LogInv, CallsTyped, NEW c \in Clients, NEW cmd \in Cmd, Try(c, cmd),
           ~failed[c] => \A x \in 1 .. blank[c] - 1 : Written(c, x),
           blank[c] > 1 \/ ~LogFull(c),
           \A x \in 1 .. seen'[c] : register[x] # {},
           seen'[c] \in Addr,
           phase'[c] = "append", failed'[c] = failed[c]
    PROVE  CallInv(c)'
<1>1. /\ blank[c] \in Nat /\ LogSize \in Nat /\ 1 <= blank[c]
      /\ seen'[c] \in Nat
    BY LogSizeAssumption DEF LogInv, IndicesTyped, IndicesOrdered
<1>2. /\ UNCHANGED <<register, held>>
      /\ answer'[c] = "none"
      /\ \/ /\ ~LogFull(c)
            /\ blank'[c] = blank[c] + 1
            /\ doing'[c].addr = blank[c]
            /\ before'[c] = register[blank[c]]
         \/ /\ LogFull(c)
            /\ blank'[c] = blank[c]
    BY TryKeeps
<1>3. \A x \in 1 .. seen'[c] : register'[x] # {}
    BY <1>2
<1>4. ~failed'[c] => Tried(c)'
    <2>1. CASE LogFull(c)
        BY <1>2, <2>1 DEF Tried, Written
    <2>2. CASE ~LogFull(c)
        BY <1>1, <1>2, <2>2 DEF Tried, Written
    <2> QED
        BY <2>1, <2>2
<1>5. blank'[c] > 1
    BY <1>1, <1>2
<1>6. ~LogFull(c)' /\ before'[c] = {} => seen'[c] + 1 < blank'[c]
    <2> SUFFICES ASSUME ~LogFull(c)', before'[c] = {}
                 PROVE  seen'[c] + 1 < blank'[c]
        OBVIOUS
    <2>1. blank'[c] = blank[c] + 1 /\ register[blank[c]] = {}
        BY <1>2 DEF LogFull
    <2>2. blank[c] \notin 1 .. seen'[c]
        BY <1>3, <1>2, <2>1
    <2> QED
        BY <1>1, <2>1, <2>2
<1> QED
    BY <1>3, <1>4, <1>5, <1>6 DEF CallInv, ReturnedOK

LEMMA CallPreserves ==
    ASSUME CounterInv, NEW c \in Clients, Call(c)
    PROVE  CallsTyped' /\ \A d \in Clients : CallInv(d)'
<1> DEFINE cmd == Program[c][done[c] + 1]
<1>1. cmd \in Cmd /\ Try(c, cmd)
    BY CallCommand DEF CounterInv, Call, sharedlog_append
<1>2. PICK n \in Addr : IsLogLength(n) /\ seen' = [seen EXCEPT ![c] = n]
    BY DEF Call
<1>3. CallsTyped'
    BY <1>2 DEF Call, CounterInv, CallsTyped
<1>4. /\ phase'[c] = "append" /\ failed' = failed /\ phase[c] = "idle"
      /\ appended' = [appended EXCEPT ![c] = "none"]
      /\ appending' = [appending EXCEPT ![c] = cmd]
      /\ UNCHANGED <<unexecuted, unwritten>>
    BY DEF Call, sharedlog_append, CounterInv, CallsTyped
<1>5. CallInv(c)'
    <2>1. ~failed[c] => \A x \in 1 .. blank[c] - 1 : Written(c, x)
        BY <1>4 DEF CounterInv, CallInv, Tried
    <2>2. blank[c] > 1 \/ ~LogFull(c)
        BY LogSizeAssumption DEF LogFull
    <2>3. \A x \in 1 .. n : register[x] # {}
        BY <1>2 DEF IsLogLength
    <2>4. seen'[c] = n
        BY <1>2 DEF CounterInv, CallsTyped
    <2> QED
        BY <1>1, <1>4, <2>1, <2>2, <2>3, <2>4, TryCall DEF CounterInv
<1>6. \A d \in Clients \ {c} : CallInv(d)'
    <2>1. \A d \in Clients \ {c} :
            UNCHANGED <<unexecuted[d], unwritten[d], blank[d],
                        appending[d], appended[d], phase[d], failed[d],
                        seen[d]>>
        BY <1>1, <1>2, <1>4, TryKeeps
        DEF Call, CounterInv, CallsTyped, LogInv, AppendsTyped
    <2>2. OthersKeep(c) /\ RegistersGrow
        BY <1>1, TryKeeps DEF CounterInv, RegistersGrow
    <2> QED
        BY <2>1, <2>2, OthersKept
<1> QED
    BY <1>3, <1>5, <1>6

\* A step of the call of the registers: it may end the turn.
LEMMA ProceedsPreserves ==
    ASSUME CounterInv, NEW c \in Clients, Proceeds(c), UNCHANGED logVars,
           UNCHANGED <<phase, done, failed, seen>>
    PROVE  CallsTyped' /\ \A d \in Clients : CallInv(d)'
<1>1. /\ OthersKeep(c) /\ RegistersGrow /\ Busy(c) /\ UNCHANGED register
      /\ CallGoesOn(c)
    BY ProceedsEffect DEF CounterInv, LogInv, Effect
<1>2. UNCHANGED <<unexecuted, unwritten, blank, appending, appended>>
    BY DEF logVars, indexVars
<1>3. CallsTyped'
    BY DEF CounterInv, CallsTyped
<1>4. PICK x \in Addr :
        /\ x = doing[c].addr
        /\ before'[c] = before[c]
        /\ \A y \in Addr : Written(c, y) => Written(c, y)'
        /\ \/ doing'[c] = doing[c] /\ answer'[c] = answer[c]
           \/ /\ doing'[c] = NoCall
              /\ answer'[c] \in {"OK", "ALREADYWRITTEN"} => Written(c, x)'
    BY <1>1 DEF CallGoesOn
<1>5. blank[c] \in Nat /\ 1 <= blank[c] /\ blank[c] <= LogSize
    BY DEF CounterInv, LogInv, IndicesTyped, IndicesOrdered
<1>6. \A y \in 1 .. blank[c] - 1 : Written(c, y) => Written(c, y)'
    BY <1>4, <1>5, LogSizeAssumption
<1>7. Tried(c) => Tried(c)'
    <2>1. CASE \A y \in 1 .. blank[c] - 1 : Written(c, y)
        BY <1>2, <1>6, <2>1 DEF Tried
    <2>2. CASE /\ phase[c] = "append"
               /\ \A y \in 1 .. blank[c] - 2 : Written(c, y)
               /\ answer[c] \notin {"OK", "ALREADYWRITTEN"}
               /\ x = blank[c] - 1
        <3>1. \A y \in 1 .. blank[c] - 2 : Written(c, y)'
            BY <1>5, <1>6, <2>2
        <3>2. CASE answer'[c] \in {"OK", "ALREADYWRITTEN"}
            <4>1. Written(c, x)'
                BY <1>4, <2>2, <3>2
            <4>2. \A y \in 1 .. blank[c] - 1 :
                    y \in 1 .. blank[c] - 2 \/ y = blank[c] - 1
                BY <1>5
            <4>3. \A y \in 1 .. blank[c] - 1 : Written(c, y)'
                BY <2>2, <3>1, <4>1, <4>2
            <4> QED
                BY <1>2, <4>3 DEF Tried
        <3>3. CASE answer'[c] \notin {"OK", "ALREADYWRITTEN"}
            <4>1. Busy(c)' => doing'[c] = doing[c]
                BY <1>4 DEF Busy, NoCall
            <4>2. Busy(c)' => doing'[c].addr = blank'[c] - 1
                BY <1>2, <1>4, <2>2, <4>1
            <4> QED
                BY <1>2, <2>2, <3>1, <3>3, <4>2 DEF Tried
        <3> QED
            BY <3>2, <3>3
    <2> QED
        BY <1>1, <1>4, <2>1, <2>2 DEF Tried
<1>8. CallInv(c)'
    BY <1>1, <1>2, <1>4, <1>7
    DEF CounterInv, CallInv, LogFull, ReturnedOK, Appending
<1>9. \A d \in Clients \ {c} : CallInv(d)'
    BY <1>1, <1>2, OthersKept
<1> QED
    BY <1>3, <1>8, <1>9

LEMMA RetriesPreserves ==
    ASSUME CounterInv, NEW c \in Clients, AppendRetries(c), phase[c] = "append",
           UNCHANGED <<phase, done, failed, seen>>
    PROVE  CallsTyped' /\ \A d \in Clients : CallInv(d)'
<1>1. appending[c] \in Cmd /\ Try(c, appending[c])
    BY DEF AppendRetries, CounterInv, LogInv, AppendsTyped, CmdOrUndef,
       Appending
<1>2. CallsTyped'
    BY DEF CounterInv, CallsTyped
<1>3. CallInv(c)'
    <2>1. ~failed[c] => \A x \in 1 .. blank[c] - 1 : Written(c, x)
        BY DEF AppendRetries, CounterInv, CallInv, Tried
    <2> QED
        BY <1>1, <2>1, TryCall DEF CounterInv, CallInv, CallsTyped
<1>4. \A d \in Clients \ {c} : unwritten'[d] = unwritten[d]
    BY DEF AppendRetries, update_first_unwritten_addr, CounterInv, LogInv,
       IndicesTyped
<1>5. \A d \in Clients \ {c} : CallInv(d)'
    <2>1. OthersKeep(c) /\ RegistersGrow
        BY <1>1, TryKeeps DEF CounterInv, RegistersGrow
    <2>2. \A d \in Clients \ {c} : blank'[d] = blank[d]
        BY <1>1, TryKeeps DEF CounterInv
    <2> QED
        BY <1>4, <2>1, <2>2, OthersKept DEF AppendRetries
<1> QED
    BY <1>2, <1>3, <1>5

LEMMA DecidedPreserves ==
    ASSUME CounterInv, NEW x \in Addr, Decided(x)
    PROVE  CallsTyped' /\ \A d \in Clients : CallInv(d)'
<1>1. RegistersGrow /\ UNCHANGED <<callVars, logVars, counterVars>>
    BY DecideEffect DEF Decided, CounterInv, LogInv
<1>2. CallsTyped'
    BY <1>1 DEF CounterInv, CallsTyped, counterVars
<1> SUFFICES ASSUME NEW d \in Clients PROVE CallInv(d)'
    BY <1>2
<1>3. CallInv(d) /\ seen[d] \in Addr
    BY DEF CounterInv, CallsTyped
<1> QED
    BY <1>1, <1>3, CallKept DEF callVars, logVars, indexVars, counterVars

\* An append that was acknowledged has found everything c tried written.
LEMMA AppendedPreserves ==
    ASSUME CounterInv, NEW c \in Clients, Appended(c)
    PROVE  CallsTyped' /\ \A d \in Clients : CallInv(d)'
<1>1. /\ UNCHANGED <<register, doing, asking, held, before, answer, readCmd>>
      /\ UNCHANGED <<unexecuted, blank, done, seen>>
    BY DEF Appended, AppendReturns, registerCallVars, registerVars, callVars
<1>2. phase[c] = "append" /\ appending' = [appending EXCEPT ![c] = UndefCmd]
    BY DEF Appended, AppendReturns
<1>3. /\ unwritten \in [Clients -> Nat] /\ blank \in [Clients -> Nat]
      /\ appended \in [Clients -> {"none", "OK", "UNKNOWNERROR"}]
      /\ appending \in [Clients -> CmdOrUndef]
      /\ LogSize \in Nat /\ blank[c] <= LogSize
    BY LogSizeAssumption
    DEF CounterInv, LogInv, IndicesTyped, AppendsTyped, IndicesOrdered
<1>4. CASE AppendReturns(c, "OK") /\ UNCHANGED failed
           /\ phase' = [phase EXCEPT ![c] = "execute"]
    <2>1. /\ answer[c] = "OK"
          /\ update_first_unwritten_addr(c)
          /\ appended' = [appended EXCEPT ![c] = "OK"]
        BY <1>4 DEF AppendReturns
    <2>2. PICK y \in 0 .. LogSize - 1 : Reaches(c, y)
        BY <2>1, UpdateEffect DEF CounterInv
    <2>3. unwritten' = [unwritten EXCEPT ![c] = y]
        BY <2>2 DEF Reaches
    <2>4. ~failed[c] /\ y # 0 => y = blank[c]
        <3> SUFFICES ASSUME ~failed[c], y # 0, y # blank[c] PROVE FALSE
            OBVIOUS
        <3>1. \A x \in 1 .. blank[c] - 1 : Written(c, x)
            BY <2>1 DEF CounterInv, CallInv, Tried
        <3>2. ~Written(c, y) /\ y \in 1 .. blank[c] - 1
            BY <1>3, <2>2 DEF Reaches
        <3> QED
            BY <3>1, <3>2
    <2>5. Tried(c) => Tried(c)'
        BY <1>1, <1>4, <2>1 DEF Tried, Written
    <2>6. phase'[c] = "execute" /\ unwritten'[c] = y
        BY <1>3, <1>4, <2>3 DEF CounterInv, CallsTyped
    <2>7. CallInv(c)'
        BY <1>1, <1>2, <1>3, <1>4, <2>4, <2>5, <2>6
        DEF CounterInv, CallInv, LogFull, ReturnedOK, Appending
    <2>8. \A d \in Clients \ {c} : CallInv(d)'
        BY <1>1, <1>2, <1>3, <1>4, <2>1, <2>3, OthersKept
        DEF OthersKeep, RegistersGrow, CounterInv, CallsTyped
    <2> QED
        BY <1>1, <1>4, <2>7, <2>8 DEF CounterInv, CallsTyped
<1>5. CASE AppendReturns(c, "UNKNOWNERROR")
           /\ phase' = [phase EXCEPT ![c] = "idle"]
           /\ failed' = [failed EXCEPT ![c] = TRUE]
    <2>1. /\ UNCHANGED unwritten
          /\ appended' = [appended EXCEPT ![c] = "UNKNOWNERROR"]
        BY <1>5 DEF AppendReturns
    <2>2. failed'[c] /\ phase'[c] = "idle" /\ appended'[c] # "OK"
        BY <1>3, <1>5, <2>1 DEF CounterInv, CallsTyped
    <2>3. CallInv(c)'
        BY <1>1, <1>2, <1>3, <2>2
        DEF CounterInv, CallInv, LogFull, ReturnedOK, Appending
    <2>4. \A d \in Clients \ {c} : CallInv(d)'
        BY <1>1, <1>2, <1>3, <1>5, <2>1, OthersKept
        DEF OthersKeep, RegistersGrow, CounterInv, CallsTyped
    <2> QED
        BY <1>1, <1>5, <2>3, <2>4 DEF CounterInv, CallsTyped
<1> QED
    BY <1>4, <1>5 DEF Appended

\* repcounter_execute_all_pending goes as far as the log is written.
LEMMA ExecutePreserves ==
    ASSUME CounterInv, NEW c \in Clients, repcounter_execute_all_pending(c)
    PROVE  CallsTyped' /\ \A d \in Clients : CallInv(d)'
<1>1. /\ phase[c] = "execute"
      /\ phase' = [phase EXCEPT ![c] = "idle"]
      /\ UNCHANGED <<done, failed, seen>>
    BY DEF repcounter_execute_all_pending
<1>2. /\ unexecuted \in [Clients -> Nat] /\ unwritten \in [Clients -> Nat]
      /\ unwritten[c] # 0 => unexecuted[c] <= unwritten[c]
    BY DEF CounterInv, LogInv, IndicesTyped, IndicesOrdered
<1>3. /\ UNCHANGED <<registerCallVars, unwritten, blank, appending, appended>>
      /\ unwritten[c] # 0 => unexecuted'[c] = unwritten[c]
      /\ \A d \in Clients \ {c} : unexecuted'[d] = unexecuted[d]
    <2>1. CASE Pending(c) # {} /\ sharedlog_getnext(c, Max(Pending(c)) + 1)
        BY <1>2, <2>1, LastPending DEF CounterInv, sharedlog_getnext
    <2>2. CASE Pending(c) = {} /\ UNCHANGED sharedLogVars
        <3>1. unwritten[c] # 0 => unexecuted[c] = unwritten[c]
            BY <1>2, <2>2 DEF Pending
        <3> QED
            BY <2>2, <3>1 DEF sharedLogVars, logVars, indexVars
    <2> QED
        BY <2>1, <2>2 DEF repcounter_execute_all_pending
<1>4. UNCHANGED <<register, doing, asking, held, before, answer, readCmd>>
    BY <1>3 DEF registerCallVars, registerVars, callVars
<1>5. CallsTyped'
    BY <1>1 DEF CounterInv, CallsTyped
<1>6. phase'[c] = "idle"
    BY <1>1 DEF CounterInv, CallsTyped
<1>7. Tried(c) => Tried(c)'
    BY <1>1, <1>3, <1>4 DEF Tried, Written
<1>8. CallInv(c)'
    BY <1>1, <1>3, <1>4, <1>6, <1>7
    DEF CounterInv, CallInv, LogFull, ReturnedOK, Appending
<1>9. \A d \in Clients \ {c} : CallInv(d)'
    BY <1>1, <1>3, <1>4, OthersKept
    DEF OthersKeep, RegistersGrow, CounterInv, CallsTyped
<1> QED
    BY <1>5, <1>8, <1>9
-----------------------------------------------------------------------------
LEMMA CounterNextInv == CounterInv /\ [CounterNext]_vars => CounterInv'
<1> SUFFICES ASSUME CounterInv, [CounterNext]_vars PROVE CounterInv'
    OBVIOUS
<1>1. LogInv'
    BY CounterStepIsLogStep, LogNextInv DEF CounterInv
<1> SUFFICES CallsTyped' /\ \A d \in Clients : CallInv(d)'
    BY <1>1 DEF CounterInv
<1>2. CASE UNCHANGED vars
    <2>1. UNCHANGED <<register, doing, held, before, answer, unexecuted,
                      unwritten, blank, appending, appended, phase, done,
                      failed, seen>>
        BY <1>2
        DEF vars, sharedLogVars, registerCallVars, registerVars, callVars,
            logVars, indexVars, counterVars
    <2>2. \A d \in Clients : CallInv(d)'
        BY <2>1, CallKept DEF CounterInv, CallsTyped, RegistersGrow
    <2> QED
        BY <2>1, <2>2 DEF CounterInv, CallsTyped
<1>3. ASSUME NEW x \in Addr, Decided(x)
      PROVE  CallsTyped' /\ \A d \in Clients : CallInv(d)'
    BY <1>3, DecidedPreserves
<1>4. ASSUME NEW c \in Clients, Call(c)
      PROVE  CallsTyped' /\ \A d \in Clients : CallInv(d)'
    BY <1>4, CallPreserves
<1>5. ASSUME NEW c \in Clients, LogRuns(c)
      PROVE  CallsTyped' /\ \A d \in Clients : CallInv(d)'
    <2>1. UNCHANGED <<phase, done, failed, seen>>
        BY <1>5 DEF LogRuns
    <2>2. CASE Proceeds(c) /\ UNCHANGED logVars
        BY <2>1, <2>2, ProceedsPreserves
    <2>3. CASE AppendRetries(c)
        <3>1. phase[c] = "append"
            BY <2>3 DEF AppendRetries, CounterInv, CallInv
        <3> QED
            BY <2>1, <2>3, <3>1, RetriesPreserves
    <2> QED
        BY <1>5, <2>2, <2>3 DEF LogRuns
<1>6. ASSUME NEW c \in Clients, Appended(c)
      PROVE  CallsTyped' /\ \A d \in Clients : CallInv(d)'
    BY <1>6, AppendedPreserves
<1>7. ASSUME NEW c \in Clients, repcounter_execute_all_pending(c)
      PROVE  CallsTyped' /\ \A d \in Clients : CallInv(d)'
    BY <1>7, ExecutePreserves
<1> QED
    BY <1>2, <1>3, <1>4, <1>5, <1>6, <1>7 DEF CounterNext, Runs

\* The strengthening of UpToDateIfFirst in every reachable state.
LEMMA CounterInvariance == CounterSpec => []CounterInv
BY CounterInitInv, CounterNextInv, PTL DEF CounterSpec

(***************************************************************************)
(* The counter drives the log only through sharedlog_append and            *)
(* sharedlog_getnext (repcounter0.c): every step of it is a step of the    *)
(* log, or leaves the log alone.                                           *)
(***************************************************************************)
THEOREM RefinesLog == CounterSpec => ImplementsLog
<1>1. CounterInit => LogInit
    BY DEF CounterInit
<1>2. CounterInv /\ [CounterNext]_vars => [LogNext]_sharedLogVars
    BY CounterStepIsLogStep DEF CounterInv
<1> QED
    BY <1>1, <1>2, CounterInvariance, PTL
    DEF CounterSpec, ImplementsLog, LogSpec

(***************************************************************************)
(* The three indices of every counter's log stay ordered                   *)
(* (sharedlog_indices.c).                                                  *)
(***************************************************************************)
THEOREM IndicesStayOrdered == CounterSpec => []IndicesOrdered
BY RefinesLog, LogInvariance, PTL DEF ImplementsLog

(***************************************************************************)
(* What sharedlog_getnext hands the counter is the register's command,     *)
(* where a quorum acknowledged it to the client, or else a command that    *)
(* some client proposed, or the hole CMD_UNDEF.                            *)
(***************************************************************************)
THEOREM PrefixStaysHeld == CounterSpec => []PrefixHeld
BY RefinesLog, LogInvariance, PTL DEF ImplementsLog

(***************************************************************************)
(* Counter, log, calls and registers: each layer does what the one below   *)
(* allows, down to the write-once registers.                               *)
(***************************************************************************)
THEOREM CounterOnWriteOnce == CounterSpec => RegistersSpec /\ Registers!Spec
BY RefinesLog, LogUsesRegisters, CallsRefineWriteOnce, PTL DEF ImplementsLog

(***************************************************************************)
(* Until its log is full no counter fetches an address that it has tried   *)
(* before; address 0 is tried when the log is full, and then again by      *)
(* every append (sharedlog_indices.c).                                     *)
(***************************************************************************)
THEOREM AddressesStayFresh == CounterSpec => []FreshUntilFull
BY RefinesLog, LogInvariance, PTL DEF ImplementsLog
-----------------------------------------------------------------------------
(***************************************************************************)
(* Induction over the natural numbers, by least counterexample: the        *)
(* theorems of NaturalsInduction have an operator as a parameter, which no *)
(* prover at hand instantiates.                                            *)
(***************************************************************************)
LEMMA LeastNumber ==
    ASSUME NEW T \in SUBSET Nat, T # {}
    PROVE  \E n \in T : \A m \in T : n <= m
<1>1. \E Less : /\ IsWellFoundedOn(Less, Nat)
                /\ \A m, n \in Nat : m < n => <<m, n>> \in Less
    <2>1. \A m, n \in Nat : m < n => <<m, n>> \in OpToRel(<, Nat)
        BY Zenon DEF OpToRel
    <2> QED
        BY <2>1, NatLessThanWellFounded, Zenon
<1>2. PICK Less : /\ IsWellFoundedOn(Less, Nat)
                  /\ \A m, n \in Nat : m < n => <<m, n>> \in Less
    BY <1>1
<1>3. PICK n \in T : \A m \in T : ~ (<<m, n>> \in Less)
    <2>1. IsWellFoundedOn(Less, Nat)
        BY <1>2
    <2>2. T \subseteq Nat
        OBVIOUS
    <2> QED
        BY <2>1, <2>2, WFMin
<1>4. ASSUME NEW m \in T PROVE n <= m
    <2>1. m \in Nat /\ n \in Nat /\ ~ (<<m, n>> \in Less)
        BY <1>3
    <2>2. ~(m < n)
        BY <1>2, <2>1
    <2> QED
        BY <2>1, <2>2
<1> QED
    BY <1>4

\* A set of natural numbers that has 0, and the successor of each of its
\* members, has them all.
LEMMA Induction ==
    ASSUME NEW S, 0 \in S, \A n \in Nat : n \in S => n + 1 \in S
    PROVE  Nat \subseteq S
<1> DEFINE T == Nat \ S
<1> SUFFICES ASSUME T # {} PROVE FALSE
    OBVIOUS
<1>1. PICK n \in T : \A m \in T : n <= m
    BY LeastNumber
<1>2. n # 0 /\ n \in Nat /\ n \notin S
    BY <1>1
<1>3. n - 1 \in Nat /\ n - 1 \notin T
    BY <1>1, <1>2
<1>4. n - 1 \in S
    BY <1>3
<1>5. (n - 1) + 1 \in S
    BY <1>3, <1>4
<1> QED
    BY <1>2, <1>5

\* The first k values of a counter that performs the commands of a log.
Performs(g, n, log, first, k) ==
    /\ g[0] = n
    /\ \A i \in 1 .. k : g[i] = Performed(g[i - 1], log[first + i - 1])

LEMMA PerformsUnique ==
    ASSUME NEW n, NEW log, NEW first, NEW g, NEW h,
           NEW k \in Nat, NEW l \in Nat, k <= l,
           Performs(g, n, log, first, k), Performs(h, n, log, first, l)
    PROVE  \A i \in 0 .. k : g[i] = h[i]
<1> DEFINE S == {i \in Nat : i <= k => g[i] = h[i]}
<1>1. 0 \in S
    BY DEF Performs
<1>2. ASSUME NEW i \in Nat, i \in S PROVE i + 1 \in S
    <2> SUFFICES ASSUME i + 1 <= k PROVE g[i + 1] = h[i + 1]
        OBVIOUS
    <2>1. i + 1 \in 1 .. k /\ i + 1 \in 1 .. l /\ (i + 1) - 1 = i
        OBVIOUS
    <2>2. /\ g[i + 1] = Performed(g[i], log[first + (i + 1) - 1])
          /\ h[i + 1] = Performed(h[i], log[first + (i + 1) - 1])
        BY <2>1 DEF Performs
    <2>3. g[i] = h[i]
        BY <1>2
    <2> QED
        BY <2>2, <2>3
<1> HIDE DEF S
<1>3. Nat \subseteq S
    BY <1>1, <1>2, Induction
<1> QED
    BY <1>3 DEF S

LEMMA PerformsExists ==
    ASSUME NEW n, NEW log, NEW first, NEW k \in Nat
    PROVE  \E g : Performs(g, n, log, first, k)
<1> DEFINE S == {i \in Nat : \E g : Performs(g, n, log, first, i)}
<1>1. 0 \in S
    <2>1. Performs([i \in {0} |-> n], n, log, first, 0)
        BY DEF Performs
    <2> QED
        BY <2>1
<1>2. ASSUME NEW i \in Nat, i \in S PROVE i + 1 \in S
    <2>1. PICK g : Performs(g, n, log, first, i)
        BY <1>2
    <2> DEFINE h == [j \in 0 .. i + 1 |->
                        IF j = i + 1 THEN Performed(g[i], log[first + j - 1])
                        ELSE g[j]]
    <2>2. h[0] = n
        BY <2>1 DEF Performs
    <2>3. ASSUME NEW j \in 1 .. i + 1
          PROVE  h[j] = Performed(h[j - 1], log[first + j - 1])
        <3>1. h[j - 1] = g[j - 1]
            OBVIOUS
        <3>2. CASE j = i + 1
            BY <3>1, <3>2
        <3>3. CASE j # i + 1
            <4>1. j \in 1 .. i
                BY <3>3
            <4> QED
                BY <2>1, <3>1, <4>1 DEF Performs
        <3> QED
            BY <3>2, <3>3
    <2>4. Performs(h, n, log, first, i + 1)
        BY <2>2, <2>3 DEF Performs
    <2> QED
        BY <2>4
<1> HIDE DEF S
<1>3. Nat \subseteq S
    BY <1>1, <1>2, Induction
<1> QED
    BY <1>3 DEF S

\* The recursive definition of Performing says what it seems to say.
LEMMA PerformingRecursion ==
    ASSUME NEW n, NEW log, NEW first
    PROVE  LET f == Performing(n, log, first) IN
           /\ f[0] = n
           /\ \A i \in Nat :
                f[i + 1] = Performed(f[i], log[first + (i + 1) - 1])
<1> DEFINE
        Step(g, i) == IF i = 0 THEN n
                      ELSE Performed(g[i - 1], log[first + i - 1])
        part(k) == CHOOSE g : Performs(g, n, log, first, k)
        whole == [k \in Nat |-> part(k)[k]]
        f == Performing(n, log, first)
<1>1. \A k \in Nat : Performs(part(k), n, log, first, k)
    BY PerformsExists
<1>2. whole[0] = n
    BY <1>1 DEF Performs
<1>3. ASSUME NEW k \in Nat \ {0}
      PROVE  whole[k] = Performed(whole[k - 1], log[first + k - 1])
    <2>1. /\ k - 1 \in Nat /\ k \in 1 .. k /\ k - 1 <= k
          /\ k - 1 \in 0 .. k - 1
        OBVIOUS
    <2>2. /\ Performs(part(k), n, log, first, k)
          /\ Performs(part(k - 1), n, log, first, k - 1)
        BY <1>1, <2>1
    <2> HIDE DEF part
    <2>3. part(k - 1)[k - 1] = part(k)[k - 1]
        BY <2>1, <2>2, PerformsUnique
    <2>4. part(k)[k] = Performed(part(k)[k - 1], log[first + k - 1])
        BY <2>1, <2>2 DEF Performs
    <2> QED
        BY <2>1, <2>3, <2>4
<1>4. whole = [i \in Nat |-> Step(whole, i)]
    <2> HIDE DEF part
    <2>1. \A i \in Nat : whole[i] = Step(whole, i)
        BY <1>2, <1>3
    <2>2. whole = [i \in Nat |-> whole[i]]
        OBVIOUS
    <2> QED
        BY <2>1, <2>2
<1>5. f = CHOOSE g : g = [i \in Nat |-> Step(g, i)]
    BY DEF Performing
<1> HIDE DEF whole, f
<1>6. f = [i \in Nat |-> Step(f, i)]
    BY <1>4, <1>5
<1>7. f[0] = n
    BY <1>6
<1>8. ASSUME NEW i \in Nat
      PROVE  f[i + 1] = Performed(f[i], log[first + (i + 1) - 1])
    <2>1. i + 1 \in Nat /\ i + 1 # 0 /\ (i + 1) - 1 = i
        OBVIOUS
    <2>2. f[i + 1] = Step(f, i + 1)
        BY <1>6, <2>1
    <2> QED
        BY <2>1, <2>2
<1> QED
    BY <1>7, <1>8 DEF f

\* To perform m commands and then k more is to perform m + k.
LEMMA PerformingSplits ==
    ASSUME NEW n, NEW log, NEW m \in Nat, NEW k \in Nat
    PROVE  Performing(n, log, 0)[m + k]
            = Performing(Performing(n, log, 0)[m], log, m)[k]
<1> DEFINE f == Performing(n, log, 0)
           g == Performing(f[m], log, m)
           S == {i \in Nat : f[m + i] = g[i]}
<1>1. \A i \in Nat : f[i + 1] = Performed(f[i], log[0 + (i + 1) - 1])
    BY PerformingRecursion
<1>2. /\ g[0] = f[m]
      /\ \A i \in Nat :
            g[i + 1] = Performed(g[i], log[m + (i + 1) - 1])
    BY PerformingRecursion
<1> HIDE DEF f, g
<1>3. 0 \in S
    BY <1>2
<1>4. ASSUME NEW i \in Nat, i \in S PROVE i + 1 \in S
    <2>1. /\ m + i \in Nat /\ m + (i + 1) = (m + i) + 1
          /\ 0 + ((m + i) + 1) - 1 = m + (i + 1) - 1
        OBVIOUS
    <2>2. f[(m + i) + 1] = Performed(f[m + i], log[0 + ((m + i) + 1) - 1])
        BY <1>1, <2>1
    <2>3. g[i + 1] = Performed(g[i], log[m + (i + 1) - 1])
        BY <1>2
    <2>4. f[m + i] = g[i]
        BY <1>4
    <2>5. f[m + (i + 1)] = g[i + 1]
        BY <2>1, <2>2, <2>3, <2>4
    <2> QED
        BY <2>5
<1> HIDE DEF S
<1>5. Nat \subseteq S
    BY <1>3, <1>4, Induction
<1> QED
    BY <1>5 DEF S, f, g

\* Logs with the same commands make the same of a counter.
LEMMA PerformingSame ==
    ASSUME NEW n, NEW log, NEW other, NEW first \in Nat, NEW k \in Nat,
           \A x \in first .. first + k - 1 : log[x] = other[x]
    PROVE  Performing(n, log, first)[k] = Performing(n, other, first)[k]
<1> DEFINE f == Performing(n, log, first)
           g == Performing(n, other, first)
           S == {i \in Nat : i <= k => f[i] = g[i]}
<1>1. /\ f[0] = n
      /\ \A i \in Nat : f[i + 1] = Performed(f[i], log[first + (i + 1) - 1])
    BY PerformingRecursion
<1>2. /\ g[0] = n
      /\ \A i \in Nat : g[i + 1] = Performed(g[i], other[first + (i + 1) - 1])
    BY PerformingRecursion
<1> HIDE DEF f, g
<1>3. 0 \in S
    BY <1>1, <1>2
<1>4. ASSUME NEW i \in Nat, i \in S PROVE i + 1 \in S
    <2> SUFFICES ASSUME i + 1 <= k PROVE f[i + 1] = g[i + 1]
        OBVIOUS
    <2>1. first + (i + 1) - 1 \in first .. first + k - 1
        OBVIOUS
    <2>2. f[i] = g[i]
        BY <1>4
    <2> QED
        BY <1>1, <1>2, <2>1, <2>2
<1> HIDE DEF S
<1>5. Nat \subseteq S
    BY <1>3, <1>4, Induction
<1> QED
    BY <1>5 DEF S, f, g

\* A counter is a uint.
LEMMA PerformedTyped ==
    ASSUME NEW n \in 0 .. UintSize - 1, NEW cmd \in CmdOrUndef
    PROVE  Performed(n, cmd) \in 0 .. UintSize - 1
<1>1. CASE cmd # UndefCmd /\ cmd.type = "REPCOUNTER_INC"
    <2>1. cmd \in Cmd
        BY <1>1 DEF CmdOrUndef
    <2>2. cmd.arg \in 0 .. UintSize - 1
        BY <1>1, <2>1, UintAssumption
    <2>3. UintSize \in Nat \ {0} /\ n + cmd.arg \in Nat
        BY <2>2, UintAssumption
    <2>4. (n + cmd.arg) % UintSize \in 0 .. UintSize - 1
        BY <2>3
    <2> QED
        BY <1>1, <2>4 DEF Performed
<1>2. CASE ~(cmd # UndefCmd /\ cmd.type = "REPCOUNTER_INC")
    BY <1>2 DEF Performed
<1> QED
    BY <1>1, <1>2

LEMMA PerformingTyped ==
    ASSUME NEW n \in 0 .. UintSize - 1, NEW log, NEW first \in Nat,
           NEW k \in Nat,
           \A x \in first .. first + k - 1 : log[x] \in CmdOrUndef
    PROVE  Performing(n, log, first)[k] \in 0 .. UintSize - 1
<1> DEFINE f == Performing(n, log, first)
           S == {i \in Nat : i <= k => f[i] \in 0 .. UintSize - 1}
<1>1. /\ f[0] = n
      /\ \A i \in Nat : f[i + 1] = Performed(f[i], log[first + (i + 1) - 1])
    BY PerformingRecursion
<1> HIDE DEF f
<1>2. 0 \in S
    BY <1>1
<1>3. ASSUME NEW i \in Nat, i \in S PROVE i + 1 \in S
    <2> SUFFICES ASSUME i + 1 <= k PROVE f[i + 1] \in 0 .. UintSize - 1
        OBVIOUS
    <2>1. log[first + (i + 1) - 1] \in CmdOrUndef
        OBVIOUS
    <2>2. f[i] \in 0 .. UintSize - 1
        BY <1>3
    <2>3. Performed(f[i], log[first + (i + 1) - 1]) \in 0 .. UintSize - 1
        BY <2>1, <2>2, PerformedTyped
    <2> QED
        BY <1>1, <2>3
<1> HIDE DEF S
<1>4. Nat \subseteq S
    BY <1>2, <1>3, Induction
<1> QED
    BY <1>4 DEF S, f
-----------------------------------------------------------------------------
(***************************************************************************)
(* Why the replicas agree: a command that a quorum acknowledged is the one *)
(* in the register, a register is written once, and what a client holds at *)
(* an address it has executed never changes.                               *)
(***************************************************************************)
ExecutedHeld(c) ==
    /\ unexecuted[c] < LogSize
    /\ \A x \in 1 .. unexecuted[c] - 1 : Written(c, x)

ValueFits(c) ==
    ~Written(c, 0) /\ ExecutedSure(c) => value[c] = LogValue(unexecuted[c])

AgreeInv ==
    /\ WrittenOnce
    /\ value \in [Clients -> 0 .. UintSize - 1]
    /\ \A c \in Clients : SureWritten(c) /\ ExecutedHeld(c) /\ ValueFits(c)

LEMMA AgreeInit == CounterInit => AgreeInv
<1> SUFFICES ASSUME CounterInit PROVE AgreeInv
    OBVIOUS
<1>1. WrittenOnce
    BY DEF CounterInit, LogInit, RegistersInit, Registers!Init, WrittenOnce
<1>2. value \in [Clients -> 0 .. UintSize - 1]
    BY UintAssumption DEF CounterInit
<1>3. ASSUME NEW c \in Clients
      PROVE  SureWritten(c) /\ ExecutedHeld(c) /\ ValueFits(c)
    <2>1. unexecuted[c] = 0 /\ value[c] = 0 /\ \A x \in Addr : held[c][x] = {}
        BY DEF CounterInit, LogInit, RegistersInit
    <2>2. LogValue(0) = 0
        BY PerformingRecursion DEF LogValue
    <2> QED
        BY <2>1, <2>2, LogSizeAssumption
        DEF SureWritten, ExecutedHeld, ValueFits
<1> QED
    BY <1>1, <1>2, <1>3 DEF AgreeInv

\* What a step of the registers or of the indices does to what c has executed.
Settled(c) == \A x \in Addr : Written(c, x) => held'[c][x] = held[c][x]

LEMMA ValueKept ==
    ASSUME LogInv, AgreeInv, NEW c \in Clients, Settled(c),
           \A x \in Addr : register[x] # {} => register'[x] = register[x],
           unexecuted'[c] = unexecuted[c], value'[c] = value[c]
    PROVE  ExecutedHeld(c)' /\ ValueFits(c)'
<1> DEFINE n == unexecuted[c]
<1>1. n \in Nat /\ LogSize \in Nat /\ Addr = 0 .. LogSize - 1 /\ 0 \in Addr
    BY LogSizeAssumption DEF LogInv, IndicesTyped
<1>2. n < LogSize /\ \A x \in 1 .. n - 1 : x \in Addr /\ Written(c, x)
    BY <1>1 DEF AgreeInv, ExecutedHeld
<1>3. \A x \in 1 .. n - 1 : held'[c][x] = held[c][x]
    BY <1>2 DEF Settled
<1>4. ExecutedHeld(c)'
    BY <1>2, <1>3 DEF ExecutedHeld, Written
<1>5. ASSUME ~Written(c, 0)', ExecutedSure(c)'
      PROVE  value'[c] = LogValue(unexecuted[c])'
    <2>1. ~Written(c, 0)
        BY <1>1, <1>5 DEF Settled, Written
    <2>2. ExecutedSure(c)
        BY <1>3, <1>5 DEF ExecutedSure
    <2>3. value[c] = Performing(0, RegisterLog, 0)[n]
        BY <2>1, <2>2 DEF AgreeInv, ValueFits, LogValue
    <2>4. \A x \in 1 .. n - 1 : register'[x] = register[x]
        BY <1>2, <2>2 DEF ExecutedSure, Written, AgreeInv, SureWritten
    <2>5. \A x \in 0 .. 0 + n - 1 : RegisterLog[x] = RegisterLog'[x]
        BY <1>1, <1>2, <2>4 DEF RegisterLog
    <2> DEFINE log == RegisterLog
               other == RegisterLog'
    <2>6. /\ 0 \in Nat /\ n \in Nat
          /\ \A x \in 0 .. 0 + n - 1 : log[x] = other[x]
        BY <1>1, <2>5
    <2>7. /\ value'[c] = Performing(0, log, 0)[n]
          /\ LogValue(unexecuted[c])' = Performing(0, other, 0)[n]
        BY <2>3 DEF LogValue
    <2> HIDE DEF log, other, n
    <2>8. Performing(0, log, 0)[n] = Performing(0, other, 0)[n]
        BY <2>6, PerformingSame
    <2> QED
        BY <2>7, <2>8
<1> QED
    BY <1>4, <1>5 DEF ValueFits

LEMMA AgreeKept ==
    ASSUME LogInv, AgreeInv, UNCHANGED <<unexecuted, value>>, WrittenOnce',
           \A x \in Addr : register[x] # {} => register'[x] = register[x],
           \A c \in Clients : Settled(c) /\ SureWritten(c)'
    PROVE  AgreeInv'
BY ValueKept DEF AgreeInv

\* A step that leaves the registers and what clients hold of them.
LEMMA NothingLearnt ==
    ASSUME LogInv, AgreeInv, UNCHANGED <<unexecuted, value, register, held>>
    PROVE  AgreeInv'
<1>1. WrittenOnce' /\ \A c \in Clients : Settled(c) /\ SureWritten(c)'
    BY DEF AgreeInv, WrittenOnce, SureWritten, Settled
<1> QED
    BY <1>1, AgreeKept

LEMMA ExecuteAgrees ==
    ASSUME CounterInv, AgreeInv, NEW c \in Clients, Pending(c) # {},
           repcounter_execute_all_pending(c)
    PROVE  AgreeInv'
<1> DEFINE m == unexecuted[c]
           n == unwritten[c]
           log == [x \in Addr |-> NextCmd(c, x)]
<1>1. /\ m \in Nat /\ n \in Nat /\ m <= n /\ n < LogSize /\ n > 0
      /\ LogSize \in Nat /\ Addr = 0 .. LogSize - 1
      /\ unexecuted \in [Clients -> Nat]
    <2>1. LogInv /\ n \in 1 .. LogSize
        BY LastPending DEF CounterInv
    <2> QED
        BY <2>1, LogSizeAssumption DEF LogInv, IndicesTyped, IndicesOrdered
<1>2. Max(Pending(c)) = n - 1
    BY LastPending DEF CounterInv
<1>3. /\ UNCHANGED <<register, held>>
      /\ unexecuted' = [unexecuted EXCEPT ![c] = n]
      /\ value' = [value EXCEPT ![c] = Performing(value[c], log, m)[n - m]]
    BY <1>1, <1>2
    DEF repcounter_execute_all_pending, sharedlog_getnext, registerCallVars,
        registerVars, callVars, AgreeInv
<1>4. \A x \in 1 .. n - 1 : x \in Addr /\ Written(c, x)
    BY <1>1 DEF CounterInv, LogInv, PrefixWritten
<1>5. WrittenOnce' /\ \A d \in Clients : SureWritten(d)' /\ Settled(d)
    BY <1>3 DEF AgreeInv, WrittenOnce, SureWritten, Settled
<1>6. value'[c] = Performing(value[c], log, m)[n - m] /\ unexecuted'[c] = n
    BY <1>1, <1>3 DEF AgreeInv
<1>7. \A x \in m .. m + (n - m) - 1 : x \in Addr /\ log[x] \in CmdOrUndef
    <2> SUFFICES ASSUME NEW x \in m .. m + (n - m) - 1
                 PROVE  x \in Addr /\ NextCmd(c, x) \in CmdOrUndef
        OBVIOUS
    <2>1. x \in Addr
        BY <1>1
    <2>2. Written(c, x) => HeldCmd(c, x) \in CmdOrUndef
        BY <2>1
        DEF CounterInv, LogInv, RegistersTyped, HeldEntry, Written, HeldCmd
    <2> QED
        BY <2>1, <2>2 DEF NextCmd, CmdOrUndef
<1>8. value'[c] \in 0 .. UintSize - 1
    <2>1. n - m \in Nat /\ value[c] \in 0 .. UintSize - 1
        BY <1>1 DEF AgreeInv
    <2> HIDE DEF log
    <2> QED
        BY <1>1, <1>6, <1>7, <2>1, PerformingTyped
<1>9. ExecutedHeld(c)'
    BY <1>1, <1>3, <1>4, <1>6 DEF ExecutedHeld, Written
<1>10. ASSUME ~Written(c, 0), ExecutedSure(c)'
       PROVE  value'[c] = Performing(0, RegisterLog, 0)[n]
    <2>1. \A x \in 1 .. n - 1 : \A e \in held[c][x] : e.sure
        BY <1>3, <1>6, <1>10 DEF ExecutedSure
    <2>2. ExecutedSure(c)
        BY <1>1, <2>1 DEF ExecutedSure
    <2>3. value[c] = Performing(0, RegisterLog, 0)[m]
        BY <1>10, <2>2 DEF AgreeInv, ValueFits, LogValue
    <2>4. ASSUME NEW x \in m .. m + (n - m) - 1
          PROVE  log[x] = RegisterLog[x]
        <3>1. x \in Addr /\ log[x] = NextCmd(c, x)
            BY <1>7
        <3>2. CASE x = 0
            BY <1>10, <3>1, <3>2 DEF NextCmd, RegisterLog
        <3>3. CASE x # 0
            <4>1. x \in 1 .. n - 1
                BY <1>1, <3>3
            <4>2. NextCmd(c, x) = HeldCmd(c, x)
                BY <1>4, <4>1 DEF NextCmd
            <4>3. HeldCmd(c, x) \in register[x]
                BY <1>4, <2>1, <4>1
                DEF HeldCmd, Written, AgreeInv, SureWritten
            <4>4. \A v \in register[x] : v = HeldCmd(c, x)
                BY <3>1, <4>3 DEF AgreeInv, WrittenOnce
            <4>5. RegisterLog[x] = Only(register[x])
                BY <3>1, <3>3, <4>3 DEF RegisterLog
            <4>6. Only(register[x]) \in register[x]
                BY <4>3 DEF Only
            <4> QED
                BY <3>1, <4>2, <4>4, <4>5, <4>6
        <3> QED
            BY <3>2, <3>3
    <2> HIDE DEF log
    <2>5. PICK k \in Nat : k = n - m /\ m + k = n
        <3>1. n - m \in Nat /\ m + (n - m) = n
            BY <1>1
        <3> QED
            BY <3>1
    <2>6. m \in Nat /\ \A x \in m .. m + k - 1 : log[x] = RegisterLog[x]
        BY <1>1, <2>4, <2>5
    <2>7. value'[c] = Performing(value[c], log, m)[k]
        BY <1>6, <2>5
    <2> HIDE DEF m, n
    <2>8. Performing(value[c], log, m)[k]
            = Performing(value[c], RegisterLog, m)[k]
        BY <2>6, PerformingSame
    <2>9. Performing(0, RegisterLog, 0)[m + k]
            = Performing(Performing(0, RegisterLog, 0)[m], RegisterLog, m)[k]
        BY <2>6, PerformingSplits
    <2> QED
        BY <2>3, <2>5, <2>7, <2>8, <2>9
<1>11. ValueFits(c)'
    <2>1. RegisterLog' = RegisterLog
        BY <1>3 DEF RegisterLog
    <2>2. Written(c, 0)' <=> Written(c, 0)
        BY <1>3 DEF Written
    <2> QED
        BY <1>6, <1>10, <2>1, <2>2 DEF ValueFits, LogValue
<1>12. ASSUME NEW d \in Clients, d # c
       PROVE  ExecutedHeld(d)' /\ ValueFits(d)'
    <2>1. unexecuted'[d] = unexecuted[d] /\ value'[d] = value[d]
        BY <1>1, <1>3, <1>12 DEF AgreeInv
    <2> QED
        BY <1>3, <1>5, <1>12, <2>1, ValueKept DEF CounterInv
<1>13. value' \in [Clients -> 0 .. UintSize - 1]
    BY <1>3, <1>6, <1>8 DEF AgreeInv
<1> QED
    BY <1>5, <1>9, <1>11, <1>12, <1>13 DEF AgreeInv

LEMMA ProceedsAgrees ==
    ASSUME CounterInv, AgreeInv, NEW c \in Clients, Proceeds(c),
           UNCHANGED <<unexecuted, value>>
    PROVE  AgreeInv'
<1>1. OthersKeep(c) /\ UNCHANGED register
    BY ProceedsEffect DEF Effect, CounterInv, LogInv
<1>2. CallLearns(c)
    BY CallEffect DEF CounterInv, LogInv, AgreeInv
<1>3. Settled(c) /\ SureWritten(c)'
    BY <1>2 DEF CallLearns, Settled
<1>4. ASSUME NEW d \in Clients, d # c PROVE Settled(d) /\ SureWritten(d)'
    BY <1>1, <1>4 DEF OthersKeep, Settled, AgreeInv, SureWritten
<1>5. WrittenOnce'
    BY <1>1 DEF AgreeInv, WrittenOnce
<1> QED
    BY <1>1, <1>3, <1>4, <1>5, AgreeKept DEF CounterInv

LEMMA DecidedAgrees ==
    ASSUME CounterInv, AgreeInv, NEW x \in Addr, Decided(x)
    PROVE  AgreeInv'
<1>1. PICK v \in Cmd : Decide(x, v)
    BY DEF Decided
<1>2. UNCHANGED <<held, unexecuted, value>>
    BY <1>1 DEF Decided, Decide, callVars, logVars, indexVars, counterVars
<1>3. register[x] = {} /\ \A y \in Addr : y # x => register'[y] = register[y]
    BY <1>1 DEF Decide, Registers!Decide, CounterInv, LogInv, RegistersTyped
<1>4. WrittenOnce' /\ RegistersGrow
    BY <1>1, DecidedOnce, DecideEffect DEF AgreeInv, CounterInv, LogInv
<1>5. \A c \in Clients : Settled(c) /\ SureWritten(c)'
    BY <1>2, <1>4 DEF Settled, AgreeInv, SureWritten, RegistersGrow
<1> QED
    BY <1>2, <1>3, <1>4, <1>5, AgreeKept DEF CounterInv

LEMMA AgreeNextInv == CounterInv /\ AgreeInv /\ [CounterNext]_vars => AgreeInv'
<1> SUFFICES ASSUME CounterInv, AgreeInv, [CounterNext]_vars PROVE AgreeInv'
    OBVIOUS
<1>1. CASE UNCHANGED vars
    BY <1>1, NothingLearnt
    DEF CounterInv, vars, sharedLogVars, registerCallVars, registerVars,
        callVars, logVars, indexVars, counterVars
<1>2. ASSUME NEW x \in Addr, Decided(x) PROVE AgreeInv'
    BY <1>2, DecidedAgrees
<1>3. ASSUME NEW c \in Clients, Call(c) PROVE AgreeInv'
    <2>1. PICK cmd \in Cmd : Try(c, cmd)
        BY <1>3, CallCommand DEF Call, sharedlog_append, CounterInv
    <2>2. UNCHANGED <<register, held>>
        BY <2>1, TryKeeps DEF CounterInv
    <2> QED
        BY <1>3, <2>2, NothingLearnt DEF Call, sharedlog_append, CounterInv
<1>4. ASSUME NEW c \in Clients, LogRuns(c) PROVE AgreeInv'
    <2>1. CASE Proceeds(c) /\ UNCHANGED logVars
        BY <1>4, <2>1, ProceedsAgrees DEF LogRuns, logVars, indexVars
    <2>2. CASE AppendRetries(c)
        <3>1. appending[c] \in Cmd /\ Try(c, appending[c])
            BY <2>2 DEF AppendRetries, CounterInv, LogInv, AppendsTyped,
               CmdOrUndef, Appending
        <3>2. UNCHANGED <<register, held>>
            BY <3>1, TryKeeps DEF CounterInv
        <3> QED
            BY <1>4, <2>2, <3>2, NothingLearnt
            DEF LogRuns, AppendRetries, CounterInv
    <2> QED
        BY <1>4, <2>1, <2>2 DEF LogRuns
<1>5. ASSUME NEW c \in Clients, Appended(c) PROVE AgreeInv'
    BY <1>5, NothingLearnt
    DEF Appended, AppendReturns, registerCallVars, registerVars, callVars,
        CounterInv
<1>6. ASSUME NEW c \in Clients, repcounter_execute_all_pending(c)
      PROVE  AgreeInv'
    <2>1. CASE Pending(c) # {}
        BY <1>6, <2>1, ExecuteAgrees
    <2>2. CASE Pending(c) = {}
        BY <1>6, <2>2, NothingLearnt
        DEF repcounter_execute_all_pending, sharedLogVars, registerCallVars,
            registerVars, callVars, logVars, indexVars, CounterInv
    <2> QED
        BY <2>1, <2>2
<1> QED
    BY <1>1, <1>2, <1>3, <1>4, <1>5, <1>6 DEF CounterNext, Runs

(***************************************************************************)
(* A counter whose written addresses quorums acknowledged has the value of *)
(* the log prefix it has executed, each command counted once, in a uint:   *)
(* two such counters that executed as much have the same value             *)
(* (counter_perform_cmd, repcounter_execute_all_pending).                  *)
(***************************************************************************)
THEOREM ReplicasStayEqual == CounterSpec => []ReplicasAgree
<1>1. AgreeInv => ReplicasAgree
    BY DEF AgreeInv, ValueFits, ReplicasAgree
<1> QED
    BY <1>1, AgreeInit, AgreeNextInv, CounterInvariance, PTL DEF CounterSpec

(***************************************************************************)
(* A call of repcounter_read or repcounter_inc that returns OK leaves the  *)
(* counter with the value of a log prefix longer than the one that was     *)
(* written when it began, if no append of the client failed before, its    *)
(* last address was unwritten when it called wor_capture_and_write, and    *)
(* quorums acknowledged to it all it has executed.                         *)
(***************************************************************************)
THEOREM ReadsUpToDate == CounterSpec => []UpToDateIfFirst
<1>1. ASSUME CounterInv, AgreeInv PROVE UpToDateIfFirst
    <2> SUFFICES ASSUME NEW c \in Clients, ReturnedOK(c), ~failed[c],
                        before[c] = {}, unwritten[c] # 0, ExecutedSure(c)
                 PROVE  /\ seen[c] + 1 < unexecuted[c]
                        /\ value[c] = LogValue(unexecuted[c])
        BY DEF UpToDateIfFirst
    <2>1. unwritten[c] = blank[c] /\ unexecuted[c] = blank[c] /\ blank[c] > 1
        BY <1>1 DEF CounterInv, CallInv, ReturnedOK
    <2>2. ~LogFull(c)
        BY <1>1, <2>1 DEF CounterInv, LogInv, IndicesTyped, LogFull
    <2>3. seen[c] + 1 < unexecuted[c]
        BY <1>1, <2>1, <2>2 DEF CounterInv, CallInv
    <2>4. 0 \in Addr
        BY LogSizeAssumption
    <2>5. ~Written(c, 0)
        BY <1>1, <2>2, <2>4 DEF CounterInv, LogInv, FreshUntilFull, Touched
    <2> QED
        BY <1>1, <2>3, <2>5 DEF AgreeInv, ValueFits
<1> QED
    BY <1>1, AgreeInit, AgreeNextInv, CounterInvariance, PTL DEF CounterSpec
-----------------------------------------------------------------------------
\* What CounterTypeOK says beyond CounterInv and AgreeInv.
CallsCounted ==
    /\ \A x \in Addr : register[x] \subseteq proposed[x]
    /\ \A c \in Clients : done[c] \in 0 .. Len(Program[c])
    /\ \A c \in Clients : Appending(c) <=> phase[c] = "append"

LEMMA ProgramLength == \A c \in Clients : Len(Program[c]) \in Nat
<1> SUFFICES ASSUME NEW c \in Clients PROVE Len(Program[c]) \in Nat
    OBVIOUS
<1>1. Program[c] \in Seq(Cmd)
    BY ProgramAssumption
<1> QED
    BY <1>1

LEMMA CountedInit == CounterInit => CallsCounted
<1> SUFFICES ASSUME CounterInit PROVE CallsCounted
    OBVIOUS
<1>1. /\ \A x \in Addr : register[x] = {}
      /\ \A c \in Clients : /\ done[c] = 0 /\ phase[c] = "idle"
                            /\ appending[c] = UndefCmd
    BY DEF CounterInit, LogInit, RegistersInit, Registers!Init
<1>2. \A c \in Clients : Len(Program[c]) \in Nat
    BY ProgramLength
<1> QED
    BY <1>1, <1>2 DEF CallsCounted, Appending

LEMMA CountedNext ==
    CounterInv /\ CallsCounted /\ [CounterNext]_vars => CallsCounted'
<1> SUFFICES ASSUME CounterInv, CallsCounted, [CounterNext]_vars
             PROVE  CallsCounted'
    OBVIOUS
<1>1. \A c \in Clients : Len(Program[c]) \in Nat
    BY ProgramLength
<1>2. /\ phase \in [Clients -> {"idle", "append", "execute"}]
      /\ done \in [Clients -> Nat]
      /\ appending \in [Clients -> CmdOrUndef]
    BY DEF CounterInv, CallsTyped, LogInv, AppendsTyped
<1>3. [LogNext]_sharedLogVars /\ RegistersTyped
    BY CounterStepIsLogStep DEF CounterInv, LogInv
<1>4. \A x \in Addr : register'[x] \subseteq proposed'[x]
    <2>1. CASE Decides \/ \E c \in Clients : Proceeds(c)
        BY <1>3, <2>1, ProposedFirst DEF CallsCounted
    <2>2. CASE UNCHANGED registerVars
        BY <1>3, <2>2, ProposedFirst DEF CallsCounted
    <2>3. ASSUME NEW c \in Clients, NEW cmd \in Cmd, Try(c, cmd)
          PROVE  UNCHANGED registerVars
        BY <2>3 DEF Try, wor_capture_and_write, Called
    <2>4. \A c \in Clients : AppendRetries(c) => appending[c] \in Cmd
        BY <1>2 DEF AppendRetries, Appending, CmdOrUndef
    <2> QED
        BY <1>3, <2>1, <2>2, <2>3, <2>4
        DEF LogNext, sharedlog_append, AppendRetries, AppendReturns,
            sharedlog_getnext, registerCallVars, sharedLogVars
<1>5. CASE UNCHANGED vars
    BY <1>4, <1>5
    DEF CallsCounted, vars, counterVars, sharedLogVars, logVars, Appending
<1>6. ASSUME NEW x \in Addr, Decided(x) PROVE CallsCounted'
    BY <1>4, <1>6 DEF CallsCounted, Decided, counterVars, logVars, Appending
<1>7. ASSUME NEW c \in Clients, Call(c) PROVE CallsCounted'
    <2>1. Program[c][done[c] + 1] \in Cmd /\ done[c] < Len(Program[c])
        BY <1>7, CallCommand DEF Call, CounterInv
    <2>2. /\ appending' = [appending EXCEPT ![c] = Program[c][done[c] + 1]]
          /\ phase' = [phase EXCEPT ![c] = "append"]
          /\ done' = [done EXCEPT ![c] = @ + 1]
        BY <1>7 DEF Call, sharedlog_append
    <2>3. \A d \in Clients : Appending(d)' <=> phase'[d] = "append"
        BY <1>2, <2>1, <2>2, UndefCmdAssumption DEF CallsCounted, Appending
    <2>4. \A d \in Clients : done'[d] \in 0 .. Len(Program[d])
        BY <1>1, <1>2, <2>1, <2>2 DEF CallsCounted
    <2> QED
        BY <1>4, <2>2, <2>3, <2>4 DEF CallsCounted
<1>8. ASSUME NEW c \in Clients, LogRuns(c) PROVE CallsCounted'
    <2>1. UNCHANGED <<phase, done, appending>>
        BY <1>8 DEF LogRuns, logVars, AppendRetries
    <2> QED
        BY <1>4, <2>1 DEF CallsCounted, Appending
<1>9. ASSUME NEW c \in Clients, Appended(c) PROVE CallsCounted'
    <2>1. /\ appending' = [appending EXCEPT ![c] = UndefCmd]
          /\ \E p \in {"execute", "idle"} : phase' = [phase EXCEPT ![c] = p]
          /\ UNCHANGED done
        BY <1>9 DEF Appended, AppendReturns
    <2>2. \A d \in Clients : Appending(d)' <=> phase'[d] = "append"
        BY <1>2, <2>1 DEF CallsCounted, Appending
    <2> QED
        BY <1>4, <2>1, <2>2 DEF CallsCounted
<1>10. ASSUME NEW c \in Clients, repcounter_execute_all_pending(c)
       PROVE  CallsCounted'
    <2>1. /\ phase[c] = "execute" /\ phase' = [phase EXCEPT ![c] = "idle"]
          /\ UNCHANGED <<done, appending>>
        BY <1>10 DEF repcounter_execute_all_pending, sharedlog_getnext,
           sharedLogVars, logVars
    <2>2. \A d \in Clients : Appending(d)' <=> phase'[d] = "append"
        BY <1>2, <2>1 DEF CallsCounted, Appending
    <2> QED
        BY <1>4, <2>1, <2>2 DEF CallsCounted
<1> QED
    BY <1>5, <1>6, <1>7, <1>8, <1>9, <1>10 DEF CounterNext, Runs

(***************************************************************************)
(* A counter is a uint whatever it performs, a client is in                *)
(* sharedlog_append exactly while its call waits for it, and makes no more *)
(* calls than its main has (client.c, repcounter0.c).                      *)
(***************************************************************************)
THEOREM CounterTyped == CounterSpec => []CounterTypeOK
<1>1. CounterInv /\ AgreeInv /\ CallsCounted => CounterTypeOK
    BY DEF CounterInv, CallsTyped, AgreeInv, CallsCounted, CounterTypeOK
<1> QED
    BY <1>1, AgreeInit, AgreeNextInv, CountedInit, CountedNext,
       CounterInvariance, PTL
    DEF CounterSpec
=============================================================================
