-------------------------- MODULE SharedLogProofs --------------------------
(***************************************************************************)
(* The indices of the shared log, for every log size, any number of        *)
(* clients and whatever the calls of the registers answer.  The invariant  *)
(* has to say more than the three properties: a client whose               *)
(* first_unwritten_addr wrapped to 0 holds the whole log, or else it could *)
(* leave 0 again and hand out what it has handed out before.  What is held *)
(* below first_unwritten_addr then follows from what any call may leave    *)
(* (KnownInv of RegisterTypes).                                            *)
(***************************************************************************)
EXTENDS SharedLog, RegisterTypes

IndicesTyped ==
    /\ unexecuted \in [Clients -> Nat]
    /\ unwritten \in [Clients -> Nat]
    /\ blank \in [Clients -> Nat]
    /\ \A c \in Clients : unwritten[c] < LogSize

AppendsTyped ==
    /\ appending \in [Clients -> CmdOrUndef]
    /\ appended \in [Clients -> {"none", "OK", "UNKNOWNERROR"}]

WrappedHoldsAll ==
    \A c \in Clients :
        unwritten[c] = 0 => \A x \in 1 .. LogSize - 1 : Written(c, x)

\* is_written is set below first_unwritten_addr.
PrefixWritten ==
    \A c \in Clients : \A x \in 1 .. unwritten[c] - 1 : Written(c, x)

LogInv ==
    /\ RegistersTyped
    /\ IndicesTyped
    /\ AppendsTyped
    /\ IndicesOrdered
    /\ PrefixWritten
    /\ FreshUntilFull
    /\ WrappedHoldsAll
-----------------------------------------------------------------------------
LEMMA LogInitInv == LogInit => LogInv
<1> SUFFICES ASSUME LogInit PROVE LogInv
    OBVIOUS
<1>1. RegistersTyped
    BY RegistersInitTyped DEF LogInit
<1>2. \A c \in Clients : ~Busy(c) /\ \A x \in Addr : ~Written(c, x)
    BY DEF LogInit, RegistersInit, Busy, NoCall, Written
<1>3. IndicesTyped /\ AppendsTyped /\ IndicesOrdered /\ WrappedHoldsAll
    BY LogSizeAssumption
    DEF LogInit, IndicesTyped, AppendsTyped, IndicesOrdered, WrappedHoldsAll,
        LogFull, CmdOrUndef
<1>4. PrefixWritten
    BY DEF LogInit, PrefixWritten
<1>5. FreshUntilFull
    BY <1>2 DEF FreshUntilFull, Touched
<1> QED
    BY <1>1, <1>3, <1>4, <1>5 DEF LogInv

\* What a client knows to be written only grows, and it learns nothing of an
\* address but that of the call it is in.
Learns(c) ==
    /\ \A x \in Addr : Written(c, x) => Written(c, x)'
    /\ \A x \in Addr :
        Written(c, x)' => Written(c, x) \/ (Busy(c) /\ x = doing[c].addr)
    /\ Busy(c)' => Busy(c) /\ doing'[c].addr = doing[c].addr

\* The call of the registers goes on, and the log is not concerned.
LEMMA RegisterStepInv ==
    ASSUME LogInv, RegistersTyped', UNCHANGED logVars,
           \A c \in Clients : Learns(c)
    PROVE  LogInv'
<1>1. UNCHANGED <<unexecuted, unwritten, blank, appending, appended>>
    BY DEF logVars, indexVars
<1>2. IndicesTyped' /\ AppendsTyped' /\ IndicesOrdered'
    BY <1>1 DEF LogInv, IndicesTyped, AppendsTyped, IndicesOrdered, LogFull
<1>3. PrefixWritten'
    <2> SUFFICES ASSUME NEW c \in Clients, NEW x \in 1 .. unwritten[c] - 1
                 PROVE  Written(c, x)'
        BY <1>1 DEF PrefixWritten
    <2>1. Written(c, x) /\ x \in Addr
        BY LogSizeAssumption DEF LogInv, PrefixWritten, IndicesTyped
    <2> QED
        BY <2>1 DEF Learns
<1>4. WrappedHoldsAll'
    <2> SUFFICES ASSUME NEW c \in Clients, unwritten[c] = 0,
                        NEW x \in 1 .. LogSize - 1
                 PROVE  Written(c, x)'
        BY <1>1 DEF WrappedHoldsAll
    <2>1. Written(c, x) /\ x \in Addr
        BY LogSizeAssumption DEF LogInv, WrappedHoldsAll
    <2> QED
        BY <2>1 DEF Learns
<1>5. FreshUntilFull'
    <2> SUFFICES ASSUME NEW c \in Clients, NEW x \in Addr, Touched(c, x)'
                 PROVE  IF x = 0 THEN LogFull(c) ELSE x < blank[c]
        BY <1>1 DEF FreshUntilFull, LogFull
    <2>1. Touched(c, x)
        BY DEF Learns, Touched
    <2> QED
        BY <2>1 DEF LogInv, FreshUntilFull
<1> QED
    BY <1>2, <1>3, <1>4, <1>5 DEF LogInv

LEMMA ProceedsLearns ==
    ASSUME RegistersTyped, NEW c \in Clients, Proceeds(c)
    PROVE  \A d \in Clients : Learns(d)
<1>1. OthersKeep(c) /\ Busy(c) /\ CallGoesOn(c)
    BY ProceedsEffect DEF Effect
<1>2. Learns(c)
    BY <1>1 DEF Learns, CallGoesOn, Busy, Written, NoCall
<1>3. ASSUME NEW d \in Clients, d # c PROVE Learns(d)
    BY <1>1, <1>3 DEF OthersKeep, Learns, Busy, Written
<1> QED
    BY <1>2, <1>3

LEMMA DecidesInv ==
    ASSUME LogInv, Decides, UNCHANGED logVars
    PROVE  LogInv'
<1>1. RegistersTyped' /\ UNCHANGED callVars
    BY DecideEffect DEF Decides, LogInv
<1>2. \A c \in Clients : Learns(c)
    BY <1>1 DEF callVars, Learns, Busy, Written
<1> QED
    BY <1>1, <1>2, RegisterStepInv
-----------------------------------------------------------------------------
\* c's first_unwritten_addr moves on to y, or wraps to 0.
Reaches(c, y) ==
    /\ unwritten' = [unwritten EXCEPT ![c] = y]
    /\ y <= blank[c]
    /\ unwritten[c] = 0 => y = 0
    /\ y # 0 => unwritten[c] <= y /\ ~Written(c, y)
    /\ \A x \in 1 .. y - 1 : Written(c, x)
    /\ y = 0 => LogFull(c) /\ \A x \in 1 .. LogSize - 1 : Written(c, x)

\* update_first_unwritten_addr never passes first_blank_addr, and stays at 0
\* once it is there.
LEMMA UpdateEffect ==
    ASSUME LogInv, NEW c \in Clients, update_first_unwritten_addr(c)
    PROVE  \E y \in 0 .. LogSize - 1 : Reaches(c, y)
<1>1. /\ unwritten[c] \in Nat /\ blank[c] \in Nat
      /\ unwritten[c] < LogSize /\ LogSize \in Nat /\ LogSize > 1
      /\ blank[c] <= LogSize
    BY LogSizeAssumption DEF LogInv, IndicesTyped, IndicesOrdered
<1>2. PICK y \in unwritten[c] .. LogSize :
        /\ \A x \in unwritten[c] .. y - 1 : Written(c, x)
        /\ y < LogSize => ~Written(c, y)
        /\ unwritten' = [unwritten EXCEPT ![c] = IF y = LogSize THEN 0 ELSE y]
    BY DEF update_first_unwritten_addr
<1>3. \A x \in 1 .. unwritten[c] - 1 : Written(c, x)
    BY DEF LogInv, PrefixWritten
<1>4. \A x \in 1 .. y - 1 : Written(c, x)
    BY <1>1, <1>2, <1>3
<1>5. y <= blank[c]
    <2> SUFFICES ASSUME blank[c] < y PROVE FALSE
        BY <1>1, <1>2
    <2>1. ~Written(c, blank[c])
        <3>1. blank[c] \in Addr /\ blank[c] # 0
            BY <1>1, <1>2, LogSizeAssumption DEF LogInv, IndicesOrdered
        <3>2. ~(blank[c] < blank[c])
            BY <1>1
        <3> QED
            BY <3>1, <3>2 DEF LogInv, FreshUntilFull, Touched
    <2>2. blank[c] \in 1 .. y - 1
        BY <1>1, <1>2 DEF LogInv, IndicesOrdered
    <2> QED
        BY <1>4, <2>1, <2>2
<1>6. unwritten[c] = 0 => y = 0 \/ y = LogSize
    <2> SUFFICES ASSUME unwritten[c] = 0, y # 0, y # LogSize PROVE FALSE
        OBVIOUS
    <2>1. y \in 1 .. LogSize - 1 /\ ~Written(c, y)
        BY <1>1, <1>2
    <2> QED
        BY <2>1 DEF LogInv, WrappedHoldsAll
<1>7. CASE y = LogSize
    <2>1. LogFull(c) /\ \A x \in 1 .. LogSize - 1 : Written(c, x)
        BY <1>1, <1>4, <1>5, <1>7 DEF LogFull
    <2>2. Reaches(c, 0) /\ 0 \in 0 .. LogSize - 1
        BY <1>1, <1>2, <1>7, <2>1 DEF Reaches
    <2> QED
        BY <2>2
<1>8. CASE y = 0
    <2>1. unwritten[c] = 0
        BY <1>1, <1>2, <1>8
    <2>2. LogFull(c) /\ \A x \in 1 .. LogSize - 1 : Written(c, x)
        BY <2>1 DEF LogInv, IndicesOrdered, WrappedHoldsAll
    <2>3. Reaches(c, 0) /\ 0 \in 0 .. LogSize - 1
        BY <1>1, <1>2, <1>8, <2>2 DEF Reaches
    <2> QED
        BY <2>3
<1>9. CASE y # 0 /\ y # LogSize
    <2>1. y \in 0 .. LogSize - 1
        BY <1>1, <1>2, <1>9
    <2>2. Reaches(c, y)
        BY <1>1, <1>2, <1>4, <1>5, <1>6, <1>9 DEF Reaches
    <2> QED
        BY <2>1, <2>2
<1> QED
    BY <1>7, <1>8, <1>9

\* After an update, or without one, the prefix is what it should be.
LEMMA PrefixInv ==
    ASSUME LogInv, NEW c \in Clients,
           update_first_unwritten_addr(c) \/ UNCHANGED unwritten,
           UNCHANGED <<unexecuted, held>>,
           \A d \in Clients : /\ blank'[d] \in Nat
                              /\ blank[d] <= blank'[d]
                              /\ blank'[d] <= LogSize
    PROVE  /\ unwritten' \in [Clients -> Nat]
           /\ \A d \in Clients : unwritten'[d] < LogSize
           /\ IndicesOrdered'
           /\ PrefixWritten'
           /\ WrappedHoldsAll'
<1>1. \A d \in Clients : LogFull(d) => LogFull(d)'
    BY LogSizeAssumption DEF LogFull, LogInv, IndicesTyped
<1>2. /\ unexecuted \in [Clients -> Nat] /\ unwritten \in [Clients -> Nat]
      /\ blank \in [Clients -> Nat] /\ LogSize \in Nat
      /\ \A d \in Clients : unwritten[d] < LogSize
    BY LogSizeAssumption DEF LogInv, IndicesTyped
<1>3. CASE UNCHANGED unwritten
    BY <1>1, <1>2, <1>3
    DEF LogInv, IndicesOrdered, PrefixWritten, WrappedHoldsAll, Written
<1>4. CASE update_first_unwritten_addr(c)
    <2>1. PICK y \in 0 .. LogSize - 1 : Reaches(c, y)
        BY <1>4, UpdateEffect
    <2>2. IndicesOrdered'
        BY <1>1, <1>2, <2>1 DEF Reaches, LogInv, IndicesOrdered
    <2>3. PrefixWritten'
        BY <1>2, <2>1 DEF Reaches, LogInv, PrefixWritten, Written
    <2>4. WrappedHoldsAll'
        BY <1>2, <2>1 DEF Reaches, LogInv, WrappedHoldsAll, Written
    <2> QED
        BY <1>2, <2>1, <2>2, <2>3, <2>4 DEF Reaches
<1> QED
    BY <1>3, <1>4

LEMMA TryInv ==
    ASSUME LogInv, NEW c \in Clients, NEW cmd \in Cmd, Try(c, cmd),
           update_first_unwritten_addr(c) \/ UNCHANGED unwritten,
           UNCHANGED unexecuted, AppendsTyped'
    PROVE  LogInv'
<1>1. PICK x \in Addr :
        fetch_and_inc_first_blank_addr(c, x) /\ wor_capture_and_write(c, x, cmd)
    BY DEF Try
<1>2. /\ RegistersTyped'
      /\ UNCHANGED held
      /\ OthersKeep(c)
      /\ doing'[c] = [op |-> "write", addr |-> x, cmd |-> cmd]
    BY <1>1, WriteCallEffect DEF LogInv
<1>3. /\ blank \in [Clients -> Nat] /\ LogSize \in Nat /\ LogSize > 1
      /\ x \in Nat
      /\ 1 <= blank[c] /\ blank[c] <= LogSize
      /\ \A d \in Clients : blank[d] <= LogSize
    BY LogSizeAssumption DEF LogInv, IndicesTyped, IndicesOrdered
<1>4. /\ blank' \in [Clients -> Nat]
      /\ x < blank'[c]
      /\ \A d \in Clients \ {c} : blank'[d] = blank[d]
      /\ \A d \in Clients : blank[d] <= blank'[d] /\ blank'[d] <= LogSize
      /\ x = 0 => LogFull(c)
    BY <1>1, <1>3 DEF fetch_and_inc_first_blank_addr, LogFull
<1>5. FreshUntilFull'
    <2>1. \A d \in Clients : LogFull(d) => LogFull(d)'
        BY <1>3, <1>4 DEF LogFull
    <2> SUFFICES ASSUME NEW d \in Clients, NEW y \in Addr, Touched(d, y)'
                 PROVE  IF y = 0 THEN LogFull(d)' ELSE y < blank'[d]
        BY DEF FreshUntilFull
    <2>2. CASE Touched(d, y)
        <3>1. y \in Nat /\ IF y = 0 THEN LogFull(d) ELSE y < blank[d]
            BY <2>2, LogSizeAssumption DEF LogInv, FreshUntilFull
        <3> QED
            BY <1>3, <1>4, <2>1, <3>1
    <2>3. CASE ~Touched(d, y)
        <3>1. ~Written(d, y)'
            BY <1>2, <2>3 DEF Touched, Written
        <3>2. d = c
            BY <1>2, <2>3, <3>1 DEF Touched, OthersKeep, Busy
        <3>3. y = x
            BY <1>2, <3>1, <3>2 DEF Touched
        <3> QED
            BY <1>4, <2>1, <3>2, <3>3
    <2> QED
        BY <2>2, <2>3
<1>6. /\ unwritten' \in [Clients -> Nat]
      /\ \A d \in Clients : unwritten'[d] < LogSize
      /\ IndicesOrdered'
      /\ PrefixWritten'
      /\ WrappedHoldsAll'
    BY <1>2, <1>4, PrefixInv
<1>7. IndicesTyped'
    BY <1>4, <1>6 DEF LogInv, IndicesTyped
<1> QED
    BY <1>2, <1>5, <1>6, <1>7 DEF LogInv
-----------------------------------------------------------------------------
LEMMA AppendInv ==
    ASSUME LogInv, NEW c \in Clients, NEW cmd \in Cmd, sharedlog_append(c, cmd)
    PROVE  LogInv'
<1>1. AppendsTyped'
    BY DEF sharedlog_append, LogInv, AppendsTyped, CmdOrUndef
<1> QED
    BY <1>1, TryInv DEF sharedlog_append

LEMMA AppendRetriesInv ==
    ASSUME LogInv, NEW c \in Clients, AppendRetries(c)
    PROVE  LogInv'
<1>1. AppendsTyped' /\ appending[c] \in Cmd
    BY DEF AppendRetries, LogInv, AppendsTyped, CmdOrUndef, Appending
<1> QED
    BY <1>1, TryInv DEF AppendRetries

LEMMA AppendReturnsInv ==
    ASSUME LogInv, NEW c \in Clients, NEW st \in {"OK", "UNKNOWNERROR"},
           AppendReturns(c, st)
    PROVE  LogInv'
<1>1. /\ UNCHANGED registerCallVars
      /\ UNCHANGED <<unexecuted, blank, held, doing>>
    BY DEF AppendReturns, registerCallVars, callVars
<1>2. AppendsTyped'
    BY DEF AppendReturns, LogInv, AppendsTyped, CmdOrUndef
<1>3. \A d \in Clients : blank'[d] \in Nat /\ blank'[d] <= LogSize
                         /\ blank[d] <= blank'[d]
    BY <1>1, LogSizeAssumption DEF LogInv, IndicesTyped, IndicesOrdered
<1>4. /\ unwritten' \in [Clients -> Nat]
      /\ \A d \in Clients : unwritten'[d] < LogSize
      /\ IndicesOrdered'
      /\ PrefixWritten'
      /\ WrappedHoldsAll'
    BY <1>1, <1>3, PrefixInv DEF AppendReturns
<1>5. IndicesTyped'
    BY <1>1, <1>4 DEF LogInv, IndicesTyped
<1>6. FreshUntilFull'
    BY <1>1 DEF LogInv, FreshUntilFull, Touched, Written, Busy, LogFull
<1> QED
    BY <1>1, <1>2, <1>4, <1>5, <1>6, RegistersKept DEF LogInv

LEMMA GetnextInv ==
    ASSUME LogInv, NEW c \in Clients, NEW n \in Nat, sharedlog_getnext(c, n)
    PROVE  LogInv'
<1>1. /\ UNCHANGED registerCallVars
      /\ UNCHANGED <<unwritten, blank, appending, appended, held, doing>>
      /\ unexecuted' = [unexecuted EXCEPT ![c] = n]
    BY DEF sharedlog_getnext, registerCallVars, callVars
<1>2. n <= unwritten[c] /\ unexecuted' \in [Clients -> Nat]
    BY <1>1 DEF sharedlog_getnext, Pending, LogInv, IndicesTyped
<1>3. IndicesTyped' /\ AppendsTyped'
    BY <1>1, <1>2 DEF LogInv, IndicesTyped, AppendsTyped
<1>4. IndicesOrdered'
    BY <1>1, <1>2 DEF LogInv, IndicesTyped, IndicesOrdered, LogFull
<1>5. PrefixWritten' /\ WrappedHoldsAll' /\ FreshUntilFull'
    BY <1>1
    DEF LogInv, PrefixWritten, WrappedHoldsAll, FreshUntilFull, Touched,
        Written, Busy, LogFull
<1> QED
    BY <1>1, <1>3, <1>4, <1>5, RegistersKept DEF LogInv

LEMMA LogNextInv == LogInv /\ [LogNext]_sharedLogVars => LogInv'
<1> SUFFICES ASSUME LogInv, [LogNext]_sharedLogVars PROVE LogInv'
    OBVIOUS
<1>1. CASE UNCHANGED sharedLogVars
    <2>1. UNCHANGED <<registerCallVars, logVars>>
        BY <1>1 DEF sharedLogVars
    <2>2. \A c \in Clients : Learns(c)
        BY <2>1 DEF registerCallVars, callVars, Learns, Busy, Written
    <2> QED
        BY <2>1, <2>2, RegisterStepInv, RegistersKept DEF LogInv
<1>2. CASE Decides /\ UNCHANGED logVars
    BY <1>2, DecidesInv
<1>3. ASSUME NEW c \in Clients, Proceeds(c), UNCHANGED logVars PROVE LogInv'
    BY <1>3, ProceedsLearns, ProceedsEffect, RegisterStepInv DEF Effect, LogInv
<1>4. ASSUME NEW c \in Clients, NEW cmd \in Cmd, sharedlog_append(c, cmd)
      PROVE  LogInv'
    BY <1>4, AppendInv
<1>5. ASSUME NEW c \in Clients, AppendRetries(c) PROVE LogInv'
    BY <1>5, AppendRetriesInv
<1>6. ASSUME NEW c \in Clients, NEW st \in {"OK", "UNKNOWNERROR"},
             AppendReturns(c, st)
      PROVE  LogInv'
    BY <1>6, AppendReturnsInv
<1>7. ASSUME NEW c \in Clients, NEW n \in 1 .. LogSize, sharedlog_getnext(c, n)
      PROVE  LogInv'
    BY <1>7, GetnextInv
<1> QED
    BY <1>1, <1>2, <1>3, <1>4, <1>5, <1>6, <1>7 DEF LogNext
-----------------------------------------------------------------------------
(***************************************************************************)
(* The log touches the registers through calls of wor_capture_and_write    *)
(* and wor_read only, so whatever holds of the registers holds under it.   *)
(***************************************************************************)
THEOREM LogUsesRegisters == LogSpec => RegistersSpec
<1>1. LogInit => RegistersInit
    BY DEF LogInit
<1>2. ASSUME LogInv, [LogNext]_sharedLogVars
      PROVE  UNCHANGED registerCallVars \/ RegistersNext
    <2>1. ASSUME NEW c \in Clients, NEW v \in Cmd, Try(c, v)
          PROVE  RegistersNext
        BY <2>1 DEF Try, RegistersNext, Calls
    <2>2. CASE UNCHANGED sharedLogVars
        BY <2>2 DEF sharedLogVars
    <2>3. CASE Decides \/ \E c \in Clients : Proceeds(c)
        BY <2>3 DEF RegistersNext
    <2>4. ASSUME NEW c \in Clients, NEW v \in Cmd, sharedlog_append(c, v)
          PROVE  RegistersNext
        BY <2>1, <2>4 DEF sharedlog_append
    <2>5. ASSUME NEW c \in Clients, AppendRetries(c)
          PROVE  RegistersNext
        BY <1>2, <2>1, <2>5
        DEF LogInv, AppendRetries, Appending, AppendsTyped, CmdOrUndef
    <2>6. ASSUME NEW c \in Clients,
                 \/ \E st \in {"OK", "UNKNOWNERROR"} : AppendReturns(c, st)
                 \/ \E n \in 1 .. LogSize : sharedlog_getnext(c, n)
          PROVE  UNCHANGED registerCallVars
        BY <2>6 DEF AppendReturns, sharedlog_getnext
    <2> QED
        BY <1>2, <2>2, <2>3, <2>4, <2>5, <2>6 DEF LogNext
<1> QED
    BY <1>1, <1>2, LogInitInv, LogNextInv, PTL DEF LogSpec, RegistersSpec

\* What a client holds below first_unwritten_addr, it holds of right.
LEMMA PrefixFits == LogInv /\ KnownInv => PrefixHeld
<1> SUFFICES ASSUME LogInv, KnownInv, NEW c \in Clients,
                    NEW x \in 1 .. unwritten[c] - 1
             PROVE  \E e \in held[c][x] :
                        /\ e.cmd = NextCmd(c, x)
                        /\ IF e.sure THEN register[x] = {e.cmd}
                           ELSE e.cmd \in proposed[x] \cup {UndefCmd}
    BY DEF PrefixHeld
<1>1. x \in Addr /\ Written(c, x)
    BY LogSizeAssumption DEF LogInv, PrefixWritten, IndicesTyped
<1>2. PICK e \in held[c][x] : e.cmd = NextCmd(c, x)
    BY <1>1 DEF NextCmd, HeldCmd, Written
<1>3. IF e.sure THEN e.cmd \in register[x]
      ELSE e.cmd \in proposed[x] \cup {UndefCmd}
    BY <1>1, <1>2 DEF KnownInv, HeldFits
<1>4. e.sure => register[x] = {e.cmd}
    BY <1>1, <1>3 DEF KnownInv, WrittenOnce
<1> QED
    BY <1>2, <1>3, <1>4

(***************************************************************************)
(* Whatever the calls of the registers answer, and however many of them    *)
(* time out: the indices of the log are ordered in every client; below     *)
(* first_unwritten_addr it hands out the register's command, where a       *)
(* quorum acknowledged it, or else a proposal or CMD_UNDEF; and until its  *)
(* log is full an address that it fetches is a new one.                    *)
(***************************************************************************)
THEOREM LogInvariance ==
    LogSpec => [](IndicesOrdered /\ PrefixHeld /\ FreshUntilFull)
<1>1. LogInv /\ KnownInv => IndicesOrdered /\ PrefixHeld /\ FreshUntilFull
    BY PrefixFits DEF LogInv
<1> QED
    BY <1>1, LogInitInv, LogNextInv, LogUsesRegisters, HeldEntries, PTL
    DEF LogSpec
=============================================================================
