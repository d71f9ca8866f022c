--------------------------- MODULE RegisterTypes ---------------------------
(***************************************************************************)
(* What the steps of RegisterCalls do, proved once for the modules that    *)
(* are built on it: the types of its variables, and the effect of a call   *)
(* on the client that makes it and on the others.                          *)
(***************************************************************************)
EXTENDS RegisterCalls, TLAPS

Answer == {"none", "OK", "ALREADYWRITTEN", "UNWRITTEN", "TIMEOUT"}

CmdOrUndef == Cmd \cup {UndefCmd}

CallRecord == [op : {"write"}, addr : Addr, cmd : Cmd]
              \cup [op : {"read"}, addr : Addr, cmd : {UndefCmd}]

HeldEntry == [cmd : CmdOrUndef, sure : BOOLEAN]

RegistersTyped ==
    /\ proposed \in [Addr -> SUBSET Cmd]
    /\ register \in [Addr -> SUBSET Cmd]
    /\ doing \in [Clients -> CallRecord \cup {NoCall}]
    /\ asking \in [Clients -> BOOLEAN]
    /\ held \in [Clients -> [Addr -> SUBSET HeldEntry]]
    /\ before \in [Clients -> SUBSET Cmd]
    /\ answer \in [Clients -> Answer]
    /\ readCmd \in [Clients -> CmdOrUndef]
    /\ \A c \in Clients :
        asking[c] => Busy(c) /\ ~Written(c, doing[c].addr)

\* The clients but c keep what they know.
OthersKeep(c) ==
    \A d \in Clients \ {c} :
        /\ doing'[d] = doing[d]
        /\ asking'[d] = asking[d]
        /\ held'[d] = held[d]
        /\ before'[d] = before[d]
        /\ answer'[d] = answer[d]
        /\ readCmd'[d] = readCmd[d]

\* What a step of the call c is in leaves c with.
CallGoesOn(c) == \E x \in Addr :
    /\ x = doing[c].addr
    /\ before'[c] = before[c]
    /\ \A y \in Addr : y # x => held'[c][y] = held[c][y]
    /\ \A y \in Addr : Written(c, y) => Written(c, y)'
    /\ \/ doing'[c] = doing[c] /\ answer'[c] = answer[c]
       \/ /\ doing'[c] = NoCall
          /\ answer'[c] \in {"OK", "ALREADYWRITTEN"} => Written(c, x)'
          /\ answer'[c] \in {"OK", "ALREADYWRITTEN", "UNWRITTEN", "TIMEOUT"}

\* The registers keep what is written.
RegistersGrow == \A x \in Addr : register[x] \subseteq register'[x]
-----------------------------------------------------------------------------
LEMMA RegistersInitTyped == RegistersInit => RegistersTyped
BY DEF RegistersInit, RegistersTyped, Registers!Init, Answer, CmdOrUndef

LEMMA DecideEffect ==
    ASSUME RegistersTyped, NEW x \in Addr, NEW v \in Cmd, Decide(x, v)
    PROVE  /\ RegistersTyped'
           /\ RegistersGrow
           /\ UNCHANGED callVars
<1>1. /\ UNCHANGED <<proposed, doing, asking, held, before, answer, readCmd>>
      /\ register[x] = {}
      /\ register' = [register EXCEPT ![x] = {v}]
    BY DEF Decide, Registers!Decide, callVars
<1>2. RegistersTyped'
    BY <1>1 DEF RegistersTyped, Busy, Written
<1>3. RegistersGrow
    BY <1>1 DEF RegistersTyped, RegistersGrow
<1> QED
    BY <1>2, <1>3 DEF Decide

LEMMA WriteCallEffect ==
    ASSUME RegistersTyped, NEW c \in Clients, NEW x \in Addr, NEW cmd \in Cmd,
           wor_capture_and_write(c, x, cmd)
    PROVE  /\ RegistersTyped'
           /\ UNCHANGED <<registerVars, asking, held, readCmd>>
           /\ OthersKeep(c)
           /\ ~Busy(c)
           /\ doing'[c] = [op |-> "write", addr |-> x, cmd |-> cmd]
           /\ answer'[c] = "none"
           /\ before'[c] = register[x]
<1>1. /\ ~Busy(c)
      /\ UNCHANGED <<proposed, register, asking, held, readCmd>>
      /\ doing' = [doing EXCEPT ![c] =
                    [op |-> "write", addr |-> x, cmd |-> cmd]]
      /\ answer' = [answer EXCEPT ![c] = "none"]
      /\ before' = [before EXCEPT ![c] = register[x]]
    BY DEF wor_capture_and_write, Begin, Called, registerVars
<1>2. RegistersTyped'
    BY <1>1 DEF RegistersTyped, Busy, Written, CallRecord, CmdOrUndef, Answer
<1> QED
    BY <1>1, <1>2 DEF RegistersTyped, OthersKeep, registerVars

LEMMA ReadCallEffect ==
    ASSUME RegistersTyped, NEW c \in Clients, NEW x \in Addr, wor_read(c, x)
    PROVE  /\ RegistersTyped'
           /\ UNCHANGED <<registerVars, asking, held>>
           /\ OthersKeep(c)
           /\ ~Busy(c)
           /\ before'[c] = register[x]
           /\ \/ /\ ~Written(c, x)
                 /\ doing'[c] = [op |-> "read", addr |-> x, cmd |-> UndefCmd]
                 /\ answer'[c] = "none"
                 /\ readCmd'[c] = readCmd[c]
              \/ /\ Written(c, x)
                 /\ doing'[c] = doing[c]
                 /\ answer'[c] = "ALREADYWRITTEN"
<1>1. /\ ~Busy(c)
      /\ UNCHANGED <<proposed, register, asking, held>>
      /\ before' = [before EXCEPT ![c] = register[x]]
    BY DEF wor_read, Called, registerVars
<1>2. CASE ReadHeld(c, x)
    <2>1. HeldCmd(c, x) \in CmdOrUndef
        BY <1>2 DEF ReadHeld, Written, HeldCmd, RegistersTyped, HeldEntry
    <2>2. /\ Written(c, x)
          /\ doing' = doing
          /\ answer' = [answer EXCEPT ![c] = "ALREADYWRITTEN"]
          /\ readCmd' = [readCmd EXCEPT ![c] = HeldCmd(c, x)]
        BY <1>2 DEF ReadHeld
    <2>3. RegistersTyped'
        BY <1>1, <2>1, <2>2 DEF RegistersTyped, Busy, Written, Answer
    <2> QED
        BY <1>1, <2>2, <2>3 DEF RegistersTyped, OthersKeep, registerVars
<1>3. CASE /\ ~Written(c, x)
           /\ Begin(c, [op |-> "read", addr |-> x, cmd |-> UndefCmd])
    <2>1. /\ doing' = [doing EXCEPT ![c] =
                        [op |-> "read", addr |-> x, cmd |-> UndefCmd]]
          /\ answer' = [answer EXCEPT ![c] = "none"]
          /\ readCmd' = readCmd
        BY <1>3 DEF Begin
    <2>2. RegistersTyped'
        BY <1>1, <2>1
        DEF RegistersTyped, Busy, Written, CallRecord, CmdOrUndef, Answer
    <2> QED
        BY <1>1, <1>3, <2>1, <2>2 DEF RegistersTyped, OthersKeep, registerVars
<1> QED
    BY <1>2, <1>3 DEF wor_read
-----------------------------------------------------------------------------
\* The steps of a call, one by one.
Effect(c) ==
    /\ RegistersTyped'
    /\ OthersKeep(c)
    /\ Busy(c)
    /\ CallGoesOn(c)
    /\ RegistersGrow
    /\ UNCHANGED register

LEMMA AskEffect ==
    ASSUME RegistersTyped, NEW c \in Clients, Ask(c)
    PROVE  Effect(c)
<1>1. /\ Busy(c)
      /\ asking' = [asking EXCEPT ![c] = TRUE]
      /\ UNCHANGED <<register, doing, held, before, answer, readCmd>>
    BY DEF Ask, Registers!Propose, registerVars
<1>2. doing[c] \in CallRecord
    BY <1>1 DEF RegistersTyped, Busy, NoCall
<1>3. proposed' \in [Addr -> SUBSET Cmd]
    <2>1. CASE UNCHANGED proposed
        BY <2>1 DEF RegistersTyped
    <2>2. CASE /\ doing[c].op = "write"
               /\ Registers!Propose(doing[c].addr, doing[c].cmd)
        <3>1. doing[c].cmd \in Cmd
            BY <1>2, <2>2 DEF CallRecord
        <3> QED
            BY <2>2, <3>1 DEF RegistersTyped, Registers!Propose
    <2> QED
        BY <2>1, <2>2 DEF Ask, registerVars
<1>4. RegistersTyped'
    BY <1>1, <1>3 DEF Ask, RegistersTyped, Busy, Written
<1> QED
    BY <1>1, <1>2, <1>4
    DEF Effect, RegistersTyped, OthersKeep, CallGoesOn, RegistersGrow, Written,
        CallRecord

\* A write round ends, the call with it or not.
LEMMA RoundEffect ==
    ASSUME RegistersTyped, NEW c \in Clients,
           Acknowledged(c) \/ AcknowledgedLate(c) \/ RunsOut(c)
    PROVE  Effect(c)
<1> DEFINE x == doing[c].addr
<1>1. /\ Busy(c)
      /\ asking' = [asking EXCEPT ![c] = FALSE]
      /\ UNCHANGED <<proposed, register, before>>
    BY DEF Acknowledged, AcknowledgedLate, RunsOut, RoundEnds, Hold,
       registerVars, RegistersTyped
<1>2. doing[c] \in CallRecord /\ x \in Addr
    BY <1>1 DEF RegistersTyped, Busy, NoCall, CallRecord
<1>3. PICK v \in CmdOrUndef, quorum \in BOOLEAN :
        /\ held' = [held EXCEPT ![c][x] = {[cmd |-> v, sure |-> quorum]}]
        /\ \/ UNCHANGED <<doing, answer, readCmd>>
           \/ Answers(c, "OK") /\ Reads(c, v)
    <2>1. CASE Acknowledged(c)
        <3>1. PICK v \in register[x] :
                Hold(c, v, TRUE) /\ Answers(c, "OK") /\ Reads(c, v)
            BY <2>1 DEF Acknowledged
        <3>2. v \in CmdOrUndef
            BY <1>2, <3>1 DEF RegistersTyped, CmdOrUndef
        <3> QED
            BY <3>1, <3>2 DEF Hold
    <2>2. CASE AcknowledgedLate(c)
        <3>1. PICK v \in register[x] :
                Hold(c, v, TRUE) /\ UNCHANGED <<doing, answer, readCmd>>
            BY <2>2 DEF AcknowledgedLate
        <3>2. v \in CmdOrUndef
            BY <1>2, <3>1 DEF RegistersTyped, CmdOrUndef
        <3> QED
            BY <3>1, <3>2 DEF Hold
    <2>3. CASE RunsOut(c)
        <3>1. PICK v \in Unacknowledged(c) :
                Hold(c, v, FALSE) /\ UNCHANGED <<doing, answer, readCmd>>
            BY <2>3 DEF RunsOut
        <3>2. v \in CmdOrUndef
            BY <1>2, <3>1 DEF Unacknowledged, RegistersTyped, CmdOrUndef
        <3> QED
            BY <3>1, <3>2 DEF Hold
    <2> QED
        BY <2>1, <2>2, <2>3
<1>4. held' \in [Clients -> [Addr -> SUBSET HeldEntry]]
    BY <1>2, <1>3 DEF RegistersTyped, HeldEntry
<1>5. /\ doing' \in [Clients -> CallRecord \cup {NoCall}]
      /\ answer' \in [Clients -> Answer]
      /\ readCmd' \in [Clients -> CmdOrUndef]
    BY <1>3 DEF RegistersTyped, Answers, Reads, Answer
<1>6. \A d \in Clients :
        asking'[d] => Busy(d)' /\ ~Written(d, doing[d].addr)'
    BY <1>1, <1>3 DEF RegistersTyped, Busy, Answers, Written
<1>7. RegistersTyped'
    BY <1>1, <1>4, <1>5, <1>6 DEF RegistersTyped
<1>8. OthersKeep(c)
    BY <1>1, <1>3 DEF OthersKeep, RegistersTyped, Answers, Reads
<1>9. CallGoesOn(c)
    BY <1>1, <1>2, <1>3 DEF CallGoesOn, RegistersTyped, Answers, Written
<1> QED
    BY <1>1, <1>7, <1>8, <1>9 DEF Effect, RegistersGrow

LEMMA EndEffect ==
    ASSUME RegistersTyped, NEW c \in Clients,
           FindsWritten(c) \/ FindsUnwritten(c) \/ TimesOut(c)
    PROVE  Effect(c)
<1> DEFINE x == doing[c].addr
<1>1. /\ Busy(c)
      /\ UNCHANGED <<proposed, register, asking, held, before>>
    BY DEF FindsWritten, FindsUnwritten, TimesOut, Fails, registerVars
<1>2. doing[c] \in CallRecord /\ x \in Addr
    BY <1>1 DEF RegistersTyped, Busy, NoCall, CallRecord
<1>3. PICK st \in {"OK", "ALREADYWRITTEN", "UNWRITTEN", "TIMEOUT"},
           v \in CmdOrUndef :
        /\ Answers(c, st)
        /\ Reads(c, v)
        /\ st \in {"OK", "ALREADYWRITTEN"} => Written(c, x)
    <2>1. Written(c, x) => HeldCmd(c, x) \in CmdOrUndef
        BY <1>2 DEF Written, HeldCmd, RegistersTyped, HeldEntry
    <2>2. CASE FindsWritten(c)
        BY <2>1, <2>2 DEF FindsWritten
    <2>3. CASE FindsUnwritten(c) \/ TimesOut(c)
        BY <2>3 DEF FindsUnwritten, TimesOut, Fails, CmdOrUndef
    <2> QED
        BY <2>2, <2>3
<1>4. ~asking[c]
    BY DEF FindsWritten, FindsUnwritten, TimesOut, Fails, RegistersTyped
<1>5. RegistersTyped'
    BY <1>1, <1>3, <1>4
    DEF RegistersTyped, Answers, Reads, Answer, Busy, Written
<1>6. OthersKeep(c)
    BY <1>1, <1>3 DEF OthersKeep, RegistersTyped, Answers, Reads
<1>7. CallGoesOn(c)
    BY <1>1, <1>2, <1>3 DEF CallGoesOn, RegistersTyped, Answers, Written
<1> QED
    BY <1>1, <1>5, <1>6, <1>7 DEF Effect, RegistersGrow

LEMMA ProceedsEffect ==
    ASSUME RegistersTyped, NEW c \in Clients, Proceeds(c)
    PROVE  Effect(c)
BY AskEffect, RoundEffect, EndEffect DEF Proceeds

LEMMA RegistersKept ==
    ASSUME RegistersTyped, UNCHANGED registerCallVars
    PROVE  RegistersTyped'
BY DEF RegistersTyped, registerCallVars, registerVars, callVars, Busy, Written
-----------------------------------------------------------------------------
\* The command that c holds at x is v.
HoldsCmd(c, x, v) == \E e \in held[c][x] : e.cmd = v

\* An acknowledged command is the one in the register.
SureWritten(c) ==
    \A x \in Addr : \A e \in held[c][x] : e.sure => e.cmd \in register[x]

WrittenOnce == \A x \in Addr : \A v, w \in register[x] : v = w

\* What a step of c's call leaves in c's paxos_space and in its answer.
CallLearns(c) == \E x \in Addr :
    /\ x = doing[c].addr
    /\ \A y \in Addr : Written(c, y) \/ y # x => held'[c][y] = held[c][y]
    /\ SureWritten(c)'
    /\ ~Busy(c)' =>
        /\ doing[c].op = "read" /\ answer'[c] = "OK"
                => HoldsCmd(c, x, readCmd[c])'
        /\ doing[c].op = "write" => answer'[c] # "UNWRITTEN"

LEMMA RoundLearns ==
    ASSUME RegistersTyped, NEW c \in Clients, SureWritten(c),
           Acknowledged(c) \/ AcknowledgedLate(c) \/ RunsOut(c)
    PROVE  CallLearns(c)
<1> DEFINE x == doing[c].addr
<1>1. asking[c] /\ UNCHANGED register
    BY DEF Acknowledged, AcknowledgedLate, RunsOut, RoundEnds, Hold,
       registerVars
<1>2. Busy(c) /\ ~Written(c, x) /\ x \in Addr
    BY <1>1 DEF RegistersTyped, Busy, NoCall, CallRecord
<1>3. PICK v, quorum :
        /\ held' = [held EXCEPT ![c][x] = {[cmd |-> v, sure |-> quorum]}]
        /\ quorum => v \in register[x]
        /\ \/ UNCHANGED <<doing, answer, readCmd>>
           \/ Answers(c, "OK") /\ Reads(c, v)
    <2>1. CASE Acknowledged(c)
        BY <2>1 DEF Acknowledged, Hold
    <2>2. CASE AcknowledgedLate(c)
        BY <2>2 DEF AcknowledgedLate, Hold
    <2>3. CASE RunsOut(c)
        BY <2>3 DEF RunsOut, Hold
    <2> QED
        BY <2>1, <2>2, <2>3
<1>4. /\ held'[c][x] = {[cmd |-> v, sure |-> quorum]}
      /\ \A y \in Addr : y # x => held'[c][y] = held[c][y]
    BY <1>2, <1>3 DEF RegistersTyped
<1>5. SureWritten(c)'
    BY <1>1, <1>2, <1>3, <1>4 DEF SureWritten
<1>6. \/ Busy(c)'
      \/ /\ answer'[c] = "OK"
         /\ doing[c].op = "read" => readCmd'[c] = v
    BY <1>2, <1>3 DEF RegistersTyped, Answers, Reads, Busy
<1>7. \E e \in held'[c][x] : e.cmd = v
    BY <1>4
<1> QED
    BY <1>2, <1>4, <1>5, <1>6, <1>7 DEF CallLearns, HoldsCmd

LEMMA CallEffect ==
    ASSUME RegistersTyped, NEW c \in Clients, SureWritten(c), Proceeds(c)
    PROVE  CallLearns(c)
<1> DEFINE x == doing[c].addr
<1>1. Busy(c)
    BY ProceedsEffect DEF Effect
<1>2. x \in Addr
    BY <1>1 DEF RegistersTyped, Busy, NoCall, CallRecord
<1>3. CASE Acknowledged(c) \/ AcknowledgedLate(c) \/ RunsOut(c)
    BY <1>3, RoundLearns
<1>4. CASE Ask(c)
    <2>1. UNCHANGED <<register, doing, held>> \/ UNCHANGED <<doing, held>>
        BY <1>4 DEF Ask
    <2>2. RegistersGrow
        BY <1>4, AskEffect DEF Effect
    <2> QED
        BY <1>1, <1>2, <2>1, <2>2
        DEF CallLearns, Busy, SureWritten, RegistersGrow
<1>5. CASE FindsWritten(c)
    <2>1. /\ UNCHANGED <<register, held>>
          /\ Written(c, x)
          /\ answer'[c] \in {"OK", "ALREADYWRITTEN"}
          /\ doing[c].op = "read" => readCmd'[c] = HeldCmd(c, x)
        BY <1>5 DEF FindsWritten, Answers, Reads, registerVars, RegistersTyped
    <2>2. HoldsCmd(c, x, HeldCmd(c, x))
        BY <2>1 DEF Written, HoldsCmd, HeldCmd
    <2> QED
        BY <1>2, <2>1, <2>2 DEF CallLearns, SureWritten, HoldsCmd
<1>6. CASE FindsUnwritten(c) \/ TimesOut(c)
    <2>1. /\ UNCHANGED <<register, held>>
          /\ \/ answer'[c] = "TIMEOUT"
             \/ answer'[c] = "UNWRITTEN" /\ doing[c].op = "read"
        BY <1>6
        DEF FindsUnwritten, TimesOut, Fails, Answers, registerVars,
            RegistersTyped
    <2> QED
        BY <1>2, <2>1 DEF CallLearns, SureWritten
<1> QED
    BY <1>3, <1>4, <1>5, <1>6 DEF Proceeds
LEMMA DecidedOnce ==
    ASSUME RegistersTyped, WrittenOnce, NEW x \in Addr, NEW v \in Cmd,
           Decide(x, v)
    PROVE  WrittenOnce'
BY DEF RegistersTyped, WrittenOnce, Decide, Registers!Decide

\* What is written was proposed, and is never withdrawn.
LEMMA ProposedFirst ==
    ASSUME RegistersTyped, \A y \in Addr : register[y] \subseteq proposed[y],
           \/ Decides
           \/ \E c \in Clients : Proceeds(c)
           \/ UNCHANGED registerVars
    PROVE  \A y \in Addr : register'[y] \subseteq proposed'[y]
<1>1. CASE Decides
    BY <1>1 DEF Decides, Decide, Registers!Decide, RegistersTyped
<1>2. ASSUME NEW c \in Clients, Ask(c)
      PROVE  \A y \in Addr : register'[y] \subseteq proposed'[y]
    <2>1. \/ UNCHANGED registerVars
          \/ Registers!Propose(doing[c].addr, doing[c].cmd)
        BY <1>2 DEF Ask
    <2> QED
        BY <2>1 DEF registerVars, Registers!Propose, RegistersTyped
<1>3. ASSUME NEW c \in Clients, Proceeds(c), ~Ask(c)
      PROVE  UNCHANGED registerVars
    BY <1>3
    DEF Proceeds, Acknowledged, AcknowledgedLate, RunsOut,
        Hold, FindsWritten, FindsUnwritten, TimesOut, Fails
<1>4. CASE UNCHANGED registerVars
    BY <1>4 DEF registerVars
<1> QED
    BY <1>1, <1>2, <1>3, <1>4 DEF registerVars
-----------------------------------------------------------------------------
(***************************************************************************)
(* Where the commands that clients hold come from.                         *)
(***************************************************************************)
\* An acknowledged command is in the register; another one was proposed by
\* somebody, or is CMD_UNDEF.
HeldFits(c) ==
    \A x \in Addr : \A e \in held[c][x] :
        IF e.sure THEN e.cmd \in register[x]
        ELSE e.cmd \in proposed[x] \cup {UndefCmd}

BeforeFits(c) == Busy(c) => before[c] \subseteq register[doing[c].addr]

KnownInv ==
    /\ WrittenOnce
    /\ \A x \in Addr : register[x] \subseteq proposed[x]
    /\ \A c \in Clients : HeldFits(c) /\ BeforeFits(c)

RegistersSame == UNCHANGED <<proposed, register, doing, held, before>>

LEMMA KnownKept ==
    ASSUME KnownInv, RegistersSame
    PROVE  KnownInv'
BY DEF KnownInv, RegistersSame, WrittenOnce, HeldFits, BeforeFits, Busy

\* Registers and proposals only grow under a client that makes no step.
LEMMA KnownOthers ==
    ASSUME RegistersTyped, KnownInv, NEW d \in Clients, RegistersGrow,
           \A x \in Addr : proposed[x] \subseteq proposed'[x],
           UNCHANGED <<doing[d], held[d], before[d]>>
    PROVE  HeldFits(d)' /\ BeforeFits(d)'
<1>1. HeldFits(d)'
    BY DEF KnownInv, HeldFits, RegistersGrow
<1>2. Busy(d) => doing[d].addr \in Addr
    BY DEF RegistersTyped, Busy, NoCall, CallRecord
<1>3. BeforeFits(d)'
    BY <1>2 DEF KnownInv, BeforeFits, Busy, RegistersGrow
<1> QED
    BY <1>1, <1>3

\* The entry that a round leaves at the address of the call.
LEMMA RoundHolds ==
    ASSUME RegistersTyped, KnownInv, NEW c \in Clients,
           Acknowledged(c) \/ AcknowledgedLate(c) \/ RunsOut(c)
    PROVE  HeldFits(c)'
<1> DEFINE x == doing[c].addr
<1>1. asking[c] /\ UNCHANGED <<proposed, register>>
    BY DEF Acknowledged, AcknowledgedLate, RunsOut, RoundEnds, Hold,
       registerVars
<1>2. Busy(c) /\ x \in Addr
    BY <1>1 DEF RegistersTyped, Busy, NoCall, CallRecord
<1>3. PICK v, quorum :
        /\ held' = [held EXCEPT ![c][x] = {[cmd |-> v, sure |-> quorum]}]
        /\ IF quorum THEN v \in register[x]
           ELSE v \in proposed[x] \cup {UndefCmd}
    <2>1. CASE Acknowledged(c)
        BY <2>1 DEF Acknowledged, Hold
    <2>2. CASE AcknowledgedLate(c)
        BY <2>2 DEF AcknowledgedLate, Hold
    <2>3. CASE RunsOut(c)
        <3>1. PICK v \in Unacknowledged(c) : Hold(c, v, FALSE)
            BY <2>3 DEF RunsOut
        <3>2. before[c] \subseteq register[x] /\ register[x] \subseteq proposed[x]
            BY <1>2 DEF KnownInv, BeforeFits
        <3>3. v \in proposed[x] \cup {UndefCmd}
            BY <3>1, <3>2 DEF Unacknowledged
        <3> QED
            BY <3>1, <3>3 DEF Hold
    <2> QED
        BY <2>1, <2>2, <2>3
<1>4. /\ held'[c][x] = {[cmd |-> v, sure |-> quorum]}
      /\ \A y \in Addr : y # x => held'[c][y] = held[c][y]
    BY <1>2, <1>3 DEF RegistersTyped
<1> SUFFICES ASSUME NEW y \in Addr, NEW e \in held'[c][y]
             PROVE  IF e.sure THEN e.cmd \in register[y]
                    ELSE e.cmd \in proposed[y] \cup {UndefCmd}
    BY <1>1 DEF HeldFits
<1>5. CASE y = x
    BY <1>3, <1>4, <1>5
<1>6. CASE y # x
    BY <1>4, <1>6 DEF KnownInv, HeldFits
<1> QED
    BY <1>5, <1>6

LEMMA ProceedsKnown ==
    ASSUME RegistersTyped, KnownInv, NEW c \in Clients, Proceeds(c)
    PROVE  KnownInv'
<1>1. /\ OthersKeep(c) /\ Busy(c) /\ CallGoesOn(c) /\ RegistersGrow
      /\ UNCHANGED register
    BY ProceedsEffect DEF Effect
<1>2. WrittenOnce'
    BY <1>1 DEF KnownInv, WrittenOnce
<1>3. \A x \in Addr : register'[x] \subseteq proposed'[x]
    BY ProposedFirst DEF KnownInv
<1>4. ~Ask(c) => UNCHANGED proposed
    BY DEF Proceeds, Acknowledged, AcknowledgedLate, RunsOut, Hold,
       FindsWritten, FindsUnwritten, TimesOut, Fails, registerVars
<1>5. \A x \in Addr : proposed[x] \subseteq proposed'[x]
    <2>1. CASE Ask(c)
        <3>1. \/ UNCHANGED proposed
              \/ Registers!Propose(doing[c].addr, doing[c].cmd)
            BY <2>1 DEF Ask, registerVars
        <3> QED
            BY <3>1 DEF Registers!Propose, RegistersTyped
    <2> QED
        BY <1>4, <2>1
<1>6. HeldFits(c)'
    <2>1. CASE Acknowledged(c) \/ AcknowledgedLate(c) \/ RunsOut(c)
        BY <2>1, RoundHolds
    <2>2. CASE UNCHANGED held
        BY <1>1, <1>5, <2>2 DEF KnownInv, HeldFits
    <2> QED
        BY <2>1, <2>2
        DEF Proceeds, Ask, FindsWritten, FindsUnwritten, TimesOut, Fails
<1>7. BeforeFits(c)'
    BY <1>1 DEF CallGoesOn, KnownInv, BeforeFits, Busy, NoCall
<1>8. ASSUME NEW d \in Clients, d # c PROVE HeldFits(d)' /\ BeforeFits(d)'
    BY <1>1, <1>5, <1>8, KnownOthers DEF OthersKeep
<1> QED
    BY <1>2, <1>3, <1>6, <1>7, <1>8 DEF KnownInv

LEMMA CallsKnown ==
    ASSUME RegistersTyped, KnownInv, NEW c \in Clients, NEW x \in Addr,
           UNCHANGED <<registerVars, held>>, OthersKeep(c),
           before'[c] = register[x],
           doing'[c].addr = x \/ ~Busy(c)'
    PROVE  KnownInv'
<1>1. UNCHANGED <<proposed, register, held>>
    BY DEF registerVars
<1>2. BeforeFits(c)'
    BY <1>1 DEF BeforeFits
<1>3. HeldFits(c)' /\ WrittenOnce'
    BY <1>1 DEF KnownInv, HeldFits, WrittenOnce
<1>4. ASSUME NEW d \in Clients, d # c PROVE HeldFits(d)' /\ BeforeFits(d)'
    BY <1>1, <1>4, KnownOthers DEF OthersKeep, RegistersGrow
<1> QED
    BY <1>1, <1>2, <1>3, <1>4 DEF KnownInv

LEMMA KnownInit == RegistersInit => KnownInv
BY DEF RegistersInit, Registers!Init, KnownInv, WrittenOnce, HeldFits,
       BeforeFits, Busy, NoCall

LEMMA KnownNext ==
    ASSUME RegistersTyped, KnownInv, UNCHANGED registerCallVars \/ RegistersNext
    PROVE  KnownInv'
<1>1. CASE UNCHANGED registerCallVars
    BY <1>1, KnownKept DEF registerCallVars, registerVars, callVars, RegistersSame
<1>2. ASSUME NEW x \in Addr, NEW v \in Cmd, Decide(x, v) PROVE KnownInv'
    <2>1. RegistersGrow /\ UNCHANGED <<proposed, doing, held, before>>
        BY <1>2, DecideEffect DEF callVars, Decide, Registers!Decide
    <2>2. WrittenOnce'
        BY <1>2, DecidedOnce DEF KnownInv
    <2>3. \A y \in Addr : register'[y] \subseteq proposed'[y]
        BY <1>2, ProposedFirst DEF Decides, KnownInv
    <2>4. \A d \in Clients : HeldFits(d)' /\ BeforeFits(d)'
        BY <2>1, KnownOthers
    <2> QED
        BY <2>2, <2>3, <2>4 DEF KnownInv
<1>3. ASSUME NEW c \in Clients, Proceeds(c) PROVE KnownInv'
    BY <1>3, ProceedsKnown
<1>4. ASSUME NEW c \in Clients, NEW x \in Addr, NEW v \in Cmd,
             wor_capture_and_write(c, x, v)
      PROVE  KnownInv'
    <2>1. /\ UNCHANGED registerVars /\ UNCHANGED held /\ OthersKeep(c)
          /\ before'[c] = register[x]
          /\ doing'[c] = [op |-> "write", addr |-> x, cmd |-> v]
        BY <1>4, WriteCallEffect
    <2>2. doing'[c].addr = x
        BY <2>1
    <2> QED
        BY <2>1, <2>2, CallsKnown
<1>5. ASSUME NEW c \in Clients, NEW x \in Addr, wor_read(c, x)
      PROVE  KnownInv'
    <2>1. /\ UNCHANGED registerVars /\ UNCHANGED held /\ OthersKeep(c)
          /\ before'[c] = register[x]
          /\ ~Busy(c)
          /\ \/ doing'[c] = [op |-> "read", addr |-> x, cmd |-> UndefCmd]
             \/ doing'[c] = doing[c]
        BY <1>5, ReadCallEffect
    <2>2. doing'[c].addr = x \/ ~Busy(c)'
        BY <2>1 DEF Busy
    <2> QED
        BY <2>1, <2>2, CallsKnown
<1> QED
    BY <1>1, <1>2, <1>3, <1>4, <1>5 DEF RegistersNext, Decides, Calls
-----------------------------------------------------------------------------
(***************************************************************************)
(* The registers that the calls rely on are write-once registers.          *)
(***************************************************************************)
LEMMA RegistersNextTyped ==
    ASSUME RegistersTyped, UNCHANGED registerCallVars \/ RegistersNext
    PROVE  RegistersTyped'
<1>1. CASE Decides
    BY <1>1, DecideEffect DEF Decides
<1>2. CASE \E c \in Clients : Proceeds(c)
    BY <1>2, ProceedsEffect DEF Effect
<1>3. CASE \E c \in Clients : Calls(c)
    BY <1>3, WriteCallEffect, ReadCallEffect DEF Calls
<1> QED
    BY <1>1, <1>2, <1>3, RegistersKept DEF RegistersNext

\* Every client holds what it may, whatever its calls answer.
LEMMA HeldEntries == RegistersSpec => []KnownInv
<1>1. RegistersInit => RegistersTyped /\ KnownInv
    BY RegistersInitTyped, KnownInit
<1>2. ASSUME RegistersTyped, KnownInv,
             [UNCHANGED registerCallVars \/ RegistersNext]_registerCallVars
      PROVE  RegistersTyped' /\ KnownInv'
    <2>1. UNCHANGED registerCallVars \/ RegistersNext
        BY <1>2
    <2> QED
        BY <1>2, <2>1, RegistersNextTyped, KnownNext
<1> QED
    BY <1>1, <1>2, PTL DEF RegistersSpec

\* A call proposes a command of its own, or leaves the registers alone.
LEMMA CallsPropose ==
    ASSUME RegistersTyped, NEW c \in Clients, Proceeds(c) \/ Calls(c)
    PROVE  \/ UNCHANGED registerVars
           \/ \E x \in Addr, v \in Cmd : Registers!Propose(x, v)
<1>1. CASE Ask(c) /\ ~UNCHANGED registerVars
    <2>1. /\ doing[c].op = "write"
          /\ Registers!Propose(doing[c].addr, doing[c].cmd)
        BY <1>1 DEF Ask
    <2>2. doing[c].addr \in Addr /\ doing[c].cmd \in Cmd
        BY <2>1 DEF RegistersTyped, CallRecord, NoCall
    <2> QED
        BY <2>1, <2>2
<1>2. CASE ~Ask(c)
    BY <1>2
    DEF Proceeds, Acknowledged, AcknowledgedLate, RunsOut,
        Hold, FindsWritten, FindsUnwritten, TimesOut, Fails, Calls, Called,
        wor_capture_and_write, wor_read
<1> QED
    BY <1>1, <1>2

(***************************************************************************)
(* Whatever the calls answer and leave behind, what is asked and written   *)
(* is what write-once registers allow: of the abstract specifications, the *)
(* one of the calls implements the one of the registers.                   *)
(***************************************************************************)
THEOREM CallsRefineWriteOnce == RegistersSpec => Registers!Spec
<1>1. RegistersInit => RegistersTyped /\ Registers!Init
    BY RegistersInitTyped DEF RegistersInit
<1>2. ASSUME RegistersTyped,
             [UNCHANGED registerCallVars \/ RegistersNext]_registerCallVars
      PROVE  RegistersTyped' /\ [Registers!Next]_registerVars
    <2>1. UNCHANGED registerCallVars \/ RegistersNext
        BY <1>2
    <2>2. RegistersTyped'
        BY <1>2, <2>1, RegistersNextTyped
    <2>3. CASE UNCHANGED registerCallVars
        BY <2>2, <2>3 DEF registerCallVars
    <2>4. CASE Decides
        BY <2>2, <2>4 DEF Decides, Decide, Registers!Next
    <2>5. ASSUME NEW c \in Clients, Proceeds(c) \/ Calls(c)
          PROVE  [Registers!Next]_registerVars
        BY <1>2, <2>5, CallsPropose DEF Registers!Next
    <2> QED
        BY <2>1, <2>2, <2>3, <2>4, <2>5 DEF RegistersNext
<1> QED
    BY <1>1, <1>2, PTL
    DEF RegistersSpec, Registers!Spec, Registers!vars, registerVars
=============================================================================
