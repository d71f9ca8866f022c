-------------------------- MODULE WorRefinesCalls --------------------------
(***************************************************************************)
(* The rounds of Wor implement RegisterCalls: every step of a client or of *)
(* an acceptor is a step of the layer the shared logs are built on, or     *)
(* changes nothing there.                                                  *)
(***************************************************************************)
EXTENDS WorCallProofs

-----------------------------------------------------------------------------
(***************************************************************************)
(* The layer's variables, as RegisterLayer reads them off those of Wor.    *)
(***************************************************************************)
Doing == [c \in Clients |-> IF pc[c] = "idle" THEN NoCall ELSE call[c]]

Asking == [c \in Clients |-> pc[c] = "write_receive"]

Holds(c, x) == IF written[c][x]
               THEN {[cmd |-> cspace[c][x].vcmd,
                      sure |-> IsQuorum(writeRow[c][x])]}
               ELSE {}

Held == [c \in Clients |-> [x \in Addr |-> Holds(c, x)]]

Answer == [c \in Clients |->
            IF status[c] = "ERROR" THEN "TIMEOUT" ELSE status[c]]

\* A step of the layer, or none.
LayerNext ==
    UNCHANGED RegisterLayer!registerCallVars \/ RegisterLayer!RegistersNext

LEMMA LayerStutters ==
    ASSUME UNCHANGED <<proposed, register, Doing, Asking, Held, before, Answer,
                       readCmd>>
    PROVE  LayerNext
BY DEF LayerNext, RegisterLayer!registerCallVars, RegisterLayer!registerVars,
       RegisterLayer!callVars, Doing, Asking, Held, Holds, Answer

LEMMA ProceedsNext ==
    ASSUME NEW c \in Clients, RegisterLayer!Proceeds(c)
    PROVE  LayerNext
BY DEF LayerNext, RegisterLayer!RegistersNext
-----------------------------------------------------------------------------
(***************************************************************************)
(* Each action of the layer, in those terms.                               *)
(***************************************************************************)
LEMMA LayerFails ==
    ASSUME NEW c \in Clients, NEW st, Doing[c].op # "none", ~Asking[c],
           Held[c][Doing[c].addr] = {},
           Doing' = [Doing EXCEPT ![c] = NoCall],
           Answer' = [Answer EXCEPT ![c] = st],
           readCmd' = IF Doing[c].op = "read"
                      THEN [readCmd EXCEPT ![c] = UndefCmd] ELSE readCmd,
           UNCHANGED <<proposed, register, Asking, Held, before>>
    PROVE  RegisterLayer!Fails(c, st)
BY DEF RegisterLayer!Fails, RegisterLayer!Busy, RegisterLayer!Written,
       RegisterLayer!Answers, RegisterLayer!Reads, RegisterLayer!registerVars,
       RegisterLayer!NoCall, NoCall, Doing, Asking, Held, Holds, Answer

LEMMA HeldWritten ==
    ASSUME NEW c \in Clients, NEW x \in Addr, written[c][x]
    PROVE  /\ RegisterLayer!HeldCmd(c, x) = cspace[c][x].vcmd
           /\ RegisterLayer!Written(c, x)
<1>1. PICK sure : sure = IsQuorum(writeRow[c][x])
    OBVIOUS
<1>2. PICK v : v = cspace[c][x].vcmd
    OBVIOUS
<1>3. PICK h : h = [cmd |-> v, sure |-> sure]
    OBVIOUS
<1>4. Held[c][x] = {h} /\ h.cmd = v
    BY <1>1, <1>2, <1>3 DEF Held, Holds
<1>5. (CHOOSE e \in {h} : TRUE) = h
    OBVIOUS
<1>6. (CHOOSE e \in Held[c][x] : TRUE).cmd = v /\ Held[c][x] # {}
    BY <1>4, <1>5
<1> QED
    BY <1>2, <1>6
    DEF RegisterLayer!HeldCmd, RegisterLayer!Written, Held, Holds

LEMMA LayerFindsWritten ==
    ASSUME NEW c \in Clients, NEW x \in Addr, x = Doing[c].addr,
           Doing[c].op # "none", written[c][x],
           Doing' = [Doing EXCEPT ![c] = NoCall],
           Answer' = [Answer EXCEPT ![c] =
                        IF Doing[c].op = "read" THEN "OK"
                        ELSE "ALREADYWRITTEN"],
           readCmd' = IF Doing[c].op = "read"
                      THEN [readCmd EXCEPT ![c] = cspace[c][x].vcmd]
                      ELSE readCmd,
           UNCHANGED <<proposed, register, Asking, Held, before>>
    PROVE  RegisterLayer!FindsWritten(c)
<1>1. /\ RegisterLayer!HeldCmd(c, x) = cspace[c][x].vcmd
      /\ RegisterLayer!Written(c, x)
    BY HeldWritten
<1> QED
    BY <1>1
    DEF RegisterLayer!FindsWritten, RegisterLayer!Busy,
        RegisterLayer!Answers, RegisterLayer!Reads, RegisterLayer!registerVars,
        RegisterLayer!NoCall, NoCall, Doing, Asking, Held, Holds, Answer

LEMMA LayerWriteBegins ==
    ASSUME NEW c \in Clients, NEW x \in Addr, NEW v \in Cmd,
           Doing[c].op = "none",
           Doing' = [Doing EXCEPT
                        ![c] = [op |-> "write", addr |-> x, cmd |-> v]],
           Answer' = [Answer EXCEPT ![c] = "none"],
           before' = [before EXCEPT ![c] = register[x]],
           UNCHANGED <<proposed, register, Asking, Held, readCmd>>
    PROVE  LayerNext
<1>1. RegisterLayer!wor_capture_and_write(c, x, v)
    BY DEF RegisterLayer!wor_capture_and_write, RegisterLayer!Busy,
           RegisterLayer!Begin, RegisterLayer!Called,
           RegisterLayer!registerVars, Doing, Asking, Held, Holds, Answer
<1> QED
    BY <1>1
    DEF LayerNext, RegisterLayer!RegistersNext, RegisterLayer!Calls

LEMMA LayerReadBegins ==
    ASSUME NEW c \in Clients, NEW x \in Addr, Doing[c].op = "none",
           Held[c][x] = {},
           Doing' = [Doing EXCEPT
                        ![c] = [op |-> "read", addr |-> x, cmd |-> UndefCmd]],
           Answer' = [Answer EXCEPT ![c] = "none"],
           before' = [before EXCEPT ![c] = register[x]],
           UNCHANGED <<proposed, register, Asking, Held, readCmd>>
    PROVE  LayerNext
<1>1. RegisterLayer!wor_read(c, x)
    BY DEF RegisterLayer!wor_read, RegisterLayer!Busy, RegisterLayer!Written,
           RegisterLayer!Begin, RegisterLayer!Called,
           RegisterLayer!registerVars, Doing, Asking, Held, Holds, Answer
<1> QED
    BY <1>1
    DEF LayerNext, RegisterLayer!RegistersNext, RegisterLayer!Calls

LEMMA LayerReadsHeld ==
    ASSUME NEW c \in Clients, NEW x \in Addr,
           Doing[c].op = "none", written[c][x],
           Answer' = [Answer EXCEPT ![c] = "ALREADYWRITTEN"],
           readCmd' = [readCmd EXCEPT ![c] = cspace[c][x].vcmd],
           before' = [before EXCEPT ![c] = register[x]],
           UNCHANGED <<proposed, register, Doing, Asking, Held>>
    PROVE  LayerNext
<1>1. /\ RegisterLayer!HeldCmd(c, x) = cspace[c][x].vcmd
      /\ RegisterLayer!Written(c, x)
    BY HeldWritten
<1>2. RegisterLayer!ReadHeld(c, x)
    BY <1>1 DEF RegisterLayer!ReadHeld, Doing, Answer
<1>3. RegisterLayer!wor_read(c, x)
    BY <1>2
    DEF RegisterLayer!wor_read, RegisterLayer!Busy, RegisterLayer!Called,
        RegisterLayer!registerVars, Doing, Asking, Held, Holds
<1> QED
    BY <1>3
    DEF LayerNext, RegisterLayer!RegistersNext, RegisterLayer!Calls

LEMMA LayerAsks ==
    ASSUME NEW c \in Clients, NEW x, x = Doing[c].addr,
           Doing[c].op # "none", ~Asking[c], Held[c][x] = {},
           Asking' = [Asking EXCEPT ![c] = TRUE],
           \/ proposed[x] # {} /\ UNCHANGED <<proposed, register>>
           \/ /\ Doing[c].op = "write"
              /\ proposed' = [proposed EXCEPT ![x] = @ \cup {Doing[c].cmd}]
              /\ UNCHANGED register,
           UNCHANGED <<Doing, Held, before, Answer, readCmd>>
    PROVE  RegisterLayer!Ask(c)
BY DEF RegisterLayer!Ask, RegisterLayer!Busy, RegisterLayer!Written,
       RegisterLayer!registerVars, RegisterLayer!Registers!Propose,
       Doing, Asking, Held, Holds, Answer

\* A write round ends: c holds v, and the call has ended with OK or goes on.
LEMMA LayerHolds ==
    ASSUME NEW c \in Clients, NEW x, x = Doing[c].addr, NEW v,
           NEW sure \in BOOLEAN, Asking[c],
           Asking' = [Asking EXCEPT ![c] = FALSE],
           Held' = [Held EXCEPT ![c][x] = {[cmd |-> v, sure |-> sure]}],
           UNCHANGED <<proposed, register, before>>,
           \/ UNCHANGED <<Doing, Answer, readCmd>>
           \/ /\ sure
              /\ Doing' = [Doing EXCEPT ![c] = NoCall]
              /\ Answer' = [Answer EXCEPT ![c] = "OK"]
              /\ readCmd' = IF Doing[c].op = "read"
                            THEN [readCmd EXCEPT ![c] = v] ELSE readCmd,
           IF sure THEN v \in register[x]
           ELSE v \in RegisterLayer!Unacknowledged(c)
    PROVE  RegisterLayer!Proceeds(c)
<1>1. RegisterLayer!RoundEnds(c) /\ RegisterLayer!Hold(c, v, sure)
    BY DEF RegisterLayer!RoundEnds, RegisterLayer!Hold,
           RegisterLayer!registerVars, Doing, Asking, Held, Holds
<1>2. CASE ~sure
    BY <1>1, <1>2
    DEF RegisterLayer!Proceeds, RegisterLayer!RunsOut,
        Doing, Answer
<1>3. CASE sure /\ UNCHANGED <<Doing, Answer, readCmd>>
    BY <1>1, <1>3
    DEF RegisterLayer!Proceeds,
        RegisterLayer!AcknowledgedLate, Doing, Answer
<1>4. CASE /\ sure
           /\ Doing' = [Doing EXCEPT ![c] = NoCall]
           /\ Answer' = [Answer EXCEPT ![c] = "OK"]
           /\ readCmd' = IF Doing[c].op = "read"
                         THEN [readCmd EXCEPT ![c] = v] ELSE readCmd
    BY <1>1, <1>4
    DEF RegisterLayer!Proceeds,
        RegisterLayer!Acknowledged, RegisterLayer!Answers,
        RegisterLayer!Reads, RegisterLayer!NoCall, NoCall, Doing, Answer
<1> QED
    BY <1>2, <1>3, <1>4
-----------------------------------------------------------------------------
(***************************************************************************)
(* What the control of a client's step does to the layer's variables.      *)
(***************************************************************************)
LEMMA ClientDoes ==
    ASSUME TypeInv, NEW c \in Clients, pc[c] # "idle"
    PROVE  /\ Doing[c] = call[c] /\ call[c].addr \in Addr
           /\ Doing[c].op # "none"
BY DEF Doing, TypeInv, ControlTyped, Call

LEMMA EndsLayer ==
    ASSUME TypeInv, NEW c \in Clients, NEW st, NEW cmd, UNCHANGED call,
           pc[c] # "idle", Ends(c, st, cmd)
    PROVE  /\ Doing' = [Doing EXCEPT ![c] = NoCall]
           /\ Asking' = [Asking EXCEPT ![c] = FALSE]
           /\ Answer' = [Answer EXCEPT ![c] =
                            IF st = "ERROR" THEN "TIMEOUT" ELSE st]
           /\ readCmd' = IF Doing[c].op = "read"
                         THEN [readCmd EXCEPT ![c] = cmd] ELSE readCmd
<1>1. /\ pc' = [pc EXCEPT ![c] = "idle"]
      /\ status' = [status EXCEPT ![c] = st]
      /\ pc \in [Clients -> Location] /\ DOMAIN status = Clients
    BY DEF Ends, TypeInv, ControlTyped
<1>2. Doing' = [Doing EXCEPT ![c] = NoCall]
    BY <1>1 DEF Doing
<1>3. Asking' = [Asking EXCEPT ![c] = FALSE]
    BY <1>1 DEF Asking
<1>4. Answer' = [Answer EXCEPT ![c] = IF st = "ERROR" THEN "TIMEOUT" ELSE st]
    BY <1>1 DEF Answer
<1> QED
    BY <1>2, <1>3, <1>4, ClientDoes DEF Ends

LEMMA GoesOnLayer ==
    ASSUME TypeInv, NEW c \in Clients, NEW place, UNCHANGED call,
           pc[c] # "idle", place # "idle",
           pc' = [pc EXCEPT ![c] = place], UNCHANGED status
    PROVE  /\ Doing' = Doing
           /\ Asking' = [Asking EXCEPT ![c] = (place = "write_receive")]
           /\ Answer' = Answer
<1>1. Doing' = Doing
    BY DEF Doing, TypeInv, ControlTyped
<1>2. Asking' = [Asking EXCEPT ![c] = (place = "write_receive")]
    BY DEF Asking, TypeInv, ControlTyped
<1> QED
    BY <1>1, <1>2 DEF Answer

\* What a client keeps of a register not known to be written is not held.
LEMMA HeldSame ==
    ASSUME TypeInv, NEW c \in Clients, NEW x \in Addr, ~written[c][x],
           UNCHANGED written,
           \A d \in Clients, y \in Addr : d # c \/ y # x =>
                /\ cspace'[d][y] = cspace[d][y]
                /\ writeRow'[d][y] = writeRow[d][y]
    PROVE  Held' = Held
<1>1. \A d \in Clients, y \in Addr : Holds(d, y)' = Holds(d, y)
    BY DEF Holds
<1> QED
    BY <1>1 DEF Held

LEMMA NowHeld ==
    ASSUME TypeInv, NEW c \in Clients, NEW x \in Addr,
           written' = [written EXCEPT ![c][x] = TRUE],
           \A d \in Clients, y \in Addr : d # c \/ y # x =>
                /\ cspace'[d][y] = cspace[d][y]
                /\ writeRow'[d][y] = writeRow[d][y]
    PROVE  Held' = [Held EXCEPT ![c][x] =
                        {[cmd |-> cspace'[c][x].vcmd,
                          sure |-> IsQuorum(writeRow'[c][x])]}]
<1> DEFINE h == {[cmd |-> cspace'[c][x].vcmd,
                  sure |-> IsQuorum(writeRow'[c][x])]}
<1>1. \A d \in Clients, y \in Addr :
        d # c \/ y # x => Holds(d, y)' = Holds(d, y)
    BY DEF Holds, TypeInv, SpacesTyped
<1>2. Holds(c, x)' = h
    BY DEF Holds, TypeInv, SpacesTyped
<1> HIDE DEF h
<1>3. /\ Held' = [d \in Clients |-> [y \in Addr |-> Holds(d, y)']]
      /\ Held = [d \in Clients |-> [y \in Addr |-> Holds(d, y)]]
    BY DEF Held
<1>4. Held' = [Held EXCEPT ![c][x] = h]
    BY <1>1, <1>2, <1>3
<1> QED
    BY <1>4 DEF h
-----------------------------------------------------------------------------
(***************************************************************************)
(* The steps of Wor.                                                       *)
(***************************************************************************)
LEMMA AcceptorRefines ==
    ASSUME TypeInv, TypeInv', IInv, IInv', NEW a \in Acceptors,
           NEW m \in BagToSet(net), HandleCapture(a, m) \/ HandleAccept(a, m)
    PROVE  LayerNext
<1>1. /\ UNCHANGED <<proposed, Doing, Asking, Held, before, Answer, readCmd>>
      /\ UNCHANGED clientVars
    BY DEF HandleCapture, HandleAccept, clientVars, spaceVars, rowVars,
           controlVars, inputVars, Doing, Asking, Held, Holds, Answer
<1>2. CASE HandleCapture(a, m)
    BY <1>1, <1>2, RegisterOfVotes, LayerStutters DEF HandleCapture
<1>3. CASE HandleAccept(a, m)
    <2>1. m.addr \in Addr
        BY <1>3, MessageTypes DEF TypeInv, NetTyped, HandleAccept, Request
    <2>2. \/ UNCHANGED register
          \/ \E v \in Cmd : WriteOnceRegisters!Decide(m.addr, v)
        BY <1>1, <1>3, <2>1, HandleAcceptEffect, VoteDecides
    <2>3. ASSUME NEW v \in Cmd, WriteOnceRegisters!Decide(m.addr, v)
          PROVE  RegisterLayer!Decide(m.addr, v)
        BY <1>1, <2>3
        DEF WriteOnceRegisters!Decide, RegisterLayer!Registers!Decide,
            RegisterLayer!Decide, RegisterLayer!callVars, clientVars,
            spaceVars, rowVars, controlVars, inputVars
    <2> QED
        BY <1>1, <2>1, <2>2, <2>3, LayerStutters
        DEF LayerNext, RegisterLayer!RegistersNext, RegisterLayer!Decides
<1> QED
    BY <1>2, <1>3

\* The begin of a call leaves the registers and what is held alone.
LEMMA CalledLayer ==
    ASSUME TypeInv, NEW c \in Clients, NEW operation \in Call,
           Called(c, operation), UNCHANGED proposed
    PROVE  /\ Doing[c].op = "none"
           /\ before' = [before EXCEPT ![c] = register[operation.addr]]
           /\ UNCHANGED <<register, proposed, Held, votes>>
<1>1. UNCHANGED <<votes, written, cspace, writeRow>>
    BY DEF Called, acceptorVars, spaceVars, rowVars
<1>2. UNCHANGED Held
    BY <1>1 DEF Held, Holds
<1> QED
    BY <1>1, <1>2, RegisterOfVotes DEF Called, Doing, NoCall

LEMMA StartLayer ==
    ASSUME TypeInv, NEW c \in Clients, NEW operation \in Call,
           Called(c, operation), Start(c)
    PROVE  /\ Doing' = [Doing EXCEPT ![c] = operation]
           /\ Answer' = [Answer EXCEPT ![c] = "none"]
           /\ UNCHANGED <<Asking, readCmd>>
<1>1. /\ pc[c] = "idle" /\ pc' = [pc EXCEPT ![c] = "capture_send"]
      /\ call' = [call EXCEPT ![c] = operation]
      /\ status' = [status EXCEPT ![c] = "none"]
      /\ UNCHANGED readCmd
      /\ pc \in [Clients -> Location]
      /\ DOMAIN call = Clients /\ DOMAIN status = Clients
    BY DEF Called, Start, TypeInv, ControlTyped
<1>2. Doing' = [Doing EXCEPT ![c] = operation]
    BY <1>1 DEF Doing
<1>3. Answer' = [Answer EXCEPT ![c] = "none"]
    BY <1>1 DEF Answer
<1>4. Asking' = Asking
    BY <1>1 DEF Asking
<1> QED
    BY <1>1, <1>2, <1>3, <1>4

LEMMA CallRefines ==
    ASSUME TypeInv, NEW c \in Clients, NEW x \in Addr,
           \/ \E cmd \in Cmd : wor_capture_and_write(c, x, cmd)
           \/ wor_read(c, x)
    PROVE  LayerNext
<1>1. CASE \E cmd \in Cmd : wor_capture_and_write(c, x, cmd)
    <2>1. PICK cmd \in Cmd : wor_capture_and_write(c, x, cmd)
        BY <1>1
    <2>2. PICK operation :
            operation = [op |-> "write", addr |-> x, cmd |-> cmd]
        OBVIOUS
    <2>3. /\ operation \in Call /\ operation.addr = x
          /\ Called(c, operation) /\ Start(c) /\ UNCHANGED proposed
        BY <2>1, <2>2, CalledTyped DEF wor_capture_and_write, Call
    <2> QED
        BY <2>2, <2>3, CalledLayer, StartLayer, LayerWriteBegins
<1>2. CASE wor_read(c, x)
    <2>1. PICK operation :
            operation = [op |-> "read", addr |-> x, cmd |-> UndefCmd]
        OBVIOUS
    <2>2. /\ operation \in Call /\ operation.addr = x
          /\ Called(c, operation) /\ UNCHANGED proposed
        BY <1>2, <2>1 DEF wor_read, Call
    <2>3. /\ Doing[c].op = "none"
          /\ before' = [before EXCEPT ![c] = register[x]]
          /\ UNCHANGED <<register, proposed, Held>>
        BY <2>2, CalledLayer
    <2>4. CASE ~written[c][x] /\ Start(c)
        <3>1. Held[c][x] = {}
            BY <2>4 DEF Held, Holds
        <3> QED
            BY <2>1, <2>2, <2>3, <2>4, <3>1, StartLayer, LayerReadBegins
    <2>5. CASE /\ written[c][x]
               /\ status' = [status EXCEPT ![c] = "ALREADYWRITTEN"]
               /\ readCmd' = [readCmd EXCEPT ![c] = cspace[c][x].vcmd]
               /\ UNCHANGED pc
        <3>1. Answer' = [Answer EXCEPT ![c] = "ALREADYWRITTEN"]
            BY <2>5 DEF Answer, TypeInv, ControlTyped
        <3>2. UNCHANGED <<Doing, Asking>>
            BY <2>2, <2>5 DEF Called, Doing, Asking, TypeInv, ControlTyped
        <3> QED
            BY <2>3, <2>5, <3>1, <3>2, LayerReadsHeld
    <2> QED
        BY <1>2, <2>4, <2>5 DEF wor_read
<1> QED
    BY <1>1, <1>2

\* A call that fails before its write round.
LEMMA FailureRefines ==
    ASSUME TypeInv, NEW c \in Clients, NEW x \in Addr, x = call[c].addr,
           pc[c] \notin {"idle", "write_receive"}, ~written[c][x],
           NEW st \in {"ERROR", "TIMEOUT"}, UNCHANGED <<call, proposed, before>>,
           UNCHANGED <<register, Held>>, Ends(c, st, UndefCmd)
    PROVE  LayerNext
<1>1. /\ Doing[c].op # "none" /\ Doing[c].addr = x
      /\ ~Asking[c] /\ Held[c][x] = {}
    BY ClientDoes DEF Asking, Held, Holds
<1>2. /\ Doing' = [Doing EXCEPT ![c] = NoCall]
      /\ Asking' = [Asking EXCEPT ![c] = FALSE]
      /\ Answer' = [Answer EXCEPT ![c] = "TIMEOUT"]
      /\ readCmd' = IF Doing[c].op = "read"
                    THEN [readCmd EXCEPT ![c] = UndefCmd] ELSE readCmd
    BY EndsLayer
<1>3. Asking' = Asking
    BY <1>1, <1>2 DEF Asking
<1>4. RegisterLayer!Fails(c, "TIMEOUT")
    BY <1>1, <1>2, <1>3, LayerFails
<1> QED
    BY <1>4, ProceedsNext
    DEF RegisterLayer!TimesOut, RegisterLayer!Proceeds

\* A round that goes on to its next place before the write round.
LEMMA GoesOnRefines ==
    ASSUME TypeInv, NEW c \in Clients, pc[c] \notin {"idle", "write_receive"},
           NEW place \in {"capture_send", "capture_receive", "write_send"},
           pc' = [pc EXCEPT ![c] = place],
           UNCHANGED <<call, proposed, before, status, readCmd, register, Held>>
    PROVE  LayerNext
<1>1. /\ Doing' = Doing /\ Answer' = Answer
      /\ Asking' = [Asking EXCEPT ![c] = FALSE]
    BY GoesOnLayer
<1>2. Asking' = Asking
    BY <1>1 DEF Asking
<1> QED
    BY <1>1, <1>2, LayerStutters

LEMMA CaptureSendRefines ==
    ASSUME TypeInv, TypeInv', IInv, CallsInv, NEW c \in Clients,
           wor_capture_send(c)
    PROVE  LayerNext
<1>1. PICK x \in Addr : x = call[c].addr
    BY DEF wor_capture_send, TypeInv, ControlTyped, Call
<1>2. /\ UNCHANGED <<votes, proposed, before, written>>
      /\ pc[c] = "capture_send"
    BY DEF wor_capture_send, inputVars, spaceVars, acceptorVars
<1>3. UNCHANGED register
    BY <1>2, RegisterOfVotes
<1>4. CASE written[c][x]
    <2> DEFINE cmd == cspace[c][x].vcmd
    <2>1. /\ CaptureRoundEnds(c, "ALREADYWRITTEN", cmd)
          /\ UNCHANGED <<cspace, writeRow>>
        BY <1>1, <1>4 DEF wor_capture_send, spaceVars, rowVars
    <2>2. attempts[c] - 1 > 0
        BY <1>1, <1>2, <1>4, CallsInvParts, BoundsAssumption
        DEF Knows, Turns
    <2>3. Returns(c, "ALREADYWRITTEN", cmd)
        BY <2>1, <2>2 DEF CaptureRoundEnds
    <2>4. PICK st :
            /\ UNCHANGED call
            /\ st = IF call[c].op = "read" THEN "OK" ELSE "ALREADYWRITTEN"
            /\ Ends(c, st, cmd)
        BY <2>3, ReturnsEnds
    <2>5. /\ Doing[c].op # "none" /\ Doing[c] = call[c]
          /\ Doing' = [Doing EXCEPT ![c] = NoCall]
          /\ Asking' = [Asking EXCEPT ![c] = FALSE]
          /\ Answer' = [Answer EXCEPT ![c] = st]
          /\ readCmd' = IF Doing[c].op = "read"
                        THEN [readCmd EXCEPT ![c] = cmd] ELSE readCmd
        BY <1>2, <2>4, ClientDoes, EndsLayer
    <2>6. Asking' = Asking
        BY <1>2, <2>5 DEF Asking
    <2>7. Held' = Held
        BY <1>2, <2>1 DEF Held, Holds
    <2>8. Answer' = [Answer EXCEPT ![c] = IF Doing[c].op = "read" THEN "OK"
                                          ELSE "ALREADYWRITTEN"]
        BY <2>4, <2>5
    <2>9. x = Doing[c].addr
        BY <1>1, <2>5
    <2>10. RegisterLayer!FindsWritten(c)
        BY <1>2, <1>3, <1>4, <2>5, <2>6, <2>7, <2>8, <2>9, LayerFindsWritten
    <2> QED
        BY <2>10, ProceedsNext
        DEF RegisterLayer!Proceeds
<1>5. CASE ~written[c][x]
    <2>1. PICK e, row :
            /\ cspace' = [cspace EXCEPT ![c][x] = e]
            /\ writeRow' = [writeRow EXCEPT ![c][x] = row]
        BY <1>1, <1>5 DEF wor_capture_send
    <2>2. Held' = Held
        <3>1. \A d \in Clients, y \in Addr : d # c \/ y # x =>
                /\ cspace'[d][y] = cspace[d][y]
                /\ writeRow'[d][y] = writeRow[d][y]
            BY <2>1 DEF TypeInv, SpacesTyped, RowsTyped
        <3> QED
            BY <1>2, <1>5, <3>1, HeldSame
    <2>3. CASE CaptureRoundEnds(c, "ERROR", UndefCmd)
        <3>1. PICK st \in {"ERROR", "TIMEOUT"} : Returns(c, st, UndefCmd)
            BY <2>3 DEF CaptureRoundEnds
        <3>2. UNCHANGED call /\ Ends(c, st, UndefCmd)
            BY <3>1, ReturnsEnds, FailureEnds
        <3> QED
            BY <1>1, <1>2, <1>3, <1>5, <2>2, <3>2, FailureRefines
    <2>4. CASE /\ pc' = [pc EXCEPT ![c] = "capture_receive"]
               /\ UNCHANGED <<call, status, readCmd>>
        BY <1>2, <1>3, <2>2, <2>4, GoesOnRefines
    <2> QED
        BY <1>1, <1>5, <2>3, <2>4 DEF wor_capture_send
<1> QED
    BY <1>4, <1>5

LEMMA CaptureTurnRefines ==
    ASSUME TypeInv, TypeInv', IInv, CallsInv, NEW c \in Clients,
           NEW x \in Addr, CaptureTurn(c, x)
    PROVE  LayerNext
<1>1. /\ x = call[c].addr /\ pc[c] = "capture_receive"
      /\ UNCHANGED <<votes, proposed, before, written, writeRow>>
    BY DEF CaptureTurn, acceptorVars
<1>2. UNCHANGED register
    BY <1>1, RegisterOfVotes
<1>3. ~written[c][x]
    BY <1>1, CallsInvParts DEF Knows, Turns
<1>4. Held' = Held
    BY <1>1, <1>3, HeldSame DEF CaptureTurn
<1>5. /\ UNCHANGED call
      /\ \/ GoesOn(c, "capture_receive")
         \/ GoesOn(c, "capture_send")
         \/ GoesOn(c, "write_send")
         \/ Ends(c, "TIMEOUT", UndefCmd)
    BY CaptureLoopEnds DEF CaptureTurn
<1>6. CASE Ends(c, "TIMEOUT", UndefCmd)
    BY <1>1, <1>2, <1>3, <1>4, <1>5, <1>6, FailureRefines
<1>7. ASSUME NEW place \in {"capture_send", "capture_receive", "write_send"},
             GoesOn(c, place)
      PROVE  LayerNext
    BY <1>1, <1>2, <1>4, <1>5, <1>7, GoesOnRefines DEF GoesOn
<1> QED
    BY <1>5, <1>6, <1>7

LEMMA WriteSendRefines ==
    ASSUME TypeInv, TypeInv', IInv, CallsInv, NEW c \in Clients,
           wor_write_send(c)
    PROVE  LayerNext
<1>1. PICK x \in Addr : x = call[c].addr
    BY DEF wor_write_send, TypeInv, ControlTyped, Call
<1>2. /\ pc[c] = "write_send"
      /\ UNCHANGED <<votes, cspace, written, writeRow, before>>
    BY DEF wor_write_send, acceptorVars, spaceVars, rowVars
<1>3. ~written[c][x]
    BY <1>1, <1>2, CallsInvParts DEF Knows, Turns
<1>4. UNCHANGED <<register, Held>>
    BY <1>2, RegisterOfVotes DEF Held, Holds
<1>5. /\ Doing[c] = call[c] /\ Doing[c].op # "none"
      /\ ~Asking[c] /\ Held[c][x] = {}
    BY <1>2, <1>3, ClientDoes DEF Asking, Held, Holds
<1>6. CASE /\ Selected(c) = UndefCmd
           /\ ReadReturns(c, "UNWRITTEN", UndefCmd)
           /\ UNCHANGED proposed
    <2>1. /\ UNCHANGED call /\ Ends(c, "UNWRITTEN", UndefCmd)
          /\ call[c].op = "read"
        BY <1>6, ReturnsEnds DEF Returns, ReadReturns
    <2>2. /\ Doing' = [Doing EXCEPT ![c] = NoCall]
          /\ Asking' = [Asking EXCEPT ![c] = FALSE]
          /\ Answer' = [Answer EXCEPT ![c] = "UNWRITTEN"]
          /\ readCmd' = IF Doing[c].op = "read"
                        THEN [readCmd EXCEPT ![c] = UndefCmd] ELSE readCmd
        BY <1>2, <2>1, EndsLayer
    <2>3. Asking' = Asking
        BY <1>5, <2>2 DEF Asking
    <2>4. before[c] = {}
        BY <1>1, <1>2, <1>6, FoundUnwritten
    <2>5. RegisterLayer!Fails(c, "UNWRITTEN")
        BY <1>1, <1>2, <1>4, <1>5, <1>6, <2>2, <2>3, LayerFails
    <2>6. RegisterLayer!FindsUnwritten(c)
        BY <1>5, <2>1, <2>4, <2>5
        DEF RegisterLayer!FindsUnwritten, Doing
    <2> QED
        BY <2>6, ProceedsNext
        DEF RegisterLayer!Proceeds
<1>7. CASE /\ Selected(c) # UndefCmd
           /\ proposed' = IF cspace[c][x].vcmd = UndefCmd
                          THEN [proposed EXCEPT ![x] = @ \cup {call[c].cmd}]
                          ELSE proposed
           /\ pc' = [pc EXCEPT ![c] = "write_receive"]
           /\ UNCHANGED <<call, retries, attempts, status, readCmd>>
    <2> DEFINE e == cspace[c][x]
    <2>1. /\ Doing' = Doing /\ Answer' = Answer
          /\ Asking' = [Asking EXCEPT ![c] = TRUE]
        BY <1>2, <1>7, GoesOnLayer
    <2>2. CASE e.vcmd = UndefCmd
        <3>1. Doing[c].op = "write"
            BY <1>1, <1>3, <1>5, <1>7, <2>2
            DEF Selected, TypeInv, ControlTyped, Call, NoCall
        <3>2. RegisterLayer!Ask(c)
            BY <1>1, <1>2, <1>4, <1>5, <1>7, <2>1, <2>2, <3>1, LayerAsks
        <3> QED
            BY <3>2, ProceedsNext
            DEF RegisterLayer!Proceeds
    <2>3. CASE e.vcmd # UndefCmd
        <3>1. CaptureReports(c, x)
            BY <1>1, <1>2 DEF IInv, CapturesReport, Capturing
        <3>2. PICK a \in Acceptors : VotedFor(a, x, e.vprop, e.vcmd)
            BY <2>3, <3>1 DEF CaptureReports
        <3>3. <<e.vprop, e.vcmd>> \in Asked(x)
            BY <3>2, VotesAsked
        <3>4. proposed[x] # {}
            BY <3>3 DEF IInv, AskedIsProposed
        <3>5. RegisterLayer!Ask(c)
            BY <1>1, <1>2, <1>4, <1>5, <1>7, <2>1, <2>3, <3>4, LayerAsks
        <3> QED
            BY <3>5, ProceedsNext
            DEF RegisterLayer!Proceeds
    <2> QED
        BY <2>2, <2>3
<1> QED
    BY <1>1, <1>6, <1>7 DEF wor_write_send

LEMMA WriteTurnRefines ==
    ASSUME TypeInv, TypeInv', IInv, CallsInv, NEW c \in Clients,
           NEW x \in Addr, WriteTurn(c, x)
    PROVE  LayerNext
<1> DEFINE cmd == cspace'[c][x].vcmd
<1>1. /\ x = call[c].addr /\ pc[c] = "write_receive"
      /\ UNCHANGED <<votes, proposed, before>>
    BY DEF WriteTurn, acceptorVars
<1>2. UNCHANGED register
    BY <1>1, RegisterOfVotes
<1>3. /\ ~written[c][x]
      /\ retries[c] = MaxRetries /\ MaxRetries > 1
    BY <1>1, CallsInvParts DEF Knows, Turns
<1>4. /\ UNCHANGED call
      /\ \/ GoesOn(c, "write_receive") /\ UNCHANGED written
         \/ /\ written' = [written EXCEPT ![c][x] = TRUE]
            /\ pc' = [pc EXCEPT ![c] = "capture_send"]
            /\ UNCHANGED <<status, readCmd>>
         \/ /\ written' = [written EXCEPT ![c][x] = TRUE]
            /\ IsQuorum(writeRow'[c][x])
            /\ Ends(c, "OK", cmd)
    BY <1>1, <1>3, WriteLoopEnds DEF WriteTurn
<1>5. \A d \in Clients, y \in Addr : d # c \/ y # x =>
        /\ cspace'[d][y] = cspace[d][y]
        /\ writeRow'[d][y] = writeRow[d][y]
    BY DEF WriteTurn
<1>6. /\ Doing[c] = call[c] /\ Doing[c].op # "none" /\ Asking[c]
    BY <1>1, ClientDoes DEF Asking
<1>7. CASE GoesOn(c, "write_receive") /\ UNCHANGED written
    <2>1. Held' = Held
        BY <1>3, <1>5, <1>7, HeldSame
    <2>2. /\ Doing' = Doing /\ Answer' = Answer
          /\ Asking' = [Asking EXCEPT ![c] = TRUE]
        BY <1>1, <1>4, <1>7, GoesOnLayer DEF GoesOn
    <2>3. Asking' = Asking
        BY <1>6, <2>2 DEF Asking
    <2> QED
        BY <1>1, <1>2, <1>7, <2>1, <2>2, <2>3, LayerStutters DEF GoesOn
<1>8. CASE /\ written' = [written EXCEPT ![c][x] = TRUE]
           /\ \/ /\ pc' = [pc EXCEPT ![c] = "capture_send"]
                 /\ UNCHANGED <<status, readCmd>>
              \/ IsQuorum(writeRow'[c][x]) /\ Ends(c, "OK", cmd)
    <2>1. PICK sure \in BOOLEAN : sure = IsQuorum(writeRow'[c][x])
        <3> DEFINE n == Cardinality(writeRow'[c][x] \cap RowIndices)
        <3>1. n \in Nat
            <4>1. NumAcceptors \in Int
                BY AcceptorsAssumption DEF MIN_ACCEPTORS, MAX_ACCEPTORS
            <4>2. IsFiniteSet(RowIndices)
                BY <4>1, FS_Interval DEF RowIndices
            <4>3. IsFiniteSet(writeRow'[c][x] \cap RowIndices)
                BY <4>2, FS_Subset
            <4> QED
                BY <4>3, FS_CardinalityType
        <3> HIDE DEF n
        <3>2. (2 * n > NumAcceptors) \in BOOLEAN
            BY <3>1, AcceptorsAssumption DEF MIN_ACCEPTORS, MAX_ACCEPTORS
        <3> QED
            BY <3>2 DEF IsQuorum, n
    <2>2. PICK v : v = cmd
        OBVIOUS
    <2>3. Held' = [Held EXCEPT ![c][x] = {[cmd |-> v, sure |-> sure]}]
        BY <1>5, <1>8, <2>1, <2>2, NowHeld
    <2>4. sure => v \in register[x]
        BY <1>1, <1>4, <2>1, <2>2, AcknowledgedChosen
        DEF WriteTurn, register
    <2>5. ~sure => v \in RegisterLayer!Unacknowledged(c)
        <3>1. \A w \in before[c] : w = cmd
            BY DEF WriteTurn, HoldsChosen
        <3>2. /\ cmd \in proposed[x] \cup {UndefCmd}
              /\ cmd = UndefCmd => call[c].op = "write"
            BY <1>1, <1>4 DEF WriteTurn, RowVoted
        <3> QED
            BY <1>1, <1>6, <2>2, <3>1, <3>2
            DEF RegisterLayer!Unacknowledged, Doing
    <2>6. CASE /\ pc' = [pc EXCEPT ![c] = "capture_send"]
               /\ UNCHANGED <<status, readCmd>>
        <3>1. /\ Doing' = Doing /\ Answer' = Answer
              /\ Asking' = [Asking EXCEPT ![c] = FALSE]
            <4>1. PICK place \in {"capture_send"} :
                    pc' = [pc EXCEPT ![c] = place]
                BY <2>6
            <4> QED
                BY <1>1, <1>4, <2>6, <4>1, GoesOnLayer
        <3>2. RegisterLayer!Proceeds(c)
            BY <1>1, <1>2, <1>6, <2>3, <2>4, <2>5, <2>6, <3>1, LayerHolds
        <3> QED
            BY <3>2, ProceedsNext
    <2>7. CASE IsQuorum(writeRow'[c][x]) /\ Ends(c, "OK", cmd)
        <3>1. /\ Doing' = [Doing EXCEPT ![c] = NoCall]
              /\ Asking' = [Asking EXCEPT ![c] = FALSE]
              /\ Answer' = [Answer EXCEPT ![c] = "OK"]
              /\ readCmd' = IF Doing[c].op = "read"
                            THEN [readCmd EXCEPT ![c] = v] ELSE readCmd
            BY <1>1, <1>4, <2>2, <2>7, EndsLayer
        <3>2. RegisterLayer!Proceeds(c)
            BY <1>1, <1>2, <1>6, <2>1, <2>3, <2>4, <2>5, <2>7, <3>1,
               LayerHolds
        <3> QED
            BY <3>2, ProceedsNext
    <2> QED
        BY <1>8, <2>6, <2>7
<1> QED
    BY <1>4, <1>7, <1>8
-----------------------------------------------------------------------------
(***************************************************************************)
(* The refinement.                                                         *)
(***************************************************************************)
LEMMA InitRefinesCalls == Init => RegisterLayer!RegistersInit
<1> SUFFICES ASSUME Init PROVE RegisterLayer!RegistersInit
    OBVIOUS
<1>1. RegisterLayer!Registers!Init
    BY InitRefines
    DEF WriteOnceRegisters!Init, RegisterLayer!Registers!Init
<1>2. Doing = [c \in Clients |-> RegisterLayer!NoCall]
    BY DEF Init, Doing, NoCall, RegisterLayer!NoCall
<1>3. Asking = [c \in Clients |-> FALSE]
    <2>1. \A c \in Clients : (pc[c] = "write_receive") = FALSE
        BY DEF Init
    <2> QED
        BY <2>1 DEF Asking
<1>4. Held = [c \in Clients |-> [x \in Addr |-> {}]]
    <2>1. \A c \in Clients, x \in Addr : Holds(c, x) = {}
        BY DEF Init, Holds
    <2> QED
        BY <2>1 DEF Held
<1>5. Answer = [c \in Clients |-> "none"]
    BY DEF Init, Answer
<1>6. /\ before = [c \in Clients |-> {}]
      /\ readCmd = [c \in Clients |-> UndefCmd]
    BY DEF Init
<1> QED
    BY <1>1, <1>2, <1>3, <1>4, <1>5, <1>6
    DEF RegisterLayer!RegistersInit, Doing, Asking, Held, Holds, Answer

LEMMA NextRefinesCalls ==
    TypeInv /\ TypeInv' /\ IInv /\ IInv' /\ CallsInv /\ [Next]_vars
        => LayerNext
<1> SUFFICES ASSUME TypeInv, TypeInv', IInv, IInv', CallsInv, [Next]_vars
             PROVE  LayerNext
    OBVIOUS
<1>1. CASE UNCHANGED vars
    <2>1. /\ UNCHANGED <<votes, proposed, before, readCmd>>
          /\ UNCHANGED <<pc, call, status, written, cspace, writeRow>>
        BY <1>1
        DEF vars, acceptorVars, clientVars, spaceVars, rowVars, controlVars,
            inputVars
    <2>2. UNCHANGED <<Doing, Asking, Held, Answer>>
        BY <2>1 DEF Doing, Asking, Held, Holds, Answer
    <2> QED
        BY <2>1, <2>2, RegisterOfVotes, LayerStutters
<1>2. CASE \E a \in Up : acceptor_msg_handler(a)
    BY <1>2, UpAssumption, AcceptorRefines DEF acceptor_msg_handler
<1>3. ASSUME NEW c \in Clients, ClientStep(c)
      PROVE  LayerNext
    <2>1. CASE \/ \E x \in Addr, cmd \in Cmd : wor_capture_and_write(c, x, cmd)
               \/ \E x \in Addr : wor_read(c, x)
        BY <2>1, CallRefines
    <2>2. CASE wor_capture_send(c)
        BY <2>2, CaptureSendRefines
    <2>3. CASE wor_write_send(c)
        BY <2>3, WriteSendRefines
    <2>4. CASE client_receive(c) \/ ReceiveError(c)
        BY <2>4, ReceptionTurn, CaptureTurnRefines, WriteTurnRefines
    <2> QED
        BY <1>3, <2>1, <2>2, <2>3, <2>4 DEF ClientStep
<1> QED
    BY <1>1, <1>2, <1>3 DEF Next

(***************************************************************************)
(* The rounds implement what the callers of wor_capture_and_write and      *)
(* wor_read are promised, for every number of acceptors, clients and       *)
(* retries, and whatever the network loses, duplicates or delays: OK only  *)
(* for a command that is chosen, never UNWRITTEN or another command once   *)
(* one is chosen, and a call that timed out has asked for nothing.         *)
(***************************************************************************)
THEOREM RefinesCalls == Spec => ImplementsCalls
<1>1. TypeInv /\ TypeInv' /\ IInv /\ IInv' /\ CallsInv /\ [Next]_vars
        => UNCHANGED RegisterLayer!registerCallVars
           \/ RegisterLayer!RegistersNext
    BY NextRefinesCalls DEF LayerNext
<1> QED
    BY <1>1, InitRefinesCalls, CallsInvariance, PTL
    DEF Spec, ImplementsCalls, RegisterLayer!RegistersSpec
=============================================================================
