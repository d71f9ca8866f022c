-------------------------------- MODULE Wor --------------------------------
(***************************************************************************)
(* Write-once registers: single-shot Paxos on every log address.  Clients  *)
(* run wor_capture_and_write and wor_read (wor*.c); acceptors run          *)
(* acceptor_msg_handler (acceptor.c); they talk over UDP, which may lose,  *)
(* delay and reorder datagrams (any of those in transit may be the next to *)
(* arrive, or none) and duplicate them (MaxFaults bounds how often).       *)
(*                                                                         *)
(* A client is one thread.  It is interrupted by other processes only      *)
(* where it waits for a datagram, and each step below runs from one such   *)
(* point, or one sendto loop, to the next.                                 *)
(***************************************************************************)
EXTENDS PaxosCommon, Bags

CONSTANTS
    Up,             \* the acceptors that run; the others never answer
    Workload,       \* the operations the application runs: <<client, call>>
    MaxRetries,     \* MAX_RETRIES = 4
    MaxOps,         \* bound on the operations of one client
    MaxFaults       \* bound on duplicated datagrams and failed receptions

ASSUME UpAssumption == Up \subseteq Acceptors

ASSUME WorkloadAssumption == Workload \subseteq Clients \X Call

ASSUME BoundsAssumption ==
    /\ MaxRetries \in Nat \ {0}
    /\ MaxOps \in Nat
    /\ MaxFaults \in Nat

VARIABLES
    net,        \* the bag of datagrams in transit
    faults,     \* datagrams duplicated and receptions failed so far
    aspace,     \* aspace[a][x]: acceptor a's paxos_space entry at x
    votes,      \* votes[a][x]: history of what a accepted at x, <<prop, cmd>>
    cspace,     \* cspace[c][x]: client c's paxos_space entry at x
    written,    \* written[c][x]: its is_written field
    captureRow, \* captureRow[c][x]: wor_quorums_capture[x]
    writeRow,   \* writeRow[c][x]: wor_quorums_write[x]
    pc,         \* where client c is
    call,       \* the operation c runs, or ran last, and its arguments
    retries,    \* count of wor_capture_and_write and wor_read_helper
    attempts,   \* count of wor_capture
    pending,    \* count of the two receive loops
    status,     \* what the last completed operation returned
    readCmd,    \* wor_read_cmd0, wor_read_cmd1
    ops,        \* operations c has started
    proposed,   \* proposed[x]: history of the commands clients asked for
    before      \* history: what was chosen at the address when c's call began

netVars == <<net, faults>>
acceptorVars == <<aspace, votes>>
spaceVars == <<cspace, written>>
rowVars == <<captureRow, writeRow>>
controlVars == <<pc, call, retries, attempts, pending, status, readCmd>>
inputVars == <<ops, proposed, before>>
clientVars == <<spaceVars, rowVars, controlVars, inputVars>>
vars == <<netVars, acceptorVars, clientVars>>
-----------------------------------------------------------------------------
Entry == [prop : Proposal, vprop : Proposal, vcmd : CmdOrUndef]

EmptyEntry == [prop |-> PROP_UNDEF, vprop |-> PROP_UNDEF, vcmd |-> UndefCmd]

NoCall == [op |-> "none", addr |-> 0, cmd |-> UndefCmd]

Location == {"idle", "capture_send", "capture_receive",
             "write_send", "write_receive"}

Status == {"OK", "ALREADYWRITTEN", "UNWRITTEN", "TIMEOUT", "ERROR",
           "PREEMPTED"}

TypeOK ==
    /\ IsABag(net)
    /\ BagToSet(net) \subseteq Message
    /\ faults \in 0 .. MaxFaults
    /\ aspace \in [Acceptors -> [Addr -> Entry]]
    /\ votes \in [Acceptors -> [Addr -> SUBSET (Proposal \X Cmd)]]
    /\ cspace \in [Clients -> [Addr -> Entry]]
    /\ written \in [Clients -> [Addr -> BOOLEAN]]
    /\ captureRow \in [Clients -> [Addr -> SUBSET Acceptors]]
    /\ writeRow \in [Clients -> [Addr -> SUBSET Acceptors]]
    /\ pc \in [Clients -> Location]
    /\ call \in [Clients -> Call \cup {NoCall}]
    /\ \A c \in Clients : pc[c] # "idle" => call[c] \in Call
    /\ retries \in [Clients -> 0 .. MaxRetries]
    /\ attempts \in [Clients -> 0 .. MaxRetries]
    /\ pending \in [Clients -> 0 .. NumAcceptors]
    /\ status \in [Clients -> Status \cup {"none"}]
    /\ readCmd \in [Clients -> CmdOrUndef]
    /\ ops \in [Clients -> 0 .. MaxOps]
    /\ proposed \in [Addr -> SUBSET Cmd]
    /\ before \in [Clients -> SUBSET Cmd]

Init ==
    /\ net = EmptyBag
    /\ faults = 0
    /\ aspace = [a \in Acceptors |-> [x \in Addr |-> EmptyEntry]]
    /\ votes = [a \in Acceptors |-> [x \in Addr |-> {}]]
    /\ cspace = [c \in Clients |-> [x \in Addr |-> EmptyEntry]]
    /\ written = [c \in Clients |-> [x \in Addr |-> FALSE]]
    /\ captureRow = [c \in Clients |-> [x \in Addr |-> {}]]
    /\ writeRow = [c \in Clients |-> [x \in Addr |-> {}]]
    /\ pc = [c \in Clients |-> "idle"]
    /\ call = [c \in Clients |-> NoCall]
    /\ retries = [c \in Clients |-> 0]
    /\ attempts = [c \in Clients |-> 0]
    /\ pending = [c \in Clients |-> 0]
    /\ status = [c \in Clients |-> "none"]
    /\ readCmd = [c \in Clients |-> UndefCmd]
    /\ ops = [c \in Clients |-> 0]
    /\ proposed = [x \in Addr |-> {}]
    /\ before = [c \in Clients |-> {}]
-----------------------------------------------------------------------------
\* A command is chosen when more than half of the acceptors voted for it
\* under the same proposal number.
VotedFor(a, x, p, v) == <<p, v>> \in votes[a][x]

ChosenAt(x, p, v) == {a \in Acceptors : VotedFor(a, x, p, v)} \in Majority

Chosen(x, v) == \E a \in Acceptors : \E r \in votes[a][x] :
                    r[2] = v /\ ChosenAt(x, r[1], v)

\* The registers of the abstract specification, as the votes define them.
register == [x \in Addr |-> {v \in Cmd : Chosen(x, v)}]
-----------------------------------------------------------------------------
\* Mutant: the loop of paxos_broadcast_msg stops before index 0, acceptor 1.
BroadcastAllButOne(sent) ==
    /\ net' = net (+) SetToBag({m \in sent : m.to # 1})
    /\ UNCHANGED faults

\* paxos_broadcast_msg: one datagram for each acceptor of the client's view.
Broadcast(sent) ==
    /\ net' = net (+) SetToBag(sent)
    /\ UNCHANGED faults

\* A process receives m and sends the datagrams "sent".  When the network
\* duplicates m, a copy of it stays in transit.
Receive(m, sent) ==
    \/ /\ net' = (net (-) SetToBag({m})) (+) SetToBag(sent)
       /\ UNCHANGED faults
    \/ /\ faults < MaxFaults
       /\ faults' = faults + 1
       /\ net' = net (+) SetToBag(sent)
-----------------------------------------------------------------------------
(***************************************************************************)
(* The acceptor's handler.  Both branches answer the sender; the capture   *)
(* branch answers with the entry as it was BEFORE the new proposal number  *)
(* is stored.  A request that fails its guard is dropped without answer.   *)
(***************************************************************************)
\* Mutant: no answer to a proposal that is not newer.
CaptureAnswerNewer(a, m) ==
    LET old == aspace[a][m.addr] IN
    IF m.prop <= old.prop THEN {}
    ELSE {[type |-> "CAPTURE_ACK", client |-> m.client, from |-> a,
           addr |-> m.addr, prop |-> old.prop, vprop |-> old.vprop,
           vcmd |-> old.vcmd]}

\* Mutant: the answer carries the number that the acceptor has now promised.
CaptureAnswerPromised(a, m) ==
    LET old == aspace[a][m.addr] IN
    {[type |-> "CAPTURE_ACK", client |-> m.client, from |-> a,
      addr |-> m.addr, prop |-> IF old.prop < m.prop THEN m.prop ELSE old.prop,
      vprop |-> old.vprop, vcmd |-> old.vcmd]}

CaptureAnswer(a, m) ==
    LET old == aspace[a][m.addr] IN
    {[type |-> "CAPTURE_ACK", client |-> m.client, from |-> a,
      addr |-> m.addr, prop |-> old.prop, vprop |-> old.vprop,
      vcmd |-> old.vcmd]}

HandleCapture(a, m) ==
    /\ m.type = "CAPTURE"
    /\ m.to = a
    /\ aspace' = IF aspace[a][m.addr].prop < m.prop
                 THEN [aspace EXCEPT ![a][m.addr].prop = m.prop]
                 ELSE aspace
    /\ Receive(m, CaptureAnswer(a, m))
    /\ UNCHANGED <<votes, clientVars>>

\* Mutant: no test of the acceptor's promise.
AcceptableAnyProposal(a, m) ==
    /\ m.prop # PROP_UNDEF
    /\ m.vcmd # UndefCmd

Acceptable(a, m) ==
    /\ m.prop # PROP_UNDEF
    /\ m.vcmd # UndefCmd
    /\ aspace[a][m.addr].prop <= m.prop

HandleAccept(a, m) ==
    /\ m.type = "ACCEPT"
    /\ m.to = a
    /\ \/ /\ Acceptable(a, m)
          /\ aspace' = [aspace EXCEPT ![a][m.addr] =
                          [prop |-> m.prop, vprop |-> m.prop,
                           vcmd |-> m.vcmd]]
          /\ votes' = [votes EXCEPT ![a][m.addr] =
                          @ \cup {<<m.prop, m.vcmd>>}]
          /\ Receive(m, {[type |-> "ACCEPT_ACK", client |-> m.client,
                          from |-> a, addr |-> m.addr, prop |-> m.prop,
                          vprop |-> m.vprop, vcmd |-> m.vcmd]})
       \/ /\ ~Acceptable(a, m)
          /\ Receive(m, {})
          /\ UNCHANGED acceptorVars
    /\ UNCHANGED clientVars

acceptor_msg_handler(a) ==
    \E m \in BagToSet(net) : HandleCapture(a, m) \/ HandleAccept(a, m)
-----------------------------------------------------------------------------
(***************************************************************************)
(* How the client's loops end.  Each operator gives the control state      *)
(* after the code up to the next receive, send loop or return; "cmd" is    *)
(* what paxos_space holds at that point.                                   *)
(***************************************************************************)
Idle(c) ==
    /\ pc' = [pc EXCEPT ![c] = "idle"]
    /\ retries' = [retries EXCEPT ![c] = 0]
    /\ attempts' = [attempts EXCEPT ![c] = 0]
    /\ pending' = [pending EXCEPT ![c] = 0]

\* wor_capture_and_write returns st.
WriteReturns(c, st) ==
    /\ call[c].op = "write"
    /\ Idle(c)
    /\ status' = [status EXCEPT ![c] = st]
    /\ UNCHANGED <<call, readCmd>>

\* wor_read_helper returns st to wor_read, which turns ALREADYWRITTEN into OK.
ReadReturns(c, st, cmd) ==
    /\ call[c].op = "read"
    /\ Idle(c)
    /\ LET ok == st \in {"OK", "ALREADYWRITTEN"} IN
        /\ status' = [status EXCEPT ![c] = IF ok THEN "OK" ELSE st]
        /\ readCmd' = [readCmd EXCEPT ![c] = IF ok THEN cmd ELSE UndefCmd]
    /\ UNCHANGED call

Returns(c, st, cmd) == WriteReturns(c, st) \/ ReadReturns(c, st, cmd)

\* Mutant: a preempted capture round does not count as an attempt.
CaptureRoundEndsUncounted(c, st, cmd) ==
    \/ /\ st = "PREEMPTED"
       /\ pc' = [pc EXCEPT ![c] = "capture_send"]
       /\ pending' = [pending EXCEPT ![c] = 0]
       /\ UNCHANGED <<call, retries, attempts, status, readCmd>>
    \/ /\ st = "OK"
       /\ pc' = [pc EXCEPT ![c] = "write_send"]
       /\ attempts' = [attempts EXCEPT ![c] = 0]
       /\ pending' = [pending EXCEPT ![c] = 0]
       /\ UNCHANGED <<call, retries, status, readCmd>>
    \/ /\ st \in {"ALREADYWRITTEN", "ERROR"}
       /\ Returns(c, st, cmd)

\* One round of the loop of wor_capture ended with st.
CaptureRoundEnds(c, st, cmd) ==
    LET left == attempts[c] - 1 IN
    \/ /\ st = "PREEMPTED"
       /\ left > 0
       /\ attempts' = [attempts EXCEPT ![c] = left]
       /\ pc' = [pc EXCEPT ![c] = "capture_send"]
       /\ pending' = [pending EXCEPT ![c] = 0]
       /\ UNCHANGED <<call, retries, status, readCmd>>
    \/ /\ st = "OK"
       /\ left > 0
       /\ pc' = [pc EXCEPT ![c] = "write_send"]
       /\ attempts' = [attempts EXCEPT ![c] = 0]
       /\ pending' = [pending EXCEPT ![c] = 0]
       /\ UNCHANGED <<call, retries, status, readCmd>>
    \/ /\ left = 0
       /\ Returns(c, "TIMEOUT", cmd)
    \/ /\ st \in {"ALREADYWRITTEN", "ERROR"}
       /\ left > 0
       /\ Returns(c, st, cmd)

\* wor_write returned st to the loop of wor_capture_and_write or
\* wor_read_helper.  Only the former reports its last round as a timeout.
WriteRoundEnds(c, st, cmd) ==
    LET left == retries[c] - 1 IN
    \/ /\ st = "PREEMPTED"
       /\ left > 0
       /\ retries' = [retries EXCEPT ![c] = left]
       /\ attempts' = [attempts EXCEPT ![c] = MaxRetries]
       /\ pc' = [pc EXCEPT ![c] = "capture_send"]
       /\ pending' = [pending EXCEPT ![c] = 0]
       /\ UNCHANGED <<call, status, readCmd>>
    \/ /\ st = "PREEMPTED" => left = 0
       /\ \/ WriteReturns(c, IF left = 0 THEN "TIMEOUT" ELSE st)
          \/ ReadReturns(c, st, cmd)
-----------------------------------------------------------------------------
(***************************************************************************)
(* The client's operations.                                                *)
(***************************************************************************)
\* The application calls an operation of the workload on an idle client.
Called(c, operation) ==
    /\ <<c, operation>> \in Workload
    /\ pc[c] = "idle"
    /\ ops[c] < MaxOps
    /\ ops' = [ops EXCEPT ![c] = @ + 1]
    /\ call' = [call EXCEPT ![c] = operation]
    /\ before' = [before EXCEPT ![c] = register[operation.addr]]
    /\ UNCHANGED <<netVars, acceptorVars, spaceVars, rowVars, pending>>

\* The first turn of the loop, and of the capture loop inside it.
Start(c) ==
    /\ pc' = [pc EXCEPT ![c] = "capture_send"]
    /\ retries' = [retries EXCEPT ![c] = MaxRetries]
    /\ attempts' = [attempts EXCEPT ![c] = MaxRetries]
    /\ status' = [status EXCEPT ![c] = "none"]
    /\ UNCHANGED readCmd

wor_capture_and_write(c, x, cmd) ==
    /\ Called(c, [op |-> "write", addr |-> x, cmd |-> cmd])
    /\ Start(c)
    /\ UNCHANGED proposed

\* A register known to be written is read from paxos_space, without messages.
wor_read(c, x) ==
    /\ Called(c, [op |-> "read", addr |-> x, cmd |-> UndefCmd])
    /\ \/ /\ written[c][x]
          /\ status' = [status EXCEPT ![c] = "ALREADYWRITTEN"]
          /\ readCmd' = [readCmd EXCEPT ![c] = cspace[c][x].vcmd]
          /\ UNCHANGED <<pc, retries, attempts>>
       \/ /\ ~written[c][x]
          /\ Start(c)
    /\ UNCHANGED proposed

\* Mutant: PROP_MAX is not tested.
NextProposalUnbounded(c, x) == PROP_NEXT(cspace[c][x].prop, c)

\* Mutant: the client's id is not part of the number.
NextProposalWithoutId(c, x) ==
    LET prop == PROP_NEXT_NUM(cspace[c][x].prop) IN
    IF prop <= PropMax THEN prop ELSE PROP_UNDEF

\* The next round of c's numbers, or PROP_UNDEF when there is none left.
wor_get_next_proposal(c, x) ==
    LET prop == PROP_NEXT(cspace[c][x].prop, c) IN
    IF prop <= PropMax THEN prop ELSE PROP_UNDEF

wor_capture_send(c) ==
    LET x == call[c].addr
        old == cspace[c][x]
        prop == wor_get_next_proposal(c, x)
    IN
    /\ pc[c] = "capture_send"
    /\ \/ /\ written[c][x]
          /\ CaptureRoundEnds(c, "ALREADYWRITTEN", old.vcmd)
          /\ UNCHANGED <<netVars, spaceVars, rowVars>>
       \/ /\ ~written[c][x]
          /\ captureRow' = [captureRow EXCEPT ![c][x] = RowReset(@)]
          /\ writeRow' = [writeRow EXCEPT ![c][x] = RowReset(@)]
          /\ \/ /\ prop = PROP_UNDEF
                /\ cspace' = [cspace EXCEPT ![c][x] =
                                [EmptyEntry EXCEPT !.prop = old.prop]]
                /\ CaptureRoundEnds(c, "ERROR", UndefCmd)
                /\ UNCHANGED netVars
             \/ /\ prop # PROP_UNDEF
                /\ cspace' = [cspace EXCEPT ![c][x] =
                                [EmptyEntry EXCEPT !.prop = prop]]
                /\ Broadcast([type : {"CAPTURE"}, client : {c},
                              to : Acceptors, addr : {x}, prop : {prop},
                              vprop : {PROP_UNDEF}, vcmd : {UndefCmd}])
                /\ pc' = [pc EXCEPT ![c] = "capture_receive"]
                /\ pending' = [pending EXCEPT ![c] = NumAcceptors]
                /\ UNCHANGED <<call, retries, attempts, status, readCmd>>
          /\ UNCHANGED written
    /\ UNCHANGED <<acceptorVars, inputVars>>

\* The while of wor_capture_receive after a datagram was handled with st.
CaptureLoop(c, st) ==
    LET x == call[c].addr
        left == pending[c] - 1
        full == IsQuorum(captureRow'[c][x])
        stop == left = 0 \/ st = "PREEMPTED" \/ full
    IN
    \/ /\ ~stop
       /\ pending' = [pending EXCEPT ![c] = left]
       /\ UNCHANGED <<pc, call, retries, attempts, status, readCmd>>
    \/ /\ stop
       /\ CaptureRoundEnds(c, IF left = 0 THEN "PREEMPTED" ELSE st,
                           cspace'[c][x].vcmd)

\* Mutant: an acknowledgment counts at whatever address the client works on.
ExpectedAnyAddress(c, m, type, row) ==
    /\ m.type = type
    /\ m.from \notin row[c][call[c].addr]

\* What wor_handle_capture_ack and wor_handle_write_ack test of a datagram.
Expected(c, m, type, row) ==
    /\ m.type = type
    /\ m.addr = call[c].addr
    /\ m.from \notin row[c][call[c].addr]

Current(c, m) == m.prop = cspace[c][call[c].addr].prop

Overtakes(c, m) == cspace[c][call[c].addr].prop < m.prop

\* Mutant: the comparison of the votes is the wrong way round.
ReportsOlderVote(c, m) ==
    /\ m.vprop # PROP_UNDEF
    /\ m.vcmd # UndefCmd
    /\ cspace[c][call[c].addr].vprop > m.vprop

ReportsVote(c, m) ==
    /\ m.vprop # PROP_UNDEF
    /\ m.vcmd # UndefCmd
    /\ cspace[c][call[c].addr].vprop < m.vprop

\* Mutant: the proposal number of the vote is not stored.
AdoptCommandOnly(c, m) ==
    cspace' = [cspace EXCEPT ![c][call[c].addr] =
                [prop |-> @.prop, vprop |-> @.vprop, vcmd |-> m.vcmd]]

\* The vote that m carries becomes the one c keeps for the address.
AdoptVote(c, m) ==
    cspace' = [cspace EXCEPT ![c][call[c].addr] =
                [prop |-> @.prop, vprop |-> m.vprop, vcmd |-> m.vcmd]]

\* A datagram for c: counted, a preemption, or ignored; it always uses up one
\* turn of the loop, and so does a failed recvfrom (ReceiveError).
wor_capture_receive(c, m) ==
    LET expected == Expected(c, m, "CAPTURE_ACK", captureRow) IN
    /\ pc[c] = "capture_receive"
    /\ Receive(m, {})
    /\ \/ /\ expected /\ Current(c, m)
          /\ captureRow' = [captureRow EXCEPT ![c][call[c].addr] =
                            @ \cup {m.from}]
          /\ IF ReportsVote(c, m) THEN AdoptVote(c, m) ELSE UNCHANGED cspace
          /\ CaptureLoop(c, "OK")
       \/ /\ ~(expected /\ Current(c, m))
          /\ UNCHANGED <<captureRow, cspace>>
          /\ CaptureLoop(c, IF expected /\ Overtakes(c, m)
                            THEN "PREEMPTED" ELSE "OK")
    /\ UNCHANGED <<acceptorVars, written, writeRow, inputVars>>

\* wor_select_value: the command the capture found, else the caller's.
Selected(c) ==
    LET x == call[c].addr IN
    IF ~written[c][x] /\ cspace[c][x].vcmd = UndefCmd
    THEN call[c].cmd ELSE cspace[c][x].vcmd

\* wor_read_helper reports a captured register without any vote as
\* unwritten; otherwise both callers go through wor_write_send.
wor_write_send(c) ==
    LET x == call[c].addr IN
    /\ pc[c] = "write_send"
    /\ \/ /\ Selected(c) = UndefCmd
          /\ ReadReturns(c, "UNWRITTEN", UndefCmd)
          /\ UNCHANGED <<netVars, proposed>>
       \/ /\ Selected(c) # UndefCmd
          /\ Broadcast([type : {"ACCEPT"}, client : {c}, to : Acceptors,
                        addr : {x}, prop : {cspace[c][x].prop},
                        vprop : {cspace[c][x].prop}, vcmd : {Selected(c)}])
          /\ proposed' = IF cspace[c][x].vcmd = UndefCmd
                         THEN [proposed EXCEPT ![x] = @ \cup {call[c].cmd}]
                         ELSE proposed
          /\ pc' = [pc EXCEPT ![c] = "write_receive"]
          /\ pending' = [pending EXCEPT ![c] = NumAcceptors]
          /\ UNCHANGED <<call, retries, attempts, status, readCmd>>
    /\ UNCHANGED <<acceptorVars, spaceVars, rowVars, ops, before>>

\* The while of wor_write_receive.  is_written is set whenever the loop ends
\* with ret = OK, also when it ends because no turn is left.
WriteLoop(c, st) ==
    LET x == call[c].addr
        left == pending[c] - 1
        full == IsQuorum(writeRow'[c][x])
        stop == left = 0 \/ st = "PREEMPTED" \/ full
    IN
    \/ /\ ~stop
       /\ pending' = [pending EXCEPT ![c] = left]
       /\ UNCHANGED <<written, pc, call, retries, attempts, status, readCmd>>
    \/ /\ stop
       /\ written' = IF st = "OK" THEN [written EXCEPT ![c][x] = TRUE]
                     ELSE written
       /\ WriteRoundEnds(c, IF left = 0 THEN "PREEMPTED" ELSE st,
                         cspace'[c][x].vcmd)

wor_write_receive(c, m) ==
    LET expected == /\ Expected(c, m, "ACCEPT_ACK", writeRow)
                    /\ m.vcmd # UndefCmd
    IN
    /\ pc[c] = "write_receive"
    /\ Receive(m, {})
    /\ \/ /\ expected /\ Current(c, m)
          /\ writeRow' = [writeRow EXCEPT ![c][call[c].addr] =
                            @ \cup {m.from}]
          /\ AdoptVote(c, m)
          /\ WriteLoop(c, "OK")
       \/ /\ ~(expected /\ Current(c, m))
          /\ UNCHANGED <<writeRow, cspace>>
          /\ WriteLoop(c, IF expected /\ Overtakes(c, m)
                          THEN "PREEMPTED" ELSE "OK")
    /\ UNCHANGED <<acceptorVars, captureRow, inputVars>>

\* recvfrom failed: both handlers answer OK and the loop loses a turn.
ReceiveError(c) ==
    /\ faults < MaxFaults
    /\ faults' = faults + 1
    /\ \/ /\ pc[c] = "capture_receive"
          /\ UNCHANGED <<spaceVars, rowVars>>
          /\ CaptureLoop(c, "OK")
       \/ /\ pc[c] = "write_receive"
          /\ UNCHANGED <<cspace, rowVars>>
          /\ WriteLoop(c, "OK")
    /\ UNCHANGED <<net, acceptorVars, inputVars>>
-----------------------------------------------------------------------------
client_receive(c) ==
    \E m \in BagToSet(net) :
        /\ m.type \in {"CAPTURE_ACK", "ACCEPT_ACK"}
        /\ m.client = c
        /\ wor_capture_receive(c, m) \/ wor_write_receive(c, m)

ClientStep(c) ==
    \/ \E x \in Addr, cmd \in Cmd : wor_capture_and_write(c, x, cmd)
    \/ \E x \in Addr : wor_read(c, x)
    \/ wor_capture_send(c)
    \/ wor_write_send(c)
    \/ client_receive(c)
    \/ ReceiveError(c)

Next ==
    \/ \E a \in Up : acceptor_msg_handler(a)
    \/ \E c \in Clients : ClientStep(c)

Spec == Init /\ [][Next]_vars
-----------------------------------------------------------------------------
(***************************************************************************)
(* At most one command is ever chosen at an address, whatever the clients' *)
(* retries, the order in which requests reach the acceptors and the        *)
(* acknowledgments of earlier rounds that a client still receives.         *)
(***************************************************************************)
Agreement ==
    \A x \in Addr : \A v, w \in Cmd : Chosen(x, v) /\ Chosen(x, w) => v = w

(***************************************************************************)
(* All votes cast under one proposal number are for one command: the ids   *)
(* in the low bits keep the clients' numbers apart, and no client uses a   *)
(* number twice.                                                           *)
(***************************************************************************)
OneCommandPerProposal ==
    \A x \in Addr, a, b \in Acceptors :
        \A r \in votes[a][x], s \in votes[b][x] : r[1] = s[1] => r[2] = s[2]

(***************************************************************************)
(* When wor_capture_and_write returns OK, the command the client holds is  *)
(* chosen: OK is never reported on the strength of stale acknowledgments.  *)
(***************************************************************************)
OkMeansChosen ==
    \A c \in Clients :
        call[c].op = "write" /\ status[c] = "OK"
            => Chosen(call[c].addr, cspace[c][call[c].addr].vcmd)

(***************************************************************************)
(* A read that asks the acceptors returns what was chosen before it began: *)
(* never UNWRITTEN, never another command.                                 *)
(***************************************************************************)
ReadSeesChosen ==
    \A c \in Clients :
        call[c].op = "read" /\ before[c] # {} =>
            /\ status[c] # "UNWRITTEN"
            /\ status[c] = "OK" => readCmd[c] \in before[c]

(***************************************************************************)
(* While every acceptor runs and no datagram is lost, a client that waits  *)
(* is owed one: recvfrom has no timeout, and an acceptor drops an ACCEPT   *)
(* below its promise without an answer.  What saves the client then are    *)
(* the acknowledgments of its capture round still in its socket.           *)
(***************************************************************************)
NeverStarved ==
    Up = Acceptors =>
        \A c \in Clients : pc[c] \in {"capture_receive", "write_receive"}
            => \E m \in BagToSet(net) : m.client = c

(***************************************************************************)
(* An acceptor answers a capture with the number it had promised before,   *)
(* which its client does not count.  So a client alone, as long as no      *)
(* datagram is duplicated and no reception fails, writes nothing and reads *)
(* nothing, however often it tries: it takes a request that arrives twice  *)
(* or late, its own or another client's, to have any success.              *)
(***************************************************************************)
NothingWrittenAlone ==
    faults = 0 /\ (\A c, d \in Clients : c = d) =>
        /\ \A a \in Acceptors, x \in Addr : votes[a][x] = {}
        /\ \A c \in Clients :
                status[c] \notin {"OK", "ALREADYWRITTEN", "UNWRITTEN"}

WriteOnceRegisters == INSTANCE WriteOnce WITH register <- register,
                                              proposed <- proposed

(***************************************************************************)
(* Capture and write rounds, preempted, retried and recovered by other     *)
(* clients, implement write-once registers: what is chosen was the         *)
(* argument of some wor_capture_and_write, and stays chosen.               *)
(***************************************************************************)
ImplementsWriteOnce == WriteOnceRegisters!Spec

RegisterLayer == INSTANCE RegisterCalls WITH
    doing <- [c \in Clients |-> IF pc[c] = "idle" THEN NoCall ELSE call[c]],
    asking <- [c \in Clients |-> pc[c] = "write_receive"],
    held <- [c \in Clients |-> [x \in Addr |->
                IF written[c][x]
                THEN {[cmd |-> cspace[c][x].vcmd,
                       sure |-> IsQuorum(writeRow[c][x])]}
                ELSE {}]],
    answer <- [c \in Clients |->
                IF status[c] = "ERROR" THEN "TIMEOUT" ELSE status[c]]

(***************************************************************************)
(* The rounds implement what the callers are promised: OK only for a       *)
(* command that is chosen, never UNWRITTEN or another command once one is, *)
(* and a call that timed out has asked for nothing.                        *)
(***************************************************************************)
ImplementsCalls == RegisterLayer!RegistersSpec
-----------------------------------------------------------------------------
(***************************************************************************)
(* Fairness.  An acceptor serves datagrams forever, a client runs its code *)
(* to the next receive, and every datagram in transit is delivered in the  *)
(* end.  Nothing obliges the application to call an operation, nor the     *)
(* network to duplicate a datagram or to fail a reception.                 *)
(***************************************************************************)
Runs(c) == wor_capture_send(c) \/ wor_write_send(c) \/ client_receive(c)

Fairness ==
    /\ \A a \in Up : WF_vars(acceptor_msg_handler(a))
    /\ \A c \in Clients : WF_vars(Runs(c))

FairSpec == Spec /\ Fairness

(***************************************************************************)
(* Every call of wor_capture_and_write and wor_read returns, after a       *)
(* bounded number of rounds, each of which ends.                           *)
(***************************************************************************)
CallsReturn == \A c \in Clients : pc[c] # "idle" ~> pc[c] = "idle"

(***************************************************************************)
(* The turns c's nested loops have left, the outermost loop first: rounds  *)
(* of wor_capture_and_write, rounds of wor_capture, the sendto loop before *)
(* the receptions, and the receptions.                                     *)
(***************************************************************************)
TurnsLeft(c) ==
    <<retries[c], attempts[c],
      IF pc[c] \in {"capture_send", "write_send"} THEN 1 ELSE 0, pending[c]>>

Fewer(s, t) ==
    \E i \in 1 .. 4 : s[i] < t[i] /\ \A j \in 1 .. (i - 1) : s[j] = t[j]

(***************************************************************************)
(* Whatever a client in a call does, receives or fails to receive, it      *)
(* returns or has fewer turns left than before.  The counters of the inner *)
(* loops are set again by the outer ones; a preemption of a round must     *)
(* not set one without using up a turn further out.                        *)
(***************************************************************************)
TurnsRunOut ==
    [][\A c \in Clients :
        Runs(c) \/ ReceiveError(c)
            => pc'[c] = "idle" \/ Fewer(TurnsLeft(c)', TurnsLeft(c))]_vars
=============================================================================
