----------------------------- MODULE WorTypes ------------------------------
(***************************************************************************)
(* Type correctness of Wor, for every number of acceptors, clients,        *)
(* addresses and commands, and every bound; with what its proof needs to   *)
(* know of proposal numbers and of the bag of datagrams.                   *)
(***************************************************************************)
EXTENDS Wor, FiniteSetTheorems, TLAPS

-----------------------------------------------------------------------------
(***************************************************************************)
(* Arithmetic of proposal numbers.                                         *)
(***************************************************************************)
\* What division gives for a positive divisor (z3 decides it).
LEMMA DivMod ==
    ASSUME NEW n \in Nat, NEW d \in Nat \ {0}
    PROVE  /\ n \div d \in Nat
           /\ n % d \in 0 .. (d - 1)
           /\ n = d * (n \div d) + (n % d)
OBVIOUS

LEMMA ProductNat ==
    ASSUME NEW k \in Nat, NEW d \in Nat
    PROVE  k * d \in Nat
OBVIOUS

LEMMA ModOfSum ==
    ASSUME NEW k \in Nat, NEW d \in Nat \ {0}, NEW c \in 0 .. (d - 1)
    PROVE  (k * d + c) % d = c
OBVIOUS

\* The next number of a client is greater than the one it starts from, and
\* carries the client's id.
LEMMA NextProposal ==
    ASSUME NEW n \in Nat, NEW c \in Clients
    PROVE  /\ PROP_NEXT(n, c) \in Nat
           /\ PROP_NEXT(n, c) > n
           /\ PROP_NEXT(n, c) % PropOne = c
<1>1. PropOne \in Nat \ {0} /\ c \in 1 .. (PropOne - 1)
    BY ClientsAssumption
<1>2. c % PropOne = c
    BY <1>1
<1>3. PICK q \in Nat : q = n \div PropOne
    BY <1>1, DivMod
<1>4. PROP_NEXT(n, c) = (q + 1) * PropOne + c
    BY <1>2, <1>3 DEF PROP_NEXT, PROP_NEXT_NUM, PROP_NEXT_NID
<1>5. (q + 1) * PropOne > n
    BY <1>1, <1>3, DivMod
<1>6. PICK k \in Nat : k = q + 1
    BY <1>3
<1>7. k * PropOne \in Nat
    BY <1>1, <1>6, ProductNat
<1>8. (k * PropOne + c) % PropOne = c
    BY <1>1, <1>6, ModOfSum
<1> QED
    BY <1>1, <1>4, <1>5, <1>6, <1>7, <1>8

\* A number up to PROP_MAX, a whole number of rounds less one as in paxos.h,
\* has a next one that is at most PROP_ONE above PROP_MAX.
LEMMA NextProposalFits ==
    ASSUME NEW k \in Nat, PropMax + 1 = k * PropOne,
           NEW n \in Proposal, NEW c \in Clients
    PROVE  PROP_NEXT(n, c) <= PropMax + PropOne
<1>1. /\ PropOne \in Nat \ {0} /\ PropMax \in Nat /\ c \in 1 .. (PropOne - 1)
      /\ n \in Nat /\ n <= PropMax
    BY ClientsAssumption DEF Proposal
<1>2. c % PropOne = c
    BY <1>1
<1>3. PICK q \in Nat : q = n \div PropOne
    BY <1>1, DivMod
<1>4. q * PropOne <= n
    BY <1>1, <1>3, DivMod
<1>5. q * PropOne < k * PropOne
    BY <1>1, <1>4
<1>6. q < k
    BY <1>1, <1>5
<1>7. (q + 1) * PropOne <= k * PropOne
    BY <1>1, <1>6
<1>8. PROP_NEXT(n, c) = (q + 1) * PropOne + c
    BY <1>2, <1>3 DEF PROP_NEXT, PROP_NEXT_NUM, PROP_NEXT_NID
<1>9. (q + 1) * PropOne \in Nat /\ k * PropOne \in Nat
    BY <1>1
<1> QED
    BY <1>1, <1>7, <1>8, <1>9

-----------------------------------------------------------------------------
(***************************************************************************)
(* The bag of datagrams in transit.                                        *)
(***************************************************************************)
LEMMA AddedBag ==
    ASSUME NEW B, IsABag(B), NEW S
    PROVE  /\ IsABag(B (+) SetToBag(S))
           /\ BagToSet(B (+) SetToBag(S)) = BagToSet(B) \cup S
<1> DEFINE sum == B (+) SetToBag(S)
<1>1. BagToSet(sum) = BagToSet(B) \cup S
    BY DEF BagToSet, (+), SetToBag
<1>2. \A e \in BagToSet(B) \cup S : sum[e] \in {n \in Nat : n > 0}
    BY DEF IsABag, BagToSet, (+), SetToBag
<1>3. sum = [e \in BagToSet(B) \cup S |-> sum[e]]
    BY DEF BagToSet, (+), SetToBag
<1> QED
    BY <1>1, <1>2, <1>3 DEF IsABag, BagToSet

LEMMA RemovedBag ==
    ASSUME NEW B, IsABag(B), NEW S
    PROVE  /\ IsABag(B (-) SetToBag(S))
           /\ BagToSet(B (-) SetToBag(S)) \subseteq BagToSet(B)
BY DEF IsABag, BagToSet, (-), SetToBag

\* Nothing comes into transit but what a step sends.
LEMMA BroadcastInTransit ==
    ASSUME IsABag(net), NEW sent, Broadcast(sent)
    PROVE  /\ IsABag(net')
           /\ BagToSet(net') = BagToSet(net) \cup sent
           /\ faults' = faults
BY AddedBag DEF Broadcast

LEMMA ReceiveInTransit ==
    ASSUME IsABag(net), faults \in 0 .. MaxFaults, NEW m, NEW sent,
           Receive(m, sent)
    PROVE  /\ IsABag(net')
           /\ BagToSet(net') \subseteq BagToSet(net) \cup sent
           /\ faults' \in 0 .. MaxFaults
<1>1. CASE /\ net' = (net (-) SetToBag({m})) (+) SetToBag(sent)
           /\ UNCHANGED faults
    BY <1>1, RemovedBag, AddedBag
<1>2. CASE /\ faults < MaxFaults
           /\ faults' = faults + 1
           /\ net' = net (+) SetToBag(sent)
    BY <1>2, AddedBag, BoundsAssumption
<1> QED
    BY <1>1, <1>2 DEF Receive

\* A datagram stays in transit until it is received.
LEMMA ReceiveKeeps ==
    ASSUME IsABag(net), NEW m, NEW sent, Receive(m, sent)
    PROVE  (BagToSet(net) \ {m}) \cup sent \subseteq BagToSet(net')
<1>1. CASE net' = (net (-) SetToBag({m})) (+) SetToBag(sent)
    <2> DEFINE rest == net (-) SetToBag({m})
    <2>1. BagToSet(net) \ {m} \subseteq BagToSet(rest)
        BY DEF IsABag, BagToSet, (-), SetToBag
    <2>2. IsABag(rest)
        BY RemovedBag
    <2> HIDE DEF rest
    <2>3. BagToSet(rest (+) SetToBag(sent)) = BagToSet(rest) \cup sent
        BY <2>2, AddedBag
    <2> QED
        BY <1>1, <2>1, <2>3 DEF rest
<1>2. CASE net' = net (+) SetToBag(sent)
    BY <1>2, AddedBag
<1> QED
    BY <1>1, <1>2 DEF Receive

-----------------------------------------------------------------------------
(***************************************************************************)
(* Type correctness.  "pending" stays a natural number only because a      *)
(* client in a receive loop has a turn left, which TypeOK does not say.    *)
(***************************************************************************)
Receiving == {"capture_receive", "write_receive"}

\* The part of TypeOK about what the loops of the clients assign.
ControlTyped ==
    /\ pc \in [Clients -> Location]
    /\ call \in [Clients -> Call \cup {NoCall}]
    /\ \A c \in Clients : pc[c] # "idle" => call[c] \in Call
    /\ retries \in [Clients -> 0 .. MaxRetries]
    /\ attempts \in [Clients -> 0 .. MaxRetries]
    /\ pending \in [Clients -> 0 .. NumAcceptors]
    /\ status \in [Clients -> Status \cup {"none"}]
    /\ readCmd \in [Clients -> CmdOrUndef]
    /\ \A c \in Clients : pc[c] \in Receiving => pending[c] > 0

LEMMA IdleTyped ==
    ASSUME ControlTyped, NEW c \in Clients, Idle(c), UNCHANGED call,
           status' \in [Clients -> Status \cup {"none"}],
           readCmd' \in [Clients -> CmdOrUndef]
    PROVE  ControlTyped'
<1>1. 0 \in 0 .. MaxRetries /\ 0 \in 0 .. NumAcceptors
    BY BoundsAssumption, AcceptorsAssumption
    DEF MIN_ACCEPTORS, MAX_ACCEPTORS
<1>2. pc' \in [Clients -> Location]
    BY DEF ControlTyped, Idle, Location
<1>3. /\ retries' \in [Clients -> 0 .. MaxRetries]
      /\ attempts' \in [Clients -> 0 .. MaxRetries]
      /\ pending' \in [Clients -> 0 .. NumAcceptors]
    BY <1>1 DEF ControlTyped, Idle
<1>4. \A d \in Clients : pc'[d] # "idle" => call'[d] \in Call
    BY DEF ControlTyped, Idle
<1>5. \A d \in Clients : pc'[d] \in Receiving => pending'[d] > 0
    BY DEF ControlTyped, Idle, Receiving
<1> QED
    BY <1>2, <1>3, <1>4, <1>5 DEF ControlTyped

LEMMA ReturnsTyped ==
    ASSUME ControlTyped, NEW c \in Clients, NEW st \in Status,
           NEW cmd \in CmdOrUndef, Returns(c, st, cmd)
    PROVE  ControlTyped'
<1>1. CASE WriteReturns(c, st)
    BY <1>1, IdleTyped DEF WriteReturns, ControlTyped
<1>2. CASE ReadReturns(c, st, cmd)
    BY <1>2, IdleTyped DEF ReadReturns, ControlTyped, CmdOrUndef, Status
<1> QED
    BY <1>1, <1>2 DEF Returns

LEMMA CaptureRoundEndsTyped ==
    ASSUME ControlTyped, NEW c \in Clients, pc[c] # "idle",
           NEW st \in Status, NEW cmd \in CmdOrUndef,
           CaptureRoundEnds(c, st, cmd)
    PROVE  ControlTyped'
<1> DEFINE left == attempts[c] - 1
<1>1. CASE /\ left > 0
           /\ attempts' = [attempts EXCEPT ![c] = left]
           /\ pc' = [pc EXCEPT ![c] = "capture_send"]
           /\ pending' = [pending EXCEPT ![c] = 0]
           /\ UNCHANGED <<call, retries, status, readCmd>>
    BY <1>1, BoundsAssumption, AcceptorsAssumption
    DEF ControlTyped, Location, Receiving, MIN_ACCEPTORS, MAX_ACCEPTORS
<1>2. CASE /\ pc' = [pc EXCEPT ![c] = "write_send"]
           /\ attempts' = [attempts EXCEPT ![c] = 0]
           /\ pending' = [pending EXCEPT ![c] = 0]
           /\ UNCHANGED <<call, retries, status, readCmd>>
    BY <1>2, BoundsAssumption, AcceptorsAssumption
    DEF ControlTyped, Location, Receiving, MIN_ACCEPTORS, MAX_ACCEPTORS
<1>3. CASE Returns(c, "TIMEOUT", cmd) \/ Returns(c, st, cmd)
    BY <1>3, ReturnsTyped DEF Status
<1> QED
    BY <1>1, <1>2, <1>3 DEF CaptureRoundEnds

LEMMA WriteRoundEndsTyped ==
    ASSUME ControlTyped, NEW c \in Clients, pc[c] # "idle",
           NEW st \in Status, NEW cmd \in CmdOrUndef,
           WriteRoundEnds(c, st, cmd)
    PROVE  ControlTyped'
<1> DEFINE left == retries[c] - 1
<1>1. CASE /\ left > 0
           /\ retries' = [retries EXCEPT ![c] = left]
           /\ attempts' = [attempts EXCEPT ![c] = MaxRetries]
           /\ pc' = [pc EXCEPT ![c] = "capture_send"]
           /\ pending' = [pending EXCEPT ![c] = 0]
           /\ UNCHANGED <<call, status, readCmd>>
    BY <1>1, BoundsAssumption, AcceptorsAssumption
    DEF ControlTyped, Location, Receiving, MIN_ACCEPTORS, MAX_ACCEPTORS
<1>2. CASE \/ WriteReturns(c, IF left = 0 THEN "TIMEOUT" ELSE st)
           \/ ReadReturns(c, st, cmd)
    BY <1>2, ReturnsTyped DEF Returns, Status
<1> QED
    BY <1>1, <1>2 DEF WriteRoundEnds

LEMMA CaptureLoopTyped ==
    ASSUME ControlTyped, NEW c \in Clients, pc[c] = "capture_receive",
           NEW st \in {"OK", "PREEMPTED"}, CaptureLoop(c, st),
           cspace'[c][call[c].addr].vcmd \in CmdOrUndef
    PROVE  ControlTyped'
<1> DEFINE left == pending[c] - 1
<1>1. CASE /\ left # 0
           /\ pending' = [pending EXCEPT ![c] = left]
           /\ UNCHANGED <<pc, call, retries, attempts, status, readCmd>>
    BY <1>1, AcceptorsAssumption
    DEF ControlTyped, Receiving, MIN_ACCEPTORS, MAX_ACCEPTORS
<1>2. CASE CaptureRoundEnds(c, IF left = 0 THEN "PREEMPTED" ELSE st,
                            cspace'[c][call[c].addr].vcmd)
    BY <1>2, CaptureRoundEndsTyped DEF Status
<1> QED
    BY <1>1, <1>2 DEF CaptureLoop

LEMMA WriteLoopTyped ==
    ASSUME ControlTyped, NEW c \in Clients, pc[c] = "write_receive",
           NEW st \in {"OK", "PREEMPTED"}, WriteLoop(c, st),
           written \in [Clients -> [Addr -> BOOLEAN]],
           cspace'[c][call[c].addr].vcmd \in CmdOrUndef
    PROVE  /\ ControlTyped'
           /\ written' \in [Clients -> [Addr -> BOOLEAN]]
<1> DEFINE left == pending[c] - 1
<1>1. CASE /\ left # 0
           /\ pending' = [pending EXCEPT ![c] = left]
           /\ UNCHANGED <<written, pc, call, retries, attempts, status,
                          readCmd>>
    BY <1>1, AcceptorsAssumption
    DEF ControlTyped, Receiving, MIN_ACCEPTORS, MAX_ACCEPTORS
<1>2. CASE /\ written' = IF st = "OK"
                         THEN [written EXCEPT ![c][call[c].addr] = TRUE]
                         ELSE written
           /\ WriteRoundEnds(c, IF left = 0 THEN "PREEMPTED" ELSE st,
                             cspace'[c][call[c].addr].vcmd)
    <2>1. ControlTyped'
        BY <1>2, WriteRoundEndsTyped DEF Status
    <2>2. written' \in [Clients -> [Addr -> BOOLEAN]]
        BY <1>2
    <2> QED
        BY <2>1, <2>2
<1> QED
    BY <1>1, <1>2 DEF WriteLoop

\* The other parts of TypeOK.
NetTyped ==
    /\ IsABag(net)
    /\ BagToSet(net) \subseteq Message
    /\ faults \in 0 .. MaxFaults

AcceptorsTyped ==
    /\ aspace \in [Acceptors -> [Addr -> Entry]]
    /\ votes \in [Acceptors -> [Addr -> SUBSET (Proposal \X Cmd)]]

SpacesTyped ==
    /\ cspace \in [Clients -> [Addr -> Entry]]
    /\ written \in [Clients -> [Addr -> BOOLEAN]]

RowsTyped ==
    /\ captureRow \in [Clients -> [Addr -> SUBSET Acceptors]]
    /\ writeRow \in [Clients -> [Addr -> SUBSET Acceptors]]

InputsTyped ==
    /\ ops \in [Clients -> 0 .. MaxOps]
    /\ proposed \in [Addr -> SUBSET Cmd]
    /\ before \in [Clients -> SUBSET Cmd]

TypeInv ==
    /\ NetTyped
    /\ AcceptorsTyped
    /\ SpacesTyped
    /\ RowsTyped
    /\ ControlTyped
    /\ InputsTyped

LEMMA TypeInvImpliesTypeOK == TypeInv => TypeOK
BY DEF TypeInv, TypeOK, NetTyped, AcceptorsTyped, SpacesTyped, RowsTyped,
       ControlTyped, InputsTyped

\* The number that wor_get_next_proposal returns is the client's own and above
\* the one in its entry.
LEMMA NewProposal ==
    ASSUME SpacesTyped, NEW c \in Clients, NEW x \in Addr,
           wor_get_next_proposal(c, x) # PROP_UNDEF
    PROVE  /\ wor_get_next_proposal(c, x) \in Proposal
           /\ wor_get_next_proposal(c, x) \in Nat
           /\ cspace[c][x].prop \in Nat
           /\ wor_get_next_proposal(c, x) > cspace[c][x].prop
           /\ wor_get_next_proposal(c, x) % PropOne = c
<1> DEFINE old == cspace[c][x].prop
           prop == PROP_NEXT(old, c)
<1>1. old \in Nat /\ PropMax \in Nat
    BY ClientsAssumption DEF SpacesTyped, Entry, Proposal
<1>2. prop \in Nat /\ prop > old /\ prop % PropOne = c
    <2> HIDE DEF old
    <2> QED
        BY <1>1, NextProposal
<1>3. wor_get_next_proposal(c, x) = prop /\ prop <= PropMax
    BY DEF wor_get_next_proposal
<1> HIDE DEF prop
<1>4. prop \in Proposal
    BY <1>1, <1>2, <1>3 DEF Proposal
<1> QED
    BY <1>1, <1>2, <1>3, <1>4

LEMMA MessageTypes ==
    ASSUME NEW m \in Message
    PROVE  /\ m.type \in {"CAPTURE", "ACCEPT"} => m \in Request
           /\ m.type \in {"CAPTURE_ACK", "ACCEPT_ACK"} => m \in Ack
BY DEF Message, Request, Ack

LEMMA ReceiveTyped ==
    ASSUME NetTyped, NEW m, NEW sent \in SUBSET Message, Receive(m, sent)
    PROVE  NetTyped'
BY ReceiveInTransit DEF NetTyped

LEMMA InitTyped == Init => TypeInv
<1> SUFFICES ASSUME Init PROVE TypeInv
    OBVIOUS
<1>1. /\ 0 \in 0 .. MaxRetries /\ 0 \in 0 .. NumAcceptors
      /\ 0 \in 0 .. MaxOps /\ 0 \in 0 .. MaxFaults
    BY BoundsAssumption, AcceptorsAssumption
    DEF MIN_ACCEPTORS, MAX_ACCEPTORS
<1>2. EmptyEntry \in Entry
    BY ClientsAssumption
    DEF EmptyEntry, Entry, PROP_UNDEF, Proposal, CmdOrUndef
<1>3. NetTyped
    BY <1>1 DEF Init, NetTyped, IsABag, BagToSet, EmptyBag, SetToBag
<1>4. AcceptorsTyped /\ SpacesTyped /\ RowsTyped /\ InputsTyped
    BY <1>1, <1>2
    DEF Init, AcceptorsTyped, SpacesTyped, RowsTyped, InputsTyped
<1>5. ControlTyped
    BY <1>1 DEF Init, ControlTyped, Location, Receiving, CmdOrUndef
<1> QED
    BY <1>3, <1>4, <1>5 DEF TypeInv

LEMMA AcceptorTyped ==
    ASSUME TypeInv, NEW a \in Acceptors, acceptor_msg_handler(a)
    PROVE  TypeInv'
<1>1. PICK m \in BagToSet(net) : HandleCapture(a, m) \/ HandleAccept(a, m)
    BY DEF acceptor_msg_handler
<1>2. m \in Request
    BY <1>1, MessageTypes
    DEF TypeInv, NetTyped, HandleCapture, HandleAccept
<1>3. aspace[a][m.addr] \in Entry
    BY <1>2 DEF TypeInv, AcceptorsTyped, Request
<1>4. UNCHANGED clientVars
    BY <1>1 DEF HandleCapture, HandleAccept
<1>5. SpacesTyped' /\ RowsTyped' /\ ControlTyped' /\ InputsTyped'
    BY <1>4 DEF TypeInv, SpacesTyped, RowsTyped, ControlTyped, InputsTyped,
       clientVars, spaceVars, rowVars, controlVars, inputVars
<1>6. CASE HandleCapture(a, m)
    <2>1. CaptureAnswer(a, m) \subseteq Message
        BY <1>2, <1>3 DEF CaptureAnswer, Message, Ack, Request, Entry
    <2>2. NetTyped'
        BY <1>6, <2>1, ReceiveTyped DEF TypeInv, HandleCapture
    <2>3. AcceptorsTyped'
        BY <1>2, <1>3, <1>6
        DEF TypeInv, AcceptorsTyped, HandleCapture, Request, Entry
    <2> QED
        BY <1>5, <2>2, <2>3 DEF TypeInv
<1>7. CASE HandleAccept(a, m)
    <2>1. CASE ~Acceptable(a, m)
        <3>1. Receive(m, {}) /\ UNCHANGED acceptorVars
            BY <1>7, <2>1 DEF HandleAccept
        <3>2. NetTyped'
            BY <3>1, ReceiveTyped DEF TypeInv
        <3>3. AcceptorsTyped'
            BY <3>1 DEF TypeInv, AcceptorsTyped, acceptorVars
        <3> QED
            BY <1>5, <3>2, <3>3 DEF TypeInv
    <2>2. CASE Acceptable(a, m)
        <3> DEFINE ack == [type |-> "ACCEPT_ACK", client |-> m.client,
                           from |-> a, addr |-> m.addr, prop |-> m.prop,
                           vprop |-> m.vprop, vcmd |-> m.vcmd]
        <3>1. ack \in Message
            BY <1>2 DEF Message, Ack, Request
        <3>2. Receive(m, {ack})
            BY <1>7, <2>2 DEF HandleAccept
        <3>3. NetTyped'
            BY <3>1, <3>2, ReceiveTyped DEF TypeInv
        <3>4. /\ aspace' = [aspace EXCEPT ![a][m.addr] =
                              [prop |-> m.prop, vprop |-> m.prop,
                               vcmd |-> m.vcmd]]
              /\ votes' = [votes EXCEPT ![a][m.addr] =
                              @ \cup {<<m.prop, m.vcmd>>}]
            BY <1>7, <2>2 DEF HandleAccept
        <3>5. m.addr \in Addr /\ m.prop \in Proposal /\ m.vcmd \in Cmd
            BY <1>2, <2>2 DEF Request, Acceptable, CmdOrUndef
        <3>6. [prop |-> m.prop, vprop |-> m.prop, vcmd |-> m.vcmd] \in Entry
            BY <3>5 DEF Entry, CmdOrUndef
        <3>7. aspace' \in [Acceptors -> [Addr -> Entry]]
            BY <3>4, <3>5, <3>6 DEF TypeInv, AcceptorsTyped
        <3>8. votes' \in [Acceptors -> [Addr -> SUBSET (Proposal \X Cmd)]]
            BY <3>4, <3>5 DEF TypeInv, AcceptorsTyped
        <3> QED
            BY <1>5, <3>3, <3>7, <3>8 DEF TypeInv, AcceptorsTyped
    <2> QED
        BY <2>1, <2>2
<1> QED
    BY <1>1, <1>6, <1>7

LEMMA CalledTyped ==
    ASSUME TypeInv, NEW c \in Clients, NEW operation, Called(c, operation)
    PROVE  /\ operation \in Call
           /\ NetTyped' /\ AcceptorsTyped' /\ SpacesTyped' /\ RowsTyped'
           /\ call' \in [Clients -> Call \cup {NoCall}]
           /\ ops' \in [Clients -> 0 .. MaxOps]
           /\ before' \in [Clients -> SUBSET Cmd]
<1>1. operation \in Call
    BY WorkloadAssumption DEF Called
<1>2. NetTyped' /\ AcceptorsTyped' /\ SpacesTyped' /\ RowsTyped'
    BY DEF TypeInv, Called, NetTyped, AcceptorsTyped, SpacesTyped, RowsTyped,
       netVars, acceptorVars, spaceVars, rowVars
<1>3. call' \in [Clients -> Call \cup {NoCall}]
    BY <1>1 DEF TypeInv, ControlTyped, Called
<1>4. ops[c] + 1 \in 0 .. MaxOps
    BY BoundsAssumption DEF TypeInv, InputsTyped, Called
<1>5. ops' \in [Clients -> 0 .. MaxOps]
    BY <1>4 DEF TypeInv, InputsTyped, Called
<1>6. register[operation.addr] \in SUBSET Cmd
    BY <1>1 DEF register, Call
<1>7. before' \in [Clients -> SUBSET Cmd]
    BY <1>6 DEF TypeInv, InputsTyped, Called
<1> QED
    BY <1>1, <1>2, <1>3, <1>5, <1>7

LEMMA StartTyped ==
    ASSUME TypeInv, NEW c \in Clients, NEW operation \in Call,
           call' = [call EXCEPT ![c] = operation], Start(c),
           UNCHANGED pending
    PROVE  ControlTyped'
<1>1. MaxRetries \in 0 .. MaxRetries
    BY BoundsAssumption
<1>2. /\ pc' \in [Clients -> Location]
      /\ status' \in [Clients -> Status \cup {"none"}]
      /\ readCmd' \in [Clients -> CmdOrUndef]
      /\ call' \in [Clients -> Call \cup {NoCall}]
      /\ pending' \in [Clients -> 0 .. NumAcceptors]
    BY DEF TypeInv, ControlTyped, Start, Location
<1>3. /\ retries' \in [Clients -> 0 .. MaxRetries]
      /\ attempts' \in [Clients -> 0 .. MaxRetries]
    BY <1>1 DEF TypeInv, ControlTyped, Start
<1>4. \A d \in Clients : pc'[d] # "idle" => call'[d] \in Call
    BY DEF TypeInv, ControlTyped, Start
<1>5. \A d \in Clients : pc'[d] \in Receiving => pending'[d] > 0
    BY DEF TypeInv, ControlTyped, Start, Receiving
<1> QED
    BY <1>2, <1>3, <1>4, <1>5 DEF ControlTyped

LEMMA WriteCallTyped ==
    ASSUME TypeInv, NEW c \in Clients, NEW x \in Addr, NEW cmd \in Cmd,
           wor_capture_and_write(c, x, cmd)
    PROVE  TypeInv'
<1> DEFINE operation == [op |-> "write", addr |-> x, cmd |-> cmd]
<1>1. Called(c, operation) /\ Start(c)
    BY DEF wor_capture_and_write
<1>2. ControlTyped'
    BY <1>1, CalledTyped, StartTyped DEF Called
<1>3. proposed' \in [Addr -> SUBSET Cmd]
    BY DEF wor_capture_and_write, TypeInv, InputsTyped
<1> QED
    BY <1>1, <1>2, <1>3, CalledTyped DEF TypeInv, InputsTyped

LEMMA ReadCallTyped ==
    ASSUME TypeInv, NEW c \in Clients, NEW x \in Addr, wor_read(c, x)
    PROVE  TypeInv'
<1> DEFINE operation == [op |-> "read", addr |-> x, cmd |-> UndefCmd]
<1>1. Called(c, operation) /\ UNCHANGED proposed
    BY DEF wor_read
<1>2. operation \in Call
    BY <1>1, CalledTyped
<1>3. ASSUME Start(c) PROVE ControlTyped'
    BY <1>1, <1>2, <1>3, StartTyped DEF Called
<1>4. ASSUME status' = [status EXCEPT ![c] = "ALREADYWRITTEN"],
             readCmd' = [readCmd EXCEPT ![c] = cspace[c][x].vcmd],
             UNCHANGED <<pc, retries, attempts>>
      PROVE  ControlTyped'
    <2>1. cspace[c][x].vcmd \in CmdOrUndef
        BY DEF TypeInv, SpacesTyped, Entry
    <2>2. /\ call' = [call EXCEPT ![c] = operation]
          /\ pc[c] = "idle"
          /\ UNCHANGED pending
        BY <1>1 DEF Called
    <2>3. \A d \in Clients : pc'[d] # "idle" => call'[d] \in Call
        BY <1>4, <2>2 DEF TypeInv, ControlTyped
    <2>4. /\ status' \in [Clients -> Status \cup {"none"}]
          /\ readCmd' \in [Clients -> CmdOrUndef]
        BY <1>4, <2>1 DEF TypeInv, ControlTyped, Status
    <2> QED
        BY <1>1, <1>4, <2>2, <2>3, <2>4, CalledTyped
        DEF TypeInv, ControlTyped
<1>5. ControlTyped'
    BY <1>3, <1>4 DEF wor_read
<1> QED
    BY <1>1, <1>5, CalledTyped DEF TypeInv, InputsTyped

LEMMA CaptureSendTyped ==
    ASSUME TypeInv, NEW c \in Clients, wor_capture_send(c)
    PROVE  TypeInv'
<1> DEFINE x == call[c].addr
           prop == wor_get_next_proposal(c, x)
<1>1. pc[c] = "capture_send" /\ x \in Addr
    BY DEF wor_capture_send, TypeInv, ControlTyped, Call
<1>2. cspace[c][x] \in Entry
    BY <1>1 DEF TypeInv, SpacesTyped
<1>3. AcceptorsTyped' /\ InputsTyped'
    BY DEF wor_capture_send, TypeInv, AcceptorsTyped, InputsTyped,
       acceptorVars, inputVars
<1>4. CASE written[c][x]
    <2>1. /\ CaptureRoundEnds(c, "ALREADYWRITTEN", cspace[c][x].vcmd)
          /\ UNCHANGED <<netVars, spaceVars, rowVars>>
        BY <1>4 DEF wor_capture_send
    <2>2. ControlTyped'
        BY <1>1, <1>2, <2>1, CaptureRoundEndsTyped
        DEF TypeInv, Entry, Status
    <2>3. NetTyped' /\ SpacesTyped' /\ RowsTyped'
        BY <2>1 DEF TypeInv, NetTyped, SpacesTyped, RowsTyped, netVars,
           spaceVars, rowVars
    <2> QED
        BY <1>3, <2>2, <2>3 DEF TypeInv
<1>5. CASE ~written[c][x]
    <2>1. /\ captureRow' = [captureRow EXCEPT ![c][x] = RowReset(@)]
          /\ writeRow' = [writeRow EXCEPT ![c][x] = RowReset(@)]
          /\ UNCHANGED written
        BY <1>5 DEF wor_capture_send
    <2>2. RowsTyped'
        BY <1>1, <2>1 DEF TypeInv, RowsTyped, RowReset
    <2>3. \A p \in Proposal : [EmptyEntry EXCEPT !.prop = p] \in Entry
        BY ClientsAssumption
        DEF EmptyEntry, Entry, Proposal, PROP_UNDEF, CmdOrUndef
    <2>4. CASE prop = PROP_UNDEF
        <3>1. /\ cspace' = [cspace EXCEPT ![c][x] =
                              [EmptyEntry EXCEPT !.prop = cspace[c][x].prop]]
              /\ CaptureRoundEnds(c, "ERROR", UndefCmd)
              /\ UNCHANGED netVars
            BY <1>5, <2>4 DEF wor_capture_send
        <3>2. SpacesTyped'
            BY <1>1, <1>2, <2>1, <2>3, <3>1 DEF TypeInv, SpacesTyped, Entry
        <3>3. ControlTyped'
            BY <1>1, <3>1, CaptureRoundEndsTyped
            DEF TypeInv, Status, CmdOrUndef
        <3>4. NetTyped'
            BY <3>1 DEF TypeInv, NetTyped, netVars
        <3> QED
            BY <1>3, <2>2, <3>2, <3>3, <3>4 DEF TypeInv
    <2>5. CASE prop # PROP_UNDEF
        <3> DEFINE requests == [type : {"CAPTURE"}, client : {c},
                                to : Acceptors, addr : {x}, prop : {prop},
                                vprop : {PROP_UNDEF}, vcmd : {UndefCmd}]
        <3>1. /\ cspace' = [cspace EXCEPT ![c][x] =
                              [EmptyEntry EXCEPT !.prop = prop]]
              /\ Broadcast(requests)
              /\ pc' = [pc EXCEPT ![c] = "capture_receive"]
              /\ pending' = [pending EXCEPT ![c] = NumAcceptors]
              /\ UNCHANGED <<call, retries, attempts, status, readCmd>>
            BY <1>5, <2>5 DEF wor_capture_send
        <3>2. prop \in Proposal
            BY <1>1, <1>2, <2>5, NewProposal DEF TypeInv
        <3>3. SpacesTyped'
            BY <1>1, <2>1, <2>3, <3>1, <3>2 DEF TypeInv, SpacesTyped
        <3>4. requests \subseteq Message
            BY <1>1, <3>2, ClientsAssumption
            DEF Message, Request, PROP_UNDEF, Proposal, CmdOrUndef
        <3>5. NetTyped'
            BY <3>1, <3>4, BroadcastInTransit DEF TypeInv, NetTyped
        <3>6. ControlTyped'
            BY <1>1, <3>1, AcceptorsAssumption
            DEF TypeInv, ControlTyped, Location, Receiving, MIN_ACCEPTORS,
                MAX_ACCEPTORS
        <3> QED
            BY <1>3, <2>2, <3>3, <3>5, <3>6 DEF TypeInv
    <2> QED
        BY <2>4, <2>5
<1> QED
    BY <1>4, <1>5

LEMMA WriteSendTyped ==
    ASSUME TypeInv, NEW c \in Clients, wor_write_send(c)
    PROVE  TypeInv'
<1> DEFINE x == call[c].addr
           requests == [type : {"ACCEPT"}, client : {c}, to : Acceptors,
                        addr : {x}, prop : {cspace[c][x].prop},
                        vprop : {cspace[c][x].prop}, vcmd : {Selected(c)}]
<1>1. pc[c] = "write_send" /\ x \in Addr /\ call[c].cmd \in CmdOrUndef
    BY DEF wor_write_send, TypeInv, ControlTyped, Call, CmdOrUndef
<1>2. cspace[c][x] \in Entry
    BY <1>1 DEF TypeInv, SpacesTyped
<1>3. AcceptorsTyped' /\ SpacesTyped' /\ RowsTyped'
    BY DEF wor_write_send, TypeInv, AcceptorsTyped, SpacesTyped, RowsTyped,
       acceptorVars, spaceVars, rowVars
<1>4. UNCHANGED <<ops, before>>
    BY DEF wor_write_send
<1>5. ASSUME ReadReturns(c, "UNWRITTEN", UndefCmd),
             UNCHANGED <<netVars, proposed>>
      PROVE  TypeInv'
    <2>1. ControlTyped'
        BY <1>1, <1>5, ReturnsTyped
        DEF TypeInv, Returns, Status, CmdOrUndef
    <2>2. NetTyped'
        BY <1>5 DEF TypeInv, NetTyped, netVars
    <2>3. InputsTyped'
        BY <1>4, <1>5 DEF TypeInv, InputsTyped
    <2> QED
        BY <1>3, <2>1, <2>2, <2>3 DEF TypeInv
<1>6. ASSUME Selected(c) # UndefCmd,
             Broadcast(requests),
             proposed' = IF cspace[c][x].vcmd = UndefCmd
                         THEN [proposed EXCEPT ![x] = @ \cup {call[c].cmd}]
                         ELSE proposed,
             pc' = [pc EXCEPT ![c] = "write_receive"],
             pending' = [pending EXCEPT ![c] = NumAcceptors],
             UNCHANGED <<call, retries, attempts, status, readCmd>>
      PROVE  TypeInv'
    <2>1. Selected(c) \in CmdOrUndef
        BY <1>1, <1>2 DEF Selected, Entry
    <2>2. requests \subseteq Message
        BY <1>1, <1>2, <2>1 DEF Message, Request, Entry
    <2>3. NetTyped'
        BY <1>6, <2>2, BroadcastInTransit DEF TypeInv, NetTyped
    <2>4. ControlTyped'
        BY <1>1, <1>6, AcceptorsAssumption
        DEF TypeInv, ControlTyped, Location, Receiving, MIN_ACCEPTORS,
            MAX_ACCEPTORS
    <2>5. cspace[c][x].vcmd = UndefCmd => call[c].cmd \in Cmd
        BY <1>1, <1>6 DEF Selected, CmdOrUndef
    <2>6. InputsTyped'
        BY <1>1, <1>4, <1>6, <2>5 DEF TypeInv, InputsTyped
    <2> QED
        BY <1>3, <2>3, <2>4, <2>6 DEF TypeInv
<1> QED
    BY <1>5, <1>6 DEF wor_write_send

LEMMA RowTyped ==
    ASSUME NEW rows \in [Clients -> [Addr -> SUBSET Acceptors]],
           NEW c \in Clients, NEW x \in Addr, NEW a \in Acceptors
    PROVE  [rows EXCEPT ![c][x] = @ \cup {a}]
              \in [Clients -> [Addr -> SUBSET Acceptors]]
<1>1. rows[c][x] \cup {a} \in SUBSET Acceptors
    OBVIOUS
<1> QED
    BY <1>1

LEMMA AdoptVoteTyped ==
    ASSUME TypeInv, NEW c \in Clients, call[c].addr \in Addr, NEW m \in Ack,
           AdoptVote(c, m)
    PROVE  cspace' \in [Clients -> [Addr -> Entry]]
<1> DEFINE x == call[c].addr
           entry == [prop |-> cspace[c][x].prop, vprop |-> m.vprop,
                     vcmd |-> m.vcmd]
<1>1. entry \in Entry
    BY DEF TypeInv, SpacesTyped, Entry, Ack
<1>2. cspace' = [cspace EXCEPT ![c][x] = entry]
    BY DEF AdoptVote
<1> HIDE DEF entry
<1> QED
    BY <1>1, <1>2 DEF TypeInv, SpacesTyped

LEMMA CaptureReceiveTyped ==
    ASSUME TypeInv, NEW c \in Clients, NEW m \in BagToSet(net),
           m.type \in {"CAPTURE_ACK", "ACCEPT_ACK"},
           wor_capture_receive(c, m)
    PROVE  TypeInv'
<1> DEFINE x == call[c].addr
<1>1. pc[c] = "capture_receive" /\ x \in Addr
    BY DEF wor_capture_receive, TypeInv, ControlTyped, Call
<1>2. m \in Ack
    BY MessageTypes DEF TypeInv, NetTyped
<1>3. NetTyped'
    BY ReceiveTyped DEF TypeInv, wor_capture_receive
<1>4. AcceptorsTyped' /\ InputsTyped' /\ UNCHANGED <<written, writeRow>>
    BY DEF wor_capture_receive, TypeInv, AcceptorsTyped, InputsTyped,
       acceptorVars, inputVars
<1>5. /\ cspace' \in [Clients -> [Addr -> Entry]]
      /\ captureRow' \in [Clients -> [Addr -> SUBSET Acceptors]]
    <2>1. UNCHANGED cspace \/ AdoptVote(c, m)
        BY DEF wor_capture_receive
    <2>2. \/ UNCHANGED captureRow
          \/ captureRow' = [captureRow EXCEPT ![c][x] = @ \cup {m.from}]
        BY DEF wor_capture_receive
    <2>3. m.from \in Acceptors
        BY <1>2 DEF Ack
    <2>4. cspace' \in [Clients -> [Addr -> Entry]]
        BY <1>1, <1>2, <2>1, AdoptVoteTyped DEF TypeInv, SpacesTyped
    <2>5. captureRow' \in [Clients -> [Addr -> SUBSET Acceptors]]
        <3>1. captureRow \in [Clients -> [Addr -> SUBSET Acceptors]]
            BY DEF TypeInv, RowsTyped
        <3>2. [captureRow EXCEPT ![c][x] = @ \cup {m.from}]
                \in [Clients -> [Addr -> SUBSET Acceptors]]
            BY <1>1, <2>3, <3>1, RowTyped
        <3> QED
            BY <2>2, <3>1, <3>2
    <2> QED
        BY <2>4, <2>5
<1>6. cspace'[c][x].vcmd \in CmdOrUndef
    BY <1>1, <1>5 DEF Entry
<1>7. PICK st \in {"OK", "PREEMPTED"} : CaptureLoop(c, st)
    BY DEF wor_capture_receive
<1>8. ControlTyped'
    BY <1>1, <1>6, <1>7, CaptureLoopTyped DEF TypeInv
<1> QED
    BY <1>3, <1>4, <1>5, <1>8 DEF TypeInv, SpacesTyped, RowsTyped

LEMMA WriteReceiveTyped ==
    ASSUME TypeInv, NEW c \in Clients, NEW m \in BagToSet(net),
           m.type \in {"CAPTURE_ACK", "ACCEPT_ACK"},
           wor_write_receive(c, m)
    PROVE  TypeInv'
<1> DEFINE x == call[c].addr
<1>1. pc[c] = "write_receive" /\ x \in Addr
    BY DEF wor_write_receive, TypeInv, ControlTyped, Call
<1>2. m \in Ack
    BY MessageTypes DEF TypeInv, NetTyped
<1>3. NetTyped'
    BY ReceiveTyped DEF TypeInv, wor_write_receive
<1>4. AcceptorsTyped' /\ InputsTyped' /\ UNCHANGED captureRow
    BY DEF wor_write_receive, TypeInv, AcceptorsTyped, InputsTyped,
       acceptorVars, inputVars
<1>5. /\ cspace' \in [Clients -> [Addr -> Entry]]
      /\ writeRow' \in [Clients -> [Addr -> SUBSET Acceptors]]
    <2>1. UNCHANGED cspace \/ AdoptVote(c, m)
        BY DEF wor_write_receive
    <2>2. \/ UNCHANGED writeRow
          \/ writeRow' = [writeRow EXCEPT ![c][x] = @ \cup {m.from}]
        BY DEF wor_write_receive
    <2>3. m.from \in Acceptors
        BY <1>2 DEF Ack
    <2>4. cspace' \in [Clients -> [Addr -> Entry]]
        BY <1>1, <1>2, <2>1, AdoptVoteTyped DEF TypeInv, SpacesTyped
    <2>5. writeRow' \in [Clients -> [Addr -> SUBSET Acceptors]]
        <3>1. writeRow \in [Clients -> [Addr -> SUBSET Acceptors]]
            BY DEF TypeInv, RowsTyped
        <3>2. [writeRow EXCEPT ![c][x] = @ \cup {m.from}]
                \in [Clients -> [Addr -> SUBSET Acceptors]]
            BY <1>1, <2>3, <3>1, RowTyped
        <3> QED
            BY <2>2, <3>1, <3>2
    <2> QED
        BY <2>4, <2>5
<1>6. cspace'[c][x].vcmd \in CmdOrUndef
    BY <1>1, <1>5 DEF Entry
<1>7. PICK st \in {"OK", "PREEMPTED"} : WriteLoop(c, st)
    BY DEF wor_write_receive
<1>8. ControlTyped' /\ written' \in [Clients -> [Addr -> BOOLEAN]]
    BY <1>1, <1>6, <1>7, WriteLoopTyped DEF TypeInv, SpacesTyped
<1> QED
    BY <1>3, <1>4, <1>5, <1>8 DEF TypeInv, SpacesTyped, RowsTyped

LEMMA ReceiveErrorTyped ==
    ASSUME TypeInv, NEW c \in Clients, ReceiveError(c)
    PROVE  TypeInv'
<1> DEFINE x == call[c].addr
<1>1. faults' \in 0 .. MaxFaults
    BY BoundsAssumption DEF TypeInv, NetTyped, ReceiveError
<1>2. NetTyped' /\ AcceptorsTyped' /\ InputsTyped' /\ RowsTyped'
    BY <1>1 DEF ReceiveError, TypeInv, NetTyped, AcceptorsTyped, InputsTyped,
       RowsTyped, acceptorVars, inputVars, rowVars
<1>3. pc[c] # "idle" => cspace[c][x].vcmd \in CmdOrUndef
    BY DEF TypeInv, SpacesTyped, ControlTyped, Entry, Call
<1>4. ASSUME pc[c] = "capture_receive", UNCHANGED <<spaceVars, rowVars>>,
             CaptureLoop(c, "OK")
      PROVE  ControlTyped' /\ SpacesTyped'
    <2>1. ControlTyped'
        BY <1>3, <1>4, CaptureLoopTyped DEF TypeInv, spaceVars
    <2>2. SpacesTyped'
        BY <1>4 DEF TypeInv, SpacesTyped, spaceVars
    <2> QED
        BY <2>1, <2>2
<1>5. ASSUME pc[c] = "write_receive", UNCHANGED <<cspace, rowVars>>,
             WriteLoop(c, "OK")
      PROVE  ControlTyped' /\ SpacesTyped'
    BY <1>3, <1>5, WriteLoopTyped DEF TypeInv, SpacesTyped
<1> QED
    BY <1>2, <1>4, <1>5 DEF ReceiveError, TypeInv

LEMMA NextTyped == TypeInv /\ [Next]_vars => TypeInv'
<1> SUFFICES ASSUME TypeInv, [Next]_vars PROVE TypeInv'
    OBVIOUS
<1>1. CASE UNCHANGED vars
    BY <1>1
    DEF TypeInv, NetTyped, AcceptorsTyped, SpacesTyped, RowsTyped,
        ControlTyped, InputsTyped, vars, netVars, acceptorVars, clientVars,
        spaceVars, rowVars, controlVars, inputVars
<1>2. ASSUME NEW a \in Up, acceptor_msg_handler(a) PROVE TypeInv'
    BY <1>2, UpAssumption, AcceptorTyped
<1>3. ASSUME NEW c \in Clients, ClientStep(c) PROVE TypeInv'
    <2>1. ASSUME client_receive(c) PROVE TypeInv'
        BY <2>1, CaptureReceiveTyped, WriteReceiveTyped DEF client_receive
    <2> QED
        BY <1>3, <2>1, WriteCallTyped, ReadCallTyped, CaptureSendTyped,
           WriteSendTyped, ReceiveErrorTyped
        DEF ClientStep
<1> QED
    BY <1>1, <1>2, <1>3 DEF Next

(***************************************************************************)
(* Every variable keeps its type: in particular no client ever sends a     *)
(* proposal number above PROP_MAX, and no loop counter runs below zero.    *)
(***************************************************************************)
THEOREM TypeCorrect == Spec => []TypeOK
<1>1. Spec => []TypeInv
    BY InitTyped, NextTyped, PTL DEF Spec
<1> QED
    BY <1>1, TypeInvImpliesTypeOK, PTL

(***************************************************************************)
(* The unsigned sum of PROP_NEXT never wraps: wor_get_next_proposal        *)
(* computes it before it compares it with PROP_MAX, and PROP_MAX leaves    *)
(* room for one round more.  This is why natural numbers model it exactly. *)
(***************************************************************************)
THEOREM NumbersFit ==
    ASSUME NEW k \in Nat, PropMax + 1 = k * PropOne
    PROVE  Spec => [](\A c \in Clients, x \in Addr :
                        PROP_NEXT(cspace[c][x].prop, c) <= PropMax + PropOne)
<1>1. TypeOK => \A c \in Clients, x \in Addr :
                    PROP_NEXT(cspace[c][x].prop, c) <= PropMax + PropOne
    BY NextProposalFits DEF TypeOK, Entry
<1> QED
    BY <1>1, TypeCorrect, PTL
=============================================================================
