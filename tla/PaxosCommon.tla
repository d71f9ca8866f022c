---------------------------- MODULE PaxosCommon ----------------------------
(***************************************************************************)
(* The vocabulary every component of MinPaxos shares: node identifiers,    *)
(* proposal numbers, commands and the four messages (paxos_common/), and   *)
(* the client's view of which acceptors make a quorum (wor_quorums.c).     *)
(***************************************************************************)
EXTENDS Integers, FiniteSets

CONSTANTS
    NumAcceptors,   \* paxos_num_acceptors; both init functions set it to 3
    Clients,        \* identifiers of the client processes
    Addr,           \* log addresses in use, a subset of 0 .. LOG_SIZE - 1
    Cmd,            \* commands <<cmd0, cmd1>> with cmd0 # CMD_UNDEF
    UndefCmd,       \* the pair <<CMD_UNDEF, 0>>
    PropOne,        \* PROP_ONE = 2^16, the width of a node id in a proposal
    PropMax         \* PROP_MAX = INT_MAX - PROP_ONE

MIN_ACCEPTORS == 3
MAX_ACCEPTORS == 7
PROP_UNDEF == 0

\* num_acceptors_set clamps to MIN_ACCEPTORS .. MAX_ACCEPTORS.  A quorum row
\* has MAX_ACCEPTORS entries, indexed by acceptor id, so id 7 has no entry.
ASSUME AcceptorsAssumption ==
    NumAcceptors \in MIN_ACCEPTORS .. (MAX_ACCEPTORS - 1)

\* "valid ids are > 0" (data.h); an id fits in the low half of a proposal.
ASSUME ClientsAssumption ==
    /\ PropOne \in Nat \ {0}
    /\ PropMax \in Nat
    /\ Clients \subseteq 1 .. (PropOne - 1)

ASSUME CommandAssumption == UndefCmd \notin Cmd

-----------------------------------------------------------------------------
\* client_view_init addresses the acceptors by the ports of ids 1 .. N.
Acceptors == 1 .. NumAcceptors

Proposal == 0 .. PropMax

\* A proposal number is a round (the high bits) and a node id (the low bits).
PROP_NEXT_NUM(n) == ((n \div PropOne) + 1) * PropOne
PROP_NEXT_NID(id) == id % PropOne
PROP_NEXT(n, id) == PROP_NEXT_NUM(n) + PROP_NEXT_NID(id)

CmdOrUndef == Cmd \cup {UndefCmd}

\* A client runs wor_capture_and_write(addr, cmd) or wor_read(addr).
Call == [op : {"write"}, addr : Addr, cmd : Cmd]
        \cup [op : {"read"}, addr : Addr, cmd : {UndefCmd}]
-----------------------------------------------------------------------------
(***************************************************************************)
(* A row of wor_quorums_capture or wor_quorums_write is the set of the     *)
(* acceptor ids whose entry is 1.  Ids run from 1 to N, but the loops that *)
(* reset and count a row run over the indices 0 .. N - 1.                  *)
(***************************************************************************)
RowIndices == 0 .. (NumAcceptors - 1)

RowReset(row) == row \ RowIndices

\* Mutant: at least half, rounded down, is enough.
IsHalf(row) == Cardinality(row \cap RowIndices) >= NumAcceptors \div 2

IsQuorum(row) == 2 * Cardinality(row \cap RowIndices) > NumAcceptors

\* What a quorum is meant to be: more than half of the acceptors.
Majority == {Q \in SUBSET Acceptors : 2 * Cardinality(Q) > NumAcceptors}
-----------------------------------------------------------------------------
(***************************************************************************)
(* msg_t.  "client" stands for the UDP endpoint of the client: the sender  *)
(* of a request, the destination of an acknowledgment.                     *)
(***************************************************************************)
Request == [type : {"CAPTURE", "ACCEPT"}, client : Clients, to : Acceptors,
            addr : Addr, prop : Proposal, vprop : Proposal,
            vcmd : CmdOrUndef]

Ack == [type : {"CAPTURE_ACK", "ACCEPT_ACK"}, client : Clients,
        from : Acceptors, addr : Addr, prop : Proposal, vprop : Proposal,
        vcmd : CmdOrUndef]

Message == Request \cup Ack
=============================================================================
