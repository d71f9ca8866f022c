-------------------------- MODULE WorCallInvariant --------------------------
(***************************************************************************)
(* Why a call may be believed: an inductive invariant of Wor, on top of    *)
(* IInv, from which OkMeansChosen, ReadSeesChosen and ImplementsCalls      *)
(* follow; and two more of them, about the datagrams that a client in a    *)
(* receive loop is owed, and about a client alone.                         *)
(***************************************************************************)
EXTENDS WorInvariant

\* No number of client c is in use at an address above c's current one.
NumbersSent ==
    \A c \in Clients, x \in Addr :
        /\ \A m \in BagToSet(net) : m.addr = x /\ m.prop % PropOne = c
                => m.prop <= cspace[c][x].prop
        /\ \A a \in Acceptors : aspace[a][x].prop % PropOne = c
                => aspace[a][x].prop <= cspace[c][x].prop

\* Write rounds use the client's own numbers, and so do the answers to them.
AcceptsOwn ==
    \A m \in BagToSet(net) : m.type \in {"ACCEPT", "ACCEPT_ACK"}
        => m.prop % PropOne = m.client

\* A write acknowledgment tells of a vote.
AcksVoted ==
    \A m \in BagToSet(net) : m.type = "ACCEPT_ACK"
        => VotedFor(m.from, m.addr, m.prop, m.vcmd)
-----------------------------------------------------------------------------
\* Client c's loops: a register not known to be written is in its first round,
\* and one known to be written is not captured.
Turns(c) ==
    LET x == call[c].addr IN
    /\ pc[c] # "idle" => status[c] = "none"
    /\ pc[c] \in {"capture_receive", "write_send", "write_receive"}
            => ~written[c][x]
    /\ pc[c] # "idle" /\ ~written[c][x] => retries[c] = MaxRetries
    /\ pc[c] = "capture_send" /\ written[c][x] => attempts[c] = MaxRetries
    /\ pc[c] \in {"write_send", "write_receive"} => MaxRetries > 1
    /\ \A y \in Addr : written[c][y] => MaxRetries > 1

\* The acceptors that client c counts in its write round voted for what it
\* holds under its current number.
RowVoted(c, x) ==
    LET e == cspace[c][x] IN
    /\ \A a \in writeRow[c][x] \cap RowIndices : VotedFor(a, x, e.prop, e.vcmd)
    /\ e.vcmd \in proposed[x] \cup {UndefCmd}
    /\ e.vcmd = UndefCmd => call[c].op = "write"

RowsVoted(c) ==
    LET x == call[c].addr IN
    /\ pc[c] \in {"capture_receive", "write_send"}
            => writeRow[c][x] \cap RowIndices = {}
    /\ pc[c] = "write_receive" => RowVoted(c, x)
-----------------------------------------------------------------------------
\* Acceptor a acknowledged c's current number at x, or some client's message
\* when it had promised that number.
Answered(c, a, x) ==
    \/ a \in captureRow[c][x] \cap RowIndices
    \/ \E m \in BagToSet(net) :
        /\ m.type = "CAPTURE_ACK"
        /\ m.from = a
        /\ m.addr = x
        /\ m.prop = cspace[c][x].prop

\* A majority voted for v before c's call began, and when c captures x, those
\* of them that acknowledge its number voted under a lower one, or the same.
VotedBefore(c, x, v) ==
    \E p \in Proposal, Q \in Majority : \A a \in Q :
        /\ VotedFor(a, x, p, v)
        /\ Capturing(c, x) /\ Answered(c, a, x) => p <= cspace[c][x].prop

\* c holds v, which was chosen below its current number.
HoldsChosen(c, x, v) ==
    /\ cspace[c][x].vcmd = v
    /\ \E p \in Proposal : p < cspace[c][x].prop /\ ChosenAt(x, p, v)

\* What was chosen when c's call began is what c finds.
BeforeFound(c) ==
    LET x == call[c].addr IN
    \A v \in before[c] :
        /\ pc[c] # "idle" => VotedBefore(c, x, v)
        /\ pc[c] = "write_receive" => HoldsChosen(c, x, v)
        /\ pc[c] = "capture_send" /\ written[c][x] /\ call[c].op = "read"
                => cspace[c][x].vcmd = v

(***************************************************************************)
(* The inductive invariant: the votes behind the acknowledgments a client  *)
(* counts, the turns its loops have left, and what was chosen before its   *)
(* call began fit together in such a way that OK is never answered for a   *)
(* command that is not chosen, nor another command than one chosen before. *)
(***************************************************************************)
CallsInv ==
    /\ NumbersSent
    /\ AcceptsOwn
    /\ AcksVoted
    /\ \A c \in Clients : Turns(c) /\ RowsVoted(c) /\ BeforeFound(c)
    /\ OkMeansChosen
    /\ ReadSeesChosen
-----------------------------------------------------------------------------
\* Acceptor a owes c an answer to a CAPTURE, or has one on its way to c.
Owes(a, c) ==
    \E m \in BagToSet(net) :
        /\ m.client = c
        /\ \/ m.type = "CAPTURE" /\ m.to = a
           \/ m.type = "CAPTURE_ACK" /\ m.from = a

\* The same of an answer that c will not count.  The first answer to a number
\* is one: it carries the number the acceptor had promised before.
OwesFirst(a, c) ==
    LET x == call[c].addr
        p == cspace[c][x].prop
    IN
    \E m \in BagToSet(net) :
        /\ m.client = c
        /\ \/ /\ m.type = "CAPTURE" /\ m.to = a
              /\ m.addr = x /\ m.prop = p /\ aspace[a][x].prop # p
           \/ /\ m.type = "CAPTURE_ACK" /\ m.from = a
              /\ ~ (m.addr = x /\ m.prop = p)

Paid(c) == {a \in Acceptors : ~Owes(a, c)}
PaidFirst(c) == {a \in Acceptors : ~OwesFirst(a, c)}
Counted(c) == captureRow[c][call[c].addr] \cap RowIndices

\* Every turn of the capture loop takes one answer, counted or not.
CaptureOwed(c) ==
    pc[c] = "capture_receive" =>
        Cardinality(Counted(c)) + Cardinality(PaidFirst(c)) + pending[c]
            <= NumAcceptors

\* Every turn of the write loop takes one of the answers that are left.
WriteOwed(c) ==
    /\ pc[c] = "write_send" => Paid(c) = {}
    /\ pc[c] = "write_receive" =>
        Cardinality(Paid(c)) + pending[c] <= NumAcceptors

\* Capture requests carry the client's own numbers.
CapturesOwn ==
    \A m \in BagToSet(net) : m.type = "CAPTURE"
        => m.prop % PropOne = m.client

(***************************************************************************)
(* Why a client that waits is owed a datagram, on top of CallsInv.  With   *)
(* three or four acceptors a capture that succeeds before its last turn    *)
(* has spent all its turns on the answers it counted, and leaves a first   *)
(* answer of every acceptor to the write round; with five, one is missing. *)
(***************************************************************************)
ClientsOwed ==
    /\ CapturesOwn
    /\ \A c \in Clients : /\ CaptureOwed(c)
                          /\ NumAcceptors <= 4 => WriteOwed(c)
-----------------------------------------------------------------------------
Owing(c) == {a \in Acceptors : Owes(a, c)}

\* The acceptor whose answer m asks for, or is.
Answerer(m) == IF m.type = "CAPTURE" THEN m.to ELSE m.from

\* Alone, c is in its capture round, or between two of them with nothing in
\* transit; m is the one request of the round to its acceptor, not yet
\* answered, or the answer, which carries a number below c's.
OnlyAnswer(c, m) ==
    LET p == cspace[c][m.addr].prop IN
    /\ net[m] = 1
    /\ m.addr = call[c].addr
    /\ \/ m.type = "CAPTURE" /\ m.prop = p /\ aspace[m.to][m.addr].prop < p
       \/ m.type = "CAPTURE_ACK" /\ m.prop < p
    /\ \A k \in BagToSet(net) : Answerer(k) = Answerer(m) => k = m

CapturesInVain(c) ==
    /\ pc[c] \in {"idle", "capture_send", "capture_receive"}
    /\ status[c] \notin {"OK", "ALREADYWRITTEN", "UNWRITTEN"}
    /\ \A x \in Addr :
        /\ ~written[c][x]
        /\ captureRow[c][x] = {}
        /\ \A a \in Acceptors : aspace[a][x].prop <= cspace[c][x].prop
    /\ \A m \in BagToSet(net) : OnlyAnswer(c, m)
    /\ Cardinality(Owing(c))
        <= IF pc[c] = "capture_receive" THEN pending[c] ELSE 0

(***************************************************************************)
(* Why a client alone never captures a register while no datagram has been *)
(* duplicated: the round is over only when every acceptor has answered it, *)
(* once, with a number below the client's.                                 *)
(***************************************************************************)
AloneInv ==
    faults = 0 /\ (\A c, d \in Clients : c = d) =>
        /\ \A a \in Acceptors, x \in Addr : votes[a][x] = {}
        /\ \A c \in Clients : CapturesInVain(c)
=============================================================================
