---------------------------- MODULE WorInvariant ----------------------------
(***************************************************************************)
(* Why a register is written once: an inductive invariant of Wor, from     *)
(* which Agreement, OneCommandPerProposal and ImplementsWriteOnce follow.  *)
(***************************************************************************)
EXTENDS Wor

\* The numbers and commands that some client asked the acceptors to accept at
\* address x: those of the ACCEPTs in transit and of the votes they led to.
Accepts(x) == {m \in BagToSet(net) : m.type = "ACCEPT" /\ m.addr = x}

Asked(x) == {<<m.prop, m.vcmd>> : m \in Accepts(x)}
            \cup UNION {votes[a][x] : a \in Acceptors}

\* Acceptor a has not voted under number q, and never will.
WontVote(a, x, q) ==
    /\ aspace[a][x].prop > q
    /\ \A v \in Cmd : ~VotedFor(a, x, q, v)

\* No command but v is chosen at x under a number below p, or ever will be.
SafeAt(x, p, v) ==
    \A q \in Proposal : q < p =>
        \E Q \in Majority :
            \A a \in Q : VotedFor(a, x, q, v) \/ WontVote(a, x, q)

\* Acceptor a votes no more under a number below p, and the votes it did cast
\* there are not above vprop.
Reported(a, x, p, vprop) ==
    /\ aspace[a][x].prop >= p
    /\ \A r \in votes[a][x] : r[1] < p => r[1] <= vprop

\* Client c is between the first message of a capture round at x and the
\* first message of the write round that follows.
Capturing(c, x) ==
    /\ pc[c] \in {"capture_receive", "write_send"}
    /\ call[c].addr = x
-----------------------------------------------------------------------------
\* An acceptor's entry holds its highest vote, and a promise not below it.
EntryHoldsVotes(a, x) ==
    LET e == aspace[a][x] IN
    /\ e.vprop <= e.prop
    /\ e.vprop # PROP_UNDEF => VotedFor(a, x, e.vprop, e.vcmd)
    /\ \A r \in votes[a][x] : r[1] # PROP_UNDEF /\ r[1] <= e.vprop

EntriesHoldVotes == \A a \in Acceptors, x \in Addr : EntryHoldsVotes(a, x)

\* What a capture acknowledgment says of its sender stays true.
AcksReport ==
    \A m \in BagToSet(net) : m.type = "CAPTURE_ACK" =>
        /\ Reported(m.from, m.addr, m.prop, m.vprop)
        /\ m.vprop # PROP_UNDEF => VotedFor(m.from, m.addr, m.vprop, m.vcmd)

\* What a client knows in a capture round: its number is its own, the
\* acceptors it counts have reported, and it keeps the highest of their votes.
CaptureReports(c, x) ==
    LET e == cspace[c][x] IN
    /\ e.prop % PropOne = c
    /\ \A a \in captureRow[c][x] \cap RowIndices :
            Reported(a, x, e.prop, e.vprop)
    /\ \/ e.vprop = PROP_UNDEF /\ e.vcmd = UndefCmd
       \/ \E a \in Acceptors : VotedFor(a, x, e.vprop, e.vcmd)
    /\ pc[c] = "write_send" => IsQuorum(captureRow[c][x])

CapturesReport ==
    \A c \in Clients, x \in Addr : Capturing(c, x) => CaptureReports(c, x)

\* A client asks nothing under a number above its current one, and nothing
\* under the current one before its capture round is over.
NumbersReached(c, x) ==
    \A r \in Asked(x) : r[1] % PropOne = c => r[1] <= cspace[c][x].prop

NumberUnused(c, x) ==
    \A r \in Asked(x) : r[1] % PropOne = c => r[1] < cspace[c][x].prop

NumbersInOrder ==
    \A c \in Clients, x \in Addr :
        /\ NumbersReached(c, x)
        /\ Capturing(c, x) => NumberUnused(c, x)

OneCommandAsked ==
    \A x \in Addr : \A r, s \in Asked(x) : r[1] = s[1] => r[2] = s[2]

AskedIsSafe ==
    \A x \in Addr : \A r \in Asked(x) : SafeAt(x, r[1], r[2])

\* The commands asked for were proposed as their own by some client.
AskedIsProposed ==
    \A x \in Addr : \A r \in Asked(x) : r[2] \in proposed[x]

(***************************************************************************)
(* The inductive invariant: promises and votes at the acceptors, the       *)
(* acknowledgments in transit, the quorum a client has collected and the   *)
(* numbers it has used fit together in such a way that no ACCEPT the       *)
(* acceptors may still receive can overwrite what was chosen.              *)
(***************************************************************************)
IInv ==
    /\ EntriesHoldVotes
    /\ AcksReport
    /\ CapturesReport
    /\ NumbersInOrder
    /\ OneCommandAsked
    /\ AskedIsSafe
    /\ AskedIsProposed
=============================================================================
