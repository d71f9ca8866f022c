--------------------------- MODULE WorCallProofs ----------------------------
(***************************************************************************)
(* Calls may be believed: CallsInv is an invariant of Wor, for every       *)
(* number of acceptors, clients, addresses and commands, and every bound.  *)
(* And calls are served: what a waiting client is owed, what one that is   *)
(* alone can hope for, and why the loops of a call run out.                *)
(***************************************************************************)
EXTENDS WorCallInvariant, WorProofs

-----------------------------------------------------------------------------
(***************************************************************************)
(* Majorities of votes.                                                    *)
(***************************************************************************)
LEMMA ChosenIsAsked ==
    ASSUME NEW x \in Addr, NEW p, NEW v, ChosenAt(x, p, v)
    PROVE  <<p, v>> \in Asked(x)
<1>1. {a \in Acceptors : VotedFor(a, x, p, v)} \in Majority
    BY DEF ChosenAt
<1>2. PICK a \in Acceptors : VotedFor(a, x, p, v)
    BY <1>1, MajoritiesMeet
<1> QED
    BY <1>2, VotesAsked

\* Nothing else is asked for above the number of a chosen command.
LEMMA ChosenThenAsked ==
    ASSUME TypeInv, IInv, NEW x \in Addr, NEW v \in Cmd, NEW w \in Cmd,
           NEW p \in Proposal, NEW q \in Proposal, p < q,
           ChosenAt(x, p, v), <<q, w>> \in Asked(x)
    PROVE  v = w
<1> DEFINE V == {a \in Acceptors : VotedFor(a, x, p, v)}
           s == <<q, w>>
<1>1. V \in Majority
    BY DEF ChosenAt
<1>2. SafeAt(x, q, w)
    <2>1. SafeAt(x, s[1], s[2])
        BY DEF IInv, AskedIsSafe
    <2> QED
        BY <2>1
<1>3. PICK Q \in Majority :
        \A a \in Q : VotedFor(a, x, p, w) \/ WontVote(a, x, p)
    BY <1>2 DEF SafeAt
<1>4. PICK a \in Acceptors : a \in V /\ a \in Q
    BY <1>1, MajoritiesMeet
<1>5. VotedFor(a, x, p, v) /\ VotedFor(a, x, p, w)
    BY <1>3, <1>4 DEF WontVote
<1>6. <<p, v>> \in Asked(x) /\ <<p, w>> \in Asked(x)
    BY <1>5, VotesAsked
<1> QED
    BY <1>6 DEF IInv, OneCommandAsked

LEMMA MajorityGrows ==
    ASSUME NEW Q \in Majority, NEW V \in SUBSET Acceptors, Q \subseteq V
    PROVE  V \in Majority
<1>1. NumAcceptors \in Nat
    BY AcceptorsAssumption DEF MIN_ACCEPTORS, MAX_ACCEPTORS
<1>2. IsFiniteSet(V)
    <2>1. IsFiniteSet(Acceptors)
        BY <1>1, FS_Interval DEF Acceptors
    <2> QED
        BY <2>1, FS_Subset
<1>3. IsFiniteSet(Q) /\ Cardinality(Q) <= Cardinality(V)
    BY <1>2, FS_Subset
<1>4. 2 * Cardinality(Q) > NumAcceptors
    BY DEF Majority
<1>5. Cardinality(Q) \in Nat /\ Cardinality(V) \in Nat
    BY <1>2, <1>3, FS_CardinalityType
<1> QED
    BY <1>1, <1>3, <1>4, <1>5 DEF Majority

\* Enough votes for one command under one number: it is chosen.
LEMMA VotesChoose ==
    ASSUME TypeInv, NEW x \in Addr, NEW p, NEW v, NEW Q \in Majority,
           \A a \in Q : VotedFor(a, x, p, v)
    PROVE  ChosenAt(x, p, v) /\ v \in Cmd /\ Chosen(x, v)
<1> DEFINE V == {a \in Acceptors : VotedFor(a, x, p, v)}
<1>1. V \in Majority
    <2>1. V \in SUBSET Acceptors /\ Q \subseteq V
        BY DEF Majority
    <2> QED
        BY <2>1, MajorityGrows
<1>2. PICK a \in Acceptors : VotedFor(a, x, p, v)
    BY MajoritiesMeet
<1>3. <<p, v>> \in votes[a][x] /\ votes[a][x] \in SUBSET (Proposal \X Cmd)
    BY <1>2 DEF VotedFor, TypeInv, AcceptorsTyped
<1>4. ChosenAt(x, p, v)
    BY <1>1 DEF ChosenAt
<1>5. <<p, v>>[1] = p /\ <<p, v>>[2] = v /\ v \in Cmd
    BY <1>3
<1> QED
    BY <1>3, <1>4, <1>5 DEF Chosen

\* The steps of a client change no vote.
LEMMA SameVotes ==
    ASSUME UNCHANGED acceptorVars
    PROVE  /\ \A a, x, p, v : VotedFor(a, x, p, v)' <=> VotedFor(a, x, p, v)
           /\ \A x, p, v : ChosenAt(x, p, v)' <=> ChosenAt(x, p, v)
           /\ \A x, v : Chosen(x, v)' <=> Chosen(x, v)
<1>1. \A a, x, p, v : VotedFor(a, x, p, v)' <=> VotedFor(a, x, p, v)
    BY DEF VotedFor, acceptorVars
<1>2. \A x, p, v : ChosenAt(x, p, v)' <=> ChosenAt(x, p, v)
    BY DEF ChosenAt, VotedFor, acceptorVars
<1>3. \A x, v : Chosen(x, v)' <=> Chosen(x, v)
    BY <1>2 DEF Chosen, acceptorVars
<1> QED
    BY <1>1, <1>2, <1>3

LEMMA ChosenAtKept ==
    ASSUME AcceptorsForward, NEW x \in Addr, NEW p, NEW v, ChosenAt(x, p, v)
    PROVE  ChosenAt(x, p, v)'
<1> DEFINE V == {a \in Acceptors : VotedFor(a, x, p, v)}
           W == {a \in Acceptors : VotedFor(a, x, p, v)'}
<1>1. V \in Majority
    BY DEF ChosenAt
<1>2. V \subseteq W /\ W \in SUBSET Acceptors
    BY VotedStable
<1>3. W \in Majority
    BY <1>1, <1>2, MajorityGrows
<1> QED
    BY <1>3 DEF ChosenAt, VotedFor
-----------------------------------------------------------------------------
(***************************************************************************)
(* What a client knows stays true while others take steps.                 *)
(***************************************************************************)
AnswerTrue(c) ==
    LET x == call[c].addr IN
    /\ call[c].op = "write" /\ status[c] = "OK" => Chosen(x, cspace[c][x].vcmd)
    /\ call[c].op = "read" /\ before[c] # {} =>
        /\ status[c] # "UNWRITTEN"
        /\ status[c] = "OK" => readCmd[c] \in before[c]

Knows(c) == Turns(c) /\ RowsVoted(c) /\ BeforeFound(c) /\ AnswerTrue(c)

LEMMA CallsInvParts ==
    CallsInv <=> /\ NumbersSent /\ AcceptsOwn /\ AcksVoted
                 /\ \A c \in Clients : Knows(c)
BY DEF CallsInv, Knows, AnswerTrue, OkMeansChosen, ReadSeesChosen

LEMMA CallsInvNext ==
    ASSUME NumbersSent', AcceptsOwn', AcksVoted', \A c \in Clients : Knows(c)'
    PROVE  CallsInv'
BY DEF CallsInv, Knows, AnswerTrue, OkMeansChosen, ReadSeesChosen

\* What the steps of others leave alone of client d.
SameClient(d) ==
    /\ pc'[d] = pc[d] /\ call'[d] = call[d]
    /\ retries'[d] = retries[d] /\ attempts'[d] = attempts[d]
    /\ status'[d] = status[d] /\ readCmd'[d] = readCmd[d]
    /\ cspace'[d] = cspace[d] /\ written'[d] = written[d]
    /\ captureRow'[d] = captureRow[d] /\ writeRow'[d] = writeRow[d]
    /\ before'[d] = before[d]

\* New capture acknowledgments carry the promise of their sender.
AcksFresh ==
    \A m \in BagToSet(net') : m.type = "CAPTURE_ACK" =>
        m \in BagToSet(net) \/ m.prop = aspace[m.from][m.addr].prop

LEMMA VotedBeforeKept ==
    ASSUME TypeInv, IInv, AcceptorsForward, AcksFresh,
           NEW c \in Clients, NEW x \in Addr, NEW v \in Cmd,
           pc'[c] = pc[c], call'[c] = call[c], cspace'[c] = cspace[c],
           captureRow'[c] = captureRow[c], VotedBefore(c, x, v)
    PROVE  VotedBefore(c, x, v)'
<1>1. PICK p \in Proposal, Q \in Majority : \A a \in Q :
        /\ VotedFor(a, x, p, v)
        /\ Capturing(c, x) /\ Answered(c, a, x) => p <= cspace[c][x].prop
    BY DEF VotedBefore
<1>2. ASSUME NEW a \in Q
      PROVE  /\ VotedFor(a, x, p, v)'
             /\ Capturing(c, x)' /\ Answered(c, a, x)'
                    => p <= cspace'[c][x].prop
    <2>1. a \in Acceptors
        BY DEF Majority
    <2>2. VotedFor(a, x, p, v)'
        BY <1>1, <2>1, VotedStable
    <2>3. p <= aspace[a][x].prop
        <3>1. /\ aspace[a][x].vprop \in Nat /\ aspace[a][x].prop \in Nat
              /\ p \in Nat
            BY <2>1, ClientsAssumption
            DEF TypeInv, AcceptorsTyped, Entry, Proposal
        <3>2. <<p, v>> \in votes[a][x] /\ <<p, v>>[1] = p
            BY <1>1 DEF VotedFor
        <3>3. /\ aspace[a][x].vprop <= aspace[a][x].prop
              /\ p <= aspace[a][x].vprop
            BY <2>1, <3>2 DEF IInv, EntriesHoldVotes, EntryHoldsVotes
        <3> QED
            BY <3>1, <3>3
    <2>4. ASSUME Capturing(c, x)', Answered(c, a, x)'
          PROVE  p <= cspace'[c][x].prop
        <3>1. Capturing(c, x)
            BY <2>4 DEF Capturing
        <3>2. Answered(c, a, x) \/ cspace[c][x].prop = aspace[a][x].prop
            BY <2>4 DEF Answered, AcksFresh
        <3> QED
            BY <1>1, <2>3, <3>1, <3>2
    <2> QED
        BY <2>2, <2>4
<1> QED
    BY <1>2 DEF VotedBefore

LEMMA KnowsKept ==
    ASSUME TypeInv, TypeInv', IInv, AcceptorsForward, AcksFresh,
           \A x \in Addr : proposed[x] \subseteq proposed'[x],
           NEW d \in Clients, Knows(d), SameClient(d)
    PROVE  Knows(d)'
<1> USE DEF SameClient
<1>1. Turns(d)'
    BY DEF Knows, Turns
<1>2. CASE call[d].addr \notin Addr
    <2>1. pc[d] = "idle" /\ call[d] = NoCall
        BY <1>2 DEF TypeInv, ControlTyped, Call
    <2>2. RowsVoted(d)' /\ BeforeFound(d)' /\ AnswerTrue(d)'
        BY <2>1 DEF RowsVoted, BeforeFound, AnswerTrue, NoCall
    <2> QED
        BY <1>1, <2>2 DEF Knows
<1>3. CASE call[d].addr \in Addr
    <2> DEFINE x == call[d].addr
               e == cspace[d][x]
    <2>1. RowsVoted(d)'
        <3>1. CASE pc[d] = "write_receive"
            <4>1. RowVoted(d, x)
                BY <3>1 DEF Knows, RowsVoted
            <4>2. \A a \in writeRow[d][x] \cap RowIndices :
                    VotedFor(a, x, e.prop, e.vcmd)'
                BY <1>3, <4>1, VotedStable DEF RowVoted, TypeInv, RowsTyped
            <4>3. RowVoted(d, x)'
                BY <1>3, <4>1, <4>2 DEF RowVoted
            <4> QED
                BY <3>1, <4>3 DEF RowsVoted
        <3>2. CASE pc[d] # "write_receive"
            BY <3>2 DEF Knows, RowsVoted
        <3> QED
            BY <3>1, <3>2
    <2>2. BeforeFound(d)'
        <3> SUFFICES ASSUME NEW v \in before[d]
                     PROVE  /\ pc[d] # "idle" => VotedBefore(d, x, v)'
                            /\ pc[d] = "write_receive"
                                    => HoldsChosen(d, x, v)'
                            /\ pc[d] = "capture_send" /\ written[d][x]
                               /\ call[d].op = "read" => e.vcmd = v
            BY DEF BeforeFound
        <3>1. v \in Cmd
            BY DEF TypeInv, InputsTyped
        <3>2. pc[d] # "idle" => VotedBefore(d, x, v)'
            BY <1>3, <3>1, VotedBeforeKept DEF Knows, BeforeFound
        <3>3. pc[d] = "write_receive" => HoldsChosen(d, x, v)'
            BY <1>3, ChosenAtKept DEF Knows, BeforeFound, HoldsChosen
        <3> QED
            BY <3>2, <3>3 DEF Knows, BeforeFound
    <2>3. AnswerTrue(d)'
        <3>1. ASSUME call[d].op = "write", status[d] = "OK"
              PROVE  Chosen(x, e.vcmd)'
            <4>1. Chosen(x, e.vcmd)
                BY <3>1 DEF Knows, AnswerTrue
            <4>2. e.vcmd \in Cmd
                BY <1>3, <4>1 DEF Chosen, TypeInv, AcceptorsTyped
            <4> QED
                BY <1>3, <4>1, <4>2, ChosenKept
        <3> QED
            BY <3>1 DEF Knows, AnswerTrue
    <2> QED
        BY <1>1, <2>1, <2>2, <2>3 DEF Knows
<1> QED
    BY <1>2, <1>3
-----------------------------------------------------------------------------
(***************************************************************************)
(* The steps of an acceptor.                                               *)
(***************************************************************************)
LEMMA AcceptorKnows ==
    ASSUME TypeInv, TypeInv', IInv, CallsInv, AcceptorsForward, AcksFresh,
           UNCHANGED clientVars
    PROVE  \A c \in Clients : Knows(c)'
<1> SUFFICES ASSUME NEW c \in Clients PROVE Knows(c)'
    OBVIOUS
<1>1. SameClient(c) /\ UNCHANGED proposed
    BY DEF SameClient, clientVars, spaceVars, rowVars, controlVars, inputVars
<1>2. Knows(c)
    BY CallsInvParts
<1> QED
    BY <1>1, <1>2, KnowsKept

LEMMA HandleCaptureCalls ==
    ASSUME TypeInv, TypeInv', IInv, CallsInv, NEW a \in Acceptors,
           NEW m \in BagToSet(net), HandleCapture(a, m)
    PROVE  CallsInv'
<1>1. m \in Request
    BY MessageTypes DEF TypeInv, NetTyped, HandleCapture
<1>2. aspace[a][m.addr] \in Entry /\ m.addr \in Addr /\ m.prop \in Proposal
    BY <1>1 DEF TypeInv, AcceptorsTyped, Request
<1>3. UNCHANGED <<votes, clientVars, cspace>>
    BY DEF HandleCapture, clientVars, spaceVars
<1>4. \A b \in Acceptors, x \in Addr :
        /\ aspace'[b][x].prop >= aspace[b][x].prop
        /\ \/ aspace'[b][x].prop = aspace[b][x].prop
           \/ x = m.addr /\ aspace'[b][x].prop = m.prop
    BY <1>1, <1>2, ClientsAssumption
    DEF HandleCapture, TypeInv, AcceptorsTyped, Entry, Proposal
<1>5. AcceptorsForward
    BY <1>3, <1>4, ClientsAssumption
    DEF AcceptorsForward, TypeInv, AcceptorsTyped, Entry, Proposal
<1>6. \A n \in BagToSet(net') :
        \/ n \in BagToSet(net)
        \/ /\ n.type = "CAPTURE_ACK" /\ n.addr = m.addr /\ n.from = a
           /\ n.prop = aspace[a][m.addr].prop
    BY ReceiveInTransit
    DEF HandleCapture, TypeInv, NetTyped, CaptureAnswer
<1>7. AcksFresh
    BY <1>6 DEF AcksFresh
<1>8. NumbersSent'
    BY <1>1, <1>2, <1>3, <1>4, <1>6 DEF CallsInv, NumbersSent
<1>9. AcceptsOwn'
    BY <1>6 DEF CallsInv, AcceptsOwn
<1>10. AcksVoted'
    BY <1>3, <1>6 DEF CallsInv, AcksVoted, VotedFor
<1>11. \A c \in Clients : Knows(c)'
    BY <1>3, <1>5, <1>7, AcceptorKnows
<1> QED
    BY <1>8, <1>9, <1>10, <1>11, CallsInvNext

LEMMA HandleAcceptCalls ==
    ASSUME TypeInv, TypeInv', IInv, CallsInv, NEW a \in Acceptors,
           NEW m \in BagToSet(net), HandleAccept(a, m)
    PROVE  CallsInv'
<1>1. m \in Request /\ m.type = "ACCEPT"
    BY MessageTypes DEF TypeInv, NetTyped, HandleAccept
<1>2. m.addr \in Addr
    BY <1>1 DEF Request
<1>3. UNCHANGED <<clientVars, cspace>>
    BY DEF HandleAccept, clientVars, spaceVars
<1>4. AcceptorsForward
    BY HandleAcceptEffect
<1>5. \A n \in BagToSet(net') :
        \/ n \in BagToSet(net)
        \/ /\ n.type = "ACCEPT_ACK" /\ n.addr = m.addr /\ n.from = a
           /\ n.prop = m.prop /\ n.vcmd = m.vcmd /\ n.client = m.client
           /\ VotedFor(a, m.addr, m.prop, m.vcmd)'
    <2>1. CASE Receive(m, {})
        BY <2>1, ReceiveInTransit DEF TypeInv, NetTyped
    <2>2. CASE /\ votes' = [votes EXCEPT ![a][m.addr] =
                              @ \cup {<<m.prop, m.vcmd>>}]
               /\ Receive(m, {[type |-> "ACCEPT_ACK", client |-> m.client,
                               from |-> a, addr |-> m.addr, prop |-> m.prop,
                               vprop |-> m.vprop, vcmd |-> m.vcmd]})
        <3>1. VotedFor(a, m.addr, m.prop, m.vcmd)'
            BY <1>2, <2>2 DEF VotedFor, TypeInv, AcceptorsTyped
        <3> QED
            BY <2>2, <3>1, ReceiveInTransit DEF TypeInv, NetTyped
    <2> QED
        BY <2>1, <2>2 DEF HandleAccept
<1>6. AcksFresh
    BY <1>5 DEF AcksFresh
<1>7. \A b \in Acceptors, x \in Addr :
        \/ aspace'[b][x].prop = aspace[b][x].prop
        \/ x = m.addr /\ aspace'[b][x].prop = m.prop
    BY <1>2 DEF HandleAccept, acceptorVars, TypeInv, AcceptorsTyped
<1>8. NumbersSent'
    BY <1>2, <1>3, <1>5, <1>7 DEF CallsInv, NumbersSent
<1>9. AcceptsOwn'
    BY <1>1, <1>5 DEF CallsInv, AcceptsOwn
<1>10. AcksVoted'
    <2> SUFFICES ASSUME NEW n \in BagToSet(net'), n.type = "ACCEPT_ACK"
                 PROVE  VotedFor(n.from, n.addr, n.prop, n.vcmd)'
        BY DEF AcksVoted
    <2>1. n \in Ack
        BY MessageTypes DEF TypeInv, NetTyped
    <2>2. CASE n \in BagToSet(net)
        BY <1>4, <2>1, <2>2, VotedStable DEF CallsInv, AcksVoted, Ack
    <2> QED
        BY <1>5, <2>2
<1>11. \A c \in Clients : Knows(c)'
    BY <1>3, <1>4, <1>6, AcceptorKnows
<1> QED
    BY <1>8, <1>9, <1>10, <1>11, CallsInvNext
-----------------------------------------------------------------------------
(***************************************************************************)
(* How the loops of a client end.                                          *)
(***************************************************************************)
OthersControl(c) ==
    \A d \in Clients \ {c} :
        /\ pc'[d] = pc[d]
        /\ retries'[d] = retries[d] /\ attempts'[d] = attempts[d]
        /\ status'[d] = status[d] /\ readCmd'[d] = readCmd[d]

GoesOn(c, place) ==
    /\ pc' = [pc EXCEPT ![c] = place]
    /\ UNCHANGED <<retries, status, readCmd>>

\* The call answers st, and a read finds cmd.
Ends(c, st, cmd) ==
    /\ pc' = [pc EXCEPT ![c] = "idle"]
    /\ status' = [status EXCEPT ![c] = st]
    /\ readCmd' = IF call[c].op = "read" THEN [readCmd EXCEPT ![c] = cmd]
                  ELSE readCmd

LEMMA ReturnsEnds ==
    ASSUME TypeInv, NEW c \in Clients, NEW st, NEW cmd, Returns(c, st, cmd)
    PROVE  /\ UNCHANGED call
           /\ OthersControl(c)
           /\ \/ call[c].op = "write" /\ Ends(c, st, cmd)
              \/ /\ call[c].op = "read"
                 /\ st \in {"OK", "ALREADYWRITTEN"}
                 /\ Ends(c, "OK", cmd)
              \/ /\ call[c].op = "read"
                 /\ st \notin {"OK", "ALREADYWRITTEN"}
                 /\ Ends(c, st, UndefCmd)
<1> USE DEF Idle, OthersControl, Ends, TypeInv, ControlTyped
<1>1. CASE WriteReturns(c, st)
    BY <1>1 DEF WriteReturns
<1>2. CASE ReadReturns(c, st, cmd)
    BY <1>2 DEF ReadReturns
<1> QED
    BY <1>1, <1>2 DEF Returns

\* A call that fails, whatever it is.
LEMMA FailureEnds ==
    ASSUME TypeInv, NEW c \in Clients, NEW st, NEW cmd, Returns(c, st, cmd),
           st \notin {"OK", "ALREADYWRITTEN"}
    PROVE  Ends(c, st, UndefCmd)
BY ReturnsEnds DEF Ends

LEMMA CaptureEnds ==
    ASSUME TypeInv, NEW c \in Clients, NEW st \in {"OK", "PREEMPTED"},
           NEW cmd, CaptureRoundEnds(c, st, cmd)
    PROVE  /\ UNCHANGED call
           /\ OthersControl(c)
           /\ \/ GoesOn(c, "capture_send")
              \/ GoesOn(c, "write_send") /\ st = "OK" /\ MaxRetries > 1
              \/ Ends(c, "TIMEOUT", UndefCmd)
<1> DEFINE left == attempts[c] - 1
<1>1. CASE /\ attempts' = [attempts EXCEPT ![c] = left]
           /\ pc' = [pc EXCEPT ![c] = "capture_send"]
           /\ UNCHANGED <<call, retries, status, readCmd>>
    BY <1>1 DEF OthersControl, GoesOn, TypeInv, ControlTyped
<1>2. CASE /\ st = "OK"
           /\ left > 0
           /\ pc' = [pc EXCEPT ![c] = "write_send"]
           /\ attempts' = [attempts EXCEPT ![c] = 0]
           /\ UNCHANGED <<call, retries, status, readCmd>>
    <2>1. MaxRetries > 1
        BY <1>2, BoundsAssumption DEF TypeInv, ControlTyped
    <2> QED
        BY <1>2, <2>1 DEF OthersControl, GoesOn, TypeInv, ControlTyped
<1>3. CASE Returns(c, "TIMEOUT", cmd)
    BY <1>3, ReturnsEnds, FailureEnds
<1> QED
    BY <1>1, <1>2, <1>3 DEF CaptureRoundEnds

LEMMA CaptureLoopEnds ==
    ASSUME TypeInv, NEW c \in Clients, pc[c] = "capture_receive",
           NEW st \in {"OK", "PREEMPTED"}, CaptureLoop(c, st)
    PROVE  /\ UNCHANGED call
           /\ OthersControl(c)
           /\ \/ GoesOn(c, "capture_receive")
              \/ GoesOn(c, "capture_send")
              \/ GoesOn(c, "write_send") /\ MaxRetries > 1
              \/ Ends(c, "TIMEOUT", UndefCmd)
<1> DEFINE round == IF pending[c] - 1 = 0 THEN "PREEMPTED" ELSE st
<1>1. CASE UNCHANGED <<pc, call, retries, attempts, status, readCmd>>
    BY <1>1 DEF OthersControl, GoesOn, TypeInv, ControlTyped
<1>2. CASE CaptureRoundEnds(c, round, cspace'[c][call[c].addr].vcmd)
    <2>1. round \in {"OK", "PREEMPTED"}
        OBVIOUS
    <2> HIDE DEF round
    <2> QED
        BY <1>2, <2>1, CaptureEnds
<1> QED
    BY <1>1, <1>2 DEF CaptureLoop

LEMMA WriteLoopEnds ==
    ASSUME TypeInv, NEW c \in Clients, pc[c] = "write_receive",
           NEW x, x = call[c].addr,
           retries[c] = MaxRetries, MaxRetries > 1, WriteLoop(c, "OK")
    PROVE  /\ UNCHANGED call
           /\ OthersControl(c)
           /\ \/ GoesOn(c, "write_receive") /\ UNCHANGED written
              \/ /\ written' = [written EXCEPT ![c][x] = TRUE]
                 /\ pc' = [pc EXCEPT ![c] = "capture_send"]
                 /\ attempts' = [attempts EXCEPT ![c] = MaxRetries]
                 /\ UNCHANGED <<status, readCmd>>
              \/ /\ written' = [written EXCEPT ![c][x] = TRUE]
                 /\ IsQuorum(writeRow'[c][x])
                 /\ Ends(c, "OK", cspace'[c][x].vcmd)
<1> DEFINE left == pending[c] - 1
           full == IsQuorum(writeRow'[c][x])
           cmd == cspace'[c][x].vcmd
           st == IF left = 0 THEN "PREEMPTED" ELSE "OK"
<1>1. CASE UNCHANGED <<written, pc, call, retries, attempts, status, readCmd>>
    BY <1>1 DEF OthersControl, GoesOn, TypeInv, ControlTyped
<1>2. CASE /\ left = 0 \/ full
           /\ written' = [written EXCEPT ![c][x] = TRUE]
           /\ WriteRoundEnds(c, st, cmd)
    <2>1. retries[c] - 1 > 0 /\ retries[c] - 1 # 0
        BY BoundsAssumption
    <2>2. CASE left = 0
        <3>1. /\ retries' = [retries EXCEPT ![c] = retries[c] - 1]
              /\ attempts' = [attempts EXCEPT ![c] = MaxRetries]
              /\ pc' = [pc EXCEPT ![c] = "capture_send"]
              /\ UNCHANGED <<call, status, readCmd>>
            BY <1>2, <2>1, <2>2 DEF WriteRoundEnds
        <3> QED
            BY <1>2, <3>1 DEF OthersControl, TypeInv, ControlTyped
    <2>3. CASE left # 0
        <3>1. Returns(c, "OK", cmd)
            BY <1>2, <2>1, <2>3 DEF WriteRoundEnds, Returns
        <3>2. UNCHANGED call /\ OthersControl(c) /\ Ends(c, "OK", cmd)
            BY <3>1, ReturnsEnds
        <3> QED
            BY <1>2, <2>3, <3>2
    <2> QED
        BY <2>2, <2>3
<1> QED
    BY <1>1, <1>2 DEF WriteLoop
-----------------------------------------------------------------------------
(***************************************************************************)
(* What the steps of a client have in common.                              *)
(***************************************************************************)
\* New datagrams are requests under c's own number at the address.
SendsOwn(c) ==
    \A m \in BagToSet(net') :
        \/ m \in BagToSet(net)
        \/ /\ m.type \in {"CAPTURE", "ACCEPT"}
           /\ m.client = c
           /\ m.prop % PropOne = c
           /\ m.prop <= cspace'[c][m.addr].prop

LEMMA ClientNumbers ==
    ASSUME TypeInv, TypeInv', CallsInv, NEW c \in Clients,
           UNCHANGED acceptorVars, SendsOwn(c),
           \A d \in Clients \ {c} : cspace'[d] = cspace[d],
           \A y \in Addr : cspace[c][y].prop <= cspace'[c][y].prop
    PROVE  NumbersSent' /\ AcceptsOwn' /\ AcksVoted'
<1>1. ASSUME NEW d \in Clients, NEW x \in Addr, NEW q \in Proposal,
             q <= cspace[d][x].prop
      PROVE  q <= cspace'[d][x].prop
    <2>1. /\ q \in Nat /\ cspace[d][x].prop \in Nat
          /\ cspace'[d][x].prop \in Nat
        BY ClientsAssumption DEF TypeInv, SpacesTyped, Entry, Proposal
    <2>2. cspace[d][x].prop <= cspace'[d][x].prop
        BY <2>1
    <2> QED
        BY <1>1, <2>1, <2>2
<1>2. NumbersSent'
    <2> SUFFICES ASSUME NEW d \in Clients, NEW x \in Addr
                 PROVE  /\ \A m \in BagToSet(net') :
                            m.addr = x /\ m.prop % PropOne = d
                                => m.prop <= cspace'[d][x].prop
                        /\ \A a \in Acceptors :
                            aspace'[a][x].prop % PropOne = d
                                => aspace'[a][x].prop <= cspace'[d][x].prop
        BY DEF NumbersSent
    <2>1. ASSUME NEW m \in BagToSet(net'), m.addr = x, m.prop % PropOne = d
          PROVE  m.prop <= cspace'[d][x].prop
        <3>1. m.prop \in Proposal
            BY DEF TypeInv, NetTyped, Message, Request, Ack
        <3>2. CASE m \in BagToSet(net)
            BY <1>1, <2>1, <3>1, <3>2 DEF CallsInv, NumbersSent
        <3>3. CASE m \notin BagToSet(net)
            BY <2>1, <3>3 DEF SendsOwn
        <3> QED
            BY <3>2, <3>3
    <2>2. ASSUME NEW a \in Acceptors, aspace'[a][x].prop % PropOne = d
          PROVE  aspace'[a][x].prop <= cspace'[d][x].prop
        <3>1. aspace'[a][x] = aspace[a][x] /\ aspace[a][x].prop \in Proposal
            BY DEF acceptorVars, TypeInv, AcceptorsTyped, Entry
        <3> QED
            BY <1>1, <2>2, <3>1 DEF CallsInv, NumbersSent
    <2> QED
        BY <2>1, <2>2
<1>3. AcceptsOwn'
    BY DEF SendsOwn, CallsInv, AcceptsOwn
<1>4. AcksVoted'
    BY DEF SendsOwn, CallsInv, AcksVoted, VotedFor, acceptorVars
<1> QED
    BY <1>2, <1>3, <1>4

\* A step of client c: only what c knows has to be seen to.
LEMMA ClientCalls ==
    ASSUME TypeInv, TypeInv', IInv, CallsInv, NEW c \in Clients,
           UNCHANGED acceptorVars, SendsOwn(c),
           \A d \in Clients \ {c} : SameClient(d),
           \A y \in Addr : cspace[c][y].prop <= cspace'[c][y].prop,
           \A y \in Addr : proposed[y] \subseteq proposed'[y],
           Knows(c)'
    PROVE  CallsInv'
<1>1. NumbersSent' /\ AcceptsOwn' /\ AcksVoted'
    BY ClientNumbers DEF SameClient
<1>2. AcceptorsForward
    BY UnchangedForward
<1>3. AcksFresh
    BY DEF SendsOwn, AcksFresh
<1>4. \A d \in Clients \ {c} : Knows(d)'
    BY <1>2, <1>3, CallsInvParts, KnowsKept
<1> QED
    BY <1>1, <1>4, CallsInvNext
-----------------------------------------------------------------------------
(***************************************************************************)
(* A call begins.                                                          *)
(***************************************************************************)
\* What is chosen had a majority of votes.
LEMMA RegisterVoted ==
    ASSUME TypeInv, NEW c \in Clients, NEW x \in Addr, NEW v \in register[x],
           ~Capturing(c, x)
    PROVE  VotedBefore(c, x, v)
<1>1. PICK a \in Acceptors : \E r \in votes[a][x] :
        r[2] = v /\ ChosenAt(x, r[1], v)
    BY DEF register, Chosen
<1>2. PICK r \in votes[a][x] : r[2] = v /\ ChosenAt(x, r[1], v)
    BY <1>1
<1>3. r[1] \in Proposal
    BY DEF TypeInv, AcceptorsTyped
<1> DEFINE Q == {b \in Acceptors : VotedFor(b, x, r[1], v)}
<1>4. Q \in Majority
    BY <1>2 DEF ChosenAt
<1> QED
    BY <1>3, <1>4 DEF VotedBefore

LEMMA CallCalls ==
    ASSUME TypeInv, TypeInv', IInv, CallsInv, NEW c \in Clients,
           NEW x \in Addr,
           \/ \E cmd \in Cmd : wor_capture_and_write(c, x, cmd)
           \/ wor_read(c, x)
    PROVE  CallsInv'
<1>1. PICK operation \in Call :
        /\ Called(c, operation)
        /\ operation.addr = x
        /\ UNCHANGED proposed
        /\ \/ Start(c) /\ (operation.op = "read" => ~written[c][x])
           \/ /\ operation.op = "read"
              /\ status' = [status EXCEPT ![c] = "ALREADYWRITTEN"]
              /\ readCmd' = [readCmd EXCEPT ![c] = cspace[c][x].vcmd]
              /\ UNCHANGED <<pc, retries, attempts>>
    <2>1. ASSUME NEW cmd \in Cmd, wor_capture_and_write(c, x, cmd),
                 NEW operation,
                 operation = [op |-> "write", addr |-> x, cmd |-> cmd]
          PROVE  /\ operation \in Call
                 /\ Called(c, operation)
                 /\ operation.addr = x
                 /\ UNCHANGED proposed
                 /\ Start(c) /\ operation.op # "read"
        BY <2>1, CalledTyped DEF wor_capture_and_write
    <2>2. ASSUME wor_read(c, x), NEW operation,
                 operation = [op |-> "read", addr |-> x, cmd |-> UndefCmd]
          PROVE  /\ operation \in Call
                 /\ Called(c, operation)
                 /\ operation.addr = x
                 /\ operation.op = "read"
                 /\ UNCHANGED proposed
                 /\ \/ Start(c) /\ ~written[c][x]
                    \/ /\ status' = [status EXCEPT ![c] = "ALREADYWRITTEN"]
                       /\ readCmd' = [readCmd EXCEPT
                                        ![c] = cspace[c][x].vcmd]
                       /\ UNCHANGED <<pc, retries, attempts>>
        BY <2>2, CalledTyped DEF wor_read
    <2> QED
        BY <2>1, <2>2
<1>2. /\ call' = [call EXCEPT ![c] = operation]
      /\ before' = [before EXCEPT ![c] = register[x]]
      /\ pc[c] = "idle"
      /\ UNCHANGED <<net, acceptorVars, cspace, written, captureRow, writeRow>>
    BY <1>1 DEF Called, netVars, spaceVars, rowVars
<1>3. /\ call'[c] = operation /\ before'[c] = register[x]
      /\ \A d \in Clients \ {c} :
            call'[d] = call[d] /\ before'[d] = before[d]
    BY <1>2 DEF TypeInv, ControlTyped, InputsTyped
<1>4. /\ OthersControl(c)
      /\ \/ /\ pc'[c] = "capture_send" /\ status'[c] = "none"
            /\ retries'[c] = MaxRetries /\ attempts'[c] = MaxRetries
            /\ operation.op = "read" => ~written[c][x]
         \/ /\ pc'[c] = "idle" /\ status'[c] = "ALREADYWRITTEN"
            /\ operation.op = "read"
    BY <1>1, <1>2 DEF Start, OthersControl, TypeInv, ControlTyped
<1>5. \A d \in Clients \ {c} : SameClient(d)
    BY <1>2, <1>3, <1>4 DEF SameClient, OthersControl
<1>6. Turns(c)'
    <2>1. \A y \in Addr : written[c][y] => MaxRetries > 1
        BY CallsInvParts DEF Knows, Turns
    <2> QED
        BY <1>2, <1>4, <2>1 DEF Turns
<1>7. RowsVoted(c)'
    BY <1>4 DEF RowsVoted
<1>8. BeforeFound(c)'
    <2> SUFFICES ASSUME NEW v \in register[x]
                 PROVE  pc'[c] # "idle" => VotedBefore(c, x, v)'
        BY <1>1, <1>2, <1>3, <1>4 DEF BeforeFound
    <2>1. VotedBefore(c, x, v)
        BY <1>2, RegisterVoted DEF Capturing
    <2>2. ~Capturing(c, x)'
        BY <1>4 DEF Capturing
    <2>3. VotedBefore(c, x, v)'
        BY <1>2, <2>1, <2>2 DEF VotedBefore, VotedFor, acceptorVars
    <2> QED
        BY <2>3
<1>9. AnswerTrue(c)'
    BY <1>3, <1>4 DEF AnswerTrue
<1>10. Knows(c)'
    BY <1>6, <1>7, <1>8, <1>9 DEF Knows
<1>11. SendsOwn(c)
    BY <1>2 DEF SendsOwn
<1>12. \A y \in Addr : cspace[c][y].prop <= cspace'[c][y].prop
    BY <1>2, ClientsAssumption DEF TypeInv, SpacesTyped, Entry, Proposal
<1> QED
    BY <1>1, <1>2, <1>5, <1>10, <1>11, <1>12, ClientCalls
-----------------------------------------------------------------------------
(***************************************************************************)
(* The capture round.                                                      *)
(***************************************************************************)
LEMMA OthersSame ==
    ASSUME TypeInv, NEW c \in Clients, OthersControl(c),
           UNCHANGED <<call, before>>,
           \A d \in Clients \ {c} :
                /\ cspace'[d] = cspace[d] /\ written'[d] = written[d]
                /\ captureRow'[d] = captureRow[d] /\ writeRow'[d] = writeRow[d]
    PROVE  \A d \in Clients \ {c} : SameClient(d)
BY DEF OthersControl, SameClient

\* A call that has ended: only its answer matters.
LEMMA EndedKnows ==
    ASSUME NEW c \in Clients, pc'[c] = "idle", AnswerTrue(c)',
           \A y \in Addr : written'[c][y] => MaxRetries > 1
    PROVE  Knows(c)'
BY DEF Knows, Turns, RowsVoted, BeforeFound

LEMMA FailedKnows ==
    ASSUME TypeInv, NEW c \in Clients, NEW st, st \notin {"OK", "UNWRITTEN"},
           NEW cmd, Ends(c, st, cmd),
           \A y \in Addr : written'[c][y] => MaxRetries > 1
    PROVE  Knows(c)'
<1>1. pc'[c] = "idle" /\ status'[c] = st
    BY DEF Ends, TypeInv, ControlTyped
<1> QED
    BY <1>1, EndedKnows DEF AnswerTrue

LEMMA CaptureSendCalls ==
    ASSUME TypeInv, TypeInv', IInv, CallsInv, NEW c \in Clients,
           wor_capture_send(c)
    PROVE  CallsInv'
<1> DEFINE prop == wor_get_next_proposal(c, call[c].addr)
<1>1. PICK x \in Addr : x = call[c].addr
    BY DEF wor_capture_send, TypeInv, ControlTyped, Call
<1>2. /\ UNCHANGED <<acceptorVars, proposed, before, written>>
      /\ pc[c] = "capture_send"
    BY DEF wor_capture_send, inputVars, spaceVars
<1>3. Turns(c) /\ RowsVoted(c) /\ BeforeFound(c)
    BY CallsInvParts DEF Knows
<1>4. cspace[c][x] \in Entry
    BY DEF TypeInv, SpacesTyped
<1>5. \A y \in Addr : written'[c][y] => MaxRetries > 1
    BY <1>2, <1>3 DEF Turns
<1>6. \A y \in Addr : cspace[c][y].prop <= cspace[c][y].prop
    BY ClientsAssumption DEF TypeInv, SpacesTyped, Entry, Proposal
<1>7. CASE written[c][x]
    <2> DEFINE cmd == cspace[c][x].vcmd
    <2>1. /\ CaptureRoundEnds(c, "ALREADYWRITTEN", cmd)
          /\ UNCHANGED <<net, cspace, captureRow, writeRow>>
        BY <1>1, <1>7 DEF wor_capture_send, netVars, spaceVars, rowVars
    <2>2. attempts[c] - 1 > 0
        BY <1>1, <1>2, <1>3, <1>7, BoundsAssumption DEF Turns
    <2>3. Returns(c, "ALREADYWRITTEN", cmd)
        BY <2>1, <2>2 DEF CaptureRoundEnds
    <2>4. /\ UNCHANGED call
          /\ OthersControl(c)
          /\ \/ call[c].op = "write" /\ Ends(c, "ALREADYWRITTEN", cmd)
             \/ call[c].op = "read" /\ Ends(c, "OK", cmd)
        BY <2>3, ReturnsEnds
    <2>5. \A d \in Clients \ {c} : SameClient(d)
        BY <1>2, <2>1, <2>4, OthersSame
    <2>6. SendsOwn(c)
        BY <2>1 DEF SendsOwn
    <2>7. Knows(c)'
        <3>1. CASE call[c].op = "write" /\ Ends(c, "ALREADYWRITTEN", cmd)
            BY <1>5, <3>1, FailedKnows
        <3>2. CASE call[c].op = "read" /\ Ends(c, "OK", cmd)
            <4>1. /\ pc'[c] = "idle" /\ status'[c] = "OK"
                  /\ readCmd'[c] = cmd
                BY <3>2 DEF Ends, TypeInv, ControlTyped
            <4>2. \A v \in before[c] : cmd = v
                BY <1>1, <1>2, <1>3, <1>7, <3>2 DEF BeforeFound
            <4>3. AnswerTrue(c)'
                BY <1>2, <2>4, <3>2, <4>1, <4>2 DEF AnswerTrue
            <4> QED
                BY <1>5, <4>1, <4>3, EndedKnows
        <3> QED
            BY <2>4, <3>1, <3>2
    <2> QED
        BY <1>2, <1>6, <2>1, <2>5, <2>6, <2>7, ClientCalls
<1>8. CASE ~written[c][x] /\ prop = PROP_UNDEF
    <2>1. /\ cspace' = [cspace EXCEPT ![c][x] =
                          [EmptyEntry EXCEPT !.prop = cspace[c][x].prop]]
          /\ captureRow' = [captureRow EXCEPT ![c][x] = RowReset(@)]
          /\ writeRow' = [writeRow EXCEPT ![c][x] = RowReset(@)]
          /\ CaptureRoundEnds(c, "ERROR", UndefCmd)
          /\ UNCHANGED net
        BY <1>1, <1>8 DEF wor_capture_send, netVars
    <2>2. PICK st \in {"ERROR", "TIMEOUT"} : Returns(c, st, UndefCmd)
        BY <2>1 DEF CaptureRoundEnds
    <2>3. UNCHANGED call /\ OthersControl(c) /\ Ends(c, st, UndefCmd)
        BY <2>2, ReturnsEnds, FailureEnds
    <2>4. \A d \in Clients \ {c} : /\ cspace'[d] = cspace[d]
                                   /\ captureRow'[d] = captureRow[d]
                                   /\ writeRow'[d] = writeRow[d]
        BY <2>1 DEF TypeInv, SpacesTyped, RowsTyped
    <2>5. \A d \in Clients \ {c} : SameClient(d)
        BY <1>2, <2>3, <2>4, OthersSame
    <2>6. SendsOwn(c)
        BY <2>1 DEF SendsOwn
    <2>7. \A y \in Addr : cspace[c][y].prop <= cspace'[c][y].prop
        BY <1>6, <2>1 DEF TypeInv, SpacesTyped, EmptyEntry
    <2>8. Knows(c)'
        BY <1>5, <2>3, FailedKnows
    <2> QED
        BY <1>2, <2>5, <2>6, <2>7, <2>8, ClientCalls
<1>9. CASE ~written[c][x] /\ prop # PROP_UNDEF
    <2> DEFINE sent == [type : {"CAPTURE"}, client : {c}, to : Acceptors,
                        addr : {x}, prop : {prop}, vprop : {PROP_UNDEF},
                        vcmd : {UndefCmd}]
    <2>1. /\ cspace' = [cspace EXCEPT ![c][x] =
                          [EmptyEntry EXCEPT !.prop = prop]]
          /\ captureRow' = [captureRow EXCEPT ![c][x] = RowReset(@)]
          /\ writeRow' = [writeRow EXCEPT ![c][x] = RowReset(@)]
          /\ Broadcast(sent)
          /\ pc' = [pc EXCEPT ![c] = "capture_receive"]
          /\ UNCHANGED <<call, retries, attempts, status, readCmd>>
        BY <1>1, <1>9 DEF wor_capture_send
    <2>2. /\ prop \in Nat /\ prop > cspace[c][x].prop /\ prop % PropOne = c
        BY <1>1, <1>9, NewProposal DEF TypeInv
    <2>3. \A m \in BagToSet(net') :
            \/ m \in BagToSet(net)
            \/ /\ m.type = "CAPTURE" /\ m.client = c /\ m.addr = x
               /\ m.prop = prop
        <3>1. \A m \in sent : /\ m.type = "CAPTURE" /\ m.client = c
                              /\ m.addr = x /\ m.prop = prop
            OBVIOUS
        <3> HIDE DEF prop, sent
        <3>2. BagToSet(net') = BagToSet(net) \cup sent
            BY <2>1, BroadcastInTransit DEF TypeInv, NetTyped
        <3> QED
            BY <3>1, <3>2
    <2> HIDE DEF prop, sent
    <2>4. /\ cspace'[c][x].prop = prop
          /\ \A y \in Addr : y # x => cspace'[c][y] = cspace[c][y]
          /\ captureRow'[c][x] \cap RowIndices = {}
          /\ writeRow'[c][x] \cap RowIndices = {}
          /\ \A d \in Clients \ {c} :
                /\ cspace'[d] = cspace[d]
                /\ captureRow'[d] = captureRow[d]
                /\ writeRow'[d] = writeRow[d]
        BY <2>1 DEF TypeInv, SpacesTyped, RowsTyped, RowReset, EmptyEntry
    <2>5. /\ pc'[c] = "capture_receive" /\ status'[c] = "none"
          /\ OthersControl(c)
        BY <1>2, <1>3, <2>1 DEF OthersControl, Turns, TypeInv, ControlTyped
    <2>6. \A d \in Clients \ {c} : SameClient(d)
        BY <1>2, <2>1, <2>4, <2>5, OthersSame
    <2>7. SendsOwn(c)
        <3>1. prop <= prop
            BY <2>2
        <3> QED
            BY <2>2, <2>3, <2>4, <3>1 DEF SendsOwn
    <2>8. \A y \in Addr : cspace[c][y].prop <= cspace'[c][y].prop
        <3>1. cspace[c][x].prop \in Nat
            BY <1>4, ClientsAssumption DEF Entry, Proposal
        <3>2. cspace[c][x].prop <= cspace'[c][x].prop
            BY <2>2, <2>4, <3>1
        <3> QED
            BY <1>6, <2>4, <3>2
    <2>9. Turns(c)'
        BY <1>1, <1>2, <1>3, <1>9, <2>1, <2>5 DEF Turns
    <2>10. RowsVoted(c)'
        BY <1>1, <2>1, <2>4, <2>5 DEF RowsVoted
    <2>11. ASSUME NEW a \in Acceptors
           PROVE  ~Answered(c, a, x)'
        <3> SUFFICES ASSUME NEW m \in BagToSet(net'), m.type = "CAPTURE_ACK",
                            m.addr = x, m.prop = prop
                     PROVE  FALSE
            BY <2>4 DEF Answered
        <3>1. m.prop <= cspace[c][x].prop
            BY <2>2, <2>3 DEF CallsInv, NumbersSent
        <3>2. cspace[c][x].prop \in Nat
            BY <1>4, ClientsAssumption DEF Entry, Proposal
        <3> QED
            BY <2>2, <3>1, <3>2
    <2>12. BeforeFound(c)'
        <3> SUFFICES ASSUME NEW v \in before[c]
                     PROVE  VotedBefore(c, x, v)'
            BY <1>1, <1>2, <2>1, <2>5 DEF BeforeFound
        <3>1. VotedBefore(c, x, v)
            BY <1>1, <1>2, <1>3 DEF BeforeFound
        <3> QED
            BY <1>2, <2>11, <3>1
            DEF VotedBefore, VotedFor, acceptorVars, Majority
    <2>13. AnswerTrue(c)'
        BY <2>5 DEF AnswerTrue
    <2>14. Knows(c)'
        BY <2>9, <2>10, <2>12, <2>13 DEF Knows
    <2> QED
        BY <1>2, <2>6, <2>7, <2>8, <2>14, ClientCalls
<1> QED
    BY <1>7, <1>8, <1>9

\* One turn of c's capture loop at x: the row counts no acceptor that had not
\* answered.
CaptureTurn(c, x) ==
    /\ x = call[c].addr
    /\ pc[c] = "capture_receive"
    /\ UNCHANGED <<acceptorVars, proposed, before, written, writeRow>>
    /\ BagToSet(net') \subseteq BagToSet(net)
    /\ \A d \in Clients \ {c} : /\ cspace'[d] = cspace[d]
                                /\ captureRow'[d] = captureRow[d]
    /\ \A y \in Addr : /\ cspace'[c][y].prop = cspace[c][y].prop
                       /\ y # x => cspace'[c][y] = cspace[c][y]
    /\ \A a \in Acceptors : Answered(c, a, x)' => Answered(c, a, x)
    /\ CaptureLoop(c, "OK") \/ CaptureLoop(c, "PREEMPTED")

LEMMA CaptureTurnCalls ==
    ASSUME TypeInv, TypeInv', IInv, CallsInv, NEW c \in Clients,
           NEW x \in Addr, CaptureTurn(c, x)
    PROVE  CallsInv'
<1> USE DEF CaptureTurn
<1>1. /\ UNCHANGED call
      /\ OthersControl(c)
      /\ \/ GoesOn(c, "capture_receive")
         \/ GoesOn(c, "capture_send")
         \/ GoesOn(c, "write_send") /\ MaxRetries > 1
         \/ Ends(c, "TIMEOUT", UndefCmd)
    BY CaptureLoopEnds
<1>2. \A d \in Clients \ {c} : SameClient(d)
    BY <1>1, OthersSame
<1>3. SendsOwn(c)
    BY DEF SendsOwn
<1>4. \A y \in Addr : cspace[c][y].prop <= cspace'[c][y].prop
    BY ClientsAssumption DEF TypeInv, SpacesTyped, Entry, Proposal
<1>5. Turns(c) /\ RowsVoted(c) /\ BeforeFound(c)
    BY CallsInvParts DEF Knows
<1>6. ~written[c][x] /\ status[c] = "none"
    BY <1>5 DEF Turns
<1>7. ASSUME NEW place \in {"capture_receive", "capture_send", "write_send"},
             GoesOn(c, place), place = "write_send" => MaxRetries > 1
      PROVE  Knows(c)'
    <2>1. pc'[c] = place /\ UNCHANGED <<retries, status>>
        BY <1>7 DEF GoesOn, TypeInv, ControlTyped
    <2>2. Turns(c)'
        BY <1>1, <1>5, <1>6, <1>7, <2>1 DEF Turns
    <2>3. RowsVoted(c)'
        BY <1>1, <1>5, <2>1 DEF RowsVoted
    <2>4. BeforeFound(c)'
        <3> SUFFICES ASSUME NEW v \in before[c]
                     PROVE  VotedBefore(c, x, v)'
            BY <1>1, <1>6, <2>1 DEF BeforeFound
        <3>1. VotedBefore(c, x, v) /\ Capturing(c, x)
            BY <1>5 DEF BeforeFound, Capturing
        <3> QED
            BY <3>1 DEF VotedBefore, VotedFor, acceptorVars, Majority
    <2>5. AnswerTrue(c)'
        BY <1>6, <2>1 DEF AnswerTrue
    <2> QED
        BY <2>2, <2>3, <2>4, <2>5 DEF Knows
<1>8. CASE Ends(c, "TIMEOUT", UndefCmd)
    <2>1. \A y \in Addr : written'[c][y] => MaxRetries > 1
        BY <1>5 DEF Turns
    <2> QED
        BY <1>2, <1>3, <1>4, <1>8, <2>1, FailedKnows, ClientCalls
<1> QED
    BY <1>1, <1>2, <1>3, <1>4, <1>7, <1>8, ClientCalls

LEMMA CaptureReceiveTurn ==
    ASSUME TypeInv, NEW c \in Clients, NEW m \in BagToSet(net),
           wor_capture_receive(c, m)
    PROVE  \E x \in Addr : CaptureTurn(c, x)
<1>1. PICK x \in Addr : x = call[c].addr
    BY DEF wor_capture_receive, TypeInv, ControlTyped, Call
<1>2. /\ pc[c] = "capture_receive"
      /\ UNCHANGED <<acceptorVars, proposed, before, written, writeRow>>
      /\ BagToSet(net') \subseteq BagToSet(net)
    BY ReceiveInTransit DEF wor_capture_receive, TypeInv, NetTyped, inputVars
<1>3. CaptureLoop(c, "OK") \/ CaptureLoop(c, "PREEMPTED")
    BY DEF wor_capture_receive
<1>4. UNCHANGED cspace \/ AdoptVote(c, m)
    BY DEF wor_capture_receive
<1>5. \A d \in Clients \ {c} : captureRow'[d] = captureRow[d]
    BY DEF wor_capture_receive, TypeInv, RowsTyped
<1>6. ASSUME NEW a \in Acceptors, Answered(c, a, x)'
      PROVE  Answered(c, a, x)
    <2>1. cspace'[c][x].prop = cspace[c][x].prop
        BY <1>4, AdoptVoteEffect
    <2>2. CASE Expected(c, m, "CAPTURE_ACK", captureRow) /\ Current(c, m)
        <3>1. captureRow'[c][x] = captureRow[c][x] \cup {m.from}
            BY <1>1, <2>2 DEF wor_capture_receive, TypeInv, RowsTyped
        <3>2. m.type = "CAPTURE_ACK" /\ m.addr = x /\ m.prop = cspace[c][x].prop
            BY <1>1, <2>2 DEF Expected, Current
        <3> QED
            BY <1>2, <1>6, <2>1, <3>1, <3>2 DEF Answered
    <2>3. CASE UNCHANGED captureRow
        BY <1>2, <1>6, <2>1, <2>3 DEF Answered
    <2> QED
        BY <2>2, <2>3 DEF wor_capture_receive
<1>7. \A y \in Addr : y # x => cspace'[c][y] = cspace[c][y]
    BY <1>1, <1>4 DEF AdoptVote, TypeInv, SpacesTyped
<1> QED
    BY <1>1, <1>2, <1>3, <1>4, <1>5, <1>6, <1>7, AdoptVoteEffect
    DEF CaptureTurn
-----------------------------------------------------------------------------
(***************************************************************************)
(* The write round begins.                                                 *)
(***************************************************************************)
\* What was chosen before the call is what the capture round has found.
LEMMA CapturedBefore ==
    ASSUME TypeInv, IInv, CallsInv, NEW c \in Clients, NEW x \in Addr,
           x = call[c].addr, pc[c] = "write_send", NEW v \in before[c]
    PROVE  HoldsChosen(c, x, v)
<1> DEFINE C == captureRow[c][x] \cap RowIndices
<1>1. PICK e \in Entry : e = cspace[c][x]
    BY DEF TypeInv, SpacesTyped
<1>2. v \in Cmd
    BY DEF TypeInv, InputsTyped
<1>3. Capturing(c, x)
    BY DEF Capturing
<1>4. CaptureReports(c, x) /\ NumberUnused(c, x)
    BY <1>3 DEF IInv, CapturesReport, NumbersInOrder
<1>5. VotedBefore(c, x, v)
    BY CallsInvParts DEF Knows, BeforeFound
<1>6. PICK p \in Proposal, Q \in Majority : \A a \in Q :
        /\ VotedFor(a, x, p, v)
        /\ Answered(c, a, x) => p <= e.prop
    BY <1>1, <1>3, <1>5 DEF VotedBefore
<1>7. C \in Majority
    BY <1>4, QuorumIsMajority DEF CaptureReports, TypeInv, RowsTyped
<1>8. PICK a \in Acceptors : a \in Q /\ a \in C
    BY <1>7, MajoritiesMeet
<1>9. /\ VotedFor(a, x, p, v)
      /\ p <= e.prop
      /\ Reported(a, x, e.prop, e.vprop)
      /\ <<p, v>> \in Asked(x)
    BY <1>1, <1>4, <1>6, <1>8, VotesAsked DEF Answered, CaptureReports
<1>10. p \in Nat /\ e.prop \in Nat /\ e.vprop \in Nat
    BY <1>1, ClientsAssumption DEF Entry, Proposal
<1>11. p < e.prop
    <2> DEFINE Own(n) == n % PropOne = c
    <2>1. Own(e.prop) /\ \A r \in Asked(x) : Own(r[1]) => r[1] < e.prop
        BY <1>1, <1>4 DEF CaptureReports, NumberUnused
    <2> HIDE DEF Own
    <2>2. Own(p) => p < e.prop
        BY <1>9, <2>1
    <2> QED
        BY <1>9, <1>10, <2>1, <2>2
<1>12. p <= e.vprop /\ p # PROP_UNDEF
    <2>1. <<p, v>> \in votes[a][x] /\ <<p, v>>[1] = p
        BY <1>9 DEF VotedFor
    <2> QED
        BY <1>9, <1>11, <2>1
        DEF Reported, IInv, EntriesHoldVotes, EntryHoldsVotes
<1>13. PICK b \in Acceptors : VotedFor(b, x, e.vprop, e.vcmd)
    BY <1>1, <1>4, <1>10, <1>12 DEF CaptureReports, PROP_UNDEF
<1>14. e.vcmd \in Cmd /\ <<e.vprop, e.vcmd>> \in Asked(x)
    BY <1>13, VotesAsked DEF VotedFor, TypeInv, AcceptorsTyped
<1>15. ChosenAt(x, p, v)
    BY <1>6, VotesChoose
<1>16. e.vcmd = v
    <2>1. CASE p = e.vprop
        BY <1>9, <1>14, <2>1 DEF IInv, OneCommandAsked
    <2>2. CASE p < e.vprop
        BY <1>1, <1>2, <1>14, <1>15, <2>2, ChosenThenAsked DEF Entry
    <2> QED
        BY <1>10, <1>12, <2>1, <2>2
<1> QED
    BY <1>1, <1>11, <1>15, <1>16 DEF HoldsChosen

\* A read answers UNWRITTEN only if nothing was chosen when it began.
LEMMA FoundUnwritten ==
    ASSUME TypeInv, IInv, CallsInv, NEW c \in Clients, NEW x \in Addr,
           x = call[c].addr, pc[c] = "write_send", Selected(c) = UndefCmd
    PROVE  before[c] = {}
<1> SUFFICES ASSUME NEW v \in before[c] PROVE FALSE
    OBVIOUS
<1>1. cspace[c][x].vcmd = v
    BY CapturedBefore DEF HoldsChosen
<1>2. v # UndefCmd
    BY CommandAssumption DEF TypeInv, InputsTyped
<1>3. ~written[c][x]
    BY CallsInvParts DEF Knows, Turns
<1> QED
    BY <1>1, <1>2, <1>3 DEF Selected

LEMMA WriteSendCalls ==
    ASSUME TypeInv, TypeInv', IInv, CallsInv, NEW c \in Clients,
           wor_write_send(c)
    PROVE  CallsInv'
<1>1. PICK x \in Addr : x = call[c].addr
    BY DEF wor_write_send, TypeInv, ControlTyped, Call
<1>2. /\ pc[c] = "write_send"
      /\ UNCHANGED <<aspace, votes, cspace, written, captureRow, writeRow>>
      /\ UNCHANGED <<acceptorVars, before>>
    BY DEF wor_write_send, acceptorVars, spaceVars, rowVars
<1>3. Turns(c) /\ RowsVoted(c) /\ BeforeFound(c)
    BY CallsInvParts DEF Knows
<1>4. ~written[c][x] /\ status[c] = "none"
    BY <1>1, <1>2, <1>3 DEF Turns
<1>5. \A y \in Addr : cspace[c][y].prop <= cspace'[c][y].prop
    BY <1>2, ClientsAssumption DEF TypeInv, SpacesTyped, Entry, Proposal
<1>6. CASE /\ Selected(c) = UndefCmd
           /\ ReadReturns(c, "UNWRITTEN", UndefCmd)
           /\ UNCHANGED <<netVars, proposed>>
    <2>1. UNCHANGED call /\ OthersControl(c) /\ Ends(c, "UNWRITTEN", UndefCmd)
        BY <1>6, ReturnsEnds DEF Returns
    <2>2. \A d \in Clients \ {c} : SameClient(d)
        BY <1>2, <2>1, OthersSame
    <2>3. before[c] = {}
        BY <1>1, <1>2, <1>6, FoundUnwritten
    <2>4. pc'[c] = "idle" /\ status'[c] = "UNWRITTEN"
        BY <2>1 DEF Ends, TypeInv, ControlTyped
    <2>5. AnswerTrue(c)'
        BY <1>2, <2>3, <2>4 DEF AnswerTrue
    <2>6. Knows(c)'
        BY <1>2, <1>3, <2>4, <2>5, EndedKnows DEF Turns
    <2>7. SendsOwn(c)
        BY <1>6 DEF SendsOwn, netVars
    <2> QED
        BY <1>2, <1>5, <1>6, <2>2, <2>6, <2>7, ClientCalls
<1>7. CASE /\ Selected(c) # UndefCmd
           /\ Broadcast([type : {"ACCEPT"}, client : {c}, to : Acceptors,
                         addr : {x}, prop : {cspace[c][x].prop},
                         vprop : {cspace[c][x].prop}, vcmd : {Selected(c)}])
           /\ proposed' = IF cspace[c][x].vcmd = UndefCmd
                          THEN [proposed EXCEPT ![x] = @ \cup {call[c].cmd}]
                          ELSE proposed
           /\ pc' = [pc EXCEPT ![c] = "write_receive"]
           /\ UNCHANGED <<call, retries, attempts, status, readCmd>>
    <2> DEFINE e == cspace[c][x]
    <2>1. e \in Entry /\ CaptureReports(c, x)
        BY <1>1, <1>2
        DEF TypeInv, SpacesTyped, IInv, CapturesReport, Capturing
    <2>2. /\ pc'[c] = "write_receive"
          /\ OthersControl(c)
        BY <1>7 DEF OthersControl, TypeInv, ControlTyped
    <2>3. \A d \in Clients \ {c} : SameClient(d)
        BY <1>2, <1>7, <2>2, OthersSame
    <2>4. SendsOwn(c)
        <3>1. PICK requests :
                /\ \A m \in requests :
                    /\ m.type = "ACCEPT" /\ m.client = c
                    /\ m.addr = x /\ m.prop = e.prop
                /\ Broadcast(requests)
            BY <1>7
        <3>2. BagToSet(net') = BagToSet(net) \cup requests
            BY <3>1, BroadcastInTransit DEF TypeInv, NetTyped
        <3>3. e.prop % PropOne = c
            BY <2>1 DEF CaptureReports
        <3> QED
            BY <1>5, <1>2, <3>1, <3>2, <3>3 DEF SendsOwn
    <2>5. \A y \in Addr : proposed[y] \subseteq proposed'[y]
        BY <1>7 DEF TypeInv, InputsTyped
    <2>6. Turns(c)'
        BY <1>1, <1>2, <1>3, <1>4, <1>7, <2>2 DEF Turns
    <2>7. RowsVoted(c)'
        <3>1. writeRow[c][x] \cap RowIndices = {}
            BY <1>1, <1>2, <1>3 DEF RowsVoted
        <3>2. e.vcmd \in proposed[x] \cup {UndefCmd}
            <4>1. CASE e.vcmd # UndefCmd
                <5>1. PICK a \in Acceptors : VotedFor(a, x, e.vprop, e.vcmd)
                    BY <2>1, <4>1 DEF CaptureReports
                <5>2. <<e.vprop, e.vcmd>> \in Asked(x)
                    BY <5>1, VotesAsked
                <5> QED
                    BY <5>2 DEF IInv, AskedIsProposed
            <4> QED
                BY <4>1
        <3>3. e.vcmd = UndefCmd => call[c].op = "write"
            BY <1>1, <1>2, <1>4, <1>7
            DEF Selected, TypeInv, ControlTyped, Call
        <3>4. RowVoted(c, x)'
            BY <1>2, <1>7, <2>5, <3>1, <3>2, <3>3 DEF RowVoted
        <3> QED
            BY <1>1, <1>7, <2>2, <3>4 DEF RowsVoted
    <2>8. BeforeFound(c)'
        <3> SUFFICES ASSUME NEW v \in before[c]
                     PROVE  VotedBefore(c, x, v)' /\ HoldsChosen(c, x, v)'
            BY <1>1, <1>2, <1>7, <2>2 DEF BeforeFound
        <3>1. VotedBefore(c, x, v) /\ HoldsChosen(c, x, v)
            BY <1>1, <1>2, <1>3, CapturedBefore DEF BeforeFound
        <3>2. ~Capturing(c, x)'
            BY <2>2 DEF Capturing
        <3> QED
            BY <1>2, <3>1, <3>2, SameVotes DEF VotedBefore, HoldsChosen
    <2>9. AnswerTrue(c)'
        BY <1>4, <1>7 DEF AnswerTrue
    <2>10. Knows(c)'
        BY <2>6, <2>7, <2>8, <2>9 DEF Knows
    <2> QED
        BY <1>2, <1>5, <2>3, <2>4, <2>5, <2>10, ClientCalls
<1> QED
    BY <1>1, <1>6, <1>7 DEF wor_write_send
-----------------------------------------------------------------------------
(***************************************************************************)
(* The write round ends.                                                   *)
(***************************************************************************)
\* One turn of c's write loop at x: the row still counts votes only, c still
\* holds what was chosen before, and no acknowledgment overtakes its number.
WriteTurn(c, x) ==
    /\ x = call[c].addr
    /\ pc[c] = "write_receive"
    /\ UNCHANGED <<acceptorVars, proposed, before, captureRow>>
    /\ BagToSet(net') \subseteq BagToSet(net)
    /\ \A d \in Clients \ {c} : /\ cspace'[d] = cspace[d]
                                /\ writeRow'[d] = writeRow[d]
    /\ \A y \in Addr : cspace'[c][y].prop = cspace[c][y].prop
    /\ \A y \in Addr \ {x} : /\ cspace'[c][y] = cspace[c][y]
                             /\ writeRow'[c][y] = writeRow[c][y]
    /\ call' = call => RowVoted(c, x)'
    /\ \A v \in before[c] : HoldsChosen(c, x, v)'
    /\ WriteLoop(c, "OK")

\* A quorum of acknowledgments makes the command c holds the chosen one.
LEMMA AcknowledgedChosen ==
    ASSUME TypeInv, TypeInv', NEW c \in Clients, NEW x \in Addr,
           UNCHANGED <<acceptorVars, call>>, WriteTurn(c, x),
           IsQuorum(writeRow'[c][x])
    PROVE  Chosen(x, cspace'[c][x].vcmd) /\ cspace'[c][x].vcmd \in Cmd
<1> DEFINE Q == writeRow'[c][x] \cap RowIndices
<1>1. Q \in Majority
    BY QuorumIsMajority DEF TypeInv, RowsTyped
<1>2. \A a \in Q : VotedFor(a, x, cspace'[c][x].prop, cspace'[c][x].vcmd)
    BY DEF WriteTurn, RowVoted, VotedFor, acceptorVars
<1> QED
    BY <1>1, <1>2, VotesChoose

LEMMA WriteTurnCalls ==
    ASSUME TypeInv, TypeInv', IInv, CallsInv, NEW c \in Clients,
           NEW x \in Addr, WriteTurn(c, x)
    PROVE  CallsInv'
<1> USE DEF WriteTurn
<1> DEFINE cmd == cspace'[c][x].vcmd
<1>1. Turns(c) /\ BeforeFound(c)
    BY CallsInvParts DEF Knows
<1>2. /\ ~written[c][x] /\ status[c] = "none"
      /\ retries[c] = MaxRetries /\ MaxRetries > 1
    BY <1>1 DEF Turns
<1>3. /\ UNCHANGED call
      /\ OthersControl(c)
      /\ \/ GoesOn(c, "write_receive") /\ UNCHANGED written
         \/ /\ written' = [written EXCEPT ![c][x] = TRUE]
            /\ pc' = [pc EXCEPT ![c] = "capture_send"]
            /\ attempts' = [attempts EXCEPT ![c] = MaxRetries]
            /\ UNCHANGED <<status, readCmd>>
         \/ /\ written' = [written EXCEPT ![c][x] = TRUE]
            /\ IsQuorum(writeRow'[c][x])
            /\ Ends(c, "OK", cmd)
    BY <1>2, WriteLoopEnds
<1>4. \A d \in Clients \ {c} : written'[d] = written[d]
    BY <1>3 DEF TypeInv, SpacesTyped
<1>5. \A d \in Clients \ {c} : SameClient(d)
    BY <1>3, <1>4, OthersSame
<1>6. SendsOwn(c)
    BY DEF SendsOwn
<1>7. \A y \in Addr : cspace[c][y].prop <= cspace'[c][y].prop
    BY ClientsAssumption DEF TypeInv, SpacesTyped, Entry, Proposal
<1>8. RowVoted(c, x)'
    BY <1>3
<1>9. ASSUME NEW v \in before[c]
      PROVE  (~Capturing(c, x)' => VotedBefore(c, x, v)') /\ cmd = v
    <2>1. VotedBefore(c, x, v)
        BY <1>1 DEF BeforeFound
    <2>2. HoldsChosen(c, x, v)'
        OBVIOUS
    <2> QED
        BY <2>1, <2>2 DEF VotedBefore, VotedFor, acceptorVars, HoldsChosen
<1>10. CASE GoesOn(c, "write_receive") /\ UNCHANGED written
    <2>1. pc'[c] = "write_receive" /\ UNCHANGED <<retries, status>>
        BY <1>10 DEF GoesOn, TypeInv, ControlTyped
    <2>2. Turns(c)'
        BY <1>1, <1>2, <1>3, <1>10, <2>1 DEF Turns
    <2>3. RowsVoted(c)'
        BY <1>3, <1>8, <2>1 DEF RowsVoted
    <2>4. BeforeFound(c)'
        BY <1>3, <1>9, <2>1 DEF BeforeFound, Capturing
    <2>5. AnswerTrue(c)'
        BY <1>2, <2>1 DEF AnswerTrue
    <2> QED
        BY <1>5, <1>6, <1>7, <2>2, <2>3, <2>4, <2>5, ClientCalls DEF Knows
<1>11. CASE /\ written' = [written EXCEPT ![c][x] = TRUE]
            /\ pc' = [pc EXCEPT ![c] = "capture_send"]
            /\ attempts' = [attempts EXCEPT ![c] = MaxRetries]
            /\ UNCHANGED <<status, readCmd>>
    <2>1. /\ pc'[c] = "capture_send" /\ attempts'[c] = MaxRetries
          /\ written'[c][x] /\ status'[c] = "none"
        BY <1>2, <1>11 DEF TypeInv, ControlTyped, SpacesTyped
    <2>2. Turns(c)'
        BY <1>2, <1>3, <2>1 DEF Turns
    <2>3. RowsVoted(c)'
        BY <2>1 DEF RowsVoted
    <2>4. BeforeFound(c)'
        BY <1>3, <1>9, <2>1 DEF BeforeFound, Capturing
    <2>5. AnswerTrue(c)'
        BY <2>1 DEF AnswerTrue
    <2> QED
        BY <1>5, <1>6, <1>7, <2>2, <2>3, <2>4, <2>5, ClientCalls DEF Knows
<1>12. CASE IsQuorum(writeRow'[c][x]) /\ Ends(c, "OK", cmd)
    <2>1. /\ pc'[c] = "idle" /\ status'[c] = "OK"
          /\ call[c].op = "read" => readCmd'[c] = cmd
        BY <1>12 DEF Ends, TypeInv, ControlTyped
    <2>2. Chosen(x, cspace[c][x].vcmd)'
        <3>1. Chosen(x, cmd)
            BY <1>3, <1>12, AcknowledgedChosen
        <3>2. PICK v : v = cmd
            OBVIOUS
        <3>3. Chosen(x, v)'
            BY <3>1, <3>2, SameVotes
        <3> QED
            BY <3>2, <3>3
    <2>3. AnswerTrue(c)'
        <3>1. call[c].op = "read" /\ before[c] # {} => cmd \in before[c]
            BY <1>9
        <3> QED
            BY <1>3, <2>1, <2>2, <3>1 DEF AnswerTrue
    <2>4. Knows(c)'
        BY <1>2, <2>1, <2>3, EndedKnows
    <2> QED
        BY <1>5, <1>6, <1>7, <2>4, ClientCalls
<1> QED
    BY <1>3, <1>10, <1>11, <1>12

LEMMA WriteReceiveTurn ==
    ASSUME TypeInv, IInv, CallsInv, NEW c \in Clients,
           NEW m \in BagToSet(net), m.client = c, wor_write_receive(c, m)
    PROVE  \E x \in Addr : WriteTurn(c, x)
<1>1. PICK x \in Addr : x = call[c].addr
    BY DEF wor_write_receive, TypeInv, ControlTyped, Call
<1> DEFINE e == cspace[c][x]
<1>2. /\ pc[c] = "write_receive"
      /\ UNCHANGED <<acceptorVars, proposed, before, captureRow>>
      /\ BagToSet(net') \subseteq BagToSet(net)
    BY ReceiveInTransit DEF wor_write_receive, TypeInv, NetTyped, inputVars
<1>3. UNCHANGED cspace \/ AdoptVote(c, m)
    BY DEF wor_write_receive
<1>4. \A d \in Clients \ {c} : writeRow'[d] = writeRow[d]
    BY DEF wor_write_receive, TypeInv, RowsTyped
<1>5. RowVoted(c, x) /\ \A v \in before[c] : HoldsChosen(c, x, v)
    BY <1>1, <1>2, CallsInvParts DEF Knows, RowsVoted, BeforeFound
<1>6. CASE /\ Expected(c, m, "ACCEPT_ACK", writeRow) /\ m.vcmd # UndefCmd
           /\ Current(c, m)
    <2>1. /\ writeRow' = [writeRow EXCEPT ![c][x] = @ \cup {m.from}]
          /\ AdoptVote(c, m)
          /\ WriteLoop(c, "OK")
        BY <1>1, <1>6 DEF wor_write_receive
    <2>2. /\ m \in Ack /\ m.type = "ACCEPT_ACK" /\ m.addr = x
          /\ m.prop = e.prop
        BY <1>1, <1>6, MessageTypes
        DEF TypeInv, NetTyped, Expected, Current
    <2>3. VotedFor(m.from, x, e.prop, m.vcmd) /\ m.from \in Acceptors
        BY <2>2 DEF CallsInv, AcksVoted, Ack
    <2>4. <<e.prop, m.vcmd>> \in Asked(x) /\ m.vcmd \in Cmd
        BY <2>3, VotesAsked DEF VotedFor, TypeInv, AcceptorsTyped
    <2>5. /\ cspace'[c][x].prop = e.prop
          /\ cspace'[c][x].vcmd = m.vcmd
          /\ writeRow'[c][x] = writeRow[c][x] \cup {m.from}
        BY <1>1, <2>1 DEF AdoptVote, TypeInv, SpacesTyped, RowsTyped
    <2>6. \A a \in writeRow'[c][x] \cap RowIndices :
            VotedFor(a, x, e.prop, m.vcmd)
        <3> SUFFICES ASSUME NEW a \in writeRow[c][x] \cap RowIndices
                     PROVE  VotedFor(a, x, e.prop, m.vcmd)
            BY <2>3, <2>5
        <3>1. VotedFor(a, x, e.prop, e.vcmd) /\ a \in Acceptors
            BY <1>5 DEF RowVoted, TypeInv, RowsTyped
        <3>2. <<e.prop, e.vcmd>> \in Asked(x)
            BY <3>1, VotesAsked
        <3>3. e.vcmd = m.vcmd
            BY <2>4, <3>2 DEF IInv, OneCommandAsked
        <3> QED
            BY <3>1, <3>3
    <2>7. m.vcmd \in proposed[x]
        BY <2>4 DEF IInv, AskedIsProposed
    <2>8. call' = call => RowVoted(c, x)'
        BY <1>2, <1>6, <2>5, <2>6, <2>7
        DEF RowVoted, VotedFor, acceptorVars
    <2>9. ASSUME NEW v \in before[c] PROVE HoldsChosen(c, x, v)'
        <3>1. PICK p \in Proposal : p < e.prop /\ ChosenAt(x, p, v)
            BY <1>5 DEF HoldsChosen
        <3>2. v \in Cmd /\ e.prop \in Proposal
            BY DEF TypeInv, InputsTyped, SpacesTyped, Entry
        <3>3. m.vcmd = v
            BY <2>4, <3>1, <3>2, ChosenThenAsked
        <3> QED
            BY <1>2, <2>5, <3>1, <3>3, SameVotes DEF HoldsChosen
    <2>10. \A y \in Addr \ {x} : /\ cspace'[c][y] = cspace[c][y]
                                 /\ writeRow'[c][y] = writeRow[c][y]
        BY <1>1, <2>1 DEF AdoptVote, TypeInv, SpacesTyped, RowsTyped
    <2> QED
        BY <1>1, <1>2, <1>3, <1>4, <2>1, <2>8, <2>9, <2>10, AdoptVoteEffect
        DEF WriteTurn
<1>7. CASE ~(/\ Expected(c, m, "ACCEPT_ACK", writeRow) /\ m.vcmd # UndefCmd
             /\ Current(c, m))
    <2>1. /\ UNCHANGED <<writeRow, cspace>>
          /\ WriteLoop(c, IF /\ Expected(c, m, "ACCEPT_ACK", writeRow)
                             /\ m.vcmd # UndefCmd
                             /\ Overtakes(c, m)
                          THEN "PREEMPTED" ELSE "OK")
        BY <1>7 DEF wor_write_receive
    <2>2. ASSUME Expected(c, m, "ACCEPT_ACK", writeRow), Overtakes(c, m)
          PROVE  FALSE
        <3>1. /\ m \in Ack /\ m.type = "ACCEPT_ACK" /\ m.addr = x
              /\ e.prop < m.prop
            BY <1>1, <2>2, MessageTypes
            DEF TypeInv, NetTyped, Expected, Overtakes
        <3>2. m.prop <= e.prop
            BY <3>1 DEF CallsInv, AcceptsOwn, NumbersSent
        <3>3. m.prop \in Nat /\ e.prop \in Nat
            BY <3>1, ClientsAssumption
            DEF Ack, TypeInv, SpacesTyped, Entry, Proposal
        <3> QED
            BY <3>1, <3>2, <3>3
    <2>3. WriteLoop(c, "OK")
        BY <2>1, <2>2
    <2>4. call' = call => RowVoted(c, x)'
        BY <1>2, <1>5, <2>1 DEF RowVoted, VotedFor, acceptorVars
    <2>5. \A v \in before[c] : HoldsChosen(c, x, v)'
        BY <1>2, <1>5, <2>1, SameVotes DEF HoldsChosen
    <2> QED
        BY <1>1, <1>2, <2>1, <2>3, <2>4, <2>5 DEF WriteTurn
<1> QED
    BY <1>6, <1>7

LEMMA ReceiveErrorTurn ==
    ASSUME TypeInv, IInv, CallsInv, NEW c \in Clients, ReceiveError(c)
    PROVE  \E x \in Addr : CaptureTurn(c, x) \/ WriteTurn(c, x)
<1>1. UNCHANGED <<net, acceptorVars, proposed, before, cspace, captureRow,
                  writeRow>>
    BY DEF ReceiveError, inputVars, spaceVars, rowVars
<1>2. PICK x \in Addr : x = call[c].addr
    BY DEF ReceiveError, TypeInv, ControlTyped, Call
<1>3. CASE /\ pc[c] = "capture_receive"
           /\ UNCHANGED spaceVars
           /\ CaptureLoop(c, "OK")
    BY <1>1, <1>2, <1>3 DEF CaptureTurn, Answered, spaceVars
<1>4. CASE pc[c] = "write_receive" /\ WriteLoop(c, "OK")
    <2>1. RowVoted(c, x) /\ \A v \in before[c] : HoldsChosen(c, x, v)
        BY <1>2, <1>4, CallsInvParts DEF Knows, RowsVoted, BeforeFound
    <2>2. call' = call => RowVoted(c, x)'
        BY <1>1, <2>1 DEF RowVoted, VotedFor, acceptorVars
    <2>3. \A v \in before[c] : HoldsChosen(c, x, v)'
        BY <1>1, <2>1, SameVotes DEF HoldsChosen
    <2> QED
        BY <1>1, <1>2, <1>4, <2>2, <2>3 DEF WriteTurn
<1> QED
    BY <1>3, <1>4 DEF ReceiveError

\* Every datagram a client receives, and every failed reception, is a turn.
LEMMA ReceptionTurn ==
    ASSUME TypeInv, IInv, CallsInv, NEW c \in Clients,
           client_receive(c) \/ ReceiveError(c)
    PROVE  \E x \in Addr : CaptureTurn(c, x) \/ WriteTurn(c, x)
BY CaptureReceiveTurn, WriteReceiveTurn, ReceiveErrorTurn DEF client_receive
-----------------------------------------------------------------------------
(***************************************************************************)
(* The invariant.                                                          *)
(***************************************************************************)
LEMMA InitCalls == Init => CallsInv
<1> SUFFICES ASSUME Init PROVE CallsInv
    OBVIOUS
<1>1. BagToSet(net) = {}
    BY DEF Init, EmptyBag, BagToSet, SetToBag
<1>2. NumbersSent
    BY <1>1 DEF Init, EmptyEntry, NumbersSent, PROP_UNDEF
<1>3. AcceptsOwn /\ AcksVoted
    BY <1>1 DEF AcceptsOwn, AcksVoted
<1>4. ASSUME NEW c \in Clients
      PROVE  Knows(c)
    BY DEF Init, Knows, Turns, RowsVoted, BeforeFound, AnswerTrue
<1> QED
    BY <1>2, <1>3, <1>4, CallsInvParts

LEMMA NextCalls == TypeInv /\ IInv /\ CallsInv /\ [Next]_vars => CallsInv'
<1> SUFFICES ASSUME TypeInv, IInv, CallsInv, [Next]_vars PROVE CallsInv'
    OBVIOUS
<1>1. TypeInv'
    BY NextTyped
<1>2. CASE UNCHANGED vars
    <2>1. UNCHANGED <<acceptorVars, clientVars, net>>
        BY <1>2 DEF vars, netVars
    <2>2. UNCHANGED cspace
        BY <2>1 DEF clientVars, spaceVars
    <2>3. NumbersSent' /\ AcceptsOwn' /\ AcksVoted'
        BY <2>1, <2>2
        DEF CallsInv, NumbersSent, AcceptsOwn, AcksVoted, VotedFor,
            acceptorVars
    <2>4. AcksFresh
        BY <2>1 DEF AcksFresh
    <2>5. \A c \in Clients : Knows(c)'
        BY <1>1, <2>1, <2>4, UnchangedForward, AcceptorKnows
    <2> QED
        BY <2>3, <2>5, CallsInvNext
<1>3. CASE \E a \in Up : acceptor_msg_handler(a)
    BY <1>1, <1>3, UpAssumption, HandleCaptureCalls, HandleAcceptCalls
    DEF acceptor_msg_handler
<1>4. ASSUME NEW c \in Clients, ClientStep(c)
      PROVE  CallsInv'
    <2>1. CASE \/ \E x \in Addr, cmd \in Cmd : wor_capture_and_write(c, x, cmd)
               \/ \E x \in Addr : wor_read(c, x)
        BY <1>1, <2>1, CallCalls
    <2>2. CASE wor_capture_send(c)
        BY <1>1, <2>2, CaptureSendCalls
    <2>3. CASE wor_write_send(c)
        BY <1>1, <2>3, WriteSendCalls
    <2>4. CASE client_receive(c) \/ ReceiveError(c)
        BY <1>1, <2>4, ReceptionTurn, CaptureTurnCalls, WriteTurnCalls
    <2> QED
        BY <1>4, <2>1, <2>2, <2>3, <2>4 DEF ClientStep
<1> QED
    BY <1>2, <1>3, <1>4 DEF Next

(***************************************************************************)
(* In every reachable state, what the clients count and hold is what the   *)
(* acceptors voted for.                                                    *)
(***************************************************************************)
THEOREM CallsInvariance == Spec => [](TypeInv /\ IInv /\ CallsInv)
<1>1. Init => TypeInv /\ IInv /\ CallsInv
    BY InitTyped, InitInv, InitCalls
<1>2. TypeInv /\ IInv /\ CallsInv /\ [Next]_vars
        => TypeInv' /\ IInv' /\ CallsInv'
    BY NextTyped, NextInv, NextCalls
<1> QED
    BY <1>1, <1>2, PTL DEF Spec

(***************************************************************************)
(* wor_capture_and_write answers OK only when the command the client holds *)
(* is chosen, whatever was lost, duplicated, delayed or preempted.         *)
(***************************************************************************)
THEOREM OkIsChosen == Spec => []OkMeansChosen
<1>1. CallsInv => OkMeansChosen
    BY DEF CallsInv
<1> QED
    BY <1>1, CallsInvariance, PTL

(***************************************************************************)
(* A wor_read that begins after a command was chosen never finds the       *)
(* register unwritten, nor another command.                                *)
(***************************************************************************)
THEOREM ReadsSeeChosen == Spec => []ReadSeesChosen
<1>1. CallsInv => ReadSeesChosen
    BY DEF CallsInv
<1> QED
    BY <1>1, CallsInvariance, PTL
-----------------------------------------------------------------------------
(***************************************************************************)
(* What a client that waits is owed (ClientsOwed).                         *)
(***************************************************************************)
LEMMA AcceptorSets ==
    ASSUME NEW S \in SUBSET Acceptors
    PROVE  IsFiniteSet(S) /\ Cardinality(S) \in 0 .. NumAcceptors
<1>1. NumAcceptors \in Nat
    BY AcceptorsAssumption DEF MIN_ACCEPTORS, MAX_ACCEPTORS
<1>2. IsFiniteSet(Acceptors) /\ Cardinality(Acceptors) = NumAcceptors
    BY <1>1, FS_Interval DEF Acceptors
<1>3. IsFiniteSet(S) /\ Cardinality(S) <= Cardinality(Acceptors)
    BY <1>2, FS_Subset
<1>4. Cardinality(S) \in Nat
    BY <1>3, FS_CardinalityType
<1> QED
    BY <1>1, <1>2, <1>3, <1>4

LEMMA SmallerSet ==
    ASSUME NEW S \in SUBSET Acceptors, NEW T \in SUBSET Acceptors,
           T \subseteq S
    PROVE  Cardinality(T) <= Cardinality(S)
BY AcceptorSets, FS_Subset

LEMMA OneMore ==
    ASSUME NEW S \in SUBSET Acceptors, NEW T \in SUBSET Acceptors, NEW a,
           T \subseteq S \cup {a}
    PROVE  Cardinality(T) <= Cardinality(S) + 1
<1>1. IsFiniteSet(S) /\ Cardinality(S) \in Nat
    BY AcceptorSets
<1>2. /\ IsFiniteSet(S \cup {a})
      /\ Cardinality(S \cup {a}) <= Cardinality(S) + 1
      /\ Cardinality(S \cup {a}) \in Nat
    BY <1>1, FS_AddElement, FS_CardinalityType
<1>3. Cardinality(T) <= Cardinality(S \cup {a})
    BY <1>2, FS_Subset
<1>4. Cardinality(T) \in Nat
    BY AcceptorSets
<1> QED
    BY <1>1, <1>2, <1>3, <1>4

\* Two sets of acceptors that leave no room for a third element more.
LEMMA NoRoom ==
    ASSUME NumAcceptors <= 4, NEW R \in SUBSET Acceptors, IsQuorum(R),
           NEW S \in SUBSET Acceptors, NEW left \in Nat, left # 0,
           Cardinality(R \cap RowIndices) + Cardinality(S) + left
                <= NumAcceptors
    PROVE  S = {}
<1>1. NumAcceptors \in {3, 4}
    BY AcceptorsAssumption DEF MIN_ACCEPTORS, MAX_ACCEPTORS
<1>2. Cardinality(R \cap RowIndices) \in Nat /\ Cardinality(S) \in Nat
    BY <1>1, AcceptorSets
<1>3. 2 * Cardinality(R \cap RowIndices) > NumAcceptors
    BY DEF IsQuorum
<1>4. Cardinality(S) = 0
    BY <1>1, <1>2, <1>3
<1> QED
    BY <1>4, AcceptorSets, FS_EmptySet
-----------------------------------------------------------------------------
LEMMA CountedTyped ==
    ASSUME TypeInv, NEW c \in Clients, pc[c] # "idle"
    PROVE  Counted(c) \in SUBSET Acceptors
<1>1. call[c].addr \in Addr
    BY DEF TypeInv, ControlTyped, Call
<1> QED
    BY <1>1 DEF TypeInv, RowsTyped, Counted

\* A client that stays where it is is still owed what no step took away.
LEMMA OwedKept ==
    ASSUME TypeInv, NEW c \in Clients, pc'[c] = pc[c], call'[c] = call[c],
           captureRow'[c] = captureRow[c], pending'[c] = pending[c],
           \A a \in Acceptors : Owes(a, c) => Owes(a, c)',
           pc[c] = "capture_receive" =>
                \A a \in Acceptors : OwesFirst(a, c) => OwesFirst(a, c)',
           CaptureOwed(c), NumAcceptors <= 4 => WriteOwed(c)
    PROVE  CaptureOwed(c)' /\ (NumAcceptors <= 4 => WriteOwed(c))'
<1>1. Paid(c)' \subseteq Paid(c)
    BY DEF Paid
<1>2. Cardinality(Paid(c)') <= Cardinality(Paid(c))
    BY <1>1, SmallerSet DEF Paid
<1>3. /\ Cardinality(Paid(c)) \in Nat /\ Cardinality(Paid(c)') \in Nat
      /\ NumAcceptors \in Nat /\ pending[c] \in Nat
    BY AcceptorSets, AcceptorsAssumption
    DEF Paid, TypeInv, ControlTyped, MIN_ACCEPTORS, MAX_ACCEPTORS
<1>4. (NumAcceptors <= 4 => WriteOwed(c))'
    BY <1>1, <1>2, <1>3 DEF WriteOwed
<1>5. CASE pc[c] = "capture_receive"
    <2>1. PaidFirst(c)' \subseteq PaidFirst(c)
        BY <1>5 DEF PaidFirst
    <2>2. Cardinality(PaidFirst(c)') <= Cardinality(PaidFirst(c))
        BY <2>1, SmallerSet DEF PaidFirst
    <2>3. /\ Cardinality(PaidFirst(c)) \in Nat
          /\ Cardinality(PaidFirst(c)') \in Nat
        BY AcceptorSets DEF PaidFirst
    <2>4. Counted(c)' = Counted(c)
        BY DEF Counted
    <2>5. Cardinality(Counted(c)) \in Nat
        BY <1>5, CountedTyped, AcceptorSets DEF Receiving
    <2>6. CaptureOwed(c)'
        BY <1>3, <1>5, <2>2, <2>3, <2>4, <2>5 DEF CaptureOwed
    <2> QED
        BY <1>4, <2>6
<1> QED
    BY <1>4, <1>5 DEF CaptureOwed

\* The clients that do not move keep what is owed to them when another moves.
OthersOwed(c) ==
    \A d \in Clients \ {c} :
        CaptureOwed(d)' /\ (NumAcceptors <= 4 => WriteOwed(d))'

LEMMA ClientOwesOthers ==
    ASSUME TypeInv, ClientsOwed, NEW c \in Clients, UNCHANGED aspace,
           \A m \in BagToSet(net) : m.client # c => m \in BagToSet(net'),
           \A d \in Clients \ {c} :
                /\ pc'[d] = pc[d] /\ call'[d] = call[d]
                /\ captureRow'[d] = captureRow[d] /\ pending'[d] = pending[d]
                /\ cspace'[d] = cspace[d]
    PROVE  OthersOwed(c)
<1> SUFFICES ASSUME NEW d \in Clients \ {c}
             PROVE  CaptureOwed(d)' /\ (NumAcceptors <= 4 => WriteOwed(d))'
    BY DEF OthersOwed
<1>1. \A a \in Acceptors : Owes(a, d) => Owes(a, d)'
    BY DEF Owes
<1>2. \A a \in Acceptors : OwesFirst(a, d) => OwesFirst(a, d)'
    BY DEF OwesFirst
<1> QED
    BY <1>1, <1>2, OwedKept DEF ClientsOwed

LEMMA HandleCaptureOwed ==
    ASSUME TypeInv, IInv, ClientsOwed, NEW a \in Acceptors,
           NEW m \in BagToSet(net), HandleCapture(a, m)
    PROVE  ClientsOwed'
<1> DEFINE ack == [type |-> "CAPTURE_ACK", client |-> m.client, from |-> a,
                   addr |-> m.addr, prop |-> aspace[a][m.addr].prop,
                   vprop |-> aspace[a][m.addr].vprop,
                   vcmd |-> aspace[a][m.addr].vcmd]
<1>1. /\ BagToSet(net) \ {m} \subseteq BagToSet(net')
      /\ ack \in BagToSet(net')
      /\ BagToSet(net') \subseteq BagToSet(net) \cup {ack}
    BY ReceiveKeeps, ReceiveInTransit
    DEF HandleCapture, CaptureAnswer, TypeInv, NetTyped
<1>2. CapturesOwn'
    BY <1>1 DEF ClientsOwed, CapturesOwn
<1>3. /\ m.type = "CAPTURE" /\ m.to = a
      /\ UNCHANGED <<pc, call, captureRow, pending, cspace>>
    BY DEF HandleCapture, clientVars, spaceVars, rowVars, controlVars
<1>4. ASSUME NEW c \in Clients
      PROVE  CaptureOwed(c)' /\ (NumAcceptors <= 4 => WriteOwed(c))'
    <2>1. \A b \in Acceptors : Owes(b, c) => Owes(b, c)'
        BY <1>1, <1>3 DEF Owes
    <2>2. ASSUME pc[c] = "capture_receive", NEW b \in Acceptors,
                 OwesFirst(b, c)
          PROVE  OwesFirst(b, c)'
        <3> DEFINE x == call[c].addr
                   p == cspace[c][x].prop
        <3>1. x \in Addr
            BY <2>2 DEF TypeInv, ControlTyped, Call
        <3>2. p % PropOne = c
            BY <2>2, <3>1
            DEF IInv, CapturesReport, CaptureReports, Capturing
        <3>3. PICK k \in BagToSet(net) :
                /\ k.client = c
                /\ \/ /\ k.type = "CAPTURE" /\ k.to = b
                      /\ k.addr = x /\ k.prop = p /\ aspace[b][x].prop # p
                   \/ /\ k.type = "CAPTURE_ACK" /\ k.from = b
                      /\ ~ (k.addr = x /\ k.prop = p)
            BY <2>2 DEF OwesFirst
        <3>4. CASE k.type = "CAPTURE_ACK"
            BY <1>1, <1>3, <3>3, <3>4 DEF OwesFirst
        <3>5. CASE k.type = "CAPTURE" /\ b = a /\ m.addr = x /\ m.prop = p
            <4>1. m.client = c
                BY <1>3, <3>2, <3>5 DEF ClientsOwed, CapturesOwn
            <4>2. ack.prop # p
                BY <3>3, <3>5
            <4> QED
                BY <1>1, <1>3, <3>5, <4>1, <4>2 DEF OwesFirst
        <3>6. CASE /\ k.type = "CAPTURE"
                   /\ ~ (b = a /\ m.addr = x /\ m.prop = p)
            <4>1. aspace'[b][x].prop # p
                BY <3>1, <3>3, <3>6
                DEF HandleCapture, TypeInv, AcceptorsTyped, Entry
            <4>2. k # m
                BY <1>3, <3>3, <3>6
            <4> QED
                BY <1>1, <1>3, <3>3, <3>6, <4>1, <4>2 DEF OwesFirst
        <3> QED
            BY <3>3, <3>4, <3>5, <3>6
    <2> QED
        BY <1>3, <2>1, <2>2, OwedKept DEF ClientsOwed
<1> QED
    BY <1>2, <1>4 DEF ClientsOwed

LEMMA HandleAcceptOwed ==
    ASSUME TypeInv, IInv, ClientsOwed, NEW a \in Acceptors,
           NEW m \in BagToSet(net), HandleAccept(a, m)
    PROVE  ClientsOwed'
<1>1. PICK sent :
        /\ Receive(m, sent)
        /\ \A k \in sent : k.type = "ACCEPT_ACK"
    BY DEF HandleAccept
<1>2. /\ BagToSet(net) \ {m} \subseteq BagToSet(net')
      /\ BagToSet(net') \subseteq BagToSet(net) \cup sent
    BY <1>1, ReceiveKeeps, ReceiveInTransit DEF TypeInv, NetTyped
<1>3. CapturesOwn'
    BY <1>1, <1>2 DEF ClientsOwed, CapturesOwn
<1>4. /\ m.type = "ACCEPT" /\ m.to = a
      /\ UNCHANGED <<pc, call, captureRow, pending, cspace>>
    BY DEF HandleAccept, clientVars, spaceVars, rowVars, controlVars
<1>5. ASSUME NEW c \in Clients
      PROVE  CaptureOwed(c)' /\ (NumAcceptors <= 4 => WriteOwed(c))'
    <2>1. \A b \in Acceptors : Owes(b, c) => Owes(b, c)'
        BY <1>2, <1>4 DEF Owes
    <2>2. ASSUME pc[c] = "capture_receive", NEW b \in Acceptors,
                 OwesFirst(b, c)
          PROVE  OwesFirst(b, c)'
        <3> DEFINE x == call[c].addr
                   p == cspace[c][x].prop
        <3>1. x \in Addr /\ p \in Int
            BY <2>2 DEF TypeInv, ControlTyped, Call, SpacesTyped, Entry,
               Proposal
        <3>2. p % PropOne = c /\ NumberUnused(c, x)
            BY <2>2, <3>1
            DEF IInv, CapturesReport, CaptureReports, Capturing, NumbersInOrder
        <3>3. m.addr = x => <<m.prop, m.vcmd>> \in Asked(x)
            BY <1>4 DEF Asked, Accepts
        <3>4. ~ (m.addr = x /\ m.prop = p)
            BY <3>1, <3>2, <3>3 DEF NumberUnused
        <3>5. CASE aspace' = aspace
            BY <1>2, <1>4, <2>2, <3>5 DEF OwesFirst
        <3>6. CASE aspace' = [aspace EXCEPT ![a][m.addr] =
                                [prop |-> m.prop, vprop |-> m.prop,
                                 vcmd |-> m.vcmd]]
            <4>1. aspace'[b][x].prop # p \/ aspace'[b][x] = aspace[b][x]
                BY <3>1, <3>4, <3>6 DEF TypeInv, AcceptorsTyped
            <4> QED
                BY <1>2, <1>4, <2>2, <4>1 DEF OwesFirst
        <3> QED
            BY <3>5, <3>6 DEF HandleAccept, acceptorVars
    <2> QED
        BY <1>4, <2>1, <2>2, OwedKept DEF ClientsOwed
<1> QED
    BY <1>3, <1>5 DEF ClientsOwed
-----------------------------------------------------------------------------
\* How the control of a client other than c is left alone.
OthersWait(c) ==
    \A d \in Clients \ {c} :
        /\ pc'[d] = pc[d] /\ call'[d] = call[d] /\ pending'[d] = pending[d]

LEMMA ReturnsWait ==
    ASSUME TypeInv, NEW c \in Clients, NEW st, NEW cmd, Returns(c, st, cmd)
    PROVE  OthersWait(c) /\ UNCHANGED call /\ pc'[c] = "idle"
BY DEF Returns, WriteReturns, ReadReturns, Idle, OthersWait, TypeInv,
       ControlTyped

LEMMA CaptureRoundWaits ==
    ASSUME TypeInv, NEW c \in Clients, NEW st, NEW cmd,
           CaptureRoundEnds(c, st, cmd)
    PROVE  /\ OthersWait(c) /\ UNCHANGED call
           /\ \/ pc'[c] \in {"idle", "capture_send"}
              \/ pc'[c] = "write_send" /\ st = "OK"
<1>1. CASE Returns(c, "TIMEOUT", cmd) \/ Returns(c, st, cmd)
    BY <1>1, ReturnsWait
<1>2. CASE /\ \/ pc' = [pc EXCEPT ![c] = "capture_send"]
              \/ pc' = [pc EXCEPT ![c] = "write_send"] /\ st = "OK"
           /\ pending' = [pending EXCEPT ![c] = 0]
           /\ UNCHANGED call
    BY <1>2 DEF OthersWait, TypeInv, ControlTyped
<1> QED
    BY <1>1, <1>2 DEF CaptureRoundEnds

\* A turn of the capture loop leaves the client in it with a turn less, or in
\* its write round with a quorum and a turn left, or waiting for nothing.
LEMMA CaptureLoopWaits ==
    ASSUME TypeInv, NEW c \in Clients, pc[c] = "capture_receive",
           NEW st \in {"OK", "PREEMPTED"}, CaptureLoop(c, st)
    PROVE  /\ OthersWait(c) /\ UNCHANGED call
           /\ pending[c] - 1 \in Nat
           /\ \/ pc'[c] \in {"idle", "capture_send"}
              \/ /\ pc'[c] = "capture_receive"
                 /\ pending'[c] = pending[c] - 1
              \/ /\ pc'[c] = "write_send"
                 /\ pending[c] - 1 # 0
                 /\ IsQuorum(captureRow'[c][call[c].addr])
<1> DEFINE left == pending[c] - 1
           cmd == cspace'[c][call[c].addr].vcmd
<1>1. left \in Nat
    BY AcceptorsAssumption DEF TypeInv, ControlTyped, Receiving,
       MIN_ACCEPTORS, MAX_ACCEPTORS
<1>2. CASE /\ pending' = [pending EXCEPT ![c] = left]
           /\ UNCHANGED <<pc, call>>
    BY <1>1, <1>2 DEF OthersWait, TypeInv, ControlTyped
<1>3. CASE /\ \/ left = 0 \/ st = "PREEMPTED"
              \/ IsQuorum(captureRow'[c][call[c].addr])
           /\ CaptureRoundEnds(c, IF left = 0 THEN "PREEMPTED" ELSE st, cmd)
    BY <1>1, <1>3, CaptureRoundWaits
<1> QED
    BY <1>2, <1>3 DEF CaptureLoop

LEMMA WriteLoopWaits ==
    ASSUME TypeInv, NEW c \in Clients, pc[c] = "write_receive",
           NEW st, WriteLoop(c, st)
    PROVE  /\ OthersWait(c) /\ UNCHANGED call
           /\ pending[c] - 1 \in Nat
           /\ \/ pc'[c] \in {"idle", "capture_send"}
              \/ /\ pc'[c] = "write_receive"
                 /\ pending'[c] = pending[c] - 1
<1> DEFINE left == pending[c] - 1
           cmd == cspace'[c][call[c].addr].vcmd
<1>1. left \in Nat
    BY AcceptorsAssumption DEF TypeInv, ControlTyped, Receiving,
       MIN_ACCEPTORS, MAX_ACCEPTORS
<1>2. CASE /\ pending' = [pending EXCEPT ![c] = left]
           /\ UNCHANGED <<pc, call>>
    BY <1>1, <1>2 DEF OthersWait, TypeInv, ControlTyped
<1>3. CASE WriteRoundEnds(c, IF left = 0 THEN "PREEMPTED" ELSE st, cmd)
    <2>1. CASE \E s : Returns(c, s, cmd)
        BY <1>1, <2>1, ReturnsWait
    <2>2. CASE /\ pc' = [pc EXCEPT ![c] = "capture_send"]
               /\ pending' = [pending EXCEPT ![c] = 0]
               /\ UNCHANGED call
        BY <1>1, <2>2 DEF OthersWait, TypeInv, ControlTyped
    <2> QED
        BY <1>3, <2>1, <2>2 DEF WriteRoundEnds, Returns
<1> QED
    BY <1>2, <1>3 DEF WriteLoop
-----------------------------------------------------------------------------
\* A client that has just asked every acceptor is owed all the first answers.
LEMMA CaptureSendOwed ==
    ASSUME TypeInv, TypeInv', CallsInv, ClientsOwed, NEW c \in Clients,
           wor_capture_send(c)
    PROVE  ClientsOwed'
<1> DEFINE x == call[c].addr
           old == cspace[c][x]
           prop == wor_get_next_proposal(c, x)
           sent == [type : {"CAPTURE"}, client : {c}, to : Acceptors,
                    addr : {x}, prop : {prop}, vprop : {PROP_UNDEF},
                    vcmd : {UndefCmd}]
<1>1. x \in Addr /\ pc[c] = "capture_send" /\ UNCHANGED aspace
    BY DEF wor_capture_send, TypeInv, ControlTyped, Call, acceptorVars
<1>2. \A d \in Clients \ {c} : /\ captureRow'[d] = captureRow[d]
                               /\ cspace'[d] = cspace[d]
    BY DEF wor_capture_send, spaceVars, rowVars, TypeInv, SpacesTyped,
       RowsTyped
<1>3. CASE /\ UNCHANGED netVars
           /\ \E st \in {"ALREADYWRITTEN", "ERROR"} :
                \E cmd : CaptureRoundEnds(c, st, cmd)
    <2>1. OthersWait(c) /\ pc'[c] \in {"idle", "capture_send"}
        BY <1>3, CaptureRoundWaits
    <2>2. OthersOwed(c)
        BY <1>1, <1>2, <1>3, <2>1, ClientOwesOthers DEF OthersWait, netVars
    <2> QED
        BY <1>3, <2>1, <2>2
        DEF ClientsOwed, CapturesOwn, OthersOwed, CaptureOwed, WriteOwed,
            netVars
<1>4. CASE /\ prop # PROP_UNDEF
           /\ captureRow' = [captureRow EXCEPT ![c][x] = RowReset(@)]
           /\ cspace' = [cspace EXCEPT ![c][x] = [EmptyEntry EXCEPT
                                                    !.prop = prop]]
           /\ Broadcast(sent)
           /\ pc' = [pc EXCEPT ![c] = "capture_receive"]
           /\ pending' = [pending EXCEPT ![c] = NumAcceptors]
           /\ UNCHANGED call
    <2>1. BagToSet(net') = BagToSet(net) \cup sent
        BY <1>4, BroadcastInTransit DEF TypeInv, NetTyped
    <2>2. OthersOwed(c)
        BY <1>1, <1>2, <1>4, <2>1, ClientOwesOthers DEF TypeInv, ControlTyped
    <2>3. /\ prop \in Nat /\ old.prop \in Nat
          /\ prop > old.prop
          /\ prop % PropOne = c
        BY <1>1, <1>4, NewProposal DEF TypeInv
    <2>4. CapturesOwn'
        BY <2>1, <2>3 DEF ClientsOwed, CapturesOwn
    <2>5. Counted(c)' = {}
        BY <1>1, <1>4 DEF Counted, RowReset, TypeInv, RowsTyped
    <2>6. /\ pc'[c] = "capture_receive" /\ pending'[c] = NumAcceptors
          /\ cspace'[c][x].prop = prop
        BY <1>1, <1>4
        DEF EmptyEntry, TypeInv, ControlTyped, SpacesTyped
    <2>7. ASSUME NEW a \in Acceptors
          PROVE  OwesFirst(a, c)'
        <3>1. aspace[a][x].prop # prop
            <4>1. aspace[a][x].prop % PropOne = c
                    => aspace[a][x].prop <= old.prop
                BY <1>1 DEF CallsInv, NumbersSent
            <4> QED
                BY <2>3, <4>1
        <3> DEFINE m == [type |-> "CAPTURE", client |-> c, to |-> a,
                         addr |-> x, prop |-> prop, vprop |-> PROP_UNDEF,
                         vcmd |-> UndefCmd]
        <3>2. m \in BagToSet(net')
            BY <2>1
        <3> QED
            BY <1>1, <1>4, <2>6, <3>1, <3>2 DEF OwesFirst
    <2>8. PaidFirst(c)' = {}
        BY <2>7 DEF PaidFirst
    <2>9. CaptureOwed(c)' /\ WriteOwed(c)'
        BY <2>5, <2>6, <2>8, FS_EmptySet, AcceptorsAssumption
        DEF CaptureOwed, WriteOwed, MIN_ACCEPTORS, MAX_ACCEPTORS
    <2> QED
        BY <2>2, <2>4, <2>9 DEF ClientsOwed, OthersOwed
<1> QED
    BY <1>3, <1>4 DEF wor_capture_send, rowVars

\* A turn of the capture loop takes one answer at most: one that is counted,
\* or a first one.
LEMMA CaptureTurnOwed ==
    ASSUME TypeInv, TypeInv', ClientsOwed, NEW c \in Clients,
           pc[c] = "capture_receive", CapturesOwn', OthersOwed(c),
           NEW st \in {"OK", "PREEMPTED"}, CaptureLoop(c, st),
           NEW b,
           \/ /\ Counted(c)' \subseteq Counted(c) \cup {b}
              /\ PaidFirst(c)' \subseteq PaidFirst(c)
           \/ /\ Counted(c)' = Counted(c)
              /\ PaidFirst(c)' \subseteq PaidFirst(c) \cup {b}
    PROVE  ClientsOwed'
<1> DEFINE left == pending[c] - 1
           R == captureRow'[c][call[c].addr]
<1>1. /\ UNCHANGED call
      /\ left \in Nat
      /\ \/ pc'[c] \in {"idle", "capture_send"}
         \/ /\ pc'[c] = "capture_receive"
            /\ pending'[c] = left
         \/ /\ pc'[c] = "write_send"
            /\ left # 0
            /\ IsQuorum(R)
    BY CaptureLoopWaits
<1>2. call[c].addr \in Addr /\ R \in SUBSET Acceptors
    BY DEF TypeInv, ControlTyped, RowsTyped, Call
<1>3. Counted(c)' = R \cap RowIndices
    BY <1>1 DEF Counted
<1>4. /\ Counted(c) \in SUBSET Acceptors /\ Counted(c)' \in SUBSET Acceptors
      /\ PaidFirst(c) \in SUBSET Acceptors
      /\ PaidFirst(c)' \in SUBSET Acceptors
    BY <1>2, <1>3, CountedTyped DEF PaidFirst
<1>5. /\ Cardinality(Counted(c)) \in Nat /\ Cardinality(Counted(c)') \in Nat
      /\ Cardinality(PaidFirst(c)) \in Nat
      /\ Cardinality(PaidFirst(c)') \in Nat
      /\ NumAcceptors \in Nat /\ pending[c] \in Nat
    BY <1>4, AcceptorSets, AcceptorsAssumption
    DEF TypeInv, ControlTyped, MIN_ACCEPTORS, MAX_ACCEPTORS
<1>6. Cardinality(Counted(c)') + Cardinality(PaidFirst(c)')
        <= Cardinality(Counted(c)) + Cardinality(PaidFirst(c)) + 1
    <2>1. CASE /\ Counted(c)' \subseteq Counted(c) \cup {b}
               /\ PaidFirst(c)' \subseteq PaidFirst(c)
        <3>1. Cardinality(Counted(c)') <= Cardinality(Counted(c)) + 1
            BY <1>4, <2>1, OneMore
        <3>2. Cardinality(PaidFirst(c)') <= Cardinality(PaidFirst(c))
            BY <1>4, <2>1, SmallerSet
        <3> QED
            BY <1>5, <3>1, <3>2
    <2>2. CASE /\ Counted(c)' = Counted(c)
               /\ PaidFirst(c)' \subseteq PaidFirst(c) \cup {b}
        <3>1. Cardinality(PaidFirst(c)') <= Cardinality(PaidFirst(c)) + 1
            BY <1>4, <2>2, OneMore
        <3> QED
            BY <1>5, <2>2, <3>1
    <2> QED
        BY <2>1, <2>2
<1>7. Cardinality(Counted(c)') + Cardinality(PaidFirst(c)') + left
        <= NumAcceptors
    BY <1>5, <1>6 DEF ClientsOwed, CaptureOwed
<1>8. CaptureOwed(c)'
    BY <1>1, <1>7 DEF CaptureOwed
<1>9. NumAcceptors <= 4 /\ pc'[c] = "write_send" => Paid(c)' = {}
    <2>1. NumAcceptors <= 4 /\ pc'[c] = "write_send" => PaidFirst(c)' = {}
        BY <1>1, <1>2, <1>3, <1>4, <1>7, NoRoom
    <2>2. \A a \in Acceptors : OwesFirst(a, c)' => Owes(a, c)'
        BY DEF OwesFirst, Owes
    <2> QED
        BY <2>1, <2>2 DEF PaidFirst, Paid
<1>10. (NumAcceptors <= 4 => WriteOwed(c))'
    BY <1>1, <1>9 DEF WriteOwed
<1> QED
    BY <1>8, <1>10 DEF ClientsOwed, OthersOwed

LEMMA CaptureReceiveOwed ==
    ASSUME TypeInv, TypeInv', ClientsOwed, NEW c \in Clients,
           NEW m \in BagToSet(net), m.client = c,
           m.type \in {"CAPTURE_ACK", "ACCEPT_ACK"}, wor_capture_receive(c, m)
    PROVE  ClientsOwed'
<1> DEFINE x == call[c].addr
<1>1. /\ pc[c] = "capture_receive" /\ UNCHANGED aspace
      /\ BagToSet(net') \subseteq BagToSet(net)
      /\ BagToSet(net) \ {m} \subseteq BagToSet(net')
    BY ReceiveInTransit, ReceiveKeeps
    DEF wor_capture_receive, acceptorVars, TypeInv, NetTyped
<1>2. PICK st \in {"OK", "PREEMPTED"} : CaptureLoop(c, st)
    BY DEF wor_capture_receive
<1>3. OthersWait(c) /\ UNCHANGED call
    BY <1>1, <1>2, CaptureLoopWaits
<1>4. x \in Addr
    BY <1>1 DEF TypeInv, ControlTyped, Call
<1>5. /\ \A d \in Clients \ {c} : cspace'[d] = cspace[d]
      /\ cspace'[c][x].prop = cspace[c][x].prop
    BY <1>4, AdoptVoteEffect DEF wor_capture_receive
<1>6. \A d \in Clients \ {c} : captureRow'[d] = captureRow[d]
    BY DEF wor_capture_receive, TypeInv, RowsTyped
<1>7. CapturesOwn'
    BY <1>1 DEF ClientsOwed, CapturesOwn
<1>8. OthersOwed(c)
    BY <1>1, <1>3, <1>5, <1>6, ClientOwesOthers DEF OthersWait
<1>9. CASE /\ Expected(c, m, "CAPTURE_ACK", captureRow) /\ Current(c, m)
           /\ captureRow' = [captureRow EXCEPT ![c][x] = @ \cup {m.from}]
    <2>1. Counted(c)' \subseteq Counted(c) \cup {m.from}
        BY <1>3, <1>4, <1>9 DEF Counted, TypeInv, RowsTyped
    <2>2. \A a \in Acceptors : OwesFirst(a, c) => OwesFirst(a, c)'
        BY <1>1, <1>3, <1>5, <1>9 DEF OwesFirst, Expected, Current
    <2>3. PaidFirst(c)' \subseteq PaidFirst(c)
        BY <2>2 DEF PaidFirst
    <2> QED
        BY <1>1, <1>2, <1>7, <1>8, <2>1, <2>3, CaptureTurnOwed
<1>10. CASE UNCHANGED captureRow
    <2>1. Counted(c)' = Counted(c)
        BY <1>3, <1>10 DEF Counted
    <2>3. \A a \in Acceptors : a # m.from /\ OwesFirst(a, c)
                                    => OwesFirst(a, c)'
        BY <1>1, <1>3, <1>5 DEF OwesFirst
    <2>4. PaidFirst(c)' \subseteq PaidFirst(c) \cup {m.from}
        BY <2>3 DEF PaidFirst
    <2> QED
        BY <1>1, <1>2, <1>7, <1>8, <2>1, <2>4, CaptureTurnOwed
<1> QED
    BY <1>9, <1>10 DEF wor_capture_receive

\* The requests of the write round come on top of what is owed.
LEMMA WriteSendOwed ==
    ASSUME TypeInv, TypeInv', ClientsOwed, NEW c \in Clients,
           wor_write_send(c)
    PROVE  ClientsOwed'
<1>1. /\ pc[c] = "write_send"
      /\ UNCHANGED <<aspace, cspace, captureRow>>
    BY DEF wor_write_send, acceptorVars, spaceVars, rowVars
<1>2. ASSUME NEW p, NEW x, NEW v,
             Broadcast([type : {"ACCEPT"}, client : {c}, to : Acceptors,
                        addr : {x}, prop : {p}, vprop : {p}, vcmd : {v}])
      PROVE  /\ BagToSet(net) \subseteq BagToSet(net')
             /\ \A k \in BagToSet(net') \ BagToSet(net) : k.type = "ACCEPT"
    <2> DEFINE sent == [type : {"ACCEPT"}, client : {c}, to : Acceptors,
                        addr : {x}, prop : {p}, vprop : {p}, vcmd : {v}]
    <2>1. \A k \in sent : k.type = "ACCEPT"
        OBVIOUS
    <2>2. Broadcast(sent)
        BY <1>2
    <2> HIDE DEF sent
    <2> QED
        BY <2>1, <2>2, BroadcastInTransit DEF TypeInv, NetTyped
<1>3. /\ BagToSet(net) \subseteq BagToSet(net')
      /\ \A k \in BagToSet(net') \ BagToSet(net) : k.type = "ACCEPT"
    BY <1>2 DEF wor_write_send, netVars
<1>4. CapturesOwn'
    BY <1>3 DEF ClientsOwed, CapturesOwn
<1>5. CASE ReadReturns(c, "UNWRITTEN", UndefCmd)
    <2>1. OthersWait(c) /\ pc'[c] = "idle"
        BY <1>5, ReturnsWait DEF Returns
    <2>2. OthersOwed(c)
        BY <1>1, <1>3, <2>1, ClientOwesOthers DEF OthersWait
    <2> QED
        BY <1>4, <2>1, <2>2
        DEF ClientsOwed, OthersOwed, CaptureOwed, WriteOwed
<1>6. CASE /\ pc' = [pc EXCEPT ![c] = "write_receive"]
           /\ pending' = [pending EXCEPT ![c] = NumAcceptors]
           /\ UNCHANGED call
    <2>1. OthersOwed(c)
        BY <1>1, <1>3, <1>6, ClientOwesOthers DEF TypeInv, ControlTyped
    <2>2. pc'[c] = "write_receive" /\ pending'[c] = NumAcceptors
        BY <1>6 DEF TypeInv, ControlTyped
    <2>3. Paid(c)' \subseteq Paid(c)
        BY <1>3 DEF Paid, Owes
    <2>4. NumAcceptors <= 4 => Paid(c)' = {}
        BY <1>1, <2>3 DEF ClientsOwed, WriteOwed
    <2>5. CaptureOwed(c)' /\ (NumAcceptors <= 4 => WriteOwed(c))'
        BY <2>2, <2>4, FS_EmptySet, AcceptorsAssumption
        DEF CaptureOwed, WriteOwed, MIN_ACCEPTORS, MAX_ACCEPTORS
    <2> QED
        BY <1>4, <2>1, <2>5 DEF ClientsOwed, OthersOwed
<1> QED
    BY <1>5, <1>6 DEF wor_write_send

\* A turn of the write loop takes one of the answers left, or none.
LEMMA WriteTurnOwed ==
    ASSUME TypeInv, TypeInv', ClientsOwed, NEW c \in Clients,
           pc[c] = "write_receive", CapturesOwn', OthersOwed(c),
           NEW st, WriteLoop(c, st), NEW b,
           Paid(c)' \subseteq Paid(c) \cup {b}
    PROVE  ClientsOwed'
<1>1. /\ pending[c] - 1 \in Nat
      /\ \/ pc'[c] \in {"idle", "capture_send"}
         \/ /\ pc'[c] = "write_receive"
            /\ pending'[c] = pending[c] - 1
    BY WriteLoopWaits
<1>2. Paid(c) \in SUBSET Acceptors /\ Paid(c)' \in SUBSET Acceptors
    BY DEF Paid
<1>3. Cardinality(Paid(c)') <= Cardinality(Paid(c)) + 1
    BY <1>2, OneMore
<1>4. /\ Cardinality(Paid(c)) \in Nat /\ Cardinality(Paid(c)') \in Nat
      /\ NumAcceptors \in Nat /\ pending[c] \in Nat
    BY <1>2, AcceptorSets, AcceptorsAssumption
    DEF TypeInv, ControlTyped, MIN_ACCEPTORS, MAX_ACCEPTORS
<1>5. CaptureOwed(c)' /\ (NumAcceptors <= 4 => WriteOwed(c))'
    BY <1>1, <1>3, <1>4 DEF ClientsOwed, CaptureOwed, WriteOwed
<1> QED
    BY <1>5 DEF ClientsOwed, OthersOwed

LEMMA WriteReceiveOwed ==
    ASSUME TypeInv, TypeInv', ClientsOwed, NEW c \in Clients,
           NEW m \in BagToSet(net), m.client = c,
           m.type \in {"CAPTURE_ACK", "ACCEPT_ACK"}, wor_write_receive(c, m)
    PROVE  ClientsOwed'
<1>1. /\ pc[c] = "write_receive" /\ UNCHANGED <<aspace, captureRow>>
      /\ BagToSet(net') \subseteq BagToSet(net)
      /\ BagToSet(net) \ {m} \subseteq BagToSet(net')
    BY ReceiveInTransit, ReceiveKeeps
    DEF wor_write_receive, acceptorVars, TypeInv, NetTyped
<1>2. PICK st : WriteLoop(c, st)
    BY DEF wor_write_receive
<1>3. OthersWait(c)
    BY <1>1, <1>2, WriteLoopWaits
<1>4. \A d \in Clients \ {c} : cspace'[d] = cspace[d]
    BY AdoptVoteEffect DEF wor_write_receive
<1>5. CapturesOwn'
    BY <1>1 DEF ClientsOwed, CapturesOwn
<1>6. OthersOwed(c)
    BY <1>1, <1>3, <1>4, ClientOwesOthers DEF OthersWait
<1>7. \A a \in Acceptors : a # m.from /\ Owes(a, c) => Owes(a, c)'
    BY <1>1 DEF Owes
<1>8. Paid(c)' \subseteq Paid(c) \cup {m.from}
    BY <1>7 DEF Paid
<1> QED
    BY <1>1, <1>2, <1>5, <1>6, <1>8, WriteTurnOwed

\* A failed reception takes no answer at all.
LEMMA ReceiveErrorOwed ==
    ASSUME TypeInv, TypeInv', ClientsOwed, NEW c \in Clients, ReceiveError(c)
    PROVE  ClientsOwed'
<1>1. UNCHANGED <<net, aspace, cspace, captureRow>>
    BY DEF ReceiveError, acceptorVars, spaceVars, rowVars
<1>2. CapturesOwn'
    BY <1>1 DEF ClientsOwed, CapturesOwn
<1>3. CASE pc[c] = "capture_receive" /\ CaptureLoop(c, "OK")
    <2>1. OthersWait(c) /\ UNCHANGED call
        BY <1>3, CaptureLoopWaits
    <2>2. OthersOwed(c)
        BY <1>1, <2>1, ClientOwesOthers DEF OthersWait
    <2>3. Counted(c)' = Counted(c) /\ PaidFirst(c)' = PaidFirst(c)
        BY <1>1, <2>1 DEF Counted, PaidFirst, OwesFirst
    <2> QED
        BY <1>2, <1>3, <2>2, <2>3, CaptureTurnOwed
<1>4. CASE pc[c] = "write_receive" /\ WriteLoop(c, "OK")
    <2>1. OthersWait(c)
        BY <1>4, WriteLoopWaits
    <2>2. OthersOwed(c)
        BY <1>1, <2>1, ClientOwesOthers DEF OthersWait
    <2>3. Paid(c)' = Paid(c)
        BY <1>1 DEF Paid, Owes
    <2> QED
        BY <1>2, <1>4, <2>2, <2>3, WriteTurnOwed
<1> QED
    BY <1>3, <1>4 DEF ReceiveError

LEMMA CallOwed ==
    ASSUME TypeInv, ClientsOwed, NEW c \in Clients, NEW x \in Addr,
           \/ \E cmd \in Cmd : wor_capture_and_write(c, x, cmd)
           \/ wor_read(c, x)
    PROVE  ClientsOwed'
<1>1. /\ UNCHANGED <<net, aspace, cspace, captureRow, pending>>
      /\ \A d \in Clients \ {c} : pc'[d] = pc[d] /\ call'[d] = call[d]
      /\ pc'[c] \in {"idle", "capture_send"}
    BY DEF wor_capture_and_write, wor_read, Called, Start, netVars,
       acceptorVars, spaceVars, rowVars, TypeInv, ControlTyped
<1>2. OthersOwed(c)
    BY <1>1, ClientOwesOthers
<1> QED
    BY <1>1, <1>2
    DEF ClientsOwed, CapturesOwn, OthersOwed, CaptureOwed, WriteOwed

LEMMA InitOwed == Init => ClientsOwed
<1>1. Init => BagToSet(net) = {}
    BY DEF Init, EmptyBag, BagToSet, SetToBag
<1> QED
    BY <1>1 DEF Init, ClientsOwed, CapturesOwn, CaptureOwed, WriteOwed

LEMMA NextOwed ==
    TypeInv /\ IInv /\ CallsInv /\ ClientsOwed /\ [Next]_vars => ClientsOwed'
<1> SUFFICES ASSUME TypeInv, IInv, CallsInv, ClientsOwed, [Next]_vars
             PROVE  ClientsOwed'
    OBVIOUS
<1>1. TypeInv'
    BY NextTyped
<1>2. CASE UNCHANGED vars
    <2>1. UNCHANGED <<net, aspace, cspace, captureRow, pc, call, pending>>
        BY <1>2 DEF vars, netVars, acceptorVars, clientVars, spaceVars,
           rowVars, controlVars
    <2>2. ASSUME NEW c \in Clients
          PROVE  CaptureOwed(c)' /\ (NumAcceptors <= 4 => WriteOwed(c))'
        <3>1. \A a \in Acceptors : Owes(a, c) => Owes(a, c)'
            BY <2>1 DEF Owes
        <3>2. \A a \in Acceptors : OwesFirst(a, c) => OwesFirst(a, c)'
            BY <2>1 DEF OwesFirst
        <3>3. CaptureOwed(c) /\ (NumAcceptors <= 4 => WriteOwed(c))
            BY DEF ClientsOwed
        <3> QED
            BY <2>1, <3>1, <3>2, <3>3, OwedKept
    <2> QED
        BY <2>1, <2>2 DEF ClientsOwed, CapturesOwn
<1>3. CASE \E a \in Up : acceptor_msg_handler(a)
    BY <1>3, UpAssumption, HandleCaptureOwed, HandleAcceptOwed
    DEF acceptor_msg_handler
<1>4. ASSUME NEW c \in Clients, ClientStep(c)
      PROVE  ClientsOwed'
    <2>1. CASE \/ \E x \in Addr, cmd \in Cmd : wor_capture_and_write(c, x, cmd)
               \/ \E x \in Addr : wor_read(c, x)
        BY <2>1, CallOwed
    <2>2. CASE wor_capture_send(c)
        BY <1>1, <2>2, CaptureSendOwed
    <2>3. CASE wor_write_send(c)
        BY <1>1, <2>3, WriteSendOwed
    <2>4. CASE client_receive(c)
        BY <1>1, <2>4, CaptureReceiveOwed, WriteReceiveOwed
        DEF client_receive
    <2>5. CASE ReceiveError(c)
        BY <1>1, <2>5, ReceiveErrorOwed
    <2> QED
        BY <1>4, <2>1, <2>2, <2>3, <2>4, <2>5 DEF ClientStep
<1> QED
    BY <1>2, <1>3, <1>4 DEF Next

(***************************************************************************)
(* In every reachable state a client in its capture loop is owed as many   *)
(* answers as the loop has turns left; so is one in its write loop, with   *)
(* three or four acceptors.                                                *)
(***************************************************************************)
THEOREM OwedInvariance == Spec => []ClientsOwed
<1>1. Init => ClientsOwed
    BY InitOwed
<1>2. TypeInv /\ IInv /\ CallsInv /\ ClientsOwed /\ [Next]_vars
        => ClientsOwed'
    BY NextOwed
<1> QED
    BY <1>1, <1>2, CallsInvariance, PTL DEF Spec

\* The acceptors that owe nothing are not all of them while a turn is left.
LEMMA SomeOwe ==
    ASSUME NEW S \in SUBSET Acceptors, NEW n \in Nat, NEW left \in Nat,
           left > 0, n + Cardinality(S) + left <= NumAcceptors
    PROVE  \E a \in Acceptors : a \notin S
<1>1. NumAcceptors \in Nat
    BY AcceptorsAssumption DEF MIN_ACCEPTORS, MAX_ACCEPTORS
<1>2. Cardinality(Acceptors) = NumAcceptors
    BY <1>1, FS_Interval DEF Acceptors
<1>3. Cardinality(S) \in Nat
    BY AcceptorSets
<1> QED
    BY <1>1, <1>2, <1>3

LEMMA CaptureAnswered ==
    ASSUME TypeInv, ClientsOwed, NEW c \in Clients, pc[c] = "capture_receive"
    PROVE  \E m \in BagToSet(net) : m.client = c
<1>1. Cardinality(Counted(c)) \in Nat
    BY CountedTyped, AcceptorSets
<1>2. pending[c] \in Nat /\ pending[c] > 0
    BY AcceptorsAssumption
    DEF TypeInv, ControlTyped, Receiving, MIN_ACCEPTORS, MAX_ACCEPTORS
<1>3. \E a \in Acceptors : a \notin PaidFirst(c)
    BY <1>1, <1>2, SomeOwe DEF ClientsOwed, CaptureOwed, PaidFirst
<1> QED
    BY <1>3 DEF PaidFirst, OwesFirst

LEMMA WriteAnswered ==
    ASSUME TypeInv, ClientsOwed, NumAcceptors <= 4,
           NEW c \in Clients, pc[c] = "write_receive"
    PROVE  \E m \in BagToSet(net) : m.client = c
<1>1. pending[c] \in Nat /\ pending[c] > 0
    BY AcceptorsAssumption
    DEF TypeInv, ControlTyped, Receiving, MIN_ACCEPTORS, MAX_ACCEPTORS
<1>2. Cardinality(Paid(c)) \in Nat
    BY AcceptorSets DEF Paid
<1>3. 0 + Cardinality(Paid(c)) + pending[c] <= NumAcceptors
    BY <1>2 DEF ClientsOwed, WriteOwed
<1>4. \E a \in Acceptors : a \notin Paid(c)
    BY <1>1, <1>3, SomeOwe DEF Paid
<1> QED
    BY <1>4 DEF Paid, Owes

(***************************************************************************)
(* recvfrom never blocks a client for good while every acceptor runs and   *)
(* no datagram is lost, with three or four acceptors (both programs set    *)
(* three), however many datagrams are duplicated and ACCEPTs dropped.      *)
(***************************************************************************)
THEOREM NobodyStarves ==
    ASSUME NumAcceptors <= 4
    PROVE  Spec => []NeverStarved
<1>1. TypeInv /\ ClientsOwed => NeverStarved
    BY CaptureAnswered, WriteAnswered DEF NeverStarved
<1> QED
    BY <1>1, CallsInvariance, OwedInvariance, PTL

\* As many acceptors owe c an answer as its capture loop has turns left.
LEMMA TurnsOwed ==
    ASSUME TypeInv, ClientsOwed, NEW c \in Clients, pc[c] = "capture_receive"
    PROVE  pending[c] \in 1 .. Cardinality(Owing(c))
<1>1. /\ NumAcceptors \in Nat
      /\ pending[c] \in Nat /\ pending[c] > 0
    BY AcceptorsAssumption
    DEF TypeInv, ControlTyped, Receiving, MIN_ACCEPTORS, MAX_ACCEPTORS
<1>2. /\ IsFiniteSet(Acceptors)
      /\ Cardinality(Acceptors) = NumAcceptors
    BY <1>1, FS_Interval DEF Acceptors
<1>3. /\ Cardinality(Counted(c)) \in Nat
      /\ Cardinality(PaidFirst(c)) + pending[c] <= NumAcceptors
    <2>1. Cardinality(Counted(c)) \in Nat /\ Cardinality(PaidFirst(c)) \in Nat
        BY CountedTyped, AcceptorSets DEF PaidFirst
    <2> QED
        BY <1>1, <2>1 DEF ClientsOwed, CaptureOwed
<1>4. Acceptors \ PaidFirst(c) \subseteq Owing(c)
    BY DEF PaidFirst, Owing, OwesFirst, Owes
<1>5. Cardinality(Acceptors \ PaidFirst(c))
        = NumAcceptors - Cardinality(PaidFirst(c))
    <2>1. Acceptors \cap PaidFirst(c) = PaidFirst(c)
        BY DEF PaidFirst
    <2> QED
        BY <1>2, <2>1, FS_Difference
<1>6. Cardinality(Acceptors \ PaidFirst(c)) <= Cardinality(Owing(c))
    BY <1>4, SmallerSet DEF Owing
<1>7. Cardinality(Owing(c)) \in Nat /\ Cardinality(PaidFirst(c)) \in Nat
    BY AcceptorSets DEF Owing, PaidFirst
<1> QED
    BY <1>1, <1>3, <1>5, <1>6, <1>7

(***************************************************************************)
(* The capture loop alone: with any number of acceptors, all of them       *)
(* running, at least as many of them as the loop of wor_capture_receive    *)
(* has turns left have a CAPTURE of the client to answer, or an answer to  *)
(* it in transit.  With one of them down this is not so, and the loop may  *)
(* wait for ever.                                                          *)
(***************************************************************************)
THEOREM CapturesAnswered ==
    ASSUME Up = Acceptors
    PROVE  Spec => [](\A c \in Clients : pc[c] = "capture_receive"
                        => pending[c] \in 1 .. Cardinality(Owing(c) \cap Up))
<1>1. ASSUME TypeInv, ClientsOwed, NEW c \in Clients,
             pc[c] = "capture_receive"
      PROVE  pending[c] \in 1 .. Cardinality(Owing(c) \cap Up)
    <2>1. Owing(c) \cap Up = Owing(c)
        BY DEF Owing
    <2> QED
        BY <1>1, <2>1, TurnsOwed
<1>2. TypeInv /\ ClientsOwed =>
        \A c \in Clients : pc[c] = "capture_receive"
            => pending[c] \in 1 .. Cardinality(Owing(c) \cap Up)
    BY <1>1
<1> QED
    BY <1>2, CallsInvariance, OwedInvariance, PTL
-----------------------------------------------------------------------------
(***************************************************************************)
(* A client alone, while the network has duplicated nothing (AloneInv).    *)
(***************************************************************************)
\* A datagram of which there is one copy is gone when it is received.
LEMMA ReceiveOnce ==
    ASSUME NetTyped, faults' = 0, NEW m \in BagToSet(net), net[m] = 1,
           NEW sent, sent \cap BagToSet(net) = {}, Receive(m, sent)
    PROVE  /\ BagToSet(net') = (BagToSet(net) \ {m}) \cup sent
           /\ \A k \in BagToSet(net) \ {m} : net'[k] = net[k]
           /\ \A k \in sent : net'[k] = 1
           /\ UNCHANGED faults
<1> DEFINE rest == net (-) SetToBag({m})
<1>1. net' = rest (+) SetToBag(sent) /\ UNCHANGED faults
    BY BoundsAssumption DEF NetTyped, Receive
<1>2. /\ BagToSet(rest) = BagToSet(net) \ {m}
      /\ \A k \in BagToSet(net) \ {m} : rest[k] = net[k]
      /\ \A k \in BagToSet(net) : net[k] \in Nat
    BY DEF NetTyped, IsABag, BagToSet, (-), SetToBag
<1> HIDE DEF rest
<1>3. BagToSet(net') = BagToSet(rest) \cup sent
    BY <1>1 DEF BagToSet, (+), SetToBag
<1>4. ASSUME NEW k \in BagToSet(net) \ {m} PROVE net'[k] = net[k]
    BY <1>1, <1>2 DEF BagToSet, (+), SetToBag
<1>5. ASSUME NEW k \in sent PROVE net'[k] = 1
    BY <1>1, <1>2 DEF BagToSet, (+), SetToBag
<1> QED
    BY <1>1, <1>2, <1>3, <1>4, <1>5

\* Every datagram in transit is an answer owed to the only client.
LEMMA AllOwed ==
    ASSUME TypeInv, NEW c \in Clients, \A d \in Clients : d = c,
           CapturesInVain(c), NEW m \in BagToSet(net)
    PROVE  /\ m.type \in {"CAPTURE", "CAPTURE_ACK"}
           /\ m.client = c
           /\ Answerer(m) \in Owing(c)
           /\ m.type = "CAPTURE" => m \in Request
           /\ m.type = "CAPTURE_ACK" => m \in Ack
<1>1. m \in Message /\ OnlyAnswer(c, m)
    BY DEF TypeInv, NetTyped, CapturesInVain
<1>2. m.type \in {"CAPTURE", "CAPTURE_ACK"}
    BY <1>1 DEF OnlyAnswer
<1>3. /\ m.type = "CAPTURE" => m \in Request
      /\ m.type = "CAPTURE_ACK" => m \in Ack
    BY <1>1, MessageTypes
<1>4. m.client = c /\ Answerer(m) \in Acceptors
    BY <1>2, <1>3 DEF Request, Ack, Answerer
<1>5. Owes(Answerer(m), c)
    BY <1>2, <1>4 DEF Owes, Answerer
<1> QED
    BY <1>2, <1>3, <1>4, <1>5 DEF Owing

LEMMA NothingInTransit ==
    ASSUME TypeInv, NEW c \in Clients, \A d \in Clients : d = c,
           CapturesInVain(c), pc[c] # "capture_receive"
    PROVE  BagToSet(net) = {}
<1>1. Owing(c) \in SUBSET Acceptors /\ Cardinality(Owing(c)) <= 0
    BY DEF Owing, CapturesInVain
<1>2. Owing(c) = {}
    BY <1>1, AcceptorSets, FS_EmptySet
<1> QED
    BY <1>2, AllOwed

LEMMA NothingOwed ==
    ASSUME NEW c \in Clients, BagToSet(net) = {}
    PROVE  Owing(c) = {} /\ Cardinality(Owing(c)) = 0
BY FS_EmptySet DEF Owing, Owes

\* A capture round that fails leaves the client between two rounds, or answers
\* TIMEOUT or ERROR.
LEMMA FailedRound ==
    ASSUME TypeInv, NEW c \in Clients, NEW st \in {"PREEMPTED", "ERROR"},
           NEW cmd, CaptureRoundEnds(c, st, cmd),
           status[c] \notin {"OK", "ALREADYWRITTEN", "UNWRITTEN"}
    PROVE  /\ UNCHANGED call
           /\ pc'[c] \in {"idle", "capture_send"}
           /\ status'[c] \notin {"OK", "ALREADYWRITTEN", "UNWRITTEN"}
<1>1. ASSUME NEW s \in {"TIMEOUT", "ERROR"}, Returns(c, s, cmd)
      PROVE  /\ UNCHANGED call
             /\ pc'[c] \in {"idle", "capture_send"}
             /\ status'[c] \notin {"OK", "ALREADYWRITTEN", "UNWRITTEN"}
    <2>1. Ends(c, s, UndefCmd) /\ UNCHANGED call
        BY <1>1, FailureEnds, ReturnsEnds
    <2> QED
        BY <2>1 DEF Ends, TypeInv, ControlTyped
<1>2. CASE /\ pc' = [pc EXCEPT ![c] = "capture_send"]
           /\ UNCHANGED <<call, status>>
    BY <1>2 DEF TypeInv, ControlTyped
<1> QED
    BY <1>1, <1>2 DEF CaptureRoundEnds
-----------------------------------------------------------------------------
LEMMA HandleCaptureAlone ==
    ASSUME TypeInv, faults' = 0, NEW c \in Clients, \A d \in Clients : d = c,
           CapturesInVain(c), NEW a \in Acceptors, NEW m \in BagToSet(net),
           HandleCapture(a, m)
    PROVE  CapturesInVain(c)'
<1> DEFINE ack == [type |-> "CAPTURE_ACK", client |-> m.client, from |-> a,
                   addr |-> m.addr, prop |-> aspace[a][m.addr].prop,
                   vprop |-> aspace[a][m.addr].vprop,
                   vcmd |-> aspace[a][m.addr].vcmd]
           x == call[c].addr
           p == cspace[c][x].prop
<1>1. /\ m.type = "CAPTURE" /\ m.to = a
      /\ UNCHANGED <<pc, call, captureRow, pending, cspace, written, status>>
    BY DEF HandleCapture, clientVars, spaceVars, rowVars, controlVars
<1>2. m \in Request /\ m.client = c
    BY <1>1, AllOwed
<1>3. OnlyAnswer(c, m) /\ Answerer(m) = a
    BY <1>1 DEF CapturesInVain, Answerer
<1>4. m.addr = x /\ m.prop = p /\ aspace[a][x].prop < p /\ x \in Addr
    BY <1>1, <1>2, <1>3 DEF OnlyAnswer, Request
<1>5. Answerer(ack) = a /\ ack.type = "CAPTURE_ACK" /\ ack # m
    BY <1>1 DEF Answerer
<1>6. ack \notin BagToSet(net)
    BY <1>3, <1>5 DEF OnlyAnswer
<1>7. Receive(m, {ack})
    BY DEF HandleCapture, CaptureAnswer
<1>8. /\ BagToSet(net') = (BagToSet(net) \ {m}) \cup {ack}
      /\ \A k \in BagToSet(net) \ {m} : net'[k] = net[k]
      /\ net'[ack] = 1
    <2>1. NetTyped /\ net[m] = 1 /\ {ack} \cap BagToSet(net) = {}
        BY <1>3, <1>6 DEF OnlyAnswer, TypeInv
    <2> HIDE DEF ack
    <2> QED
        BY <1>7, <2>1, ReceiveOnce
<1>9. /\ aspace'[a][x].prop = p
      /\ \A b \in Acceptors, y \in Addr :
            b # a \/ y # x => aspace'[b][y] = aspace[b][y]
    BY <1>4 DEF HandleCapture, TypeInv, AcceptorsTyped, Entry
<1>10. \A y \in Addr : \A b \in Acceptors :
            aspace'[b][y].prop <= cspace'[c][y].prop
    BY <1>1, <1>4, <1>9, ClientsAssumption
    DEF CapturesInVain, TypeInv, SpacesTyped, Entry, Proposal
<1>11. ASSUME NEW k \in BagToSet(net) \ {m} PROVE Answerer(k) # a
    BY <1>3, <1>11 DEF OnlyAnswer
<1>12. ASSUME NEW k \in BagToSet(net') PROVE OnlyAnswer(c, k)'
    <2>1. CASE k = ack
        BY <1>1, <1>4, <1>5, <1>8, <1>11, <2>1 DEF OnlyAnswer, Answerer
    <2>2. CASE k \in BagToSet(net) \ {m}
        <3>1. OnlyAnswer(c, k)
            BY <2>2 DEF CapturesInVain
        <3>2. k.type = "CAPTURE" => k.to \in Acceptors /\ k.to # a
            BY <1>11, <2>2, AllOwed DEF Answerer, Request
        <3>3. k.type = "CAPTURE" =>
                aspace'[k.to][k.addr] = aspace[k.to][k.addr]
            BY <1>4, <1>9, <2>2, <3>1, <3>2 DEF OnlyAnswer
        <3>4. \A l \in BagToSet(net') : Answerer(l) = Answerer(k) => l = k
            BY <1>5, <1>8, <1>11, <2>2, <3>1 DEF OnlyAnswer
        <3> QED
            BY <1>1, <1>8, <2>2, <3>1, <3>3, <3>4 DEF OnlyAnswer, Answerer
    <2> QED
        BY <1>8, <2>1, <2>2
<1>13. Owing(c)' \subseteq Owing(c)
    <2>1. \A b \in Acceptors : Owes(b, c)' => Owes(b, c)
        BY <1>1, <1>2, <1>8 DEF Owes
    <2> QED
        BY <2>1 DEF Owing
<1>14. Cardinality(Owing(c)') <= Cardinality(Owing(c))
    BY <1>13, SmallerSet DEF Owing
<1>15. /\ Cardinality(Owing(c)) \in Nat /\ Cardinality(Owing(c)') \in Nat
       /\ pending[c] \in Int
    BY AcceptorSets DEF Owing, TypeInv, ControlTyped
<1> QED
    BY <1>1, <1>10, <1>12, <1>14, <1>15 DEF CapturesInVain

\* What a step of the client leaves alone when it does not send.
LEMMA SilentAlone ==
    ASSUME NEW c \in Clients, CapturesInVain(c), TypeInv,
           BagToSet(net') \subseteq BagToSet(net),
           \A m \in BagToSet(net') : net'[m] = net[m],
           UNCHANGED <<aspace, written, call>>,
           \A x \in Addr : /\ captureRow'[c][x] = {}
                           /\ cspace'[c][x].prop = cspace[c][x].prop,
           pc'[c] \in {"idle", "capture_send", "capture_receive"},
           status'[c] \notin {"OK", "ALREADYWRITTEN", "UNWRITTEN"},
           Cardinality(Owing(c)')
                <= IF pc'[c] = "capture_receive" THEN pending'[c] ELSE 0
    PROVE  CapturesInVain(c)'
<1>1. ASSUME NEW m \in BagToSet(net') PROVE OnlyAnswer(c, m)'
    <2>1. OnlyAnswer(c, m) /\ m.addr \in Addr
        BY DEF CapturesInVain, TypeInv, NetTyped, Message, Request, Ack
    <2> QED
        BY <2>1 DEF OnlyAnswer, Answerer
<1>2. \A x \in Addr : ~written'[c][x]
    BY DEF CapturesInVain
<1>3. \A x \in Addr : \A a \in Acceptors :
        aspace'[a][x].prop <= cspace'[c][x].prop
    BY DEF CapturesInVain
<1> QED
    BY <1>1, <1>2, <1>3 DEF CapturesInVain

LEMMA NothingOwedNext ==
    ASSUME NEW c \in Clients, BagToSet(net') = {}
    PROVE  Cardinality(Owing(c)') = 0
<1>1. Owing(c)' = {}
    BY DEF Owing, Owes
<1> QED
    BY <1>1, FS_EmptySet

LEMMA CallAlone ==
    ASSUME TypeInv, NEW c \in Clients, \A d \in Clients : d = c,
           CapturesInVain(c),
           \/ \E x \in Addr, cmd \in Cmd : wor_capture_and_write(c, x, cmd)
           \/ \E x \in Addr : wor_read(c, x)
    PROVE  CapturesInVain(c)' /\ UNCHANGED votes
<1>1. PICK operation : Called(c, operation)
    BY DEF wor_capture_and_write, wor_read
<1>2. Start(c)
    BY DEF wor_capture_and_write, wor_read, CapturesInVain
<1>3. /\ pc[c] = "idle"
      /\ UNCHANGED <<net, aspace, votes, cspace, written, captureRow>>
    BY <1>1 DEF Called, netVars, acceptorVars, spaceVars, rowVars
<1>4. pc'[c] = "capture_send" /\ status'[c] = "none"
    BY <1>2 DEF Start, TypeInv, ControlTyped
<1>5. BagToSet(net') = {}
    BY <1>3, NothingInTransit
<1> QED
    BY <1>3, <1>4, <1>5, NothingOwedNext DEF CapturesInVain

LEMMA CaptureSendAlone ==
    ASSUME TypeInv, NEW c \in Clients, \A d \in Clients : d = c,
           CapturesInVain(c), wor_capture_send(c)
    PROVE  CapturesInVain(c)' /\ UNCHANGED votes
<1> DEFINE x == call[c].addr
           old == cspace[c][x]
           prop == wor_get_next_proposal(c, x)
           sent == [type : {"CAPTURE"}, client : {c}, to : Acceptors,
                    addr : {x}, prop : {prop}, vprop : {PROP_UNDEF},
                    vcmd : {UndefCmd}]
<1>1. /\ x \in Addr /\ pc[c] = "capture_send"
      /\ UNCHANGED <<aspace, votes>>
    BY DEF wor_capture_send, TypeInv, ControlTyped, Call, acceptorVars
<1>2. BagToSet(net) = {}
    BY <1>1, NothingInTransit
<1>3. /\ UNCHANGED written
      /\ captureRow' = [captureRow EXCEPT ![c][x] = RowReset(@)]
    BY <1>1 DEF wor_capture_send, CapturesInVain
<1>4. \A y \in Addr : captureRow'[c][y] = {}
    BY <1>1, <1>3 DEF CapturesInVain, TypeInv, RowsTyped, RowReset
<1>5. CASE /\ cspace' = [cspace EXCEPT ![c][x] =
                            [EmptyEntry EXCEPT !.prop = old.prop]]
           /\ CaptureRoundEnds(c, "ERROR", UndefCmd)
           /\ UNCHANGED netVars
    <2>1. \A y \in Addr : cspace'[c][y].prop = cspace[c][y].prop
        BY <1>1, <1>5 DEF TypeInv, SpacesTyped, EmptyEntry
    <2>2. /\ UNCHANGED call
          /\ pc'[c] \in {"idle", "capture_send"}
          /\ status'[c] \notin {"OK", "ALREADYWRITTEN", "UNWRITTEN"}
        BY <1>5, FailedRound DEF CapturesInVain
    <2>3. UNCHANGED net /\ Cardinality(Owing(c)') = 0
        BY <1>2, <1>5, NothingOwedNext DEF netVars
    <2> QED
        BY <1>1, <1>3, <1>4, <2>1, <2>2, <2>3, SilentAlone
<1>6. CASE /\ prop # PROP_UNDEF
           /\ cspace' = [cspace EXCEPT ![c][x] =
                            [EmptyEntry EXCEPT !.prop = prop]]
           /\ Broadcast(sent)
           /\ pc' = [pc EXCEPT ![c] = "capture_receive"]
           /\ pending' = [pending EXCEPT ![c] = NumAcceptors]
           /\ UNCHANGED <<call, retries, attempts, status, readCmd>>
    <2>1. prop \in Nat /\ old.prop \in Nat /\ prop > old.prop
        BY <1>1, <1>6, NewProposal DEF TypeInv
    <2> HIDE DEF prop
    <2>2. /\ BagToSet(net') = sent
          /\ \A k \in sent : net'[k] = 1
        <3>1. net' = net (+) SetToBag(sent)
            BY <1>6 DEF Broadcast
        <3> HIDE DEF sent
        <3> QED
            BY <1>2, <3>1 DEF BagToSet, (+), SetToBag
    <2>3. /\ cspace'[c][x].prop = prop
          /\ \A y \in Addr \ {x} : cspace'[c][y] = cspace[c][y]
        BY <1>1, <1>6 DEF TypeInv, SpacesTyped, EmptyEntry
    <2>4. \A y \in Addr : \A a \in Acceptors :
            aspace[a][y].prop \in Nat /\ aspace[a][y].prop <= cspace[c][y].prop
        BY ClientsAssumption
        DEF CapturesInVain, TypeInv, AcceptorsTyped, Entry, Proposal
    <2>5. \A y \in Addr : \A a \in Acceptors :
            aspace'[a][y].prop <= cspace'[c][y].prop
        BY <1>1, <2>1, <2>3, <2>4
    <2>6. ASSUME NEW k \in BagToSet(net') PROVE OnlyAnswer(c, k)'
        <3>1. /\ k.type = "CAPTURE" /\ k.addr = x /\ k.prop = prop
              /\ k.to \in Acceptors
            BY <2>2
        <3>2. aspace'[k.to][x].prop < prop
            BY <1>1, <2>1, <2>4, <3>1
        <3>3. \A l \in sent : l.to = k.to => l = k
            BY <2>2
        <3>4. \A l \in sent : l.type = "CAPTURE"
            OBVIOUS
        <3> QED
            BY <1>6, <2>2, <2>3, <3>1, <3>2, <3>3, <3>4
            DEF OnlyAnswer, Answerer
    <2>7. /\ pc'[c] = "capture_receive" /\ pending'[c] = NumAcceptors
          /\ status'[c] = status[c]
        BY <1>6 DEF TypeInv, ControlTyped
    <2>8. Cardinality(Owing(c)') <= NumAcceptors
        BY AcceptorSets, AcceptorsAssumption
        DEF Owing, MIN_ACCEPTORS, MAX_ACCEPTORS
    <2> QED
        BY <1>1, <1>3, <1>4, <2>5, <2>6, <2>7, <2>8 DEF CapturesInVain
<1>7. ~written[c][x]
    BY <1>1 DEF CapturesInVain
<1> QED
    BY <1>5, <1>6, <1>7 DEF wor_capture_send

LEMMA CaptureReceiveAlone ==
    ASSUME TypeInv, faults' = 0, NEW c \in Clients, \A d \in Clients : d = c,
           CapturesInVain(c), NEW m \in BagToSet(net),
           m.type \in {"CAPTURE_ACK", "ACCEPT_ACK"}, wor_capture_receive(c, m)
    PROVE  CapturesInVain(c)' /\ UNCHANGED votes
<1> DEFINE x == call[c].addr
           left == pending[c] - 1
<1>1. /\ pc[c] = "capture_receive" /\ Receive(m, {})
      /\ UNCHANGED <<aspace, votes, written>>
    BY DEF wor_capture_receive, acceptorVars
<1>2. x \in Addr
    BY <1>1 DEF TypeInv, ControlTyped, Call
<1>3. /\ m.type = "CAPTURE_ACK" /\ m \in Ack
      /\ m.from \in Owing(c) /\ m.client = c
    BY AllOwed DEF Answerer
<1>4. /\ OnlyAnswer(c, m)
      /\ m.addr = x /\ m.prop < cspace[c][x].prop
      /\ Answerer(m) = m.from
    BY <1>3 DEF CapturesInVain, OnlyAnswer, Answerer
<1>5. m.prop \in Nat /\ cspace[c][x].prop \in Nat
    BY <1>2, <1>3, ClientsAssumption
    DEF Ack, TypeInv, SpacesTyped, Entry, Proposal
<1>6. ~Current(c, m) /\ ~Overtakes(c, m)
    BY <1>4, <1>5 DEF Current, Overtakes
<1>7. UNCHANGED <<captureRow, cspace>> /\ CaptureLoop(c, "OK")
    BY <1>6 DEF wor_capture_receive
<1>8. ~IsQuorum(captureRow'[c][x])
    <2>1. captureRow'[c][x] \cap RowIndices = {}
        BY <1>2, <1>7 DEF CapturesInVain
    <2> QED
        BY <2>1, FS_EmptySet, AcceptorsAssumption
        DEF IsQuorum, MIN_ACCEPTORS, MAX_ACCEPTORS
<1>9. /\ BagToSet(net') = BagToSet(net) \ {m}
      /\ \A k \in BagToSet(net') : net'[k] = net[k]
    <2>1. /\ BagToSet(net') = (BagToSet(net) \ {m}) \cup {}
          /\ \A k \in BagToSet(net) \ {m} : net'[k] = net[k]
        BY <1>1, <1>4, ReceiveOnce DEF OnlyAnswer, TypeInv
    <2> QED
        BY <2>1
<1>10. Owing(c)' \subseteq Owing(c) \ {m.from}
    <2>1. ASSUME NEW a \in Acceptors, Owes(a, c)'
          PROVE  Owes(a, c) /\ a # m.from
        <3>1. PICK k \in BagToSet(net') :
                /\ k.client = c
                /\ \/ k.type = "CAPTURE" /\ k.to = a
                   \/ k.type = "CAPTURE_ACK" /\ k.from = a
            BY <2>1 DEF Owes
        <3>2. k \in BagToSet(net) /\ k # m /\ Answerer(k) = a
            BY <1>9, <3>1 DEF Answerer
        <3> QED
            BY <1>4, <3>1, <3>2 DEF Owes, OnlyAnswer
    <2> QED
        BY <2>1 DEF Owing
<1>11. Cardinality(Owing(c)') <= left
    <2>1. /\ IsFiniteSet(Owing(c)) /\ Cardinality(Owing(c)) \in Nat
          /\ Cardinality(Owing(c)) <= pending[c]
        BY <1>1, AcceptorSets DEF Owing, CapturesInVain
    <2>2. Cardinality(Owing(c) \ {m.from}) = Cardinality(Owing(c)) - 1
        BY <1>3, <2>1, FS_RemoveElement
    <2>3. Cardinality(Owing(c)') <= Cardinality(Owing(c) \ {m.from})
        BY <1>10, SmallerSet DEF Owing
    <2>4. pending[c] \in Int /\ Cardinality(Owing(c)') \in Int
        BY AcceptorSets DEF Owing, TypeInv, ControlTyped
    <2> QED
        BY <2>1, <2>2, <2>3, <2>4
<1>12. \A y \in Addr : /\ captureRow'[c][y] = {}
                       /\ cspace'[c][y].prop = cspace[c][y].prop
    BY <1>7 DEF CapturesInVain
<1>13. CASE /\ pending' = [pending EXCEPT ![c] = left]
            /\ UNCHANGED <<pc, call, retries, attempts, status, readCmd>>
    <2>1. pending'[c] = left
        BY <1>13 DEF TypeInv, ControlTyped
    <2>2. status'[c] \notin {"OK", "ALREADYWRITTEN", "UNWRITTEN"}
        BY <1>13 DEF CapturesInVain
    <2> QED
        BY <1>1, <1>9, <1>11, <1>12, <1>13, <2>1, <2>2, SilentAlone
<1>14. CASE left = 0 /\ CaptureRoundEnds(c, "PREEMPTED", cspace'[c][x].vcmd)
    <2>1. /\ UNCHANGED call
          /\ pc'[c] \in {"idle", "capture_send"}
          /\ status'[c] \notin {"OK", "ALREADYWRITTEN", "UNWRITTEN"}
        BY <1>14, FailedRound DEF CapturesInVain
    <2> QED
        BY <1>1, <1>9, <1>11, <1>12, <1>14, <2>1, SilentAlone
<1> QED
    BY <1>7, <1>8, <1>13, <1>14 DEF CaptureLoop

LEMMA ClientAlone ==
    ASSUME TypeInv, faults' = 0, NEW c \in Clients, \A d \in Clients : d = c,
           CapturesInVain(c), ClientStep(c)
    PROVE  CapturesInVain(c)' /\ UNCHANGED votes
<1>1. pc[c] \notin {"write_send", "write_receive"}
    BY DEF CapturesInVain
<1>2. ~wor_write_send(c) /\ \A m : ~wor_write_receive(c, m)
    BY <1>1 DEF wor_write_send, wor_write_receive
<1>3. ~ReceiveError(c)
    BY BoundsAssumption DEF ReceiveError, TypeInv, NetTyped
<1>4. CASE client_receive(c)
    BY <1>2, <1>4, CaptureReceiveAlone DEF client_receive
<1> QED
    BY <1>2, <1>3, <1>4, CallAlone, CaptureSendAlone DEF ClientStep

\* A fault is never forgotten.
LEMMA FaultsStay ==
    ASSUME TypeInv, [Next]_vars, faults' = 0
    PROVE  faults = 0
<1>1. ASSUME faults' = faults + 1 PROVE faults = 0
    BY <1>1, BoundsAssumption DEF TypeInv, NetTyped
<1>2. ASSUME NEW m, NEW sent, Receive(m, sent) PROVE faults = 0
    BY <1>1, <1>2 DEF Receive
<1>3. CASE \E a \in Up : acceptor_msg_handler(a)
    BY <1>2, <1>3
    DEF acceptor_msg_handler, HandleCapture, HandleAccept
<1>4. ASSUME NEW c \in Clients, ClientStep(c) PROVE faults = 0
    <2>1. CASE \/ \E x \in Addr, cmd \in Cmd : wor_capture_and_write(c, x, cmd)
               \/ \E x \in Addr : wor_read(c, x)
        BY <2>1 DEF wor_capture_and_write, wor_read, Called, netVars
    <2>2. CASE wor_capture_send(c) \/ wor_write_send(c)
        BY <2>2 DEF wor_capture_send, wor_write_send, Broadcast, netVars
    <2>3. CASE client_receive(c)
        BY <1>2, <2>3
        DEF client_receive, wor_capture_receive, wor_write_receive
    <2>4. CASE ReceiveError(c)
        BY <1>1, <2>4 DEF ReceiveError
    <2> QED
        BY <1>4, <2>1, <2>2, <2>3, <2>4 DEF ClientStep
<1>5. CASE UNCHANGED vars
    BY <1>5 DEF vars, netVars
<1> QED
    BY <1>3, <1>4, <1>5 DEF Next

LEMMA InitAlone == Init => AloneInv
<1> SUFFICES ASSUME Init, NEW c \in Clients PROVE CapturesInVain(c)
    BY DEF Init, AloneInv
<1>1. BagToSet(net) = {}
    BY DEF Init, EmptyBag, BagToSet, SetToBag
<1>2. Cardinality(Owing(c)) = 0
    BY <1>1, NothingOwed
<1> QED
    BY <1>1, <1>2 DEF Init, CapturesInVain, EmptyEntry, PROP_UNDEF

LEMMA NextAlone == TypeInv /\ AloneInv /\ [Next]_vars => AloneInv'
<1> SUFFICES ASSUME TypeInv, AloneInv, [Next]_vars,
                    faults = 0, faults' = 0, \A c, d \in Clients : c = d
             PROVE  /\ UNCHANGED votes
                    /\ \A c \in Clients : CapturesInVain(c)'
    BY FaultsStay DEF AloneInv
<1>1. \A c \in Clients : CapturesInVain(c)
    BY DEF AloneInv
<1>2. CASE UNCHANGED vars
    <2>1. UNCHANGED <<net, aspace, votes, cspace, written, captureRow, pc,
                      call, pending, status>>
        BY <1>2 DEF vars, netVars, acceptorVars, clientVars, spaceVars,
           rowVars, controlVars
    <2>2. ASSUME NEW c \in Clients PROVE CapturesInVain(c)'
        <3>1. CapturesInVain(c)
            BY <1>1
        <3>2. \A m \in BagToSet(net) : OnlyAnswer(c, m)' = OnlyAnswer(c, m)
            BY <2>1 DEF OnlyAnswer, Answerer
        <3>3. Owing(c)' = Owing(c)
            BY <2>1 DEF Owing, Owes
        <3> QED
            BY <2>1, <3>1, <3>2, <3>3 DEF CapturesInVain
    <2> QED
        BY <2>1, <2>2
<1>3. CASE \E a \in Up : acceptor_msg_handler(a)
    <2>1. PICK a \in Acceptors, m \in BagToSet(net) :
            HandleCapture(a, m) \/ HandleAccept(a, m)
        BY <1>3, UpAssumption DEF acceptor_msg_handler
    <2>2. m.client \in Clients
        BY DEF TypeInv, NetTyped, Message, Request, Ack
    <2>3. m.type \in {"CAPTURE", "CAPTURE_ACK"}
        BY <1>1, <2>2, AllOwed
    <2>4. HandleCapture(a, m)
        BY <2>1, <2>3 DEF HandleAccept
    <2> QED
        BY <1>1, <2>4, HandleCaptureAlone DEF HandleCapture
<1>4. ASSUME NEW c \in Clients, ClientStep(c)
      PROVE  CapturesInVain(c)' /\ UNCHANGED votes
    BY <1>1, <1>4, ClientAlone
<1> QED
    BY <1>2, <1>3, <1>4 DEF Next

(***************************************************************************)
(* A client alone, while no datagram has been duplicated and no reception  *)
(* has failed, never gets a vote, and neither writes nor reads anything.   *)
(***************************************************************************)
THEOREM AloneWritesNothing == Spec => []NothingWrittenAlone
<1>1. Spec => []AloneInv
    <2>1. TypeInv /\ AloneInv /\ [Next]_vars => AloneInv'
        BY NextAlone
    <2> QED
        BY <2>1, InitAlone, CallsInvariance, PTL DEF Spec
<1>2. AloneInv => NothingWrittenAlone
    BY DEF AloneInv, NothingWrittenAlone, CapturesInVain
<1> QED
    BY <1>1, <1>2, PTL
-----------------------------------------------------------------------------
(***************************************************************************)
(* The nested loops of a call run out.                                     *)
(***************************************************************************)
LEMMA FewerAt ==
    ASSUME NEW s, NEW t,
           \/ s[1] < t[1]
           \/ s[1] = t[1] /\ s[2] < t[2]
           \/ s[1] = t[1] /\ s[2] = t[2] /\ s[3] < t[3]
           \/ s[1] = t[1] /\ s[2] = t[2] /\ s[3] = t[3] /\ s[4] < t[4]
    PROVE  Fewer(s, t)
<1>1. ASSUME NEW i \in 1 .. 4, s[i] < t[i],
             \A j \in 1 .. (i - 1) : s[j] = t[j]
      PROVE  Fewer(s, t)
    BY <1>1 DEF Fewer
<1>2. CASE s[1] < t[1]
    BY <1>1, <1>2
<1>3. CASE s[1] = t[1] /\ s[2] < t[2]
    <2>1. \A j \in 1 .. (2 - 1) : s[j] = t[j]
        BY <1>3
    <2> QED
        BY <1>1, <1>3, <2>1
<1>4. CASE s[1] = t[1] /\ s[2] = t[2] /\ s[3] < t[3]
    <2>1. \A j \in 1 .. (3 - 1) : s[j] = t[j]
        BY <1>4
    <2> QED
        BY <1>1, <1>4, <2>1
<1>5. CASE s[1] = t[1] /\ s[2] = t[2] /\ s[3] = t[3] /\ s[4] < t[4]
    <2>1. \A j \in 1 .. (4 - 1) : s[j] = t[j]
        BY <1>5
    <2> QED
        BY <1>1, <1>5, <2>1
<1> QED
    BY <1>2, <1>3, <1>4, <1>5

\* Each step in its way: a loop further out, the sendto loop, or a reception.
LEMMA FewerTurns ==
    ASSUME NEW c \in Clients,
           \/ retries'[c] < retries[c]
           \/ retries'[c] = retries[c] /\ attempts'[c] < attempts[c]
           \/ /\ retries'[c] = retries[c] /\ attempts'[c] = attempts[c]
              /\ pc[c] \in {"capture_send", "write_send"}
              /\ pc'[c] \notin {"capture_send", "write_send"}
           \/ /\ retries'[c] = retries[c] /\ attempts'[c] = attempts[c]
              /\ pc'[c] = pc[c] /\ pending'[c] < pending[c]
    PROVE  Fewer(TurnsLeft(c)', TurnsLeft(c))
<1> DEFINE Sends(l) == IF l \in {"capture_send", "write_send"} THEN 1 ELSE 0
           s == TurnsLeft(c)'
           t == TurnsLeft(c)
<1>1. /\ s[1] = retries'[c] /\ s[2] = attempts'[c]
      /\ s[3] = Sends(pc'[c]) /\ s[4] = pending'[c]
    BY DEF TurnsLeft
<1>2. /\ t[1] = retries[c] /\ t[2] = attempts[c]
      /\ t[3] = Sends(pc[c]) /\ t[4] = pending[c]
    BY DEF TurnsLeft
<1>3. /\ pc[c] \in {"capture_send", "write_send"} => Sends(pc[c]) = 1
      /\ pc'[c] \notin {"capture_send", "write_send"} => Sends(pc'[c]) = 0
      /\ pc'[c] = pc[c] => Sends(pc'[c]) = Sends(pc[c])
    OBVIOUS
<1> HIDE DEF Sends, s, t
<1>4. Fewer(s, t)
    BY <1>1, <1>2, <1>3, FewerAt
<1> QED
    BY <1>4 DEF s, t

LEMMA ReturnsIdle ==
    ASSUME TypeInv, NEW c \in Clients, NEW st, NEW cmd, Returns(c, st, cmd)
    PROVE  pc'[c] = "idle"
BY DEF Returns, WriteReturns, ReadReturns, Idle, TypeInv, ControlTyped

LEMMA CaptureRoundShrinks ==
    ASSUME TypeInv, NEW c \in Clients, NEW st, NEW cmd,
           CaptureRoundEnds(c, st, cmd)
    PROVE  \/ pc'[c] = "idle"
           \/ retries'[c] = retries[c] /\ attempts'[c] < attempts[c]
<1> DEFINE left == attempts[c] - 1
<1>1. CASE \E s : Returns(c, s, cmd)
    BY <1>1, ReturnsIdle
<1>2. CASE /\ left > 0
           /\ \/ attempts' = [attempts EXCEPT ![c] = left]
              \/ attempts' = [attempts EXCEPT ![c] = 0]
           /\ UNCHANGED retries
    BY <1>2, BoundsAssumption DEF TypeInv, ControlTyped
<1> QED
    BY <1>1, <1>2 DEF CaptureRoundEnds

LEMMA CaptureLoopShrinks ==
    ASSUME TypeInv, NEW c \in Clients, NEW st, CaptureLoop(c, st)
    PROVE  pc'[c] = "idle" \/ Fewer(TurnsLeft(c)', TurnsLeft(c))
<1>1. CASE /\ pending' = [pending EXCEPT ![c] = pending[c] - 1]
           /\ UNCHANGED <<pc, call, retries, attempts, status, readCmd>>
    <2>1. pending'[c] < pending[c]
        BY <1>1, AcceptorsAssumption
        DEF TypeInv, ControlTyped, MIN_ACCEPTORS, MAX_ACCEPTORS
    <2> QED
        BY <1>1, <2>1, FewerTurns
<1>2. CASE \E s, cmd : CaptureRoundEnds(c, s, cmd)
    BY <1>2, CaptureRoundShrinks, FewerTurns
<1> QED
    BY <1>1, <1>2 DEF CaptureLoop

LEMMA WriteLoopShrinks ==
    ASSUME TypeInv, NEW c \in Clients, NEW st, WriteLoop(c, st)
    PROVE  pc'[c] = "idle" \/ Fewer(TurnsLeft(c)', TurnsLeft(c))
<1>1. CASE /\ pending' = [pending EXCEPT ![c] = pending[c] - 1]
           /\ UNCHANGED <<pc, call, retries, attempts, status, readCmd>>
    <2>1. pending'[c] < pending[c]
        BY <1>1, AcceptorsAssumption
        DEF TypeInv, ControlTyped, MIN_ACCEPTORS, MAX_ACCEPTORS
    <2> QED
        BY <1>1, <2>1, FewerTurns
<1>2. ASSUME NEW s, NEW cmd, WriteRoundEnds(c, s, cmd)
      PROVE  pc'[c] = "idle" \/ Fewer(TurnsLeft(c)', TurnsLeft(c))
    <2>1. CASE retries' = [retries EXCEPT ![c] = retries[c] - 1]
        <3>1. retries'[c] < retries[c]
            BY <2>1, BoundsAssumption DEF TypeInv, ControlTyped
        <3> QED
            BY <3>1, FewerTurns
    <2>2. CASE \E s1 : Returns(c, s1, cmd)
        BY <2>2, ReturnsIdle
    <2> QED
        BY <1>2, <2>1, <2>2 DEF WriteRoundEnds, Returns
<1> QED
    BY <1>1, <1>2 DEF WriteLoop

LEMMA StepShrinks ==
    ASSUME TypeInv, NEW c \in Clients, Runs(c) \/ ReceiveError(c)
    PROVE  pc'[c] = "idle" \/ Fewer(TurnsLeft(c)', TurnsLeft(c))
<1>1. CASE wor_capture_send(c)
    <2>1. CASE /\ pc[c] = "capture_send"
               /\ pc' = [pc EXCEPT ![c] = "capture_receive"]
               /\ UNCHANGED <<call, retries, attempts, status, readCmd>>
        BY <2>1, FewerTurns DEF TypeInv, ControlTyped
    <2>2. CASE \E s, cmd : CaptureRoundEnds(c, s, cmd)
        BY <2>2, CaptureRoundShrinks, FewerTurns
    <2> QED
        BY <1>1, <2>1, <2>2 DEF wor_capture_send
<1>2. CASE wor_write_send(c)
    <2>1. CASE /\ pc[c] = "write_send"
               /\ pc' = [pc EXCEPT ![c] = "write_receive"]
               /\ UNCHANGED <<call, retries, attempts, status, readCmd>>
        BY <2>1, FewerTurns DEF TypeInv, ControlTyped
    <2>2. CASE ReadReturns(c, "UNWRITTEN", UndefCmd)
        BY <2>2, ReturnsIdle DEF Returns
    <2> QED
        BY <1>2, <2>1, <2>2 DEF wor_write_send
<1>3. CASE client_receive(c)
    <2>1. PICK m : wor_capture_receive(c, m) \/ wor_write_receive(c, m)
        BY <1>3 DEF client_receive
    <2>2. \E st : CaptureLoop(c, st) \/ WriteLoop(c, st)
        BY <2>1 DEF wor_capture_receive, wor_write_receive
    <2> QED
        BY <2>2, CaptureLoopShrinks, WriteLoopShrinks
<1>4. CASE ReceiveError(c)
    BY <1>4, CaptureLoopShrinks, WriteLoopShrinks DEF ReceiveError
<1> QED
    BY <1>1, <1>2, <1>3, <1>4 DEF Runs

(***************************************************************************)
(* Every step of a client in a call, also one that a failed reception      *)
(* makes it take, uses up a turn of one of its loops or returns: with what *)
(* NobodyStarves says of its receptions, the safety half of CallsReturn.   *)
(***************************************************************************)
THEOREM TurnsAlwaysRunOut == Spec => TurnsRunOut
<1>1. TypeInv /\ [Next]_vars
        => [\A c \in Clients :
                Runs(c) \/ ReceiveError(c)
                    => pc'[c] = "idle"
                        \/ Fewer(TurnsLeft(c)', TurnsLeft(c))]_vars
    BY StepShrinks
<1> QED
    BY <1>1, CallsInvariance, PTL DEF Spec, TurnsRunOut
=============================================================================
