----------------------------- MODULE WorProofs -----------------------------
(***************************************************************************)
(* The registers are written once: IInv is an invariant of Wor, for every  *)
(* number of acceptors, clients, addresses and commands, and every bound.  *)
(***************************************************************************)
EXTENDS WorInvariant, WorTypes

-----------------------------------------------------------------------------
(***************************************************************************)
(* Majorities.                                                             *)
(***************************************************************************)
LEMMA MajoritiesMeet ==
    ASSUME NEW Q \in Majority, NEW R \in Majority
    PROVE  \E a \in Acceptors : a \in Q /\ a \in R
<1>1. NumAcceptors \in Nat
    BY AcceptorsAssumption DEF MIN_ACCEPTORS, MAX_ACCEPTORS
<1>2. IsFiniteSet(Acceptors) /\ Cardinality(Acceptors) = NumAcceptors
    BY <1>1, FS_Interval DEF Acceptors
<1>3. /\ Q \subseteq Acceptors /\ 2 * Cardinality(Q) > NumAcceptors
      /\ R \subseteq Acceptors /\ 2 * Cardinality(R) > NumAcceptors
    BY DEF Majority
<1>4. Cardinality(Q) \in Nat /\ Cardinality(R) \in Nat
    BY <1>2, <1>3, FS_Subset, FS_CardinalityType
<1>5. Cardinality(Q) + Cardinality(R) > Cardinality(Acceptors)
    BY <1>1, <1>2, <1>3, <1>4
<1>6. Q \cap R # {}
    BY <1>2, <1>3, <1>5, FS_MajoritiesIntersect
<1> QED
    BY <1>3, <1>6

\* A row that counts as a quorum is a majority, since acceptor N, which the
\* count leaves out, only makes it smaller.
LEMMA QuorumIsMajority ==
    ASSUME NEW row \in SUBSET Acceptors, IsQuorum(row)
    PROVE  row \cap RowIndices \in Majority
BY DEF IsQuorum, Majority

-----------------------------------------------------------------------------
(***************************************************************************)
(* What the acceptors promised and voted stays so.                         *)
(***************************************************************************)
AcceptorsForward ==
    \A a \in Acceptors, x \in Addr :
        /\ aspace[a][x].prop <= aspace'[a][x].prop
        /\ votes[a][x] \subseteq votes'[a][x]
        /\ \A r \in votes'[a][x] :
                r \in votes[a][x] \/ aspace[a][x].prop <= r[1]

LEMMA UnchangedForward ==
    ASSUME TypeInv, UNCHANGED acceptorVars
    PROVE  AcceptorsForward
BY ClientsAssumption
DEF AcceptorsForward, acceptorVars, TypeInv, AcceptorsTyped, Entry, Proposal

LEMMA SafeStable ==
    ASSUME TypeInv, TypeInv', AcceptorsForward,
           NEW x \in Addr, NEW p \in Proposal, NEW v \in Cmd, SafeAt(x, p, v)
    PROVE  SafeAt(x, p, v)'
<1> SUFFICES ASSUME NEW q \in Proposal, q < p
             PROVE  \E Q \in Majority : \A a \in Q :
                        VotedFor(a, x, q, v)' \/ WontVote(a, x, q)'
    BY DEF SafeAt
<1>1. PICK Q \in Majority :
        \A a \in Q : VotedFor(a, x, q, v) \/ WontVote(a, x, q)
    BY DEF SafeAt
<1>2. ASSUME NEW a \in Q
      PROVE  VotedFor(a, x, q, v)' \/ WontVote(a, x, q)'
    <2>1. a \in Acceptors
        BY DEF Majority
    <2>2. CASE VotedFor(a, x, q, v)
        BY <2>1, <2>2 DEF AcceptorsForward, VotedFor
    <2>3. CASE WontVote(a, x, q)
        <3>1. /\ aspace[a][x].prop \in Nat /\ aspace'[a][x].prop \in Nat
              /\ q \in Nat
            BY <2>1, ClientsAssumption
            DEF TypeInv, AcceptorsTyped, Entry, Proposal
        <3>2. aspace'[a][x].prop > q
            BY <2>1, <2>3, <3>1 DEF AcceptorsForward, WontVote
        <3>3. \A w \in Cmd : <<q, w>> \notin votes'[a][x]
            BY <2>1, <2>3, <3>1 DEF AcceptorsForward, WontVote, VotedFor
        <3> QED
            BY <3>2, <3>3 DEF WontVote, VotedFor
    <2> QED
        BY <1>1, <2>2, <2>3
<1> QED
    BY <1>1, <1>2

LEMMA ReportedStable ==
    ASSUME TypeInv, TypeInv', AcceptorsForward,
           NEW a \in Acceptors, NEW x \in Addr, NEW p \in Proposal,
           NEW vprop \in Proposal, Reported(a, x, p, vprop)
    PROVE  Reported(a, x, p, vprop)'
<1>1. /\ aspace[a][x].prop \in Nat /\ aspace'[a][x].prop \in Nat
      /\ p \in Nat
    BY ClientsAssumption DEF TypeInv, AcceptorsTyped, Entry, Proposal
<1>2. aspace'[a][x].prop >= p
    BY <1>1 DEF AcceptorsForward, Reported
<1>3. ASSUME NEW r \in votes'[a][x], r[1] < p PROVE r[1] <= vprop
    <2>1. r[1] \in Nat
        BY ClientsAssumption DEF TypeInv, AcceptorsTyped, Proposal
    <2> QED
        BY <1>1, <1>3, <2>1 DEF AcceptorsForward, Reported
<1> QED
    BY <1>2, <1>3 DEF Reported

LEMMA VotedStable ==
    ASSUME AcceptorsForward, NEW a \in Acceptors, NEW x \in Addr,
           NEW p, NEW v, VotedFor(a, x, p, v)
    PROVE  VotedFor(a, x, p, v)'
BY DEF AcceptorsForward, VotedFor

-----------------------------------------------------------------------------
(***************************************************************************)
(* What the invariant says of the registers.                               *)
(***************************************************************************)
LEMMA VotesAsked ==
    ASSUME NEW a \in Acceptors, NEW x, NEW p, NEW v, VotedFor(a, x, p, v)
    PROVE  <<p, v>> \in Asked(x)
BY DEF Asked, VotedFor

LEMMA InvOneCommand == TypeInv /\ IInv => OneCommandPerProposal
<1> SUFFICES ASSUME TypeInv, IInv,
                    NEW x \in Addr, NEW a \in Acceptors, NEW b \in Acceptors,
                    NEW r \in votes[a][x], NEW s \in votes[b][x],
                    r[1] = s[1]
             PROVE  r[2] = s[2]
    BY DEF OneCommandPerProposal
<1>1. r \in Asked(x) /\ s \in Asked(x)
    BY DEF Asked
<1> QED
    BY <1>1 DEF IInv, OneCommandAsked

\* If w is chosen under q, some acceptor that voted for v under a lower number
\* p belongs to the majority that makes w safe at q.
LEMMA ChosenBelow ==
    ASSUME TypeInv, IInv, NEW x \in Addr, NEW v \in Cmd, NEW w \in Cmd,
           NEW p \in Proposal, NEW q \in Proposal, p < q,
           ChosenAt(x, p, v), ChosenAt(x, q, w)
    PROVE  v = w
<1> DEFINE V == {a \in Acceptors : VotedFor(a, x, p, v)}
           W == {a \in Acceptors : VotedFor(a, x, q, w)}
<1>1. V \in Majority /\ W \in Majority
    BY DEF ChosenAt
<1>2. PICK b \in Acceptors : VotedFor(b, x, q, w)
    BY <1>1, MajoritiesMeet
<1>3. SafeAt(x, q, w)
    <2>1. <<q, w>> \in Asked(x)
        BY <1>2, VotesAsked
    <2>2. SafeAt(x, <<q, w>>[1], <<q, w>>[2])
        BY <2>1 DEF IInv, AskedIsSafe
    <2> QED
        BY <2>2
<1>4. PICK Q \in Majority :
        \A a \in Q : VotedFor(a, x, p, w) \/ WontVote(a, x, p)
    BY <1>3 DEF SafeAt
<1>5. PICK a \in Acceptors : a \in V /\ a \in Q
    BY <1>1, MajoritiesMeet
<1>6. VotedFor(a, x, p, v) /\ VotedFor(a, x, p, w)
    BY <1>4, <1>5 DEF WontVote
<1>7. <<p, v>> \in Asked(x) /\ <<p, w>> \in Asked(x)
    BY <1>6, VotesAsked
<1> QED
    BY <1>7 DEF IInv, OneCommandAsked

LEMMA InvAgreement == TypeInv /\ IInv => Agreement
<1> SUFFICES ASSUME TypeInv, IInv, NEW x \in Addr,
                    NEW v \in Cmd, NEW w \in Cmd,
                    Chosen(x, v), Chosen(x, w)
             PROVE  v = w
    BY DEF Agreement
<1>1. PICK a \in Acceptors : \E r \in votes[a][x] :
        r[2] = v /\ ChosenAt(x, r[1], v)
    BY DEF Chosen
<1>2. PICK r \in votes[a][x] : r[2] = v /\ ChosenAt(x, r[1], v)
    BY <1>1
<1>3. PICK b \in Acceptors : \E s \in votes[b][x] :
        s[2] = w /\ ChosenAt(x, s[1], w)
    BY DEF Chosen
<1>4. PICK s \in votes[b][x] : s[2] = w /\ ChosenAt(x, s[1], w)
    BY <1>3
<1>5. r[1] \in Proposal /\ s[1] \in Proposal
    BY DEF TypeInv, AcceptorsTyped
<1>6. CASE r[1] = s[1]
    BY <1>2, <1>4, <1>6, InvOneCommand DEF OneCommandPerProposal
<1>7. CASE r[1] < s[1]
    BY <1>2, <1>4, <1>5, <1>7, ChosenBelow
<1>8. CASE s[1] < r[1]
    BY <1>2, <1>4, <1>5, <1>8, ChosenBelow
<1> QED
    BY <1>5, <1>6, <1>7, <1>8, ClientsAssumption DEF Proposal

LEMMA InitInv == Init => IInv
<1> SUFFICES ASSUME Init PROVE IInv
    OBVIOUS
<1>1. BagToSet(net) = {}
    BY DEF Init, BagToSet, EmptyBag, SetToBag
<1>2. \A x \in Addr : Asked(x) = {}
    BY <1>1 DEF Init, Asked, Accepts
<1>3. EntriesHoldVotes
    BY DEF Init, EntriesHoldVotes, EntryHoldsVotes, EmptyEntry, PROP_UNDEF
<1>4. AcksReport
    BY <1>1 DEF AcksReport
<1>5. \A c \in Clients, x \in Addr : ~Capturing(c, x)
    BY DEF Init, Capturing
<1>6. CapturesReport /\ NumbersInOrder
    BY <1>2, <1>5 DEF CapturesReport, NumbersInOrder, NumbersReached
<1>7. OneCommandAsked /\ AskedIsSafe /\ AskedIsProposed
    BY <1>2 DEF Init, OneCommandAsked, AskedIsSafe, AskedIsProposed
<1> QED
    BY <1>3, <1>4, <1>6, <1>7 DEF IInv

-----------------------------------------------------------------------------
(***************************************************************************)
(* The steps of an acceptor.                                               *)
(***************************************************************************)
LEMMA AskedTyped ==
    ASSUME TypeInv, NEW x \in Addr, NEW r \in Asked(x), AskedIsProposed
    PROVE  /\ r[1] \in Proposal
           /\ r[2] \in Cmd
           /\ r = <<r[1], r[2]>>
<1>1. CASE \E m \in Accepts(x) : r = <<m.prop, m.vcmd>>
    <2>1. PICK m \in Accepts(x) : r = <<m.prop, m.vcmd>>
        BY <1>1
    <2>2. m \in Request
        BY MessageTypes DEF Accepts, TypeInv, NetTyped
    <2>3. r[2] \in Cmd
        BY DEF AskedIsProposed, TypeInv, InputsTyped
    <2> QED
        BY <2>1, <2>2, <2>3 DEF Request
<1>2. CASE \E a \in Acceptors : r \in votes[a][x]
    BY <1>2 DEF TypeInv, AcceptorsTyped
<1> QED
    BY <1>1, <1>2 DEF Asked

LEMMA SafeKept ==
    ASSUME TypeInv, TypeInv', IInv, AcceptorsForward,
           NEW x \in Addr, NEW r \in Asked(x)
    PROVE  SafeAt(x, r[1], r[2])'
BY AskedTyped, SafeStable DEF IInv, AskedIsSafe

\* A step of the acceptors that asks for nothing new leaves alone what the
\* clients know.
LEMMA ForwardKeeps ==
    ASSUME TypeInv, TypeInv', IInv, AcceptorsForward, UNCHANGED clientVars,
           \A x \in Addr : Asked(x)' \subseteq Asked(x)
    PROVE  /\ CapturesReport'
           /\ NumbersInOrder'
           /\ OneCommandAsked'
           /\ AskedIsSafe'
           /\ AskedIsProposed'
<1>1. UNCHANGED <<pc, call, cspace, captureRow, proposed>>
    BY DEF clientVars, spaceVars, rowVars, controlVars, inputVars
<1>2. CapturesReport'
    <2> SUFFICES ASSUME NEW c \in Clients, NEW x \in Addr, Capturing(c, x)'
                 PROVE  CaptureReports(c, x)'
        BY DEF CapturesReport
    <2>1. CaptureReports(c, x)
        BY <1>1 DEF IInv, CapturesReport, Capturing
    <2>2. PICK e \in Entry : e = cspace[c][x]
        BY DEF TypeInv, SpacesTyped
    <2>3. e.prop \in Proposal /\ e.vprop \in Proposal
        BY <2>2 DEF Entry
    <2>4. ASSUME NEW a \in captureRow[c][x] \cap RowIndices
          PROVE  Reported(a, x, e.prop, e.vprop)'
        <3>1. Reported(a, x, e.prop, e.vprop) /\ a \in Acceptors
            BY <2>1, <2>2 DEF CaptureReports, TypeInv, RowsTyped
        <3> QED
            BY <2>3, <3>1, ReportedStable
    <2>5. \/ e.vprop = PROP_UNDEF /\ e.vcmd = UndefCmd
          \/ \E a \in Acceptors : VotedFor(a, x, e.vprop, e.vcmd)'
        BY <2>1, <2>2, VotedStable DEF CaptureReports
    <2>6. /\ e.prop % PropOne = c
          /\ pc[c] = "write_send" => IsQuorum(captureRow[c][x])
        BY <2>1, <2>2 DEF CaptureReports
    <2>7. cspace'[c][x] = e /\ captureRow' = captureRow /\ pc' = pc
        BY <1>1, <2>2
    <2> QED
        BY <2>4, <2>5, <2>6, <2>7 DEF CaptureReports
<1>3. NumbersInOrder'
    BY <1>1 DEF IInv, NumbersInOrder, NumbersReached, NumberUnused, Capturing
<1>4. OneCommandAsked'
    BY DEF IInv, OneCommandAsked
<1>5. AskedIsSafe'
    BY SafeKept DEF AskedIsSafe
<1>6. AskedIsProposed'
    BY <1>1 DEF IInv, AskedIsProposed
<1> QED
    BY <1>2, <1>3, <1>4, <1>5, <1>6


\* A bag without new ACCEPTs, and no new votes but for them, asks nothing new.
LEMMA AskedShrinks ==
    ASSUME NEW x \in Addr,
           \A m \in BagToSet(net') : m.type = "ACCEPT" => m \in BagToSet(net),
           \A a \in Acceptors : \A r \in votes'[a][x] : r \in Asked(x)
    PROVE  Asked(x)' \subseteq Asked(x)
<1>1. Accepts(x)' \subseteq Accepts(x)
    BY DEF Accepts
<1> QED
    BY <1>1 DEF Asked

LEMMA HandleCaptureInv ==
    ASSUME TypeInv, TypeInv', IInv, NEW a \in Acceptors,
           NEW m \in BagToSet(net), HandleCapture(a, m)
    PROVE  IInv'
<1>1. m \in Request
    BY MessageTypes DEF TypeInv, NetTyped, HandleCapture
<1>2. aspace[a][m.addr] \in Entry /\ m.addr \in Addr /\ m.prop \in Proposal
    BY <1>1 DEF TypeInv, AcceptorsTyped, Request
<1>3. UNCHANGED <<votes, clientVars>>
    BY DEF HandleCapture
<1>4. \A b \in Acceptors, x \in Addr :
        /\ aspace'[b][x].prop >= aspace[b][x].prop
        /\ aspace'[b][x].vprop = aspace[b][x].vprop
        /\ aspace'[b][x].vcmd = aspace[b][x].vcmd
    BY <1>1, <1>2, ClientsAssumption
    DEF HandleCapture, TypeInv, AcceptorsTyped, Entry, Proposal
<1>5. AcceptorsForward
    BY <1>3, <1>4, ClientsAssumption
    DEF AcceptorsForward, TypeInv, AcceptorsTyped, Entry, Proposal
<1>6. BagToSet(net') \subseteq BagToSet(net) \cup CaptureAnswer(a, m)
    BY ReceiveInTransit DEF HandleCapture, TypeInv, NetTyped
<1>7. \A x \in Addr : Asked(x)' \subseteq Asked(x)
    <2> SUFFICES ASSUME NEW x \in Addr PROVE Asked(x)' \subseteq Asked(x)
        OBVIOUS
    <2>1. \A n \in BagToSet(net') : n.type = "ACCEPT" => n \in BagToSet(net)
        BY <1>6 DEF CaptureAnswer
    <2>2. \A b \in Acceptors : \A r \in votes'[b][x] : r \in Asked(x)
        BY <1>3 DEF Asked
    <2> QED
        BY <2>1, <2>2, AskedShrinks
<1>8. EntriesHoldVotes'
    <2> SUFFICES ASSUME NEW b \in Acceptors, NEW x \in Addr
                 PROVE  EntryHoldsVotes(b, x)'
        BY DEF EntriesHoldVotes
    <2>1. EntryHoldsVotes(b, x)
        BY DEF IInv, EntriesHoldVotes
    <2>2. aspace[b][x] \in Entry /\ aspace'[b][x] \in Entry
        BY DEF TypeInv, AcceptorsTyped
    <2> QED
        BY <1>3, <1>4, <2>1, <2>2, ClientsAssumption
        DEF EntryHoldsVotes, VotedFor, Entry, Proposal
<1>9. AcksReport'
    <2> SUFFICES ASSUME NEW n \in BagToSet(net'), n.type = "CAPTURE_ACK"
                 PROVE  /\ Reported(n.from, n.addr, n.prop, n.vprop)'
                        /\ n.vprop # PROP_UNDEF
                            => VotedFor(n.from, n.addr, n.vprop, n.vcmd)'
        BY DEF AcksReport
    <2>1. n \in Ack
        BY MessageTypes DEF TypeInv, NetTyped
    <2>2. CASE n \in BagToSet(net)
        <3>1. /\ Reported(n.from, n.addr, n.prop, n.vprop)
              /\ n.vprop # PROP_UNDEF
                    => VotedFor(n.from, n.addr, n.vprop, n.vcmd)
            BY <2>2 DEF IInv, AcksReport
        <3> QED
            BY <1>5, <2>1, <3>1, ReportedStable, VotedStable DEF Ack
    <2>3. CASE n \in CaptureAnswer(a, m)
        <3>1. /\ n.from = a /\ n.addr = m.addr
              /\ n.prop = aspace[a][m.addr].prop
              /\ n.vprop = aspace[a][m.addr].vprop
              /\ n.vcmd = aspace[a][m.addr].vcmd
            BY <2>3 DEF CaptureAnswer
        <3>2. /\ aspace'[a][m.addr].prop >= n.prop
              /\ \A r \in votes[a][m.addr] : r[1] <= n.vprop
              /\ n.vprop # PROP_UNDEF
                    => VotedFor(a, m.addr, n.vprop, n.vcmd)
            BY <1>2, <1>4, <3>1 DEF IInv, EntriesHoldVotes, EntryHoldsVotes
        <3> QED
            BY <1>3, <3>1, <3>2 DEF Reported, VotedFor
    <2> QED
        BY <1>6, <2>2, <2>3
<1> QED
    BY <1>3, <1>5, <1>7, <1>8, <1>9, ForwardKeeps DEF IInv

LEMMA HandleAcceptEffect ==
    ASSUME TypeInv, IInv, NEW a \in Acceptors,
           NEW m \in BagToSet(net), HandleAccept(a, m)
    PROVE  /\ AcceptorsForward
           /\ EntriesHoldVotes'
           /\ \A b \in Acceptors, x \in Addr :
                /\ \A r \in votes'[b][x] : r \in Asked(x)
                /\ x # m.addr => votes'[b][x] = votes[b][x]
<1>1. m \in Request /\ m.type = "ACCEPT"
    BY MessageTypes DEF TypeInv, NetTyped, HandleAccept
<1>2. /\ aspace[a][m.addr] \in Entry
      /\ m.addr \in Addr /\ m.prop \in Proposal /\ m.vcmd \in CmdOrUndef
    BY <1>1 DEF TypeInv, AcceptorsTyped, Request
<1>3. CASE ~Acceptable(a, m)
    <2>1. UNCHANGED <<aspace, votes>>
        BY <1>3 DEF HandleAccept, acceptorVars
    <2>2. AcceptorsForward
        BY <2>1, UnchangedForward DEF acceptorVars
    <2>3. EntriesHoldVotes'
        BY <2>1 DEF IInv, EntriesHoldVotes, EntryHoldsVotes, VotedFor
    <2> QED
        BY <2>1, <2>2, <2>3 DEF Asked
<1>4. CASE Acceptable(a, m)
    <2> DEFINE vote == <<m.prop, m.vcmd>>
               entry == [prop |-> m.prop, vprop |-> m.prop,
                         vcmd |-> m.vcmd]
    <2>1. /\ aspace' = [aspace EXCEPT ![a][m.addr] = entry]
          /\ votes' = [votes EXCEPT ![a][m.addr] = @ \cup {vote}]
          /\ m.prop # PROP_UNDEF
          /\ aspace[a][m.addr].prop <= m.prop
        BY <1>4 DEF HandleAccept, Acceptable
    <2>2. /\ aspace'[a][m.addr] = entry
          /\ votes'[a][m.addr] = votes[a][m.addr] \cup {vote}
          /\ \A b \in Acceptors, x \in Addr :
                <<b, x>> # <<a, m.addr>> =>
                    /\ aspace'[b][x] = aspace[b][x]
                    /\ votes'[b][x] = votes[b][x]
        BY <1>2, <2>1 DEF TypeInv, AcceptorsTyped
    <2>3. vote \in Asked(m.addr)
        BY <1>1 DEF Asked, Accepts
    <2>4. m.prop \in Nat /\ \A r \in votes[a][m.addr] : r[1] \in Nat
        BY <1>2, ClientsAssumption DEF TypeInv, AcceptorsTyped, Proposal
    <2>5. AcceptorsForward
        <3> SUFFICES ASSUME NEW b \in Acceptors, NEW x \in Addr
                     PROVE  /\ aspace[b][x].prop <= aspace'[b][x].prop
                            /\ votes[b][x] \subseteq votes'[b][x]
                            /\ \A r \in votes'[b][x] :
                                \/ r \in votes[b][x]
                                \/ aspace[b][x].prop <= r[1]
            BY DEF AcceptorsForward
        <3>1. CASE b = a /\ x = m.addr
            BY <2>1, <2>2, <3>1
        <3>2. CASE <<b, x>> # <<a, m.addr>>
            <4>1. aspace[b][x].prop \in Nat
                BY ClientsAssumption
                DEF TypeInv, AcceptorsTyped, Entry, Proposal
            <4> QED
                BY <2>2, <3>2, <4>1
        <3> QED
            BY <3>1, <3>2
    <2>6. EntriesHoldVotes'
        <3> SUFFICES ASSUME NEW b \in Acceptors, NEW x \in Addr
                     PROVE  EntryHoldsVotes(b, x)'
            BY DEF EntriesHoldVotes
        <3>1. EntryHoldsVotes(b, x)
            BY DEF IInv, EntriesHoldVotes
        <3>2. CASE b = a /\ x = m.addr
            <4>1. aspace[a][m.addr].vprop <= m.prop
                BY <1>2, <2>1, <2>4, <3>1, <3>2, ClientsAssumption
                DEF EntryHoldsVotes, Entry, Proposal
            <4>2. \A r \in votes[a][m.addr] :
                    r[1] # PROP_UNDEF /\ r[1] <= m.prop
                BY <1>2, <2>4, <3>1, <3>2, <4>1, ClientsAssumption
                DEF EntryHoldsVotes, Entry, Proposal
            <4> QED
                BY <2>1, <2>2, <2>4, <3>2, <4>2
                DEF EntryHoldsVotes, VotedFor
        <3>3. CASE <<b, x>> # <<a, m.addr>>
            BY <2>2, <3>1, <3>3 DEF EntryHoldsVotes, VotedFor
        <3> QED
            BY <3>2, <3>3
    <2>7. \A b \in Acceptors, x \in Addr : \A r \in votes'[b][x] :
            r \in Asked(x)
        BY <2>2, <2>3 DEF Asked
    <2> QED
        BY <2>2, <2>5, <2>6, <2>7
<1> QED
    BY <1>3, <1>4

LEMMA HandleAcceptInv ==
    ASSUME TypeInv, TypeInv', IInv, NEW a \in Acceptors,
           NEW m \in BagToSet(net), HandleAccept(a, m)
    PROVE  IInv'
<1>1. m \in Request /\ m.type = "ACCEPT"
    BY MessageTypes DEF TypeInv, NetTyped, HandleAccept
<1>2. UNCHANGED clientVars
    BY DEF HandleAccept
<1>3. \A n \in BagToSet(net') :
        n.type \in {"ACCEPT", "CAPTURE_ACK"} => n \in BagToSet(net)
    BY ReceiveInTransit DEF HandleAccept, TypeInv, NetTyped
<1>4. /\ AcceptorsForward
      /\ EntriesHoldVotes'
      /\ \A b \in Acceptors, x \in Addr : \A r \in votes'[b][x] :
            r \in Asked(x)
    BY HandleAcceptEffect
<1>5. \A x \in Addr : Asked(x)' \subseteq Asked(x)
    BY <1>3, <1>4, AskedShrinks
<1>6. AcksReport'
    <2> SUFFICES ASSUME NEW n \in BagToSet(net'), n.type = "CAPTURE_ACK"
                 PROVE  /\ Reported(n.from, n.addr, n.prop, n.vprop)'
                        /\ n.vprop # PROP_UNDEF
                            => VotedFor(n.from, n.addr, n.vprop, n.vcmd)'
        BY DEF AcksReport
    <2>1. n \in Ack /\ n \in BagToSet(net)
        BY <1>3, MessageTypes DEF TypeInv, NetTyped
    <2>2. /\ Reported(n.from, n.addr, n.prop, n.vprop)
          /\ n.vprop # PROP_UNDEF
                => VotedFor(n.from, n.addr, n.vprop, n.vcmd)
        BY <2>1 DEF IInv, AcksReport
    <2> QED
        BY <1>4, <2>1, <2>2, ReportedStable, VotedStable DEF Ack
<1> QED
    BY <1>2, <1>4, <1>5, <1>6, ForwardKeeps DEF IInv

-----------------------------------------------------------------------------
(***************************************************************************)
(* The steps of a client.                                                  *)
(***************************************************************************)
OthersKeep(c) ==
    \A d \in Clients \ {c} :
        /\ pc'[d] = pc[d]
        /\ call'[d] = call[d]
        /\ cspace'[d] = cspace[d]
        /\ captureRow'[d] = captureRow[d]

\* What is left of the invariant for the steps in which a client asks for
\* nothing: what it knows in a capture round.
LEMMA ClientKeeps ==
    ASSUME TypeInv, TypeInv', IInv, NEW c \in Clients, OthersKeep(c),
           UNCHANGED acceptorVars,
           \A m \in BagToSet(net') :
                m.type \in {"ACCEPT", "CAPTURE_ACK"} => m \in BagToSet(net),
           \A x \in Addr : proposed[x] \subseteq proposed'[x],
           \A x \in Addr : cspace[c][x].prop <= cspace'[c][x].prop,
           \A x \in Addr : Capturing(c, x)' =>
                CaptureReports(c, x)' /\ NumberUnused(c, x)'
    PROVE  IInv'
<1>1. UNCHANGED <<aspace, votes>>
    BY DEF acceptorVars
<1>2. \A x \in Addr : Asked(x)' \subseteq Asked(x)
    BY <1>1, AskedShrinks DEF Asked
<1>3. EntriesHoldVotes'
    BY <1>1 DEF IInv, EntriesHoldVotes, EntryHoldsVotes, VotedFor
<1>4. AcksReport'
    BY <1>1 DEF IInv, AcksReport, Reported, VotedFor
<1>5. CapturesReport'
    <2> SUFFICES ASSUME NEW d \in Clients, NEW x \in Addr, d # c,
                        Capturing(d, x)'
                 PROVE  CaptureReports(d, x)'
        BY DEF CapturesReport
    <2>1. /\ pc'[d] = pc[d] /\ call'[d] = call[d]
          /\ cspace'[d] = cspace[d] /\ captureRow'[d] = captureRow[d]
        BY DEF OthersKeep
    <2>2. CaptureReports(d, x)
        BY <2>1 DEF IInv, CapturesReport, Capturing
    <2> QED
        BY <1>1, <2>1, <2>2 DEF CaptureReports, Reported, VotedFor
<1>6. NumbersInOrder'
    <2> SUFFICES ASSUME NEW d \in Clients, NEW x \in Addr
                 PROVE  /\ NumbersReached(d, x)'
                        /\ Capturing(d, x)' => NumberUnused(d, x)'
        BY DEF NumbersInOrder
    <2>1. NumbersReached(d, x) /\ Capturing(d, x) => NumberUnused(d, x)
        BY DEF IInv, NumbersInOrder
    <2>2. CASE d # c
        BY <1>2, <2>2
        DEF IInv, NumbersInOrder, OthersKeep, NumbersReached, NumberUnused,
            Capturing
    <2>3. CASE d = c
        <3>1. cspace[c][x].prop \in Nat /\ cspace'[c][x].prop \in Nat
            BY ClientsAssumption DEF TypeInv, SpacesTyped, Entry, Proposal
        <3>2. \A r \in Asked(x) : r[1] \in Nat
            BY AskedTyped, ClientsAssumption DEF IInv, Proposal
        <3>3. NumbersReached(c, x)'
            BY <1>2, <3>1, <3>2 DEF IInv, NumbersInOrder, NumbersReached
        <3> QED
            BY <2>3, <3>3
    <2> QED
        BY <2>2, <2>3
<1>7. OneCommandAsked'
    BY <1>2 DEF IInv, OneCommandAsked
<1>8. AskedIsSafe'
    BY <1>2, UnchangedForward, SafeKept DEF AskedIsSafe
<1>9. AskedIsProposed'
    BY <1>2 DEF IInv, AskedIsProposed
<1> QED
    BY <1>3, <1>4, <1>5, <1>6, <1>7, <1>8, <1>9 DEF IInv

LEMMA ReturnsEffect ==
    ASSUME TypeInv, NEW c \in Clients, NEW st, NEW cmd, Returns(c, st, cmd)
    PROVE  /\ pc' = [pc EXCEPT ![c] = "idle"]
           /\ UNCHANGED call
BY DEF Returns, WriteReturns, ReadReturns, Idle

LEMMA CaptureRoundEndsEffect ==
    ASSUME TypeInv, NEW c \in Clients, NEW st, NEW cmd,
           CaptureRoundEnds(c, st, cmd)
    PROVE  /\ UNCHANGED call
           /\ \A d \in Clients \ {c} : pc'[d] = pc[d]
           /\ pc'[c] \in {"idle", "capture_send", "write_send"}
           /\ pc'[c] = "write_send" => st = "OK"
<1> USE DEF TypeInv, ControlTyped
<1>1. CASE \E st1 : Returns(c, st1, cmd)
    BY <1>1, ReturnsEffect
<1>2. CASE /\ pc' = [pc EXCEPT ![c] = "capture_send"]
           /\ UNCHANGED call
    BY <1>2
<1>3. CASE /\ st = "OK"
           /\ pc' = [pc EXCEPT ![c] = "write_send"]
           /\ UNCHANGED call
    BY <1>3
<1> QED
    BY <1>1, <1>2, <1>3 DEF CaptureRoundEnds

\* A capture loop that goes on to the write round has a quorum.
LEMMA CaptureLoopEffect ==
    ASSUME TypeInv, NEW c \in Clients, pc[c] = "capture_receive",
           NEW st \in {"OK", "PREEMPTED"}, CaptureLoop(c, st)
    PROVE  /\ UNCHANGED call
           /\ \A d \in Clients \ {c} : pc'[d] = pc[d]
           /\ pc'[c] # "write_receive"
           /\ pc'[c] = "write_send" => IsQuorum(captureRow'[c][call[c].addr])
<1> DEFINE left == pending[c] - 1
           round == IF left = 0 THEN "PREEMPTED" ELSE st
<1>1. CASE UNCHANGED <<pc, call>>
    BY <1>1
<1>2. CASE /\ left = 0 \/ st = "PREEMPTED"
              \/ IsQuorum(captureRow'[c][call[c].addr])
           /\ CaptureRoundEnds(c, round, cspace'[c][call[c].addr].vcmd)
    BY <1>2, CaptureRoundEndsEffect
<1> QED
    BY <1>1, <1>2 DEF CaptureLoop

LEMMA WriteLoopEffect ==
    ASSUME TypeInv, NEW c \in Clients, pc[c] = "write_receive",
           NEW st, WriteLoop(c, st)
    PROVE  /\ UNCHANGED call
           /\ \A d \in Clients \ {c} : pc'[d] = pc[d]
           /\ pc'[c] \notin {"capture_receive", "write_send"}
<1> USE DEF TypeInv, ControlTyped
<1>1. CASE UNCHANGED <<pc, call>>
    BY <1>1
<1>2. CASE \E st1, cmd : WriteReturns(c, st1) \/ ReadReturns(c, st1, cmd)
    BY <1>2, ReturnsEffect DEF Returns
<1>3. CASE /\ pc' = [pc EXCEPT ![c] = "capture_send"]
           /\ UNCHANGED call
    BY <1>3
<1> QED
    BY <1>1, <1>2, <1>3 DEF WriteLoop, WriteRoundEnds


LEMMA CallInv ==
    ASSUME TypeInv, TypeInv', IInv, NEW c \in Clients, NEW x \in Addr,
           \/ \E cmd \in Cmd : wor_capture_and_write(c, x, cmd)
           \/ wor_read(c, x)
    PROVE  IInv'
<1>1. PICK operation \in Call :
        /\ Called(c, operation)
        /\ UNCHANGED proposed
        /\ \A d \in Clients \ {c} : pc'[d] = pc[d]
        /\ pc'[c] \in {"idle", "capture_send"}
    <2>1. ASSUME NEW cmd \in Cmd, wor_capture_and_write(c, x, cmd),
                 NEW operation,
                 operation = [op |-> "write", addr |-> x, cmd |-> cmd]
          PROVE  /\ operation \in Call
                 /\ Called(c, operation)
                 /\ UNCHANGED proposed
                 /\ \A d \in Clients \ {c} : pc'[d] = pc[d]
                 /\ pc'[c] = "capture_send"
        BY <2>1, CalledTyped
        DEF wor_capture_and_write, Start, TypeInv, InputsTyped, ControlTyped
    <2>2. ASSUME wor_read(c, x), NEW operation,
                 operation = [op |-> "read", addr |-> x, cmd |-> UndefCmd]
          PROVE  /\ operation \in Call
                 /\ Called(c, operation)
                 /\ UNCHANGED proposed
                 /\ \A d \in Clients \ {c} : pc'[d] = pc[d]
                 /\ pc'[c] \in {"idle", "capture_send"}
        BY <2>2, CalledTyped
        DEF wor_read, Start, Called, TypeInv, ControlTyped
    <2> QED
        BY <2>1, <2>2
<1>2. /\ call' = [call EXCEPT ![c] = operation]
      /\ UNCHANGED <<net, acceptorVars, cspace, captureRow>>
    BY <1>1 DEF Called, netVars, spaceVars, rowVars
<1>3. OthersKeep(c)
    BY <1>1, <1>2 DEF OthersKeep, TypeInv, ControlTyped
<1>4. \A y \in Addr : ~Capturing(c, y)'
    BY <1>1 DEF Capturing
<1>5. \A y \in Addr : cspace[c][y].prop <= cspace'[c][y].prop
    BY <1>2, ClientsAssumption DEF TypeInv, SpacesTyped, Entry, Proposal
<1> QED
    BY <1>1, <1>2, <1>3, <1>4, <1>5, ClientKeeps

LEMMA CaptureSendInv ==
    ASSUME TypeInv, TypeInv', IInv, NEW c \in Clients, wor_capture_send(c)
    PROVE  IInv'
<1> DEFINE prop == wor_get_next_proposal(c, call[c].addr)
<1>1. PICK x \in Addr : x = call[c].addr
    BY DEF wor_capture_send, TypeInv, ControlTyped, Call
<1>2. UNCHANGED <<acceptorVars, proposed>> /\ pc[c] = "capture_send"
    BY DEF wor_capture_send, inputVars
<1>3. cspace[c][x] \in Entry /\ captureRow[c][x] \in SUBSET Acceptors
    BY DEF TypeInv, SpacesTyped, RowsTyped
<1>4. ASSUME NEW st \in {"ALREADYWRITTEN", "ERROR"}, NEW cmd,
             CaptureRoundEnds(c, st, cmd), UNCHANGED net,
             \A d \in Clients \ {c} : /\ cspace'[d] = cspace[d]
                                      /\ captureRow'[d] = captureRow[d],
             \A y \in Addr : cspace'[c][y].prop = cspace[c][y].prop
      PROVE  IInv'
    <2>1. /\ UNCHANGED call
          /\ \A d \in Clients \ {c} : pc'[d] = pc[d]
          /\ pc'[c] \notin {"capture_receive", "write_send"}
        BY <1>4, CaptureRoundEndsEffect
    <2>2. OthersKeep(c)
        BY <1>4, <2>1 DEF OthersKeep
    <2>3. \A y \in Addr : ~Capturing(c, y)'
        BY <2>1 DEF Capturing
    <2>4. \A y \in Addr : cspace[c][y].prop <= cspace'[c][y].prop
        BY <1>4, ClientsAssumption DEF TypeInv, SpacesTyped, Entry, Proposal
    <2> QED
        BY <1>2, <1>4, <2>2, <2>3, <2>4, ClientKeeps
<1>5. CASE written[c][x]
    <2>1. /\ CaptureRoundEnds(c, "ALREADYWRITTEN", cspace[c][x].vcmd)
          /\ UNCHANGED <<net, cspace, captureRow>>
        BY <1>1, <1>5 DEF wor_capture_send, netVars, spaceVars, rowVars
    <2> QED
        BY <1>4, <2>1
<1>6. CASE ~written[c][x] /\ prop = PROP_UNDEF
    <2>1. /\ cspace' = [cspace EXCEPT ![c][x] =
                          [EmptyEntry EXCEPT !.prop = cspace[c][x].prop]]
          /\ captureRow' = [captureRow EXCEPT ![c][x] = RowReset(@)]
          /\ CaptureRoundEnds(c, "ERROR", UndefCmd)
          /\ UNCHANGED net
        BY <1>1, <1>6 DEF wor_capture_send, netVars
    <2>2. \A d \in Clients \ {c} : /\ cspace'[d] = cspace[d]
                                   /\ captureRow'[d] = captureRow[d]
        BY <2>1 DEF TypeInv, SpacesTyped, RowsTyped
    <2>3. \A y \in Addr : cspace'[c][y].prop = cspace[c][y].prop
        BY <2>1 DEF TypeInv, SpacesTyped, EmptyEntry
    <2> QED
        BY <1>4, <2>1, <2>2, <2>3
<1>7. CASE ~written[c][x] /\ prop # PROP_UNDEF
    <2>1. PICK requests :
            /\ \A m \in requests : m.type = "CAPTURE"
            /\ Broadcast(requests)
        BY <1>1, <1>7 DEF wor_capture_send
    <2>2. /\ cspace' = [cspace EXCEPT ![c][x] =
                          [EmptyEntry EXCEPT !.prop = prop]]
          /\ captureRow' = [captureRow EXCEPT ![c][x] = RowReset(@)]
          /\ pc' = [pc EXCEPT ![c] = "capture_receive"]
          /\ UNCHANGED call
        BY <1>1, <1>7 DEF wor_capture_send
    <2>3. \A m \in BagToSet(net') : m.type \in {"ACCEPT", "CAPTURE_ACK"}
                => m \in BagToSet(net)
        BY <2>1, BroadcastInTransit DEF TypeInv, NetTyped
    <2>4. /\ prop \in Nat
          /\ prop > cspace[c][x].prop
          /\ prop % PropOne = c
        BY <1>1, <1>7, NewProposal DEF TypeInv
    <2> HIDE DEF prop
    <2>5. cspace'[c][x] = [prop |-> prop, vprop |-> PROP_UNDEF,
                           vcmd |-> UndefCmd]
        BY <2>2 DEF TypeInv, SpacesTyped, EmptyEntry
    <2>6. captureRow'[c][x] \cap RowIndices = {}
        BY <2>2 DEF TypeInv, RowsTyped, RowReset
    <2>7. OthersKeep(c)
        BY <2>2 DEF OthersKeep, TypeInv, SpacesTyped, RowsTyped, ControlTyped
    <2>8. \A y \in Addr : cspace[c][y].prop <= cspace'[c][y].prop
        <3> SUFFICES ASSUME NEW y \in Addr
                     PROVE  cspace[c][y].prop <= cspace'[c][y].prop
            OBVIOUS
        <3>1. cspace[c][y].prop \in Nat
            BY ClientsAssumption DEF TypeInv, SpacesTyped, Entry, Proposal
        <3>2. y # x => cspace'[c][y] = cspace[c][y]
            BY <2>2 DEF TypeInv, SpacesTyped
        <3> QED
            BY <2>4, <2>5, <3>1, <3>2
    <2>9. ASSUME NEW y \in Addr, Capturing(c, y)'
           PROVE  CaptureReports(c, y)' /\ NumberUnused(c, y)'
        <3>1. y = x
            BY <1>1, <2>2, <2>9 DEF Capturing
        <3>2. pc'[c] = "capture_receive"
            BY <2>2 DEF TypeInv, ControlTyped
        <3>3. CaptureReports(c, x)'
            BY <2>4, <2>5, <2>6, <3>2 DEF CaptureReports
        <3>4. Asked(x)' \subseteq Asked(x)
            BY <1>2, <2>3, AskedShrinks DEF Asked, acceptorVars
        <3>5. NumbersReached(c, x)
            BY DEF IInv, NumbersInOrder
        <3>6. \A r \in Asked(x) : r[1] \in Nat
            BY AskedTyped, ClientsAssumption DEF IInv, Proposal
        <3>7. cspace[c][x].prop \in Nat
            BY <1>3, ClientsAssumption DEF Entry, Proposal
        <3>8. NumberUnused(c, x)'
            BY <2>4, <2>5, <3>4, <3>5, <3>6, <3>7
            DEF NumbersReached, NumberUnused
        <3> QED
            BY <3>1, <3>3, <3>8
    <2> QED
        BY <1>2, <2>3, <2>7, <2>8, <2>9, ClientKeeps
<1> QED
    BY <1>5, <1>6, <1>7


\* The client counts an acknowledgment of its own number: the sender joins
\* those that reported, and the highest vote is kept.
LEMMA CountedReports ==
    ASSUME TypeInv, TypeInv', IInv, NEW c \in Clients, NEW x \in Addr,
           x = call[c].addr, CaptureReports(c, x), UNCHANGED acceptorVars,
           NEW m \in BagToSet(net),
           Expected(c, m, "CAPTURE_ACK", captureRow), Current(c, m),
           captureRow' = [captureRow EXCEPT ![c][x] = @ \cup {m.from}],
           IF ReportsVote(c, m) THEN AdoptVote(c, m) ELSE UNCHANGED cspace,
           pc'[c] = "write_send" => IsQuorum(captureRow'[c][x])
    PROVE  CaptureReports(c, x)'
<1>1. m \in Ack /\ m.type = "CAPTURE_ACK" /\ m.addr = x
    BY MessageTypes DEF TypeInv, NetTyped, Expected
<1>2. PICK e \in Entry : e = cspace[c][x]
    BY DEF TypeInv, SpacesTyped
<1>3. PICK e1 \in Entry : e1 = cspace'[c][x]
    BY DEF TypeInv, SpacesTyped
<1>4. /\ e.prop \in Nat /\ e.vprop \in Nat /\ e1.vprop \in Nat
      /\ m.vprop \in Nat /\ m.prop = e.prop
      /\ \A a \in Acceptors : \A r \in votes[a][x] : r[1] \in Nat
    BY <1>1, <1>2, <1>3, ClientsAssumption
    DEF TypeInv, AcceptorsTyped, Entry, Ack, Proposal, Current
<1>5. /\ Reported(m.from, x, e.prop, m.vprop)
      /\ m.vprop # PROP_UNDEF => VotedFor(m.from, x, m.vprop, m.vcmd)
    BY <1>1, <1>4 DEF IInv, AcksReport
<1>6. m.vprop # PROP_UNDEF => m.vcmd # UndefCmd
    BY <1>1, <1>5, CommandAssumption
    DEF TypeInv, AcceptorsTyped, VotedFor, Ack
<1>7. /\ e1.prop = e.prop
      /\ e.vprop <= e1.vprop
      /\ m.vprop <= e1.vprop
      /\ \/ e1.vprop = e.vprop /\ e1.vcmd = e.vcmd
         \/ VotedFor(m.from, x, e1.vprop, e1.vcmd)
    <2>1. CASE ReportsVote(c, m)
        <3>1. e1 = [prop |-> e.prop, vprop |-> m.vprop, vcmd |-> m.vcmd]
            BY <1>2, <1>3, <2>1 DEF AdoptVote, TypeInv, SpacesTyped
        <3> QED
            BY <1>2, <1>4, <1>5, <2>1, <3>1 DEF ReportsVote
    <2>2. CASE ~ReportsVote(c, m)
        BY <1>2, <1>3, <1>4, <1>6, <2>2 DEF ReportsVote, PROP_UNDEF
    <2> QED
        BY <2>1, <2>2
<1>8. /\ e.prop % PropOne = c
      /\ \A a \in captureRow[c][x] \cap RowIndices :
            Reported(a, x, e.prop, e.vprop)
      /\ \/ e.vprop = PROP_UNDEF /\ e.vcmd = UndefCmd
         \/ \E a \in Acceptors : VotedFor(a, x, e.vprop, e.vcmd)
    BY <1>2 DEF CaptureReports
<1>9. ASSUME NEW a \in captureRow'[c][x] \cap RowIndices
      PROVE  Reported(a, x, e1.prop, e1.vprop)'
    <2>1. captureRow'[c][x] = captureRow[c][x] \cup {m.from}
        BY DEF TypeInv, RowsTyped
    <2>2. a \in Acceptors
        BY DEF TypeInv, RowsTyped
    <2>3. PICK vprop \in {e.vprop, m.vprop} : Reported(a, x, e.prop, vprop)
        BY <1>5, <1>8, <2>1
    <2>4. Reported(a, x, e1.prop, e1.vprop)
        BY <1>4, <1>7, <2>2, <2>3 DEF Reported
    <2> QED
        BY <2>4 DEF Reported, acceptorVars
<1>10. \/ e1.vprop = PROP_UNDEF /\ e1.vcmd = UndefCmd
       \/ \E a \in Acceptors : VotedFor(a, x, e1.vprop, e1.vcmd)'
    BY <1>1, <1>7, <1>8 DEF VotedFor, acceptorVars, Ack
<1> QED
    BY <1>3, <1>7, <1>8, <1>9, <1>10 DEF CaptureReports

\* The end of every step of a client in its capture loop.
LEMMA CaptureLoopInv ==
    ASSUME TypeInv, TypeInv', IInv, NEW c \in Clients, NEW x \in Addr,
           x = call[c].addr, pc[c] = "capture_receive",
           UNCHANGED <<acceptorVars, proposed>>,
           BagToSet(net') \subseteq BagToSet(net),
           \A d \in Clients \ {c} : /\ cspace'[d] = cspace[d]
                                    /\ captureRow'[d] = captureRow[d],
           \A y \in Addr : cspace'[c][y].prop = cspace[c][y].prop,
           NEW st \in {"OK", "PREEMPTED"}, CaptureLoop(c, st),
           (pc'[c] = "write_send" => IsQuorum(captureRow'[c][x]))
                => CaptureReports(c, x)'
    PROVE  IInv'
<1>1. /\ UNCHANGED call
      /\ \A d \in Clients \ {c} : pc'[d] = pc[d]
      /\ pc'[c] = "write_send" => IsQuorum(captureRow'[c][x])
    BY CaptureLoopEffect
<1>2. CaptureReports(c, x)'
    BY <1>1
<1>3. OthersKeep(c)
    BY <1>1 DEF OthersKeep
<1>4. \A y \in Addr : cspace[c][y].prop <= cspace'[c][y].prop
    BY ClientsAssumption DEF TypeInv, SpacesTyped, Entry, Proposal
<1>5. NumberUnused(c, x)'
    <2>1. NumberUnused(c, x)
        BY DEF IInv, NumbersInOrder, Capturing
    <2>2. Asked(x)' \subseteq Asked(x)
        BY AskedShrinks DEF Asked, acceptorVars
    <2> QED
        BY <2>1, <2>2 DEF NumberUnused
<1>6. \A y \in Addr : Capturing(c, y)' => y = x
    BY <1>1 DEF Capturing
<1> QED
    BY <1>2, <1>3, <1>4, <1>5, <1>6, ClientKeeps

LEMMA AdoptVoteEffect ==
    ASSUME TypeInv, NEW c \in Clients, NEW m,
           UNCHANGED cspace \/ AdoptVote(c, m)
    PROVE  /\ \A d \in Clients \ {c} : cspace'[d] = cspace[d]
           /\ \A y \in Addr : cspace'[c][y].prop = cspace[c][y].prop
BY DEF AdoptVote, TypeInv, SpacesTyped

LEMMA CaptureReceiveInv ==
    ASSUME TypeInv, TypeInv', IInv, NEW c \in Clients,
           NEW m \in BagToSet(net), wor_capture_receive(c, m)
    PROVE  IInv'
<1>1. PICK x \in Addr : x = call[c].addr
    BY DEF wor_capture_receive, TypeInv, ControlTyped, Call
<1>2. /\ pc[c] = "capture_receive"
      /\ UNCHANGED <<acceptorVars, proposed>>
      /\ BagToSet(net') \subseteq BagToSet(net)
    BY ReceiveInTransit DEF wor_capture_receive, TypeInv, NetTyped, inputVars
<1>3. PICK st \in {"OK", "PREEMPTED"} : CaptureLoop(c, st)
    BY DEF wor_capture_receive
<1>4. CaptureReports(c, x)
    BY <1>1, <1>2 DEF IInv, CapturesReport, Capturing
<1>5. UNCHANGED cspace \/ AdoptVote(c, m)
    BY DEF wor_capture_receive
<1>6. \A d \in Clients \ {c} : captureRow'[d] = captureRow[d]
    BY DEF wor_capture_receive, TypeInv, RowsTyped
<1>7. (pc'[c] = "write_send" => IsQuorum(captureRow'[c][x]))
        => CaptureReports(c, x)'
    <2>1. CASE Expected(c, m, "CAPTURE_ACK", captureRow) /\ Current(c, m)
        <3>1. /\ captureRow' = [captureRow EXCEPT ![c][x] = @ \cup {m.from}]
              /\ IF ReportsVote(c, m) THEN AdoptVote(c, m)
                 ELSE UNCHANGED cspace
            BY <1>1, <2>1 DEF wor_capture_receive
        <3> QED
            BY <1>1, <1>2, <1>4, <2>1, <3>1, CountedReports
    <2>2. CASE UNCHANGED <<captureRow, cspace>>
        BY <1>2, <1>4, <2>2
        DEF CaptureReports, Reported, VotedFor, acceptorVars
    <2> QED
        BY <2>1, <2>2 DEF wor_capture_receive
<1> QED
    BY <1>1, <1>2, <1>3, <1>5, <1>6, <1>7, AdoptVoteEffect, CaptureLoopInv

\* The end of every step of a client in its write loop.
LEMMA WriteLoopInv ==
    ASSUME TypeInv, TypeInv', IInv, NEW c \in Clients,
           pc[c] = "write_receive", UNCHANGED <<acceptorVars, proposed>>,
           BagToSet(net') \subseteq BagToSet(net), UNCHANGED captureRow,
           NEW m, UNCHANGED cspace \/ AdoptVote(c, m),
           NEW st, WriteLoop(c, st)
    PROVE  IInv'
<1>1. /\ UNCHANGED call
      /\ \A d \in Clients \ {c} : pc'[d] = pc[d]
      /\ pc'[c] \notin {"capture_receive", "write_send"}
    BY WriteLoopEffect
<1>2. OthersKeep(c)
    BY <1>1, AdoptVoteEffect DEF OthersKeep
<1>3. \A y \in Addr : cspace[c][y].prop <= cspace'[c][y].prop
    BY AdoptVoteEffect, ClientsAssumption
    DEF TypeInv, SpacesTyped, Entry, Proposal
<1>4. \A y \in Addr : ~Capturing(c, y)'
    BY <1>1 DEF Capturing
<1> QED
    BY <1>2, <1>3, <1>4, ClientKeeps


LEMMA WriteReceiveInv ==
    ASSUME TypeInv, TypeInv', IInv, NEW c \in Clients,
           NEW m \in BagToSet(net), wor_write_receive(c, m)
    PROVE  IInv'
<1>1. /\ pc[c] = "write_receive"
      /\ UNCHANGED <<acceptorVars, proposed, captureRow>>
      /\ BagToSet(net') \subseteq BagToSet(net)
    BY ReceiveInTransit DEF wor_write_receive, TypeInv, NetTyped, inputVars
<1>2. PICK st : WriteLoop(c, st)
    BY DEF wor_write_receive
<1>3. UNCHANGED cspace \/ AdoptVote(c, m)
    BY DEF wor_write_receive
<1> QED
    BY <1>1, <1>2, <1>3, WriteLoopInv

LEMMA ReceiveErrorInv ==
    ASSUME TypeInv, TypeInv', IInv, NEW c \in Clients, ReceiveError(c)
    PROVE  IInv'
<1>1. UNCHANGED <<net, acceptorVars, proposed, cspace, captureRow>>
    BY DEF ReceiveError, inputVars, spaceVars, rowVars
<1>2. CASE pc[c] = "capture_receive" /\ CaptureLoop(c, "OK")
    <2>1. PICK x \in Addr : x = call[c].addr
        BY <1>2 DEF TypeInv, ControlTyped, Call
    <2>2. CaptureReports(c, x)
        BY <1>2, <2>1 DEF IInv, CapturesReport, Capturing
    <2>3. (pc'[c] = "write_send" => IsQuorum(captureRow'[c][x]))
            => CaptureReports(c, x)'
        BY <1>1, <2>2 DEF CaptureReports, Reported, VotedFor, acceptorVars
    <2> QED
        BY <1>1, <1>2, <2>1, <2>3, CaptureLoopInv
<1>3. CASE pc[c] = "write_receive" /\ WriteLoop(c, "OK")
    BY <1>1, <1>3, WriteLoopInv
<1> QED
    BY <1>2, <1>3 DEF ReceiveError

\* What a client found in its capture round and is about to write is safe.
LEMMA CapturedIsSafe ==
    ASSUME TypeInv, IInv, NEW c \in Clients, NEW x \in Addr,
           x = call[c].addr, pc[c] = "write_send", Selected(c) # UndefCmd
    PROVE  /\ Selected(c) \in Cmd
           /\ IF cspace[c][x].vcmd = UndefCmd THEN Selected(c) = call[c].cmd
              ELSE Selected(c) \in proposed[x]
           /\ SafeAt(x, cspace[c][x].prop, Selected(c))
<1>1. PICK e \in Entry : e = cspace[c][x]
    BY DEF TypeInv, SpacesTyped
<1>2. CaptureReports(c, x)
    BY DEF IInv, CapturesReport, Capturing
<1> DEFINE Q == captureRow[c][x] \cap RowIndices
<1>3. Q \in Majority
    BY <1>2, QuorumIsMajority DEF CaptureReports, TypeInv, RowsTyped
<1>4. \A a \in Q : a \in Acceptors /\ Reported(a, x, e.prop, e.vprop)
    BY <1>1, <1>2 DEF CaptureReports, TypeInv, RowsTyped
<1>5. /\ e.prop \in Nat /\ e.vprop \in Nat
      /\ \A a \in Acceptors : aspace[a][x].prop \in Nat
    BY <1>1, ClientsAssumption
    DEF TypeInv, AcceptorsTyped, Entry, Proposal
\* No vote of Q lies between the one the client keeps and its number.
<1>6. ASSUME NEW q \in Proposal, e.vprop < q, q < e.prop, NEW a \in Q
      PROVE  WontVote(a, x, q)
    <2>1. q \in Nat
        BY ClientsAssumption DEF Proposal
    <2>2. aspace[a][x].prop > q
        BY <1>4, <1>5, <1>6, <2>1 DEF Reported
    <2>3. ASSUME NEW v \in Cmd, <<q, v>> \in votes[a][x] PROVE FALSE
        <3>1. <<q, v>>[1] <= e.vprop
            BY <1>4, <1>6, <2>3 DEF Reported
        <3> QED
            BY <1>5, <1>6, <2>1, <3>1
    <2> QED
        BY <2>2, <2>3 DEF WontVote, VotedFor
<1>7. CASE e.vprop = PROP_UNDEF /\ e.vcmd = UndefCmd
    <2>1. Selected(c) = call[c].cmd
        BY <1>1, <1>7 DEF Selected
    <2>2. call[c] \in Call
        BY DEF TypeInv, ControlTyped
    <2>3. call[c].cmd \in Cmd
        BY <2>1, <2>2 DEF Call
    <2>4. ASSUME NEW q \in Proposal, q < e.prop, NEW a \in Q
          PROVE  WontVote(a, x, q)
        <3>1. CASE q = PROP_UNDEF
            <4>1. aspace[a][x].prop > q
                BY <1>4, <1>5, <2>4, <3>1 DEF Reported, PROP_UNDEF
            <4>2. ASSUME NEW v \in Cmd, <<q, v>> \in votes[a][x] PROVE FALSE
                <5>1. <<q, v>>[1] # PROP_UNDEF
                    BY <1>4, <4>2
                    DEF IInv, EntriesHoldVotes, EntryHoldsVotes
                <5> QED
                    BY <3>1, <5>1
            <4> QED
                BY <4>1, <4>2 DEF WontVote, VotedFor
        <3>2. CASE q # PROP_UNDEF
            BY <1>6, <1>7, <2>4, <3>2, ClientsAssumption
            DEF Proposal, PROP_UNDEF
        <3> QED
            BY <3>1, <3>2
    <2>5. SafeAt(x, e.prop, Selected(c))
        BY <1>3, <2>4 DEF SafeAt
    <2> QED
        BY <1>1, <1>7, <2>1, <2>3, <2>5
<1>8. CASE \E a \in Acceptors : VotedFor(a, x, e.vprop, e.vcmd)
    <2>1. PICK b \in Acceptors : VotedFor(b, x, e.vprop, e.vcmd)
        BY <1>8
    <2>2. e.vcmd \in Cmd /\ e.vprop \in Proposal
        BY <2>1 DEF TypeInv, AcceptorsTyped, VotedFor
    <2>3. Selected(c) = e.vcmd
        BY <1>1, <2>2, CommandAssumption DEF Selected
    <2> DEFINE r == <<e.vprop, e.vcmd>>
    <2>4. r \in Asked(x)
        BY <2>1, VotesAsked
    <2>5. r[2] \in proposed[x] /\ SafeAt(x, r[1], r[2])
        BY <2>4 DEF IInv, AskedIsProposed, AskedIsSafe
    <2>6. ASSUME NEW a \in Q, NEW v \in Cmd, VotedFor(a, x, e.vprop, v)
          PROVE  v = e.vcmd
        <3>1. <<e.vprop, v>> \in Asked(x)
            BY <1>4, <2>6, VotesAsked
        <3> QED
            BY <2>4, <3>1 DEF IInv, OneCommandAsked
    <2>7. ASSUME NEW q \in Proposal, q < e.prop
          PROVE  \E R \in Majority : \A a \in R :
                    VotedFor(a, x, q, e.vcmd) \/ WontVote(a, x, q)
        <3>1. CASE q < e.vprop
            BY <2>5, <3>1 DEF SafeAt
        <3>2. CASE q = e.vprop
            <4>1. \A a \in Q : aspace[a][x].prop > q
                BY <1>4, <1>5, <2>7, <3>2 DEF Reported
            <4>2. \A a \in Q :
                    VotedFor(a, x, q, e.vcmd) \/ WontVote(a, x, q)
                BY <2>6, <3>2, <4>1 DEF WontVote
            <4> QED
                BY <1>3, <4>2
        <3>3. CASE e.vprop < q
            BY <1>3, <1>6, <2>7, <3>3
        <3> QED
            BY <1>5, <3>1, <3>2, <3>3, ClientsAssumption DEF Proposal
    <2>8. SafeAt(x, e.prop, e.vcmd)
        BY <2>7 DEF SafeAt
    <2> QED
        BY <1>1, <2>2, <2>3, <2>5, <2>8, CommandAssumption
<1> QED
    BY <1>1, <1>2, <1>7, <1>8 DEF CaptureReports


LEMMA WriteSendInv ==
    ASSUME TypeInv, TypeInv', IInv, NEW c \in Clients, wor_write_send(c)
    PROVE  IInv'
<1>1. PICK x \in Addr : x = call[c].addr
    BY DEF wor_write_send, TypeInv, ControlTyped, Call
<1>2. /\ pc[c] = "write_send"
      /\ UNCHANGED <<aspace, votes, cspace, captureRow>>
    BY DEF wor_write_send, acceptorVars, spaceVars, rowVars
<1>3. CASE /\ ReadReturns(c, "UNWRITTEN", UndefCmd)
           /\ UNCHANGED <<netVars, proposed>>
    <2>1. /\ pc' = [pc EXCEPT ![c] = "idle"]
          /\ UNCHANGED call
        BY <1>3, ReturnsEffect DEF Returns
    <2>2. OthersKeep(c)
        BY <1>2, <2>1 DEF OthersKeep, TypeInv, ControlTyped
    <2>3. \A y \in Addr : ~Capturing(c, y)'
        BY <2>1 DEF Capturing, TypeInv, ControlTyped
    <2>4. \A y \in Addr : cspace[c][y].prop <= cspace'[c][y].prop
        BY <1>2, ClientsAssumption DEF TypeInv, SpacesTyped, Entry, Proposal
    <2> QED
        BY <1>2, <1>3, <2>2, <2>3, <2>4, ClientKeeps
        DEF acceptorVars, netVars
<1>4. CASE /\ Selected(c) # UndefCmd
           /\ Broadcast([type : {"ACCEPT"}, client : {c}, to : Acceptors,
                         addr : {x}, prop : {cspace[c][x].prop},
                         vprop : {cspace[c][x].prop}, vcmd : {Selected(c)}])
           /\ proposed' = IF cspace[c][x].vcmd = UndefCmd
                          THEN [proposed EXCEPT ![x] = @ \cup {call[c].cmd}]
                          ELSE proposed
           /\ pc' = [pc EXCEPT ![c] = "write_receive"]
           /\ UNCHANGED call
    <2>1. PICK p \in Proposal, v \in Cmd :
            p = cspace[c][x].prop /\ v = Selected(c)
        BY <1>1, <1>2, <1>4, CapturedIsSafe DEF TypeInv, SpacesTyped, Entry
    <2> DEFINE r == <<p, v>>
    <2>2. /\ SafeAt(x, p, v)
          /\ v \in proposed'[x]
          /\ \A y \in Addr : proposed[y] \subseteq proposed'[y]
        BY <1>1, <1>2, <1>4, <2>1, CapturedIsSafe DEF TypeInv, InputsTyped
    <2>3. \A m \in BagToSet(net') :
            \/ m \in BagToSet(net)
            \/ /\ m.type = "ACCEPT" /\ m.addr = x
               /\ m.prop = p /\ m.vcmd = v
        <3>1. PICK requests :
                /\ \A m \in requests : /\ m.type = "ACCEPT" /\ m.addr = x
                                        /\ m.prop = p /\ m.vcmd = v
                /\ Broadcast(requests)
            BY <1>4, <2>1
        <3> QED
            BY <3>1, BroadcastInTransit DEF TypeInv, NetTyped
    <2>4. \A y \in Addr : \A s \in Asked(y)' :
            s \in Asked(y) \/ (y = x /\ s = r)
        BY <1>2, <2>3 DEF Asked, Accepts
    <2>5. /\ p % PropOne = c
          /\ \A s \in Asked(x) : s[1] # p \/ s = r
        <3>1. CaptureReports(c, x) /\ NumberUnused(c, x)
            BY <1>1, <1>2
            DEF IInv, CapturesReport, NumbersInOrder, Capturing
        <3>2. p % PropOne = c
            BY <2>1, <3>1 DEF CaptureReports
        <3>3. \A s \in Asked(x) : s[1] = p => s[1] < p
            BY <2>1, <3>1, <3>2 DEF NumberUnused
        <3> QED
            BY <3>2, <3>3, ClientsAssumption DEF Proposal
    <2>6. EntriesHoldVotes'
        BY <1>2 DEF IInv, EntriesHoldVotes, EntryHoldsVotes, VotedFor
    <2>7. AcksReport'
        BY <1>2, <2>3 DEF IInv, AcksReport, Reported, VotedFor
    <2>8. \A d \in Clients, y \in Addr : Capturing(d, y)'
            => /\ d # c /\ pc'[d] = pc[d]
               /\ Capturing(d, y)
        BY <1>4 DEF Capturing, TypeInv, ControlTyped
    <2>9. CapturesReport'
        BY <1>2, <2>8
        DEF IInv, CapturesReport, CaptureReports, Reported, VotedFor
    <2>10. NumbersInOrder'
        <3> SUFFICES ASSUME NEW d \in Clients, NEW y \in Addr
                     PROVE  /\ NumbersReached(d, y)'
                            /\ Capturing(d, y)' => NumberUnused(d, y)'
            BY DEF NumbersInOrder
        <3>1. /\ NumbersReached(d, y)
              /\ Capturing(d, y) => NumberUnused(d, y)
            BY DEF IInv, NumbersInOrder
        <3>2. NumbersReached(d, y)'
            BY <1>2, <2>1, <2>4, <2>5, <3>1, ClientsAssumption
            DEF NumbersReached, Proposal
        <3>3. Capturing(d, y)' => NumberUnused(d, y)'
            BY <1>2, <2>4, <2>5, <2>8, <3>1 DEF NumberUnused
        <3> QED
            BY <3>2, <3>3
    <2>11. OneCommandAsked'
        <3> SUFFICES ASSUME NEW y \in Addr, NEW s \in Asked(y)',
                            NEW t \in Asked(y)', s[1] = t[1]
                     PROVE  s[2] = t[2]
            BY DEF OneCommandAsked
        <3>1. CASE s \in Asked(y) /\ t \in Asked(y)
            BY <3>1 DEF IInv, OneCommandAsked
        <3>2. CASE y = x /\ (s = r \/ t = r)
            BY <2>4, <2>5, <3>2
        <3> QED
            BY <2>4, <3>1, <3>2
    <2>12. AskedIsSafe'
        <3> SUFFICES ASSUME NEW y \in Addr, NEW s \in Asked(y)'
                     PROVE  SafeAt(y, s[1], s[2])'
            BY DEF AskedIsSafe
        <3>1. CASE s \in Asked(y)
            BY <1>2, <3>1, UnchangedForward, SafeKept DEF acceptorVars
        <3>2. CASE y = x /\ s = r
            <4>1. SafeAt(x, p, v)'
                BY <1>2, <2>2, UnchangedForward, SafeStable DEF acceptorVars
            <4> QED
                BY <3>2, <4>1
        <3> QED
            BY <2>4, <3>1, <3>2
    <2>13. AskedIsProposed'
        BY <2>2, <2>4 DEF IInv, AskedIsProposed
    <2> QED
        BY <2>6, <2>7, <2>9, <2>10, <2>11, <2>12, <2>13 DEF IInv
<1> QED
    BY <1>1, <1>3, <1>4 DEF wor_write_send

LEMMA NextInv == TypeInv /\ IInv /\ [Next]_vars => IInv'
<1> SUFFICES ASSUME TypeInv, IInv, [Next]_vars PROVE IInv'
    OBVIOUS
<1>1. TypeInv'
    BY NextTyped
<1>2. CASE UNCHANGED vars
    BY <1>2
    DEF IInv, EntriesHoldVotes, EntryHoldsVotes, AcksReport, CapturesReport,
        CaptureReports, NumbersInOrder, NumbersReached, NumberUnused,
        OneCommandAsked, AskedIsSafe, AskedIsProposed, Asked, Accepts, SafeAt,
        WontVote, VotedFor, Reported, Capturing, vars, netVars, acceptorVars,
        clientVars, spaceVars, rowVars, controlVars, inputVars
<1>3. ASSUME NEW a \in Up, acceptor_msg_handler(a) PROVE IInv'
    BY <1>1, <1>3, UpAssumption, HandleCaptureInv, HandleAcceptInv
    DEF acceptor_msg_handler
<1>4. ASSUME NEW c \in Clients, ClientStep(c) PROVE IInv'
    <2>1. ASSUME client_receive(c) PROVE IInv'
        BY <1>1, <2>1, CaptureReceiveInv, WriteReceiveInv DEF client_receive
    <2> QED
        BY <1>1, <1>4, <2>1, CallInv, CaptureSendInv, WriteSendInv,
           ReceiveErrorInv
        DEF ClientStep
<1> QED
    BY <1>2, <1>3, <1>4 DEF Next

-----------------------------------------------------------------------------
(***************************************************************************)
(* The theorems.                                                           *)
(***************************************************************************)
THEOREM Invariance == Spec => [](TypeInv /\ IInv)
<1>1. Init => TypeInv /\ IInv
    BY InitTyped, InitInv
<1>2. TypeInv /\ IInv /\ [Next]_vars => (TypeInv /\ IInv)'
    BY NextTyped, NextInv
<1> QED
    BY <1>1, <1>2, PTL DEF Spec

(***************************************************************************)
(* At most one command is ever chosen at an address, for every number of   *)
(* acceptors num_acceptors_set admits, although acceptor N is not counted. *)
(***************************************************************************)
THEOREM AgreementHolds == Spec => []Agreement
BY Invariance, InvAgreement, PTL

(***************************************************************************)
(* All votes under one proposal number are for one command: the ids keep   *)
(* the numbers of the clients apart and no client uses one twice.          *)
(***************************************************************************)
THEOREM OneCommandHolds == Spec => []OneCommandPerProposal
BY Invariance, InvOneCommand, PTL


-----------------------------------------------------------------------------
(***************************************************************************)
(* Wor implements WriteOnce.                                               *)
(***************************************************************************)
LEMMA RegisterFacts ==
    ASSUME NEW x \in Addr
    PROVE  /\ register[x] \subseteq Cmd
           /\ \A v \in Cmd : v \in register[x] <=> Chosen(x, v)
BY DEF register

LEMMA ChosenKept ==
    ASSUME TypeInv, TypeInv', AcceptorsForward, NEW x \in Addr,
           NEW v \in Cmd, Chosen(x, v)
    PROVE  Chosen(x, v)'
<1>1. PICK a \in Acceptors : \E r \in votes[a][x] :
        r[2] = v /\ ChosenAt(x, r[1], v)
    BY DEF Chosen
<1>2. PICK r \in votes[a][x] : r[2] = v /\ ChosenAt(x, r[1], v)
    BY <1>1
<1> DEFINE p == r[1]
           V == {b \in Acceptors : <<p, v>> \in votes[b][x]}
           W == {b \in Acceptors : <<p, v>> \in votes'[b][x]}
<1>3. NumAcceptors \in Nat
    BY AcceptorsAssumption DEF MIN_ACCEPTORS, MAX_ACCEPTORS
<1>4. IsFiniteSet(W) /\ IsFiniteSet(V) /\ V \subseteq W
    <2>1. V \subseteq W
        BY DEF AcceptorsForward
    <2>2. IsFiniteSet(Acceptors)
        BY <1>3, FS_Interval DEF Acceptors
    <2>3. V \subseteq Acceptors /\ W \subseteq Acceptors
        OBVIOUS
    <2> HIDE DEF V, W
    <2> QED
        BY <2>1, <2>2, <2>3, FS_Subset
<1>5. Cardinality(V) \in Nat /\ Cardinality(W) \in Nat
      /\ Cardinality(V) <= Cardinality(W)
    BY <1>4, FS_Subset, FS_CardinalityType
<1>6. 2 * Cardinality(V) > NumAcceptors
    BY <1>2 DEF ChosenAt, Majority, VotedFor
<1>7. W \in Majority
    BY <1>3, <1>5, <1>6 DEF Majority
<1>8. r \in votes'[a][x] /\ r[2] = v /\ ChosenAt(x, r[1], v)'
    BY <1>2, <1>7 DEF ChosenAt, VotedFor, AcceptorsForward
<1> QED
    BY <1>8 DEF Chosen

LEMMA ChosenIsProposed ==
    ASSUME TypeInv, IInv, NEW x \in Addr, NEW v \in Cmd, Chosen(x, v)
    PROVE  v \in proposed[x]
<1>1. PICK a \in Acceptors : \E r \in votes[a][x] : r[2] = v
    BY DEF Chosen
<1>2. PICK r \in Asked(x) : r[2] = v
    BY <1>1 DEF Asked
<1> QED
    BY <1>2 DEF IInv, AskedIsProposed

LEMMA RegisterOfVotes == UNCHANGED votes => UNCHANGED register
BY DEF register, Chosen, ChosenAt, VotedFor

LEMMA InitRefines == Init => WriteOnceRegisters!Init
<1> SUFFICES ASSUME Init PROVE WriteOnceRegisters!Init
    OBVIOUS
<1>1. \A x \in Addr, v \in Cmd : ~Chosen(x, v)
    BY DEF Init, Chosen
<1>2. register = [x \in Addr |-> {}]
    BY <1>1 DEF register
<1> QED
    BY <1>2 DEF Init, WriteOnceRegisters!Init

\* A vote may complete the majority of one command at one address, and only
\* where nothing was chosen before.
LEMMA VoteDecides ==
    ASSUME TypeInv, TypeInv', IInv, IInv', AcceptorsForward,
           UNCHANGED proposed, NEW x \in Addr,
           \A y \in Addr, a \in Acceptors :
                y # x => votes'[a][y] = votes[a][y]
    PROVE  \/ UNCHANGED register
           \/ \E v \in Cmd : WriteOnceRegisters!Decide(x, v)
<1>1. ASSUME NEW y \in Addr, y # x PROVE register'[y] = register[y]
    <2>1. \A p, v : ChosenAt(y, p, v)' <=> ChosenAt(y, p, v)
        BY <1>1 DEF ChosenAt, VotedFor
    <2>2. \A v : Chosen(y, v)' <=> Chosen(y, v)
        BY <1>1, <2>1 DEF Chosen
    <2> QED
        BY <2>2 DEF register
<1>2. register[x] \subseteq register'[x] /\ register'[x] \subseteq Cmd
    BY ChosenKept DEF register
<1>3. /\ register = [y \in Addr |-> register[y]]
      /\ register' = [y \in Addr |-> register'[y]]
    BY DEF register
<1>4. CASE register'[x] = register[x]
    BY <1>1, <1>3, <1>4
<1>5. CASE register'[x] # register[x]
    <2>1. PICK v \in Cmd : v \in register'[x] /\ v \notin register[x]
        BY <1>2, <1>5
    <2>2. Agreement'
        <3>1. (TypeInv /\ IInv => Agreement)'
            BY InvAgreement, PTL
        <3> QED
            BY <3>1
    <2>3. \A w \in Cmd : w \in register'[x] <=> Chosen(x, w)'
        BY DEF register
    <2>4. register'[x] = {v}
        BY <1>2, <2>1, <2>2, <2>3 DEF Agreement
    <2>5. register[x] = {}
        BY <1>2, <2>1, <2>4
    <2>6. v \in proposed[x]
        <3>1. Chosen(x, v)'
            BY <2>1, <2>3
        <3>2. PICK a \in Acceptors : \E r \in votes'[a][x] : r[2] = v
            BY <3>1 DEF Chosen
        <3>3. PICK r \in Asked(x)' : r[2] = v
            BY <3>2 DEF Asked
        <3> QED
            BY <3>3 DEF IInv, AskedIsProposed
    <2>7. register' = [register EXCEPT ![x] = {v}]
        BY <1>1, <1>3, <2>4
    <2> QED
        BY <2>5, <2>6, <2>7 DEF WriteOnceRegisters!Decide
<1> QED
    BY <1>4, <1>5

\* A client that found no command asks for its own.
LEMMA WriteSendProposes ==
    ASSUME TypeInv, IInv, NEW c \in Clients, wor_write_send(c),
           ~UNCHANGED proposed
    PROVE  \E x \in Addr, v \in Cmd :
                proposed' = [proposed EXCEPT ![x] = @ \cup {v}]
<1>1. PICK x \in Addr : x = call[c].addr
    BY DEF wor_write_send, TypeInv, ControlTyped, Call
<1>2. /\ pc[c] = "write_send"
      /\ Selected(c) # UndefCmd
      /\ cspace[c][x].vcmd = UndefCmd
      /\ proposed' = [proposed EXCEPT ![x] = @ \cup {call[c].cmd}]
    BY <1>1 DEF wor_write_send
<1>3. call[c].cmd \in Cmd
    BY <1>1, <1>2, CapturedIsSafe
<1> QED
    BY <1>2, <1>3

LEMMA NextRefines ==
    ASSUME TypeInv, IInv, [Next]_vars
    PROVE  [WriteOnceRegisters!Next]_<<proposed, register>>
<1>1. TypeInv' /\ IInv'
    BY NextTyped, NextInv
<1>2. CASE UNCHANGED vars
    BY <1>2, RegisterOfVotes
    DEF vars, acceptorVars, clientVars, inputVars
<1>3. ASSUME NEW a \in Up, NEW m \in BagToSet(net), HandleCapture(a, m)
      PROVE  UNCHANGED <<proposed, register>>
    BY <1>3, RegisterOfVotes DEF HandleCapture, clientVars, inputVars
<1>4. ASSUME NEW a \in Up, NEW m \in BagToSet(net), HandleAccept(a, m)
      PROVE  [WriteOnceRegisters!Next]_<<proposed, register>>
    <2>1. m.addr \in Addr
        BY <1>4, MessageTypes DEF TypeInv, NetTyped, HandleAccept, Request
    <2>2. UNCHANGED proposed
        BY <1>4 DEF HandleAccept, clientVars, inputVars
    <2>3. \/ UNCHANGED register
          \/ \E v \in Cmd : WriteOnceRegisters!Decide(m.addr, v)
        BY <1>1, <1>4, <2>1, <2>2, UpAssumption, HandleAcceptEffect,
           VoteDecides
    <2> QED
        BY <2>1, <2>2, <2>3 DEF WriteOnceRegisters!Next
<1>5. ASSUME NEW c \in Clients, ClientStep(c)
      PROVE  [WriteOnceRegisters!Next]_<<proposed, register>>
    <2>1. UNCHANGED register
        BY <1>5, RegisterOfVotes
        DEF ClientStep, wor_capture_and_write, wor_read, Called,
            wor_capture_send, wor_write_send, client_receive,
            wor_capture_receive, wor_write_receive, ReceiveError,
            acceptorVars
    <2>2. ASSUME wor_write_send(c), ~UNCHANGED proposed
          PROVE  WriteOnceRegisters!Next
        <3>1. PICK x \in Addr, v \in Cmd :
                proposed' = [proposed EXCEPT ![x] = @ \cup {v}]
            BY <2>2, WriteSendProposes
        <3> QED
            BY <2>1, <3>1
            DEF WriteOnceRegisters!Next, WriteOnceRegisters!Propose
    <2>3. wor_write_send(c) \/ UNCHANGED proposed
        BY <1>5
        DEF ClientStep, wor_capture_and_write, wor_read, wor_capture_send,
            client_receive, wor_capture_receive, wor_write_receive,
            ReceiveError, inputVars
    <2> QED
        BY <2>1, <2>2, <2>3
<1> QED
    BY <1>2, <1>3, <1>4, <1>5 DEF Next, acceptor_msg_handler

(***************************************************************************)
(* Capture and write rounds implement write-once registers: what becomes   *)
(* chosen at an address is the command of some wor_capture_and_write, and  *)
(* stays chosen for ever, whatever is lost, delayed, reordered or          *)
(* duplicated.                                                             *)
(***************************************************************************)
THEOREM RefinesWriteOnce == Spec => ImplementsWriteOnce
<1>1. Init => WriteOnceRegisters!Init
    BY InitRefines
<1>2. TypeInv /\ IInv /\ [Next]_vars
        => [WriteOnceRegisters!Next]_<<proposed, register>>
    BY NextRefines
<1> QED
    BY <1>1, <1>2, Invariance, PTL
    DEF Spec, ImplementsWriteOnce, WriteOnceRegisters!Spec,
        WriteOnceRegisters!vars
=============================================================================
