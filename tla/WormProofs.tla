----------------------------- MODULE WormProofs -----------------------------
(***************************************************************************)
(* The segmented log, for every number and size of segments, any number of *)
(* clients and whatever the calls of the registers answer.  Its properties *)
(* hold together: a client initialises the body of a segment while it has  *)
(* written nothing there, since it writes to a body only once it has a     *)
(* tail, and takes a segment for its own only while it has none.           *)
(***************************************************************************)
EXTENDS WormSharedLog, RegisterTypes

Owners == [Clients -> [Segments -> Clients \cup {NODE_ID_UNDEF}]]

USE DEF Owners

\* The places where c waits for a call on the first register of a segment.
FirstPlaces == {"alloc_owner", "append_owner", "alloc_write"}

AppendPlaces == {"append", "append_owner", "append_write"}

\* What client c is doing fits the call it is in, or got an answer from.
PlaceFits(c) ==
    /\ at[c] # "beyond" => seg[c] \in Segments
    /\ at[c] \in AppendPlaces => cmd[c] # UndefCmd
    /\ at[c] = "append_owner" => current[c] = seg[c]
    /\ at[c] \in {"alloc_owner", "alloc_write"}
            => owner[c][seg[c]] = NODE_ID_UNDEF
    /\ at[c] = "append_write" => current[c] = 0 /\ tail[c][0] \in Body(0)

CallFits(c) ==
    Busy(c) =>
        \/ /\ at[c] \in {"alloc_owner", "append_owner"}
           /\ doing[c].op = "read"
           /\ doing[c].addr = SEG_FIRST(seg[c])
        \/ /\ at[c] = "alloc_write"
           /\ doing[c].op = "write"
           /\ doing[c].addr = SEG_FIRST(seg[c])
        \/ /\ at[c] = "append_write"
           /\ doing[c].op = "write"
           /\ doing[c].addr = tail[c][0]

AnswerFits(c) ==
    ~Busy(c) =>
        /\ at[c] \in {"alloc_owner", "append_owner"} /\ answer[c] = "OK"
                => HoldsCmd(c, SEG_FIRST(seg[c]), readCmd[c])
        /\ at[c] = "alloc_write" /\ answer[c] = "OK"
                => Written(c, SEG_FIRST(seg[c]))
        /\ at[c] = "append_write"
                => \/ answer[c] = "TIMEOUT"
                   \/ /\ answer[c] \in {"OK", "ALREADYWRITTEN"}
                      /\ Written(c, tail[c][0])
-----------------------------------------------------------------------------
\* What c keeps of the segments: an owner is one it found or made, a tail is
\* set for an owned segment only, and no body but the first is ever written.
OwnersFound(c) ==
    \A s \in Segments : owner[c][s] # NODE_ID_UNDEF =>
        /\ Written(c, SEG_FIRST(s))
        /\ owner[c][s] # c => HoldsCmd(c, SEG_FIRST(s), OwnerCmd[owner[c][s]])

TailsSet(c) ==
    \A s \in Segments : tail[c][s] # 0 =>
        /\ owner[c][s] # NODE_ID_UNDEF
        /\ s # 0 => tail[c][s] = SEG_FIRST(s) + 1

BodiesEmpty(c) ==
    \A s \in Segments : \A x \in Body(s) :
        Written(c, x) => s = 0 /\ tail[c][0] # 0

FirstFilled(c) == \A x \in Body(0) : x < tail[c][0] => Written(c, x)

SegmentsFit(c) ==
    /\ OwnersFound(c)
    /\ TailsSet(c)
    /\ BodiesEmpty(c)
    /\ FirstFilled(c)

ClientInv(c) ==
    /\ PlaceFits(c)
    /\ CallFits(c)
    /\ AnswerFits(c)
    /\ SegmentsFit(c)
    /\ SureWritten(c)

WormInv ==
    /\ RegistersTyped
    /\ WormTypeOK
    /\ WrittenOnce
    /\ \A c \in Clients : ClientInv(c)
-----------------------------------------------------------------------------
\* No register belongs to two segments, or is both a first one and in a body.
LEMMA SegmentAddresses ==
    /\ 0 \in Segments
    /\ SEG_FIRST(0) = 0
    /\ Body(0) = 1 .. WosSize - 1
    /\ \A s \in Segments : SEG_FIRST(s) \in Addr /\ Body(s) \subseteq Addr
    /\ \A s, t \in Segments : SEG_FIRST(s) \notin Body(t)
    /\ \A s \in Segments : SEG_FIRST(s) + 1 \in Nat \ {0}
    /\ \A s \in Segments : s # 0 => Body(0) \cap Body(s) = {}
<1> DEFINE W == WosSize
<1>1. /\ W \in Nat /\ W > 1
      /\ NumSegments \in Nat /\ NumSegments > 0
      /\ Addr = 0 .. NumSegments * W - 1
    BY SegmentsAssumption
<1>2. 0 \in Segments /\ SEG_FIRST(0) = 0 /\ Body(0) = 1 .. W - 1
    BY <1>1 DEF Segments, SEG_FIRST, Body, SEG_LAST
<1>3. ASSUME NEW s \in Nat, NEW t \in Nat, s < t
      PROVE  s * W + W <= t * W
    <2>1. PICK k \in Nat : t = s + 1 + k
        <3>1. t - s - 1 \in Nat
            BY <1>3
        <3> QED
            BY <1>3, <3>1
    <2>2. t * W = s * W + W + k * W /\ k * W \in Nat /\ s * W \in Nat
        BY <1>1, <1>3, <2>1
    <2> QED
        BY <1>1, <2>2
<1>4. ASSUME NEW s \in Segments
      PROVE  /\ SEG_FIRST(s) \in Addr
             /\ Body(s) \subseteq Addr
             /\ SEG_FIRST(s) + 1 \in Nat \ {0}
    <2>1. s \in Nat /\ s < NumSegments /\ s * W \in Nat
          /\ NumSegments * W \in Nat
        BY <1>1 DEF Segments
    <2>2. s * W + W <= NumSegments * W
        BY <1>1, <1>3, <2>1
    <2> QED
        BY <1>1, <2>1, <2>2 DEF SEG_FIRST, Body, SEG_LAST
<1>5. ASSUME NEW s \in Segments, NEW t \in Segments
      PROVE  SEG_FIRST(s) \notin Body(t)
    <2>1. s \in Nat /\ t \in Nat /\ s * W \in Nat /\ t * W \in Nat
        BY <1>1 DEF Segments
    <2>2. CASE s = t
        BY <1>1, <2>1, <2>2 DEF SEG_FIRST, Body, SEG_LAST
    <2>3. CASE s < t
        <3>1. s * W + W <= t * W
            BY <1>3, <2>1, <2>3
        <3> QED
            BY <1>1, <2>1, <3>1 DEF SEG_FIRST, Body, SEG_LAST
    <2>4. CASE t < s
        <3>1. t * W + W <= s * W
            BY <1>3, <2>1, <2>4
        <3> QED
            BY <1>1, <2>1, <3>1 DEF SEG_FIRST, Body, SEG_LAST
    <2> QED
        BY <2>1, <2>2, <2>3, <2>4
<1>6. ASSUME NEW s \in Segments, s # 0
      PROVE  Body(0) \cap Body(s) = {}
    <2>1. s \in Nat /\ 0 < s /\ s * W \in Nat
        BY <1>1, <1>6 DEF Segments
    <2>2. W <= s * W
        BY <1>1, <1>3, <2>1
    <2> QED
        BY <1>1, <1>2, <2>1, <2>2 DEF SEG_FIRST, Body, SEG_LAST
<1> QED
    BY <1>1, <1>2, <1>4, <1>5, <1>6

\* The address an append is made to lies in the first segment, or nowhere: the
\* tail of another one is not an offset, and has led past the segment's end.
LEMMA TailAddress ==
    /\ \A t \in Nat : SEG_ADDR(0, t) = t
    /\ \A s \in Segments : s # 0 =>
        /\ SEG_ADDR(s, 0) \notin Body(s)
        /\ SEG_ADDR(s, SEG_FIRST(s) + 1) \notin Body(s)
<1> DEFINE W == WosSize
<1>1. W \in Nat /\ W > 1 /\ NumSegments \in Nat
    BY SegmentsAssumption
<1>2. \A t \in Nat : SEG_ADDR(0, t) = t
    BY <1>1 DEF SEG_ADDR, SEG_FIRST
<1>3. ASSUME NEW s \in Segments, s # 0
      PROVE  /\ SEG_ADDR(s, 0) \notin Body(s)
             /\ SEG_ADDR(s, SEG_FIRST(s) + 1) \notin Body(s)
    <2>1. s - 1 \in Nat /\ s \in Nat /\ s * W \in Nat
        BY <1>1, <1>3 DEF Segments
    <2>2. s * W = W + (s - 1) * W /\ (s - 1) * W \in Nat
        BY <1>1, <2>1
    <2>3. s * W >= W
        BY <1>1, <2>2
    <2> QED
        BY <1>1, <2>1, <2>3 DEF SEG_ADDR, SEG_FIRST, SEG_LAST, Body
<1> QED
    BY <1>2, <1>3
-----------------------------------------------------------------------------
\* The clients but c stay where they are in the log.
OthersStay(c) ==
    \A d \in Clients \ {c} :
        /\ current'[d] = current[d]
        /\ owner'[d] = owner[d]
        /\ tail'[d] = tail[d]
        /\ at'[d] = at[d]
        /\ seg'[d] = seg[d]
        /\ cmd'[d] = cmd[d]

KeepsWritten == \A c \in Clients, x \in Addr : Written(c, x) => Written(c, x)'

LEMMA OthersInv ==
    ASSUME WormInv, NEW c \in Clients, NEW d \in Clients, d # c,
           OthersKeep(c), OthersStay(c), RegistersGrow
    PROVE  ClientInv(d)'
<1>1. /\ doing'[d] = doing[d]
      /\ held'[d] = held[d]
      /\ answer'[d] = answer[d]
      /\ readCmd'[d] = readCmd[d]
    BY DEF OthersKeep
<1>2. /\ current'[d] = current[d]
      /\ owner'[d] = owner[d]
      /\ tail'[d] = tail[d]
      /\ at'[d] = at[d]
      /\ seg'[d] = seg[d]
      /\ cmd'[d] = cmd[d]
    BY DEF OthersStay
<1>3. ClientInv(d)
    BY DEF WormInv
<1>4. PlaceFits(d)'
    BY <1>2, <1>3 DEF ClientInv, PlaceFits
<1>5. CallFits(d)'
    BY <1>1, <1>2, <1>3 DEF ClientInv, CallFits, Busy
<1>6. AnswerFits(d)'
    BY <1>1, <1>2, <1>3 DEF ClientInv, AnswerFits, Busy, HoldsCmd, Written
<1>7. SegmentsFit(d)'
    BY <1>1, <1>2, <1>3
    DEF ClientInv, SegmentsFit, OwnersFound, TailsSet, BodiesEmpty,
        FirstFilled, HoldsCmd, Written
<1>8. SureWritten(d)'
    BY <1>1, <1>3 DEF ClientInv, SureWritten, RegistersGrow
<1> QED
    BY <1>4, <1>5, <1>6, <1>7, <1>8 DEF ClientInv

\* The step of a client that begins a call of the registers, or none.
Quiet(c) ==
    /\ RegistersTyped'
    /\ UNCHANGED <<register, held>>
    /\ OthersKeep(c)

LEMMA QuietInv ==
    ASSUME WormInv, NEW c \in Clients, Quiet(c), OthersStay(c), WormTypeOK',
           PlaceFits(c)', CallFits(c)', AnswerFits(c)', SegmentsFit(c)'
    PROVE  WormInv' /\ KeepsWritten
<1>1. RegistersGrow /\ KeepsWritten /\ WrittenOnce'
    BY DEF Quiet, RegistersGrow, KeepsWritten, Written, WormInv, WrittenOnce
<1>2. SureWritten(c)'
    BY DEF Quiet, WormInv, ClientInv, SureWritten
<1>3. ClientInv(c)'
    BY <1>2 DEF ClientInv
<1>4. \A d \in Clients : ClientInv(d)'
    BY <1>1, <1>3, OthersInv DEF Quiet
<1> QED
    BY <1>1, <1>4 DEF Quiet, WormInv

LEMMA CallsQuiet ==
    ASSUME WormInv, NEW c \in Clients
    PROVE  /\ UNCHANGED registerCallVars => Quiet(c)
           /\ \A x \in Addr, v \in Cmd :
                wor_capture_and_write(c, x, v) => Quiet(c)
           /\ \A x \in Addr : wor_read(c, x) => Quiet(c)
<1>1. RegistersTyped
    BY DEF WormInv
<1>2. ASSUME UNCHANGED registerCallVars PROVE Quiet(c)
    BY <1>1, <1>2, RegistersKept
    DEF registerCallVars, registerVars, callVars, Quiet, OthersKeep
<1>3. ASSUME NEW x \in Addr, NEW v \in Cmd, wor_capture_and_write(c, x, v)
      PROVE  Quiet(c)
    BY <1>1, <1>3, WriteCallEffect DEF Quiet, registerVars
<1>4. ASSUME NEW x \in Addr, wor_read(c, x) PROVE Quiet(c)
    BY <1>1, <1>4, ReadCallEffect DEF Quiet, registerVars
<1> QED
    BY <1>2, <1>3, <1>4

\* What c keeps of the segments, where a step leaves the registers alone.
LEMMA SegmentsSame ==
    ASSUME WormInv, NEW c \in Clients, Quiet(c),
           owner'[c] = owner[c], tail'[c] = tail[c]
    PROVE  SegmentsFit(c)'
BY DEF Quiet, WormInv, ClientInv, SegmentsFit, OwnersFound, TailsSet,
       BodiesEmpty, FirstFilled, HoldsCmd, Written

LEMMA SegmentInitFits ==
    ASSUME WormInv, NEW c \in Clients, Quiet(c),
           NEW s \in Segments, NEW d \in Clients, segment_init(c, s, d),
           Written(c, SEG_FIRST(s)),
           d # c => HoldsCmd(c, SEG_FIRST(s), OwnerCmd[d])
    PROVE  /\ SegmentsFit(c)'
           /\ owner' \in Owners
           /\ tail' \in [Clients -> [Segments -> Nat]]
           /\ \A e \in Clients \ {c} :
                   owner'[e] = owner[e] /\ tail'[e] = tail[e]
           /\ owner'[c] = [owner[c] EXCEPT ![s] = d]
<1>1. /\ owner \in Owners
      /\ tail \in [Clients -> [Segments -> Nat]]
      /\ SegmentsFit(c)
    BY DEF WormInv, WormTypeOK, ClientInv
<1>2. /\ owner' = [owner EXCEPT ![c][s] = d]
      /\ tail' = [tail EXCEPT ![c][s] = SEG_FIRST(s) + 1]
      /\ SEG_FIRST(s) + 1 \in Nat \ {0}
      /\ held' = held
    BY SegmentAddresses DEF segment_init, Quiet
<1>3. /\ owner' \in Owners
      /\ tail' \in [Clients -> [Segments -> Nat]]
      /\ \A e \in Clients \ {c} :
              owner'[e] = owner[e] /\ tail'[e] = tail[e]
    BY <1>1, <1>2
<1>4. /\ owner'[c] = [owner[c] EXCEPT ![s] = d]
      /\ tail'[c] = [tail[c] EXCEPT ![s] = SEG_FIRST(s) + 1]
      /\ d # NODE_ID_UNDEF
    BY <1>1, <1>2, WormCommandsAssumption
<1>5. OwnersFound(c)'
    BY <1>1, <1>2, <1>4 DEF SegmentsFit, OwnersFound, HoldsCmd, Written
<1>6. TailsSet(c)'
    BY <1>1, <1>2, <1>4 DEF SegmentsFit, TailsSet
<1>7. BodiesEmpty(c)'
    BY <1>1, <1>2, <1>4, SegmentAddresses DEF SegmentsFit, BodiesEmpty, Written
<1>8. FirstFilled(c)'
    <2> SUFFICES ASSUME NEW x \in Body(0), x < tail'[c][0]
                 PROVE  Written(c, x)'
        BY DEF FirstFilled
    <2>1. x \in Nat /\ x >= 1 /\ 0 \in Segments
        BY SegmentAddresses, SegmentsAssumption
    <2>2. s # 0
        BY <1>1, <1>4, <2>1, SegmentAddresses
    <2>3. tail'[c][0] = tail[c][0]
        BY <1>1, <1>4, <2>1, <2>2
    <2> QED
        BY <1>1, <1>2, <2>3 DEF SegmentsFit, FirstFilled, Written
<1> QED
    BY <1>3, <1>4, <1>5, <1>6, <1>7, <1>8 DEF SegmentsFit
-----------------------------------------------------------------------------
\* Where c is not in a call of the registers, it is in none.
LEMMA Idle ==
    ASSUME WormInv, NEW c \in Clients,
           at[c] \in {"idle", "alloc", "append", "beyond"}
    PROVE  ~Busy(c)
BY DEF WormInv, ClientInv, CallFits

\* c asks for the first register of the segment it works on.
LEMMA ReadBegins ==
    ASSUME WormInv, NEW c \in Clients, NEW s \in Segments,
           wor_read(c, SEG_FIRST(s)), seg'[c] = s,
           at'[c] \in {"alloc_owner", "append_owner"}
    PROVE  Quiet(c) /\ CallFits(c)' /\ AnswerFits(c)'
<1>1. PICK x \in Addr : x = SEG_FIRST(s) /\ wor_read(c, x)
    BY SegmentAddresses
<1>2. Quiet(c)
    BY <1>1, CallsQuiet
<1>3. RegistersTyped /\ ~Busy(c)
    BY <1>1 DEF WormInv, wor_read
<1>4. \/ /\ doing'[c].op = "read"
         /\ doing'[c].addr = x
      \/ /\ ~Busy(c)'
         /\ answer'[c] = "ALREADYWRITTEN"
    <2>1. \/ doing'[c] = [op |-> "read", addr |-> x, cmd |-> UndefCmd]
          \/ doing'[c] = doing[c] /\ answer'[c] = "ALREADYWRITTEN"
        BY <1>1, <1>3, ReadCallEffect
    <2> QED
        BY <1>3, <2>1 DEF Busy
<1>5. CallFits(c)' /\ AnswerFits(c)'
    <2>1. CASE doing'[c].op = "read" /\ doing'[c].addr = x
        BY <1>1, <2>1 DEF CallFits, AnswerFits, Busy
    <2>2. CASE ~Busy(c)' /\ answer'[c] = "ALREADYWRITTEN"
        BY <2>2 DEF CallFits, AnswerFits
    <2> QED
        BY <1>4, <2>1, <2>2
<1> QED
    BY <1>2, <1>5

\* c begins a write of the first register of the segment it works on, or of
\* the one at its tail.
LEMMA WriteBegins ==
    ASSUME WormInv, NEW c \in Clients, NEW x \in Addr, NEW v \in Cmd,
           wor_capture_and_write(c, x, v),
           \/ at'[c] = "alloc_write" /\ x = SEG_FIRST(seg[c])'
           \/ at'[c] = "append_write" /\ x = tail'[c][0]
    PROVE  Quiet(c) /\ CallFits(c)' /\ AnswerFits(c)'
<1>1. Quiet(c)
    BY CallsQuiet
<1>2. doing'[c].op = "write" /\ doing'[c].addr = x
    <2>1. doing'[c] = [op |-> "write", addr |-> x, cmd |-> v]
        BY WriteCallEffect DEF WormInv
    <2> QED
        BY <2>1
<1>3. CallFits(c)'
    BY <1>2 DEF CallFits
<1>4. AnswerFits(c)'
    BY <1>2 DEF AnswerFits, Busy
<1> QED
    BY <1>1, <1>3, <1>4

LEMMA AllocInv ==
    ASSUME WormInv, NEW c \in Clients, wos_alloc(c)
    PROVE  WormInv' /\ KeepsWritten
<1> DEFINE s == seg[c]
<1>1. /\ at[c] = "alloc"
      /\ s \in Segments
      /\ SEG_FIRST(s) \in Addr
      /\ UNCHANGED <<seg, cmd, appended, appends, numbered>>
      /\ ~Busy(c)
    BY Idle, SegmentAddresses DEF wos_alloc, WormInv, WormTypeOK
<1>2. WormTypeOK /\ ClientInv(c)
    BY DEF WormInv
<1>3. CASE /\ owner[c][s] # NODE_ID_UNDEF
           /\ segment_init(c, s, owner[c][s])
           /\ AllocAgain(c)
           /\ UNCHANGED registerCallVars
    <2>1. /\ Quiet(c)
          /\ UNCHANGED <<doing, answer, readCmd>>
          /\ owner[c][s] \in Clients
        BY <1>1, <1>2, <1>3, CallsQuiet
        DEF registerCallVars, callVars, WormTypeOK
    <2>2. /\ Written(c, SEG_FIRST(s))
          /\ owner[c][s] # c
                => HoldsCmd(c, SEG_FIRST(s), OwnerCmd[owner[c][s]])
        BY <1>1, <1>2, <1>3 DEF ClientInv, SegmentsFit, OwnersFound
    <2>3. /\ SegmentsFit(c)'
          /\ owner' \in Owners
          /\ tail' \in [Clients -> [Segments -> Nat]]
          /\ \A e \in Clients \ {c} :
                  owner'[e] = owner[e] /\ tail'[e] = tail[e]
        BY <1>1, <1>3, <2>1, <2>2, SegmentInitFits
    <2>4. /\ current' \in [Clients -> 0 .. NumSegments]
          /\ \A e \in Clients \ {c} :
                  current'[e] = current[e] /\ at'[e] = at[e]
          /\ at' = at
        BY <1>1, <1>2, <1>3, SegmentsAssumption
        DEF AllocAgain, Goes, WormTypeOK
    <2>5. WormTypeOK' /\ OthersStay(c)
        BY <1>1, <1>2, <2>3, <2>4 DEF WormTypeOK, OthersStay
    <2>6. PlaceFits(c)' /\ CallFits(c)' /\ AnswerFits(c)'
        BY <1>1, <1>2, <2>1, <2>4
        DEF ClientInv, PlaceFits, CallFits, AnswerFits, Busy, AppendPlaces
    <2> QED
        BY <2>1, <2>3, <2>5, <2>6, QuietInv
<1>4. CASE /\ owner[c][s] = NODE_ID_UNDEF
           /\ wor_read(c, SEG_FIRST(s))
           /\ Goes(c, "alloc_owner")
           /\ UNCHANGED segmentVars
    <2>1. /\ UNCHANGED <<current, owner, tail>>
          /\ at' = [at EXCEPT ![c] = "alloc_owner"]
          /\ at'[c] = "alloc_owner"
        BY <1>2, <1>4 DEF segmentVars, Goes, WormTypeOK
    <2>2. Quiet(c) /\ CallFits(c)' /\ AnswerFits(c)'
        BY <1>1, <1>4, <2>1, ReadBegins
    <2>3. WormTypeOK' /\ OthersStay(c)
        BY <1>1, <1>2, <2>1 DEF WormTypeOK, OthersStay, Place
    <2>4. PlaceFits(c)'
        BY <1>1, <1>4, <2>1 DEF PlaceFits, AppendPlaces
    <2>5. SegmentsFit(c)'
        BY <2>1, <2>2, SegmentsSame
    <2> QED
        BY <2>2, <2>3, <2>4, <2>5, QuietInv
<1> QED
    BY <1>3, <1>4 DEF wos_alloc

LEMMA ReadOwnerHeld ==
    ASSUME WormInv, NEW c \in Clients, ~Busy(c),
           at[c] \in {"alloc_owner", "append_owner"},
           NEW d \in Clients, ReadOwner(c, d)
    PROVE  /\ HoldsCmd(c, SEG_FIRST(seg[c]), OwnerCmd[d])
           /\ Written(c, SEG_FIRST(seg[c]))
<1>1. HoldsCmd(c, SEG_FIRST(seg[c]), readCmd[c]) /\ readCmd[c] = OwnerCmd[d]
    BY DEF WormInv, ClientInv, AnswerFits, ReadOwner
<1> QED
    BY <1>1 DEF HoldsCmd, Written

LEMMA AllocOwnerInv ==
    ASSUME WormInv, NEW c \in Clients, wos_alloc_owner(c)
    PROVE  WormInv' /\ KeepsWritten
<1> DEFINE s == seg[c]
<1>1. /\ at[c] = "alloc_owner"
      /\ s \in Segments
      /\ SEG_FIRST(s) \in Addr
      /\ UNCHANGED <<seg, cmd, appended, appends, numbered>>
      /\ ~Busy(c)
    BY SegmentAddresses DEF wos_alloc_owner, WormInv, WormTypeOK
<1>2. WormTypeOK /\ ClientInv(c)
    BY DEF WormInv
<1>3. ASSUME NEW d \in Clients,
             ReadOwner(c, d),
             segment_init(c, s, d),
             AllocAgain(c),
             UNCHANGED registerCallVars
      PROVE  WormInv' /\ KeepsWritten
    <2>1. Quiet(c) /\ UNCHANGED <<doing, answer, readCmd>>
        BY <1>3, CallsQuiet DEF registerCallVars, callVars
    <2>2. Written(c, SEG_FIRST(s)) /\ HoldsCmd(c, SEG_FIRST(s), OwnerCmd[d])
        BY <1>1, <1>3, ReadOwnerHeld
    <2>3. /\ SegmentsFit(c)'
          /\ owner' \in Owners
          /\ tail' \in [Clients -> [Segments -> Nat]]
          /\ \A e \in Clients \ {c} :
                  owner'[e] = owner[e] /\ tail'[e] = tail[e]
        BY <1>1, <1>3, <2>1, <2>2, SegmentInitFits
    <2>4. /\ current' \in [Clients -> 0 .. NumSegments]
          /\ \A e \in Clients \ {c} :
                  current'[e] = current[e] /\ at'[e] = at[e]
          /\ at' = [at EXCEPT ![c] = "alloc"]
          /\ at'[c] = "alloc"
        BY <1>2, <1>3, SegmentsAssumption DEF AllocAgain, Goes, WormTypeOK
    <2>5. WormTypeOK' /\ OthersStay(c)
        BY <1>1, <1>2, <2>3, <2>4 DEF WormTypeOK, OthersStay, Place
    <2>6. PlaceFits(c)' /\ CallFits(c)' /\ AnswerFits(c)'
        BY <1>1, <2>1, <2>4
        DEF PlaceFits, CallFits, AnswerFits, Busy, AppendPlaces
    <2> QED
        BY <2>1, <2>3, <2>5, <2>6, QuietInv
<1>4. CASE /\ wor_capture_and_write(c, SEG_FIRST(s), OwnerCmd[c])
           /\ Goes(c, "alloc_write")
           /\ UNCHANGED segmentVars
    <2>1. /\ UNCHANGED <<current, owner, tail>>
          /\ at' = [at EXCEPT ![c] = "alloc_write"]
          /\ at'[c] = "alloc_write"
        BY <1>2, <1>4 DEF segmentVars, Goes, WormTypeOK
    <2>2. Quiet(c) /\ CallFits(c)' /\ AnswerFits(c)'
        BY <1>1, <1>4, <2>1, WriteBegins, WormCommandsAssumption
    <2>3. WormTypeOK' /\ OthersStay(c)
        BY <1>1, <1>2, <2>1 DEF WormTypeOK, OthersStay, Place
    <2>4. PlaceFits(c)'
        BY <1>1, <1>2, <2>1 DEF ClientInv, PlaceFits, AppendPlaces
    <2>5. SegmentsFit(c)'
        BY <2>1, <2>2, SegmentsSame
    <2> QED
        BY <2>2, <2>3, <2>4, <2>5, QuietInv
<1> QED
    BY <1>3, <1>4 DEF wos_alloc_owner

\* The body of a segment that c does not own yet is empty: wos_body_init
\* empties nothing.
LEMMA BodyInitEmptiesNothing ==
    ASSUME WormInv, NEW c \in Clients, NEW s \in Segments,
           owner[c][s] = NODE_ID_UNDEF, wos_body_init(c, s)
    PROVE  UNCHANGED registerCallVars
<1> DEFINE emptied == [x \in Addr |-> IF x \in Body(s) THEN {} ELSE held[c][x]]
<1>1. /\ held \in [Clients -> [Addr -> SUBSET HeldEntry]]
      /\ held' = [held EXCEPT ![c] = emptied]
      /\ UNCHANGED <<registerVars, doing, asking, before, answer, readCmd>>
    BY DEF wos_body_init, wor_init, WormInv, RegistersTyped
<1>2. ASSUME NEW x \in Body(s) PROVE ~Written(c, x)
    <2>1. TailsSet(c) /\ BodiesEmpty(c)
        BY DEF WormInv, ClientInv, SegmentsFit
    <2> QED
        BY <2>1 DEF TailsSet, BodiesEmpty
<1>3. emptied = held[c]
    BY <1>1, <1>2 DEF Written
<1>4. held' = held
    BY <1>1, <1>3
<1> QED
    BY <1>1, <1>4 DEF registerCallVars, callVars

LEMMA AllocWriteInv ==
    ASSUME WormInv, NEW c \in Clients, wos_alloc_write(c)
    PROVE  WormInv' /\ KeepsWritten
<1> DEFINE s == seg[c]
<1>1. /\ at[c] = "alloc_write"
      /\ s \in Segments
      /\ UNCHANGED <<seg, cmd, appended, appends>>
      /\ ~Busy(c)
      /\ owner[c][s] = NODE_ID_UNDEF
    BY DEF wos_alloc_write, WormInv, WormTypeOK, ClientInv, PlaceFits
<1>2. WormTypeOK /\ ClientInv(c)
    BY DEF WormInv
<1>3. /\ \/ AllocAgain(c)
         \/ Allocated(c)
      /\ \/ UNCHANGED <<registerCallVars, owner, tail, numbered>>
         \/ /\ answer[c] = "OK"
            /\ wos_body_init(c, s)
            /\ segment_init(c, s, c)
    BY DEF wos_alloc_write
<1>4. UNCHANGED registerCallVars
    BY <1>1, <1>3, BodyInitEmptiesNothing
<1>5. Quiet(c) /\ UNCHANGED <<doing, answer, readCmd>>
    BY <1>4, CallsQuiet DEF registerCallVars, callVars
<1>6. /\ SegmentsFit(c)'
      /\ owner' \in Owners
      /\ tail' \in [Clients -> [Segments -> Nat]]
      /\ \A e \in Clients \ {c} :
              owner'[e] = owner[e] /\ tail'[e] = tail[e]
    <2>1. CASE UNCHANGED <<owner, tail>>
        BY <1>2, <1>5, <2>1, SegmentsSame DEF WormTypeOK
    <2>2. CASE answer[c] = "OK" /\ segment_init(c, s, c)
        <3>1. Written(c, SEG_FIRST(s))
            BY <1>1, <1>2, <2>2 DEF ClientInv, AnswerFits
        <3> QED
            BY <1>1, <1>5, <2>2, <3>1, SegmentInitFits
    <2> QED
        BY <1>3, <2>1, <2>2
<1>7. /\ current' \in [Clients -> 0 .. NumSegments]
      /\ at' \in [Clients -> Place]
      /\ \A e \in Clients \ {c} :
              current'[e] = current[e] /\ at'[e] = at[e]
      /\ at'[c] \in {"alloc", "idle", "append"}
      /\ at'[c] = "append" => cmd[c] # UndefCmd
    <2>1. PICK place \in {"alloc", "idle", "append"} :
            /\ at' = [at EXCEPT ![c] = place]
            /\ place = "append" => cmd[c] # UndefCmd
        BY <1>3 DEF AllocAgain, Allocated, Goes
    <2>2. /\ at' \in [Clients -> Place]
          /\ \A e \in Clients \ {c} : at'[e] = at[e]
          /\ at'[c] = place
        BY <1>2, <2>1 DEF WormTypeOK, Place
    <2>3. /\ current' \in [Clients -> 0 .. NumSegments]
          /\ \A e \in Clients \ {c} : current'[e] = current[e]
        <3>1. CASE UNCHANGED current
            BY <1>2, <3>1 DEF WormTypeOK
        <3>2. CASE AllocAgain(c)
            BY <1>2, <3>2, SegmentsAssumption DEF AllocAgain, WormTypeOK
        <3> QED
            BY <1>3, <3>1, <3>2 DEF Allocated
    <2> QED
        BY <2>1, <2>2, <2>3
<1>8. WormTypeOK' /\ OthersStay(c)
    <2>1. numbered' \in [Clients -> [Addr -> BOOLEAN]]
        <3> DEFINE kept == [x \in Addr |-> x \notin Body(s) /\ numbered[c][x]]
        <3>1. \/ numbered' = numbered
              \/ numbered' = [numbered EXCEPT ![c] = kept]
            BY <1>3 DEF wos_body_init, wor_init
        <3>2. kept \in [Addr -> BOOLEAN]
            BY Zenon
        <3> HIDE DEF kept
        <3> QED
            BY <1>2, <3>1, <3>2 DEF WormTypeOK
    <2> QED
        BY <1>1, <1>2, <1>6, <1>7, <2>1 DEF WormTypeOK, OthersStay
<1>9. PlaceFits(c)' /\ CallFits(c)' /\ AnswerFits(c)'
    BY <1>1, <1>5, <1>7
    DEF PlaceFits, CallFits, AnswerFits, Busy, AppendPlaces
<1> QED
    BY <1>5, <1>6, <1>8, <1>9, QuietInv
-----------------------------------------------------------------------------
LEMMA AppendInv ==
    ASSUME WormInv, NEW c \in Clients, NEW v \in AppCmd \cup {JUNK},
           worm_sharedlog_append(c, v)
    PROVE  WormInv' /\ KeepsWritten
<1>1. WormTypeOK /\ ClientInv(c) /\ v # UndefCmd
    BY WormCommandsAssumption DEF WormInv
<1>2. /\ at[c] = "idle"
      /\ appends[c] < MaxAppends[c]
      /\ appends' = [appends EXCEPT ![c] = @ + 1]
      /\ cmd' = [cmd EXCEPT ![c] = v]
      /\ appended' = [appended EXCEPT ![c] = "none"]
      /\ at' = [at EXCEPT ![c] = "append"]
      /\ UNCHANGED <<registerCallVars, current, owner, tail, seg, numbered>>
    BY DEF worm_sharedlog_append, Goes, segmentVars
<1>3. ~Busy(c)
    BY <1>2, Idle
<1>4. Quiet(c) /\ UNCHANGED <<doing, answer, readCmd>>
    BY <1>2, CallsQuiet DEF registerCallVars, callVars
<1>5. at'[c] = "append" /\ cmd'[c] = v
    BY <1>1, <1>2 DEF WormTypeOK
<1>6. \A d \in Clients : appends'[d] \in 0 .. MaxAppends[d]
    <2> SUFFICES ASSUME NEW d \in Clients
                 PROVE  appends'[d] \in 0 .. MaxAppends[d]
        OBVIOUS
    <2>1. MaxAppends[d] \in Nat /\ appends[d] \in 0 .. MaxAppends[d]
        BY <1>1, SegmentsAssumption DEF WormTypeOK
    <2>2. appends'[d] = appends[d] \/ (d = c /\ appends'[d] = appends[d] + 1)
        BY <1>2
    <2> QED
        BY <1>2, <2>1, <2>2
<1>7. WormTypeOK'
    BY <1>1, <1>2, <1>5, <1>6 DEF WormTypeOK, Place
<1>8. OthersStay(c)
    BY <1>1, <1>2 DEF WormTypeOK, OthersStay
<1>9. PlaceFits(c)' /\ CallFits(c)' /\ AnswerFits(c)'
    BY <1>1, <1>2, <1>3, <1>4, <1>5
    DEF ClientInv, PlaceFits, CallFits, AnswerFits, Busy, AppendPlaces
<1>10. SegmentsFit(c)'
    BY <1>2, <1>4, SegmentsSame
<1> QED
    BY <1>4, <1>7, <1>8, <1>9, <1>10, QuietInv

\* The part of the state that a step of an append of c changes.
AppendStep(c) ==
    /\ at' \in [Clients -> Place]
    /\ cmd' \in [Clients -> AppCmd \cup {JUNK, UndefCmd}]
    /\ appended' \in [Clients -> {"none", "OK", "EOS_ERROR", "TIMEOUT"}]
    /\ \A d \in Clients \ {c} : at'[d] = at[d] /\ cmd'[d] = cmd[d]
    /\ Quiet(c)
    /\ CallFits(c)'
    /\ AnswerFits(c)'

LEMMA AppendReturnsStep ==
    ASSUME WormInv, NEW c \in Clients, ~Busy(c),
           NEW st \in {"OK", "EOS_ERROR", "TIMEOUT"}, AppendReturns(c, st),
           UNCHANGED registerCallVars
    PROVE  AppendStep(c) /\ at'[c] = "idle"
<1>1. WormTypeOK
    BY DEF WormInv
<1>2. /\ at' = [at EXCEPT ![c] = "idle"]
      /\ cmd' = [cmd EXCEPT ![c] = UndefCmd]
      /\ appended' = [appended EXCEPT ![c] = st]
    BY DEF AppendReturns, Goes
<1>3. Quiet(c) /\ UNCHANGED doing
    BY CallsQuiet DEF registerCallVars, callVars
<1>4. /\ at' \in [Clients -> Place]
      /\ cmd' \in [Clients -> AppCmd \cup {JUNK, UndefCmd}]
      /\ appended' \in [Clients -> {"none", "OK", "EOS_ERROR", "TIMEOUT"}]
      /\ \A d \in Clients \ {c} : at'[d] = at[d] /\ cmd'[d] = cmd[d]
      /\ at'[c] = "idle"
    BY <1>1, <1>2 DEF WormTypeOK, Place
<1>5. CallFits(c)' /\ AnswerFits(c)'
    BY <1>3, <1>4 DEF CallFits, AnswerFits, Busy
<1> QED
    BY <1>3, <1>4, <1>5 DEF AppendStep

\* wos_write writes at the tail of the first segment, or not at all.
LEMMA WosWriteStep ==
    ASSUME WormInv, NEW c \in Clients, ~Busy(c), cmd[c] # UndefCmd,
           NEW s \in Segments, NEW x, wos_write(c, s, x),
           s = 0 => x = tail'[c][0],
           s # 0 => x \notin Body(s)
    PROVE  /\ AppendStep(c)
           /\ \/ at'[c] = "idle"
              \/ /\ at'[c] = "append_write"
                 /\ s = 0
                 /\ tail'[c][0] \in Body(0)
                 /\ cmd'[c] # UndefCmd
<1>1. CASE x \notin Body(s)
    BY <1>1, AppendReturnsStep DEF wos_write
<1>2. CASE x \in Body(s)
    <2>1. WormTypeOK
        BY DEF WormInv
    <2>2. /\ s = 0 /\ x = tail'[c][0]
          /\ x \in Addr
          /\ cmd[c] \in Cmd
        BY <1>2, <2>1, SegmentAddresses, WormCommandsAssumption DEF WormTypeOK
    <2>3. /\ wor_capture_and_write(c, x, cmd[c])
          /\ at' = [at EXCEPT ![c] = "append_write"]
          /\ UNCHANGED <<cmd, appended>>
        BY <1>2 DEF wos_write, Goes
    <2>4. /\ at' \in [Clients -> Place]
          /\ \A d \in Clients \ {c} : at'[d] = at[d] /\ cmd'[d] = cmd[d]
          /\ at'[c] = "append_write"
        BY <2>1, <2>3 DEF WormTypeOK, Place
    <2>5. Quiet(c) /\ CallFits(c)' /\ AnswerFits(c)'
        BY <2>2, <2>3, <2>4, WriteBegins
    <2> QED
        BY <1>2, <2>1, <2>2, <2>3, <2>4, <2>5 DEF AppendStep, WormTypeOK
<1> QED
    BY <1>1, <1>2

LEMMA AppendToStep ==
    ASSUME WormInv, NEW c \in Clients, ~Busy(c), cmd[c] # UndefCmd,
           at[c] # "beyond", current[c] \in Segments,
           NEW d, AppendTo(c, current[c], d), UNCHANGED tail
    PROVE  /\ AppendStep(c)
           /\ PlaceFits(c)'
           /\ current' \in [Clients -> 0 .. NumSegments]
           /\ seg' \in [Clients -> 0 .. NumSegments]
           /\ at'[c] \in {"alloc", "alloc_owner", "alloc_write",
                          "append_owner", "append_write"}
                    => seg'[c] \in Segments
           /\ \A e \in Clients \ {c} :
                current'[e] = current[e] /\ seg'[e] = seg[e]
<1> DEFINE s == current[c]
<1>1. /\ WormTypeOK
      /\ PlaceFits(c)
      /\ TailsSet(c)
    BY DEF WormInv, ClientInv, SegmentsFit
<1>2. CASE /\ wos_write(c, s, SEG_ADDR(s, tail[c][s]))
           /\ UNCHANGED <<current, seg>>
    <2> DEFINE x == SEG_ADDR(s, tail[c][s])
    <2>1. s = 0 => x = tail'[c][0]
        BY <1>1, SegmentAddresses, TailAddress DEF WormTypeOK
    <2>2. s # 0 => x \notin Body(s)
        BY <1>1, TailAddress DEF TailsSet
    <2>3. /\ AppendStep(c)
          /\ \/ at'[c] = "idle"
             \/ /\ at'[c] = "append_write"
                /\ s = 0
                /\ tail'[c][0] \in Body(0)
                /\ cmd'[c] # UndefCmd
        BY <1>2, <2>1, <2>2, WosWriteStep
    <2>4. PlaceFits(c)'
        <3>1. seg'[c] = seg[c] /\ seg[c] \in Segments /\ current'[c] = s
            BY <1>1, <1>2 DEF PlaceFits
        <3>2. CASE at'[c] = "idle"
            BY <3>1, <3>2 DEF PlaceFits, AppendPlaces
        <3>3. CASE /\ at'[c] = "append_write"
                   /\ s = 0
                   /\ tail'[c][0] \in Body(0)
                   /\ cmd'[c] # UndefCmd
            BY <3>1, <3>3 DEF PlaceFits
        <3> QED
            BY <2>3, <3>2, <3>3
    <2> QED
        BY <1>1, <1>2, <2>3, <2>4 DEF WormTypeOK, PlaceFits
<1>3. CASE /\ current' = [current EXCEPT ![c] = s + 1]
           /\ seg' = [seg EXCEPT ![c] = s + 1]
           /\ Goes(c, IF s + 1 < NumSegments THEN "alloc" ELSE "beyond")
           /\ UNCHANGED <<registerCallVars, cmd, appended>>
    <2>1. /\ s + 1 \in 0 .. NumSegments
          /\ s + 1 < NumSegments => s + 1 \in Segments
        BY SegmentsAssumption DEF Segments
    <2>2. /\ current' \in [Clients -> 0 .. NumSegments]
          /\ seg' \in [Clients -> 0 .. NumSegments]
          /\ seg'[c] = s + 1
          /\ \A e \in Clients \ {c} :
                current'[e] = current[e] /\ seg'[e] = seg[e]
        BY <1>1, <1>3, <2>1 DEF WormTypeOK
    <2>3. PICK place \in {"alloc", "beyond"} :
            /\ at' = [at EXCEPT ![c] = place]
            /\ place = "alloc" => s + 1 < NumSegments
        BY <1>3 DEF Goes
    <2>4. /\ at' \in [Clients -> Place]
          /\ \A e \in Clients \ {c} :
                  at'[e] = at[e] /\ cmd'[e] = cmd[e]
          /\ at'[c] = place
        BY <1>1, <1>3, <2>3 DEF WormTypeOK, Place
    <2>5. Quiet(c) /\ UNCHANGED doing
        BY <1>3, CallsQuiet DEF registerCallVars, callVars
    <2>6. CallFits(c)' /\ AnswerFits(c)'
        BY <2>3, <2>4, <2>5 DEF CallFits, AnswerFits, Busy
    <2>7. AppendStep(c)
        BY <1>1, <1>3, <2>4, <2>5, <2>6 DEF AppendStep, WormTypeOK
    <2>8. PlaceFits(c)'
        BY <2>1, <2>2, <2>3, <2>4 DEF PlaceFits, AppendPlaces
    <2> QED
        BY <2>1, <2>2, <2>3, <2>4, <2>7, <2>8
<1> QED
    BY <1>2, <1>3 DEF AppendTo

LEMMA WosAppendInv ==
    ASSUME WormInv, NEW c \in Clients, wos_append(c)
    PROVE  WormInv' /\ KeepsWritten
<1> DEFINE s == current[c]
<1>1. /\ at[c] = "append"
      /\ UNCHANGED <<appends, numbered>>
      /\ ~Busy(c)
    BY Idle DEF wos_append
<1>2. WormTypeOK /\ PlaceFits(c) /\ cmd[c] # UndefCmd
    BY <1>1 DEF WormInv, ClientInv, PlaceFits, AppendPlaces
<1>3. CASE /\ Goes(c, "beyond")
           /\ UNCHANGED <<registerCallVars, segmentVars, seg, cmd, appended>>
    <2>1. Quiet(c) /\ UNCHANGED <<doing, current, owner, tail>>
        BY <1>3, CallsQuiet DEF registerCallVars, callVars, segmentVars
    <2>2. /\ at' = [at EXCEPT ![c] = "beyond"]
          /\ at'[c] = "beyond"
        BY <1>2, <1>3 DEF Goes, WormTypeOK
    <2>3. WormTypeOK' /\ OthersStay(c)
        BY <1>1, <1>2, <1>3, <2>1, <2>2 DEF WormTypeOK, OthersStay, Place
    <2>4. PlaceFits(c)' /\ CallFits(c)' /\ AnswerFits(c)'
        BY <1>1, <2>1, <2>2
        DEF PlaceFits, CallFits, AnswerFits, Busy, AppendPlaces
    <2> QED
        BY <2>1, <2>3, <2>4, SegmentsSame, QuietInv
<1>4. CASE /\ s \in Segments
           /\ AppendTo(c, s, owner[c][s])
           /\ UNCHANGED <<owner, tail>>
    <2>1. /\ AppendStep(c)
          /\ PlaceFits(c)'
          /\ current' \in [Clients -> 0 .. NumSegments]
          /\ seg' \in [Clients -> 0 .. NumSegments]
          /\ at'[c] \in {"alloc", "alloc_owner", "alloc_write",
                         "append_owner", "append_write"}
                => seg'[c] \in Segments
          /\ \A e \in Clients \ {c} :
                current'[e] = current[e] /\ seg'[e] = seg[e]
        BY <1>1, <1>2, <1>4, AppendToStep
    <2>2. WormTypeOK' /\ OthersStay(c)
        BY <1>1, <1>2, <1>4, <2>1 DEF WormTypeOK, OthersStay, AppendStep
    <2> QED
        BY <1>4, <2>1, <2>2, SegmentsSame, QuietInv DEF AppendStep
<1>5. CASE /\ s \in Segments
           /\ wor_read(c, SEG_FIRST(s))
           /\ seg' = [seg EXCEPT ![c] = s]
           /\ Goes(c, "append_owner")
           /\ UNCHANGED <<segmentVars, cmd, appended>>
    <2>1. /\ at' = [at EXCEPT ![c] = "append_owner"]
          /\ at'[c] = "append_owner"
          /\ seg'[c] = s
          /\ UNCHANGED <<current, owner, tail>>
        BY <1>2, <1>5 DEF Goes, WormTypeOK, segmentVars
    <2>2. Quiet(c) /\ CallFits(c)' /\ AnswerFits(c)'
        BY <1>5, <2>1, ReadBegins
    <2>3. WormTypeOK' /\ OthersStay(c)
        BY <1>1, <1>2, <1>5, <2>1 DEF WormTypeOK, OthersStay, Place, Segments
    <2>4. PlaceFits(c)'
        BY <1>2, <1>5, <2>1 DEF PlaceFits, AppendPlaces
    <2> QED
        BY <2>1, <2>2, <2>3, <2>4, SegmentsSame, QuietInv
<1> QED
    BY <1>3, <1>4, <1>5 DEF wos_append

LEMMA AppendOwnerInv ==
    ASSUME WormInv, NEW c \in Clients, wos_append_owner(c)
    PROVE  WormInv' /\ KeepsWritten
<1> DEFINE s == current[c]
<1>1. /\ at[c] = "append_owner"
      /\ UNCHANGED <<tail, appends, numbered>>
      /\ ~Busy(c)
      /\ s = seg[c] /\ s \in Segments
      /\ cmd[c] # UndefCmd
    BY DEF wos_append_owner, WormInv, WormTypeOK, ClientInv, PlaceFits,
           AppendPlaces
<1>2. WormTypeOK /\ SegmentsFit(c)
    BY DEF WormInv, ClientInv
<1>3. PICK d \in Clients \cup {NODE_ID_UNDEF} :
        /\ AppendTo(c, s, d)
        /\ \/ /\ d \in Clients
              /\ ReadOwner(c, d)
              /\ owner' = [owner EXCEPT ![c][s] = d]
           \/ UNCHANGED owner
    BY <1>1 DEF wos_append_owner
<1>4. /\ AppendStep(c)
      /\ PlaceFits(c)'
      /\ current' \in [Clients -> 0 .. NumSegments]
      /\ seg' \in [Clients -> 0 .. NumSegments]
      /\ at'[c] \in {"alloc", "alloc_owner", "alloc_write",
                     "append_owner", "append_write"}
            => seg'[c] \in Segments
      /\ \A e \in Clients \ {c} :
            current'[e] = current[e] /\ seg'[e] = seg[e]
    BY <1>1, <1>3, AppendToStep
<1>5. Quiet(c) /\ UNCHANGED <<held, tail>>
    BY <1>1, <1>4 DEF AppendStep, Quiet
<1>6. /\ SegmentsFit(c)'
      /\ owner' \in Owners
      /\ \A e \in Clients \ {c} : owner'[e] = owner[e]
    <2>1. CASE UNCHANGED owner
        BY <1>2, <1>5, <2>1, SegmentsSame DEF WormTypeOK
    <2>2. CASE /\ d \in Clients
               /\ ReadOwner(c, d)
               /\ owner' = [owner EXCEPT ![c][s] = d]
        <3>1. /\ HoldsCmd(c, SEG_FIRST(s), OwnerCmd[d])
              /\ Written(c, SEG_FIRST(s))
            BY <1>1, <2>2, ReadOwnerHeld
        <3>2. /\ owner' \in Owners
              /\ \A e \in Clients \ {c} : owner'[e] = owner[e]
              /\ owner'[c] = [owner[c] EXCEPT ![s] = d]
              /\ d # NODE_ID_UNDEF
            BY <1>1, <1>2, <2>2, WormCommandsAssumption DEF WormTypeOK
        <3>3. OwnersFound(c)'
            BY <1>1, <1>2, <1>5, <3>1, <3>2
            DEF WormTypeOK, SegmentsFit, OwnersFound, HoldsCmd, Written
        <3>4. TailsSet(c)'
            BY <1>1, <1>2, <1>5, <3>2 DEF WormTypeOK, SegmentsFit, TailsSet
        <3>5. BodiesEmpty(c)' /\ FirstFilled(c)'
            BY <1>2, <1>5 DEF SegmentsFit, BodiesEmpty, FirstFilled, Written
        <3> QED
            BY <3>2, <3>3, <3>4, <3>5 DEF SegmentsFit
    <2> QED
        BY <1>3, <2>1, <2>2
<1>7. WormTypeOK' /\ OthersStay(c)
    BY <1>1, <1>2, <1>4, <1>6 DEF WormTypeOK, OthersStay, AppendStep
<1> QED
    BY <1>4, <1>6, <1>7, QuietInv DEF AppendStep

\* The tail moves past a register that c knows to be written.
LEMMA TailIncFits ==
    ASSUME WormInv, NEW c \in Clients, ~Busy(c), at[c] = "append_write",
           segment_tail_inc(c, 0), Quiet(c), UNCHANGED owner
    PROVE  /\ SegmentsFit(c)'
           /\ tail' \in [Clients -> [Segments -> Nat]]
           /\ \A d \in Clients \ {c} : tail'[d] = tail[d]
<1>1. /\ tail \in [Clients -> [Segments -> Nat]]
      /\ SegmentsFit(c)
      /\ 0 \in Segments
      /\ tail[c][0] \in Nat \ {0}
      /\ answer[c] \in TailMoves => Written(c, tail[c][0])
      /\ UNCHANGED held
    BY SegmentAddresses
    DEF WormInv, WormTypeOK, ClientInv, AnswerFits, PlaceFits, TailMoves, Quiet
<1>2. CASE UNCHANGED tail
    BY <1>1, <1>2, SegmentsSame
<1>3. CASE /\ tail' = [tail EXCEPT ![c][0] = @ + 1]
           /\ answer[c] \in TailMoves
    <2>1. /\ tail' \in [Clients -> [Segments -> Nat]]
          /\ \A d \in Clients \ {c} : tail'[d] = tail[d]
          /\ tail'[c] = [tail[c] EXCEPT ![0] = @ + 1]
          /\ tail'[c][0] = tail[c][0] + 1
        BY <1>1, <1>3
    <2>2. OwnersFound(c)'
        BY <1>1 DEF SegmentsFit, OwnersFound, HoldsCmd, Written
    <2>3. TailsSet(c)'
        BY <1>1, <2>1 DEF SegmentsFit, TailsSet
    <2>4. BodiesEmpty(c)'
        BY <1>1, <2>1 DEF SegmentsFit, BodiesEmpty, Written
    <2>5. FirstFilled(c)'
        <3> SUFFICES ASSUME NEW x \in Body(0), x < tail[c][0] + 1
                     PROVE  Written(c, x)
            BY <1>1, <2>1 DEF FirstFilled, Written
        <3>1. x \in Nat
            BY SegmentAddresses, SegmentsAssumption
        <3>2. x < tail[c][0] \/ x = tail[c][0]
            <4>1. PICK t \in Nat : t = tail[c][0]
                BY <1>1
            <4>2. x < t + 1
                BY <4>1
            <4> QED
                BY <3>1, <4>1, <4>2
        <3> QED
            BY <1>1, <1>3, <3>2 DEF SegmentsFit, FirstFilled
    <2> QED
        BY <2>1, <2>2, <2>3, <2>4, <2>5 DEF SegmentsFit
<1> QED
    BY <1>2, <1>3 DEF segment_tail_inc

LEMMA AppendWriteInv ==
    ASSUME WormInv, NEW c \in Clients, wos_append_write(c)
    PROVE  WormInv' /\ KeepsWritten
<1>1. /\ at[c] = "append_write"
      /\ ~Busy(c)
      /\ segment_tail_inc(c, current[c])
      /\ UNCHANGED <<current, owner, seg, appends, numbered>>
    BY DEF wos_append_write
<1>2. WormTypeOK /\ PlaceFits(c)
    BY DEF WormInv, ClientInv
<1>3. /\ current[c] = 0
      /\ 0 \in Segments
      /\ cmd[c] # UndefCmd
      /\ seg[c] \in Segments
      /\ answer[c] \in {"OK", "ALREADYWRITTEN", "TIMEOUT"}
    BY <1>1, SegmentAddresses
    DEF WormInv, ClientInv, PlaceFits, AnswerFits, AppendPlaces
<1>4. /\ tail'[c][0] \in Nat
      /\ SEG_ADDR(0, tail'[c][0]) = tail'[c][0]
    <2>1. tail'[c][0] \in Nat
        BY <1>1, <1>2, <1>3 DEF WormTypeOK, segment_tail_inc
    <2> QED
        BY <2>1, TailAddress
<1>5. /\ AppendStep(c)
      /\ \/ at'[c] = "idle"
         \/ /\ at'[c] = "append_write"
            /\ tail'[c][0] \in Body(0)
            /\ cmd'[c] # UndefCmd
    <2>1. CASE wos_write(c, 0, tail'[c][0])
        BY <1>1, <1>3, <2>1, WosWriteStep
    <2>2. CASE /\ answer[c] # "ALREADYWRITTEN"
               /\ AppendReturns(c, answer[c])
               /\ UNCHANGED registerCallVars
        BY <1>1, <1>3, <2>2, AppendReturnsStep
    <2> QED
        BY <1>3, <1>4, <2>1, <2>2 DEF wos_append_write
<1>6. PlaceFits(c)'
    <2>1. CASE at'[c] = "idle"
        BY <1>1, <1>3, <2>1 DEF PlaceFits, AppendPlaces
    <2>2. CASE /\ at'[c] = "append_write"
               /\ tail'[c][0] \in Body(0)
               /\ cmd'[c] # UndefCmd
        BY <1>1, <1>3, <2>2 DEF PlaceFits
    <2> QED
        BY <1>5, <2>1, <2>2
<1>7. /\ SegmentsFit(c)'
      /\ tail' \in [Clients -> [Segments -> Nat]]
      /\ \A d \in Clients \ {c} : tail'[d] = tail[d]
    BY <1>1, <1>3, <1>5, TailIncFits DEF AppendStep
<1>8. WormTypeOK' /\ OthersStay(c)
    BY <1>1, <1>2, <1>3, <1>5, <1>7 DEF WormTypeOK, OthersStay, AppendStep
<1> QED
    BY <1>5, <1>6, <1>7, <1>8, QuietInv DEF AppendStep
-----------------------------------------------------------------------------
LEMMA RegistersRunInv ==
    ASSUME WormInv, NEW c \in Clients, RegistersRun(c)
    PROVE  WormInv' /\ KeepsWritten
<1>1. /\ Proceeds(c)
      /\ UNCHANGED <<current, owner, tail, at, seg, cmd, appended, appends>>
      /\ numbered' = [numbered EXCEPT ![c][doing[c].addr] = TRUE]
    BY DEF RegistersRun, segmentVars, placeVars
<1>2. RegistersTyped /\ WormTypeOK /\ ClientInv(c)
    BY DEF WormInv
<1>3. /\ RegistersTyped'
      /\ OthersKeep(c)
      /\ Busy(c)
      /\ CallGoesOn(c)
      /\ RegistersGrow
      /\ UNCHANGED register
    BY <1>1, <1>2, ProceedsEffect DEF Effect
<1>4. PICK x \in Addr :
        /\ x = doing[c].addr
        /\ \A y \in Addr : Written(c, y) \/ y # x => held'[c][y] = held[c][y]
        /\ SureWritten(c)'
        /\ ~Busy(c)' =>
            /\ doing[c].op = "read" /\ answer'[c] = "OK"
                    => HoldsCmd(c, x, readCmd[c])'
            /\ doing[c].op = "write" => answer'[c] # "UNWRITTEN"
    BY <1>1, <1>2, CallEffect DEF ClientInv, CallLearns
<1>5. /\ \A y \in Addr : Written(c, y) => Written(c, y)'
      /\ \/ doing'[c] = doing[c] /\ answer'[c] = answer[c]
         \/ /\ ~Busy(c)'
            /\ answer'[c] \in {"OK", "ALREADYWRITTEN"} => Written(c, x)'
            /\ answer'[c] \in {"OK", "ALREADYWRITTEN", "UNWRITTEN", "TIMEOUT"}
    BY <1>3, <1>4 DEF CallGoesOn, Busy, NoCall
<1>6. WormTypeOK'
    BY <1>1, <1>2, SegmentsAssumption DEF WormTypeOK
<1>7. OthersStay(c) /\ WrittenOnce'
    BY <1>1, <1>3 DEF OthersStay, WormInv, WrittenOnce
<1>8. PlaceFits(c)'
    BY <1>1, <1>2 DEF ClientInv, PlaceFits
<1>9. CallFits(c)'
    BY <1>1, <1>2, <1>5 DEF ClientInv, CallFits, Busy
<1>10. AnswerFits(c)'
    BY <1>1, <1>2, <1>3, <1>4, <1>5 DEF ClientInv, CallFits, AnswerFits, Busy
<1>11. SegmentsFit(c)'
    <2>1. OwnersFound(c)'
        BY <1>1, <1>2, <1>4, <1>5, SegmentAddresses
        DEF ClientInv, SegmentsFit, OwnersFound, HoldsCmd, Written
    <2>2. TailsSet(c)'
        BY <1>1, <1>2 DEF ClientInv, SegmentsFit, TailsSet
    <2>3. BodiesEmpty(c)'
        <3> SUFFICES ASSUME NEW s \in Segments, NEW y \in Body(s),
                            Written(c, y)'
                     PROVE  s = 0 /\ tail[c][0] # 0
            BY <1>1 DEF BodiesEmpty
        <3>1. y \in Addr
            BY SegmentAddresses
        <3>2. CASE Written(c, y)
            BY <1>2, <3>2 DEF ClientInv, SegmentsFit, BodiesEmpty
        <3>3. CASE y = x
            <4>1. \/ /\ at[c] \in FirstPlaces
                     /\ y = SEG_FIRST(seg[c])
                  \/ /\ at[c] = "append_write"
                     /\ y = tail[c][0]
                BY <1>2, <1>3, <1>4, <3>3 DEF ClientInv, CallFits, FirstPlaces
            <4>2. CASE /\ at[c] \in FirstPlaces
                       /\ y = SEG_FIRST(seg[c])
                <5>1. seg[c] \in Segments
                    BY <1>2, <4>2 DEF WormTypeOK, FirstPlaces
                <5> QED
                    BY <4>2, <5>1, SegmentAddresses
            <4>3. CASE at[c] = "append_write"
                <5>1. tail[c][0] \in Body(0)
                    BY <1>2, <4>3 DEF ClientInv, PlaceFits
                <5>2. y = tail[c][0] /\ tail[c][0] # 0
                    BY <4>1, <4>3, <5>1, SegmentAddresses, SegmentsAssumption
                    DEF FirstPlaces
                <5>3. s = 0
                    BY <5>1, <5>2, SegmentAddresses
                <5> QED
                    BY <5>2, <5>3
            <4> QED
                BY <4>1, <4>2, <4>3
        <3> QED
            BY <1>4, <3>1, <3>2, <3>3 DEF Written
    <2>4. FirstFilled(c)'
        BY <1>1, <1>2, <1>5, SegmentAddresses
        DEF ClientInv, SegmentsFit, FirstFilled
    <2> QED
        BY <2>1, <2>2, <2>3, <2>4 DEF SegmentsFit
<1>12. ClientInv(c)'
    BY <1>4, <1>8, <1>9, <1>10, <1>11 DEF ClientInv
<1>13. \A d \in Clients : ClientInv(d)'
    BY <1>3, <1>7, <1>12, OthersInv
<1>14. KeepsWritten
    BY <1>3, <1>5 DEF KeepsWritten, OthersKeep, Written
<1> QED
    BY <1>3, <1>6, <1>7, <1>13, <1>14 DEF WormInv

\* Only the registers change, or nothing.
LEMMA ClientsRestInv ==
    ASSUME WormInv, RegistersTyped', RegistersGrow, WrittenOnce',
           UNCHANGED <<callVars, wormVars>>
    PROVE  WormInv' /\ KeepsWritten
<1>1. /\ UNCHANGED <<doing, held, answer, readCmd>>
      /\ UNCHANGED <<current, owner, tail, at, seg, cmd, appended, appends,
                     numbered>>
    BY DEF callVars, wormVars, segmentVars, placeVars
<1>2. WormTypeOK'
    BY <1>1 DEF WormInv, WormTypeOK
<1>3. ASSUME NEW c \in Clients PROVE ClientInv(c)'
    <2>1. ClientInv(c)
        BY DEF WormInv
    <2>2. PlaceFits(c)' /\ CallFits(c)' /\ AnswerFits(c)'
        BY <1>1, <2>1
        DEF ClientInv, PlaceFits, CallFits, AnswerFits, Busy, HoldsCmd, Written
    <2>3. SegmentsFit(c)'
        BY <1>1, <2>1
        DEF ClientInv, SegmentsFit, OwnersFound, TailsSet, BodiesEmpty,
            FirstFilled, HoldsCmd, Written
    <2>4. SureWritten(c)'
        BY <1>1, <2>1 DEF ClientInv, SureWritten, RegistersGrow
    <2> QED
        BY <2>2, <2>3, <2>4 DEF ClientInv
<1>4. KeepsWritten
    BY <1>1 DEF KeepsWritten, Written
<1> QED
    BY <1>2, <1>3, <1>4 DEF WormInv

LEMMA DecidedInv ==
    ASSUME WormInv, NEW x \in Addr, Decided(x)
    PROVE  WormInv' /\ KeepsWritten
<1>1. PICK v \in Cmd : Decide(x, v) /\ UNCHANGED wormVars
    BY DEF Decided
<1>2. RegistersTyped' /\ RegistersGrow /\ UNCHANGED callVars
    BY <1>1, DecideEffect DEF WormInv
<1>3. register' = [register EXCEPT ![x] = {v}]
    BY <1>1 DEF Decide, Registers!Decide
<1>4. WrittenOnce'
    BY <1>3 DEF WormInv, WrittenOnce, RegistersTyped
<1> QED
    BY <1>1, <1>2, <1>4, ClientsRestInv

LEMMA WormNextInv ==
    ASSUME WormInv, [WormNext]_vars
    PROVE  WormInv' /\ KeepsWritten
<1>1. CASE UNCHANGED vars
    <2>1. UNCHANGED <<registerCallVars, register, callVars, wormVars>>
        BY <1>1 DEF vars, registerCallVars, registerVars
    <2>2. RegistersTyped' /\ RegistersGrow /\ WrittenOnce'
        BY <2>1, RegistersKept DEF WormInv, RegistersGrow, WrittenOnce
    <2> QED
        BY <2>1, <2>2, ClientsRestInv
<1>2. ASSUME NEW x \in Addr, Decided(x) PROVE WormInv' /\ KeepsWritten
    BY <1>2, DecidedInv
<1>3. ASSUME NEW c \in Clients, Runs(c) PROVE WormInv' /\ KeepsWritten
    BY <1>3, RegistersRunInv, AllocInv, AllocOwnerInv, AllocWriteInv,
       WosAppendInv, AppendOwnerInv, AppendWriteInv
    DEF Runs
<1>4. ASSUME NEW c \in Clients, NEW v \in AppCmd \cup {JUNK},
             worm_sharedlog_append(c, v)
      PROVE  WormInv' /\ KeepsWritten
    BY <1>4, AppendInv
<1> QED
    BY <1>1, <1>2, <1>3, <1>4 DEF WormNext

LEMMA WormInitInv == WormInit => WormInv
<1> SUFFICES ASSUME WormInit PROVE WormInv
    OBVIOUS
<1>1. RegistersTyped
    BY RegistersInitTyped DEF WormInit
<1>2. /\ register = [x \in Addr |-> {}]
      /\ doing = [c \in Clients |-> NoCall]
      /\ held = [c \in Clients |-> [x \in Addr |-> {}]]
    BY DEF WormInit, RegistersInit, Registers!Init
<1>3. WormTypeOK
    BY SegmentsAssumption, SegmentAddresses DEF WormInit, WormTypeOK, Place
<1>4. WrittenOnce
    BY <1>2 DEF WrittenOnce
<1>5. ASSUME NEW c \in Clients PROVE ClientInv(c)
    <2>1. PlaceFits(c) /\ CallFits(c) /\ AnswerFits(c)
        BY <1>2, SegmentAddresses
        DEF WormInit, PlaceFits, CallFits, AnswerFits, Busy, NoCall,
            AppendPlaces
    <2>2. OwnersFound(c) /\ TailsSet(c)
        BY DEF WormInit, OwnersFound, TailsSet
    <2>3. BodiesEmpty(c)
        BY <1>2, SegmentAddresses DEF BodiesEmpty, Written
    <2>4. FirstFilled(c)
        <3>1. tail[c][0] = 0
            BY SegmentAddresses DEF WormInit
        <3>2. \A x \in Body(0) : x \in Nat /\ x >= 1
            BY SegmentAddresses, SegmentsAssumption
        <3> QED
            BY <3>1, <3>2 DEF FirstFilled
    <2>5. SureWritten(c)
        BY <1>2 DEF SureWritten
    <2> QED
        BY <2>1, <2>2, <2>3, <2>4, <2>5 DEF ClientInv, SegmentsFit
<1> QED
    BY <1>1, <1>3, <1>4, <1>5 DEF WormInv
-----------------------------------------------------------------------------
LEMMA WormInvHolds == WormSpec => []WormInv
<1>1. WormInv /\ [WormNext]_vars => WormInv'
    BY WormNextInv
<1> QED
    BY <1>1, WormInitInv, PTL DEF WormSpec

(***************************************************************************)
(* The variables keep their types: update_segment and wos_append work on   *)
(* segments that exist, and worm_sharedlog_append answers OK, EOS_ERROR or *)
(* TIMEOUT, never ALREADYWRITTEN.                                          *)
(***************************************************************************)
THEOREM WormTyped == WormSpec => []WormTypeOK
<1>1. WormInv => WormTypeOK
    BY DEF WormInv
<1> QED
    BY <1>1, WormInvHolds, PTL

(***************************************************************************)
(* worm_sharedlog_append writes only to a segment whose first register the *)
(* client knows to be written, whatever the allocation was answered.       *)
(***************************************************************************)
THEOREM AppendsStayAllocated == WormSpec => []AppendsToAllocated
<1>1. ASSUME WormInv PROVE AppendsToAllocated
    <2> SUFFICES ASSUME NEW c \in Clients, at[c] = "append_write"
                 PROVE  Written(c, SEG_FIRST(current[c]))
        BY DEF AppendsToAllocated
    <2>1. ClientInv(c)
        BY <1>1 DEF WormInv
    <2>2. /\ current[c] = 0
          /\ tail[c][0] \in Body(0)
          /\ 0 \in Segments
        BY <2>1, SegmentAddresses DEF ClientInv, PlaceFits
    <2>3. tail[c][0] # 0
        BY <2>2, SegmentAddresses, SegmentsAssumption
    <2> QED
        BY <2>1, <2>2, <2>3 DEF ClientInv, SegmentsFit, TailsSet, OwnersFound
<1> QED
    BY <1>1, WormInvHolds, PTL

(***************************************************************************)
(* The tail of the first segment passes no register that the client does   *)
(* not know to be written: an append that times out leaves it in place.    *)
(***************************************************************************)
THEOREM FirstSegmentStaysFilled == WormSpec => []FirstSegmentFills
<1>1. ASSUME WormInv PROVE FirstSegmentFills
    BY <1>1 DEF WormInv, FirstSegmentFills, ClientInv, SegmentsFit, FirstFilled
<1> QED
    BY <1>1, WormInvHolds, PTL

(***************************************************************************)
(* Whom wos_owner takes for the owner of a segment, itself apart, it read  *)
(* in the segment's first register, and a quorum's word for it is right.   *)
(***************************************************************************)
THEOREM OwnersStayWritten == WormSpec => []OwnerIsWritten
<1>1. ASSUME WormInv PROVE OwnerIsWritten
    <2> SUFFICES ASSUME NEW c \in Clients, NEW s \in Segments,
                        NEW d \in Clients \ {c}, owner[c][s] = d
                 PROVE  \E e \in held[c][SEG_FIRST(s)] :
                            /\ e.cmd = OwnerCmd[d]
                            /\ e.sure
                                => register[SEG_FIRST(s)] = {OwnerCmd[d]}
        BY DEF OwnerIsWritten
    <2>1. ClientInv(c)
        BY <1>1 DEF WormInv
    <2>2. PICK e \in held[c][SEG_FIRST(s)] : e.cmd = OwnerCmd[d]
        BY <2>1, WormCommandsAssumption
        DEF ClientInv, SegmentsFit, OwnersFound, HoldsCmd
    <2>3. SEG_FIRST(s) \in Addr
        BY SegmentAddresses
    <2>4. e.sure => OwnerCmd[d] \in register[SEG_FIRST(s)]
        BY <2>1, <2>2, <2>3 DEF ClientInv, SureWritten
    <2> QED
        BY <1>1, <2>2, <2>3, <2>4 DEF WormInv, WrittenOnce
<1> QED
    BY <1>1, WormInvHolds, PTL

-----------------------------------------------------------------------------
(***************************************************************************)
(* What a client knows and has used of its registers.                      *)
(***************************************************************************)
\* No body but the first has numbers, and that one only once it has a tail.
NumbersPlaced ==
    \A c \in Clients, s \in Segments : \A x \in Body(s) :
        numbered[c][x] => s = 0 /\ tail[c][0] # 0

NumbersKept == \A c \in Clients, x \in Addr : numbered[c][x] => numbered'[c][x]

\* The tail of the first segment, once it is set, stays set.
TailStays(c) == tail[c][0] # 0 => tail'[c][0] # 0

LEMMA TailsStay ==
    ASSUME WormInv, NEW c \in Clients, NEW b \in Clients, Runs(b)
    PROVE  TailStays(c)
<1>1. /\ tail \in [Clients -> [Segments -> Nat]]
      /\ 0 \in Segments
      /\ \A s \in Segments : SEG_FIRST(s) + 1 \in Nat \ {0}
    BY SegmentAddresses DEF WormInv, WormTypeOK
<1>2. ASSUME NEW s \in Segments, NEW d, segment_init(b, s, d)
      PROVE  TailStays(c)
    BY <1>1, <1>2 DEF segment_init, TailStays
<1>3. CASE UNCHANGED tail
    BY <1>3 DEF TailStays
<1>4. CASE RegistersRun(b) \/ wos_append(b) \/ wos_append_owner(b)
    BY <1>3, <1>4 DEF RegistersRun, wos_append, wos_append_owner, segmentVars
<1>5. CASE wos_alloc(b) \/ wos_alloc_owner(b) \/ wos_alloc_write(b)
    <2>1. seg[b] \in Segments
        BY <1>5 DEF wos_alloc, wos_alloc_owner, wos_alloc_write, WormInv,
                    WormTypeOK
    <2> QED
        BY <1>2, <1>3, <1>5, <2>1
        DEF wos_alloc, wos_alloc_owner, wos_alloc_write, segmentVars
<1>6. CASE wos_append_write(b)
    <2>1. segment_tail_inc(b, 0)
        BY <1>6 DEF wos_append_write, WormInv, ClientInv, PlaceFits
    <2> QED
        BY <1>1, <2>1 DEF segment_tail_inc, TailStays
<1> QED
    BY <1>4, <1>5, <1>6 DEF Runs

\* A call gives a number to the first register of a segment, or to the one at
\* the tail of the first segment.
LEMMA CallNumbers ==
    ASSUME WormInv, NumbersPlaced, NEW c \in Clients, RegistersRun(c)
    PROVE  NumbersPlaced' /\ NumbersKept
<1>1. /\ Proceeds(c)
      /\ UNCHANGED tail
      /\ numbered' = [numbered EXCEPT ![c][doing[c].addr] = TRUE]
      /\ numbered \in [Clients -> [Addr -> BOOLEAN]]
    BY DEF RegistersRun, segmentVars, WormInv, WormTypeOK
<1>2. NumbersKept
    BY <1>1 DEF NumbersKept
<1>3. ASSUME NEW d \in Clients, NEW s \in Segments, NEW x \in Body(s),
             numbered'[d][x]
      PROVE  s = 0 /\ tail[d][0] # 0
    <2>1. x \in Addr
        BY SegmentAddresses
    <2>2. CASE numbered[d][x]
        BY <2>2 DEF NumbersPlaced
    <2>3. CASE d = c /\ x = doing[c].addr
        <3>1. RegistersTyped /\ ClientInv(c)
            BY DEF WormInv
        <3>2. Busy(c)
            BY <1>1, <3>1, ProceedsEffect DEF Effect
        <3>3. x # SEG_FIRST(seg[c]) \/ at[c] \notin FirstPlaces
            BY SegmentAddresses DEF WormInv, WormTypeOK, FirstPlaces
        <3>4. at[c] = "append_write" /\ x = tail[c][0]
            BY <2>3, <3>1, <3>2, <3>3 DEF ClientInv, CallFits, FirstPlaces
        <3>5. tail[c][0] \in Body(0)
            BY <3>1, <3>4 DEF ClientInv, PlaceFits
        <3> QED
            BY <2>3, <3>4, <3>5, SegmentAddresses, SegmentsAssumption
    <2> QED
        BY <1>1, <1>3, <2>1, <2>2, <2>3
<1> QED
    BY <1>1, <1>2, <1>3 DEF NumbersPlaced

\* wos_body_init resets no number that has been used.
LEMMA BodyInitResetsNothing ==
    ASSUME WormInv, NumbersPlaced, NEW c \in Clients, NEW s \in Segments,
           owner[c][s] = NODE_ID_UNDEF, wos_body_init(c, s)
    PROVE  UNCHANGED numbered
<1> DEFINE kept == [x \in Addr |-> x \notin Body(s) /\ numbered[c][x]]
<1>1. /\ numbered \in [Clients -> [Addr -> BOOLEAN]]
      /\ numbered' = [numbered EXCEPT ![c] = kept]
    BY DEF wos_body_init, wor_init, WormInv, WormTypeOK
<1>2. ASSUME NEW x \in Body(s) PROVE ~numbered[c][x]
    <2>1. TailsSet(c)
        BY DEF WormInv, ClientInv, SegmentsFit
    <2> QED
        BY <2>1 DEF TailsSet, NumbersPlaced
<1>3. \A x \in Addr : kept[x] = numbered[c][x]
    BY <1>1, <1>2
<1>4. kept = numbered[c]
    BY <1>1, <1>3
<1> QED
    BY <1>1, <1>4

LEMMA AllocWriteKeepsNumbers ==
    ASSUME WormInv, NumbersPlaced, NEW c \in Clients, wos_alloc_write(c)
    PROVE  UNCHANGED numbered
<1>1. seg[c] \in Segments /\ owner[c][seg[c]] = NODE_ID_UNDEF
    BY DEF wos_alloc_write, WormInv, WormTypeOK, ClientInv, PlaceFits
<1> QED
    BY <1>1, BodyInitResetsNothing DEF wos_alloc_write

LEMMA NumbersInv ==
    ASSUME WormInv, NumbersPlaced, [WormNext]_vars
    PROVE  NumbersPlaced' /\ NumbersKept
<1>1. ASSUME UNCHANGED numbered, \A c \in Clients : TailStays(c)
      PROVE  NumbersPlaced' /\ NumbersKept
    BY <1>1 DEF NumbersPlaced, NumbersKept, TailStays
<1>2. CASE UNCHANGED wormVars
    BY <1>1, <1>2 DEF wormVars, segmentVars, TailStays
<1>3. ASSUME NEW b \in Clients, Runs(b) PROVE NumbersPlaced' /\ NumbersKept
    <2>1. \A c \in Clients : TailStays(c)
        BY <1>3, TailsStay
    <2>2. CASE RegistersRun(b)
        BY <2>2, CallNumbers
    <2>3. CASE wos_alloc_write(b)
        BY <1>1, <2>1, <2>3, AllocWriteKeepsNumbers
    <2>4. CASE \/ wos_alloc(b) \/ wos_alloc_owner(b) \/ wos_append(b)
               \/ wos_append_owner(b) \/ wos_append_write(b)
        BY <1>1, <2>1, <2>4
        DEF wos_alloc, wos_alloc_owner, wos_append, wos_append_owner,
            wos_append_write
    <2> QED
        BY <1>3, <2>2, <2>3, <2>4 DEF Runs
<1>4. ASSUME NEW b \in Clients, NEW v, worm_sharedlog_append(b, v)
      PROVE  NumbersPlaced' /\ NumbersKept
    BY <1>1, <1>4 DEF worm_sharedlog_append, segmentVars, TailStays
<1> QED
    BY <1>2, <1>3, <1>4 DEF WormNext, Decided, vars

LEMMA NumbersHold == WormSpec => []NumbersPlaced
<1>1. WormInit => NumbersPlaced
    BY SegmentAddresses DEF WormInit, NumbersPlaced
<1>2. WormInv /\ NumbersPlaced /\ [WormNext]_vars => NumbersPlaced'
    BY NumbersInv
<1> QED
    BY <1>1, <1>2, WormInvHolds, PTL DEF WormSpec

(***************************************************************************)
(* No step makes a client forget a register that it knows to be written,   *)
(* or start again with the proposal numbers of a register: wos_body_init   *)
(* is run for no segment in whose body the client has made a call.         *)
(***************************************************************************)
THEOREM WormForgetsNothing == WormSpec => NothingForgotten
<1>1. WormInv /\ NumbersPlaced /\ [WormNext]_vars
        => [\A c \in Clients, x \in Addr :
                /\ Written(c, x) => Written(c, x)'
                /\ numbered[c][x] => numbered'[c][x]]_vars
    BY WormNextInv, NumbersInv DEF KeepsWritten, NumbersKept
<1> QED
    BY <1>1, WormInvHolds, NumbersHold, PTL DEF WormSpec, NothingForgotten
-----------------------------------------------------------------------------
(***************************************************************************)
(* The segments and the registers.                                         *)
(***************************************************************************)
LEMMA WosWriteCalls ==
    ASSUME NEW c \in Clients, NEW s \in Segments, NEW x, cmd[c] \in Cmd,
           wos_write(c, s, x)
    PROVE  UNCHANGED registerCallVars \/ Calls(c)
BY SegmentAddresses DEF wos_write, Calls

LEMMA AllocCalls ==
    ASSUME WormInv, NEW c \in Clients,
           wos_alloc(c) \/ wos_alloc_owner(c) \/ wos_alloc_write(c)
    PROVE  UNCHANGED registerCallVars \/ Calls(c)
<1>1. /\ seg[c] \in Segments
      /\ SEG_FIRST(seg[c]) \in Addr /\ OwnerCmd[c] \in Cmd
    BY SegmentAddresses, WormCommandsAssumption
    DEF wos_alloc, wos_alloc_owner, wos_alloc_write, WormInv, ClientInv,
        PlaceFits
<1>2. CASE wos_alloc(c) \/ wos_alloc_owner(c)
    BY <1>1, <1>2 DEF wos_alloc, wos_alloc_owner, Calls
<1>3. CASE wos_alloc_write(c)
    <2>1. owner[c][seg[c]] = NODE_ID_UNDEF
        BY <1>3 DEF wos_alloc_write, WormInv, ClientInv, PlaceFits
    <2> QED
        BY <1>1, <1>3, <2>1, BodyInitEmptiesNothing DEF wos_alloc_write
<1> QED
    BY <1>2, <1>3

LEMMA AppendCalls ==
    ASSUME WormInv, NEW c \in Clients,
           wos_append(c) \/ wos_append_owner(c) \/ wos_append_write(c)
    PROVE  UNCHANGED registerCallVars \/ Calls(c)
<1>1. cmd[c] \in Cmd
    BY WormCommandsAssumption
    DEF wos_append, wos_append_owner, wos_append_write, WormInv, ClientInv,
        PlaceFits, AppendPlaces, WormTypeOK
<1>2. ASSUME NEW s \in Segments, NEW d, AppendTo(c, s, d)
      PROVE  UNCHANGED registerCallVars \/ Calls(c)
    BY <1>1, <1>2, WosWriteCalls DEF AppendTo
<1>3. CASE wos_append(c)
    BY <1>2, <1>3, SegmentAddresses DEF wos_append, Calls
<1>4. CASE wos_append_owner(c)
    BY <1>2, <1>4 DEF wos_append_owner, WormInv, WormTypeOK
<1>5. CASE wos_append_write(c)
    <2>1. current[c] \in Segments
        BY <1>5, SegmentAddresses
        DEF wos_append_write, WormInv, ClientInv, PlaceFits
    <2> QED
        BY <1>1, <1>5, <2>1, WosWriteCalls DEF wos_append_write
<1> QED
    BY <1>3, <1>4, <1>5

(***************************************************************************)
(* The segments touch the registers through calls of wor_capture_and_write *)
(* and wor_read only.  The initialisation of a body that comes with the    *)
(* answer of a won allocation, behind the back of those calls, changes     *)
(* neither the client's entries nor which registers have used a number: it *)
(* empties what is empty and resets what has not been used.                *)
(***************************************************************************)
THEOREM WormUsesRegisters ==
    WormSpec =>
        /\ RegistersSpec
        /\ [][\A c \in Clients : wos_alloc_write(c)
                => UNCHANGED <<registerCallVars, numbered>>]_vars
<1>1. WormInit => RegistersInit
    BY DEF WormInit
<1>2. ASSUME WormInv, [WormNext]_vars
      PROVE  UNCHANGED registerCallVars \/ RegistersNext
    <2>1. CASE UNCHANGED vars
        BY <2>1 DEF vars
    <2>2. ASSUME NEW x \in Addr, Decided(x) PROVE RegistersNext
        BY <2>2 DEF Decided, RegistersNext, Decides
    <2>3. ASSUME NEW c \in Clients, RegistersRun(c) PROVE RegistersNext
        BY <2>3 DEF RegistersRun, RegistersNext
    <2>4. ASSUME NEW c \in Clients, NEW v, worm_sharedlog_append(c, v)
          PROVE  UNCHANGED registerCallVars
        BY <2>4 DEF worm_sharedlog_append
    <2>5. ASSUME NEW c \in Clients,
                 \/ wos_alloc(c) \/ wos_alloc_owner(c) \/ wos_alloc_write(c)
                 \/ wos_append(c) \/ wos_append_owner(c)
                 \/ wos_append_write(c)
          PROVE  UNCHANGED registerCallVars \/ RegistersNext
        BY <1>2, <2>5, AllocCalls, AppendCalls DEF RegistersNext
    <2> QED
        BY <1>2, <2>1, <2>2, <2>3, <2>4, <2>5 DEF WormNext, Runs
<1>3. ASSUME WormInv, NumbersPlaced, NEW c \in Clients, wos_alloc_write(c)
      PROVE  UNCHANGED <<registerCallVars, numbered>>
    <2>1. seg[c] \in Segments /\ owner[c][seg[c]] = NODE_ID_UNDEF
        BY <1>3 DEF wos_alloc_write, WormInv, WormTypeOK, ClientInv, PlaceFits
    <2>2. UNCHANGED registerCallVars
        BY <1>3, <2>1, BodyInitEmptiesNothing DEF wos_alloc_write
    <2> QED
        BY <1>3, <2>2, AllocWriteKeepsNumbers
<1>4. WormInv /\ NumbersPlaced /\ [WormNext]_vars
        => [\A c \in Clients : wos_alloc_write(c)
                => UNCHANGED <<registerCallVars, numbered>>]_vars
    BY <1>3
<1>5. WormSpec => RegistersSpec
    BY <1>1, <1>2, WormInvHolds, PTL DEF WormSpec, RegistersSpec
<1>6. WormSpec => [][\A c \in Clients : wos_alloc_write(c)
                        => UNCHANGED <<registerCallVars, numbered>>]_vars
    BY <1>4, WormInvHolds, NumbersHold, PTL DEF WormSpec
<1> QED
    BY <1>5, <1>6
=============================================================================
