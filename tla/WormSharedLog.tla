--------------------------- MODULE WormSharedLog ---------------------------
(***************************************************************************)
(* The segmented shared log (worm_sharedlog.c, wos*.c): the log is divided *)
(* into segments, the first register of a segment names the client that    *)
(* owns it, and only the owner appends to the registers of its body.       *)
(***************************************************************************)
EXTENDS RegisterCalls, Integers

CONSTANTS
    WosSize,        \* WOS_SIZE = 16
    NumSegments,    \* NUM_SEGMENTS = LOG_SIZE / WOS_SIZE
    OwnerCmd,       \* OwnerCmd[c]: the command <<CMD_SEGMENT_OWNER, c>>
    JUNK,           \* CMD_JUNK
    AppCmd,         \* the other commands the application appends
    MaxAppends      \* MaxAppends[c]: bound on the appends of client c

NODE_ID_UNDEF == 0

ASSUME SegmentsAssumption ==
    /\ WosSize \in Nat /\ WosSize > 1
    /\ NumSegments \in Nat \ {0}
    /\ Addr = 0 .. NumSegments * WosSize - 1
    /\ MaxAppends \in [Clients -> Nat]

ASSUME WormCommandsAssumption ==
    /\ OwnerCmd \in [Clients -> Cmd]
    /\ \A c, d \in Clients : OwnerCmd[c] = OwnerCmd[d] => c = d
    /\ AppCmd \cup {JUNK} \subseteq Cmd \ {OwnerCmd[c] : c \in Clients}
    /\ JUNK \notin AppCmd
    /\ UndefCmd \notin Cmd
    /\ NODE_ID_UNDEF \notin Clients

VARIABLES
    current,    \* current[c]: current_segment
    owner,      \* owner[c][s]: wos_space[s].owner_id
    tail,       \* tail[c][s]: wos_space[s].tail
    at,         \* where c is in the functions of the log
    seg,        \* the segment that wos_alloc or wos_append works on
    cmd,        \* the command c appends, or UndefCmd
    appended,   \* what c's last worm_sharedlog_append returned
    appends,    \* the appends c has made
    numbered    \* numbered[c][x]: c's paxos_space has a proposal number for x

segmentVars == <<current, owner, tail>>
placeVars == <<at, seg, cmd, appended, appends>>
wormVars == <<segmentVars, placeVars, numbered>>
vars == <<registerCallVars, wormVars>>

Segments == 0 .. NumSegments - 1

SEG_FIRST(s) == s * WosSize

\* Mutant: offsets count the registers of the body.
SEG_ADDR_BODY(s, offset) == SEG_FIRST(s) + offset + 1

SEG_ADDR(s, offset) == SEG_FIRST(s) + offset

SEG_LAST(s) == SEG_FIRST(s) + WosSize - 1

\* The registers after the first one of a segment.
Body(s) == SEG_FIRST(s) + 1 .. SEG_LAST(s)

\* "beyond": wos_space would be indexed past its end.
Place == {"idle", "alloc", "alloc_owner", "alloc_write",
          "append", "append_owner", "append_write", "beyond"}

\* worm_sharedlog_init, up to the first turn of update_segment.
WormInit ==
    /\ RegistersInit
    /\ current = [c \in Clients |-> 0]
    /\ owner = [c \in Clients |-> [s \in Segments |-> NODE_ID_UNDEF]]
    /\ tail = [c \in Clients |-> [s \in Segments |-> 0]]
    /\ at = [c \in Clients |-> "alloc"]
    /\ seg = [c \in Clients |-> 0]
    /\ cmd = [c \in Clients |-> UndefCmd]
    /\ appended = [c \in Clients |-> "none"]
    /\ appends = [c \in Clients |-> 0]
    /\ numbered = [c \in Clients |-> [x \in Addr |-> FALSE]]
-----------------------------------------------------------------------------
Goes(c, place) == at' = [at EXCEPT ![c] = place]

\* Mutant: any answer of wor_read counts.
ReadAnyOwner(c, d) == readCmd[c] = OwnerCmd[d] \/ readCmd[c] = UndefCmd

\* wor_read found that d owns the segment.  ALREADYWRITTEN, its answer when
\* the register is known to be written, does not count.
ReadOwner(c, d) == answer[c] = "OK" /\ readCmd[c] = OwnerCmd[d]

\* segment_owner_set and segment_tail_init.
segment_init(c, s, d) ==
    /\ owner' = [owner EXCEPT ![c][s] = d]
    /\ tail' = [tail EXCEPT ![c][s] = SEG_FIRST(s) + 1]

\* wor_init of the registers xs: their paxos_space entries are empty again,
\* and their next proposal numbers are the first ones.
wor_init(c, xs) ==
    /\ held' = [held EXCEPT ![c] =
                    [x \in Addr |-> IF x \in xs THEN {} ELSE @[x]]]
    /\ numbered' = [numbered EXCEPT ![c] =
                    [x \in Addr |-> x \notin xs /\ @[x]]]
    /\ UNCHANGED <<registerVars, doing, asking, before, answer, readCmd>>

\* Mutant: the loop of wos_body_init starts at offset 0.
wos_segment_init(c, s) == wor_init(c, SEG_FIRST(s) .. SEG_LAST(s))

wos_body_init(c, s) == wor_init(c, Body(s))

\* update_segment tries the same segment again, and only current_segment
\* moves on (here no further than NUM_SEGMENTS).
AllocAgain(c) ==
    /\ current' = [current EXCEPT ![c] = IF @ < NumSegments THEN @ + 1 ELSE @]
    /\ Goes(c, "alloc")

\* update_segment is done, and so is worm_sharedlog_init; or an append goes on.
Allocated(c) ==
    /\ Goes(c, IF cmd[c] = UndefCmd THEN "idle" ELSE "append")
    /\ UNCHANGED current
-----------------------------------------------------------------------------
\* wos_alloc asks wos_owner first, which answers from wos_space if it can.
wos_alloc(c) ==
    LET s == seg[c] IN
    /\ at[c] = "alloc"
    /\ \/ /\ owner[c][s] # NODE_ID_UNDEF
          /\ segment_init(c, s, owner[c][s])
          /\ AllocAgain(c)
          /\ UNCHANGED registerCallVars
       \/ /\ owner[c][s] = NODE_ID_UNDEF
          /\ wor_read(c, SEG_FIRST(s))
          /\ Goes(c, "alloc_owner")
          /\ UNCHANGED segmentVars
    /\ UNCHANGED <<seg, cmd, appended, appends, numbered>>

wos_alloc_owner(c) ==
    LET s == seg[c] IN
    /\ at[c] = "alloc_owner"
    /\ ~Busy(c)
    /\ \/ \E d \in Clients :
            /\ ReadOwner(c, d)
            /\ segment_init(c, s, d)
            /\ AllocAgain(c)
            /\ UNCHANGED registerCallVars
       \/ /\ ~\E d \in Clients : ReadOwner(c, d)
          /\ wor_capture_and_write(c, SEG_FIRST(s), OwnerCmd[c])
          /\ Goes(c, "alloc_write")
          /\ UNCHANGED segmentVars
    /\ UNCHANGED <<seg, cmd, appended, appends, numbered>>

\* Mutant: a register that is already written is no success.
AllocSettledNever == {}

\* The answers that end update_segment although the client owns nothing.
AllocSettled == {"ALREADYWRITTEN"}

\* OK: the owner command is written, this client's or one it recovered.
wos_alloc_write(c) ==
    LET s == seg[c] IN
    /\ at[c] = "alloc_write"
    /\ ~Busy(c)
    /\ \/ /\ answer[c] = "OK"
          /\ wos_body_init(c, s)
          /\ segment_init(c, s, c)
          /\ Allocated(c)
       \/ /\ answer[c] \in AllocSettled
          /\ Allocated(c)
          /\ UNCHANGED <<registerCallVars, owner, tail, numbered>>
       \/ /\ answer[c] \notin AllocSettled \cup {"OK"}
          /\ AllocAgain(c)
          /\ UNCHANGED <<registerCallVars, owner, tail, numbered>>
    /\ UNCHANGED <<seg, cmd, appended, appends>>
-----------------------------------------------------------------------------
worm_sharedlog_append(c, v) ==
    /\ at[c] = "idle"
    /\ appends[c] < MaxAppends[c]
    /\ appends' = [appends EXCEPT ![c] = @ + 1]
    /\ cmd' = [cmd EXCEPT ![c] = v]
    /\ appended' = [appended EXCEPT ![c] = "none"]
    /\ Goes(c, "append")
    /\ UNCHANGED <<registerCallVars, segmentVars, seg, numbered>>

AppendReturns(c, st) ==
    /\ Goes(c, "idle")
    /\ cmd' = [cmd EXCEPT ![c] = UndefCmd]
    /\ appended' = [appended EXCEPT ![c] = st]

\* wos_write: only the segment's body is written.
wos_write(c, s, x) ==
    \/ /\ x \in Body(s)
       /\ wor_capture_and_write(c, x, cmd[c])
       /\ Goes(c, "append_write")
       /\ UNCHANGED <<cmd, appended>>
    \/ /\ x \notin Body(s)
       /\ AppendReturns(c, "EOS_ERROR")
       /\ UNCHANGED registerCallVars

\* Whether c may append its command to a segment that d owns.
MayAppend(c, d) == d = c \/ cmd[c] = JUNK

\* The owner of segment s is d, as far as wos_owner could tell.
AppendTo(c, s, d) ==
    \/ /\ MayAppend(c, d)
       /\ wos_write(c, s, SEG_ADDR(s, tail[c][s]))
       /\ UNCHANGED <<current, seg>>
    \/ /\ ~MayAppend(c, d)
       /\ current' = [current EXCEPT ![c] = s + 1]
       /\ seg' = [seg EXCEPT ![c] = s + 1]
       /\ Goes(c, IF s + 1 < NumSegments THEN "alloc" ELSE "beyond")
       /\ UNCHANGED <<registerCallVars, cmd, appended>>

wos_append(c) ==
    LET s == current[c] IN
    /\ at[c] = "append"
    /\ \/ /\ s \notin Segments
          /\ Goes(c, "beyond")
          /\ UNCHANGED <<registerCallVars, segmentVars, seg, cmd, appended>>
       \/ /\ s \in Segments
          /\ owner[c][s] # NODE_ID_UNDEF
          /\ AppendTo(c, s, owner[c][s])
          /\ UNCHANGED <<owner, tail>>
       \/ /\ s \in Segments
          /\ owner[c][s] = NODE_ID_UNDEF
          /\ wor_read(c, SEG_FIRST(s))
          /\ seg' = [seg EXCEPT ![c] = s]
          /\ Goes(c, "append_owner")
          /\ UNCHANGED <<segmentVars, cmd, appended>>
    /\ UNCHANGED <<appends, numbered>>

wos_append_owner(c) ==
    LET s == seg[c] IN
    /\ at[c] = "append_owner"
    /\ ~Busy(c)
    /\ \/ \E d \in Clients :
            /\ ReadOwner(c, d)
            /\ owner' = [owner EXCEPT ![c][s] = d]
            /\ AppendTo(c, s, d)
       \/ /\ ~\E d \in Clients : ReadOwner(c, d)
          /\ AppendTo(c, s, NODE_ID_UNDEF)
          /\ UNCHANGED owner
    /\ UNCHANGED <<tail, appends, numbered>>

\* Mutant: the tail moves on after every answer.
TailAnswers == {"OK", "ALREADYWRITTEN", "TIMEOUT"}

\* The answers of wos_write after which the tail moves on.
TailMoves == {"OK", "ALREADYWRITTEN"}

segment_tail_inc(c, s) ==
    tail' = IF answer[c] \in TailMoves /\ tail[c][s] < WosSize
            THEN [tail EXCEPT ![c][s] = @ + 1] ELSE tail

\* Mutant: wos_append returns what wos_write first answered.
wos_append_write_once(c) ==
    /\ at[c] = "append_write"
    /\ ~Busy(c)
    /\ segment_tail_inc(c, current[c])
    /\ AppendReturns(c, answer[c])
    /\ UNCHANGED <<registerCallVars, current, owner, seg, appends, numbered>>

\* The loop of wos_append goes on to the next address, that of the tail.
wos_append_write(c) ==
    LET s == current[c] IN
    /\ at[c] = "append_write"
    /\ ~Busy(c)
    /\ segment_tail_inc(c, s)
    /\ \/ /\ answer[c] = "ALREADYWRITTEN"
          /\ wos_write(c, s, SEG_ADDR(s, tail'[c][s]))
       \/ /\ answer[c] # "ALREADYWRITTEN"
          /\ AppendReturns(c, answer[c])
          /\ UNCHANGED registerCallVars
    /\ UNCHANGED <<current, owner, seg, appends, numbered>>
-----------------------------------------------------------------------------
\* The call of the registers that c is in.  It has been through
\* wor_get_next_proposal by its first step, or finds the register written in
\* a call that was.
RegistersRun(c) ==
    /\ Proceeds(c)
    /\ numbered' = [numbered EXCEPT ![c][doing[c].addr] = TRUE]
    /\ UNCHANGED <<segmentVars, placeVars>>

Runs(c) ==
    \/ RegistersRun(c)
    \/ wos_alloc(c)
    \/ wos_alloc_owner(c)
    \/ wos_alloc_write(c)
    \/ wos_append(c)
    \/ wos_append_owner(c)
    \/ wos_append_write(c)

Decided(x) ==
    /\ \E v \in Cmd : Decide(x, v)
    /\ UNCHANGED wormVars

WormNext ==
    \/ \E x \in Addr : Decided(x)
    \/ \E c \in Clients :
        \/ Runs(c)
        \/ \E v \in AppCmd \cup {JUNK} : worm_sharedlog_append(c, v)

\* A client runs its code, and its calls of the registers come to an answer
\* (CallsReturn of Wor), whichever it is: that they write is not assumed.
WormSpec == /\ WormInit
            /\ [][WormNext]_vars
            /\ \A c \in Clients : WF_vars(Runs(c))
-----------------------------------------------------------------------------
WormTypeOK ==
    /\ current \in [Clients -> 0 .. NumSegments]
    /\ owner \in [Clients -> [Segments -> Clients \cup {NODE_ID_UNDEF}]]
    /\ tail \in [Clients -> [Segments -> Nat]]
    /\ at \in [Clients -> Place]
    /\ seg \in [Clients -> 0 .. NumSegments]
    /\ cmd \in [Clients -> AppCmd \cup {JUNK, UndefCmd}]
    /\ appended \in [Clients -> {"none", "OK", "EOS_ERROR", "TIMEOUT"}]
    /\ \A c \in Clients : appends[c] \in 0 .. MaxAppends[c]
    /\ numbered \in [Clients -> [Addr -> BOOLEAN]]
    /\ \A c \in Clients :
        at[c] \in {"alloc", "alloc_owner", "alloc_write",
                   "append_owner", "append_write"} => seg[c] \in Segments

(***************************************************************************)
(* A client forgets no register that it knows to be written, and no        *)
(* proposal number that it has used (with wor_init it would use the number *)
(* again), although wos_body_init initialises a whole body: it comes       *)
(* before anything else the client does there, and leaves the first        *)
(* register alone.                                                         *)
(***************************************************************************)
NothingForgotten ==
    [][\A c \in Clients, x \in Addr :
        /\ Written(c, x) => Written(c, x)'
        /\ numbered[c][x] => numbered'[c][x]]_vars

(***************************************************************************)
(* Nothing is appended to a segment whose first register is not known to   *)
(* be written: the order in which update_segment moves current_segment and *)
(* allocates does not leave a client writing to a segment without owner.   *)
(***************************************************************************)
AppendsToAllocated ==
    \A c \in Clients :
        at[c] = "append_write" => Written(c, SEG_FIRST(current[c]))

(***************************************************************************)
(* The first segment is filled without holes: the tail of a client passes  *)
(* no register that it does not know to be written, so EOS_ERROR means     *)
(* that the segment is full, or that the client has no tail there.         *)
(***************************************************************************)
FirstSegmentFills ==
    \A c \in Clients : \A x \in Body(0) : x < tail[c][0] => Written(c, x)

(***************************************************************************)
(* When a client takes another one for the owner of a segment, it has read *)
(* so in the first register of the segment, and it is right if a quorum    *)
(* acknowledged that register.                                             *)
(***************************************************************************)
OwnerIsWritten ==
    \A c \in Clients, s \in Segments : \A d \in Clients \ {c} :
        owner[c][s] = d =>
            \E e \in held[c][SEG_FIRST(s)] :
                /\ e.cmd = OwnerCmd[d]
                /\ e.sure => register[SEG_FIRST(s)] = {OwnerCmd[d]}

(***************************************************************************)
(* update_segment comes to an end if its writes do not time out for ever,  *)
(* whatever its reads answer, but for a segment whose owner the client     *)
(* knows: that one it allocates for ever.                                  *)
(***************************************************************************)
AllocEnds ==
    \A c \in Clients :
        <>[]~(at[c] = "alloc_write" /\ answer[c] = "TIMEOUT")
            => (at[c] \in {"alloc", "alloc_owner", "alloc_write"}
                ~> \/ at[c] \notin {"alloc", "alloc_owner", "alloc_write"}
                   \/ owner[c][seg[c]] # NODE_ID_UNDEF)

(***************************************************************************)
(* "Append if client owns the segment; if it does not, it can only write   *)
(* junk" (wos.c): a client that appends a command of the application is    *)
(* the one that the segment's first register names.                        *)
(***************************************************************************)
OnlyOwnerAppends ==
    \A c \in Clients :
        at[c] = "append_write" /\ cmd[c] # JUNK
            => register[SEG_FIRST(current[c])] \subseteq {OwnerCmd[c]}
=============================================================================
