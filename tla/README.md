# MinPaxos in TLA+

MinPaxos is a small C implementation of a replicated counter over a shared log
whose entries are write-once registers; every register is decided by its own
instance of Paxos, spoken over UDP between client programs and three acceptor
programs. This directory holds TLA+ modules of all its layers, the TLC
configurations that check them on small instances, and proofs, checked by the
TLA+ proof system, that hold for every instance.

Paths below are relative to `src/` of the repository.

- [The system](#the-system)
- [What is hard about it](#what-is-hard-about-it)
- [The modules](#the-modules)
- [How the model corresponds to the code](#how-the-model-corresponds-to-the-code)
- [The runs](#the-runs)
- [Where the code and its comments disagree](#where-the-code-and-its-comments-disagree)
- [The proofs](#the-proofs)
- [What is not modelled](#what-is-not-modelled)

## The system

| component | files | state | operations |
|---|---|---|---|
| acceptor | `acceptor/acceptor.c`, `paxos_common/space.c` | `paxos_space[addr]`: `prop` (promise), `vprop`, `vcmd` (vote) | `acceptor_msg_handler`, once per datagram, for ever |
| write-once registers, client side | `paxos_lib/wor*.c`, `paxos_common/space.c` | `paxos_space[addr]`, `is_written`, the rows `wor_quorums_capture`, `wor_quorums_write`, the last read `wor_read_cmd0/1` | `wor_init`, `wor_capture_and_write`, `wor_read` |
| network | `paxos_common/comm.c`, `messages.*`, `paxos_lib/paxos_comm.c`, `paxos_view.c` | datagrams in transit or in a socket | `send_msg`, `receive_msg`, `paxos_broadcast_msg` |
| shared log | `paxos_lib/sharedlog.c`, `sharedlog_indices.c` | three indices: `first_unexecuted_addr`, `first_unwritten_addr`, `first_blank_addr` | `sharedlog_init`, `sharedlog_append`, `sharedlog_getnext` |
| write-once segments | `paxos_lib/wos*.c` | per segment: owner, tail | `wos_alloc`, `wos_append`, `wos_read`, `wos_test` |
| segmented shared log | `paxos_lib/worm_sharedlog.c` | `current_segment` and the indices | `worm_sharedlog_init`, `_append`, `_getnext` |
| replicated counter | `app/repcounter.c`, `app/repcounter0.c`, `app/client.c` | `counter.value` | `repcounter_inc`, `repcounter_read` |

A client program is one thread. `repcounter_inc` and `repcounter_read` append
a command to the log and then execute every command of the log not executed
yet. An append calls `wor_capture_and_write` on a log address, once or (in the
segmented log, and when an address turns out to be taken) several times.

`wor_capture_and_write` is a loop of two phases, at most `MAX_RETRIES` times:

1. *capture*, itself a loop: take a new proposal number, broadcast `CAPTURE`,
   and receive datagrams until a quorum has acknowledged the number, an
   acceptor shows a higher one, or as many datagrams have come as there are
   acceptors;
2. *write*: broadcast `ACCEPT` with the command the capture phase found, or
   the caller's own, and receive in the same way.

An acceptor answers every `CAPTURE` with its entry, stores the number when it
is higher, and accepts an `ACCEPT` whose number is at least its promise; an
`ACCEPT` below it is dropped without an answer.

What would make each component correct (where the code falls short of it is
[below](#where-the-code-and-its-comments-disagree)):

- *registers*: at most one command is chosen at an address; it stays chosen;
  it was somebody's argument; what the calls return agrees with it; calls
  return;
- *shared log*: an append that returns OK has put its command in the log, and
  the executed, written and blank prefixes are ordered;
- *segments*: one owner per segment; only the owner appends to it, at its tail;
- *segmented log*: an append that returns OK has its command in some segment,
  and `getnext` reaches every command;
- *counter*: all clients execute the same commands in the same order, and a
  read returns the sum of the increments before it.

## What is hard about it

`PROJECT.json` lists the hazards, each at its line. The ones that shape the
model:

- Rounds of several clients interleave at the acceptors, and their datagrams
  are delayed, lost, reordered and duplicated by UDP.
- A client has one socket for everything. A receive loop reads whatever comes
  next: acknowledgments of an earlier round, of an earlier call, of another
  address. Each of them uses up one turn of the loop.
- `recvfrom` has no timeout. A loop that is owed fewer datagrams than it has
  turns left waits for ever.
- Proposal numbers are made locally, `(round + 1) * PROP_ONE + id`. Two
  clients never use the same number only because of the id; one client never
  uses a number twice only because its `prop` never goes back.
- The acceptor answers a `CAPTURE` with its *old* number, while the client
  counts only answers that carry its *new* number. A capture therefore
  succeeds only when a `CAPTURE` reaches an acceptor twice. Every property of
  writes and reads hangs on duplicated datagrams, which is why duplication is
  in the model, and in the bounds of the runs.
- Quorum rows are written at the acceptor's id, `1..N`, but reset and counted
  over the indices `0..N-1`. The last acceptor never counts and is never
  reset.
- The bookkeeping at the last turn: a quorum reached with the N-th datagram is
  reported as a preemption, and `is_written` is set when the loop ends without
  a quorum, then even for an entry that holds CMD_UNDEF.
- Nothing is persistent. A program started again under the same id reuses its
  numbers.
- The layers above trust what the calls answer. OK may be for a command
  recovered from another client, and ALREADYWRITTEN for the caller's own, which
  is then appended once more. TIMEOUT says that no `ACCEPT` was sent; the
  address is left behind, and a log index that waits for it stays where it is.
  It is also the usual answer: as every capture needs a duplicated datagram,
  calls may time out for ever.
- Address 0 is what `fetch_and_inc_first_blank_addr` answers of a full log and
  what `update_first_unwritten_addr` wraps to, and it is a register like any
  other.

## The modules

| module | what it is |
|---|---|
| `PaxosCommon` | node ids, proposal numbers, commands, messages, quorum rows |
| `Wor` | the registers: clients, acceptors and network together; properties; fairness |
| `WriteOnce` | abstract specification: a register takes one proposed command, once |
| `RegisterCalls` | abstract specification: what a client's calls of the registers answer and leave in its `paxos_space` |
| `SharedLog` | the log of `sharedlog.c` and its indices, over `RegisterCalls` |
| `RepCounter` | the counter of `repcounter0.c` over `SharedLog` |
| `WormSharedLog` | the segmented log of `worm_sharedlog.c` and `wos*.c`, over `RegisterCalls` |
| `WorInvariant` | the inductive invariant of `Wor` behind agreement |
| `WorCallInvariant` | what it takes on top of it to believe a call's answer, and to expect one |
| `WorTypes` | proofs: lemmas on the arithmetic, on bags of datagrams, type correctness of `Wor` |
| `WorProofs` | proofs: the invariant, agreement, the refinement of `WriteOnce` |
| `WorCallProofs` | proofs: the second invariant; OK and reads agree with what is chosen; a waiting client is owed a datagram; a client alone writes nothing; the loops of a call run out |
| `WorRefinesCalls` | proofs: `Wor` implements `RegisterCalls` |
| `RegisterTypes` | proofs: what each step of `RegisterCalls` changes; it implements `WriteOnce` |
| `SharedLogProofs` | proofs: the indices of the log; it uses the registers as `RegisterCalls` allows |
| `RepCounterProofs` | proofs: the counter implements the log's specification; what a call has executed; the values of the replicas |
| `WormProofs` | proofs: allocation and appends of the segmented log; it uses the registers as `RegisterCalls` allows |
| `WorRestart` | `Wor` plus the restart of a client program |
| `WorClaims` | statements of comments of the repository that the registers do not meet |
| `MCWor`, `MCWorRestart`, `MCRepCounter`, `MCWormSharedLog` | the instances TLC runs |

The layers meet in `RegisterCalls`:

    Wor            RepCounter
     |                 | extends, and implements LogSpec
     |             SharedLog        WormSharedLog
     |                 | extends       | extends
     +--implements--> RegisterCalls <--+
                       | instance
                    WriteOnce

`Wor` contains an instance of `WriteOnce`, whose `register` is defined by the
votes of the acceptors, and one of `RegisterCalls`, whose `held` is what
`cspace`, `written` and `writeRow` say and whose `answer` is `status`. The run
`contention` checks that the rounds of `Wor` implement it, and `RefinesCalls`
proves it for every instance. `SharedLog` and
`WormSharedLog` extend `RegisterCalls`: a step of theirs that calls
`wor_capture_and_write` or `wor_read` begins a call there, `Proceeds` are the
steps of the call, `Decides` those of the acceptors, and the code of the log
goes on when the call has answered. So the logs are checked against everything
a call may do, a write round that ran out of turns before or after its command
was chosen included, without the datagrams.

## How the model corresponds to the code

**Processes.** Acceptors `1..NumAcceptors`, of which `Up` run; clients, which
are ids below `PROP_ONE`. A client step runs from one point where it can be
interrupted to the next: the points are a `recvfrom` and the `sendto` loop of
a broadcast. `pc` names them: `idle`, `capture_send`, `capture_receive`,
`write_send`, `write_receive`. Everything the code does between two of them,
through all the returns of the nested loops, is one action; `CaptureLoop`,
`CaptureRoundEnds`, `WriteLoop`, `WriteRoundEnds` and `Returns` are those
returns, and each is used by every action that may end the loop in question.

| model | code |
|---|---|
| `HandleCapture`, `HandleAccept` | the two branches of `acceptor_msg_handler` |
| `wor_capture_and_write`, `wor_read` | the call, up to the first broadcast (or to the return, when the address is known to be written) |
| `wor_capture_send` | `wor_capture_send`, with the reset of vote and rows, the new number and the broadcast; `ERROR` when the numbers are used up; `ALREADYWRITTEN` |
| `wor_capture_receive` | one turn of its loop, `wor_handle_capture_ack` |
| `wor_write_send` | `wor_write_send` with `wor_select_value`; the `UNWRITTEN` branch of `wor_read_helper` |
| `wor_write_receive` | one turn of its loop, `wor_handle_write_ack` |
| `ReceiveError` | a turn of either loop whose `recvfrom` failed |
| `aspace`, `cspace`, `written` | `paxos_space` of an acceptor, of a client, and its `is_written` |
| `captureRow`, `writeRow` | the ids whose entry in the row is 1 |
| `retries`, `attempts`, `pending` | the three `count` variables |
| `votes`, `proposed`, `before` | history: no guard reads them |

**Calls of the registers.** A call of `RegisterCalls` is in progress while
`doing[c]` names it. `Ask` is the start of a write round; `Decide` the moment
a majority has voted; `Acknowledged` and `AcknowledgedLate` a quorum of
acknowledgments before, and with, the last turn of the loop; `RunsOut` the
end of the turns without a quorum, which sets `is_written` all the same;
`FindsWritten` the next round of that call, or of a later one; `TimesOut` and
`FindsUnwritten` the ends before a write round. `ERROR` (no number left) is
merged into `TIMEOUT`: no caller tells them apart. `held[c][x]` is what the
client's `paxos_space` says is written at `x`, with a mark, `sure`, that no
code reads: whether a quorum acknowledged it.

**Shared log and counter.** `sharedlog_append` is the first turn of the
function, `AppendRetries` the recursive call after ALREADYWRITTEN (with the
update of `first_unwritten_addr` before it) and `AppendReturns` the end:
`update_first_unwritten_addr` after OK, UNKNOWNERROR after anything else.
`sharedlog_getnext(c, n)` stands for the calls that hand out the commands up
to address `n - 1`; `repcounter_execute_all_pending` makes them until none is
left, within one action, because nothing in that loop waits or is seen by
anyone else: `Performing` is its loop, command by command. `counter.value` is a
`uint`, so the sum is taken modulo `UintSize`, 2^32 in the code.
`Program` is the list of calls of the application (`client.c`), as a constant.
The history variable `seen` is the length of the written prefix when the call
began.

**Segmented log.** `at[c]` is where the thread is between two calls of the
registers: `alloc`, `alloc_owner`, `alloc_write` in `update_segment` and
`wos_alloc`, `append`, `append_owner`, `append_write` in
`worm_sharedlog_append` and `wos_append`. "beyond" stands for an index into
`wos_space` past its end, which the code does not prevent and where the model
stops; `current_segment` is not counted past `NumSegments`, as all values from
there on are past the end. UNKNOWNERROR of the segment calls is kept as the
status it was made of. `wos_body_init` calls `wor_init` for each register of a
body, which resets the whole `paxos_space` entry. Of the entry the layer keeps
`held` (`is_written` with the command) and `numbered`, whether `prop` is no
longer `PROP_UNDEF`, because these two are what a later call relies on; the
vote of an entry that is not written is reset again by the next
`wor_capture_send` anyway. Two things follow from the code and shape the model:

- `segment_tail_init` stores an address where `SEG_ADDR` adds the base once
  more, so the tail of any segment but the first points out of its body and
  `wos_append` answers EOS_ERROR there;
- `worm_sharedlog_getnext` asks `wos_read` for offset 0, which is outside
  every body: it never hands out a command, so `repcounter.c` never executes
  one, and there is no counter over this log to model.

**Network.** `net` is the bag of datagrams in transit. Any of them may be the
next to arrive, which covers delay and reordering; none has to (in `Spec`,
without fairness), which covers loss. Receiving one may leave a copy behind:
duplication. `MaxFaults` bounds duplications and failed receptions together.
The layers above have no such bound: any call may time out, and any write
round may end late or without a quorum, as often as it likes.

**Data.** A command is the pair of its two words, as a model value; a message
keeps the fields the handlers test. `PROP_ONE` and `PROP_MAX` are constants:
the code's `PROP_MAX` leaves room for one more round below 2^31, so no sum
overflows (`NumbersFit`) and naturals are exact. `sharedlog_init` starts every number from 1
and the segmented log from 0; `PROP_NEXT` looks at the high half only, so the
first number after either is `PROP_ONE + id`, and the model starts from 0.

**Branches that cannot be taken.** Two outcomes are in the model because they
are in the code, but no behaviour reaches them with more than one retry. A
write acknowledgment never carries a number above the client's own, because it
echoes a number the client has used, so a write loop is never preempted by
one. And a write loop that ran out of turns has set `is_written`, so the next
round ends with ALREADYWRITTEN: `wor_read` never gets to return PREEMPTED,
which `wor.h` does not list either.

## The runs

The instances of `Wor` have three acceptors, `PROP_ONE = 4`, and
`MAX_RETRIES = 2` unless noted; with 2, a loop still has a first, a further
and a last turn. `CHECK_DEADLOCK` is off because the system stops when the
operations of the workload are done, and, as written, also when every client
is blocked in `recvfrom`; the second case is what `waiting` and `returns` ask
about.

| run | instance | properties | what it shows |
|---|---|---|---|
| `contention` | clients 1 and 2, one call each, on one address: a write against a write or a read; acceptors 1 and 2 up; 4 faults (about a million states) | `TypeOK`, `IInv`, `CallsInv`, `Agreement`, `OneCommandPerProposal`, `ReadSeesChosen`, `ImplementsCalls` | the register takes one command and keeps it; a read that follows never misses it; every call answers as `RegisterCalls` says |
| `addresses` | one client, two calls on two addresses; 4 faults | `OkMeansChosen`, `ImplementsWriteOnce` | late acknowledgments of one address never count for the other, though the numbers are the same |
| `waiting` | as `contention`, all acceptors up, nothing lost, 2 faults | `NeverStarved`, `ClientsOwed` | a client in `recvfrom` has a datagram coming, and one for each turn its loop has left |
| `returns` | one client, two calls, all acceptors up, 2 faults, fairness | `CallsReturn`, `TurnsRunOut`, `NothingWrittenAlone` | every call returns, since each step uses up a turn of its loops; before the first fault none has success |
| `counter` | two clients, one increments and reads, the other increments, over a log of addresses 0 to 3; 2 late rounds | `CounterTypeOK`, `IndicesOrdered`, `PrefixHeld`, `FreshUntilFull`, `ReplicasAgree`, `UpToDateIfFirst`, `AppendsEnd` | indices and counter agree with the registers, also when the log fills up and when an append times out |
| `segments` | two clients, two segments of three registers; one appends twice, the other once; 1 late round | `WormTypeOK`, `AppendsToAllocated`, `FirstSegmentFills`, `OwnerIsWritten`, `NothingForgotten`, `AllocEnds` | allocation and appends of the segmented log, contended first registers and full segments included |

*Why these bounds.* Acceptor 3 never counts in a quorum (see above), so
`Up = {1, 2}` is the smallest instance in which calls succeed; letting it run
multiplies the states without a new outcome for safety, and the proofs do not
restrict `Up`. To capture a register, two acceptors must receive a `CAPTURE`
twice, so one successful round takes two faults and four faults let both
clients succeed, or one client succeed in a round that another one then
overtakes. `PropMax = 7` gives each of the two clients one number before the
next would pass `PROP_MAX`, so the `ERROR` branch is reached; the runs of one
client use `PropMax = 11`, two numbers. In the runs of the
logs timeouts are not bounded; what is, in the `MC` modules, is the number of
write rounds that end late or without a quorum (`late`, at most `MaxLate`; TLC
explores no behaviour beyond, by the constraint `FewLate`). Each of them makes
its append try one more address. With two, in `counter`, the two calls of the
first client may try the addresses 1, 2, 3 and 0, so that its log fills up, it
writes at address 0 and `first_unwritten_addr` wraps; an address that timed out
stays a gap in the middle of a log that goes on; and `UintSize = 3` makes a
value wrap at the second increment. In `segments` one such round is enough for
the loop of `wos_append` to go on to the next address and for a first register
that is known to be written while nobody owns it; a body of two registers is
filled by the two appends of its owner, the other client finds the segment
taken and goes on to the next one, and both may allocate at the same time. A
wrong design of what the code tests shows
within these bounds: for every property there is a mutated definition in the
modules (commented "Mutant:") with which the same run finds the property
violated, among them the missing promise test of the acceptor, the missing id
in the number, the reversed comparison of votes, a quorum of half
of the acceptors, an acknowledgment of another address that counts, an
index that counts a failed append as written, a preempted capture that uses up
no attempt, and a `wos_body_init` that starts one register too early.

*Fairness.* `FairSpec` has weak fairness of each running acceptor's handler
(its main loop receives for ever) and of each client's own steps between and
at its receptions (`Runs`): a thread that can run does, and a datagram that is
the only thing left to receive arrives. New calls, duplications and failed
receptions carry no fairness. Fair delivery is the hypothesis of the comment
at `wor_steps.c:51-53`, "if no messages are dropped".

`CounterSpec` and `WormSpec` have weak fairness of each client's code (`Runs`),
the steps of its calls among them, and of nothing else. That a call in progress
comes to an answer is what `CallsReturn` says of `Wor`; which answer is left
open, so nothing promises that a register is ever written. `AppendsEnd` holds
all the same, as a timeout ends an append; it leaves out the full log, where an
append at address 0 may be answered ALREADYWRITTEN for ever. `AllocEnds` does
not: `update_segment` goes round again after a timeout, and a client alone, on
a network that duplicates nothing, gets nothing else (`AloneWritesNothing`). So
it is stated under the hypothesis that the client's owner commands do not time
out for ever, and it leaves out the segment whose owner the client knows, which
`update_segment` allocates for ever.

`NeverStarved` deserves a word. An acceptor drops an overtaken `ACCEPT`
silently, so the three answers a write loop counts on may never come. It is
saved by what its capture round left in the socket. That round succeeded
before its last turn, on at most two datagrams, and those were the answers to
the duplicates of two `CAPTURE`s; the three answers to the first copies carry
the old number and are still to come, one for each turn of the write loop. The
property fails as soon as acceptors answer less often, as the mutant
`CaptureAnswerNewer` shows. It holds with three and four acceptors
(`NobodyStarves`) and, by this argument, not with five: there three duplicates
make a quorum, the capture may end on its fourth turn having received them and
one of the five first answers, and the four that are left do not pay for the
five turns of a write loop whose `ACCEPT`s all acceptors drop. Both `_init`
functions set three acceptors, so this is a remark about a larger
configuration, which no run covers.

`UpToDateIfFirst` says how far a read can be trusted: a call of the counter
that returns OK leaves `counter.value` at the value of the log up to and beyond
the prefix that was written when it began, provided no append of this client
ever failed (its address stays a gap), the last address was unwritten when it
was tried (otherwise OK may only mean that another client's command was
completed there, see `claim_stale_read`) and quorums acknowledged to the client
every address it has executed (otherwise it may have executed a hole, or
another command, where the log has one).

## Where the code and its comments disagree

Six runs state what a comment of the repository says, and TLC finds a
behaviour of the code that breaks it. They are listed as findings in
`PROJECT.json`.

| run | says | the code |
|---|---|---|
| `claim_capture_succeeds` | "Eventually a proposal number big enough will be found" (`wor_steps.c:36`) | a client alone on a network that loses and duplicates nothing uses up its retries: no acceptor ever echoes the number it was sent (`acceptor.c:39`). `AloneWritesNothing` proves that this is so of every such behaviour, whatever the number of retries and acceptors, until the first datagram is duplicated or reception fails |
| `claim_majority` | the loop ends when "there is a majority of acceptors that sent ack messages" (`wor_steps.c:48`) | acceptor N's acknowledgment is at an index the count does not reach (`wor_quorums.c:24`) |
| `claim_written` | written addresses hold values "accepted and written by the acceptors" that "cannot be modified" (`sharedlog_indices.c:12`) | `is_written` is set when the loop runs out of turns without a quorum (`wor_steps.c:105`) |
| `claim_restart` | "all future reads will return the value written to it" (`wor_steps.h:22`) | a client program run twice under one id sends the same numbers with other commands |
| `claim_stale_read` | "After appending a 'read' command, the log local copy will be up-to-date" (`repcounter0.c:51`) | the OK of the read's append may be for another client's command, recovered at a lower address, and what was written above it before the read began is not executed |
| `claim_only_owner` | "Append if client owns the segment; if it does not, it can only write junk" (`wos.c:53`) | a client whose allocation completed another client's owner command keeps its own id as the owner (`wos.c:28`) |

Others were met while modelling and have no run of their own, because the
models show them as they are:

- the "prefixes invariant" of `sharedlog_indices.c:19` has strict
  inequalities; the code keeps the weak ones, until the log is full
  (`IndicesOrdered`);
- `sharedlog_indices.c` calls address 0 unused, but an append to a full log
  writes there, and so does every later one, contrary to "every call to this
  function should be executed with a different addr" (`sharedlog.c:45`; until
  then it is so, `FreshUntilFull`);
- after a write loop that ran out of turns, `first_unwritten_addr` passes an
  address whose entry may hold CMD_UNDEF, and `sharedlog_getnext` hands this
  hole out; `PrefixHeld` says what an address below the index may hold;
- a capture or write loop that is owed fewer than N datagrams, because an
  acceptor is down, waits for ever although a majority is up and nothing is
  lost (`wor_steps.c:51`);
- `update_segment` does not end when the owner of the segment is known, nor
  while its writes time out (`worm_sharedlog.c:23`);
- `worm_sharedlog_getnext` hands out nothing, and every append to a segment
  but the first fails with EOS_ERROR.

The miscounted row is harmless for agreement: a set of ids within `1..N-1`
that is more than half of N is a majority all the same. The proofs below are
about the code as it is, off-by-one included.

## The proofs

The theorems about `Wor` hold for every number of acceptors from 3 to 6, every
set of clients, addresses and commands, every workload and every bound: the
assumptions are `AcceptorsAssumption` (a row has seven entries, so an acceptor
with id 7 has none), `ClientsAssumption` (an id fits in the low half of a
number), `CommandAssumption` (`CMD_UNDEF` is no command), `UpAssumption`,
`WorkloadAssumption` and `BoundsAssumption`. Those about the log and the
counter hold for every log size above 1, set of clients, set of commands and
program of calls (`LogSizeAssumption`, `UndefCmdAssumption`,
`ProgramAssumption`) and width of the `uint` (`UintAssumption`), and those about the segmented log for every number of
segments, every size of them above 1 and every set of clients with an owner
command each (`SegmentsAssumption`, `WormCommandsAssumption`). TLC evaluates each assumption in the runs.

| theorem | module | states |
|---|---|---|
| `TypeCorrect` | `WorTypes` | `Spec => []TypeOK` |
| `NumbersFit` | `WorTypes` | `Spec => []` (`PROP_NEXT` is at most `PROP_MAX + PROP_ONE`), for a `PROP_MAX` made as in `paxos.h` |
| `Invariance` | `WorProofs` | `Spec => [](TypeInv /\ IInv)` |
| `AgreementHolds` | `WorProofs` | `Spec => []Agreement` |
| `OneCommandHolds` | `WorProofs` | `Spec => []OneCommandPerProposal` |
| `RefinesWriteOnce` | `WorProofs` | `Spec => ImplementsWriteOnce` |
| `CallsInvariance` | `WorCallProofs` | `Spec => [](TypeInv /\ IInv /\ CallsInv)` |
| `OkIsChosen` | `WorCallProofs` | `Spec => []OkMeansChosen` |
| `ReadsSeeChosen` | `WorCallProofs` | `Spec => []ReadSeesChosen` |
| `OwedInvariance` | `WorCallProofs` | `Spec => []ClientsOwed` |
| `NobodyStarves` | `WorCallProofs` | `Spec => []NeverStarved`, for at most four acceptors |
| `CapturesAnswered` | `WorCallProofs` | `Spec => []` (a client in its capture loop is owed a datagram by as many acceptors as it has turns left), when all acceptors run |
| `AloneWritesNothing` | `WorCallProofs` | `Spec => []NothingWrittenAlone` |
| `TurnsAlwaysRunOut` | `WorCallProofs` | `Spec => TurnsRunOut` |
| `RefinesCalls` | `WorRefinesCalls` | `Spec => ImplementsCalls` |
| `CallsRefineWriteOnce` | `RegisterTypes` | `RegistersSpec => Registers!Spec` |
| `LogInvariance` | `SharedLogProofs` | `LogSpec => [](IndicesOrdered /\ PrefixHeld /\ FreshUntilFull)` |
| `LogUsesRegisters` | `SharedLogProofs` | `LogSpec => RegistersSpec` |
| `RefinesLog` | `RepCounterProofs` | `CounterSpec => ImplementsLog` |
| `CounterOnWriteOnce` | `RepCounterProofs` | `CounterSpec => RegistersSpec /\ Registers!Spec` |
| `IndicesStayOrdered` | `RepCounterProofs` | `CounterSpec => []IndicesOrdered` |
| `PrefixStaysHeld` | `RepCounterProofs` | `CounterSpec => []PrefixHeld` |
| `AddressesStayFresh` | `RepCounterProofs` | `CounterSpec => []FreshUntilFull` |
| `ReadsUpToDate` | `RepCounterProofs` | `CounterSpec => []UpToDateIfFirst` |
| `ReplicasStayEqual` | `RepCounterProofs` | `CounterSpec => []ReplicasAgree` |
| `CounterTyped` | `RepCounterProofs` | `CounterSpec => []CounterTypeOK` |
| `WormTyped` | `WormProofs` | `WormSpec => []WormTypeOK` |
| `AppendsStayAllocated` | `WormProofs` | `WormSpec => []AppendsToAllocated` |
| `FirstSegmentStaysFilled` | `WormProofs` | `WormSpec => []FirstSegmentFills` |
| `OwnersStayWritten` | `WormProofs` | `WormSpec => []OwnerIsWritten` |
| `WormForgetsNothing` | `WormProofs` | `WormSpec => NothingForgotten` |
| `WormUsesRegisters` | `WormProofs` | `WormSpec => RegistersSpec /\ [][`a won allocation changes neither entries nor numbers`]_vars` |

*Types.* `TypeOK` is not inductive: a turn of a receive loop computes
`pending - 1`, so the invariant needs that a client in such a loop has
`pending > 0`. `TypeInv` adds that.

*Agreement* is not inductive either: nothing in it speaks of the datagrams
that may still become votes. `IInv` (module `WorInvariant`) does, in named
parts:

- `EntriesHoldVotes`: an acceptor's entry holds its highest vote, and a
  promise not below it. This is where the acceptor's test
  `prop <= m_prop` enters.
- `AcksReport`: what a capture acknowledgment says of its sender stays true:
  the sender votes no more below the number it echoes, and had no vote there
  above the one it reports. An acceptor that answers with its *old* number
  says something weaker than Paxos asks for, and the client's equality test
  (`wor_handler.c:52`) is what makes it enough: an answer that carries the
  client's own number was sent by an acceptor that had stored it before.
- `CapturesReport`: a client in a capture round keeps the highest vote of the
  acceptors it counts, and has a quorum of them when it goes on to write.
- `NumbersInOrder`: nothing is asked under a number of the client above its
  current one, and nothing under the current one until the capture is over.
- `OneCommandAsked`, `AskedIsSafe`: all that clients ask for under one number
  is one command, and no other command is or ever will be chosen under a lower
  number.
- `AskedIsProposed`: what is asked for was the argument of a call.

The argument runs along these lemmas of `WorProofs`. Promises and votes only
grow (`AcceptorsForward`), so what was safe stays safe (`SafeStable`) and what
was reported stays true (`ReportedStable`). A client with a quorum of reports
proposes a safe command (`CapturedIsSafe`): the highest reported vote was
itself safe, and between it and the client's number the quorum casts no vote.
`MajoritiesMeet` does the counting: two sets of more than half of the
acceptors share one. From the invariant, two chosen commands are the same
(`InvAgreement`, by `ChosenBelow`); and a step that adds a vote decides at
most an empty register or repeats its command, which is a step of `WriteOnce`
or a stutter (`NextRefines`). TLC checks `IInv`, and `CallsInv` below, in the
run `contention`.

*The calls.* Agreement says nothing of what a client believes. `CallsInv`
(module `WorCallInvariant`) ties the client's side to the votes:

- `NumbersSent`, `AcceptsOwn`, `AcksVoted`: no number of a client is in use
  above its current one, an `ACCEPT` and its acknowledgment carry a number of
  the client they belong to, and such an acknowledgment tells of a vote. This
  is why a late acknowledgment of an earlier round is never counted, and why
  none overtakes a write round.
- `Turns`: a call whose address is not known to be written has all its write
  rounds left, one whose address is known to be written is about to find that
  out with all its capture turns left, and nothing becomes known to be written
  when `MaxRetries = 1`. This decides which of the last
  turns of the loops can be reached: OK is answered only after a quorum.
- `RowsVoted`: the acceptors counted in a write round voted for the command
  the client holds, under its current number.
- `BeforeFound`: a majority voted, before the call began, for what was chosen
  then; those of them that answer the capture voted under a number not above
  the client's; so once a quorum has answered, the client holds that command
  (`CapturedBefore`).

The lemmas of `WorCallProofs` take a client's step as one turn of a loop,
`CaptureTurn` or `WriteTurn`, whether the datagram counted, was stale or never
came (`ReceptionTurn`), so that the ends of the loops are looked at once
(`CaptureLoopEnds`, `WriteLoopEnds`). In `WorRefinesCalls` each turn becomes a
step of `RegisterCalls`: the begin of a write round is an `Ask`, its end an
`Acknowledged`, `AcknowledgedLate` or `RunsOut`, a captured register without a
vote a `FindsUnwritten`, which needs `BeforeFound`, and the vote that
completes a majority a `Decide`. So the layer
that the safety proofs of the log and the counter start from is one that the
rounds, as the code runs them, implement.

*Who waits is answered.* `NeverStarved` needs a count, `ClientsOwed`. An
acceptor owes a client an answer while a `CAPTURE` of the client to it, or its
acknowledgment, is in transit (`Owes`); among these are answers that the
client will not count (`OwesFirst`), because the first copy of a `CAPTURE` is
answered with the number the acceptor had before. `CaptureOwed` says that the
acceptors counted, those that have paid their first answer and the turns left
are together at most N: a turn takes one answer, and it is a counted one or a
first one. So while a turn is left, some acceptor owes an answer
(`SomeOwe`, `CaptureAnswered`), and at least as many do as turns are left
(`TurnsOwed`); whether they pay depends on their running, which is a hypothesis
of both theorems, `NobodyStarves` and `CapturesAnswered`. `WriteOwed` says the same of the write loop,
where any answer left from the capture pays for a turn. It starts with all N
acceptors owing one, and this is where three or four acceptors are needed: a
capture that succeeds before its last turn has counted more than half of them,
by `CaptureOwed` then fewer than one first answer has been spent (`NoRoom`).
Datagrams of other addresses and calls only add to what is owed.

*A client alone.* `AloneInv` says what `CaptureSucceeds` fails on. Without
duplication each acceptor has at most one datagram of the client in transit,
the `CAPTURE` of the round or the answer to it (`OnlyAnswer`); the answer
carries a number below the client's, so it is never counted and never
overtakes; and as many are owed as turns are left, so a round ends with the
last turn, when nothing is in transit any more and the next number is again
above everything an acceptor has promised. `FailedRound` is the only end of
such a round.

*Calls come to an end.* `TurnsLeft` lists the counters of the nested loops, the
outermost first, and every step of a call makes it smaller in lexicographic
order or returns. With `NobodyStarves`, which says that a receive is never for
nothing, it is what `CallsReturn` needs of safety; only the fairness argument is
left to TLC.

*The layers.* `CallsRefineWriteOnce` proves that `RegisterCalls` implements
`WriteOnce`, with `register` and `proposed` as they are; `LogUsesRegisters` and
`WormUsesRegisters`, that the two logs do to the registers only what
`RegisterCalls` allows; `CounterOnWriteOnce` puts counter, log, calls and
registers on top of one another. For the segmented log there is something to
show: `wos_body_init` writes entries of `paxos_space` outside of any call, and
changes nothing only because no entry of that body is known to be written and
none has used a proposal number. With
`RefinesCalls`, from the datagrams up, each layer is proved to implement the one
it is used as.

*The log.* `LogInv` adds to the three properties of the indices that a client
whose `first_unwritten_addr` wrapped to 0 holds the whole log
(`WrappedHoldsAll`): otherwise the next update could leave 0 again. The steps
of the registers enter through `Learns`: a call makes a client learn nothing
but the address it is about, and forget nothing; `RegisterTypes` proves so of
each step of `RegisterCalls`. An append fetches a new address until the log is
full (`FreshUntilFull`), so `update_first_unwritten_addr`, which moves to the
first address not held, cannot pass `first_blank_addr`. That every address
below it is known to be written is `PrefixWritten`; what the client's entry
says is there comes from the layer below, `HeldEntries`: an entry that a quorum
acknowledged is the register's one command, any other was proposed for the
address or is CMD_UNDEF. Together they are `PrefixHeld` (`PrefixFits`).

*The counter.* Each of its steps is a step of the log or leaves it alone
(`RefinesLog`), which carries the log's invariant over. For `UpToDateIfFirst`
the invariant says that a client none of whose appends failed holds every
address it has fetched, but for the one it is trying (`Tried`), so its
`first_unwritten_addr` catches up with `first_blank_addr` at every OK; and
that an address found unwritten lies above the prefix that was written when
the call began. That makes the executed prefix long enough, and
`ReplicasStayEqual`, on which `ReadsUpToDate` rests, gives its value.
`ReplicasStayEqual` is about the values. Below
`first_unexecuted_addr` every address is held and decided, so what it
holds, if a quorum acknowledged it, is what every other replica holds there;
`AgreeInv` says that the value is then that of the log prefix. Two facts about
the recursive function `Performing` are proved by induction, in the form of a
least counterexample (`WFMin` of the library's `WellFoundedInduction`, which
takes no operator): logs that are the same below an address have the same value
there, and performing a stretch of the log after a prefix is performing the
longer prefix. That a sum is only taken modulo `UintSize` plays no part in
either.

*The segmented log.* None of its properties is inductive, and each leans on
another, so `WormInv` holds them together:

- `PlaceFits`, `CallFits`, `AnswerFits`: where the thread is in the log, the
  call of the registers it is in, or the answer it got, belong together. An
  owner that `ReadOwner` finds is held at the segment's first register, and a
  write at a tail answers OK or ALREADYWRITTEN only when it is known to be
  written.
- `OwnersFound`, `TailsSet`: an owner is kept only for a segment whose first
  register is known to be written, a tail only for a segment with an owner,
  and the tail of any segment but the first is the address that
  `segment_tail_init` stores.
- `BodiesEmpty`: a client knows nothing to be written in a body but that of
  the first segment, and there only once it has a tail. `TailAddress` is the
  arithmetic behind it: the tail of any other segment points out of its body.
- `FirstFilled`, `SureWritten`: no hole below the first segment's tail, and an
  acknowledged command is the one in the register.

`wos_body_init` runs when the client kept no owner for the segment, so there
was no tail and the body is empty (`BodyInitEmptiesNothing`). `NumbersPlaced` is
`BodiesEmpty` for proposal numbers, and makes the reset of the
numbers harmless in the same way (`BodyInitResetsNothing`). A step of a
client that begins a call or none leaves the registers and the other clients
alone (`Quiet`), so that only `RegistersRunInv` looks at what a call changes.

Checked by TLC only: the liveness properties `CallsReturn`, `AppendsEnd` and
`AllocEnds`, since fairness is outside what the proof system handles, and the
statements of comments that TLC refutes. Every other property of a run that
passes is stated by a theorem.

## What is not modelled

- Socket set-up, printing and the build: no behaviour to state.
- The memory layout: `m_addr <= LOG_SIZE` in the acceptor lets one address
  pass that has no entry; the model's addresses are a set.
- `num_acceptors_set` clamps to 7, but rows have seven entries indexed by id;
  the model asks for at most 6. Both `_init` functions set 3.
- The restart of an acceptor (`space.c:20` has a TODO about it). It forgets
  promise and vote, and a register can then be overwritten; to see it, two
  clients must write and two acceptors restart in between, and with the
  duplicated datagrams every capture takes, that instance is beyond what TLC
  can exhaust.
- `wos_test`, and `wos_read` and `wos_append` with `CMD_JUNK` as a repair of
  holes: `wos_read` and `wos_test` change nothing in the segments, and the only
  caller of `wos_read` gets EOS_ERROR before anything is sent. Appending junk
  is one of the appends of `WormSharedLog`.
- The counter over the segmented log (`repcounter.c`), beyond its appends: it
  executes no command.
