----------------------------- MODULE SharedLog -----------------------------
(***************************************************************************)
(* The shared log (sharedlog.c, sharedlog_indices.c): every client keeps   *)
(* three indices into the log and appends by writing at the first address  *)
(* it has not tried yet, until a call of wor_capture_and_write answers     *)
(* something else than ALREADYWRITTEN.                                     *)
(***************************************************************************)
EXTENDS RegisterCalls, Integers

CONSTANT LogSize    \* LOG_SIZE = 1024

ASSUME LogSizeAssumption ==
    /\ LogSize \in Nat
    /\ LogSize > 1
    /\ Addr = 0 .. LogSize - 1

ASSUME UndefCmdAssumption == UndefCmd \notin Cmd

VARIABLES
    unexecuted,     \* unexecuted[c]: first_unexecuted_addr
    unwritten,      \* unwritten[c]: first_unwritten_addr
    blank,          \* blank[c]: first_blank_addr
    appending,      \* the command that c's sharedlog_append appends, or UndefCmd
    appended        \* what c's last sharedlog_append returned

indexVars == <<unexecuted, unwritten, blank>>
logVars == <<indexVars, appending, appended>>
sharedLogVars == <<registerCallVars, logVars>>

Appending(c) == appending[c] # UndefCmd

\* sharedlog_indices_init: log[0] is unused, and yet to be executed.
LogInit ==
    /\ RegistersInit
    /\ unexecuted = [c \in Clients |-> 0]
    /\ unwritten = [c \in Clients |-> 1]
    /\ blank = [c \in Clients |-> 1]
    /\ appending = [c \in Clients |-> UndefCmd]
    /\ appended = [c \in Clients |-> "none"]
-----------------------------------------------------------------------------
LogFull(c) == blank[c] = LogSize

\* Mutant: the index is returned but not incremented.
FetchWithoutIncrement(c, x) ==
    /\ x = IF LogFull(c) THEN 0 ELSE blank[c]
    /\ UNCHANGED blank

\* The next address to write; address 0 when the log is full.
fetch_and_inc_first_blank_addr(c, x) ==
    \/ /\ ~LogFull(c)
       /\ x = blank[c]
       /\ blank' = [blank EXCEPT ![c] = @ + 1]
    \/ /\ LogFull(c)
       /\ x = 0
       /\ UNCHANGED blank

\* Mutant: every address handed out counts as written.
UpdateToBlank(c) == unwritten' = [unwritten EXCEPT ![c] = blank[c]]

\* The first address from unwritten[c] on that c does not hold, or 0 when it
\* holds all of them.
update_first_unwritten_addr(c) ==
    \E y \in unwritten[c] .. LogSize :
        /\ \A x \in unwritten[c] .. y - 1 : Written(c, x)
        /\ y < LogSize => ~Written(c, y)
        /\ unwritten' = [unwritten EXCEPT ![c] = IF y = LogSize THEN 0 ELSE y]

\* One turn of sharedlog_append.
Try(c, cmd) ==
    \E x \in Addr :
        /\ fetch_and_inc_first_blank_addr(c, x)
        /\ wor_capture_and_write(c, x, cmd)

sharedlog_append(c, cmd) ==
    /\ ~Appending(c)
    /\ Try(c, cmd)
    /\ appending' = [appending EXCEPT ![c] = cmd]
    /\ appended' = [appended EXCEPT ![c] = "none"]
    /\ UNCHANGED <<unexecuted, unwritten>>

\* Somebody else's command is at the address: sharedlog_append calls itself.
AppendRetries(c) ==
    /\ Appending(c)
    /\ answer[c] = "ALREADYWRITTEN"
    /\ update_first_unwritten_addr(c)
    /\ Try(c, appending[c])
    /\ UNCHANGED <<unexecuted, appending, appended>>

AppendReturns(c, st) ==
    /\ Appending(c)
    /\ \/ /\ st = "OK"
          /\ answer[c] = "OK"
          /\ update_first_unwritten_addr(c)
       \/ /\ st = "UNKNOWNERROR"
          /\ answer[c] = "TIMEOUT"
          /\ UNCHANGED unwritten
    /\ appending' = [appending EXCEPT ![c] = UndefCmd]
    /\ appended' = [appended EXCEPT ![c] = st]
    /\ UNCHANGED <<registerCallVars, unexecuted, blank>>

\* Mutant: the test of sharedlog_getnext lets first_unwritten_addr through.
PendingOrNext(c) == unexecuted[c] .. unwritten[c]

\* Mutant: it keeps the last written command back.
PendingButLast(c) == unexecuted[c] .. unwritten[c] - 2

\* The addresses whose commands calls of sharedlog_getnext will hand out.
Pending(c) == unexecuted[c] .. unwritten[c] - 1

\* What sharedlog_getnext hands out for address x.
NextCmd(c, x) == IF Written(c, x) THEN HeldCmd(c, x) ELSE UndefCmd

\* Calls of sharedlog_getnext hand out the commands below address n.
sharedlog_getnext(c, n) ==
    /\ ~Appending(c)
    /\ n - 1 \in Pending(c)
    /\ unexecuted' = [unexecuted EXCEPT ![c] = n]
    /\ UNCHANGED <<registerCallVars, unwritten, blank, appending, appended>>

LogNext ==
    \/ /\ Decides \/ \E c \in Clients : Proceeds(c)
       /\ UNCHANGED logVars
    \/ \E c \in Clients :
        \/ \E cmd \in Cmd : sharedlog_append(c, cmd)
        \/ AppendRetries(c)
        \/ \E st \in {"OK", "UNKNOWNERROR"} : AppendReturns(c, st)
        \/ \E n \in 1 .. LogSize : sharedlog_getnext(c, n)

LogSpec == LogInit /\ [][LogNext]_sharedLogVars
-----------------------------------------------------------------------------
(***************************************************************************)
(* The "prefixes invariant" of sharedlog_indices.c as the code keeps it:   *)
(* a client never hands out a command beyond the prefix it knows to be     *)
(* written, nor counts as written what it has not tried to write, until    *)
(* its log is full and first_unwritten_addr wraps to 0.                    *)
(***************************************************************************)
IndicesOrdered ==
    \A c \in Clients :
        /\ 1 <= blank[c] /\ blank[c] <= LogSize
        /\ unwritten[c] <= blank[c]
        /\ unwritten[c] # 0 => unexecuted[c] <= unwritten[c]
        /\ unwritten[c] = 0 => LogFull(c)

(***************************************************************************)
(* What sharedlog_getnext hands out for an address below                   *)
(* first_unwritten_addr is the register's command, if a quorum             *)
(* acknowledged it to the client.  If the client's write loop ran out it   *)
(* may be a command that another client proposed and that is not written,  *)
(* or CMD_UNDEF: a hole, handed out like a command although the address    *)
(* counts as written (sharedlog_indices.c, sharedlog.c).                   *)
(***************************************************************************)
PrefixHeld ==
    \A c \in Clients : \A x \in 1 .. unwritten[c] - 1 :
        \E e \in held[c][x] :
            /\ e.cmd = NextCmd(c, x)
            /\ IF e.sure THEN register[x] = {e.cmd}
               ELSE e.cmd \in proposed[x] \cup {UndefCmd}

\* c knows x to be written, or is trying to write there.
Touched(c, x) == Written(c, x) \/ (Busy(c) /\ doing[c].addr = x)

(***************************************************************************)
(* "Every call to this function should be executed with a different addr"  *)
(* (sharedlog.c, of wor_capture_and_write), as far as the code keeps it:   *)
(* until its log is full a client has touched no address from              *)
(* first_blank_addr on, nor address 0, so the address that it fetches is a *)
(* new one.  Once the log is full every append fetches address 0 again.    *)
(***************************************************************************)
FreshUntilFull ==
    \A c \in Clients : \A x \in Addr :
        Touched(c, x) => IF x = 0 THEN LogFull(c) ELSE x < blank[c]
=============================================================================
