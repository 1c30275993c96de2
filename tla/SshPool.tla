------------------------------- MODULE SshPool -------------------------------
(***************************************************************************)
(* The SSH session pool (clients/ssh_cli.py): FileTokenSemaphore, which    *)
(* limits the sessions on a node across processes with one token file per  *)
(* session, and SshSessionPool, which keeps healthy sessions for reuse,    *)
(* runs batches of commands and repeats a batch whose reused session       *)
(* turned out to be dead.                                                  *)
(*                                                                         *)
(* A token file is created, written, read and unlinked by path in separate *)
(* system calls, so the steps of several processes interleave between      *)
(* them.  Processes crash at any step and leave their files behind; a dead *)
(* process id is not used again.  POSIX: a file is unlinked while others   *)
(* have it open, and os.kill(pid, 0) only asks whether the process lives.  *)
(***************************************************************************)
EXTENDS Integers, Sequences, FiniteSets

CONSTANTS
  Procs,        \* pytest processes
  Workers,      \* threads that run command batches
  ProcOf,       \* the process of each worker
  Max,          \* max_sessions of each process's pool
  Reuse,        \* processes whose pool reuses sessions
  Crashable,    \* processes that may die at any step
  Leftover,     \* token files an earlier process may have left behind
  Tokens,       \* token numbers, one file for each
  Batch,        \* commands in a batch
  MaxCalls,     \* bound on the batches
  None,         \* no session, no file
  Old           \* the creator of the left-over files, dead from the start

\* SSH sessions, numbered as their tokens are created; a call creates one at most.
Sess == 1..MaxCalls

ASSUME ProcAssumption ==
  /\ ProcOf \in [Workers -> Procs] /\ Max \in [Procs -> Nat \ {0}]
  /\ Tokens \subseteq Nat /\ \A p \in Procs : 0 .. Max[p] - 1 \subseteq Tokens
  /\ Reuse \subseteq Procs /\ Crashable \subseteq Procs /\ Leftover \subseteq Tokens
ASSUME BoundAssumption == Batch \in Nat \ {0} /\ MaxCalls \in Nat
ASSUME NullAssumption == {None, Old} \cap (Nat \cup Workers) = {} /\ None # Old

VARIABLES
  \* the token directory
  file,         \* who created the file: a session, Old, or None if there is none
  written,      \* files that hold their JSON
  \* SSH sessions: state, token and worker that created them
  st, tok, maker,
  \* processes
  alive, leaving,
  idle,         \* SshSessionPool._idle
  \* each worker's call: program counter, session, flags and progress
  pc, cur, reused, retried,
  err,          \* what the batch raised
  done,         \* len(timing.command_seconds)
  \* its semaphore.acquire
  at,           \* the token being looked at
  todo,         \* files of the glob not yet looked at
  saw,          \* what the read returned: the creator, or None if unreadable
  expired,      \* the deadline has passed
  \* history and bounds
  sends,        \* how often each command of the call was sent to the node
  deadThen,     \* processes that were dead when the latest scan began
  stolen,       \* sessions whose token file somebody else unlinked
  lost,         \* sessions whose logout raised
  budget

files    == <<file, written, stolen>>
sessions == <<st, tok, maker>>
procs    == <<alive, leaving, idle>>
call     == <<cur, reused, retried, err, done, sends>>
scan     == <<at, todo, saw, expired, deadThen>>
vars == <<file, written, st, tok, maker, alive, leaving, idle, pc, cur, reused,
          retried, err, done, at, todo, saw, expired, sends, deadThen, stolen, lost, budget>>

Pid(s) == ProcOf[maker[s]]
Used == {s \in Sess : st[s] # "unused"}
Goto(w, label) == pc' = [pc EXCEPT ![w] = label]

\* The call returns or raises; the worker's locals are gone.
Finish(w) ==
  /\ Goto(w, "idle")
  /\ cur' = [cur EXCEPT ![w] = None]
  /\ reused' = [reused EXCEPT ![w] = FALSE]
  /\ retried' = [retried EXCEPT ![w] = FALSE]
  /\ err' = [err EXCEPT ![w] = "none"]
  /\ done' = [done EXCEPT ![w] = 0]
  /\ sends' = [sends EXCEPT ![w] = [k \in 1..Batch |-> 0]]

-----------------------------------------------------------------------------
(* FileTokenSemaphore *)

\* release: the path is unlinked, whoever's file is there by now.
Unlink(S, mine) ==
  LET paths == {tok[s] : s \in S} IN
  /\ file' = [i \in Tokens |-> IF i \in paths THEN None ELSE file[i]]
  /\ written' = written \ paths
  /\ stolen' = stolen \cup ({file[i] : i \in paths} \ (mine \cup {None, Old}))

\* _remove_stale_tokens: the glob lists the files of every process, and each
\* is read, judged and, if stale, unlinked.
ScanStart(w) ==
  /\ pc[w] = "scan"
  /\ todo' = [todo EXCEPT ![w] = {i \in Tokens : file[i] # None}]
  /\ deadThen' = [deadThen EXCEPT ![w] = Procs \ alive]
  /\ Goto(w, "glob")
  /\ UNCHANGED <<files, sessions, procs, call, at, saw, expired, lost, budget>>

ScanRead(w) ==
  /\ pc[w] = "glob"
  /\ \E i \in todo[w] :
       /\ at' = [at EXCEPT ![w] = i]
       /\ todo' = [todo EXCEPT ![w] = @ \ {i}]
       /\ saw' = [saw EXCEPT ![w] = IF i \in written THEN file[i] ELSE None]
  /\ Goto(w, "judge")
  /\ UNCHANGED <<files, sessions, procs, call, expired, deadThen, lost, budget>>

\* _is_stale: unreadable or empty, or written by a process that is gone.
StaleIfDead(w) ==                          \* mutant: an empty file is not stale
  \/ saw[w] = Old
  \/ saw[w] \in Sess /\ Pid(saw[w]) \notin alive
StaleUnlessOwn(w) ==                       \* mutant: another live process is stale
  \/ saw[w] \in {None, Old}
  \/ saw[w] \in Sess /\ Pid(saw[w]) # ProcOf[w]
Stale(w) ==
  \/ saw[w] \in {None, Old}
  \/ saw[w] \in Sess /\ Pid(saw[w]) \notin alive

ScanJudge(w) ==
  /\ pc[w] = "judge"
  /\ IF Stale(w)
     THEN /\ file' = [file EXCEPT ![at[w]] = None]
          /\ written' = written \ {at[w]}
          /\ stolen' = stolen \cup ({file[at[w]]} \ {None, Old})
     ELSE UNCHANGED files
  /\ saw' = [saw EXCEPT ![w] = None]
  /\ at' = [at EXCEPT ![w] = 0]
  /\ Goto(w, "glob")
  /\ UNCHANGED <<sessions, procs, call, todo, expired, deadThen, lost, budget>>

ScanEnd(w) ==
  /\ pc[w] = "glob" /\ todo[w] = {}
  /\ Goto(w, "try")
  /\ UNCHANGED <<files, sessions, procs, call, scan, lost, budget>>

\* os.open with O_CREAT and O_EXCL, for one index after the other.
Create(w) ==
  /\ pc[w] = "try" /\ file[at[w]] = None
  /\ \E s \in Sess \ Used :
       /\ \A x \in Sess : x < s => x \in Used
       /\ file' = [file EXCEPT ![at[w]] = s]
       /\ st' = [st EXCEPT ![s] = "new"]
       /\ tok' = [tok EXCEPT ![s] = at[w]]
       /\ maker' = [maker EXCEPT ![s] = w]
       /\ cur' = [cur EXCEPT ![w] = s]
  /\ at' = [at EXCEPT ![w] = 0]
  /\ Goto(w, "write")
  /\ UNCHANGED <<written, stolen, procs, reused, retried, err, done, sends,
                 todo, saw, expired, deadThen, lost, budget>>

ExistsPast(w) ==                           \* mutant: one index too many
  /\ pc[w] = "try" /\ file[at[w]] # None
  /\ IF at[w] + 1 <= Max[ProcOf[w]]
     THEN at' = [at EXCEPT ![w] = @ + 1] /\ UNCHANGED pc
     ELSE at' = [at EXCEPT ![w] = 0] /\ Goto(w, "full")
  /\ UNCHANGED <<files, sessions, procs, call, todo, saw, expired, deadThen, lost, budget>>

Exists(w) ==
  /\ pc[w] = "try" /\ file[at[w]] # None
  /\ IF at[w] + 1 < Max[ProcOf[w]]
     THEN at' = [at EXCEPT ![w] = @ + 1] /\ UNCHANGED pc
     ELSE at' = [at EXCEPT ![w] = 0] /\ Goto(w, "full")
  /\ UNCHANGED <<files, sessions, procs, call, todo, saw, expired, deadThen, lost, budget>>

\* The JSON goes to the open file, which may have been unlinked meanwhile.
Write(w) ==
  /\ pc[w] = "write"
  /\ written' = written \cup {i \in Tokens : file[i] = cur[w]}
  /\ expired' = [expired EXCEPT ![w] = FALSE]
  /\ deadThen' = [deadThen EXCEPT ![w] = {}]
  /\ Goto(w, "connect")
  /\ UNCHANGED <<file, stolen, sessions, procs, call, at, todo, saw, lost, budget>>

WaitForEver(w) ==                          \* mutant: no deadline
  /\ pc[w] = "full"
  /\ Goto(w, "scan")
  /\ UNCHANGED <<files, sessions, procs, call, scan, lost, budget>>

Wait(w) ==
  /\ pc[w] = "full"
  /\ IF expired[w]
     THEN /\ Finish(w)
          /\ expired' = [expired EXCEPT ![w] = FALSE]
          /\ deadThen' = [deadThen EXCEPT ![w] = {}]
     ELSE Goto(w, "scan") /\ UNCHANGED <<call, expired, deadThen>>
  /\ UNCHANGED <<files, sessions, procs, at, todo, saw, lost, budget>>

Deadline(w) ==
  /\ pc[w] \in {"scan", "glob", "judge", "try", "full"} /\ ~expired[w]
  /\ expired' = [expired EXCEPT ![w] = TRUE]
  /\ UNCHANGED <<files, sessions, procs, pc, call, at, todo, saw, deadThen, lost, budget>>

-----------------------------------------------------------------------------
(* SshSessionPool *)

RunCommands(w) ==
  /\ pc[w] = "idle" /\ ProcOf[w] \in alive \ leaving /\ budget > 0
  /\ budget' = budget - 1
  /\ Goto(w, "acquire")
  /\ UNCHANGED <<files, sessions, procs, call, scan, lost>>

\* _acquire, under the pool's lock: idle sessions are popped from the end,
\* the dead ones closed and their tokens released.
Healthy(p) == {k \in DOMAIN idle[p] : st[idle[p][k]] = "up"}

DropIdle(w, S) ==
  /\ st' = [s \in Sess |-> IF s \in S THEN "closed" ELSE st[s]]
  /\ Unlink(S, S)

TakeIdleKept(w) ==                         \* mutant: the entry is not popped
  LET p == ProcOf[w] IN
  /\ pc[w] = "acquire" /\ Healthy(p) # {}
  /\ \E k \in Healthy(p) :
       /\ \A j \in Healthy(p) : j <= k
       /\ cur' = [cur EXCEPT ![w] = idle[p][k]]
       /\ DropIdle(w, {idle[p][j] : j \in k + 1 .. Len(idle[p])})
  /\ reused' = [reused EXCEPT ![w] = TRUE]
  /\ Goto(w, "run")
  /\ UNCHANGED <<tok, maker, alive, leaving, idle, retried, err, done, sends, scan, lost, budget>>

TakeIdle(w) ==
  LET p == ProcOf[w] IN
  /\ pc[w] = "acquire" /\ Healthy(p) # {}
  /\ \E k \in Healthy(p) :
       /\ \A j \in Healthy(p) : j <= k
       /\ cur' = [cur EXCEPT ![w] = idle[p][k]]
       /\ DropIdle(w, {idle[p][j] : j \in k + 1 .. Len(idle[p])})
       /\ idle' = [idle EXCEPT ![p] = SubSeq(@, 1, k - 1)]
  /\ reused' = [reused EXCEPT ![w] = TRUE]
  /\ Goto(w, "run")
  /\ UNCHANGED <<tok, maker, alive, leaving, retried, err, done, sends, scan, lost, budget>>

NoIdle(w) ==
  LET p == ProcOf[w] IN
  /\ pc[w] = "acquire" /\ Healthy(p) = {}
  /\ DropIdle(w, {idle[p][j] : j \in DOMAIN idle[p]})
  /\ idle' = [idle EXCEPT ![p] = <<>>]
  /\ reused' = [reused EXCEPT ![w] = FALSE]
  /\ Goto(w, "scan")
  /\ UNCHANGED <<tok, maker, alive, leaving, cur, retried, err, done, sends, scan, lost, budget>>

Connect(w) ==
  /\ pc[w] = "connect"
  /\ st' = [st EXCEPT ![cur[w]] = "up"]
  /\ Goto(w, "run")
  /\ UNCHANGED <<files, tok, maker, procs, call, scan, lost, budget>>

\* connect raises, before or after the node has opened the session: the token
\* is released first, the session closed second.
ConnectRaisesKeeps(w) ==                   \* mutant: the token is not released
  /\ pc[w] = "connect"
  /\ st' = [st EXCEPT ![cur[w]] = "closed"]
  /\ Finish(w)
  /\ UNCHANGED <<files, tok, maker, procs, scan, lost, budget>>

ConnectRaises(w) ==
  /\ pc[w] = "connect"
  /\ \E x \in {"new", "up"} : st' = [st EXCEPT ![cur[w]] = x]
  /\ Unlink({cur[w]}, {cur[w]})
  /\ Goto(w, "abort")
  /\ UNCHANGED <<tok, maker, procs, call, scan, lost, budget>>

Abort(w) ==
  /\ pc[w] = "abort"
  /\ st' = [st EXCEPT ![cur[w]] = "closed"]
  /\ Finish(w)
  /\ UNCHANGED <<files, tok, maker, procs, scan, lost, budget>>

Raises(w, e) ==
  /\ err' = [err EXCEPT ![w] = e]
  /\ Goto(w, "discard")

\* run_command, up to the send.
Send(w) ==
  /\ pc[w] = "run" /\ st[cur[w]] = "up"
  /\ sends' = [sends EXCEPT ![w][done[w] + 1] = @ + 1]
  /\ Goto(w, "sent")
  /\ UNCHANGED <<files, sessions, procs, cur, reused, retried, err, done, scan, lost, budget>>

\* A command fails: SshChannelClosedError before the send or after a read of
\* nothing on a dead channel, or any other exception.
CommandFails(w) ==
  /\ pc[w] \in {"run", "sent"}
  /\ \/ Raises(w, "other")
     \/ st[cur[w]] = "dead" /\ Raises(w, "closed")
  /\ UNCHANGED <<files, sessions, procs, cur, reused, retried, done, sends, scan, lost, budget>>

\* The command's output was read, or nothing on a healthy channel.
Output(w) ==
  /\ pc[w] = "sent"
  /\ done' = [done EXCEPT ![w] = @ + 1]
  /\ Goto(w, IF done[w] + 1 = Batch THEN "release" ELSE "run")
  /\ UNCHANGED <<files, sessions, procs, cur, reused, retried, err, sends, scan, lost, budget>>

\* release: back to the idle list, or discard(logout=True).
Release(w) ==
  /\ pc[w] = "release"
  /\ IF ProcOf[w] \in Reuse /\ st[cur[w]] = "up"
     THEN /\ idle' = [idle EXCEPT ![ProcOf[w]] = Append(@, cur[w])]
          /\ Finish(w)
     ELSE Goto(w, "logout") /\ UNCHANGED <<idle, call>>
  /\ UNCHANGED <<files, sessions, alive, leaving, scan, lost, budget>>

\* close(logout=True): when sending "exit" raises, only the channel is
\* closed, and discard does not get to the token.
Logout(w) ==
  /\ pc[w] = "logout"
  /\ st' = [st EXCEPT ![cur[w]] = "closed"]
  /\ Goto(w, "untoken")
  /\ UNCHANGED <<files, tok, maker, procs, call, scan, lost, budget>>

LogoutRaises(w) ==
  /\ pc[w] = "logout"
  /\ lost' = lost \cup {cur[w]}
  /\ Finish(w)
  /\ UNCHANGED <<files, sessions, procs, scan, budget>>

\* discard(logout=False) after a failed command.
DiscardTokenFirst(w) ==                    \* mutant: token released before close
  /\ pc[w] = "discard"
  /\ Unlink({cur[w]}, {cur[w]})
  /\ Goto(w, "untoken")
  /\ UNCHANGED <<sessions, procs, call, scan, lost, budget>>

Discard(w) ==
  /\ pc[w] = "discard"
  /\ st' = [st EXCEPT ![cur[w]] = "closed"]
  /\ Goto(w, "untoken")
  /\ UNCHANGED <<files, tok, maker, procs, call, scan, lost, budget>>

\* Retry a reused session that was dead before any command completed.
MayRetryAny(w) == err[w] = "closed" /\ reused[w] /\ ~retried[w]   \* mutant: after a completed command
MayRetry(w) == err[w] = "closed" /\ reused[w] /\ ~retried[w] /\ done[w] = 0

ReleaseToken(w) ==
  /\ pc[w] = "untoken"
  /\ Unlink({cur[w]}, {cur[w]})
  /\ IF MayRetry(w)
     THEN /\ Goto(w, "acquire")
          /\ cur' = [cur EXCEPT ![w] = None]
          /\ retried' = [retried EXCEPT ![w] = TRUE]
          /\ err' = [err EXCEPT ![w] = "none"]
          /\ done' = [done EXCEPT ![w] = 0]
          /\ UNCHANGED <<reused, sends>>
     ELSE Finish(w)
  /\ UNCHANGED <<sessions, procs, scan, lost, budget>>

-----------------------------------------------------------------------------
(* Processes and the node *)

\* pytest_sessionfinish, or atexit: close_all.
Leave(p) ==
  /\ p \in alive \ leaving
  /\ \A w \in Workers : ProcOf[w] = p => pc[w] = "idle"
  /\ leaving' = leaving \cup {p}
  /\ UNCHANGED <<files, sessions, alive, idle, pc, call, scan, lost, budget>>

CloseIdle(p) ==
  /\ p \in leaving \cap alive /\ idle[p] # <<>>
  /\ LET s == Head(idle[p]) IN
       \/ /\ st' = [st EXCEPT ![s] = "closed"]
          /\ Unlink({s}, {s})
          /\ idle' = [idle EXCEPT ![p] = Tail(@)]
          /\ UNCHANGED lost
       \/ /\ idle' = [idle EXCEPT ![p] = <<>>]
          /\ lost' = lost \cup {idle[p][k] : k \in DOMAIN idle[p]}
          /\ UNCHANGED <<st, files>>
  /\ UNCHANGED <<tok, maker, alive, leaving, pc, call, scan, budget>>

\* The process ends: its connections with it, its files stay.
Ends(p) ==
  /\ alive' = alive \ {p}
  /\ st' = [s \in Sess |-> IF s \in Used /\ Pid(s) = p THEN "closed" ELSE st[s]]
  /\ idle' = [idle EXCEPT ![p] = <<>>]
  /\ UNCHANGED <<files, tok, maker, leaving, scan, lost, budget>>

Exit(p) ==
  /\ p \in leaving \cap alive /\ idle[p] = <<>>
  /\ Ends(p)
  /\ UNCHANGED <<pc, call>>

Crash(p) ==
  /\ p \in Crashable \cap alive
  /\ Ends(p)
  /\ pc' = [w \in Workers |-> IF ProcOf[w] = p THEN "gone" ELSE pc[w]]
  /\ cur' = [w \in Workers |-> IF ProcOf[w] = p THEN None ELSE cur[w]]
  /\ UNCHANGED <<reused, retried, err, done, sends>>

\* The node or the network drops a session; the channel reports it.
Drop(s) ==
  /\ st[s] = "up"
  /\ st' = [st EXCEPT ![s] = "dead"]
  /\ UNCHANGED <<files, tok, maker, procs, pc, call, scan, lost, budget>>

Init ==
  /\ \E L \in SUBSET Leftover :
       /\ file = [i \in Tokens |-> IF i \in L THEN Old ELSE None]
       /\ written \in SUBSET L
  /\ st = [s \in Sess |-> "unused"]
  /\ tok = [s \in Sess |-> 0]
  /\ maker = [s \in Sess |-> None]
  /\ alive = Procs /\ leaving = {}
  /\ idle = [p \in Procs |-> <<>>]
  /\ pc = [w \in Workers |-> "idle"]
  /\ cur = [w \in Workers |-> None]
  /\ reused = [w \in Workers |-> FALSE]
  /\ retried = [w \in Workers |-> FALSE]
  /\ err = [w \in Workers |-> "none"]
  /\ done = [w \in Workers |-> 0]
  /\ at = [w \in Workers |-> 0]
  /\ todo = [w \in Workers |-> {}]
  /\ saw = [w \in Workers |-> None]
  /\ expired = [w \in Workers |-> FALSE]
  /\ sends = [w \in Workers |-> [k \in 1..Batch |-> 0]]
  /\ deadThen = [w \in Workers |-> {}]
  /\ stolen = {} /\ lost = {} /\ budget = MaxCalls

Step(w) ==
  \/ ScanStart(w) \/ ScanRead(w) \/ ScanJudge(w) \/ ScanEnd(w)
  \/ Create(w) \/ Exists(w) \/ Write(w) \/ Wait(w)
  \/ TakeIdle(w) \/ NoIdle(w) \/ Connect(w) \/ ConnectRaises(w) \/ Abort(w)
  \/ Send(w) \/ CommandFails(w) \/ Output(w) \/ Release(w)
  \/ Logout(w) \/ LogoutRaises(w) \/ Discard(w) \/ ReleaseToken(w)

Finished == alive = {} /\ UNCHANGED vars

Next ==
  \/ \E w \in Workers : RunCommands(w) \/ Step(w) \/ Deadline(w)
  \/ \E p \in Procs : Leave(p) \/ CloseIdle(p) \/ Exit(p) \/ Crash(p)
  \/ \E s \in Sess : Drop(s)
  \/ Finished

Spec == Init /\ [][Next]_vars

\* Threads run and deadlines pass; connect, send and read have timeouts.
FairSpec == Spec /\ \A w \in Workers : WF_vars(Step(w)) /\ WF_vars(Deadline(w))

-----------------------------------------------------------------------------
(* Properties *)

PC == {"idle", "acquire", "scan", "glob", "judge", "try", "full", "write", "connect", "abort",
       "run", "sent", "release", "logout", "discard", "untoken", "gone"}

\* Every variable has its type.
TypeOK ==
  /\ file \in [Tokens -> Sess \cup {None, Old}] /\ written \subseteq Tokens
  /\ st \in [Sess -> {"unused", "new", "up", "dead", "closed"}]
  /\ tok \in [Sess -> Tokens \cup {0}] /\ maker \in [Sess -> Workers \cup {None}]
  /\ alive \subseteq Procs /\ leaving \subseteq Procs
  /\ idle \in [Procs -> Seq(Sess)]
  /\ pc \in [Workers -> PC] /\ cur \in [Workers -> Sess \cup {None}]
  /\ reused \in [Workers -> BOOLEAN] /\ retried \in [Workers -> BOOLEAN]
  /\ err \in [Workers -> {"none", "closed", "other"}]
  /\ done \in [Workers -> 0..Batch]
  /\ at \in [Workers -> Tokens \cup {0}] /\ todo \in [Workers -> SUBSET Tokens]
  /\ saw \in [Workers -> Sess \cup {None, Old}] /\ expired \in [Workers -> BOOLEAN]
  /\ sends \in [Workers -> [1..Batch -> Nat]]
  /\ deadThen \in [Workers -> SUBSET Procs]
  /\ stolen \subseteq Sess /\ lost \subseteq Sess /\ budget \in Nat

Holds(s) == \E w \in Workers : cur[w] = s
Idle(s) == \E p \in Procs : \E k \in DOMAIN idle[p] : idle[p][k] = s

\* A session that is open on the node is backed by its token file, so the
\* node has no more sessions than tokens, except where a scan or a release by
\* path took the file away, and while a failed connect is being closed
\* (ssh_cli.py:415, where the token goes first).
OpenSessionsHaveTokens ==
  \A s \in Sess : st[s] = "up" =>
    \/ file[tok[s]] = s
    \/ s \in stolen
    \/ \E w \in Workers : pc[w] = "abort" /\ cur[w] = s

\* A living process's token is only ever taken away by a scanner whose read
\* is out of date (it saw another file there, or the file before its JSON),
\* or by a session that has lost its own token and unlinks the same path.
TakenOnlyOnOutdatedView ==
  [][\A s \in stolen' \ stolen : Pid(s) \in alive =>
       \/ \E w \in Workers : pc[w] = "judge" /\ at[w] = tok[s] /\ saw[w] # s
       \/ \E x \in stolen : tok[x] = tok[s] /\ (Holds(x) \/ Idle(x))]_vars

\* No token leaks while its process lives: a file belongs to a session that
\* a call is using or the pool keeps, unless logging the session out raised.
NoTokenLeak ==
  \A i \in Tokens : (file[i] \in Sess /\ Pid(file[i]) \in alive) =>
    Holds(file[i]) \/ Idle(file[i]) \/ file[i] \in lost

\* A session is used by one call at a time, and not while it is idle.
SessionsApart ==
  /\ \A v, w \in Workers : (cur[v] = cur[w] /\ cur[v] # None) => v = w
  /\ \A w \in Workers : cur[w] # None => ~Idle(cur[w])
  /\ \A p \in Procs : \A j, k \in DOMAIN idle[p] : idle[p][j] = idle[p][k] => j = k

\* A command whose output was read is not sent again: a retry repeats at most
\* the first command of the batch, once.
CompletedNotResent ==
  \A w \in Workers : \A k \in 1..Batch :
    sends[w][k] <= IF k = 1 /\ retried[w] THEN 2 ELSE 1

\* A TimeoutError is never the fault of a dead process: every token a waiter
\* found taken belongs to a process that lived when its last scan began.
TimeoutsHaveLivingHolders ==
  [][\A w \in Workers : (pc[w] = "full" /\ pc'[w] = "idle") =>
       \A i \in 0 .. Max[ProcOf[w]] - 1 :
         /\ file[i] # Old
         /\ file[i] \in Sess => Pid(file[i]) \notin deadThen[w]]_vars

\* Every batch ends, with its results or an exception.
BatchesEnd == \A w \in Workers : pc[w] # "idle" ~> pc[w] \in {"idle", "gone"}

\* Nobody acquires a token while all of them are held: the sessions whose
\* token has been acquired and not yet released are at most max_tokens.
Holders == {s \in Sess : Idle(s) \/ \E w \in Workers : cur[w] = s /\ pc[w] # "abort"}
HoldersWithinTokens == Cardinality(Holders) <= Cardinality(Tokens)

\* Commands are sent to the node at most once, whatever the pool retries
\* ("so configuration commands are never replayed", ssh_cli.py:372).
CommandsNeverReplayed == \A w \in Workers : \A k \in 1..Batch : sends[w][k] <= 1
=============================================================================
