# ssh-licco in TLA+

Specifications of ssh-licco, an MCP server that keeps SSH sessions to remote
hosts and runs commands, file transfers and tunnels on them (`ssh_mcp/`, Python).
The modules model the parts whose order of steps matters; TLC checks them on
small instances, and TLAPS proves most of the safety properties for instances of
any size.

## The system

The server is one asyncio event loop plus one thread pool.  A tool call is a
coroutine; between two awaits it runs without interruption.  paramiko's blocking
calls run in the pool, and the coroutine waits for them, mostly with a timeout.

| part | state | operations | talks to |
|---|---|---|---|
| session manager (`session_manager.py`, SessionManager) | the directory `_sessions` (id to session), the manager lock, the two limits | create, get (hands out, rebuilds or discards), close, close all, list, idle cleanup every 60 s | sessions, called by every handler |
| session (`session_manager.py`, SSHSession) | state, client, keepalive task, last activity, its own lock | connect, disconnect, command, SFTP operations, keepalive loop | thread pool, paramiko |
| thread pool (`executor.py`) | at most 20 workers | submit with or without a timeout | every blocking call |
| server (`server.py`) | timestamps of the rate limiter, open tunnels | rate limit, dispatch of a call, shutdown | handlers |
| handlers (`handlers/*.py`) | none of their own | connect, disconnect, execute (security guards, deletion backup, background start), process, transfer, docker, host, key | session manager, remote shell |
| background tasks (`handlers/execute.py`, `process.py`) | files of process id, exit code and status on the remote host | start, wait, status, list, stop | remote shell |
| tunnels (`tunnel.py`) | transport, listening socket, threads | open, close | session, server |
| security policy (`security.py`, `remote_paths.py`) | pattern tables | block, grade, confirm, parse deletions, validate paths | handlers |
| host file (`config_manager.py`) | a JSON file | add or update, remove, load | handlers |
| connection pool (`connection_pool.py`) | connections, queue of idle ones, lock | acquire, release, validate, close | batch executor, service |
| batch executor (`batch_executor.py`) | a pool per host | run a command on many hosts | connection pool |
| watchdog (`watchdog.py`) | tasks with heartbeats, events | register, heartbeat, timeout scan | - |
| service (`service.py`) | clients and pools by name | connect, execute, close | pool, clients |
| audit, keys, schemas, logging, clients | files, or nothing | - | - |

The last five working parts (pool, batch, watchdog, service, additional clients)
are library code that the MCP server itself does not reach.

What is hard in it:

- Two levels of locks.  Nearly every operation of the manager keeps the manager
  lock across awaits, and some of these awaits wait for a session lock, which a
  command holds for its whole run.  Callers use a session that `get_session` gave
  them after the manager lock is gone.
- Connections die at any moment, and three parties notice: the keepalive loop,
  whoever reads `is_connected` (reading it changes the state), and a command.
- `is_connected` is true in state CONNECTED only, so a session that executes a
  command counts as disconnected for the limits, for the keepalive loop and for
  `get_session`.
- A timeout of `submit` does not stop its thread.
- A rebuild replaces the object behind an id while others hold the old object.

What makes each part correct:

- sessions: one user at a time, whoever calls; no connection left open that no
  entry names; a connected session is watched; a dead one is noticed.
- directory: an id means one host, port and user until it is closed; two ids
  never name one session; a closed id stays closed; the limits hold when a
  session is added; idle entries go away; every call returns.
- rate limiter: no window of the given length admits more than the maximum.
- pool: a connection has one borrower, none is lost, none is closed under its
  borrower, the size limit holds, a closed pool keeps nothing open.
- execute pipeline: no command reaches the remote host that a guard refuses; no
  deletion without its backup when one was asked for.
- background tasks: an exit code that is reported is the one the task ended with; a task that
  ran to its end is not taken for one that was cut short; every wait ends.
- thread pool: a caller is answered in time; a job that was given up does not begin later.
- tunnels: the table names the tunnels that hold a port and were not closed; a closed one
  dries up.
- watchdog: one loop monitors; a silent task is reported.
- host file: a name means one host, and what was added is there.
- batch executor and service: what is open can still be closed.

## Modules

| module | what it is |
|---|---|
| `FifoLock` | `asyncio.Lock` as a FIFO queue of coroutines |
| `SessionManager` | SessionManager and SSHSession together, with the keepalive loops, the cleanup loop and the network |
| `SessionDirectory` | what SessionManager promises its callers: ids bound to a host, port and user, sessions handed out and given back |
| `MCSessionManager` | the instance TLC checks |
| `SessionManagerProofs` | types, lock invariants, exclusive use of sessions, who waits for whom |
| `SessionDirectoryProofs` | what an id names, how ids come and go |
| `SessionConnectionProofs` | which connections are open, who watches them, the limits on admission |
| `SessionRefinementProofs` | SessionManager implements SessionDirectory |
| `ConnectionPool` | the connection pool with its borrowers, its validation thread and the thread that initializes and closes it |
| `ConnectionLending` | what ConnectionPool promises its borrowers: a line of open connections, lent to one borrower each and handed in or closed |
| `MCConnectionPool` | the instance TLC checks |
| `ConnectionPoolProofs` | where each connection is, how many are open, and that ConnectionPool implements ConnectionLending |
| `CommandPolicy` | what the security policy decides about a command, as operators |
| `CommandCalls` | the tool calls that run commands on a host, the background tasks they start and the files they leave there |
| `MCCommandCalls` | the instance TLC checks |
| `CommandCallsProofs` | the guards, the backups and what a task's files say of it |
| `RateLimiter` | the sliding window in front of the tool calls |
| `Workers` | the thread pool under commands and closes |
| `Tunnels` | tunnel_open, tunnel_close, the threads of a tunnel and of its connections |
| `Watchdog` | start, stop, the monitoring loop and the tasks it watches |
| `HostsFile` | several server processes that edit one hosts.json |
| `BatchExecutor` | batches of commands that share a table of pools |
| `Service` | SSHService over its clients |
| `MCServices` | the instance TLC checks of the seven modules before |
| `RateLimiterProofs` | at most the maximum of calls in a window, and no refusal without them |
| `ServicesProofs` | the queue of Workers, tables and owners in Tunnels, Watchdog, BatchExecutor and Service, the names in HostsFile, and that the composition implements each of its parts |

`CommandCalls` takes from `SessionManager` that a session is there or is not, and that a
remote step may fail; `Workers` takes from it who holds a session's lock; `BatchExecutor`
takes from `ConnectionPool` that a pool is open or closed.  `SessionManager` is the
composition of directory, sessions, locks, keepalive loops and cleanup.  `MCServices`
puts the seven smaller parts in one run: they share no variable, each behaviour follows
one of them (`part`), and the others stand still.

### SessionManager and the code

| variable | code |
|---|---|
| `mgr` | `SessionManager._lock` |
| `sessions` | `SessionManager._sessions` |
| `lock[o]` | `SSHSession._connect_lock` of object `o` |
| `ses[o]` | its config, `_state`, `client` (none, down or up), whether its keepalive task runs, whether it has been idle for longer than its session_timeout |
| `task[p]` | the await at which coroutine `p` stands and its local variables |

`p` is a tool call (`Task`) or the cleanup loop (`Cleaner`).  An action is the code
between two awaits.  `create_session` is `Request`, then `CreateReuses`,
`CreateRefused` or `CreateConnects`, then `ConnectSucceeds` or `ConnectFails`.
`get_session` is `Request`, then `GetMissing`, `GetLive` or `GetDead`; after
`GetDead` come the steps of `disconnect` (`DisconnectCloses`, `DisconnectEnds`) and
`Rebuild` with the steps of `connect`, or `GetDiscards`.  `close_session` is
`CloseMissing`, or `ClosePops`, `disconnect`, `CloseReturns`.  `close_all_sessions`
and the cleanup are a sweep: `SweepCollects`, then `SweepCloses`, `disconnect`,
`SweepContinues` for each id, and `SweepEnds`.  A caller that got a session uses it
with `UseAccepted` or `UseRefused`, then `CommandStarts` or `TransferStarts`, then
`CommandReturns`, `CommandFails` or `TransferEnds`.  `KeepaliveEnds` and
`KeepaliveFails` are the loop of an object; `ConnectionLost` and `GoesIdle` are the
network and the clock.

Choices worth knowing:

- Reading `is_connected` marks a dead session disconnected.  `Probed` is that side
  effect, and every action that reads it has it.  `create_session` stops reading at
  the first session it can reuse, so which dead ones it met is left open.
- A dropped object is collected in Python.  Here an object that nothing refers to
  is `Free` and serves as the next one, unless its connection is still open.
- `submit` times out on `_connect_sync` while the thread goes on.  `ConnectFails`
  may therefore leave the client up; `MaxOrphans` bounds how many.
- The sweep visits ids in any order, which includes the dictionary's.
- `execute_command`'s finally clause awaits its heartbeat task before it looks at the
  state once more.  The session lock is still held then, and only a keepalive step or
  a loss of the connection can come between, each of which has the same effect just
  before; the clause is one step.
- `_reconnect_count` only feeds a log line and is left out.  So are `list_sessions`,
  which reads, `execute_command_stream` and `open_shell`, which no handler calls,
  `shutdown`, which the server does not call, background channels, and mock sessions.
- Not modelled: cancellation of a call by the client, and an exception of
  `client.close`.  Both are among the hazards listed in `PROJECT.json`.
- A thread that a command's timeout left behind is not a coroutine any more: the
  session's next user may run beside it.  `SessionExclusive` speaks of coroutines.

### ConnectionPool and the code

Here the processes are threads, which interleave between any two steps, and
`lock` is a `threading.RLock`: no thread is first in line, and no step of the pool
takes it twice.  `pool` is `_pool`, `available` the `queue.Queue`, `conn[c]` the fields
of a PooledConnection with its client's `is_connected` (`up`), `pc[t]` what a thread
does next and `hold[t]` the connection it works on.

`acquire` is `Acquire`, then `Take`, `Check` and `MarkUsed`, or `TakeTimesOut` after a
second, then `FindRoom` and `Create` or `CreateFails`, or `FindNoRoom` and `Retry` or
`GiveUp`.  `release` is `Release`, then `Drop` in a closed pool, `ReturnUnfit`, or
`ReturnIdle` and `Put`.  `_remove_connection`, which acquire, release and the validator
call, is `RemoveNothing`, or `RemovePops` and `RemoveCloses`.  The validator is `Wake`,
`ScanLocks`, `Examine` for each connection, `ScanEnds`, and `Reap` with a removal for each
doomed one.  The owner does `WarmUp*` (`initialize`) and `Close*`.

- What only the thread at work sees, or what the lock protects, is one step with what
  comes next.  Reads and writes of `_closed`, of the queue and of a connection's fields
  that other threads can come between are steps of their own: between the check of a
  connection and `mark_used`, between `mark_idle` and `put`, between two connections the
  validator examines.
- `is_healthy` is one step: what it tests never becomes true again once it is false.
  `mark_error` has no caller, so `error_count` stays 0.
- `close()` clears the table and drains the queue in one step: an element put in between
  is as good as one put after the drain, and is a connection that is closed.
- A pool is initialized once, by the thread that made it and before others use it
  (batch_executor.py:90 to 95), so the guard `_init_count` never acts and is left out.
- `disconnect` of the clients does not raise (clients/paramiko_client.py:388 to 397).
- `Release` covers PooledSSHClient.close, which marks the connection as used once more
  before it releases it, and direct calls of release with and without force_close.
- `get_stats` only reads.

### CommandPolicy, CommandCalls and the code

A command is a record of what the patterns of `security.py` find in it: the lists of
allowed words it is on, the signs it contains, its risk, whether it is catastrophic,
blacklisted or blocked by `execute_background`, and the files each part of the line
removes.  `Valid` is CommandValidator.validate_command at each level, `Confirmed`
check_multi_layer_confirmation, `IsDeletion` and `Targets` DeletionBackup's parser, which
looks at the first word of the line only.

| variable | code |
|---|---|
| `level` | SSH_SECURITY_LEVEL |
| `call[c]` | the await at which a call stands, its arguments and what it has read: exit code, output, rounds left to wait |
| `task[c]` | the background task of a call on the host: the shell that runs its list, the command this shell waits for, pid file and exit file |
| `log` | who opened the default log file last |
| `files`, `saved`, `removed` | files on the host, copied by a backup, deleted by a command |
| `ran` | the calls whose command has started |

A call is `Start`, then after `ensure_session` `NoSession`, `Refused` (the guards in their
order), `LookUpTask`, `BackUpFirst`, `LaunchAtOnce` or `RunInForeground`.  A backup that is
a command of its own is `Backup`; a foreground command, with its backup before `&&`, is
`Run`, or `NoSudo`.  `execute_background` is `Launch`, which forks the list, and `Probe` or `ProbeUnheard` for
nohup, `LaunchScreen` for screen and tmux; `wait_for_task_completion` is `StillRunning`,
`SeemsEnded` or `WaitTimesOut`, then `ReadExit` and `ReadLog`.  Stop and status of ssh_process
are `ReadPid`, then `Kill` or `Status`.

The host goes on by itself (`OnHost`): the shell of the line writes the pid file (`WritePid`); the
shell of the list fails at its `cd` (`ListFails`) or begins the command (`CommandBegins`); the
command ends or dies (`CommandEnds`, `CommandDies`), its wrapper writes the exit file
(`WriteExit`), and the shell that waited for it ends (`ShellEnds`).  `Probe` and the rounds of
a wait look at any of these moments.

- `Fails` is an exception or a missing session at any await before the step had an effect.
  `heard` in the remote steps is whether the answer arrives after it had one.  If it does not,
  there is an exception, or the exit code -1 and no output: recv_exit_status does not raise
  when the connection is lost.  `Heard` has both, and `unheard` is what the code says of the
  second: a wait goes on, a status is "not running", a start "failed to start".
- `ProbeUnheard` is also the pid file that cannot be written: `echo $PID > file` fails, and the
  line ends without the word STATUS.
- The line that starts a task is a list that runs in the background as a whole, with its
  `cd`: the process id in the pid file is that of the shell that runs the list.  `kill` ends
  this shell, and the command goes on beside it; status then says that nothing runs.
- screen and tmux have neither a pid file nor an exit file; any text on stderr counts as a
  failure, and nothing else does.
- A backup runs in the home directory; a deletion in the background runs in its working
  directory, /tmp by default.  `cp -a` fails unless it finds every target.
- In `backup && rm a; rm b` only the first part depends on the backup.
- `entry` is the tool: ssh_execute, ssh_process start and the docker build (`start`), the
  commands of ssh_session and ssh_connect (`direct`), stop and status.  Only ssh_execute
  asks for confirmations and backups; the code has no such guard in the others.

### RateLimiter and the code

`stamps` and `stampOf` are `_command_timestamps`, `passedAt` and `now` real time, `lag` how
far the clock has been set back.  `Pass`, `PassUnlimited` and `Refuse` are
`_check_rate_limit` with `_handle_call_tool` as far as the handler's first await: there is
no await in between, so the check and the append are one step.  `HandlerEnds` is the answer.
The limiter reads the time of day; `ClockSetBack` is an adjustment.  A clock set forward
empties the window, and `WindowBound` says nothing about it.

### Workers and the code

`caller` is the coroutine of each job, `queue` and `running` the thread pool's, `exits` the
commands that end by themselves.  `AskLock` and `Submit` or `SubmitFails` are
SSHSession.execute_command and disconnect up to the await of `submit`; `BeginJob` is a thread
that takes a job; `CommandEnds` and `CloseRuns` are its end; `TimeOut` is `wait_for` giving
up, which takes the job out of the queue but does not stop a thread.  `TransportDies` is the
network.  A close is submitted without a timeout.

### Tunnels and the code

`tunnels` is `ctx.tunnels`, `tun[t]` the tunnel a call of tunnel_open makes, `peer[k]` a local
connection with its two copying threads.  tunnel_open is `TunnelAsked`, up to the await of
the session, then `TunnelOpened` or `TunnelNotOpened`; `TunnelClosed` is tunnel_close,
`ServerEnds` the loop over the tunnels at the end of the server, `PollEnds` the accept loop
that sees `_stop` after at most half a second.  `AcceptFails` is an OSError of accept in a tunnel
that nobody stopped: its loop ends (tunnel.py:46), and the tunnel is "deaf", with its port taken
and in the table, until it is closed.  `PipeReads` and `PipeWrites` are the two
halves of a round of `_pipe`; stop() may come between them, as it may between the test of
`_stop` and an accept.

### Watchdog and the code

`Watch` and `Unwatch` are start and stop; a loop is cancelled and ends later
(`MonitorCancelled`).  A scan is `MonitorScans`, which collects the overdue ids, then
`MonitorLooks` and `MonitorPops` for each, then `MonitorSleeps`: these take `_task_lock`
separately, and `RegisterTask`, `Heartbeat` and `UnregisterTask` come from other threads in
between.  `GoesOverdue` is the clock.

### HostsFile and the code

`AddHost` and `RemoveHost` read the file and compute the new list; `OpenHosts` is `open` for
writing, which empties the file; `WriteHosts` is the text.  `EditorKilled` ends a server process
anywhere.  `expected` and `disturbed` are history: what the calls before have left, and
whether two overlapped or one was killed while it wrote.

### BatchExecutor and Service and the code

`LookForPool` and `StorePool` are the check and the insertion of `_get_pool`, with the pool's
initialization between them; `RowEnds` and `BatchReturns` are the results; `CloseStarts`,
`ClosePool` and `CloseReturns` are `close`.  `raced` is history: the keys two threads made a
pool for at one time.

In `Service`, `ConnectBegins`, `LineOpens`, `ConnectTimesOut` and `ConnectReturns` are connect
with the client's thread, `LeaveBegins` and `LeaveEnds` are disconnect around the await of the
close, `MarkDisconnected` and `MarkHealthy` are what execute_command and health_check do to a
session, `LineDies` is the network.

## What TLC checks

Model-checked with `tlc -config <cfg> <module>`.

| run | instance | properties | result |
|---|---|---|---|
| `session_safety` | 2 calls, cleanup, 3 objects, 2 ids, limits 1, one orphan, both values of reuse and auto_reconnect | TypeOK, SessionExclusive, NoCircularWait, NoSharing, NoLeak, Monitored, NoResurrection | hold, 686 500 states up to symmetry |
| `session_admission` | 1 call, cleanup, 2 users of one host, limits 2 and 1 | IdsStayBound, AdmissionBounded, ImplementsDirectory | hold, 267 770 states |
| `session_liveness` | 2 calls, cleanup, 2 objects, 1 id, FairSpec, no symmetry | CallsReturn, DeadNoticed, IdleReaped | hold, 57 109 states |
| `session_limit` | 1 call, 3 objects, 2 ids, limit 1 | LiveSessionsBounded | violated |
| `session_rebuild` | 1 call, 3 objects, 2 ids, limits 2 | OnlyDeadRebuilt | violated |
| `pool_safety` | 2 borrowers, validator, owner, 4 connections, sizes 2 to 2, 2 uses | OneBorrower, OpenBounded, NoLeak, NoneLost, ClosedIsEmpty, ImplementsLending | hold, 157 432 states with symmetry |
| `pool_liveness` | 2 borrowers, validator, owner, 2 connections, size 1, FairSpec, no symmetry | WindsDown | holds, 99 000 states |
| `pool_borrowed` | 1 borrower, validator, owner, 2 connections, size 1 | BorrowedKeptOpen | violated |
| `command_calls` | 2 calls, 3 levels, 2 file names, exit codes 0 and 3, 2 rounds of waiting | PolicyHolds, RefusedMeansNotRun, BackupFirst, VerdictTrue, AbnormalMeansCut, CallsReturn | hold, 245 748 states |
| `task_wait` | the same with two tasks that are waited for | WaitReturnsOutput | violated |
| `services` | the seven small parts, bounds below | WindowBound, TableIsTrue, ClosedTunnelDries, OneMonitor, NamesUnique, HostsKept, PoolsOwned, ConnectionsOwned, OnlyAwaitedBegin, CommandsAnswered, ClosesEndUnlessExhausted, SilentReported, RefusedOnlyWhenFull | hold, 109 035 states |
| `worker_exhaustion` | 2 commands on one connection, 2 connections, 2 threads | ClosesEnd | violated |

The five violations are disagreements of the code with its own comments, docstrings or
tests:

- `LiveSessionsBounded`.  The limits count the entries that are connected when a
  session is created (line 766).  One that has died, or that a command is running
  on, is not counted, and `get_session` rebuilds it later without counting (line
  818).  A session dies, a second one is created in its place, the first is rebuilt:
  two live sessions under a limit of one.  What does hold is `AdmissionBounded`:
  create_session itself never exceeds a limit, although it connects for a while
  between counting and inserting.
- `OnlyDeadRebuilt`.  `execute_command` leaves a session in state EXECUTING after a
  command that succeeded, because its finally clause (line 263) asks `is_connected`,
  which is false in that state.  The keepalive loop ends when it sees this, and the
  next `get_session` closes the healthy connection and connects anew.  Sessions are
  therefore not reused either: `create_session` looks for a connected one.
- `BorrowedKeptOpen`.  The validator judges the connections while it has the lock and
  closes the doomed ones later (line 312).  `acquire` takes a connection off the queue
  without the lock, so one that was idle for too long when it was judged may have a
  borrower when it is closed.  The class calls itself thread-safe (line 89).  What does hold,
  and is proved, is `OnlyValidatorCloses`: nobody else closes a connection in use.
- `WaitReturnsOutput`.  The log file of a background task defaults to one path for all
  of them (execute.py:224).  A second task empties the file while the first is waited
  for, and the wait returns with the other one's output.  The docstring (execute.py:560) says
  that it waits for a task to complete and returns its output.
- `ClosesEnd`.  `disconnect` submits its close without a timeout (line 672) and waits for
  it with the manager lock held.  Commands that never end keep their threads after
  their callers have been told of a timeout; when they have all the threads, the close
  that would end them waits behind them, and so does every call that needs the manager
  lock.  A comment (line 735) and tests/test_session_manager.py:263 say that an idle entry
  does not stay for ever.  What does hold is `ClosesEndUnlessExhausted`: if there comes a time from
  which commands that never end do not have all the threads, every close ends, also that of
  the session of a stuck command.

The README of the repository (line 47) and docs/API_REFERENCE.md (lines 823 and 824)
give the limits as 10 and 3; the code has 20 and 5.  The values are constants here.

The type invariants of the pool, the command calls and the small parts are in no run: they are
proved for every instance (`PoolTypeCorrect`, `CallTypeCorrect`, `PartsTypeCorrect`).

Every property of a passing run has been seen to fail for a plausible fault of the
code: the operators commented "A fault" in the modules are these variants, for
example a disconnect that does not take the session lock, a close that pops its entry
before it has the manager lock, a deletion in the background that does not look at the
exit code of its backup, or a missing exit file that reads as 0.

Why the bounds are enough.  Three coroutines of which two are alike are what the
interleavings need: one that uses a session it got earlier, one that rebuilds or closes
it, and the cleanup.  Two ids and three objects let one id be rebuilt while another one
is used or created, and leave an object still in use after its entry was replaced.  A
limit of one is reached by every second creation.  Admission needs two configs on one
host and a global limit above the host's, with one call and the cleanup.  Liveness is
checked without symmetry, on one id and two objects, which is enough for a rebuild, a
close and a cleanup to wait for a running command.

The pool's races are between one borrower and another, the validator, or the owner, and
between two waiters while a third connection is closed.  Two borrowers with the validator
and the owner have all of them; two places and four objects leave a removed connection in
the queue while new ones fill the pool.  A limit of two uses lets a connection go round
once and then wear out.  `View` leaves out the fields no step can depend on any more: those
of a free object, and the age and use count of a connection that is down.

In `command_calls` the pairs of calls are the ones that can meet on the host: each command
the policy tells apart, through each tool, next to a plain one; deletions of the same files,
in the foreground and the background, with each choice about the backup; tasks of each kind
next to the call that stops or looks at them.  Two names are a deletion of one, of both, and
of one after a semicolon; the home directory may lack either.  Two rounds of waiting are
enough for a task to end before, between and after them.  A missing working directory, a command
that leaves its shell, kills and deaths are there for each way in which a task is cut short.  Calls do not meet otherwise: a
policy decision depends on one command.

In `services` three calls, of which one names no tool, meet a limit of two in a window of two
seconds on a clock that goes to 3 and may be set back by as much.  Two commands on one
connection, a close of that connection and of another one, and two threads reach exhaustion
and what is one short of it.  Two tunnels race for one port or use two, with a connection that
comes before or after the close, and the accept loop of either may fail.  Two tasks and two loops let a start follow a stop before the
old loop has ended.  Two processes with two names and two endpoints overlap in each order and
are killed at each step.  Two batches of two rows run at once, on two hosts.  Two ids and two
calls of disconnect close one id twice and two at once.

Fairness.  The event loop runs each coroutine that can run, `asyncio.Lock` is first come
first served, connecting and commands have a timeout in `submit`, and both loops wake up
after their sleep: weak fairness of each coroutine's steps, of each keepalive loop and of
the cleanup tick.  That `client.close` ends is assumed as well; it has no timeout
(executor.py:96), and `Workers` shows when it does not: `CallsReturn` and `IdleReaped` hold of a
server whose threads are not used up.  Nothing is assumed
of requests, of the network or of the clock.

In the pool each thread runs, connecting has a timeout, and a borrower gives its connection
back; a command that hangs ends when close() closes its client, and otherwise this is an
assumption.  `GiveUp` is strongly fair, since each retry takes one second of the timeout.
An RLock is not fair, and none of this says it is: that is why the property is about a pool
being closed, where the number of steps that can overtake a waiting thread is finite, and
not about acquire in a busy pool.

A command call is run whenever it can run, and each of its remote steps ends or times out in
`submit`: weak fairness of `Work` for each call, which leaves out failures, the session that
is missing, and everything the host does by itself: a pid file may never be written.  In `Workers` the event loop and the threads together
are weakly fair: each of their steps uses up a call that was made, so that they can only stop
for want of something to do.  The loop of the watchdog wakes up.  Nothing is assumed of commands, peers, heartbeats or users.

## What is proved

TLAPS proves the following for any sets of calls, objects, ids and configs, any limits
and any values of reuse and auto_reconnect, from `ConstantsAssumption` alone.

| theorem | statement |
|---|---|
| `TypeCorrect` | `Spec => []TypeOK` |
| `GuardedCorrect` | `Spec => []Guarded` |
| `ExclusiveCorrect` | `Spec => []SessionExclusive` |
| `NoCircularWaitCorrect` | `Spec => []NoCircularWait` |
| `DirectoryCorrect` | `Spec => []Directory` |
| `SharingCorrect` | `Spec => []NoSharing` |
| `IdsCorrect` | `Spec => IdsStayBound` |
| `NoResurrectionCorrect` | `Spec => NoResurrection` |
| `NoLeakCorrect` | `Spec => []NoLeak` |
| `MonitoredCorrect` | `Spec => []Monitored` |
| `AdmissionCorrect` | `Spec => AdmissionBounded` |
| `DirectoryImplemented` | `Spec => ImplementsDirectory` |

And for any sets of borrowers and connections and any sizes of the pool, from
`PoolAssumption` alone:

| theorem | statement |
|---|---|
| `PoolTypeCorrect` | `Spec => []TypeOK` |
| `OneBorrowerCorrect` | `Spec => []OneBorrower` |
| `OpenBoundedCorrect` | `Spec => []OpenBounded` |
| `PoolNoLeakCorrect` | `Spec => []NoLeak` |
| `NoneLostCorrect` | `Spec => []NoneLost` |
| `ClosedIsEmptyCorrect` | `Spec => []ClosedIsEmpty` |
| `OnlyValidatorClosesCorrect` | `Spec => OnlyValidatorCloses` |
| `LendingImplemented` | `Spec => ImplementsLending` |
| `NothingOutOfReach` | `Spec => []Lending!WithinReach` |

For any calls, tasks, file names, exit codes and arguments, from `CallAssumption` alone:

| theorem | statement |
|---|---|
| `CallTypeCorrect` | `Spec => []TypeOK` |
| `PolicyAlwaysHolds` | `Spec => []PolicyHolds` |
| `RefusalsTrue` | `Spec => []RefusedMeansNotRun` |
| `BackupAlwaysFirst` | `Spec => []BackupFirst` |
| `VerdictsTrue` | `Spec => []VerdictTrue` |
| `AbnormalMeansCutCorrect` | `Spec => []AbnormalMeansCut` |

And of the small parts, each from the assumption its module states, if any, for any number of calls,
tunnels, ports, monitors, tasks, batches, rows and ids:

| theorem | statement |
|---|---|
| `RateTypeCorrect` | `RateSpec => []RateTypeOK` |
| `WindowBoundCorrect` | `RateSpec => []WindowBound` |
| `RefusedOnlyWhenFullCorrect` | `RateSpec => RefusedOnlyWhenFull` |
| `AwaitedWhenBegun` | `WorkersSpec => OnlyAwaitedBegin` |
| `TableAlwaysTrue` | `TunnelsSpec => []TableIsTrue` |
| `ClosedTunnelsDry` | `TunnelsSpec => []ClosedTunnelDries` |
| `OneMonitorAlways` | `WatchdogSpec => []OneMonitor` |
| `PoolsAlwaysOwned` | `BatchSpec => []PoolsOwned` |
| `ConnectionsAlwaysOwned` | `ServiceSpec => []ConnectionsOwned` |
| `NamesAlwaysUnique` | `HostsSpec => []NamesUnique` |
| `HostsAlwaysKept` | `HostsSpec => []HostsKept` |
| `PartsImplemented` | `MCSpec =>` each of the seven specifications |
| `PartsTypeCorrect` | `MCSpec => []TypesOK` |
| `CompositionSafe` | `MCSpec =>` the safety properties of the run `services` |

`TypeOK` is not inductive by itself: a step that works on `task[p].cur` needs an object
there (`Located`), and a sweep needs the ids it still has to close to be entries, which
holds because nobody else changes the directory while the sweep holds the manager lock.
`Guarded` adds exactly that: `ManagerHeld` says that a coroutine at an await inside the
manager lock is the head of its queue, and `SessionHeld` says the same of the session locks.
Each step is reduced to what the locks see of it (`ManagerStep`, `LockStep`): a coroutine
queues, keeps or lets go, and a queue has one head (`OneHolder`).  `SessionExclusive` follows
because two coroutines at work on one object would both be the head of its queue.

`NoCircularWait` looks at the queues from the other side.  `ManagerHeld` and `SessionHeld` say
that whoever is inside a lock is the head of its queue; here the head of a queue must be a
coroutine that is inside the lock or about to be, or a release was forgotten.  `Queues` says
that every coroutine in a queue stands at a place where it has asked for that lock
(`AtManager`, `AtSession`) and is in it once.  Once matters: a second entry would survive the
release, and its owner would by then stand somewhere else.  Each step is a `QueueStep`: it
joins one queue having been in no other of its kind, leaves the one it heads, or moves without
touching them.  What follows is the order of the locks, the manager's before a session's: who holds a
session's lock waits for no other lock, since no place that wants a session's lock is the
wait for the manager.

The second module reduces each step to what the directory sees (`DirectoryStep`): entries
change under the manager lock only, either by the end of a connect or by an operation that
closes them, and the config of an object changes only while nobody refers to it.
`Directory` records what a rebuild under way relies on (`Fits`): its id still names the old
object, the new object is in no entry, and both have one config.  The other coroutines cannot
spoil that, since they do not hold the lock.

The third module is about connections.  `Connections` adds to `NoLeak` and `Monitored` what
they rest on: `Clean`, nobody has the object of a connect that failed; `Apart`, nobody but its
maker has one that is being connected; `Parting`, an object that has been closed stays without
a client until it is replaced or removed, and close_all has taken closed entries off its list.
Only the end of a connect opens a connection, so every other step is a `ConnectionStep`, in
which each object is `Calm`: its connection may go down and its loop may end, never the other
way round.  For the limits, `Admitted` says that while create_session connects there is room
for one more: it holds the manager lock, so meanwhile the set of live sessions can only shrink.

The refinement maps an id to the config of the object it names and a coroutine to the config
of the session it works with.  A rebuild is a stutter for the id and a `HandOut` for the
caller, because `Directory` says that old and new object have one config; a use is a stutter
because an object keeps its config while somebody holds it (`HeldKept`).

In the pool, `Located` says that each thread runs its own code and has a connection exactly
where it works on one, `Locked` who can have the lock.  `Leakless`, `Popped` and `Emptied` are
what the lock protects: what is being removed has left the table, and `close` works its way
through a table nobody changes.  After `close`, an open connection is one that was created
since, and its borrower has not looked at `_closed` yet or is about to drop it; that is why
`ClosedIsEmpty` survives every order of release and close.  `OpenBounded` needs `Sized`: who
creates has room, and who removes has already made room, so the one connection that is open
outside the table still counts.

`LendingImplemented` maps the queue to the line of `ConnectionLending`, and what a borrower
works on (`hold`) to what it has in hand.  Most steps of the pool are stutters then; a removal
is a `Discard` when a borrower does it and a `Break` when the validator does.  The invariants
above are what makes each step one of the abstract ones: `Leakless` that a connection somebody
else has removed is closed when its borrower lets it go, `Sized` that there is room for what
is opened, `Emptied` that nothing in the queue is open when `close` empties it.
`ConnectionLending` lets a connection break in anybody's hands, which is where it does not
promise `BorrowedKeptOpen`.  `NothingOutOfReach` is proved of the abstract steps alone
(`ReachStep`) and inherited.

In the command calls, `Ordered` says for every await which guards the call has passed to
stand there, and that before its command starts nothing of it is on the host; `TaskTrue` says
what a task and its files imply of each other: an exit file is written by a command that has
ended, with its code, and a shell that has ended by itself left one behind unless the task was
cut short.  A call that has not launched has no shell on the host, so nothing on the host can
come before its guards.  A step changes one call or
one task (`OthersKeep`, `QuietStep`); the guards depend on nothing that changes (`GuardsFixed`).
`BackupFirst` follows because a call stands at its launch with a backup only if `saved` has
its targets (`Covered`), and nothing takes them out again, whoever else deletes the files.

The limiter's invariant compares two clocks: a timestamp in the list is at least the time at
which its call passed less the present lag (`StampsLate`), since the lag only grows; so every
call of the real window is still in the list (`Remembered`), which has at most `RateMax`.  The
converse rests on `StampsTrue`: only calls that were let through have a timestamp, and none is
later than its call, so what counts against a call was let through in the window and the lag.  In
`ServicesProofs`, `QueueInv` says that a job in the queue is awaited, is there once and
has not begun; `PipeInv` that a pipe which has sent a chunk for a closed tunnel has ended;
`TableIsTrue` is inductive once `tun` and `tunnels` have their
types; `WatchdogInv` adds that a loop which is not the current one is cancelled or over;
`MakerInv` and `CloseInv` that a pool which is open is the one in the table, or that of a
key for which there was a race, and that `close` visits what the table still has.


In `HostsFile` the names of the file are unique, and so are those of every list a call has
computed from it and will write whenever it gets to it (`HostsInv`): an entry is replaced at the
first place of its name (`LeastPosition`), and appended only if there is none.  `HostsKept` is
about calls that do not overlap, so `KeptInv` says that as long as nothing was disturbed at most
one process is at work, that it read the present file, and that its list has the names of the
file with the call's own added or removed; a file that is open for writing is the only one that
cannot be read.  remove_host is written with `Kept`, the order-preserving list without a name,
because the provers have no axioms for `SelectSeq`.

`MCSpec` starts the parts together and lets one of them move.  `PartsImplemented` says that this
adds nothing to any part and takes nothing it forbids: each step is a step of one part and
leaves the variables of the others alone.  So every safety theorem about a part holds of the
composition that TLC checks (`PartsTypeCorrect`, `CompositionSafe`).

Every invariant and every action property that a passing run checks is stated by one of these
theorems.  Model-checked only are the liveness properties, `CallsReturn` of both modules,
`DeadNoticed`, `IdleReaped`, `WindsDown`, `CommandsAnswered`, `ClosesEndUnlessExhausted`
and `SilentReported`: they rest on fairness and ENABLED, which are beyond the
provers.  `NoCircularWait` is the safety half of `CallsReturn`; that every wait really ends
is the other half.

## What reading the code also showed

None of these is a property of a run; they are what the models had to decide, or what they
leave out.

- `kill` of ssh_process stop goes to the shell of the background list and leaves its command
  running; the answer says that the signal was sent, a wait then reports an unknown exit code.
- The line that starts a task sleeps for a second before it prints its status.  A connection that
  is lost in this second gives no output, which execute_background calls a task that failed to
  start (execute.py:454, and the table of the five cases at line 360); but the shell of the list
  has been forked, and the command runs (`ProbeUnheard`).
- The `cd` belongs to the list in the background: a working directory that does not exist ends as
  STATUS=COMPLETED with exit code -1, which line 358 describes as a process ended by a signal or
  for want of memory, and line 455 counts among the failures to start.
- Two server processes read hosts.json, and each writes the list with its own host: the later
  write drops the other one (config_manager.py:138), although
  openspec/specs/ssh-connection/spec.md:79 wants the entry added.  `HostsKept` is what holds, for
  calls that do not overlap.
- After the `kill` of ssh_process stop a status says that the task is not running, while its
  command goes on.
- A wait for a screen or tmux task says at once that it ended, with exit code -1.
- The backup of a deletion in the background looks for relative paths in the home directory,
  whatever the working directory of the deletion: it fails, or copies other files than the ones
  that are deleted.  In `rm a; rm b` the second
  file is deleted whether or not the backup succeeds.  Backup directories are named by the
  second.
- ssh_process start and the docker build go to `execute_background` without the confirmations
  and the hard block of handle_execute; a background command ignores use_sudo.  The docker
  build, which contains `&&`, is refused in strict and balanced mode.  `killall -9` is allowed
  in balanced and refused in relaxed mode.
- handle_execute asks for confirmations before it looks at the hard block;
  openspec/specs/ssh-security/spec.md wants the hard block before any other validation.
- `docker images` (image_name, docker.py:40 to 44) and stop and status of ssh_process (task_id,
  process.py:55 to 57 and 81 to 83) put an argument into a line of the shell without looking
  at it; openspec/specs/ssh-security/spec.md wants docker input validated.  They take no
  command, and no entry of `CommandCalls` models such an argument: `PolicyHolds` speaks of
  what a tool takes as a command.
- A stale session id makes `ensure_session` fall through to name, host and environment;
  `ssh_connect` prefers the host to the name, `ensure_session` the name to the host; a
  session is reused whatever the password.
- A tunnel whose accept loop ended by an OSError stays in the table, its port taken.
- The watchdog pops an entry that was registered again, or kept alive, since it was looked at.
- `add_host` writes nothing for a host and port that are in the file under another name, and
  the answer says that the server was added.
- AsyncBatchExecutor reports -1 for a command that ended with 0 (`exit_status or -1`).
- SIGTERM and SIGINT set an event that nothing awaits.

## Not modelled

- Cancellation of a tool call by its client, and an exception of `client.close`: both would
  leave a session whose state the code does not describe, and are among the hazards of
  `PROJECT.json`, as is every other hazard that no property covers, with the reason.
- Which session `ensure_session` picks for a set of arguments: it is a table of cases without
  interleavings.  A call here has a session or has none.
- The regular expressions of the security policy and the validation of paths, which are about
  text; the legacy copies of the handlers in server.py, which the dispatch table does not name.
- AsyncBatchExecutor, which keeps no state between calls; the recovery handlers of the watchdog
  and its exception handler, which nobody registers; clients other than ParamikoClient.
- Arguments other than commands that become part of a line of the shell: image and task names,
  paths beyond the answer of their validation (`pathsOk`).
- SFTP as bytes: a transfer uses a session like a command does.
- Audit and log formatting, key files, schemas, the installer and the release scripts, which
  have no states to explore.

## Plan

Done: the session manager with all its safety invariants proved and the abstract directory it
implements; the pool and the abstract lending it implements; the rate limiter; the thread pool; the command pipeline with background
tasks; tunnels, watchdog, hosts file, batch executor and service.

Left, in the order of importance for a running server:

1. Cancellation of a call: a `Cancel` for every await of `SessionManager`, with what the
   `finally` clauses and the lock queues make of it.
2. `Workers` under `SessionManager` in place of its assumption that a close ends.
3. Path normalisation and `ensure_session` as functions, checked against reference definitions.
