-------------------------------- MODULE Workers --------------------------------
(***************************************************************************)
(* The thread pool every blocking paramiko call goes through               *)
(* (ssh_mcp/executor.py), under the calls that SSHSession.execute_command  *)
(* and SSHSession.disconnect make of it (ssh_mcp/session_manager.py) and   *)
(* that SSHService makes with ParamikoClient.execute_command.              *)
(*                                                                         *)
(* submit() waits with a timeout for a command and without one for a close.*)
(* A caller that gives up takes its job out of the queue; a thread that    *)
(* has begun goes on.  The thread of a command reads the output after the  *)
(* exit status: a command whose output does not fit the channel's window   *)
(* never exits, and one that runs on (tail -f) does not either, until its  *)
(* transport is closed.                                                    *)
(***************************************************************************)
EXTENDS Integers, Sequences, FiniteSets

CONSTANTS
  Cmd,             \* calls of execute_command
  Conn,            \* connections; the call that closes one is known by its name
  ConnOf,          \* the connection each command runs on
  WorkerCount      \* _default_max_workers()

ASSUME WorkersAssumption ==
  /\ Cmd \cap Conn = {}
  /\ ConnOf \in [Cmd -> Conn]
  /\ WorkerCount \in Nat \ {0}

Job == Cmd \cup Conn

VARIABLES
  exits,           \* the commands that end by themselves
  up,              \* connections whose transport is active
  caller,          \* the coroutine of each job
  queue,           \* jobs submitted and not begun
  running          \* jobs a thread works on

workersVars == <<exits, up, caller, queue, running>>

WorkersInit ==
  /\ exits \in SUBSET Cmd
  /\ up = Conn
  /\ caller = [j \in Job |-> "idle"]
  /\ queue = <<>>
  /\ running = {}

ConnFor(j) == IF j \in Cmd THEN ConnOf[j] ELSE j

\* A fault: the lock of the session is kept until the thread has ended.
LockFreeWithThread(j) ==
  \A i \in Job \ {j} :
    ConnFor(i) = ConnFor(j) => caller[i] # "awaiting" /\ i \notin running

\* _connect_lock is held around submit(), not until the thread ends.
LockFree(j) ==
  \A i \in Job \ {j} : ConnFor(i) = ConnFor(j) => caller[i] # "awaiting"

\* The coroutine asks for the lock of the session.
AskLock(j) ==
  /\ caller[j] = "idle"
  /\ caller' = [caller EXCEPT ![j] = "locking"]
  /\ UNCHANGED <<exits, up, queue, running>>

Submit(j) ==
  /\ caller[j] = "locking" /\ LockFree(j)
  /\ j \in Cmd => ConnOf[j] \in up
  /\ caller' = [caller EXCEPT ![j] = "awaiting"]
  /\ queue' = Append(queue, j)
  /\ UNCHANGED <<exits, up, running>>

\* The client is gone, or exec_command finds its transport closed.
SubmitFails(j) ==
  /\ j \in Cmd /\ caller[j] = "locking" /\ LockFree(j)
  /\ ConnOf[j] \notin up
  /\ caller' = [caller EXCEPT ![j] = "answered"]
  /\ UNCHANGED <<exits, up, queue, running>>

\* A thread of the pool takes the job that waits longest.
BeginJob ==
  /\ queue # <<>> /\ Cardinality(running) < WorkerCount
  /\ running' = running \cup {Head(queue)}
  /\ queue' = Tail(queue)
  /\ UNCHANGED <<exits, up, caller>>

\* The thread of j ends, and the coroutine gets the result if it still waits.
Ends(j) ==
  /\ running' = running \ {j}
  /\ caller' = IF caller[j] = "awaiting" THEN [caller EXCEPT ![j] = "answered"] ELSE caller

\* recv_exit_status returns: the command has ended, or its transport has.
CommandEnds(j) ==
  /\ j \in Cmd \cap running
  /\ j \in exits \/ ConnOf[j] \notin up
  /\ Ends(j)
  /\ UNCHANGED <<exits, up, queue>>

\* client.close
CloseRuns(j) ==
  /\ j \in Conn \cap running
  /\ up' = up \ {j}
  /\ Ends(j)
  /\ UNCHANGED <<exits, queue>>

\* A fault: giving up does not cancel the future.
TimeOutUncancelled(j) ==
  /\ j \in Cmd /\ caller[j] = "awaiting"
  /\ caller' = [caller EXCEPT ![j] = "timedout"]
  /\ UNCHANGED <<exits, up, queue, running>>

\* A fault: a thread that has begun is waited for.
TimeOutUnbegun(j) ==
  /\ j \in Cmd \ running /\ caller[j] = "awaiting"
  /\ caller' = [caller EXCEPT ![j] = "timedout"]
  /\ queue' = SelectSeq(queue, LAMBDA i : i # j)
  /\ UNCHANGED <<exits, up, running>>

Without(i) == SubSeq(queue, 1, i - 1) \o SubSeq(queue, i + 1, Len(queue))

\* asyncio.wait_for cancels the future, which takes it out of the queue unless a thread
\* has begun with it.
TimeOut(j) ==
  /\ j \in Cmd /\ caller[j] = "awaiting"
  /\ caller' = [caller EXCEPT ![j] = "timedout"]
  /\ \/ j \in running /\ UNCHANGED queue
     \/ \E i \in DOMAIN queue : queue[i] = j /\ queue' = Without(i)
  /\ UNCHANGED <<exits, up, running>>

TransportDies(c) ==
  /\ c \in up
  /\ up' = up \ {c}
  /\ UNCHANGED <<exits, caller, queue, running>>

\* What the program does by itself, once a call has been made.
WorkersStep ==
  \/ BeginJob
  \/ \E j \in Job : Submit(j) \/ SubmitFails(j) \/ CommandEnds(j) \/ CloseRuns(j) \/ TimeOut(j)

WorkersNext ==
  \/ WorkersStep
  \/ \E j \in Job : AskLock(j)
  \/ \E c \in Conn : TransportDies(c)

\* The event loop and the threads run whenever they can, and a timeout expires: every
\* step of the program uses up a call that was made, so that they can only stop for
\* want of something to do.
WorkersFair == WF_workersVars(WorkersStep)

WorkersSpec == WorkersInit /\ [][WorkersNext]_workersVars

-----------------------------------------------------------------------------

WorkersTypeOK ==
  /\ exits \subseteq Cmd
  /\ up \subseteq Conn
  /\ caller \in [Job -> {"idle", "locking", "awaiting", "answered", "timedout"}]
  /\ queue \in Seq(Job)
  /\ running \subseteq Job

\* A command whose caller was told that it timed out before a thread was free does not
\* begin afterwards.
OnlyAwaitedBegin ==
  [][\A j \in Job : j \in running' \ running => caller[j] = "awaiting"]_workersVars

\* submit() returns to the caller of a command within its timeout, whatever the threads
\* are stuck in.
CommandsAnswered ==
  \A j \in Cmd : caller[j] = "awaiting" ~> caller[j] # "awaiting"

\* Every thread is stuck in a command that does not end.
Exhausted ==
  /\ Cardinality(running) = WorkerCount
  /\ \A j \in running : j \in Cmd \ exits /\ ConnOf[j] \in up

\* A close ends unless the pool is used up by commands that never end: fewer of those
\* than threads never hold it up, not even those of the same session.
ClosesEndUnlessExhausted ==
  <>[]~Exhausted => \A c \in Conn : caller[c] = "locking" ~> caller[c] = "answered"

\* An idle session is closed and deleted, "does not linger for ever"
\* (test_session_manager.py:263; session_manager.py:735): its close ends.
ClosesEnd == \A c \in Conn : caller[c] = "locking" ~> caller[c] = "answered"
=============================================================================
