--------------------------- MODULE ConnectionPool ---------------------------
(***************************************************************************)
(* ssh_mcp/connection_pool.py: ConnectionPool, its connections to one host *)
(* and the threads around it.  Borrowers are the worker threads that take  *)
(* connections (batch_executor.py: `with PooledSSHClient(pool)`), the      *)
(* Validator is the pool's own validation thread, and the Owner is the     *)
(* thread that creates, initializes and closes the pool.                   *)
(*                                                                         *)
(* Threads interleave between any two steps.  An action is what a thread   *)
(* does up to its next access to something shared: the queue of available  *)
(* connections, the fields of a connection and _closed are read and        *)
(* written without the lock, the table of connections only with it.        *)
(***************************************************************************)
EXTENDS Naturals, FiniteSets, Sequences, Functions

CONSTANTS
  Borrower,   \* the threads that use the pool
  Validator,  \* the thread of _validation_loop
  Owner,      \* the thread that initializes and closes the pool
  Conn,       \* PooledConnection objects; collected ones are used again
  MinSize,    \* PoolConfig.min_size
  MaxSize,    \* PoolConfig.max_size
  MaxUses,    \* PoolConfig.max_use_count
  None

Thread == Borrower \cup {Validator, Owner}

ASSUME PoolAssumption ==
  /\ Validator \notin Borrower /\ Owner \notin Borrower /\ Validator # Owner
  /\ None \notin Thread \cup Conn
  /\ MaxSize \in Nat /\ MinSize \in 0..MaxSize
  /\ MaxUses \in Nat

VARIABLES
  pool,       \* _pool, the set of its connections
  available,  \* _available, a FIFO queue
  lock,       \* the thread that holds _lock, or None
  closed,     \* _closed
  conn,       \* the fields of each connection
  pc,         \* what each thread does next
  hold,       \* the connection each thread works on
  visit,      \* what the thread that holds the lock has still to visit
  doomed,     \* connections_to_close of the validator
  left        \* the connections initialize has still to create

vars == <<pool, available, lock, closed, conn, pc, hold, visit, doomed, left>>

\* up: client.is_connected.  stale: last used more than max_idle_time ago.
\* error_count is left out: nothing calls mark_error.
PooledConnection == [state : {"idle", "in_use", "closed"}, up : BOOLEAN,
                     uses : Nat, stale : BOOLEAN]

Places == {"idle", "getting", "checking", "marking", "evict", "empty", "creating",
           "waiting", "using", "dropping", "returning", "retire", "putting",
           "asleep", "scanning", "reaping", "reap", "ended",
           "new", "warming", "open", "closing", "closed"}

Blank == [state |-> "closed", up |-> FALSE, uses |-> 0, stale |-> FALSE]

Init ==
  /\ pool = {} /\ available = <<>> /\ lock = None /\ closed = FALSE
  /\ conn = [c \in Conn |-> Blank]
  /\ pc = [t \in Thread |-> CASE t = Validator -> "asleep"
                              [] t = Owner -> "new"
                              [] OTHER -> "idle"]
  /\ hold = [t \in Thread |-> None]
  /\ visit = {} /\ doomed = {} /\ left = 0

-----------------------------------------------------------------------------
(* Helpers.                                                                *)

At(t, place) == pc[t] = place

Goto(t, place) == pc' = [pc EXCEPT ![t] = place]

TakeLock(t) == lock = None /\ lock' = t

Queued == Range(available)

\* A connection object nobody refers to.
Free(c) ==
  /\ c \notin pool \cup Queued \cup visit \cup doomed
  /\ \A t \in Thread : hold[t] # c
  /\ ~conn[c].up

\* PooledConnection.is_healthy: a closed connection is down as well.
IsHealthy(c) == conn[c].up

\* PooledConnection.mark_used.
Used(k) == [k EXCEPT !.uses = @ + 1, !.state = "in_use", !.stale = FALSE]

\* _close_connection: the client is closed, and then the state set.
Closed(k) == [k EXCEPT !.up = FALSE, !.state = "closed"]

\* _create_and_connect returned connection c.
Connected == [state |-> "idle", up |-> TRUE, uses |-> 0, stale |-> FALSE]

-----------------------------------------------------------------------------
(* acquire                                                                 *)

\* acquire raises when the pool is closed.
AcquireRefused(p) ==
  /\ At(p, "idle") /\ closed
  /\ UNCHANGED vars

Acquire(p) ==
  /\ At(p, "idle") /\ ~closed
  /\ pc[Owner] \notin {"new", "warming"}  \* the pool is shared once it is initialized
  /\ Goto(p, "getting")
  /\ UNCHANGED <<pool, available, lock, closed, conn, hold, visit, doomed, left>>

\* A fault: the connection given back last is handed out first (a stack for a queue).
TakeNewest(p) ==
  /\ At(p, "getting") /\ available # <<>>
  /\ hold' = [hold EXCEPT ![p] = available[Len(available)]]
  /\ available' = SubSeq(available, 1, Len(available) - 1)
  /\ Goto(p, "checking")
  /\ UNCHANGED <<pool, lock, closed, conn, visit, doomed, left>>

\* _available.get hands over the oldest connection.
Take(p) ==
  /\ At(p, "getting") /\ available # <<>>
  /\ hold' = [hold EXCEPT ![p] = Head(available)]
  /\ available' = Tail(available)
  /\ Goto(p, "checking")
  /\ UNCHANGED <<pool, lock, closed, conn, visit, doomed, left>>

\* Nothing came within a second.
TakeTimesOut(p) ==
  /\ At(p, "getting") /\ available = <<>>
  /\ Goto(p, "empty")
  /\ UNCHANGED <<pool, available, lock, closed, conn, hold, visit, doomed, left>>

\* A fault: an unhealthy connection is passed over and not removed.
CheckSkips(p) ==
  /\ At(p, "checking")
  /\ Goto(p, IF IsHealthy(hold[p]) THEN "marking" ELSE "getting")
  /\ hold' = IF IsHealthy(hold[p]) THEN hold ELSE [hold EXCEPT ![p] = None]
  /\ UNCHANGED <<pool, available, lock, closed, conn, visit, doomed, left>>

Check(p) ==
  /\ At(p, "checking")
  /\ Goto(p, IF IsHealthy(hold[p]) THEN "marking" ELSE "evict")
  /\ UNCHANGED <<pool, available, lock, closed, conn, hold, visit, doomed, left>>

\* acquire returns a connection of the queue.
MarkUsed(p) ==
  /\ At(p, "marking")
  /\ conn' = [conn EXCEPT ![hold[p]] = Used(@)]
  /\ Goto(p, "using")
  /\ UNCHANGED <<pool, available, lock, closed, hold, visit, doomed, left>>

\* A fault: the size is not looked at again once the lock is ours.
FindRoomUnlocked(p) ==
  /\ At(p, "empty")
  /\ Cardinality(pool) < MaxSize
  /\ Goto(p, "creating")
  /\ UNCHANGED <<pool, available, lock, closed, conn, hold, visit, doomed, left>>

\* The pool may grow: it does so with the lock held.
FindRoom(p) ==
  /\ At(p, "empty") /\ TakeLock(p)
  /\ Cardinality(pool) < MaxSize
  /\ Goto(p, "creating")
  /\ UNCHANGED <<pool, available, closed, conn, hold, visit, doomed, left>>

FindNoRoom(p) ==
  /\ At(p, "empty") /\ lock = None
  /\ Cardinality(pool) >= MaxSize
  /\ Goto(p, "waiting")
  /\ UNCHANGED <<pool, available, lock, closed, conn, hold, visit, doomed, left>>

\* The timeout has not passed yet.
Retry(p) ==
  /\ At(p, "waiting")
  /\ Goto(p, "getting")
  /\ UNCHANGED <<pool, available, lock, closed, conn, hold, visit, doomed, left>>

\* PoolExhaustedException.
GiveUp(p) ==
  /\ At(p, "waiting")
  /\ Goto(p, "idle")
  /\ UNCHANGED <<pool, available, lock, closed, conn, hold, visit, doomed, left>>

\* A fault: the new connection is offered to others as well.
CreateOffers(p) ==
  /\ At(p, "creating")
  /\ \E c \in Conn :
       /\ Free(c)
       /\ pool' = pool \cup {c}
       /\ available' = Append(available, c)
       /\ conn' = [conn EXCEPT ![c] = Used(Connected)]
       /\ hold' = [hold EXCEPT ![p] = c]
  /\ lock' = None
  /\ Goto(p, "using")
  /\ UNCHANGED <<closed, visit, doomed, left>>

\* acquire returns a connection of its own making.
Create(p) ==
  /\ At(p, "creating")
  /\ \E c \in Conn :
       /\ Free(c)
       /\ pool' = pool \cup {c}
       /\ conn' = [conn EXCEPT ![c] = Used(Connected)]
       /\ hold' = [hold EXCEPT ![p] = c]
  /\ lock' = None
  /\ Goto(p, "using")
  /\ UNCHANGED <<available, closed, visit, doomed, left>>

\* A fault: the exception leaves the lock taken.
CreateFailsLocked(p) ==
  /\ At(p, "creating")
  /\ Goto(p, "idle")
  /\ UNCHANGED <<pool, available, lock, closed, conn, hold, visit, doomed, left>>

\* Every attempt to connect failed: acquire raises.
CreateFails(p) ==
  /\ At(p, "creating")
  /\ lock' = None
  /\ Goto(p, "idle")
  /\ UNCHANGED <<pool, available, closed, conn, hold, visit, doomed, left>>

-----------------------------------------------------------------------------
(* _remove_connection, called by acquire (evict), release (retire) and the *)
(* validator (reap)                                                        *)

Removing == {"evict", "retire", "reap"}

\* Where the caller goes on.
After == [evict |-> "getting", retire |-> "idle", reap |-> "reaping"]

\* Somebody else has removed it.
RemoveNothing(t) ==
  /\ pc[t] \in Removing /\ lock = None
  /\ hold[t] \notin pool
  /\ Goto(t, After[pc[t]])
  /\ hold' = [hold EXCEPT ![t] = None]
  /\ UNCHANGED <<pool, available, lock, closed, conn, visit, doomed, left>>

\* A fault: the lock guards the table only, and the client is closed later.
RemovePopsUnlocked(t) ==
  /\ pc[t] \in Removing /\ lock = None
  /\ hold[t] \in pool
  /\ pool' = pool \ {hold[t]}
  /\ Goto(t, After[pc[t]])
  /\ hold' = [hold EXCEPT ![t] = None]
  /\ UNCHANGED <<available, lock, closed, conn, visit, doomed, left>>

RemovePops(t) ==
  /\ pc[t] \in Removing /\ TakeLock(t)
  /\ hold[t] \in pool
  /\ pool' = pool \ {hold[t]}
  /\ UNCHANGED <<available, closed, conn, pc, hold, visit, doomed, left>>

\* The client is closed while the lock is still held.
RemoveCloses(t) ==
  /\ pc[t] \in Removing /\ lock = t
  /\ conn' = [conn EXCEPT ![hold[t]] = Closed(@)]
  /\ lock' = None
  /\ Goto(t, After[pc[t]])
  /\ hold' = [hold EXCEPT ![t] = None]
  /\ UNCHANGED <<pool, available, closed, visit, doomed, left>>

Remove(t) == RemoveNothing(t) \/ RemovePops(t) \/ RemoveCloses(t)

-----------------------------------------------------------------------------
(* release, called by PooledSSHClient.close or directly                    *)

\* A fault: release does not ask whether the pool is closed.
ReleaseAnyway(p, throughClient, force) ==
  /\ At(p, "using")
  /\ throughClient => ~force
  /\ conn' = IF throughClient THEN [conn EXCEPT ![hold[p]] = Used(@)] ELSE conn
  /\ Goto(p, IF force THEN "retire" ELSE "returning")
  /\ UNCHANGED <<pool, available, lock, closed, hold, visit, doomed, left>>

\* PooledSSHClient.close marks the connection as used before it releases it.
\* With the pool closed, release only closes the connection.
Release(p, throughClient, force) ==
  /\ At(p, "using")
  /\ throughClient => ~force
  /\ conn' = IF throughClient THEN [conn EXCEPT ![hold[p]] = Used(@)] ELSE conn
  /\ Goto(p, IF closed THEN "dropping" ELSE IF force THEN "retire" ELSE "returning")
  /\ UNCHANGED <<pool, available, lock, closed, hold, visit, doomed, left>>

Drop(p) ==
  /\ At(p, "dropping")
  /\ conn' = [conn EXCEPT ![hold[p]] = Closed(@)]
  /\ hold' = [hold EXCEPT ![p] = None]
  /\ Goto(p, "idle")
  /\ UNCHANGED <<pool, available, lock, closed, visit, doomed, left>>

\* Unhealthy, or used often enough.
ReturnUnfit(p) ==
  /\ At(p, "returning")
  /\ ~IsHealthy(hold[p]) \/ conn[hold[p]].uses >= MaxUses
  /\ Goto(p, "retire")
  /\ UNCHANGED <<pool, available, lock, closed, conn, hold, visit, doomed, left>>

ReturnIdle(p) ==
  /\ At(p, "returning")
  /\ IsHealthy(hold[p]) /\ conn[hold[p]].uses < MaxUses
  /\ conn' = [conn EXCEPT ![hold[p]].state = "idle"]
  /\ Goto(p, "putting")
  /\ UNCHANGED <<pool, available, lock, closed, hold, visit, doomed, left>>

Put(p) ==
  /\ At(p, "putting")
  /\ available' = Append(available, hold[p])
  /\ hold' = [hold EXCEPT ![p] = None]
  /\ Goto(p, "idle")
  /\ UNCHANGED <<pool, lock, closed, conn, visit, doomed, left>>

-----------------------------------------------------------------------------
(* The owner: initialize and close.                                        *)

WarmUp ==
  /\ At(Owner, "new") /\ TakeLock(Owner)
  /\ left' = MinSize
  /\ Goto(Owner, "warming")
  /\ UNCHANGED <<pool, available, closed, conn, hold, visit, doomed>>

WarmUpCreates ==
  /\ At(Owner, "warming") /\ left > 0
  /\ \E c \in Conn :
       /\ Free(c)
       /\ pool' = pool \cup {c}
       /\ available' = Append(available, c)
       /\ conn' = [conn EXCEPT ![c] = Connected]
  /\ left' = left - 1
  /\ UNCHANGED <<lock, closed, pc, hold, visit, doomed>>

WarmUpFails ==
  /\ At(Owner, "warming") /\ left > 0
  /\ left' = left - 1
  /\ UNCHANGED <<pool, available, lock, closed, conn, pc, hold, visit, doomed>>

WarmUpEnds ==
  /\ At(Owner, "warming") /\ left = 0
  /\ lock' = None
  /\ Goto(Owner, "open")
  /\ UNCHANGED <<pool, available, closed, conn, hold, visit, doomed, left>>

CloseBegins ==
  /\ At(Owner, "open")
  /\ closed' = TRUE
  /\ Goto(Owner, "closing")
  /\ UNCHANGED <<pool, available, lock, conn, hold, visit, doomed, left>>

CloseLocks ==
  /\ At(Owner, "closing") /\ TakeLock(Owner)
  /\ visit' = pool
  /\ UNCHANGED <<pool, available, closed, conn, pc, hold, doomed, left>>

CloseOne ==
  /\ At(Owner, "closing") /\ lock = Owner
  /\ \E c \in visit : /\ conn' = [conn EXCEPT ![c] = Closed(@)]
                      /\ visit' = visit \ {c}
  /\ UNCHANGED <<pool, available, lock, closed, pc, hold, doomed, left>>

\* The table is cleared and the queue drained.
CloseEnds ==
  /\ At(Owner, "closing") /\ lock = Owner /\ visit = {}
  /\ pool' = {} /\ available' = <<>>
  /\ lock' = None
  /\ Goto(Owner, "closed")
  /\ UNCHANGED <<closed, conn, hold, visit, doomed, left>>

-----------------------------------------------------------------------------
(* The validator: _validation_loop and _validate_connections.              *)

\* After its sleep the loop ends in a closed pool, or starts to validate.
Wake ==
  /\ At(Validator, "asleep")
  /\ Goto(Validator, IF closed THEN "ended" ELSE "scanning")
  /\ UNCHANGED <<pool, available, lock, closed, conn, hold, visit, doomed, left>>

ScanLocks ==
  /\ At(Validator, "scanning") /\ TakeLock(Validator)
  /\ visit' = pool
  /\ UNCHANGED <<pool, available, closed, conn, pc, hold, doomed, left>>

\* One connection of the table is judged.
Examine ==
  /\ At(Validator, "scanning") /\ lock = Validator
  /\ \E c \in visit :
       /\ visit' = visit \ {c}
       /\ doomed' = IF conn[c].state # "in_use" /\ (conn[c].stale \/ ~conn[c].up)
                    THEN doomed \cup {c} ELSE doomed
  /\ UNCHANGED <<pool, available, lock, closed, conn, pc, hold, left>>

ScanEnds ==
  /\ At(Validator, "scanning") /\ lock = Validator /\ visit = {}
  /\ lock' = None
  /\ Goto(Validator, "reaping")
  /\ UNCHANGED <<pool, available, closed, conn, hold, visit, doomed, left>>

\* The doomed connections are removed one by one, whatever became of them.
Reap ==
  /\ At(Validator, "reaping")
  /\ \E c \in doomed : /\ hold' = [hold EXCEPT ![Validator] = c]
                       /\ doomed' = doomed \ {c}
  /\ Goto(Validator, "reap")
  /\ UNCHANGED <<pool, available, lock, closed, conn, visit, left>>

ReapEnds ==
  /\ At(Validator, "reaping") /\ doomed = {}
  /\ Goto(Validator, "asleep")
  /\ UNCHANGED <<pool, available, lock, closed, conn, hold, visit, doomed, left>>

-----------------------------------------------------------------------------
(* The environment.                                                        *)

ConnectionLost(c) ==
  /\ conn[c].up
  /\ conn' = [conn EXCEPT ![c].up = FALSE]
  /\ UNCHANGED <<pool, available, lock, closed, pc, hold, visit, doomed, left>>

\* max_idle_time passes since the last use.
GoesStale(c) ==
  /\ c \in pool /\ ~conn[c].stale
  /\ conn' = [conn EXCEPT ![c].stale = TRUE]
  /\ UNCHANGED <<pool, available, lock, closed, pc, hold, visit, doomed, left>>

-----------------------------------------------------------------------------

\* A step of a call under way; Acquire starts one.
Call(p) ==
  \/ Take(p) \/ TakeTimesOut(p) \/ Check(p) \/ MarkUsed(p)
  \/ FindRoom(p) \/ FindNoRoom(p) \/ Retry(p) \/ GiveUp(p)
  \/ Create(p) \/ CreateFails(p) \/ Remove(p)
  \/ \E throughClient, force \in BOOLEAN : Release(p, throughClient, force)
  \/ Drop(p) \/ ReturnUnfit(p) \/ ReturnIdle(p) \/ Put(p)

Initialize == WarmUp \/ WarmUpCreates \/ WarmUpFails \/ WarmUpEnds

Close == CloseLocks \/ CloseOne \/ CloseEnds

Validate == Wake \/ ScanLocks \/ Examine \/ ScanEnds \/ Reap \/ ReapEnds \/ Remove(Validator)

Next ==
  \/ \E p \in Borrower : Acquire(p) \/ AcquireRefused(p) \/ Call(p)
  \/ Initialize \/ CloseBegins \/ Close
  \/ Validate
  \/ \E c \in Conn : ConnectionLost(c) \/ GoesStale(c)

Spec == Init /\ [][Next]_vars

(***************************************************************************)
(* Every thread runs, connecting has a timeout, and a borrower gives its   *)
(* connection back.  GiveUp is strongly fair: each retry takes a second of *)
(* the timeout.  The lock is not assumed to be fair to a thread while      *)
(* others keep taking it, nor the pool ever to be closed.                  *)
(***************************************************************************)
Fairness ==
  /\ \A p \in Borrower : WF_vars(Call(p)) /\ SF_vars(GiveUp(p))
  /\ WF_vars(Validate)
  /\ WF_vars(Close)

FairSpec == Spec /\ Fairness

-----------------------------------------------------------------------------
(* Properties.                                                             *)

\* Every variable has the type its declaration says.
TypeOK ==
  /\ pool \in SUBSET Conn /\ available \in Seq(Conn)
  /\ lock \in Thread \cup {None} /\ closed \in BOOLEAN
  /\ conn \in [Conn -> PooledConnection]
  /\ pc \in [Thread -> Places] /\ hold \in [Thread -> Conn \cup {None}]
  /\ visit \in SUBSET Conn /\ doomed \in SUBSET Conn /\ left \in 0..MinSize

\* A connection is in one place: with one borrower, or once in the queue.
OneBorrower ==
  /\ \A p, q \in Borrower : hold[p] = hold[q] /\ hold[p] # None => p = q
  /\ \A p \in Borrower : hold[p] \notin Queued
  /\ IsInjective(available)

Open == {c \in Conn : conn[c].up}

\* No more than max_size connections are open at any moment, those that are
\* about to be closed and those that have left the table included.
OpenBounded == Cardinality(Open) <= MaxSize

\* The thread closes the connection it has taken out of the table.
Closing(t) == lock = t /\ pc[t] \in Removing

\* No connection is leaked: an open one is in the table, or is being closed by
\* the thread that took it out.
NoLeak ==
  \A c \in Open : c \in pool \/ \E t \in Thread : Closing(t) /\ hold[t] = c

\* No place in the pool is lost: as long as the pool is open, a connection of
\* the table that nobody works on can be had from the queue.
NoneLost ==
  ~closed => \A c \in pool : c \in Queued \/ \E p \in Borrower : hold[p] = c

\* What close leaves open is only what a borrower took meanwhile and still has.
ClosedIsEmpty ==
  At(Owner, "closed") =>
    \A c \in Open : \E p \in Borrower : hold[p] = c

\* The pool for its borrowers: the line is the queue, and a borrower has in hand what it
\* has taken off the queue or created and not let go of.
Lending == INSTANCE ConnectionLending
             WITH open <- Open, with <- [b \in Borrower |-> hold[b]], ready <- available

\* Through evictions, validation, close and connections that break, the pool lends
\* connections: first in, first out, one borrower each, never too many, and whatever a
\* borrower hands in is back in line or closed (connection_pool.py:88).
ImplementsLending == Lending!LendSpec

\* A closed pool winds down: every acquire under way ends, waiting ones too,
\* every connection given back is closed, and the validator ends.
WindsDown ==
  closed ~> /\ \A p \in Borrower : At(p, "idle")
            /\ At(Validator, "ended") /\ At(Owner, "closed")
            /\ Open = {}

\* connection_pool.py:89, "thread-safe": in an open pool, the pool does not
\* close a connection that a borrower uses.
BorrowedKeptOpen ==
  ~closed => \A p \in Borrower : At(p, "using") => conn[hold[p]].state # "closed"

\* A step closes the connection that p uses.
Interrupted(p) ==
  At(p, "using") /\ conn[hold[p]].state # "closed" /\ conn'[hold[p]].state = "closed"

\* What does hold of it: in an open pool, nobody but the validator closes a connection that
\* a borrower uses; no other borrower does, whatever it evicts or retires
\* (connection_pool.py:264).
OnlyValidatorCloses ==
  [][\A p \in Borrower :
       ~closed /\ Interrupted(p) => At(Validator, "reap") /\ hold[Validator] = hold[p]]_vars
=============================================================================
