------------------------------ MODULE FifoLock ------------------------------
(***************************************************************************)
(* asyncio.Lock as the session manager and the sessions use it             *)
(* (`async with self._lock`, `async with self._connect_lock`): a FIFO      *)
(* queue of coroutines whose head holds the lock and whose tail waits.     *)
(* A coroutine that finds the lock free becomes the head at once; a        *)
(* release hands the lock to the longest waiting coroutine, and a          *)
(* newcomer never overtakes a waiter.                                      *)
(***************************************************************************)
EXTENDS Sequences

\* The lock nobody holds or waits for.
Unlocked == <<>>

\* p holds the lock q.
Holds(q, p) == q # <<>> /\ Head(q) = p

\* p asks for the lock q: it holds q if nobody is before it.
Acquire(q, p) == Append(q, p)

\* The holder of q lets go.
Release(q) == Tail(q)
=============================================================================
