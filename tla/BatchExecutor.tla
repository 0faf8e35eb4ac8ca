----------------------------- MODULE BatchExecutor -----------------------------
(***************************************************************************)
(* ssh_mcp/batch_executor.py: BatchExecutor, which runs one command on a   *)
(* list of hosts, a thread for each, over a ConnectionPool for each        *)
(* host:port.  The threads share the table of pools and no lock guards it. *)
(*                                                                         *)
(* ConnectionPool says what a pool does; here one is open or closed.  The  *)
(* thread limit (max_workers) only keeps threads back and is left out.  The*)
(* caller closes the executor between batches, not during one.             *)
(***************************************************************************)
EXTENDS Integers, FiniteSets

CONSTANTS
  Batch,           \* calls of execute and execute_async
  Row,             \* the rows of the list of hosts
  RowKey,          \* host:port of each row
  NoPool

\* The work on one row of one batch; the pool it makes is known by its name.
RowJob == Batch \X Row
Key == {RowKey[r] : r \in Row}

ASSUME BatchAssumption == DOMAIN RowKey = Row /\ NoPool \notin RowJob \cup Key

VARIABLES
  pools,           \* _pools
  poolIs,          \* the pool each job made
  jobAt,           \* where the thread of each job stands
  jobOk,           \* the jobs whose command ended with exit code 0
  verdict,         \* the status each batch returned
  closing,         \* the keys close() has still to visit, while it runs
  raced            \* history: keys that two threads have made a pool for at one time

batchVars == <<pools, poolIs, jobAt, jobOk, verdict, closing, raced>>

NotClosing == {NoPool}

BatchInit ==
  /\ pools = [k \in Key |-> NoPool]
  /\ poolIs = [j \in RowJob |-> "none"]
  /\ jobAt = [j \in RowJob |-> "none"]
  /\ jobOk = {}
  /\ verdict = [b \in Batch |-> "none"]
  /\ closing = NotClosing
  /\ raced = {}

KeyFor(j) == RowKey[j[2]]
JobsOf(b) == {b} \X Row
BatchRuns(b) == verdict[b] = "running"
JobMoves(j, place) == jobAt' = [jobAt EXCEPT ![j] = place]

BatchStarts(b) ==
  /\ verdict[b] = "none" /\ closing = NotClosing
  /\ verdict' = [verdict EXCEPT ![b] = "running"]
  /\ jobAt' = [j \in RowJob |-> IF j \in JobsOf(b) THEN "looking" ELSE jobAt[j]]
  /\ UNCHANGED <<pools, poolIs, jobOk, closing, raced>>

\* _get_pool: key not in _pools
LookForPool(j) ==
  /\ jobAt[j] = "looking"
  /\ JobMoves(j, IF pools[KeyFor(j)] = NoPool THEN "making" ELSE "running")
  /\ raced' = raced \cup {k \in {KeyFor(j)} : pools[k] = NoPool
                            /\ \E i \in RowJob : KeyFor(i) = k /\ jobAt[i] = "making"}
  /\ UNCHANGED <<pools, poolIs, jobOk, verdict, closing>>

\* The pool has been initialized, whether or not it could connect, and is stored; the
\* job goes on with the pool that is in the table then.
StorePool(j) ==
  /\ jobAt[j] = "making"
  /\ poolIs' = [poolIs EXCEPT ![j] = "open"]
  /\ pools' = [pools EXCEPT ![KeyFor(j)] = j]
  /\ JobMoves(j, "running")
  /\ UNCHANGED <<jobOk, verdict, closing, raced>>

\* The command has ended, or an exception has been turned into a result.
RowEnds(j) ==
  /\ jobAt[j] = "running"
  /\ jobOk' \in {jobOk, jobOk \cup {j}}
  /\ JobMoves(j, "ended")
  /\ UNCHANGED <<pools, poolIs, verdict, closing, raced>>

\* The results come in the order in which the hosts end (as_completed); the verdict
\* counts those that succeeded.
BatchReturns(b) ==
  /\ BatchRuns(b) /\ \A j \in JobsOf(b) : jobAt[j] = "ended"
  /\ verdict' = [verdict EXCEPT ![b] = IF JobsOf(b) \subseteq jobOk THEN "success"
                                       ELSE IF JobsOf(b) \cap jobOk = {} THEN "failed"
                                       ELSE "partial"]
  /\ UNCHANGED <<pools, poolIs, jobAt, jobOk, closing, raced>>

CloseStarts ==
  /\ closing = NotClosing /\ \A b \in Batch : ~BatchRuns(b)
  /\ closing' = {k \in Key : pools[k] # NoPool}
  /\ UNCHANGED <<pools, poolIs, jobAt, jobOk, verdict, raced>>

\* A fault: the pool's own close is not called.
ForgetPool(k) ==
  /\ closing # NotClosing /\ k \in closing
  /\ closing' = closing \ {k}
  /\ UNCHANGED <<pools, poolIs, jobAt, jobOk, verdict, raced>>

ClosePool(k) ==
  /\ closing # NotClosing /\ k \in closing
  /\ poolIs' = [poolIs EXCEPT ![pools[k]] = "closed"]
  /\ closing' = closing \ {k}
  /\ UNCHANGED <<pools, jobAt, jobOk, verdict, raced>>

CloseReturns ==
  /\ closing = {}
  /\ pools' = [k \in Key |-> NoPool]
  /\ closing' = NotClosing
  /\ UNCHANGED <<poolIs, jobAt, jobOk, verdict, raced>>

BatchNext ==
  \/ \E b \in Batch : BatchStarts(b) \/ BatchReturns(b)
  \/ \E j \in RowJob : LookForPool(j) \/ StorePool(j) \/ RowEnds(j)
  \/ CloseStarts \/ CloseReturns
  \/ \E k \in Key : ClosePool(k)

BatchSpec == BatchInit /\ [][BatchNext]_batchVars

-----------------------------------------------------------------------------

BatchTypeOK ==
  /\ pools \in [Key -> RowJob \cup {NoPool}]
  /\ poolIs \in [RowJob -> {"none", "open", "closed"}]
  /\ jobAt \in [RowJob -> {"none", "looking", "making", "running", "ended"}]
  /\ jobOk \subseteq RowJob
  /\ verdict \in [Batch -> {"none", "running", "success", "partial", "failed"}]
  /\ closing = NotClosing \/ closing \subseteq Key
  /\ raced \subseteq Key

\* A pool with its connections and its thread is lost to close() only if two threads
\* found the table without their host:port at one time: hosts that are listed once, in
\* batches one after the other, leave nothing open.
PoolsOwned ==
  \A j \in RowJob : poolIs[j] = "open" =>
    \/ pools[KeyFor(j)] = j
    \/ KeyFor(j) \in raced
=============================================================================
