------------------------ MODULE ConnectionPoolProofs ------------------------
(***************************************************************************)
(* Proofs about ConnectionPool, for any number of borrowers and            *)
(* connections and any sizes: the types, that a connection has one         *)
(* borrower, that none is lost or leaked, and that no more are open than   *)
(* the pool may have.                                                      *)
(***************************************************************************)
EXTENDS ConnectionPool, TLAPS, FiniteSetTheorems, SequenceTheorems

-----------------------------------------------------------------------------
(* The queue: what Append and Tail do to its elements.                     *)

\* put adds its argument, and keeps the elements distinct when it is new.
LEMMA AppendRange ==
  ASSUME NEW q \in Seq(Conn), NEW c \in Conn
  PROVE  /\ Range(Append(q, c)) = Range(q) \cup {c}
         /\ IsInjective(q) /\ c \notin Range(q) => IsInjective(Append(q, c))
<1>1. /\ Append(q, c) \in Seq(Conn) /\ Len(Append(q, c)) = Len(q) + 1
      /\ \A i \in 1..Len(q) : Append(q, c)[i] = q[i]
      /\ Append(q, c)[Len(q) + 1] = c
  BY AppendProperties
<1>2. DOMAIN q = 1..Len(q) /\ DOMAIN Append(q, c) = 1..(Len(q) + 1) /\ Len(q) \in Nat
  BY <1>1, LenProperties
<1>3. Range(Append(q, c)) = Range(q) \cup {c}
  BY <1>1, <1>2 DEF Range
<1>4. ASSUME IsInjective(q), c \notin Range(q) PROVE IsInjective(Append(q, c))
  BY <1>1, <1>2, <1>4 DEF Range, IsInjective
<1>. QED BY <1>3, <1>4

\* get takes the head, and leaves the others.
LEMMA TailRange ==
  ASSUME NEW q \in Seq(Conn), q # <<>>
  PROVE  /\ Head(q) \in Conn /\ Range(q) = Range(Tail(q)) \cup {Head(q)}
         /\ IsInjective(q) => IsInjective(Tail(q)) /\ Head(q) \notin Range(Tail(q))
<1>1. /\ Head(q) \in Conn /\ Head(q) = q[1]
      /\ Tail(q) \in Seq(Conn) /\ Len(Tail(q)) = Len(q) - 1
      /\ \A i \in 1..Len(Tail(q)) : Tail(q)[i] = q[i + 1]
  BY HeadTailProperties
<1>2. /\ DOMAIN q = 1..Len(q) /\ DOMAIN Tail(q) = 1..Len(Tail(q))
      /\ Len(q) \in Nat /\ Len(q) # 0
  BY <1>1, LenProperties, EmptySeq
<1>3. ASSUME NEW x \in Range(q) PROVE x \in Range(Tail(q)) \cup {Head(q)}
  <2>1. PICK i \in 1..Len(q) : x = q[i]
    BY <1>2 DEF Range
  <2>2. CASE i = 1
    BY <1>1, <2>1, <2>2
  <2>3. CASE i # 1
    <3>1. i - 1 \in 1..Len(Tail(q)) /\ Tail(q)[i - 1] = q[i]
      BY <1>1, <1>2, <2>3
    <3>. QED BY <1>2, <2>1, <3>1 DEF Range
  <2>. QED BY <2>2, <2>3
<1>4. ASSUME NEW x \in Range(Tail(q)) \cup {Head(q)} PROVE x \in Range(q)
  BY <1>1, <1>2 DEF Range
<1>5. ASSUME IsInjective(q) PROVE IsInjective(Tail(q)) /\ Head(q) \notin Range(Tail(q))
  BY <1>1, <1>2, <1>5 DEF Range, IsInjective
<1>. QED BY <1>1, <1>3, <1>4, <1>5

-----------------------------------------------------------------------------
(* Types.                                                                  *)

BorrowerPlaces == {"idle", "getting", "checking", "marking", "evict", "empty",
                   "creating", "waiting", "using", "dropping", "returning",
                   "retire", "putting"}

\* Where a thread works on a connection.
Holding == {"checking", "marking", "evict", "using", "dropping", "returning",
            "retire", "putting", "reap"}

\* Each thread runs its own code, and has a connection where it works on one.
Located ==
  /\ \A p \in Borrower : pc[p] \in BorrowerPlaces
  /\ pc[Validator] \in {"asleep", "scanning", "reaping", "reap", "ended"}
  /\ pc[Owner] \in {"new", "warming", "open", "closing", "closed"}
  /\ \A t \in Thread : pc[t] \in Holding <=> hold[t] # None

Typed == TypeOK /\ Located

LEMMA RecordTyped ==
  ASSUME NEW k \in PooledConnection
  PROVE  /\ Used(k) \in PooledConnection /\ Closed(k) \in PooledConnection
         /\ Connected \in PooledConnection /\ Used(Connected) \in PooledConnection
         /\ [k EXCEPT !.up = FALSE] \in PooledConnection
         /\ [k EXCEPT !.stale = TRUE] \in PooledConnection
         /\ [k EXCEPT !.state = "idle"] \in PooledConnection
<1>1. Connected \in PooledConnection
  BY DEF PooledConnection, Connected
<1>2. ASSUME NEW r \in PooledConnection PROVE Used(r) \in PooledConnection
  <2>1. Used(r) = [r EXCEPT !.uses = r.uses + 1, !.state = "in_use", !.stale = FALSE]
    BY DEF Used, PooledConnection
  <2>2. r.uses + 1 \in Nat
    BY DEF PooledConnection
  <2>. QED BY <2>1, <2>2 DEF PooledConnection
<1>3. Closed(k) \in PooledConnection
  BY DEF PooledConnection, Closed
<1>4. /\ [k EXCEPT !.up = FALSE] \in PooledConnection
      /\ [k EXCEPT !.stale = TRUE] \in PooledConnection
      /\ [k EXCEPT !.state = "idle"] \in PooledConnection
  BY DEF PooledConnection
<1>. QED BY <1>1, <1>2, <1>3, <1>4

LEMMA ConnTyped ==
  ASSUME Typed, NEW c \in Conn, NEW r \in PooledConnection, conn' = [conn EXCEPT ![c] = r]
  PROVE  conn' \in [Conn -> PooledConnection]
  BY DEF Typed, TypeOK

LEMMA TypedStep == ASSUME Typed, [Next]_vars PROVE Typed'
 <1>. USE PoolAssumption DEF Typed, TypeOK, Located, BorrowerPlaces, Holding,
       Places, At, Goto, TakeLock, Thread, Removing, After, Queued, Range
<1>1. ASSUME NEW p \in Borrower, Acquire(p) PROVE Typed'
  BY <1>1 DEF Acquire
<1>2. ASSUME NEW p \in Borrower, Take(p) PROVE Typed'
  BY <1>2 DEF Take
<1>3. ASSUME NEW p \in Borrower, TakeTimesOut(p) PROVE Typed'
  BY <1>3 DEF TakeTimesOut
<1>4. ASSUME NEW p \in Borrower, Check(p) PROVE Typed'
  BY <1>4 DEF Check
<1>5. ASSUME NEW p \in Borrower, MarkUsed(p) PROVE Typed'
  <2>1. conn' \in [Conn -> PooledConnection]
    BY <1>5, RecordTyped, ConnTyped DEF MarkUsed
  <2>. QED BY <1>5, <2>1 DEF MarkUsed
<1>6. ASSUME NEW p \in Borrower, FindRoom(p) PROVE Typed'
  BY <1>6 DEF FindRoom
<1>7. ASSUME NEW p \in Borrower, FindNoRoom(p) PROVE Typed'
  BY <1>7 DEF FindNoRoom
<1>8. ASSUME NEW p \in Borrower, Retry(p) PROVE Typed'
  BY <1>8 DEF Retry
<1>9. ASSUME NEW p \in Borrower, GiveUp(p) PROVE Typed'
  BY <1>9 DEF GiveUp
<1>10. ASSUME NEW p \in Borrower, Create(p) PROVE Typed'
  <2>1. conn' \in [Conn -> PooledConnection]
    BY <1>10, RecordTyped, ConnTyped DEF Create
  <2>. QED BY <1>10, <2>1 DEF Create
<1>11. ASSUME NEW p \in Borrower, CreateFails(p) PROVE Typed'
  BY <1>11 DEF CreateFails
<1>12. ASSUME NEW t \in Borrower \cup {Validator}, RemoveNothing(t) PROVE Typed'
  BY <1>12 DEF RemoveNothing
<1>13. ASSUME NEW t \in Borrower \cup {Validator}, RemovePops(t) PROVE Typed'
  BY <1>13 DEF RemovePops
<1>14. ASSUME NEW t \in Borrower \cup {Validator}, RemoveCloses(t) PROVE Typed'
  <2>1. conn' \in [Conn -> PooledConnection]
    BY <1>14, RecordTyped, ConnTyped DEF RemoveCloses
  <2>. QED BY <1>14, <2>1 DEF RemoveCloses
<1>15. ASSUME NEW p \in Borrower, NEW m \in BOOLEAN, NEW f \in BOOLEAN, Release(p, m, f)
       PROVE Typed'
  <2>1. conn' \in [Conn -> PooledConnection]
    BY <1>15, RecordTyped, ConnTyped DEF Release
  <2>. QED BY <1>15, <2>1 DEF Release
<1>16. ASSUME NEW p \in Borrower, Drop(p) PROVE Typed'
  <2>1. conn' \in [Conn -> PooledConnection]
    BY <1>16, RecordTyped, ConnTyped DEF Drop
  <2>. QED BY <1>16, <2>1 DEF Drop
<1>17. ASSUME NEW p \in Borrower, ReturnUnfit(p) PROVE Typed'
  BY <1>17 DEF ReturnUnfit
<1>18. ASSUME NEW p \in Borrower, ReturnIdle(p) PROVE Typed'
  <2>1. conn' \in [Conn -> PooledConnection]
    BY <1>18, RecordTyped, ConnTyped DEF ReturnIdle
  <2>. QED BY <1>18, <2>1 DEF ReturnIdle
<1>19. ASSUME NEW p \in Borrower, Put(p) PROVE Typed'
  BY <1>19 DEF Put
<1>20. CASE WarmUp
  BY <1>20 DEF WarmUp
<1>21. CASE WarmUpCreates
  <2>1. conn' \in [Conn -> PooledConnection]
    BY <1>21, RecordTyped, ConnTyped DEF WarmUpCreates
  <2>. QED BY <1>21, <2>1 DEF WarmUpCreates
<1>22. CASE WarmUpFails
  BY <1>22 DEF WarmUpFails
<1>23. CASE WarmUpEnds
  BY <1>23 DEF WarmUpEnds
<1>24. CASE CloseBegins
  BY <1>24 DEF CloseBegins
<1>25. CASE CloseLocks
  BY <1>25 DEF CloseLocks
<1>26. CASE CloseOne
  <2>1. conn' \in [Conn -> PooledConnection]
    BY <1>26, RecordTyped, ConnTyped DEF CloseOne
  <2>. QED BY <1>26, <2>1 DEF CloseOne
<1>27. CASE CloseEnds
  BY <1>27 DEF CloseEnds
<1>28. CASE Wake
  BY <1>28 DEF Wake
<1>29. CASE ScanLocks
  BY <1>29 DEF ScanLocks
<1>30. CASE Examine
  BY <1>30 DEF Examine
<1>31. CASE ScanEnds
  BY <1>31 DEF ScanEnds
<1>32. CASE Reap
  BY <1>32 DEF Reap
<1>33. CASE ReapEnds
  BY <1>33 DEF ReapEnds
<1>34. ASSUME NEW c \in Conn, ConnectionLost(c) PROVE Typed'
  <2>1. conn' \in [Conn -> PooledConnection]
    BY <1>34, RecordTyped, ConnTyped DEF ConnectionLost
  <2>. QED BY <1>34, <2>1 DEF ConnectionLost
<1>35. ASSUME NEW c \in Conn, GoesStale(c) PROVE Typed'
  <2>1. conn' \in [Conn -> PooledConnection]
    BY <1>35, RecordTyped, ConnTyped DEF GoesStale
  <2>. QED BY <1>35, <2>1 DEF GoesStale
<1>36. CASE UNCHANGED vars
  BY <1>36 DEF vars
<1>. HIDE DEF Typed, TypeOK, Located, BorrowerPlaces, Holding, Places, At, Goto,
       TakeLock, Thread, Removing, After, Queued, Range
<1>. QED
  BY <1>1, <1>2, <1>3, <1>4, <1>5, <1>6, <1>7, <1>8, <1>9, <1>10, <1>11,
     <1>12, <1>13, <1>14, <1>15, <1>16, <1>17, <1>18, <1>19, <1>20, <1>21,
     <1>22, <1>23, <1>24, <1>25, <1>26, <1>27, <1>28, <1>29, <1>30, <1>31,
     <1>32, <1>33, <1>34, <1>35, <1>36
     DEF Next, Call, Remove, Initialize, Close, Validate, AcquireRefused

LEMMA TypedInit == ASSUME Init PROVE Typed
<1>. USE PoolAssumption DEF Init, Thread
<1>1. conn \in [Conn -> PooledConnection]
  BY DEF Blank, PooledConnection
<1>2. pc \in [Thread -> Places]
  BY DEF Places
<1>3. available \in Seq(Conn) /\ left \in 0..MinSize
  OBVIOUS
<1>4. TypeOK
  BY <1>1, <1>2, <1>3 DEF TypeOK
<1>. QED BY <1>4 DEF Typed, Located, BorrowerPlaces, Holding

\* Every variable of the pool keeps its type.
THEOREM PoolTypeCorrect == Spec => []TypeOK
<1>1. Init => Typed
  BY TypedInit
<1>2. Typed /\ [Next]_vars => Typed'
  BY TypedStep
<1>3. Typed => TypeOK
  BY DEF Typed
<1>. QED BY <1>1, <1>2, <1>3, PTL DEF Spec

-----------------------------------------------------------------------------
(* The lock, and what it protects.                                         *)

\* Who creates or initializes has the lock, and only who creates, removes,
\* initializes, validates or closes can have it.
Locked ==
  /\ \A t \in Thread :
       lock = t => pc[t] \in {"creating", "warming", "closing", "scanning"} \cup Removing
  /\ \A t \in Thread : pc[t] \in {"creating", "warming"} => lock = t

\* What is being removed has left the table.
Popped == \A t \in Thread : Closing(t) => hold[t] \notin pool

Leakless ==
  \A c \in Conn : conn[c].up => c \in pool \/ \E t \in Thread : Closing(t) /\ hold[t] = c

\* close() works its way through the table, which nobody else changes then, and
\* afterwards a connection that is open is in use, or about to be dropped.
Emptied ==
  /\ At(Owner, "closing") \/ At(Owner, "closed") => closed
  /\ \A p \in Borrower : At(p, "dropping") => closed
  /\ lock = Owner /\ At(Owner, "closing") => \A c \in pool : c \in visit \/ ~conn[c].up
  /\ At(Owner, "closed") =>
       \A c \in Conn : conn[c].up =>
         \E p \in Borrower : hold[p] = c /\ pc[p] \in {"using", "dropping"}

Guarded == Locked /\ Popped /\ Leakless /\ Emptied

LEMMA GuardedStep == ASSUME Typed, Guarded, [Next]_vars, Typed' PROVE Guarded'
 <1>. USE PoolAssumption DEF Guarded, Locked, Popped, Leakless, Emptied, Closing,
       Typed, TypeOK, Located, BorrowerPlaces, Holding, Places, At, Goto, TakeLock,
       Thread, PooledConnection, Used, Closed, Connected, Removing, After
<1>1. ASSUME NEW p \in Borrower, Acquire(p) PROVE Guarded'
  BY <1>1 DEF Acquire
<1>2. ASSUME NEW p \in Borrower, Take(p) PROVE Guarded'
  <2>1. hold' = [hold EXCEPT ![p] = Head(available)] /\ pc[p] = "getting"
    BY <1>2 DEF Take
  <2>2. UNCHANGED <<pool, lock, closed, conn, visit>> /\ pc' = [pc EXCEPT ![p] = "checking"]
    BY <1>2 DEF Take
  <2>. HIDE DEF TypeOK
  <2>3. /\ pc \in [Thread -> Places] /\ hold \in [Thread -> Conn \cup {None}]
    BY DEF TypeOK
  <2>. QED BY <2>1, <2>2, <2>3
<1>3. ASSUME NEW p \in Borrower, TakeTimesOut(p) PROVE Guarded'
  BY <1>3 DEF TakeTimesOut
<1>4. ASSUME NEW p \in Borrower, Check(p) PROVE Guarded'
  <2>1. /\ pc' = [pc EXCEPT ![p] = "marking"] \/ pc' = [pc EXCEPT ![p] = "evict"]
        /\ pc[p] = "checking"
    BY <1>4 DEF Check
  <2>2. UNCHANGED <<pool, lock, closed, conn, hold, visit>>
    BY <1>4 DEF Check
  <2>3. Locked'
    BY <2>1, <2>2
  <2>4. Popped' /\ Leakless'
    BY <2>1, <2>2
  <2>5. Emptied'
    <3>1. /\ \A t \in Thread \ {p} : pc'[t] = pc[t]
          /\ pc'[p] \in {"marking", "evict"}
      BY <2>1
    <3>. HIDE DEF TypeOK
    <3>. QED BY <2>1, <2>2, <3>1
  <2>. QED BY <2>3, <2>4, <2>5
<1>5. ASSUME NEW p \in Borrower, MarkUsed(p) PROVE Guarded'
  BY <1>5 DEF MarkUsed
<1>6. ASSUME NEW p \in Borrower, FindRoom(p) PROVE Guarded'
  BY <1>6 DEF FindRoom
<1>7. ASSUME NEW p \in Borrower, FindNoRoom(p) PROVE Guarded'
  BY <1>7 DEF FindNoRoom
<1>8. ASSUME NEW p \in Borrower, Retry(p) PROVE Guarded'
  BY <1>8 DEF Retry
<1>9. ASSUME NEW p \in Borrower, GiveUp(p) PROVE Guarded'
  BY <1>9 DEF GiveUp
<1>10. ASSUME NEW p \in Borrower, Create(p) PROVE Guarded'
  BY <1>10 DEF Create
<1>11. ASSUME NEW p \in Borrower, CreateFails(p) PROVE Guarded'
  BY <1>11 DEF CreateFails
<1>12. ASSUME NEW t \in Borrower \cup {Validator}, RemoveNothing(t) PROVE Guarded'
  BY <1>12 DEF RemoveNothing
<1>13. ASSUME NEW t \in Borrower \cup {Validator}, RemovePops(t) PROVE Guarded'
  BY <1>13 DEF RemovePops
<1>14. ASSUME NEW t \in Borrower \cup {Validator}, RemoveCloses(t) PROVE Guarded'
  BY <1>14 DEF RemoveCloses
<1>15. ASSUME NEW p \in Borrower, NEW m \in BOOLEAN, NEW f \in BOOLEAN, Release(p, m, f)
       PROVE Guarded'
  BY <1>15 DEF Release
<1>16. ASSUME NEW p \in Borrower, Drop(p) PROVE Guarded'
  BY <1>16 DEF Drop
<1>17. ASSUME NEW p \in Borrower, ReturnUnfit(p) PROVE Guarded'
  BY <1>17 DEF ReturnUnfit
<1>18. ASSUME NEW p \in Borrower, ReturnIdle(p) PROVE Guarded'
  <2>1. conn' = [conn EXCEPT ![hold[p]].state = "idle"] /\ pc[p] = "returning"
    BY <1>18 DEF ReturnIdle
  <2>2. UNCHANGED <<pool, lock, closed, hold, visit>> /\ pc' = [pc EXCEPT ![p] = "putting"]
    BY <1>18 DEF ReturnIdle
  <2>. HIDE DEF TypeOK
  <2>3. /\ pc \in [Thread -> Places] /\ hold \in [Thread -> Conn \cup {None}]
        /\ conn \in [Conn -> PooledConnection]
    BY DEF TypeOK
  <2>4. \A c \in Conn : conn'[c].up = conn[c].up
    BY <2>1, <2>3
  <2>. QED BY <2>1, <2>2, <2>3, <2>4
<1>19. ASSUME NEW p \in Borrower, Put(p) PROVE Guarded'
  <2>1. hold' = [hold EXCEPT ![p] = None] /\ pc[p] = "putting"
    BY <1>19 DEF Put
  <2>2. UNCHANGED <<pool, lock, closed, conn, visit>> /\ pc' = [pc EXCEPT ![p] = "idle"]
    BY <1>19 DEF Put
  <2>. HIDE DEF TypeOK
  <2>3. /\ pc \in [Thread -> Places] /\ hold \in [Thread -> Conn \cup {None}]
    BY DEF TypeOK
  <2>. QED BY <2>1, <2>2, <2>3
<1>20. CASE WarmUp
  BY <1>20 DEF WarmUp
<1>21. CASE WarmUpCreates
  BY <1>21 DEF WarmUpCreates
<1>22. CASE WarmUpFails
  BY <1>22 DEF WarmUpFails
<1>23. CASE WarmUpEnds
  BY <1>23 DEF WarmUpEnds
<1>24. CASE CloseBegins
  BY <1>24 DEF CloseBegins
<1>25. CASE CloseLocks
  BY <1>25 DEF CloseLocks
<1>26. CASE CloseOne
  BY <1>26 DEF CloseOne
<1>27. CASE CloseEnds
  BY <1>27 DEF CloseEnds
<1>28. CASE Wake
  BY <1>28 DEF Wake
<1>29. CASE ScanLocks
  BY <1>29 DEF ScanLocks
<1>30. CASE Examine
  BY <1>30 DEF Examine
<1>31. CASE ScanEnds
  BY <1>31 DEF ScanEnds
<1>32. CASE Reap
  BY <1>32 DEF Reap
<1>33. CASE ReapEnds
  BY <1>33 DEF ReapEnds
<1>34. ASSUME NEW c \in Conn, ConnectionLost(c) PROVE Guarded'
  BY <1>34 DEF ConnectionLost
<1>35. ASSUME NEW c \in Conn, GoesStale(c) PROVE Guarded'
  BY <1>35 DEF GoesStale
<1>36. CASE UNCHANGED vars
  BY <1>36 DEF vars
<1>. HIDE DEF Guarded, Locked, Popped, Leakless, Emptied, Closing, Typed, TypeOK,
       Located, BorrowerPlaces, Holding, Places, At, Goto, TakeLock, Thread,
       PooledConnection, Used, Closed, Connected, Removing, After
<1>. QED
  BY <1>1, <1>2, <1>3, <1>4, <1>5, <1>6, <1>7, <1>8, <1>9, <1>10, <1>11,
     <1>12, <1>13, <1>14, <1>15, <1>16, <1>17, <1>18, <1>19, <1>20, <1>21,
     <1>22, <1>23, <1>24, <1>25, <1>26, <1>27, <1>28, <1>29, <1>30, <1>31,
     <1>32, <1>33, <1>34, <1>35, <1>36
     DEF Next, Call, Remove, Initialize, Close, Validate, AcquireRefused

LEMMA GuardedInit == ASSUME Init PROVE Guarded
<1>. USE PoolAssumption DEF Init, Thread
<1>1. Locked /\ Popped
  BY DEF Locked, Popped, Closing
<1>2. Leakless
  BY DEF Leakless, Blank
<1>3. Emptied
  BY DEF Emptied, At
<1>. QED BY <1>1, <1>2, <1>3 DEF Guarded

Safe == Typed /\ Guarded

LEMMA SafeCorrect == Spec => []Safe
<1>1. Init => Safe
  BY TypedInit, GuardedInit DEF Safe
<1>2. Safe /\ [Next]_vars => Safe'
  BY TypedStep, GuardedStep DEF Safe
<1>. QED BY <1>1, <1>2, PTL DEF Spec

\* _remove_connection closes what it takes out of the table before it lets go
\* of the lock: an open connection is in the table or with the thread that
\* closes it.
THEOREM PoolNoLeakCorrect == Spec => []NoLeak
<1>1. Safe => NoLeak
  BY DEF Safe, Guarded, Leakless, NoLeak, Open
<1>. QED BY <1>1, SafeCorrect, PTL

\* close() leaves open only what a borrower took meanwhile, and release closes
\* that: nothing ever returns to the queue of a closed pool with its
\* connection open.
THEOREM ClosedIsEmptyCorrect == Spec => []ClosedIsEmpty
<1>1. Safe => ClosedIsEmpty
  BY DEF Safe, Guarded, Emptied, ClosedIsEmpty, Open
<1>. QED BY <1>1, SafeCorrect, PTL

-----------------------------------------------------------------------------
(* Where each connection is.                                               *)

Placed == OneBorrower /\ NoneLost

LEMMA NoneNotQueued == ASSUME Typed PROVE None \notin Queued
  BY PoolAssumption, RangeOfSeq DEF Typed, TypeOK, Queued, Range

\* A thread that lets go of its connection takes nothing from the others.
LEMMA LetGo ==
  ASSUME Typed, NEW t \in Thread, OneBorrower, hold' = [hold EXCEPT ![t] = None],
         available' = available
  PROVE  OneBorrower'
  BY NoneNotQueued, PoolAssumption DEF Typed, TypeOK, OneBorrower, Queued, Thread

LEMMA PlacedStep == ASSUME Typed, Guarded, Placed, [Next]_vars, Typed' PROVE Placed'
 <1>. USE PoolAssumption DEF Placed, OneBorrower, NoneLost, Guarded, Locked, Popped,
       Emptied, Closing, Typed, TypeOK, Located, Holding, At, Goto, TakeLock,
       Thread, Removing, After, Queued
<1>1. ASSUME NEW p \in Borrower, Acquire(p) PROVE Placed'
  BY <1>1 DEF Acquire
<1>2. ASSUME NEW p \in Borrower, Take(p) PROVE Placed'
  <2>1. /\ Queued = Queued' \cup {Head(available)} /\ Head(available) \notin Queued'
        /\ IsInjective(available') /\ Head(available) \in Conn
    BY <1>2, TailRange DEF Take
  <2>2. hold' = [hold EXCEPT ![p] = Head(available)] /\ hold[p] = None
    BY <1>2 DEF Take
  <2>3. UNCHANGED <<pool, closed>>
    BY <1>2 DEF Take
  <2>. HIDE DEF Queued
  <2>4. OneBorrower'
    BY <2>1, <2>2
  <2>5. NoneLost'
    BY <2>1, <2>2, <2>3
  <2>. QED BY <2>4, <2>5
<1>3. ASSUME NEW p \in Borrower, TakeTimesOut(p) PROVE Placed'
  BY <1>3 DEF TakeTimesOut
<1>4. ASSUME NEW p \in Borrower, Check(p) PROVE Placed'
  BY <1>4 DEF Check
<1>5. ASSUME NEW p \in Borrower, MarkUsed(p) PROVE Placed'
  BY <1>5 DEF MarkUsed
<1>6. ASSUME NEW p \in Borrower, FindRoom(p) PROVE Placed'
  BY <1>6 DEF FindRoom
<1>7. ASSUME NEW p \in Borrower, FindNoRoom(p) PROVE Placed'
  BY <1>7 DEF FindNoRoom
<1>8. ASSUME NEW p \in Borrower, Retry(p) PROVE Placed'
  BY <1>8 DEF Retry
<1>9. ASSUME NEW p \in Borrower, GiveUp(p) PROVE Placed'
  BY <1>9 DEF GiveUp
<1>10. ASSUME NEW p \in Borrower, Create(p) PROVE Placed'
  <2>1. PICK c \in Conn : /\ Free(c) /\ pool' = pool \cup {c}
                         /\ hold' = [hold EXCEPT ![p] = c]
    BY <1>10 DEF Create
  <2>2. hold[p] = None /\ UNCHANGED <<available, closed>>
    BY <1>10 DEF Create
  <2>3. c \notin Queued /\ \A t \in Thread : hold[t] # c
    BY <2>1 DEF Free
  <2>4. OneBorrower'
    BY <2>1, <2>2, <2>3
  <2>5. NoneLost'
    BY <2>1, <2>2
  <2>. QED BY <2>4, <2>5
<1>11. ASSUME NEW p \in Borrower, CreateFails(p) PROVE Placed'
  BY <1>11 DEF CreateFails
<1>12. ASSUME NEW t \in Borrower \cup {Validator}, RemoveNothing(t) PROVE Placed'
  <2>1. hold' = [hold EXCEPT ![t] = None] /\ UNCHANGED <<pool, available, closed>>
    BY <1>12 DEF RemoveNothing
  <2>2. hold[t] \notin pool
    BY <1>12 DEF RemoveNothing
  <2>. HIDE DEF Queued, OneBorrower, Typed
  <2>3. OneBorrower'
    BY <2>1, LetGo DEF Placed
  <2>4. NoneLost'
    BY <2>1, <2>2 DEF Queued
  <2>. QED BY <2>3, <2>4
<1>13. ASSUME NEW t \in Borrower \cup {Validator}, RemovePops(t) PROVE Placed'
  BY <1>13 DEF RemovePops
<1>14. ASSUME NEW t \in Borrower \cup {Validator}, RemoveCloses(t) PROVE Placed'
  <2>1. hold' = [hold EXCEPT ![t] = None] /\ UNCHANGED <<pool, available, closed>>
    BY <1>14 DEF RemoveCloses
  <2>2. hold[t] \notin pool
    BY <1>14 DEF RemoveCloses
  <2>. HIDE DEF Queued, OneBorrower, Typed
  <2>3. OneBorrower'
    BY <2>1, LetGo DEF Placed
  <2>4. NoneLost'
    BY <2>1, <2>2 DEF Queued
  <2>. QED BY <2>3, <2>4
<1>15. ASSUME NEW p \in Borrower, NEW m \in BOOLEAN, NEW f \in BOOLEAN, Release(p, m, f)
       PROVE Placed'
  BY <1>15 DEF Release
<1>16. ASSUME NEW p \in Borrower, Drop(p) PROVE Placed'
  <2>1. hold' = [hold EXCEPT ![p] = None] /\ UNCHANGED <<pool, available, closed>>
    BY <1>16 DEF Drop
  <2>2. closed
    BY <1>16 DEF Drop
  <2>. HIDE DEF OneBorrower, Typed
  <2>3. OneBorrower'
    BY <2>1, LetGo DEF Placed
  <2>. QED BY <2>1, <2>2, <2>3
<1>17. ASSUME NEW p \in Borrower, ReturnUnfit(p) PROVE Placed'
  BY <1>17 DEF ReturnUnfit
<1>18. ASSUME NEW p \in Borrower, ReturnIdle(p) PROVE Placed'
  BY <1>18 DEF ReturnIdle
<1>19. ASSUME NEW p \in Borrower, Put(p) PROVE Placed'
  <2>1. hold[p] \in Conn
    BY <1>19 DEF Put
  <2>2. Queued' = Queued \cup {hold[p]} /\ IsInjective(available')
    BY <1>19, <2>1, AppendRange DEF Put
  <2>3. hold' = [hold EXCEPT ![p] = None] /\ UNCHANGED <<pool, closed>>
    BY <1>19 DEF Put
  <2>. HIDE DEF Queued
  <2>4. OneBorrower'
    BY <2>1, <2>2, <2>3, NoneNotQueued
  <2>5. NoneLost'
    BY <2>1, <2>2, <2>3
  <2>. QED BY <2>4, <2>5
<1>20. CASE WarmUp
  BY <1>20 DEF WarmUp
<1>21. CASE WarmUpCreates
  <2>1. PICK c \in Conn : /\ Free(c) /\ pool' = pool \cup {c}
                         /\ available' = Append(available, c)
    BY <1>21 DEF WarmUpCreates
  <2>2. UNCHANGED <<hold, closed>>
    BY <1>21 DEF WarmUpCreates
  <2>3. c \notin Queued /\ \A t \in Thread : hold[t] # c
    BY <2>1 DEF Free
  <2>4. Queued' = Queued \cup {c} /\ IsInjective(available')
    BY <2>1, <2>3, AppendRange
  <2>. HIDE DEF Queued
  <2>. QED BY <2>1, <2>2, <2>3, <2>4
<1>22. CASE WarmUpFails
  BY <1>22 DEF WarmUpFails
<1>23. CASE WarmUpEnds
  BY <1>23 DEF WarmUpEnds
<1>24. CASE CloseBegins
  BY <1>24 DEF CloseBegins
<1>25. CASE CloseLocks
  BY <1>25 DEF CloseLocks
<1>26. CASE CloseOne
  BY <1>26 DEF CloseOne
<1>27. CASE CloseEnds
  <2>1. available' = <<>> /\ pool' = {} /\ hold' = hold
    BY <1>27 DEF CloseEnds
  <2>2. Queued' = {} /\ IsInjective(available')
    BY <2>1 DEF Range, IsInjective
  <2>. QED BY <2>1, <2>2
<1>28. CASE Wake
  BY <1>28 DEF Wake
<1>29. CASE ScanLocks
  BY <1>29 DEF ScanLocks
<1>30. CASE Examine
  BY <1>30 DEF Examine
<1>31. CASE ScanEnds
  BY <1>31 DEF ScanEnds
<1>32. CASE Reap
  BY <1>32 DEF Reap
<1>33. CASE ReapEnds
  BY <1>33 DEF ReapEnds
<1>34. ASSUME NEW c \in Conn, ConnectionLost(c) PROVE Placed'
  BY <1>34 DEF ConnectionLost
<1>35. ASSUME NEW c \in Conn, GoesStale(c) PROVE Placed'
  BY <1>35 DEF GoesStale
<1>36. CASE UNCHANGED vars
  BY <1>36 DEF vars
<1>. HIDE DEF Placed, OneBorrower, NoneLost, Guarded, Locked, Popped, Emptied,
       Closing, Typed, TypeOK, Located, Holding, At, Goto, TakeLock, Thread,
       Removing, After, Queued
<1>. QED
  BY <1>1, <1>2, <1>3, <1>4, <1>5, <1>6, <1>7, <1>8, <1>9, <1>10, <1>11,
     <1>12, <1>13, <1>14, <1>15, <1>16, <1>17, <1>18, <1>19, <1>20, <1>21,
     <1>22, <1>23, <1>24, <1>25, <1>26, <1>27, <1>28, <1>29, <1>30, <1>31,
     <1>32, <1>33, <1>34, <1>35, <1>36
     DEF Next, Call, Remove, Initialize, Close, Validate, AcquireRefused

LEMMA PlacedCorrect == Spec => []Placed
<1>1. Init => Placed
  BY PoolAssumption
     DEF Init, Placed, OneBorrower, NoneLost, Queued, Range, IsInjective, Thread
<1>2. Safe /\ Safe' /\ Placed /\ [Next]_vars => Placed'
  BY PlacedStep DEF Safe
<1>. QED BY <1>1, <1>2, SafeCorrect, PTL DEF Spec

\* acquire, release and initialize never let two threads have one connection,
\* nor put into the queue what somebody has.
THEOREM OneBorrowerCorrect == Spec => []OneBorrower
<1>1. Placed => OneBorrower
  BY DEF Placed
<1>. QED BY <1>1, PlacedCorrect, PTL

\* No path of acquire, release or the validator drops a connection and leaves
\* it in the table, where it would take up a place for good.
THEOREM NoneLostCorrect == Spec => []NoneLost
<1>1. Placed => NoneLost
  BY DEF Placed
<1>. QED BY <1>1, PlacedCorrect, PTL

\* Only one step closes a connection that is with a borrower who goes on using it.
LEMMA ClosesUnderBorrower ==
  ASSUME Typed, Guarded, Placed, [Next]_vars, NEW p \in Borrower,
         ~closed, Interrupted(p)
  PROVE  At(Validator, "reap") /\ hold[Validator] = hold[p]
<1>. USE DEF Interrupted
<1>. DEFINE c == hold[p]
<1>1. /\ c \in Conn /\ c # None /\ pc[p] = "using" /\ p \in Thread
      /\ conn \in [Conn -> PooledConnection] /\ conn'[c] # conn[c]
      /\ \A q \in Borrower : hold[q] = c => q = p
  BY PoolAssumption
     DEF At, Typed, TypeOK, Located, Holding, Thread, Placed, OneBorrower
<1>2. ASSUME NEW x \in Conn, NEW k, conn' = [conn EXCEPT ![x] = k]
      PROVE  x = c /\ k.state = "closed"
  BY <1>1, <1>2
<1>3. ASSUME NEW q \in Borrower, Call(q) PROVE FALSE
  <2>1. CASE Create(q)
    <3>1. PICK x \in Conn : Free(x) /\ conn' = [conn EXCEPT ![x] = Used(Connected)]
      BY <2>1 DEF Create
    <3>. QED BY <1>1, <1>2, <3>1 DEF Free
  <2>2. CASE RemoveCloses(q)
    <3>1. hold[q] \in Conn /\ conn' = [conn EXCEPT ![hold[q]] = Closed(@)]
          /\ pc[q] \in Removing
      BY <2>2 DEF RemoveCloses, Removing, Typed, TypeOK, Located, Holding, Thread
    <3>. QED BY <1>1, <1>2, <3>1 DEF Removing
  <2>3. CASE Drop(q)
    <3>1. hold[q] \in Conn /\ conn' = [conn EXCEPT ![hold[q]] = Closed(@)]
          /\ pc[q] = "dropping"
      BY <2>3 DEF Drop, At, Typed, TypeOK, Located, Holding, Thread
    <3>. QED BY <1>1, <1>2, <3>1
  <2>4. CASE MarkUsed(q) \/ ReturnIdle(q) \/ \E u, f \in BOOLEAN : Release(q, u, f)
    <3>1. hold[q] \in Conn /\ (q = p => ~MarkUsed(q) /\ ~ReturnIdle(q))
      BY <1>1, <2>4 DEF MarkUsed, ReturnIdle, Release, At, Typed, TypeOK, Located, Holding,
         Thread
    <3>2. \/ conn' = conn
          \/ conn' = [conn EXCEPT ![hold[q]] = Used(conn[hold[q]])]
          \/ conn' = [conn EXCEPT ![hold[q]] = [conn[hold[q]] EXCEPT !.state = "idle"]]
      BY <1>1, <2>4, <3>1 DEF MarkUsed, ReturnIdle, Release
    <3>3. /\ Used(conn[hold[q]]).state # "closed"
          /\ [conn[hold[q]] EXCEPT !.state = "idle"].state # "closed"
      BY <1>1, <3>1 DEF Used, PooledConnection
    <3>. QED BY <1>1, <1>2, <3>1, <3>2, <3>3
  <2>5. CASE conn' = conn
    BY <1>1, <2>5
  <2>. QED
    BY <1>3, <2>1, <2>2, <2>3, <2>4, <2>5
       DEF Call, Take, TakeTimesOut, Check, FindRoom, FindNoRoom, Retry, GiveUp, CreateFails,
           Remove, RemoveNothing, RemovePops, ReturnUnfit, Put
<1>4. CASE Initialize
  <2>1. CASE WarmUpCreates
    <3>1. PICK x \in Conn : Free(x) /\ conn' = [conn EXCEPT ![x] = Connected]
      BY <2>1 DEF WarmUpCreates
    <3>. QED BY <1>1, <1>2, <3>1 DEF Free
  <2>. QED BY <1>1, <1>4, <2>1 DEF Initialize, WarmUp, WarmUpFails, WarmUpEnds
<1>5. CASE Close
  BY <1>5 DEF Close, CloseLocks, CloseOne, CloseEnds, At, Guarded, Emptied
<1>6. CASE Validate
  <2>1. CASE RemoveCloses(Validator)
    <3>1. /\ hold[Validator] \in Conn /\ pc[Validator] = "reap"
          /\ conn' = [conn EXCEPT ![hold[Validator]] = Closed(@)]
      BY <2>1, PoolAssumption
         DEF RemoveCloses, Removing, Typed, TypeOK, Located, Holding, Thread
    <3>. QED BY <1>2, <3>1 DEF At
  <2>. QED
    BY <1>1, <1>6, <2>1
       DEF Validate, Wake, ScanLocks, Examine, ScanEnds, Reap, ReapEnds, Remove,
           RemoveNothing, RemovePops
<1>7. ASSUME NEW x \in Conn, ConnectionLost(x) \/ GoesStale(x) PROVE FALSE
  <2>1. conn'[c].state = conn[c].state
    BY <1>1, <1>7 DEF ConnectionLost, GoesStale, PooledConnection
  <2>. QED BY <2>1
<1>. QED
  BY <1>1, <1>3, <1>4, <1>5, <1>6, <1>7
     DEF Next, Acquire, AcquireRefused, CloseBegins, vars

\* In an open pool nobody but the validator closes a connection that a borrower uses: of
\* all the races for a connection, that one is the only one that close and eviction leave.
THEOREM OnlyValidatorClosesCorrect == Spec => OnlyValidatorCloses
<1>1. Safe /\ Placed /\ [Next]_vars =>
        [\A p \in Borrower :
           ~closed /\ Interrupted(p) => At(Validator, "reap") /\ hold[Validator] = hold[p]]_vars
  BY ClosesUnderBorrower DEF Safe
<1>. QED BY <1>1, SafeCorrect, PlacedCorrect, PTL DEF Spec, OnlyValidatorCloses

-----------------------------------------------------------------------------
(* The size of the pool.                                                   *)

\* Whoever creates has room, whoever removes has made room, and initialize has
\* the pool for itself.
Sized ==
  /\ IsFiniteSet(pool)
  /\ Cardinality(pool) <= MaxSize
  /\ \A t \in Thread : At(t, "creating") \/ Closing(t) => Cardinality(pool) < MaxSize
  /\ At(Owner, "new") => pool = {}
  /\ At(Owner, "warming") => Cardinality(pool) + left <= MaxSize
  /\ At(Owner, "new") \/ At(Owner, "warming") => \A p \in Borrower : At(p, "idle")

LEMMA SizedStep == ASSUME Typed, Guarded, Sized, [Next]_vars, Typed' PROVE Sized'
 <1>. USE PoolAssumption DEF Sized, Guarded, Locked, Closing, Typed, TypeOK,
       Located, At, Goto, TakeLock, Thread, Removing, After
<1>1. ASSUME NEW p \in Borrower, Acquire(p) PROVE Sized'
  BY <1>1 DEF Acquire
<1>2. ASSUME NEW p \in Borrower, Take(p) PROVE Sized'
  BY <1>2 DEF Take
<1>3. ASSUME NEW p \in Borrower, TakeTimesOut(p) PROVE Sized'
  BY <1>3 DEF TakeTimesOut
<1>4. ASSUME NEW p \in Borrower, Check(p) PROVE Sized'
  BY <1>4 DEF Check
<1>5. ASSUME NEW p \in Borrower, MarkUsed(p) PROVE Sized'
  BY <1>5 DEF MarkUsed
<1>6. ASSUME NEW p \in Borrower, FindRoom(p) PROVE Sized'
  BY <1>6, FS_CardinalityType DEF FindRoom
<1>7. ASSUME NEW p \in Borrower, FindNoRoom(p) PROVE Sized'
  BY <1>7 DEF FindNoRoom
<1>8. ASSUME NEW p \in Borrower, Retry(p) PROVE Sized'
  BY <1>8 DEF Retry
<1>9. ASSUME NEW p \in Borrower, GiveUp(p) PROVE Sized'
  BY <1>9 DEF GiveUp
<1>10. ASSUME NEW p \in Borrower, Create(p) PROVE Sized'
  <2>1. PICK c \in Conn : Free(c) /\ pool' = pool \cup {c}
    BY <1>10 DEF Create
  <2>2. IsFiniteSet(pool') /\ Cardinality(pool') = Cardinality(pool) + 1
    <3>1. IsFiniteSet(pool) /\ c \notin pool
      BY <2>1 DEF Free
    <3>. HIDE DEF Sized, Guarded, Locked, Closing, Typed, TypeOK, Located, At,
           Goto, TakeLock, Thread, Removing, After
    <3>. QED BY <2>1, <3>1, FS_AddElement
  <2>. QED BY <1>10, <2>2, FS_CardinalityType DEF Create
<1>11. ASSUME NEW p \in Borrower, CreateFails(p) PROVE Sized'
  BY <1>11 DEF CreateFails
<1>12. ASSUME NEW t \in Borrower \cup {Validator}, RemoveNothing(t) PROVE Sized'
  BY <1>12 DEF RemoveNothing
<1>13. ASSUME NEW t \in Borrower \cup {Validator}, RemovePops(t) PROVE Sized'
  <2>3. lock = None /\ hold[t] \in pool /\ pool' = pool \ {hold[t]}
    BY <1>13 DEF RemovePops
  <2>1. IsFiniteSet(pool') /\ Cardinality(pool') = Cardinality(pool) - 1
    <3>1. IsFiniteSet(pool)
      OBVIOUS
    <3>. HIDE DEF Sized, Guarded, Locked, Closing, Typed, TypeOK, Located, At,
           Goto, TakeLock, Thread, Removing, After
    <3>. QED BY <2>3, <3>1, FS_RemoveElement
  <2>2. Cardinality(pool) \in Nat
    <3>1. IsFiniteSet(pool)
      OBVIOUS
    <3>. HIDE DEF Sized, Guarded, Locked, Closing, Typed, TypeOK, Located, At,
           Goto, TakeLock, Thread, Removing, After
    <3>. QED BY <3>1, FS_CardinalityType
  <2>4. UNCHANGED <<pc, left>>
    BY <1>13 DEF RemovePops
  <2>5. Cardinality(pool') < MaxSize
    BY <2>1, <2>2
  <2>. QED BY <2>1, <2>2, <2>3, <2>4, <2>5
<1>14. ASSUME NEW t \in Borrower \cup {Validator}, RemoveCloses(t) PROVE Sized'
  BY <1>14 DEF RemoveCloses
<1>15. ASSUME NEW p \in Borrower, NEW m \in BOOLEAN, NEW f \in BOOLEAN, Release(p, m, f)
       PROVE Sized'
  BY <1>15 DEF Release
<1>16. ASSUME NEW p \in Borrower, Drop(p) PROVE Sized'
  BY <1>16 DEF Drop
<1>17. ASSUME NEW p \in Borrower, ReturnUnfit(p) PROVE Sized'
  BY <1>17 DEF ReturnUnfit
<1>18. ASSUME NEW p \in Borrower, ReturnIdle(p) PROVE Sized'
  BY <1>18 DEF ReturnIdle
<1>19. ASSUME NEW p \in Borrower, Put(p) PROVE Sized'
  BY <1>19 DEF Put
<1>20. CASE WarmUp
  BY <1>20, FS_EmptySet DEF WarmUp
<1>21. CASE WarmUpCreates
  <2>1. PICK c \in Conn : Free(c) /\ pool' = pool \cup {c}
    BY <1>21 DEF WarmUpCreates
  <2>2. IsFiniteSet(pool') /\ Cardinality(pool') = Cardinality(pool) + 1
    <3>1. IsFiniteSet(pool) /\ c \notin pool
      BY <2>1 DEF Free
    <3>. HIDE DEF Sized, Guarded, Locked, Closing, Typed, TypeOK, Located, At,
           Goto, TakeLock, Thread, Removing, After
    <3>. QED BY <2>1, <3>1, FS_AddElement
  <2>. QED BY <1>21, <2>2, FS_CardinalityType DEF WarmUpCreates
<1>22. CASE WarmUpFails
  <2>1. Cardinality(pool) \in Nat
    BY FS_CardinalityType
  <2>. QED BY <1>22, <2>1 DEF WarmUpFails
<1>23. CASE WarmUpEnds
  BY <1>23 DEF WarmUpEnds
<1>24. CASE CloseBegins
  BY <1>24 DEF CloseBegins
<1>25. CASE CloseLocks
  BY <1>25 DEF CloseLocks
<1>26. CASE CloseOne
  BY <1>26 DEF CloseOne
<1>27. CASE CloseEnds
  <2>1. IsFiniteSet(pool') /\ Cardinality(pool') = 0
    BY <1>27, FS_EmptySet DEF CloseEnds
  <2>. QED BY <1>27, <2>1 DEF CloseEnds
<1>28. CASE Wake
  BY <1>28 DEF Wake
<1>29. CASE ScanLocks
  BY <1>29 DEF ScanLocks
<1>30. CASE Examine
  BY <1>30 DEF Examine
<1>31. CASE ScanEnds
  BY <1>31 DEF ScanEnds
<1>32. CASE Reap
  BY <1>32 DEF Reap
<1>33. CASE ReapEnds
  BY <1>33 DEF ReapEnds
<1>34. ASSUME NEW c \in Conn, ConnectionLost(c) PROVE Sized'
  BY <1>34 DEF ConnectionLost
<1>35. ASSUME NEW c \in Conn, GoesStale(c) PROVE Sized'
  BY <1>35 DEF GoesStale
<1>36. CASE UNCHANGED vars
  BY <1>36 DEF vars
<1>. HIDE DEF Sized, Guarded, Locked, Closing, Typed, TypeOK, Located, At, Goto,
       TakeLock, Thread, Removing, After
<1>. QED
  BY <1>1, <1>2, <1>3, <1>4, <1>5, <1>6, <1>7, <1>8, <1>9, <1>10, <1>11,
     <1>12, <1>13, <1>14, <1>15, <1>16, <1>17, <1>18, <1>19, <1>20, <1>21,
     <1>22, <1>23, <1>24, <1>25, <1>26, <1>27, <1>28, <1>29, <1>30, <1>31,
     <1>32, <1>33, <1>34, <1>35, <1>36
     DEF Next, Call, Remove, Initialize, Close, Validate, AcquireRefused

LEMMA SizedCorrect == Spec => []Sized
<1>1. Init => Sized
  BY PoolAssumption, FS_EmptySet DEF Init, Sized, At, Closing, Thread
<1>2. Safe /\ Safe' /\ Sized /\ [Next]_vars => Sized'
  BY SizedStep DEF Safe
<1>. QED BY <1>1, <1>2, SafeCorrect, PTL DEF Spec

\* No more than max_size connections are open at any moment, although they are
\* opened by several threads and closed after they have left the table.
THEOREM OpenBoundedCorrect == Spec => []OpenBounded
<1>1. ASSUME Safe, Sized PROVE OpenBounded
  <2>. USE <1>1 DEF Safe, Guarded
  <2>0. Cardinality(pool) \in Nat /\ MaxSize \in Nat
    BY FS_CardinalityType, PoolAssumption DEF Sized
  <2>1. CASE \E t \in Thread : Closing(t)
    <3>1. PICK t \in Thread : Closing(t)
      BY <2>1
    <3>2. Open \subseteq pool \cup {hold[t]}
      BY <3>1, PoolAssumption DEF Open, Leakless, Closing, Thread
    <3>3. /\ IsFiniteSet(pool \cup {hold[t]})
          /\ Cardinality(pool \cup {hold[t]}) = Cardinality(pool) + 1
      BY <3>1, FS_AddElement DEF Sized, Popped
    <3>4. Cardinality(Open) <= Cardinality(pool \cup {hold[t]})
      BY <3>2, <3>3, FS_Subset
    <3>5. Cardinality(pool) < MaxSize
      BY <3>1 DEF Sized
    <3>6. Cardinality(Open) \in Nat
      BY <3>2, <3>3, FS_Subset, FS_CardinalityType
    <3>. QED BY <2>0, <3>3, <3>4, <3>5, <3>6 DEF OpenBounded
  <2>2. CASE ~\E t \in Thread : Closing(t)
    <3>1. Open \subseteq pool
      BY <2>2 DEF Open, Leakless
    <3>2. Cardinality(Open) <= Cardinality(pool) /\ Cardinality(Open) \in Nat
      BY <3>1, FS_Subset, FS_CardinalityType DEF Sized
    <3>. QED BY <2>0, <3>2 DEF OpenBounded, Sized
  <2>. QED BY <2>1, <2>2
<1>2. Safe /\ Sized => OpenBounded
  BY <1>1
<1>. QED BY <1>2, SafeCorrect, SizedCorrect, PTL

-----------------------------------------------------------------------------
(* The pool implements ConnectionLending: what each step is to borrowers.  *)

\* The operators that ConnectionLending takes from the libraries are those of this module.
LEMMA LendingOperators ==
  /\ \A S : Lending!Cardinality(S) = Cardinality(S)
  /\ \A f : Lending!Range(f) = Range(f)
<1>1. ASSUME NEW S PROVE Lending!Cardinality(S) = Cardinality(S)
  BY DEF Lending!Cardinality, Cardinality
<1>2. ASSUME NEW f PROVE Lending!Range(f) = Range(f)
  BY DEF Lending!Range, Range
<1>. QED BY <1>1, <1>2

\* A step of the pool, seen by a borrower.
LendStep == [Lending!LendNext]_(Lending!lendVars)

\* Nothing changes hands, opens or closes.
LEMMA LendsNothing ==
  ASSUME \A b \in Borrower : hold'[b] = hold[b], available' = available,
         \A c \in Conn : conn'[c].up = conn[c].up
  PROVE  LendStep
BY DEF LendStep, Lending!lendVars, Open

\* A connection that is down is none of those that are open.
LEMMA ClosesOne ==
  ASSUME Typed, NEW c \in Conn, NEW k, conn' = [conn EXCEPT ![c] = k], k.up = FALSE
  PROVE  Open' = Open \ {c}
BY DEF Open, Typed, TypeOK

LEMMA LendBreaks ==
  ASSUME Typed, NEW c \in Conn, NEW k, conn' = [conn EXCEPT ![c] = k], k.up = FALSE,
         \A b \in Borrower : hold'[b] = hold[b], available' = available
  PROVE  LendStep
<1>1. Open' = Open \ {c}
  BY ClosesOne
<1>2. Lending!Break(c)
  BY <1>1 DEF Lending!Break
<1>. QED BY <1>2 DEF LendStep, Lending!LendNext

\* A borrower lets go of a connection that is closed by then.
LEMMA LendDiscards ==
  ASSUME Typed, NEW p \in Borrower, hold[p] # None, hold' = [hold EXCEPT ![p] = None],
         available' = available, Open' = Open \ {hold[p]}
  PROVE  LendStep
<1>1. Lending!Discard(p)
  BY DEF Lending!Discard, Typed, TypeOK, Thread
<1>. QED BY <1>1 DEF LendStep, Lending!LendNext

\* A connection is opened with the lock held, and there is room for it.
LEMMA OpensWithRoom ==
  ASSUME Typed, Guarded, Sized, NEW t \in Thread, lock = t,
         pc[t] \in {"creating", "warming"}, pc[t] = "warming" => t = Owner /\ left > 0,
         NEW c \in Conn, Free(c), NEW k, k.up = TRUE, conn' = [conn EXCEPT ![c] = k]
  PROVE  Lending!Opens(c)
<1>1. Open \subseteq pool
  BY DEF Guarded, Leakless, Open, Closing, Removing
<1>2. Cardinality(pool) < MaxSize /\ Cardinality(pool) \in Nat
  BY PoolAssumption, FS_CardinalityType DEF Sized, At, Typed, TypeOK
<1>3. Cardinality(Open) < MaxSize
  BY <1>1, <1>2, FS_Subset, FS_CardinalityType, PoolAssumption DEF Sized
<1>4. Open' = Open \cup {c}
  BY DEF Open, Typed, TypeOK
<1>5. c \notin Open \cup Range(available) \cup Range([b \in Borrower |-> hold[b]])
  BY DEF Free, Open, Queued, Range, Thread
<1>. QED BY <1>3, <1>4, <1>5, LendingOperators DEF Lending!Opens

LEMMA LendTake ==
  ASSUME Typed, NEW p \in Borrower, Take(p) PROVE LendStep
<1>1. hold[p] = None /\ hold \in [Thread -> Conn \cup {None}] /\ p \in Thread
  BY DEF Take, At, Typed, TypeOK, Located, Holding, Thread
<1>2. Lending!Lend(p)
  BY <1>1 DEF Take, Lending!Lend, Open, Thread
<1>. QED BY <1>2 DEF LendStep, Lending!LendNext

LEMMA LendCreate ==
  ASSUME Typed, Guarded, Sized, NEW p \in Borrower, Create(p) PROVE LendStep
<1>1. PICK c \in Conn :
        /\ Free(c)
        /\ conn' = [conn EXCEPT ![c] = Used(Connected)]
        /\ hold' = [hold EXCEPT ![p] = c]
  BY DEF Create
<1>2. /\ p \in Thread /\ lock = p /\ pc[p] = "creating" /\ hold[p] = None
      /\ hold \in [Thread -> Conn \cup {None}] /\ available' = available
  BY DEF Create, At, Guarded, Locked, Thread, Typed, TypeOK, Located, Holding
<1>3. Used(Connected).up = TRUE
  BY DEF Used, Connected
<1>4. Lending!Opens(c)
  BY <1>1, <1>2, <1>3, OpensWithRoom
<1>5. Lending!LendNew(p, c)
  BY <1>1, <1>2, <1>4 DEF Lending!LendNew, Thread
<1>. QED BY <1>5 DEF LendStep, Lending!LendNext

LEMMA LendPut ==
  ASSUME Typed, NEW p \in Borrower, Put(p) PROVE LendStep
<1>1. hold[p] # None /\ hold \in [Thread -> Conn \cup {None}] /\ p \in Thread
  BY DEF Put, At, Typed, TypeOK, Located, Holding, Thread
<1>2. Lending!TakeBack(p)
  BY <1>1 DEF Put, Lending!TakeBack, Open, Thread
<1>. QED BY <1>2 DEF LendStep, Lending!LendNext

LEMMA LendDrop ==
  ASSUME Typed, NEW p \in Borrower, Drop(p) PROVE LendStep
<1>1. hold[p] # None /\ hold[p] \in Conn
  BY DEF Drop, At, Typed, TypeOK, Located, Holding, Thread
<1>2. Closed(conn[hold[p]]).up = FALSE
  BY <1>1 DEF Closed, Typed, TypeOK, PooledConnection
<1>3. Open' = Open \ {hold[p]}
  BY <1>1, <1>2, ClosesOne DEF Drop
<1>. QED BY <1>1, <1>3, LendDiscards DEF Drop

\* What a removal does depends on who removes: a borrower lets go of the connection, the
\* validator never had it in hand.
LEMMA LendRemove ==
  ASSUME Typed, Guarded, NEW t \in Borrower \cup {Validator}, Remove(t) PROVE LendStep
<1>0. t \in Thread /\ pc[t] \in Removing /\ hold[t] \in Conn /\ hold[t] # None
  BY PoolAssumption DEF Remove, RemoveNothing, RemovePops, RemoveCloses, Removing, Thread,
     Typed, TypeOK, Located, Holding
<1>1. CASE RemovePops(t)
  BY <1>1, LendsNothing DEF RemovePops
<1>2. CASE RemoveNothing(t)
  <2>1. Open' = Open \ {hold[t]}
    BY <1>2, PoolAssumption DEF RemoveNothing, Open, Guarded, Leakless, Closing, Thread
  <2>2. CASE t \in Borrower
    BY <1>0, <1>2, <2>1, <2>2, LendDiscards DEF RemoveNothing
  <2>3. CASE t = Validator
    <3>1. \A b \in Borrower : hold'[b] = hold[b]
      BY <1>2, <2>3, PoolAssumption DEF RemoveNothing, Typed, TypeOK, Thread
    <3>. QED BY <1>2, <3>1, LendsNothing DEF RemoveNothing
  <2>. QED BY <2>2, <2>3
<1>3. CASE RemoveCloses(t)
  <2>1. Closed(conn[hold[t]]).up = FALSE
    BY <1>0 DEF Closed, Typed, TypeOK, PooledConnection
  <2>2. Open' = Open \ {hold[t]}
    BY <1>0, <1>3, <2>1, ClosesOne DEF RemoveCloses
  <2>3. CASE t \in Borrower
    BY <1>0, <1>3, <2>2, <2>3, LendDiscards DEF RemoveCloses
  <2>4. CASE t = Validator
    <3>1. \A b \in Borrower : hold'[b] = hold[b]
      BY <1>3, <2>4, PoolAssumption DEF RemoveCloses, Typed, TypeOK, Thread
    <3>. QED BY <1>0, <1>3, <2>1, <3>1, LendBreaks DEF RemoveCloses
  <2>. QED BY <2>3, <2>4
<1>. QED BY <1>1, <1>2, <1>3 DEF Remove

LEMMA LendWarmUp ==
  ASSUME Typed, Guarded, Sized, Initialize PROVE LendStep
<1>1. CASE WarmUp \/ WarmUpFails \/ WarmUpEnds
  BY <1>1, LendsNothing DEF WarmUp, WarmUpFails, WarmUpEnds
<1>2. CASE WarmUpCreates
  <2>1. PICK c \in Conn :
          /\ Free(c)
          /\ available' = Append(available, c)
          /\ conn' = [conn EXCEPT ![c] = Connected]
    BY <1>2 DEF WarmUpCreates
  <2>2. Owner \in Thread /\ lock = Owner /\ pc[Owner] = "warming" /\ left > 0 /\ hold' = hold
    BY <1>2 DEF WarmUpCreates, At, Guarded, Locked, Thread
  <2>3. Connected.up = TRUE
    BY DEF Connected
  <2>4. Lending!Opens(c)
    BY <2>1, <2>2, <2>3, OpensWithRoom
  <2>5. Lending!Fill(c)
    BY <2>1, <2>2, <2>4 DEF Lending!Fill
  <2>. QED BY <2>5 DEF LendStep, Lending!LendNext
<1>. QED BY <1>1, <1>2 DEF Initialize

\* When close empties the queue it has closed the table, and nothing else is open.
LEMMA LendClose ==
  ASSUME Typed, Guarded, Close PROVE LendStep
<1>1. CASE CloseLocks
  BY <1>1, LendsNothing DEF CloseLocks
<1>2. CASE CloseOne
  <2>1. PICK c \in visit : conn' = [conn EXCEPT ![c] = Closed(@)]
    BY <1>2 DEF CloseOne
  <2>2. c \in Conn /\ Closed(conn[c]).up = FALSE
    BY DEF Closed, Typed, TypeOK, PooledConnection
  <2>. QED BY <1>2, <2>1, <2>2, LendBreaks DEF CloseOne
<1>3. CASE CloseEnds
  <2>1. Open = {}
    BY <1>3 DEF CloseEnds, Open, Guarded, Leakless, Emptied, Closing, At, Removing
  <2>2. Lending!Drain
    BY <1>3, <2>1 DEF CloseEnds, Lending!Drain, Open
  <2>. QED BY <2>2 DEF LendStep, Lending!LendNext
<1>. QED BY <1>1, <1>2, <1>3 DEF Close

LEMMA LendValidate ==
  ASSUME Typed, Guarded, Validate PROVE LendStep
<1>1. CASE Wake \/ ScanLocks \/ Examine \/ ScanEnds \/ ReapEnds
  BY <1>1, LendsNothing DEF Wake, ScanLocks, Examine, ScanEnds, ReapEnds
<1>2. CASE Reap
  <2>1. \A b \in Borrower : hold'[b] = hold[b]
    BY <1>2, PoolAssumption DEF Reap, Typed, TypeOK, Thread
  <2>. QED BY <1>2, <2>1, LendsNothing DEF Reap
<1>. QED BY <1>1, <1>2, LendRemove DEF Validate

LEMMA LendCall ==
  ASSUME Typed, Guarded, Sized, NEW p \in Borrower, Call(p) PROVE LendStep
<1>1. CASE \/ TakeTimesOut(p) \/ Check(p) \/ FindRoom(p) \/ FindNoRoom(p) \/ Retry(p)
           \/ GiveUp(p) \/ CreateFails(p) \/ ReturnUnfit(p)
  BY <1>1, LendsNothing
     DEF TakeTimesOut, Check, FindRoom, FindNoRoom, Retry, GiveUp, CreateFails, ReturnUnfit
<1>2. CASE MarkUsed(p) \/ ReturnIdle(p) \/ \E u, f \in BOOLEAN : Release(p, u, f)
  <2>1. hold[p] \in Conn /\ conn \in [Conn -> PooledConnection]
    BY <1>2 DEF MarkUsed, ReturnIdle, Release, At, Typed, TypeOK, Located, Holding, Thread
  <2>2. \/ conn' = conn
        \/ conn' = [conn EXCEPT ![hold[p]] = Used(conn[hold[p]])]
        \/ conn' = [conn EXCEPT ![hold[p]] = [conn[hold[p]] EXCEPT !.state = "idle"]]
    BY <1>2, <2>1 DEF MarkUsed, ReturnIdle, Release
  <2>3. /\ Used(conn[hold[p]]).up = conn[hold[p]].up
        /\ [conn[hold[p]] EXCEPT !.state = "idle"].up = conn[hold[p]].up
    BY <2>1 DEF Used, PooledConnection
  <2>4. \A c \in Conn : conn'[c].up = conn[c].up
    BY <2>1, <2>2, <2>3
  <2>5. hold' = hold /\ available' = available
    BY <1>2 DEF MarkUsed, ReturnIdle, Release
  <2>. QED BY <2>4, <2>5, LendsNothing
<1>. QED
  BY <1>1, <1>2, LendTake, LendCreate, LendRemove, LendDrop, LendPut DEF Call

\* The environment: a connection breaks, or nobody has used it for a while.
LEMMA LendWorld ==
  ASSUME Typed, NEW c \in Conn, ConnectionLost(c) \/ GoesStale(c) PROVE LendStep
<1>1. CASE ConnectionLost(c)
  <2>1. conn' = [conn EXCEPT ![c] = [conn[c] EXCEPT !.up = FALSE]]
        /\ [conn[c] EXCEPT !.up = FALSE].up = FALSE
    BY <1>1 DEF ConnectionLost, Typed, TypeOK, PooledConnection
  <2>. QED BY <1>1, <2>1, LendBreaks DEF ConnectionLost
<1>2. CASE GoesStale(c)
  <2>1. \A x \in Conn : conn'[x].up = conn[x].up
    BY <1>2 DEF GoesStale, Typed, TypeOK, PooledConnection
  <2>. QED BY <1>2, <2>1, LendsNothing DEF GoesStale
<1>. QED BY <1>1, <1>2

LEMMA LendNextStep ==
  ASSUME Typed, Guarded, Sized, [Next]_vars PROVE LendStep
<1>1. ASSUME NEW p \in Borrower, Acquire(p) \/ AcquireRefused(p) PROVE LendStep
  BY <1>1, LendsNothing DEF Acquire, AcquireRefused, vars
<1>2. CASE CloseBegins \/ UNCHANGED vars
  BY <1>2, LendsNothing DEF CloseBegins, vars
<1>. QED
  BY <1>1, <1>2, LendCall, LendWarmUp, LendClose, LendValidate, LendWorld DEF Next

\* The pool lends connections as ConnectionLending says, for any number of borrowers and
\* connections and any sizes: the queue is first in, first out; there is room for what is
\* opened, and it is nobody's; what a borrower hands in is back in the queue or closed.
THEOREM LendingImplemented == Spec => ImplementsLending
<1>1. Init => Lending!LendInit
  BY DEF Init, Lending!LendInit, Open, Blank, Thread
<1>2. Safe /\ Sized /\ [Next]_vars => [Lending!LendNext]_(Lending!lendVars)
  BY LendNextStep DEF Safe, LendStep
<1>. QED
  BY <1>1, <1>2, SafeCorrect, SizedCorrect, PTL DEF Spec, ImplementsLending, Lending!LendSpec

\* What a borrower has in hand, as ConnectionLending sees it.
Hands == [b \in Borrower |-> hold[b]]

\* The steps of ConnectionLending are enough to know where each open connection is.
LEMMA ReachStep ==
  ASSUME Typed, Lending!WithinReach, LendStep PROVE Lending!WithinReach'
<1>1. /\ Lending!WithinReach <=> Open \subseteq Range(available) \cup Range(Hands)
      /\ Lending!WithinReach' <=> Open' \subseteq Range(available') \cup Range(Hands')
  BY LendingOperators DEF Lending!WithinReach, Hands
<1>2. available \in Seq(Conn) /\ DOMAIN Hands = Borrower
  BY DEF Typed, TypeOK, Hands
<1>3. ASSUME NEW b \in Borrower, Hands' = [Hands EXCEPT ![b] = None]
      PROVE  Range(Hands) \subseteq Range(Hands') \cup {Hands[b]}
  BY <1>2, <1>3 DEF Range
<1>4. ASSUME NEW b \in Borrower, NEW c, Hands[b] = None, Hands' = [Hands EXCEPT ![b] = c]
      PROVE  Range(Hands) \subseteq Range(Hands') \cup {None} /\ c \in Range(Hands')
  BY <1>2, <1>4 DEF Range
<1>5. None \notin Open
  BY PoolAssumption DEF Open
<1>6. ASSUME NEW b \in Borrower, Lending!Lend(b) PROVE Lending!WithinReach'
  <2>1. /\ Hands[b] = None /\ Hands' = [Hands EXCEPT ![b] = Head(available)]
        /\ available # <<>> /\ available' = Tail(available) /\ Open' = Open
    BY <1>6 DEF Lending!Lend, Hands
  <2>2. Range(available) = Range(available') \cup {Head(available)}
    BY <1>2, <2>1, TailRange
  <2>. QED BY <1>1, <1>4, <1>5, <2>1, <2>2
<1>7. ASSUME NEW b \in Borrower, Lending!TakeBack(b) PROVE Lending!WithinReach'
  <2>1. /\ Hands[b] # None /\ Hands' = [Hands EXCEPT ![b] = None]
        /\ available' = Append(available, Hands[b]) /\ Open' = Open
    BY <1>7 DEF Lending!TakeBack, Hands
  <2>2. Hands[b] \in Conn
    BY <2>1 DEF Hands, Typed, TypeOK, Thread
  <2>3. Range(available') = Range(available) \cup {Hands[b]}
    BY <1>2, <2>1, <2>2, AppendRange
  <2>. QED BY <1>1, <1>3, <2>1, <2>3
<1>8. ASSUME NEW b \in Borrower, Lending!Discard(b) PROVE Lending!WithinReach'
  <2>1. /\ Hands' = [Hands EXCEPT ![b] = None] /\ available' = available
        /\ Open' = Open \ {Hands[b]}
    BY <1>8 DEF Lending!Discard, Hands
  <2>. QED BY <1>1, <1>3, <2>1
<1>9. ASSUME NEW b \in Borrower, NEW c \in Conn, Lending!LendNew(b, c)
      PROVE  Lending!WithinReach'
  <2>1. /\ Hands[b] = None /\ Hands' = [Hands EXCEPT ![b] = c]
        /\ available' = available /\ Open' = Open \cup {c}
    BY <1>9 DEF Lending!LendNew, Lending!Opens, Hands
  <2>. QED BY <1>1, <1>4, <1>5, <2>1
<1>10. ASSUME NEW c \in Conn, Lending!Fill(c) PROVE Lending!WithinReach'
  <2>1. Hands' = Hands /\ available' = Append(available, c) /\ Open' = Open \cup {c}
    BY <1>10 DEF Lending!Fill, Lending!Opens, Hands
  <2>2. Range(available') = Range(available) \cup {c}
    BY <1>2, <2>1, AppendRange
  <2>. QED BY <1>1, <2>1, <2>2
<1>11. ASSUME NEW c \in Conn, Lending!Break(c) PROVE Lending!WithinReach'
  BY <1>1, <1>11 DEF Lending!Break, Hands
<1>12. CASE Lending!Drain
  BY <1>1, <1>12, LendingOperators DEF Lending!Drain, Hands
<1>13. CASE UNCHANGED Lending!lendVars
  BY <1>1, <1>13 DEF Lending!lendVars, Hands
<1>. QED
  BY <1>6, <1>7, <1>8, <1>9, <1>10, <1>11, <1>12, <1>13 DEF LendStep, Lending!LendNext

\* Inherited from ConnectionLending: no open connection is out of reach, not even while the
\* validator or close work on it; it is in the queue, or a borrower has it.
THEOREM NothingOutOfReach == Spec => []Lending!WithinReach
<1>1. Init => Lending!WithinReach
  BY DEF Init, Lending!WithinReach, Open, Blank
<1>2. Safe /\ Sized /\ Lending!WithinReach /\ [Next]_vars => Lending!WithinReach'
  BY LendNextStep, ReachStep DEF Safe
<1>. QED BY <1>1, <1>2, SafeCorrect, SizedCorrect, PTL DEF Spec
=============================================================================
