------------------------- MODULE SessionManagerProofs -------------------------
(***************************************************************************)
(* Proofs about SessionManager, for any number of calls, objects, ids and  *)
(* configs, any limits and any values of reuse and auto_reconnect.         *)
(***************************************************************************)
EXTENDS SessionManager, TLAPS

-----------------------------------------------------------------------------
(* Facts about the lock.                                                   *)

LEMMA AcquireType ==
  ASSUME NEW S, NEW q \in Seq(S), NEW p \in S
  PROVE  Acquire(q, p) \in Seq(S)
BY DEF Acquire

LEMMA UnlockedType ==
  ASSUME NEW S PROVE Unlocked \in Seq(S)
BY DEF Unlocked

LEMMA ReleaseType ==
  ASSUME NEW S, NEW q \in Seq(S), NEW p, Holds(q, p)
  PROVE  Release(q) \in Seq(S)
BY DEF Holds, Release

\* A holder stays the holder when somebody else queues up.
LEMMA AcquireKeepsHolder ==
  ASSUME NEW S, NEW q \in Seq(S), NEW p \in S, NEW h, Holds(q, h)
  PROVE  Holds(Acquire(q, p), h)
BY DEF Holds, Acquire

LEMMA AcquireUnlocked ==
  ASSUME NEW S, NEW p \in S
  PROVE  Holds(Acquire(Unlocked, p), p)
BY DEF Holds, Acquire, Unlocked

LEMMA OneHolder ==
  ASSUME NEW q, NEW p, NEW r, Holds(q, p), Holds(q, r)
  PROVE  p = r
BY DEF Holds

-----------------------------------------------------------------------------
(* Types.                                                                  *)

LEMMA AtRestType == AtRest \in TaskState
BY DEF AtRest, TaskState, Places, Ops

LEMMA NewSessionType ==
  ASSUME NEW c \in Conf PROVE NewSession(c) \in Session
BY DEF NewSession, Session, State

LEMMA MoveToType ==
  ASSUME TypeOK, NEW p \in Proc, NEW t \in TaskState, MoveTo(p, t)
  PROVE  task' \in [Proc -> TaskState]
BY DEF TypeOK, MoveTo

LEMMA LeaveType ==
  ASSUME TypeOK, NEW p \in Proc, Holds(mgr, p), Leave(p)
  PROVE  mgr' \in Seq(Proc) /\ task' \in [Proc -> TaskState]
BY AtRestType, MoveToType, ReleaseType DEF TypeOK, Leave

LEMMA ProbedType ==
  ASSUME TypeOK, NEW S PROVE Probed(S) \in [Obj -> Session]
BY DEF TypeOK, Probed, Session, State

LEMMA BecomesType ==
  ASSUME TypeOK, NEW o \in Obj, NEW r \in Session, Becomes(o, r)
  PROVE  ses' \in [Obj -> Session]
BY DEF TypeOK, Becomes

\* A coroutine that works on a session object has one, and knows its id.
Located ==
  \A p \in Proc :
    /\ task[p].at \in {"disconnect", "closing", "closed", "holding", "locking",
                       "command", "transfer"} => task[p].cur \in Obj
    /\ task[p].at \in {"connecting", "disconnect", "closing", "closed"} =>
         task[p].sid \in Sid
    /\ task[p].at = "connecting" => task[p].fresh \in Obj

Typed == TypeOK /\ Located

\* The sessions of entries are objects.
LEMMA EntryType ==
  ASSUME TypeOK, NEW s \in Sid, sessions[s] # None PROVE sessions[s] \in Obj
BY DEF TypeOK

\* What a step has to show when coroutine p moves to t.
LEMMA LocatedStep ==
  ASSUME TypeOK, Located, NEW p \in Proc, NEW t \in TaskState, MoveTo(p, t),
         t.at \in {"disconnect", "closing", "closed", "holding", "locking",
                   "command", "transfer"} => t.cur \in Obj,
         t.at \in {"connecting", "disconnect", "closing", "closed"} => t.sid \in Sid,
         t.at = "connecting" => t.fresh \in Obj
  PROVE  Located'
<1> SUFFICES ASSUME NEW q \in Proc PROVE
    /\ task'[q].at \in {"disconnect", "closing", "closed", "holding", "locking",
                       "command", "transfer"} => task'[q].cur \in Obj
    /\ task'[q].at \in {"connecting", "disconnect", "closing", "closed"} =>
         task'[q].sid \in Sid
    /\ task'[q].at = "connecting" => task'[q].fresh \in Obj
  BY DEF Located
<1>1. task'[q] = IF q = p THEN t ELSE task[q]
  BY DEF TypeOK, MoveTo
<1>. QED BY <1>1 DEF Located

LEMMA LocatedAtRest ==
  ASSUME TypeOK, Located, NEW p \in Proc, MoveTo(p, AtRest) PROVE Located'
BY AtRestType, LocatedStep DEF AtRest

LEMMA TypedLeave ==
  ASSUME Typed, NEW p \in Proc, Holds(mgr, p), Leave(p),
         sessions' \in [Sid -> Obj \cup {None}],
         lock' \in [Obj -> Seq(Proc)], ses' \in [Obj -> Session]
  PROVE  Typed'
<1>1. MoveTo(p, AtRest) BY DEF Leave
<1>2. Located' BY <1>1, LocatedAtRest DEF Typed
<1>. QED BY <1>2, LeaveType DEF Typed, TypeOK

LEMMA TypedStartConnect ==
  ASSUME Typed, NEW p \in Proc, NEW op \in Ops, NEW o \in Obj, NEW c \in Conf,
         NEW s \in Sid, NEW sesNow \in [Obj -> Session],
         StartConnect(p, op, o, c, s, sesNow), UNCHANGED <<mgr, sessions>>
  PROVE  Typed'
<1> DEFINE t == [task[p] EXCEPT !.at = "connecting", !.op = op, !.fresh = o, !.sid = s]
<1>1. t \in TaskState
  BY DEF Typed, TypeOK, TaskState, Places
<1>2. MoveTo(p, t)
  BY DEF StartConnect
<1>3. t.at = "connecting" /\ t.fresh = o /\ t.sid = s
  BY DEF Typed, TypeOK, TaskState
<1>4. Located'
  BY <1>1, <1>2, <1>3, LocatedStep DEF Typed
<1>5. task' \in [Proc -> TaskState]
  BY <1>1, <1>2, MoveToType DEF Typed
<1>6. ses' \in [Obj -> Session]
  BY NewSessionType DEF StartConnect, Session, State
<1>7. lock' \in [Obj -> Seq(Proc)]
  BY AcquireType, UnlockedType DEF StartConnect, Typed, TypeOK
<1>. QED BY <1>4, <1>5, <1>6, <1>7 DEF Typed, TypeOK

LEMMA TypedCallDisconnect ==
  ASSUME Typed, NEW p \in Proc, NEW op \in Ops \cup {None}, NEW s \in Sid, NEW o \in Obj,
         NEW todo \in SUBSET Sid, CallDisconnect(p, op, s, o, todo),
         UNCHANGED mgr, sessions' \in [Sid -> Obj \cup {None}], ses' \in [Obj -> Session]
  PROVE  Typed'
<1> DEFINE t == [task[p] EXCEPT !.at = "disconnect", !.op = op, !.sid = s,
                               !.cur = o, !.todo = todo]
<1>1. t \in TaskState
  BY DEF Typed, TypeOK, TaskState, Places
<1>2. MoveTo(p, t)
  BY DEF CallDisconnect
<1>3. t.at = "disconnect" /\ t.cur = o /\ t.sid = s
  BY DEF Typed, TypeOK, TaskState
<1>4. Located'
  BY <1>1, <1>2, <1>3, LocatedStep DEF Typed
<1>5. task' \in [Proc -> TaskState]
  BY <1>1, <1>2, MoveToType DEF Typed
<1>6. lock' \in [Obj -> Seq(Proc)]
  BY AcquireType DEF CallDisconnect, Typed, TypeOK
<1>. QED BY <1>4, <1>5, <1>6 DEF Typed, TypeOK

LEMMA TypedCreate ==
  ASSUME Typed, NEW p \in Proc, Create(p) PROVE Typed'
<1> PICK c \in Conf : CreateReuses(p, c) \/ CreateRefused(p, c) \/ CreateConnects(p, c)
  BY DEF Create
<1>1. CASE CreateReuses(p, c)
  <2>1. ses' \in [Obj -> Session]
    BY <1>1, ProbedType DEF CreateReuses, Typed
  <2>. QED BY <1>1, <2>1, TypedLeave DEF CreateReuses, Enters, Typed, TypeOK
<1>2. CASE CreateRefused(p, c)
  <2>1. ses' \in [Obj -> Session]
    BY <1>2, ProbedType DEF CreateRefused, Typed
  <2>. QED BY <1>2, <2>1, TypedLeave DEF CreateRefused, Enters, Typed, TypeOK
<1>3. CASE CreateConnects(p, c)
  <2> DEFINE now == Probed({sessions[x] : x \in Entries})
  <2>1. now \in [Obj -> Session]
    BY ProbedType DEF Typed
  <2>2. PICK o \in Obj, s \in Sid : StartConnect(p, "create", o, c, s, now)
    BY <1>3 DEF CreateConnects
  <2>3. UNCHANGED <<mgr, sessions>>
    BY <1>3 DEF CreateConnects
  <2> HIDE DEF now
  <2>. QED BY <2>1, <2>2, <2>3, TypedStartConnect DEF Ops
<1>. QED BY <1>1, <1>2, <1>3

LEMMA TypedGet ==
  ASSUME Typed, NEW p \in Proc, Get(p) PROVE Typed'
<1>1. ASSUME NEW s \in Sid, GetMissing(p, s) PROVE Typed'
  BY <1>1, TypedLeave DEF GetMissing, Enters, Typed, TypeOK
<1>2. ASSUME NEW s \in Sid, GetLive(p, s) PROVE Typed'
  <2> DEFINE t == [AtRest EXCEPT !.at = "holding", !.op = "use", !.cur = sessions[s]]
  <2>1. sessions[s] \in Obj
    BY <1>2, EntryType DEF GetLive, Typed
  <2>2. t \in TaskState /\ t.at = "holding" /\ t.cur = sessions[s]
    BY <2>1 DEF AtRest, TaskState, Places, Ops
  <2>3. MoveTo(p, t) /\ Holds(mgr, p) /\ mgr' = Release(mgr) /\ UNCHANGED <<sessions, lock, ses>>
    BY <1>2 DEF GetLive, Enters
  <2> HIDE DEF t
  <2>4. Located' /\ task' \in [Proc -> TaskState]
    BY <2>1, <2>2, <2>3, LocatedStep, MoveToType DEF Typed
  <2>. QED BY <2>3, <2>4, ReleaseType DEF Typed, TypeOK
<1>3. ASSUME NEW s \in Sid, GetDead(p, s) PROVE Typed'
  <2>1. sessions[s] \in Obj
    BY <1>3, EntryType DEF GetDead, Typed
  <2>2. PICK op \in Ops : CallDisconnect(p, op, s, sessions[s], {})
    BY <1>3 DEF GetDead, Ops
  <2>3. ses' \in [Obj -> Session]
    BY <1>3, ProbedType DEF GetDead, Typed
  <2>4. UNCHANGED <<mgr, sessions>> /\ {} \in SUBSET Sid
    BY <1>3 DEF GetDead
  <2>5. sessions' \in [Sid -> Obj \cup {None}]
    BY <2>4 DEF Typed, TypeOK
  <2>. QED BY <2>1, <2>2, <2>3, <2>4, <2>5, TypedCallDisconnect
<1>4. CASE GetDiscards(p)
  BY <1>4, TypedLeave DEF GetDiscards, InManager, Typed, TypeOK
<1>5. CASE Rebuild(p)
  <2>1. PICK o \in Obj : StartConnect(p, "use", o, ses[task[p].cur].conf, task[p].sid, ses)
    BY <1>5 DEF Rebuild
  <2>2. task[p].cur \in Obj /\ task[p].sid \in Sid
    BY <1>5 DEF Rebuild, InManager, At, Typed, Located
  <2>3. ses[task[p].cur].conf \in Conf /\ ses \in [Obj -> Session]
    BY <2>2 DEF Typed, TypeOK, Session
  <2>4. UNCHANGED <<mgr, sessions>>
    BY <1>5 DEF Rebuild
  <2>. QED BY <2>1, <2>2, <2>3, <2>4, TypedStartConnect DEF Ops
<1>6. CASE RebuildNoRoom(p)
  <2>1. task[p].cur \in Obj
    BY <1>6 DEF RebuildNoRoom, InManager, At, Typed, Located
  <2>. QED BY <1>6, <2>1, TypedLeave DEF RebuildNoRoom, InManager, Typed, TypeOK
<1>. QED BY <1>1, <1>2, <1>3, <1>4, <1>5, <1>6 DEF Get

LEMMA TypedConnect ==
  ASSUME Typed, NEW p \in Proc, Connect(p) PROVE Typed'
<1> DEFINE o == task[p].fresh
<1>1. CASE ConnectSucceeds(p)
  <2> DEFINE t == IF task[p].op = "create" THEN AtRest
                  ELSE [AtRest EXCEPT !.at = "holding", !.op = "use", !.cur = o]
  <2>1. o \in Obj /\ Holds(lock[o], p)
    BY <1>1 DEF ConnectSucceeds, At, Typed, Located
  <2>2. t \in TaskState /\ t.at \in {"idle", "holding"} /\ (t.at = "holding" => t.cur \in Obj)
    BY <2>1 DEF AtRest, TaskState, Places, Ops
  <2>3. MoveTo(p, t) /\ Holds(mgr, p) /\ mgr' = Release(mgr)
    BY <1>1 DEF ConnectSucceeds
  <2> HIDE DEF t
  <2>4. Located' /\ task' \in [Proc -> TaskState]
    BY <2>2, <2>3, LocatedStep, MoveToType DEF Typed
  <2>5. ses' \in [Obj -> Session]
    <3> DEFINE r == [ses[o] EXCEPT !.state = "connected", !.client = "up",
                                   !.watched = TRUE]
    <3>1. r \in Session
      BY <2>1 DEF Typed, TypeOK, Session, State
    <3>2. Becomes(o, r)
      BY <1>1 DEF ConnectSucceeds
    <3>. QED BY <2>1, <3>1, <3>2, BecomesType DEF Typed
  <2>6. lock' \in [Obj -> Seq(Proc)]
    BY <1>1, <2>1, ReleaseType DEF ConnectSucceeds, Typed, TypeOK
  <2>7. sessions' \in [Sid -> Obj \cup {None}]
    BY <1>1, <2>1 DEF ConnectSucceeds, Typed, TypeOK
  <2>. QED BY <2>3, <2>4, <2>5, <2>6, <2>7, ReleaseType DEF Typed, TypeOK
<1>2. CASE ConnectFails(p)
  <2>1. o \in Obj /\ Holds(lock[o], p) /\ Holds(mgr, p)
    BY <1>2 DEF ConnectFails, At, Typed, Located
  <2>2. ses' \in [Obj -> Session]
    <3>1. PICK c \in {"down", "up"} :
            Becomes(o, [ses[o] EXCEPT !.state = "error", !.client = c])
      BY <1>2 DEF ConnectFails
    <3>2. [ses[o] EXCEPT !.state = "error", !.client = c] \in Session
      BY <2>1 DEF Typed, TypeOK, Session, State
    <3>. QED BY <2>1, <3>1, <3>2, BecomesType DEF Typed
  <2>3. lock' \in [Obj -> Seq(Proc)]
    BY <1>2, <2>1, ReleaseType DEF ConnectFails, Typed, TypeOK
  <2>4. sessions' \in [Sid -> Obj \cup {None}]
    BY <1>2 DEF ConnectFails, Typed, TypeOK, TaskState
  <2>. QED BY <1>2, <2>1, <2>2, <2>3, <2>4, TypedLeave DEF ConnectFails
<1>. QED BY <1>1, <1>2 DEF Connect

LEMMA TypedDisconnect ==
  ASSUME Typed, NEW p \in Proc, Disconnect(p) PROVE Typed'
<1> DEFINE o == task[p].cur
<1>1. CASE DisconnectCloses(p)
  <2> DEFINE t == [task[p] EXCEPT !.at = "closing"]
  <2>1. o \in Obj /\ task[p].sid \in Sid
    BY <1>1 DEF DisconnectCloses, At, Typed, Located
  <2>2. t \in TaskState /\ t.at = "closing" /\ t.cur = o /\ t.sid = task[p].sid
    BY DEF Typed, TypeOK, TaskState, Places
  <2>3. MoveTo(p, t)
    BY <1>1 DEF DisconnectCloses
  <2>4. Located' /\ task' \in [Proc -> TaskState]
    BY <2>1, <2>2, <2>3, LocatedStep, MoveToType DEF Typed
  <2>5. ses' \in [Obj -> Session]
    <3>1. [ses[o] EXCEPT !.watched = FALSE] \in Session
      BY <2>1 DEF Typed, TypeOK, Session
    <3>. QED BY <1>1, <2>1, <3>1, BecomesType DEF DisconnectCloses, Typed
  <2>. QED BY <1>1, <2>4, <2>5 DEF DisconnectCloses, Typed, TypeOK
<1>2. CASE DisconnectEnds(p)
  <2> DEFINE t == [task[p] EXCEPT !.at = "closed"]
  <2>1. o \in Obj /\ task[p].sid \in Sid /\ Holds(lock[o], p)
    BY <1>2 DEF DisconnectEnds, At, Typed, Located
  <2>2. t \in TaskState /\ t.at = "closed" /\ t.cur = o /\ t.sid = task[p].sid
    BY DEF Typed, TypeOK, TaskState, Places
  <2>3. MoveTo(p, t)
    BY <1>2 DEF DisconnectEnds
  <2>4. Located' /\ task' \in [Proc -> TaskState]
    BY <2>1, <2>2, <2>3, LocatedStep, MoveToType DEF Typed
  <2>5. ses' \in [Obj -> Session]
    <3> DEFINE r == [ses[o] EXCEPT !.watched = FALSE, !.client = "none",
                                   !.state = "disconnected"]
    <3>1. r \in Session
      BY <2>1 DEF Typed, TypeOK, Session, State
    <3>2. Becomes(o, r)
      BY <1>2 DEF DisconnectEnds
    <3>. QED BY <2>1, <3>1, <3>2, BecomesType DEF Typed
  <2>6. lock' \in [Obj -> Seq(Proc)]
    BY <1>2, <2>1, ReleaseType DEF DisconnectEnds, Typed, TypeOK
  <2>. QED BY <1>2, <2>4, <2>5, <2>6 DEF DisconnectEnds, Typed, TypeOK
<1>. QED BY <1>1, <1>2 DEF Disconnect

LEMMA TypedClose ==
  ASSUME Typed, NEW p \in Proc, Close(p) PROVE Typed'
<1>1. ASSUME NEW s \in Sid, CloseMissing(p, s) PROVE Typed'
  BY <1>1, TypedLeave DEF CloseMissing, Enters, Typed, TypeOK
<1>2. ASSUME NEW s \in Sid, ClosePops(p, s) PROVE Typed'
  <2>1. sessions[s] \in Obj
    BY <1>2, EntryType DEF ClosePops, Typed
  <2>2. sessions' \in [Sid -> Obj \cup {None}]
    BY <1>2 DEF ClosePops, Typed, TypeOK
  <2>. QED BY <1>2, <2>1, <2>2, TypedCallDisconnect DEF ClosePops, Ops, Typed, TypeOK
<1>3. CASE CloseReturns(p)
  BY <1>3, TypedLeave DEF CloseReturns, InManager, Typed, TypeOK
<1>. QED BY <1>1, <1>2, <1>3 DEF Close

-----------------------------------------------------------------------------
(* The manager lock.                                                       *)

\* What a coroutine awaits between entering and leaving the manager lock.
Managed == {"connecting", "disconnect", "closing", "closed", "sweep"}

\* It holds the lock all along, and the ids a sweep has still to close are
\* entries, other than the one it is closing.
ManagerHeld ==
  \A p \in Proc :
    /\ task[p].at \in Managed => Holds(mgr, p)
    /\ task[p].todo # {} => /\ task[p].at \in Managed
                            /\ task[p].todo \subseteq Entries \ {task[p].sid}

\* The steps of a coroutine as the manager lock sees them: it keeps what it has
\* got, or it leaves; and it changes the directory only while it holds the lock.
ManagerStep(p, t) ==
  /\ MoveTo(p, t)
  /\ \/ mgr' = mgr /\ (t.at \in Managed => Holds(mgr, p))
     \/ mgr' = Release(mgr) /\ Holds(mgr, p) /\ t.at \notin Managed
     \/ mgr' = Acquire(mgr, p) /\ t.at \notin Managed
  /\ sessions' = sessions \/ Holds(mgr, p)
  /\ t.todo # {} => t.at \in Managed /\ t.todo \subseteq Entries' \ {t.sid}

LEMMA ManagerHeldStep ==
  ASSUME Typed, ManagerHeld, NEW p \in Proc, NEW t \in TaskState, ManagerStep(p, t)
  PROVE  ManagerHeld'
<1> SUFFICES ASSUME NEW q \in Proc PROVE
      /\ task'[q].at \in Managed => Holds(mgr', q)
      /\ task'[q].todo # {} => /\ task'[q].at \in Managed
                               /\ task'[q].todo \subseteq Entries' \ {task'[q].sid}
  BY DEF ManagerHeld, Holds
<1>1. task'[q] = IF q = p THEN t ELSE task[q]
  BY DEF Typed, TypeOK, ManagerStep, MoveTo
<1>2. CASE q = p
  BY <1>1, <1>2 DEF ManagerStep
<1>3. CASE q # p
  <2>1. Holds(mgr, q) => Holds(mgr', q)
    BY <1>3, AcquireKeepsHolder, OneHolder DEF ManagerStep, Typed, TypeOK
  <2>2. Holds(mgr, q) => Entries' = Entries
    BY <1>3, OneHolder DEF ManagerStep, Entries
  <2>. QED BY <1>1, <1>3, <2>1, <2>2 DEF ManagerHeld
<1>. QED BY <1>2, <1>3

LEMMA ManagedLeave ==
  ASSUME Typed, ManagerHeld, NEW p \in Proc, Holds(mgr, p), Leave(p)
  PROVE  ManagerHeld'
<1>1. ManagerStep(p, AtRest)
  BY DEF ManagerStep, Leave, AtRest, Managed
<1>. QED BY <1>1, AtRestType, ManagerHeldStep

LEMMA ManagedStartConnect ==
  ASSUME Typed, ManagerHeld, NEW p \in Proc, Holds(mgr, p), NEW op \in Ops,
         NEW o \in Obj, NEW c, NEW s \in Sid, NEW sesNow,
         StartConnect(p, op, o, c, s, sesNow), UNCHANGED <<mgr, sessions>>,
         s \notin task[p].todo
  PROVE  ManagerHeld'
<1> DEFINE t == [task[p] EXCEPT !.at = "connecting", !.op = op, !.fresh = o, !.sid = s]
<1>1. t \in TaskState
  BY DEF Typed, TypeOK, TaskState, Places
<1>2. t.at = "connecting" /\ t.todo = task[p].todo /\ t.sid = s
  BY DEF Typed, TypeOK, TaskState
<1>3. task[p].todo \subseteq Entries
  BY DEF ManagerHeld
<1>4. ManagerStep(p, t)
  BY <1>2, <1>3 DEF ManagerStep, StartConnect, Managed, Entries
<1>. QED BY <1>1, <1>4, ManagerHeldStep

LEMMA ManagedCallDisconnect ==
  ASSUME Typed, ManagerHeld, NEW p \in Proc, Holds(mgr, p), NEW op \in Ops \cup {None},
         NEW s \in Sid, NEW o \in Obj, NEW todo \in SUBSET Sid,
         CallDisconnect(p, op, s, o, todo), UNCHANGED mgr,
         todo \subseteq Entries' \ {s}
  PROVE  ManagerHeld'
<1> DEFINE t == [task[p] EXCEPT !.at = "disconnect", !.op = op, !.sid = s,
                               !.cur = o, !.todo = todo]
<1>1. t \in TaskState
  BY DEF Typed, TypeOK, TaskState, Places
<1>2. t.at = "disconnect" /\ t.todo = todo /\ t.sid = s
  BY DEF Typed, TypeOK, TaskState
<1>3. ManagerStep(p, t)
  BY <1>2 DEF ManagerStep, CallDisconnect, Managed
<1>. QED BY <1>1, <1>3, ManagerHeldStep

LEMMA ManagedCreate ==
  ASSUME Typed, ManagerHeld, NEW p \in Proc, Create(p) PROVE ManagerHeld'
<1> PICK c \in Conf : CreateReuses(p, c) \/ CreateRefused(p, c) \/ CreateConnects(p, c)
  BY DEF Create
<1>1. CASE CreateReuses(p, c)
  BY <1>1, ManagedLeave DEF CreateReuses, Enters
<1>2. CASE CreateRefused(p, c)
  BY <1>2, ManagedLeave DEF CreateRefused, Enters
<1>3. CASE CreateConnects(p, c)
  <2> DEFINE now == Probed({sessions[x] : x \in Entries})
  <2>1. PICK o \in Obj, s \in Sid : StartConnect(p, "create", o, c, s, now)
    BY <1>3 DEF CreateConnects
  <2>2. UNCHANGED <<mgr, sessions>> /\ Holds(mgr, p) /\ "create" \in Ops
    BY <1>3 DEF CreateConnects, Enters, Ops
  <2>3. task[p].todo = {}
    BY <1>3 DEF CreateConnects, Enters, At, ManagerHeld, Managed
  <2> HIDE DEF now
  <2>. QED BY <2>1, <2>2, <2>3, ManagedStartConnect
<1>. QED BY <1>1, <1>2, <1>3

LEMMA ManagedGet ==
  ASSUME Typed, ManagerHeld, NEW p \in Proc, Get(p) PROVE ManagerHeld'
<1>1. ASSUME NEW s \in Sid, GetMissing(p, s) PROVE ManagerHeld'
  BY <1>1, ManagedLeave DEF GetMissing, Enters
<1>2. ASSUME NEW s \in Sid, GetLive(p, s) PROVE ManagerHeld'
  <2> DEFINE t == [AtRest EXCEPT !.at = "holding", !.op = "use", !.cur = sessions[s]]
  <2>1. sessions[s] \in Obj
    BY <1>2, EntryType DEF GetLive, Typed
  <2>2. t \in TaskState /\ t.at = "holding" /\ t.todo = {}
    BY <2>1 DEF AtRest, TaskState, Places, Ops
  <2>3. MoveTo(p, t) /\ Holds(mgr, p) /\ mgr' = Release(mgr)
    BY <1>2 DEF GetLive, Enters
  <2> HIDE DEF t
  <2>4. ManagerStep(p, t)
    BY <2>2, <2>3 DEF ManagerStep, Managed
  <2>. QED BY <2>2, <2>4, ManagerHeldStep
<1>3. ASSUME NEW s \in Sid, GetDead(p, s) PROVE ManagerHeld'
  <2>1. sessions[s] \in Obj
    BY <1>3, EntryType DEF GetDead, Typed
  <2>2. PICK op \in Ops : CallDisconnect(p, op, s, sessions[s], {})
    BY <1>3 DEF GetDead, Ops
  <2>3. UNCHANGED mgr /\ Holds(mgr, p) /\ {} \in SUBSET Sid /\ {} \subseteq Entries' \ {s}
    BY <1>3 DEF GetDead, Enters
  <2>. QED BY <2>1, <2>2, <2>3, ManagedCallDisconnect
<1>4. CASE GetDiscards(p)
  BY <1>4, ManagedLeave DEF GetDiscards, InManager
<1>5. CASE Rebuild(p)
  <2>1. PICK o \in Obj : StartConnect(p, "use", o, ses[task[p].cur].conf, task[p].sid, ses)
    BY <1>5 DEF Rebuild
  <2>2. task[p].sid \in Sid /\ Holds(mgr, p) /\ task[p].sid \notin task[p].todo
    BY <1>5 DEF Rebuild, InManager, At, Typed, Located, ManagerHeld
  <2>3. UNCHANGED <<mgr, sessions>> /\ "use" \in Ops
    BY <1>5 DEF Rebuild, Ops
  <2>. QED BY <2>1, <2>2, <2>3, ManagedStartConnect
<1>6. CASE RebuildNoRoom(p)
  BY <1>6, ManagedLeave DEF RebuildNoRoom, InManager
<1>. QED BY <1>1, <1>2, <1>3, <1>4, <1>5, <1>6 DEF Get

LEMMA ManagedConnect ==
  ASSUME Typed, ManagerHeld, NEW p \in Proc, Connect(p) PROVE ManagerHeld'
<1> DEFINE o == task[p].fresh
<1>1. CASE ConnectSucceeds(p)
  <2> DEFINE t == IF task[p].op = "create" THEN AtRest
                  ELSE [AtRest EXCEPT !.at = "holding", !.op = "use", !.cur = o]
  <2>1. o \in Obj
    BY <1>1 DEF ConnectSucceeds, At, Typed, Located
  <2>2. t \in TaskState /\ t.at \in {"idle", "holding"} /\ t.todo = {}
    BY <2>1 DEF AtRest, TaskState, Places, Ops
  <2>3. MoveTo(p, t) /\ Holds(mgr, p) /\ mgr' = Release(mgr)
    BY <1>1 DEF ConnectSucceeds
  <2> HIDE DEF t
  <2>4. ManagerStep(p, t)
    BY <2>2, <2>3 DEF ManagerStep, Managed
  <2>. QED BY <2>2, <2>4, ManagerHeldStep
<1>2. CASE ConnectFails(p)
  BY <1>2, ManagedLeave DEF ConnectFails
<1>. QED BY <1>1, <1>2 DEF Connect

LEMMA ManagedDisconnect ==
  ASSUME Typed, ManagerHeld, NEW p \in Proc, Disconnect(p) PROVE ManagerHeld'
<1>1. PICK place \in {"closing", "closed"} :
        MoveTo(p, [task[p] EXCEPT !.at = place]) /\ UNCHANGED <<mgr, sessions>>
  BY DEF Disconnect, DisconnectCloses, DisconnectEnds
<1> DEFINE t == [task[p] EXCEPT !.at = place]
<1>2. t \in TaskState /\ t.at = place /\ t.todo = task[p].todo /\ t.sid = task[p].sid
  BY DEF Typed, TypeOK, TaskState, Places
<1>3. task[p].at \in Managed
  BY DEF Disconnect, DisconnectCloses, DisconnectEnds, At, Managed
<1>4. ManagerStep(p, t)
  BY <1>1, <1>2, <1>3 DEF ManagerStep, ManagerHeld, Managed, Entries
<1>. QED BY <1>2, <1>4, ManagerHeldStep

LEMMA ManagedClose ==
  ASSUME Typed, ManagerHeld, NEW p \in Proc, Close(p) PROVE ManagerHeld'
<1>1. ASSUME NEW s \in Sid, CloseMissing(p, s) PROVE ManagerHeld'
  BY <1>1, ManagedLeave DEF CloseMissing, Enters
<1>2. ASSUME NEW s \in Sid, ClosePops(p, s) PROVE ManagerHeld'
  <2>1. sessions[s] \in Obj /\ "close" \in Ops
    BY <1>2, EntryType DEF ClosePops, Typed, Ops
  <2>2. UNCHANGED mgr /\ Holds(mgr, p) /\ {} \in SUBSET Sid /\ {} \subseteq Entries' \ {s}
    BY <1>2 DEF ClosePops, Enters
  <2>. QED BY <1>2, <2>1, <2>2, ManagedCallDisconnect DEF ClosePops
<1>3. CASE CloseReturns(p)
  BY <1>3, ManagedLeave DEF CloseReturns, InManager
<1>. QED BY <1>1, <1>2, <1>3 DEF Close

LEMMA SweepStep ==
  ASSUME Typed, ManagerHeld, NEW p \in Proc, Sweep(p) PROVE Typed' /\ ManagerHeld'
<1>1. ASSUME NEW op \in {"close_all", "cleanup"}, SweepCollects(p, op)
      PROVE  Typed' /\ ManagerHeld'
  <2> DEFINE todo == {s \in Entries : op = "cleanup" => ses[sessions[s]].idle}
             t == [AtRest EXCEPT !.at = "sweep", !.op = op, !.todo = todo]
  <2>1. MoveTo(p, t) /\ Holds(mgr, p) /\ UNCHANGED <<mgr, sessions, lock, ses>>
    BY <1>1 DEF SweepCollects, Enters
  <2>2. todo \in SUBSET Sid /\ todo \subseteq Entries
    BY DEF Entries
  <2> HIDE DEF todo
  <2>3. t \in TaskState /\ t.at = "sweep" /\ t.todo = todo /\ t.sid = None
    BY <2>2 DEF AtRest, TaskState, Places, Ops
  <2>4. Typed'
    BY <2>1, <2>3, LocatedStep, MoveToType DEF Typed, TypeOK
  <2>5. ManagerStep(p, t)
    BY <2>1, <2>2, <2>3, ConstantsAssumption DEF ManagerStep, Managed, Entries
  <2>. QED BY <2>3, <2>4, <2>5, ManagerHeldStep
<1>2. CASE SweepCloses(p)
  <2>1. PICK s \in task[p].todo :
          CallDisconnect(p, task[p].op, s, sessions[s], task[p].todo \ {s})
    BY <1>2 DEF SweepCloses
  <2> DEFINE op == task[p].op
             o == sessions[s]
             rest == task[p].todo \ {s}
  <2>2. s \in Sid /\ o \in Obj
    BY <2>1, EntryType DEF Typed, ManagerHeld, Entries
  <2>3. UNCHANGED <<mgr, sessions, ses>> /\ Holds(mgr, p)
    BY <1>2 DEF SweepCloses
  <2>4. rest \in SUBSET Sid /\ rest \subseteq Entries' \ {s}
    BY <2>3 DEF Typed, TypeOK, TaskState, ManagerHeld, Entries
  <2>5. op \in Ops \cup {None}
    BY DEF Typed, TypeOK, TaskState
  <2>6. sessions' \in [Sid -> Obj \cup {None}] /\ ses' \in [Obj -> Session]
    BY <2>3 DEF Typed, TypeOK
  <2>7. CallDisconnect(p, op, s, o, rest)
    BY <2>1
  <2> HIDE DEF op, o, rest
  <2>8. Typed'
    BY <2>2, <2>3, <2>4, <2>5, <2>6, <2>7, TypedCallDisconnect
  <2>9. ManagerHeld'
    BY <2>2, <2>3, <2>4, <2>5, <2>7, ManagedCallDisconnect
  <2>. QED BY <2>8, <2>9
<1>3. CASE SweepContinues(p)
  <2> DEFINE t == [task[p] EXCEPT !.at = "sweep", !.sid = None, !.cur = None]
  <2>1. t \in TaskState /\ t.at = "sweep" /\ t.todo = task[p].todo /\ t.sid = None
    BY DEF Typed, TypeOK, TaskState, Places
  <2>2. MoveTo(p, t) /\ Holds(mgr, p) /\ UNCHANGED <<mgr, lock, ses>>
    BY <1>3 DEF SweepContinues
  <2>3. sessions' \in [Sid -> Obj \cup {None}]
    BY <1>3 DEF SweepContinues, Typed, TypeOK
  <2>4. Typed'
    BY <2>1, <2>2, <2>3, LocatedStep, MoveToType DEF Typed, TypeOK
  <2>5. task[p].todo \subseteq Entries' \ {None}
    BY <1>3, ConstantsAssumption
    DEF SweepContinues, ManagerHeld, Entries, Typed, TypeOK
  <2>6. ManagerStep(p, t)
    BY <2>1, <2>2, <2>5 DEF ManagerStep, Managed
  <2>. QED BY <2>1, <2>4, <2>6, ManagerHeldStep
<1>4. CASE SweepEnds(p)
  <2>1. sessions' \in [Sid -> Obj \cup {None}]
    BY <1>4 DEF SweepEnds, Typed, TypeOK
  <2>. QED BY <1>4, <2>1, TypedLeave, ManagedLeave DEF SweepEnds, Typed, TypeOK
<1>. QED BY <1>1, <1>2, <1>3, <1>4 DEF Sweep

\* A step outside the manager lock: it leaves the directory alone.
LEMMA OutsideStep ==
  ASSUME Typed, ManagerHeld, NEW p \in Proc, NEW t \in TaskState, MoveTo(p, t),
         t.at \in {"idle", "locking", "command", "transfer"}, t.todo = {},
         t.at # "idle" => t.cur \in Obj, UNCHANGED <<mgr, sessions>>,
         lock' \in [Obj -> Seq(Proc)], ses' \in [Obj -> Session]
  PROVE  Typed' /\ ManagerHeld'
<1>1. Located' /\ task' \in [Proc -> TaskState]
  BY LocatedStep, MoveToType DEF Typed
<1>2. ManagerStep(p, t)
  BY DEF ManagerStep, Managed
<1>. QED BY <1>1, <1>2, ManagerHeldStep DEF Typed, TypeOK

LEMMA EndUseStep ==
  ASSUME Typed, ManagerHeld, NEW p \in Proc, NEW place \in {"command", "transfer"},
         NEW st \in State, EndUse(p, place, st)
  PROVE  Typed' /\ ManagerHeld'
<1> DEFINE o == task[p].cur
           r == [ses[o] EXCEPT !.state = st]
<1>1. o \in Obj /\ Holds(lock[o], p) /\ Becomes(o, r) /\ MoveTo(p, AtRest)
  BY DEF EndUse, At, Typed, Located
<1>2. r \in Session
  BY <1>1 DEF Typed, TypeOK, Session
<1>3. ses' \in [Obj -> Session]
  BY <1>1, <1>2, BecomesType DEF Typed
<1>4. lock' \in [Obj -> Seq(Proc)]
  BY <1>1, ReleaseType DEF EndUse, Typed, TypeOK
<1>5. UNCHANGED <<mgr, sessions>> /\ AtRest.at = "idle" /\ AtRest.todo = {}
  BY DEF EndUse, AtRest
<1>. QED BY <1>1, <1>3, <1>4, <1>5, AtRestType, OutsideStep

LEMMA UseStep ==
  ASSUME Typed, ManagerHeld, NEW p \in Proc, Use(p) PROVE Typed' /\ ManagerHeld'
<1> DEFINE o == task[p].cur
<1>1. AtRest \in TaskState /\ AtRest.at = "idle" /\ AtRest.todo = {}
  BY AtRestType DEF AtRest
<1>2. lock \in [Obj -> Seq(Proc)] /\ ses \in [Obj -> Session]
  BY DEF Typed, TypeOK
<1>3. CASE Drop(p)
  BY <1>1, <1>2, <1>3, OutsideStep DEF Drop
<1>4. CASE UseRefused(p)
  <2>1. ses' \in [Obj -> Session]
    BY <1>4, ProbedType DEF UseRefused, Typed
  <2>. QED BY <1>1, <1>2, <1>4, <2>1, OutsideStep DEF UseRefused
<1>5. ASSUME NEW place \in {"locking", "command", "transfer"},
             MoveTo(p, [task[p] EXCEPT !.at = place]), UNCHANGED <<mgr, sessions>>,
             At(p, "holding") \/ At(p, "locking"),
             lock' \in [Obj -> Seq(Proc)], ses' \in [Obj -> Session]
      PROVE  Typed' /\ ManagerHeld'
  <2> DEFINE t == [task[p] EXCEPT !.at = place]
  <2>1. t \in TaskState /\ t.at = place /\ t.cur = o /\ t.todo = task[p].todo
    BY DEF Typed, TypeOK, TaskState, Places
  <2>2. o \in Obj /\ task[p].todo = {}
    BY <1>5 DEF At, Typed, Located, ManagerHeld, Managed
  <2>3. MoveTo(p, t)
    BY <1>5
  <2> HIDE DEF t
  <2>. QED BY <1>5, <2>1, <2>2, <2>3, OutsideStep
<1>6. CASE UseAccepted(p)
  <2>1. lock' \in [Obj -> Seq(Proc)]
    BY <1>2, <1>6, AcquireType DEF UseAccepted
  <2>. QED BY <1>2, <1>5, <1>6, <2>1 DEF UseAccepted
<1>7. CASE CommandStarts(p)
  <2>1. o \in Obj
    BY <1>7 DEF CommandStarts, At, Typed, Located
  <2>2. [ses[o] EXCEPT !.state = "executing", !.idle = FALSE] \in Session
    BY <2>1 DEF Typed, TypeOK, Session, State
  <2>3. ses' \in [Obj -> Session]
    BY <1>7, <2>1, <2>2, BecomesType DEF CommandStarts, Typed
  <2>. QED BY <1>2, <1>5, <1>7, <2>3 DEF CommandStarts
<1>8. CASE TransferStarts(p)
  <2>1. o \in Obj
    BY <1>8 DEF TransferStarts, At, Typed, Located
  <2>2. [ses[o] EXCEPT !.idle = FALSE] \in Session
    BY <2>1 DEF Typed, TypeOK, Session
  <2>3. ses' \in [Obj -> Session]
    BY <1>8, <2>1, <2>2, BecomesType DEF TransferStarts, Typed
  <2>. QED BY <1>2, <1>5, <1>8, <2>3 DEF TransferStarts
<1>9. o \in Obj => ses[o].state \in State
  BY <1>2 DEF Session
<1>10. CASE CommandReturns(p)
  <2>1. Restored(o) \in State
    BY <1>9, <1>10 DEF CommandReturns, Restored, At, Typed, Located, State
  <2>. QED BY <1>10, <2>1, EndUseStep DEF CommandReturns
<1>11. CASE CommandFails(p)
  BY <1>11, EndUseStep DEF CommandFails, State
<1>12. CASE TransferEnds(p)
  BY <1>9, <1>12, EndUseStep DEF TransferEnds, At, Typed, Located
<1>. QED BY <1>3, <1>4, <1>6, <1>7, <1>8, <1>10, <1>11, <1>12 DEF Use

\* A step of a keepalive loop or of the environment touches one object at most.
ObjectStep ==
  \/ \E o \in Obj : Keepalive(o) \/ ConnectionLost(o)
  \/ \E s \in Sid : GoesIdle(s)

LEMMA TypedObjectStep ==
  ASSUME Typed, ObjectStep PROVE Typed' /\ UNCHANGED <<mgr, sessions, lock, task>>
<1>1. UNCHANGED <<mgr, sessions, lock, task>>
  BY DEF ObjectStep, Keepalive, KeepaliveEnds, KeepaliveFails, ConnectionLost, GoesIdle
<1>2. ASSUME NEW o \in Obj, NEW r \in Session, Becomes(o, r)
      PROVE  ses' \in [Obj -> Session]
  BY <1>2, BecomesType DEF Typed
<1>3. ASSUME NEW o \in Obj
      PROVE  /\ [Probed({o})[o] EXCEPT !.watched = FALSE] \in Session
             /\ [ses[o] EXCEPT !.watched = FALSE, !.state = "disconnected"] \in Session
             /\ [ses[o] EXCEPT !.client = "down"] \in Session
             /\ [ses[o] EXCEPT !.idle = TRUE] \in Session
  <2>1. Probed({o})[o] \in Session /\ ses[o] \in Session
    BY ProbedType DEF Typed, TypeOK
  <2> HIDE DEF Probed
  <2>. QED BY <2>1 DEF Session, State
<1>4. ASSUME NEW o \in Obj, KeepaliveEnds(o) PROVE ses' \in [Obj -> Session]
  BY <1>2, <1>3, <1>4 DEF KeepaliveEnds
<1>5. ASSUME NEW o \in Obj, KeepaliveFails(o) PROVE ses' \in [Obj -> Session]
  BY <1>2, <1>3, <1>5 DEF KeepaliveFails
<1>6. ASSUME NEW o \in Obj, ConnectionLost(o) PROVE ses' \in [Obj -> Session]
  BY <1>2, <1>3, <1>6 DEF ConnectionLost
<1>7. ASSUME NEW s \in Sid, GoesIdle(s) PROVE ses' \in [Obj -> Session]
  <2>1. sessions[s] \in Obj
    BY <1>7, EntryType DEF GoesIdle, Typed
  <2>. QED BY <1>2, <1>3, <1>7, <2>1 DEF GoesIdle
<1>8. ses' \in [Obj -> Session]
  BY <1>4, <1>5, <1>6, <1>7 DEF ObjectStep, Keepalive
<1>. QED BY <1>1, <1>8 DEF Typed, TypeOK, Located

LEMMA RequestStep ==
  ASSUME Typed, ManagerHeld, NEW p \in Proc, Request(p) PROVE Typed' /\ ManagerHeld'
<1> DEFINE t == [AtRest EXCEPT !.at = "manager"]
<1>1. t \in TaskState /\ t.at = "manager" /\ t.todo = {}
  BY DEF AtRest, TaskState, Places, Ops
<1>2. MoveTo(p, t) /\ mgr' = Acquire(mgr, p) /\ UNCHANGED <<sessions, lock, ses>>
  BY DEF Request
<1> HIDE DEF t
<1>3. ManagerStep(p, t)
  BY <1>1, <1>2 DEF ManagerStep, Managed
<1>4. Located' /\ task' \in [Proc -> TaskState]
  BY <1>1, <1>2, LocatedStep, MoveToType DEF Typed
<1>. QED BY <1>1, <1>2, <1>3, <1>4, ManagerHeldStep, AcquireType DEF Typed, TypeOK

-----------------------------------------------------------------------------
(* Every reachable state is well typed, and the manager lock is held.      *)

\* Next by its parts: a request, a step under way, or a step of an object.
LEMMA NextParts ==
  ASSUME Next
  PROVE  ObjectStep \/ \E p \in Proc : Request(p) \/ Step(p)
BY DEF Next, CleanupTick, ObjectStep, Proc

LEMMA TypedInit ==
  ASSUME Init PROVE Typed /\ ManagerHeld
<1>1. ses \in [Obj -> Session]
  BY NewSessionType DEF Init
<1>2. lock \in [Obj -> Seq(Proc)] /\ mgr \in Seq(Proc)
  BY UnlockedType DEF Init
<1>3. task \in [Proc -> TaskState] /\ sessions \in [Sid -> Obj \cup {None}]
  BY AtRestType DEF Init
<1>4. \A p \in Proc : task[p].at = "idle" /\ task[p].todo = {}
  BY DEF Init, AtRest
<1>. QED BY <1>1, <1>2, <1>3, <1>4 DEF Typed, TypeOK, Located, ManagerHeld, Managed

LEMMA TypedNext ==
  ASSUME Typed, ManagerHeld, [Next]_vars PROVE Typed' /\ ManagerHeld'
<1>1. CASE ObjectStep
  BY <1>1, TypedObjectStep DEF ManagerHeld, Entries
<1>2. ASSUME NEW p \in Proc, Request(p) PROVE Typed' /\ ManagerHeld'
  BY <1>2, RequestStep
<1>3. ASSUME NEW p \in Proc, Step(p) PROVE Typed' /\ ManagerHeld'
  BY <1>3, TypedCreate, ManagedCreate, TypedGet, ManagedGet, TypedConnect,
     ManagedConnect, TypedDisconnect, ManagedDisconnect, TypedClose, ManagedClose,
     SweepStep, UseStep DEF Step
<1>4. CASE UNCHANGED vars
  BY <1>4 DEF vars, Typed, TypeOK, Located, ManagerHeld, Entries
<1>. QED BY <1>1, <1>2, <1>3, <1>4, NextParts

\* Every variable of the session manager keeps the type its declaration states,
\* in every execution.
THEOREM TypeCorrect == Spec => []TypeOK
<1>1. Init => Typed /\ ManagerHeld
  BY TypedInit
<1>2. Typed /\ ManagerHeld /\ [Next]_vars => (Typed /\ ManagerHeld)'
  BY TypedNext
<1>3. Typed /\ ManagerHeld => TypeOK
  BY DEF Typed
<1>. QED BY <1>1, <1>2, <1>3, PTL DEF Spec

-----------------------------------------------------------------------------
(* The session locks.                                                      *)

\* What a coroutine awaits inside `async with self._connect_lock`, and of which
\* object.
Working == {"connecting", "closing", "command", "transfer"}

Target(t) == IF t.at = "connecting" THEN t.fresh ELSE t.cur

SessionHeld ==
  \A p \in Proc : task[p].at \in Working => Holds(lock[Target(task[p])], p)

\* The steps of a coroutine as the session locks see them: one lock changes at
\* most, which the coroutine queues for or lets go of; or it is a free object's.
LockStep(p, t) ==
  /\ MoveTo(p, t)
  /\ \/ /\ lock' = lock
        /\ t.at \in Working => Holds(lock[Target(t)], p)
     \/ \E o \in Obj : /\ lock' = [lock EXCEPT ![o] = Acquire(@, p)]
                       /\ t.at \notin Working
     \/ \E o \in Obj : /\ lock' = [lock EXCEPT ![o] = Release(@)]
                       /\ Holds(lock[o], p) /\ t.at \notin Working
     \/ \E o \in Obj : /\ lock' = [lock EXCEPT ![o] = Acquire(Unlocked, p)]
                       /\ Free(o) /\ t.at = "connecting" /\ t.fresh = o

LEMMA SessionHeldStep ==
  ASSUME Typed, SessionHeld, NEW p \in Proc, NEW t \in TaskState, LockStep(p, t)
  PROVE  SessionHeld'
<1> SUFFICES ASSUME NEW q \in Proc, task'[q].at \in Working
             PROVE  Holds(lock'[Target(task'[q])], q)
  BY DEF SessionHeld, Holds
<1>1. task'[q] = IF q = p THEN t ELSE task[q]
  BY DEF Typed, TypeOK, LockStep, MoveTo
<1>2. lock \in [Obj -> Seq(Proc)]
  BY DEF Typed, TypeOK
<1>3. CASE q = p
  <2>1. CASE lock' = lock /\ (t.at \in Working => Holds(lock[Target(t)], p))
    BY <1>1, <1>3, <2>1
  <2>2. CASE \E o \in Obj : /\ lock' = [lock EXCEPT ![o] = Acquire(Unlocked, p)]
                            /\ t.at = "connecting" /\ t.fresh = o
    <3>1. PICK o \in Obj : /\ lock' = [lock EXCEPT ![o] = Acquire(Unlocked, p)]
                           /\ t.at = "connecting" /\ t.fresh = o
      BY <2>2
    <3>2. lock'[o] = Acquire(Unlocked, p) /\ Target(t) = o
      BY <1>2, <3>1 DEF Target
    <3>. QED BY <1>1, <1>3, <3>2, AcquireUnlocked
  <2>. QED BY <1>1, <1>3, <2>1, <2>2 DEF LockStep
<1>4. CASE q # p
  <2> DEFINE l == Target(task[q])
  <2>1. Holds(lock[l], q) /\ l \in Obj /\ task[q].at \in Working /\ task'[q] = task[q]
    BY <1>1, <1>4 DEF SessionHeld, Target, Working, Typed, Located
  <2>2. ASSUME NEW o \in Obj, lock' = [lock EXCEPT ![o] = Acquire(@, p)]
        PROVE  Holds(lock'[l], q)
    BY <1>2, <2>1, <2>2, AcquireKeepsHolder
  <2>3. ASSUME NEW o \in Obj, lock' = [lock EXCEPT ![o] = Release(@)],
               Holds(lock[o], p)
        PROVE  Holds(lock'[l], q)
    BY <1>2, <1>4, <2>1, <2>3, OneHolder
  <2>4. ASSUME NEW o \in Obj, lock' = [lock EXCEPT ![o] = Acquire(Unlocked, p)],
               Free(o)
        PROVE  Holds(lock'[l], q)
    BY <1>2, <2>1, <2>4 DEF Free, Target
  <2>. QED BY <2>1, <2>2, <2>3, <2>4 DEF LockStep
<1>. QED BY <1>3, <1>4

\* Most steps leave the session locks alone and end outside them.
LEMMA HeldOutside ==
  ASSUME Typed, SessionHeld, NEW p \in Proc, NEW t \in TaskState, MoveTo(p, t),
         t.at \notin Working, UNCHANGED lock
  PROVE  SessionHeld'
BY SessionHeldStep DEF LockStep

LEMMA HeldAtRest ==
  ASSUME Typed, SessionHeld, NEW p \in Proc, MoveTo(p, AtRest), UNCHANGED lock
  PROVE  SessionHeld'
BY AtRestType, HeldOutside DEF AtRest, Working

\* A step that ends the work on an object.
LEMMA HeldReleases ==
  ASSUME Typed, SessionHeld, NEW p \in Proc, NEW t \in TaskState, MoveTo(p, t),
         t.at \notin Working, NEW o \in Obj, Holds(lock[o], p),
         lock' = [lock EXCEPT ![o] = Release(@)]
  PROVE  SessionHeld'
BY SessionHeldStep DEF LockStep

LEMMA HeldStartConnect ==
  ASSUME Typed, SessionHeld, NEW p \in Proc, NEW op \in Ops, NEW o \in Obj, Free(o),
         NEW c, NEW s \in Sid, NEW sesNow, StartConnect(p, op, o, c, s, sesNow)
  PROVE  SessionHeld'
<1> DEFINE t == [task[p] EXCEPT !.at = "connecting", !.op = op, !.fresh = o, !.sid = s]
<1>1. t \in TaskState
  BY DEF Typed, TypeOK, TaskState, Places
<1>2. t.at = "connecting" /\ t.fresh = o
  BY DEF Typed, TypeOK, TaskState
<1>3. LockStep(p, t)
  BY <1>2 DEF LockStep, StartConnect
<1>. QED BY <1>1, <1>3, SessionHeldStep

LEMMA HeldCallDisconnect ==
  ASSUME Typed, SessionHeld, NEW p \in Proc, NEW op \in Ops \cup {None}, NEW s \in Sid,
         NEW o \in Obj, NEW todo \in SUBSET Sid, CallDisconnect(p, op, s, o, todo)
  PROVE  SessionHeld'
<1> DEFINE t == [task[p] EXCEPT !.at = "disconnect", !.op = op, !.sid = s,
                               !.cur = o, !.todo = todo]
<1>1. t \in TaskState
  BY DEF Typed, TypeOK, TaskState, Places
<1>2. t.at = "disconnect"
  BY DEF Typed, TypeOK, TaskState
<1>3. LockStep(p, t)
  BY <1>2 DEF LockStep, CallDisconnect, Working
<1>. QED BY <1>1, <1>3, SessionHeldStep

LEMMA HeldCreate ==
  ASSUME Typed, SessionHeld, NEW p \in Proc, Create(p) PROVE SessionHeld'
<1> PICK c \in Conf : CreateReuses(p, c) \/ CreateRefused(p, c) \/ CreateConnects(p, c)
  BY DEF Create
<1>1. CASE CreateReuses(p, c)
  BY <1>1, HeldAtRest DEF CreateReuses, Leave
<1>2. CASE CreateRefused(p, c)
  BY <1>2, HeldAtRest DEF CreateRefused, Leave
<1>3. CASE CreateConnects(p, c)
  <2> DEFINE now == Probed({sessions[x] : x \in Entries})
  <2>1. PICK o \in Obj, s \in Sid : Free(o) /\ StartConnect(p, "create", o, c, s, now)
    BY <1>3 DEF CreateConnects
  <2> HIDE DEF now
  <2>. QED BY <2>1, HeldStartConnect DEF Ops
<1>. QED BY <1>1, <1>2, <1>3

LEMMA HeldGet ==
  ASSUME Typed, SessionHeld, NEW p \in Proc, Get(p) PROVE SessionHeld'
<1>1. ASSUME NEW s \in Sid, GetMissing(p, s) PROVE SessionHeld'
  BY <1>1, HeldAtRest DEF GetMissing, Leave
<1>2. ASSUME NEW s \in Sid, GetLive(p, s) PROVE SessionHeld'
  <2> DEFINE t == [AtRest EXCEPT !.at = "holding", !.op = "use", !.cur = sessions[s]]
  <2>1. sessions[s] \in Obj
    BY <1>2, EntryType DEF GetLive, Typed
  <2>2. t \in TaskState /\ t.at = "holding"
    BY <2>1 DEF AtRest, TaskState, Places, Ops
  <2>3. MoveTo(p, t) /\ UNCHANGED lock
    BY <1>2 DEF GetLive
  <2> HIDE DEF t
  <2>. QED BY <2>2, <2>3, HeldOutside DEF Working
<1>3. ASSUME NEW s \in Sid, GetDead(p, s) PROVE SessionHeld'
  <2>1. sessions[s] \in Obj /\ {} \in SUBSET Sid
    BY <1>3, EntryType DEF GetDead, Typed
  <2>2. PICK op \in Ops : CallDisconnect(p, op, s, sessions[s], {})
    BY <1>3 DEF GetDead, Ops
  <2>. QED BY <2>1, <2>2, HeldCallDisconnect
<1>4. CASE GetDiscards(p)
  BY <1>4, HeldAtRest DEF GetDiscards, Leave
<1>5. CASE Rebuild(p)
  <2>1. PICK o \in Obj :
          /\ Free(o)
          /\ StartConnect(p, "use", o, ses[task[p].cur].conf, task[p].sid, ses)
    BY <1>5 DEF Rebuild
  <2>2. task[p].sid \in Sid
    BY <1>5 DEF Rebuild, InManager, At, Typed, Located
  <2>. QED BY <2>1, <2>2, HeldStartConnect DEF Ops
<1>6. CASE RebuildNoRoom(p)
  BY <1>6, HeldAtRest DEF RebuildNoRoom, Leave
<1>. QED BY <1>1, <1>2, <1>3, <1>4, <1>5, <1>6 DEF Get

LEMMA HeldConnect ==
  ASSUME Typed, SessionHeld, NEW p \in Proc, Connect(p) PROVE SessionHeld'
<1> DEFINE o == task[p].fresh
           t == [AtRest EXCEPT !.at = "holding", !.op = "use", !.cur = o]
<1>1. /\ o \in Obj /\ Holds(lock[o], p) /\ lock' = [lock EXCEPT ![o] = Release(@)]
      /\ MoveTo(p, AtRest) \/ MoveTo(p, t)
  BY DEF Connect, ConnectSucceeds, ConnectFails, Leave, At, Typed, Located
<1>2. AtRest \in TaskState /\ AtRest.at = "idle"
  BY AtRestType DEF AtRest
<1>3. t \in TaskState /\ t.at = "holding"
  BY <1>1 DEF AtRest, TaskState, Places, Ops
<1> HIDE DEF t
<1>. QED BY <1>1, <1>2, <1>3, HeldReleases DEF Working

LEMMA HeldDisconnect ==
  ASSUME Typed, SessionHeld, NEW p \in Proc, Disconnect(p) PROVE SessionHeld'
<1> DEFINE o == task[p].cur
<1>1. CASE DisconnectCloses(p)
  <2> DEFINE t == [task[p] EXCEPT !.at = "closing"]
  <2>1. t \in TaskState /\ Target(t) = o
    BY DEF Typed, TypeOK, TaskState, Places, Target
  <2>2. LockStep(p, t)
    BY <1>1, <2>1 DEF DisconnectCloses, LockStep
  <2>. QED BY <2>1, <2>2, SessionHeldStep
<1>2. CASE DisconnectEnds(p)
  <2> DEFINE t == [task[p] EXCEPT !.at = "closed"]
  <2>1. t \in TaskState /\ t.at = "closed"
    BY DEF Typed, TypeOK, TaskState, Places
  <2>2. o \in Obj
    BY <1>2 DEF DisconnectEnds, At, Typed, Located
  <2>3. Holds(lock[o], p) /\ lock' = [lock EXCEPT ![o] = Release(@)] /\ MoveTo(p, t)
    BY <1>2 DEF DisconnectEnds
  <2> HIDE DEF t
  <2>. QED BY <2>1, <2>2, <2>3, HeldReleases DEF Working
<1>. QED BY <1>1, <1>2 DEF Disconnect

LEMMA HeldClose ==
  ASSUME Typed, SessionHeld, NEW p \in Proc, Close(p) PROVE SessionHeld'
<1>1. ASSUME NEW s \in Sid, CloseMissing(p, s) PROVE SessionHeld'
  BY <1>1, HeldAtRest DEF CloseMissing, Leave
<1>2. ASSUME NEW s \in Sid, ClosePops(p, s) PROVE SessionHeld'
  <2>1. sessions[s] \in Obj /\ {} \in SUBSET Sid /\ "close" \in Ops
    BY <1>2, EntryType DEF ClosePops, Typed, Ops
  <2>. QED BY <1>2, <2>1, HeldCallDisconnect DEF ClosePops
<1>3. CASE CloseReturns(p)
  BY <1>3, HeldAtRest DEF CloseReturns, Leave
<1>. QED BY <1>1, <1>2, <1>3 DEF Close

LEMMA HeldSweep ==
  ASSUME Typed, ManagerHeld, SessionHeld, NEW p \in Proc, Sweep(p) PROVE SessionHeld'
<1>1. ASSUME NEW op \in {"close_all", "cleanup"}, SweepCollects(p, op)
      PROVE  SessionHeld'
  <2> DEFINE todo == {s \in Entries : op = "cleanup" => ses[sessions[s]].idle}
             t == [AtRest EXCEPT !.at = "sweep", !.op = op, !.todo = todo]
  <2>1. MoveTo(p, t) /\ UNCHANGED lock /\ todo \in SUBSET Sid
    BY <1>1 DEF SweepCollects, Entries
  <2> HIDE DEF todo
  <2>2. t \in TaskState /\ t.at = "sweep"
    BY <2>1 DEF AtRest, TaskState, Places, Ops
  <2> HIDE DEF t
  <2>. QED BY <2>1, <2>2, HeldOutside DEF Working
<1>2. CASE SweepCloses(p)
  <2>1. PICK s \in task[p].todo :
          CallDisconnect(p, task[p].op, s, sessions[s], task[p].todo \ {s})
    BY <1>2 DEF SweepCloses
  <2> DEFINE op == task[p].op
             o == sessions[s]
             rest == task[p].todo \ {s}
  <2>2. s \in Sid /\ o \in Obj
    BY <2>1, EntryType DEF Typed, ManagerHeld, Entries
  <2>3. rest \in SUBSET Sid /\ op \in Ops \cup {None}
    BY DEF Typed, TypeOK, TaskState
  <2>4. CallDisconnect(p, op, s, o, rest)
    BY <2>1
  <2> HIDE DEF op, o, rest
  <2>. QED BY <2>2, <2>3, <2>4, HeldCallDisconnect
<1>3. CASE SweepContinues(p)
  <2> DEFINE t == [task[p] EXCEPT !.at = "sweep", !.sid = None, !.cur = None]
  <2>1. t \in TaskState /\ t.at = "sweep"
    BY DEF Typed, TypeOK, TaskState, Places
  <2>2. MoveTo(p, t) /\ UNCHANGED lock
    BY <1>3 DEF SweepContinues
  <2> HIDE DEF t
  <2>. QED BY <2>1, <2>2, HeldOutside DEF Working
<1>4. CASE SweepEnds(p)
  BY <1>4, HeldAtRest DEF SweepEnds, Leave
<1>. QED BY <1>1, <1>2, <1>3, <1>4 DEF Sweep

LEMMA HeldUse ==
  ASSUME Typed, SessionHeld, NEW p \in Proc, Use(p) PROVE SessionHeld'
<1> DEFINE o == task[p].cur
<1>1. ASSUME NEW place \in {"locking", "command", "transfer"} PROVE
        LET t == [task[p] EXCEPT !.at = place]
        IN  t \in TaskState /\ t.at = place /\ Target(t) = o
  BY DEF Typed, TypeOK, TaskState, Places, Target
<1>2. CASE Drop(p)
  BY <1>2, HeldAtRest DEF Drop
<1>3. CASE UseRefused(p)
  BY <1>3, HeldAtRest DEF UseRefused
<1>4. CASE UseAccepted(p)
  <2> DEFINE t == [task[p] EXCEPT !.at = "locking"]
  <2>1. o \in Obj
    BY <1>4 DEF UseAccepted, At, Typed, Located
  <2>2. LockStep(p, t)
    BY <1>1, <1>4, <2>1 DEF UseAccepted, LockStep, Working
  <2>. QED BY <1>1, <2>2, SessionHeldStep
<1>5. ASSUME NEW place \in {"command", "transfer"}, Holds(lock[o], p), UNCHANGED lock,
             MoveTo(p, [task[p] EXCEPT !.at = place])
      PROVE  SessionHeld'
  <2> DEFINE t == [task[p] EXCEPT !.at = place]
  <2>1. t \in TaskState /\ Target(t) = o
    BY <1>1
  <2>2. LockStep(p, t)
    BY <1>5, <2>1 DEF LockStep
  <2>. QED BY <2>1, <2>2, SessionHeldStep
<1>6. CASE CommandStarts(p) \/ TransferStarts(p)
  BY <1>5, <1>6 DEF CommandStarts, TransferStarts
<1>7. ASSUME NEW place \in {"command", "transfer"}, NEW st, EndUse(p, place, st)
      PROVE  SessionHeld'
  <2>1. o \in Obj
    BY <1>7 DEF EndUse, At, Typed, Located
  <2>2. AtRest.at = "idle"
    BY DEF AtRest
  <2>. QED BY <1>7, <2>1, <2>2, AtRestType, HeldReleases DEF EndUse, Working
<1>8. CASE CommandReturns(p) \/ CommandFails(p) \/ TransferEnds(p)
  BY <1>7, <1>8 DEF CommandReturns, CommandFails, TransferEnds
<1>. QED BY <1>2, <1>3, <1>4, <1>6, <1>8 DEF Use

LEMMA HeldRequest ==
  ASSUME Typed, SessionHeld, NEW p \in Proc, Request(p) PROVE SessionHeld'
<1> DEFINE t == [AtRest EXCEPT !.at = "manager"]
<1>1. t \in TaskState /\ t.at = "manager"
  BY DEF AtRest, TaskState, Places, Ops
<1>2. MoveTo(p, t) /\ UNCHANGED lock
  BY DEF Request
<1> HIDE DEF t
<1>. QED BY <1>1, <1>2, HeldOutside DEF Working

LEMMA HeldNext ==
  ASSUME Typed, ManagerHeld, SessionHeld, [Next]_vars PROVE SessionHeld'
<1>1. CASE ObjectStep
  BY <1>1, TypedObjectStep DEF SessionHeld
<1>2. ASSUME NEW p \in Proc, Request(p) PROVE SessionHeld'
  BY <1>2, HeldRequest
<1>3. ASSUME NEW p \in Proc, Step(p) PROVE SessionHeld'
  BY <1>3, HeldCreate, HeldGet, HeldConnect, HeldDisconnect, HeldClose, HeldSweep,
     HeldUse DEF Step
<1>4. CASE UNCHANGED vars
  BY <1>4 DEF vars, SessionHeld
<1>. QED BY <1>1, <1>2, <1>3, <1>4, NextParts

\* The inductive invariant: whoever is past the first await of an operation on
\* the directory or on a session holds the lock that guards it.
Guarded == Typed /\ ManagerHeld /\ SessionHeld

THEOREM GuardedCorrect == Spec => []Guarded
<1>1. Init => Guarded
  BY TypedInit DEF Guarded, Init, AtRest, SessionHeld, Working
<1>2. Guarded /\ [Next]_vars => Guarded'
  BY TypedNext, HeldNext DEF Guarded
<1>. QED BY <1>1, <1>2, PTL DEF Spec

\* No two coroutines connect, close or use one session object at once, whether
\* they came by it inside the manager lock or keep it from an earlier
\* get_session.
THEOREM ExclusiveCorrect == Spec => []SessionExclusive
<1>1. Guarded => SessionExclusive
  <2> SUFFICES ASSUME Guarded, NEW p \in Proc, NEW q \in Proc, NEW o \in Obj,
                      WorksOn(p, o), WorksOn(q, o)
               PROVE  p = q
    BY DEF SessionExclusive
  <2>1. Holds(lock[o], p) /\ Holds(lock[o], q)
    BY DEF WorksOn, At, Guarded, SessionHeld, Working, Target
  <2>. QED BY <2>1, OneHolder
<1>. QED BY <1>1, GuardedCorrect, PTL

-----------------------------------------------------------------------------
(* The queues of the locks.                                                *)

\* The queue q has members of G only, each of them once.
Standing(q, G) ==
  /\ \A i \in DOMAIN q : q[i] \in G
  /\ \A i, j \in DOMAIN q : q[i] = q[j] => i = j

AtManager == {p \in Proc : task[p].at \in InsideManager}
AtSession(o) == {p \in Proc : Wants(task[p], o)}

\* Whoever is in the queue of a lock has asked for it or is inside it, and is there once.
Queues == Standing(mgr, AtManager) /\ \A o \in Obj : Standing(lock[o], AtSession(o))

LEMMA StandingKept ==
  ASSUME NEW q, NEW G, NEW H, Standing(q, G), G \subseteq H PROVE Standing(q, H)
BY DEF Standing

LEMMA StandingJoined ==
  ASSUME NEW q \in Seq(Proc), NEW G, NEW H, NEW p \in Proc, Standing(q, G), p \notin G,
         G \cup {p} \subseteq H
  PROVE  Standing(Acquire(q, p), H)
<1>. DEFINE r == Acquire(q, p)
<1>1. /\ DOMAIN q = 1 .. Len(q) /\ DOMAIN r = 1 .. Len(q) + 1 /\ Len(q) \in Nat
      /\ \A i \in 1 .. Len(q) : r[i] = q[i]
      /\ r[Len(q) + 1] = p
  BY DEF Acquire
<1>. HIDE DEF r
<1>2. \A i \in 1 .. Len(q) : q[i] \in G /\ q[i] # p
  BY <1>1 DEF Standing
<1>3. \A i \in DOMAIN r : i \in 1 .. Len(q) \/ i = Len(q) + 1
  BY <1>1
<1>4. \A i \in DOMAIN r : r[i] \in H
  BY <1>1, <1>2, <1>3
<1>5. \A i, j \in DOMAIN r : r[i] = r[j] => i = j
  BY <1>1, <1>2, <1>3 DEF Standing
<1>. QED BY <1>4, <1>5 DEF Standing, r

LEMMA StandingLeft ==
  ASSUME NEW q \in Seq(Proc), NEW G, NEW H, NEW p \in Proc, Standing(q, G), Holds(q, p),
         G \ {p} \subseteq H
  PROVE  Standing(Release(q), H)
<1>. DEFINE r == Release(q)
<1>1. /\ q # <<>> /\ q[1] = p /\ DOMAIN q = 1 .. Len(q) /\ Len(q) \in Nat \ {0}
      /\ DOMAIN r = 1 .. Len(q) - 1
      /\ \A i \in 1 .. Len(q) - 1 : r[i] = q[i + 1]
  BY DEF Release, Holds
<1>. HIDE DEF r
<1>2. \A i \in DOMAIN r : i + 1 \in DOMAIN q /\ q[i + 1] # p
  BY <1>1 DEF Standing
<1>3. \A i \in DOMAIN r : r[i] \in H
  BY <1>1, <1>2 DEF Standing
<1>4. \A i, j \in DOMAIN r : r[i] = r[j] => i = j
  <2>. SUFFICES ASSUME NEW i \in DOMAIN r, NEW j \in DOMAIN r, r[i] = r[j] PROVE i = j
    OBVIOUS
  <2>1. q[i + 1] = q[j + 1] /\ i + 1 \in DOMAIN q /\ j + 1 \in DOMAIN q
    BY <1>1, <1>2
  <2>2. i + 1 = j + 1
    BY <2>1 DEF Standing
  <2>. QED BY <1>1, <2>2
<1>. QED BY <1>3, <1>4 DEF Standing, r

\* The steps of a coroutine as the queues see them: it asks for a lock when it is at no
\* other of its kind, and leaves it as its holder.
QueueStep(p, t) ==
  /\ MoveTo(p, t)
  /\ \/ mgr' = mgr /\ (task[p].at \in InsideManager => t.at \in InsideManager)
     \/ mgr' = Release(mgr) /\ Holds(mgr, p)
     \/ /\ mgr' = Acquire(mgr, p)
        /\ task[p].at \notin InsideManager /\ t.at \in InsideManager
  /\ \/ lock' = lock /\ \A o \in Obj : Wants(task[p], o) => Wants(t, o)
     \/ \E o \in Obj : /\ lock' = [lock EXCEPT ![o] = Acquire(@, p)]
                       /\ \A x \in Obj : ~Wants(task[p], x)
                       /\ Wants(t, o)
     \/ \E o \in Obj : /\ lock' = [lock EXCEPT ![o] = Release(@)]
                       /\ Holds(lock[o], p)
                       /\ \A x \in Obj \ {o} : ~Wants(task[p], x)
     \/ \E o \in Obj : /\ lock' = [lock EXCEPT ![o] = Acquire(Unlocked, p)]
                       /\ \A x \in Obj : ~Wants(task[p], x)
                       /\ Wants(t, o)

LEMMA QueuesStep ==
  ASSUME Typed, Queues, NEW p \in Proc, NEW t \in TaskState, QueueStep(p, t) PROVE Queues'
<1>1. \A q \in Proc : task'[q] = IF q = p THEN t ELSE task[q]
  BY DEF Typed, TypeOK, QueueStep, MoveTo
<1>2. mgr \in Seq(Proc) /\ lock \in [Obj -> Seq(Proc)]
  BY DEF Typed, TypeOK
<1>3. AtManager \ {p} \subseteq AtManager' /\ (t.at \in InsideManager => p \in AtManager')
  BY <1>1 DEF AtManager
<1>4. /\ \A o \in Obj : AtSession(o) \ {p} \subseteq AtSession(o)'
      /\ \A o \in Obj : Wants(t, o) => p \in AtSession(o)'
      /\ \A o \in Obj : ~Wants(task[p], o) => p \notin AtSession(o)
  BY <1>1 DEF AtSession, Wants
<1>5. Standing(mgr', AtManager')
  <2>1. CASE mgr' = mgr /\ (task[p].at \in InsideManager => t.at \in InsideManager)
    <3>1. AtManager \subseteq AtManager'
      BY <1>3, <2>1 DEF AtManager
    <3>. QED BY <2>1, <3>1, StandingKept DEF Queues
  <2>2. CASE mgr' = Release(mgr) /\ Holds(mgr, p)
    BY <1>2, <1>3, <2>2, StandingLeft DEF Queues
  <2>3. CASE /\ mgr' = Acquire(mgr, p)
             /\ task[p].at \notin InsideManager /\ t.at \in InsideManager
    <3>1. p \notin AtManager /\ AtManager \cup {p} \subseteq AtManager'
      BY <1>3, <2>3 DEF AtManager
    <3>. QED BY <1>2, <2>3, <3>1, StandingJoined DEF Queues
  <2>. QED BY <2>1, <2>2, <2>3 DEF QueueStep
<1>6. ASSUME NEW x \in Obj PROVE Standing(lock[x]', AtSession(x)')
  <2>1. CASE lock' = lock /\ \A o \in Obj : Wants(task[p], o) => Wants(t, o)
    <3>1. AtSession(x) \subseteq AtSession(x)'
      BY <1>4, <2>1 DEF AtSession
    <3>. QED BY <2>1, <3>1, StandingKept DEF Queues
  <2>2. CASE \E o \in Obj : /\ lock' = [lock EXCEPT ![o] = Acquire(@, p)]
                            /\ \A y \in Obj : ~Wants(task[p], y)
                            /\ Wants(t, o)
    <3>1. PICK o \in Obj : lock' = [lock EXCEPT ![o] = Acquire(@, p)] /\ Wants(t, o)
      BY <2>2
    <3>2. p \notin AtSession(x) /\ AtSession(x) \subseteq AtSession(x)'
      BY <1>4, <2>2
    <3>3. CASE x = o
      <4>1. lock'[x] = Acquire(lock[x], p) /\ AtSession(x) \cup {p} \subseteq AtSession(x)'
        BY <1>2, <1>4, <3>1, <3>2, <3>3
      <4>. QED BY <1>2, <3>2, <4>1, StandingJoined DEF Queues
    <3>4. CASE x # o
      <4>1. lock'[x] = lock[x]
        BY <1>2, <3>1, <3>4
      <4>. QED BY <3>2, <4>1, StandingKept DEF Queues
    <3>. QED BY <3>3, <3>4
  <2>3. CASE \E o \in Obj : /\ lock' = [lock EXCEPT ![o] = Release(@)]
                            /\ Holds(lock[o], p)
                            /\ \A y \in Obj \ {o} : ~Wants(task[p], y)
    <3>1. PICK o \in Obj : /\ lock' = [lock EXCEPT ![o] = Release(@)]
                           /\ Holds(lock[o], p)
                           /\ \A y \in Obj \ {o} : ~Wants(task[p], y)
      BY <2>3
    <3>2. CASE x = o
      <4>1. lock'[x] = Release(lock[x]) /\ Holds(lock[x], p)
        BY <1>2, <3>1, <3>2
      <4>. QED BY <1>2, <1>4, <4>1, StandingLeft DEF Queues
    <3>3. CASE x # o
      <4>1. lock'[x] = lock[x] /\ AtSession(x) \subseteq AtSession(x)'
        BY <1>2, <1>4, <3>1, <3>3
      <4>. QED BY <4>1, StandingKept DEF Queues
    <3>. QED BY <3>2, <3>3
  <2>4. CASE \E o \in Obj : /\ lock' = [lock EXCEPT ![o] = Acquire(Unlocked, p)]
                            /\ \A y \in Obj : ~Wants(task[p], y)
                            /\ Wants(t, o)
    <3>1. PICK o \in Obj : lock' = [lock EXCEPT ![o] = Acquire(Unlocked, p)] /\ Wants(t, o)
      BY <2>4
    <3>2. p \notin AtSession(x) /\ AtSession(x) \subseteq AtSession(x)'
      BY <1>4, <2>4
    <3>3. CASE x = o
      <4>1. lock'[x] = Acquire(Unlocked, p) /\ AtSession(x) \cup {p} \subseteq AtSession(x)'
        BY <1>2, <1>4, <3>1, <3>2, <3>3
      <4>2. Standing(Unlocked, AtSession(x)) /\ Unlocked \in Seq(Proc)
        BY UnlockedType DEF Standing, Unlocked
      <4>. QED BY <3>2, <4>1, <4>2, StandingJoined
    <3>4. CASE x # o
      <4>1. lock'[x] = lock[x]
        BY <1>2, <3>1, <3>4
      <4>. QED BY <3>2, <4>1, StandingKept DEF Queues
    <3>. QED BY <3>3, <3>4
  <2>. QED BY <2>1, <2>2, <2>3, <2>4 DEF QueueStep
<1>. QED BY <1>5, <1>6 DEF Queues

\* Between two locks, or inside the manager lock alone, no session is asked for.
LEMMA AsksNone ==
  ASSUME NEW t, t.at \in {"idle", "manager", "closed", "sweep", "holding"}
  PROVE  \A o \in Obj : ~Wants(t, o)
BY DEF Wants

LEMMA QueuesLeave ==
  ASSUME Typed, Queues, NEW p \in Proc, Leave(p), Holds(mgr, p), UNCHANGED lock,
         task[p].at \in {"manager", "closed", "sweep"}
  PROVE  Queues'
<1>1. QueueStep(p, AtRest)
  BY AsksNone DEF QueueStep, Leave
<1>. QED BY <1>1, AtRestType, QueuesStep

LEMMA QueuesStartConnect ==
  ASSUME Typed, Queues, NEW p \in Proc, NEW op \in Ops, NEW o \in Obj, NEW c, NEW s \in Sid,
         NEW sesNow, StartConnect(p, op, o, c, s, sesNow), UNCHANGED mgr,
         task[p].at \in {"manager", "closed"}
  PROVE  Queues'
<1>. DEFINE t == [task[p] EXCEPT !.at = "connecting", !.op = op, !.fresh = o, !.sid = s]
<1>1. t \in TaskState /\ t.at = "connecting" /\ t.fresh = o
  BY DEF Typed, TypeOK, TaskState, Places
<1>2. Wants(t, o) /\ t.at \in InsideManager
  BY <1>1 DEF Wants, InsideManager
<1>3. MoveTo(p, t) /\ lock' = [lock EXCEPT ![o] = Acquire(Unlocked, p)] /\ mgr' = mgr
  BY DEF StartConnect
<1>. HIDE DEF t
<1>4. \A x \in Obj : ~Wants(task[p], x)
  BY AsksNone
<1>5. QueueStep(p, t)
  <2>1. mgr' = mgr /\ (task[p].at \in InsideManager => t.at \in InsideManager)
    BY <1>2, <1>3
  <2>2. \E x \in Obj : /\ lock' = [lock EXCEPT ![x] = Acquire(Unlocked, p)]
                       /\ \A y \in Obj : ~Wants(task[p], y)
                       /\ Wants(t, x)
    BY <1>2, <1>3, <1>4
  <2>. QED BY <1>3, <2>1, <2>2 DEF QueueStep
<1>. QED BY <1>1, <1>5, QueuesStep

LEMMA QueuesCallDisconnect ==
  ASSUME Typed, Queues, NEW p \in Proc, NEW op \in Ops \cup {None}, NEW s \in Sid,
         NEW o \in Obj, NEW todo \in SUBSET Sid, CallDisconnect(p, op, s, o, todo),
         UNCHANGED mgr, task[p].at \in {"manager", "sweep"}
  PROVE  Queues'
<1>. DEFINE t == [task[p] EXCEPT !.at = "disconnect", !.op = op, !.sid = s,
                               !.cur = o, !.todo = todo]
<1>1. t \in TaskState /\ t.at = "disconnect" /\ t.cur = o
  BY DEF Typed, TypeOK, TaskState, Places
<1>2. Wants(t, o) /\ t.at \in InsideManager
  BY <1>1 DEF Wants, InsideManager
<1>3. MoveTo(p, t) /\ lock' = [lock EXCEPT ![o] = Acquire(@, p)] /\ mgr' = mgr
  BY DEF CallDisconnect
<1>. HIDE DEF t
<1>4. \A x \in Obj : ~Wants(task[p], x)
  BY AsksNone
<1>5. QueueStep(p, t)
  <2>1. mgr' = mgr /\ (task[p].at \in InsideManager => t.at \in InsideManager)
    BY <1>2, <1>3
  <2>2. \E x \in Obj : /\ lock' = [lock EXCEPT ![x] = Acquire(@, p)]
                       /\ \A y \in Obj : ~Wants(task[p], y)
                       /\ Wants(t, x)
    BY <1>2, <1>3, <1>4
  <2>. QED BY <1>3, <2>1, <2>2 DEF QueueStep
<1>. QED BY <1>1, <1>5, QueuesStep

\* A step inside the manager lock that touches no session lock.
LEMMA QueuesInside ==
  ASSUME Typed, Queues, NEW p \in Proc, NEW t \in TaskState, MoveTo(p, t),
         UNCHANGED <<mgr, lock>>, task[p].at \in {"manager", "closed", "sweep"},
         t.at = "sweep"
  PROVE  Queues'
<1>1. QueueStep(p, t)
  BY AsksNone DEF QueueStep, InsideManager
<1>. QED BY <1>1, QueuesStep

\* Work on session o ends.
LEMMA QueuesReleases ==
  ASSUME Typed, Queues, NEW p \in Proc, NEW t \in TaskState, MoveTo(p, t), NEW o \in Obj,
         Holds(lock[o], p), lock' = [lock EXCEPT ![o] = Release(@)],
         \A x \in Obj \ {o} : ~Wants(task[p], x),
         \/ mgr' = mgr /\ (task[p].at \in InsideManager => t.at \in InsideManager)
         \/ mgr' = Release(mgr) /\ Holds(mgr, p)
  PROVE  Queues'
<1>1. QueueStep(p, t)
  BY DEF QueueStep
<1>. QED BY <1>1, QueuesStep

LEMMA QueuesCreate ==
  ASSUME Typed, Queues, NEW p \in Proc, Create(p) PROVE Queues'
<1>. PICK c \in Conf : CreateReuses(p, c) \/ CreateRefused(p, c) \/ CreateConnects(p, c)
  BY DEF Create
<1>1. CASE CreateReuses(p, c)
  BY <1>1, QueuesLeave DEF CreateReuses, Enters, At
<1>2. CASE CreateRefused(p, c)
  BY <1>2, QueuesLeave DEF CreateRefused, Enters, At
<1>3. CASE CreateConnects(p, c)
  <2>. DEFINE now == Probed({sessions[x] : x \in Entries})
  <2>1. PICK o \in Obj, s \in Sid : StartConnect(p, "create", o, c, s, now)
    BY <1>3 DEF CreateConnects
  <2>2. task[p].at = "manager" /\ mgr' = mgr
    BY <1>3 DEF CreateConnects, Enters, At
  <2>. HIDE DEF now
  <2>. QED BY <2>1, <2>2, QueuesStartConnect DEF Ops
<1>. QED BY <1>1, <1>2, <1>3

LEMMA QueuesGet ==
  ASSUME Typed, Queues, NEW p \in Proc, Get(p) PROVE Queues'
<1>1. ASSUME NEW s \in Sid, GetMissing(p, s) PROVE Queues'
  BY <1>1, QueuesLeave DEF GetMissing, Enters, At
<1>2. ASSUME NEW s \in Sid, GetLive(p, s) PROVE Queues'
  <2>. DEFINE t == [AtRest EXCEPT !.at = "holding", !.op = "use", !.cur = sessions[s]]
  <2>1. sessions[s] \in Obj
    BY <1>2, EntryType DEF GetLive, Typed
  <2>2. t \in TaskState
    BY <2>1 DEF AtRest, TaskState, Places, Ops
  <2>3. /\ MoveTo(p, t) /\ UNCHANGED lock /\ task[p].at = "manager"
        /\ mgr' = Release(mgr) /\ Holds(mgr, p)
    BY <1>2 DEF GetLive, Enters, At
  <2>. HIDE DEF t
  <2>4. QueueStep(p, t)
    BY <2>3, AsksNone DEF QueueStep
  <2>. QED BY <2>2, <2>4, QueuesStep
<1>3. ASSUME NEW s \in Sid, GetDead(p, s) PROVE Queues'
  <2>1. sessions[s] \in Obj /\ {} \in SUBSET Sid
    BY <1>3, EntryType DEF GetDead, Typed
  <2>2. PICK op \in Ops : CallDisconnect(p, op, s, sessions[s], {})
    BY <1>3 DEF GetDead, Ops
  <2>3. task[p].at = "manager" /\ mgr' = mgr
    BY <1>3 DEF GetDead, Enters, At
  <2>. QED BY <2>1, <2>2, <2>3, QueuesCallDisconnect
<1>4. CASE GetDiscards(p)
  BY <1>4, QueuesLeave DEF GetDiscards, InManager, At
<1>5. CASE Rebuild(p)
  <2>1. PICK o \in Obj : StartConnect(p, "use", o, ses[task[p].cur].conf, task[p].sid, ses)
    BY <1>5 DEF Rebuild
  <2>2. task[p].sid \in Sid /\ task[p].at = "closed" /\ mgr' = mgr
    BY <1>5 DEF Rebuild, InManager, At, Typed, Located
  <2>. QED BY <2>1, <2>2, QueuesStartConnect DEF Ops
<1>6. CASE RebuildNoRoom(p)
  BY <1>6, QueuesLeave DEF RebuildNoRoom, InManager, At
<1>. QED BY <1>1, <1>2, <1>3, <1>4, <1>5, <1>6 DEF Get

LEMMA QueuesConnect ==
  ASSUME Typed, Queues, NEW p \in Proc, Connect(p) PROVE Queues'
<1>. DEFINE o == task[p].fresh
            t == [AtRest EXCEPT !.at = "holding", !.op = "use", !.cur = o]
<1>1. /\ o \in Obj /\ Holds(lock[o], p) /\ lock' = [lock EXCEPT ![o] = Release(@)]
      /\ MoveTo(p, AtRest) \/ MoveTo(p, t)
      /\ mgr' = Release(mgr) /\ Holds(mgr, p) /\ task[p].at = "connecting"
  BY DEF Connect, ConnectSucceeds, ConnectFails, Leave, At, Typed, Located
<1>2. \A x \in Obj \ {o} : ~Wants(task[p], x)
  BY <1>1 DEF Wants
<1>3. t \in TaskState
  BY <1>1 DEF AtRest, TaskState, Places, Ops
<1>. HIDE DEF t
<1>. QED BY <1>1, <1>2, <1>3, AtRestType, QueuesReleases

LEMMA QueuesDisconnect ==
  ASSUME Typed, Queues, NEW p \in Proc, Disconnect(p) PROVE Queues'
<1>. DEFINE o == task[p].cur
<1>1. CASE DisconnectCloses(p)
  <2>. DEFINE t == [task[p] EXCEPT !.at = "closing"]
  <2>1. t \in TaskState /\ t.at = "closing" /\ t.cur = o
    BY DEF Typed, TypeOK, TaskState, Places
  <2>2. task[p].at = "disconnect" /\ MoveTo(p, t) /\ mgr' = mgr /\ lock' = lock
    BY <1>1 DEF DisconnectCloses, At
  <2>. HIDE DEF t
  <2>3. QueueStep(p, t)
    BY <2>1, <2>2 DEF QueueStep, Wants, InsideManager
  <2>. QED BY <2>1, <2>3, QueuesStep
<1>2. CASE DisconnectEnds(p)
  <2>. DEFINE t == [task[p] EXCEPT !.at = "closed"]
  <2>1. t \in TaskState /\ t.at = "closed"
    BY DEF Typed, TypeOK, TaskState, Places
  <2>2. o \in Obj /\ task[p].at \in {"closing", "disconnect"}
    BY <1>2 DEF DisconnectEnds, At, Typed, Located
  <2>3. /\ Holds(lock[o], p) /\ lock' = [lock EXCEPT ![o] = Release(@)] /\ MoveTo(p, t)
        /\ mgr' = mgr
    BY <1>2 DEF DisconnectEnds
  <2>4. \A x \in Obj \ {o} : ~Wants(task[p], x)
    BY <2>2 DEF Wants
  <2>. HIDE DEF t
  <2>. QED BY <2>1, <2>2, <2>3, <2>4, QueuesReleases DEF InsideManager
<1>. QED BY <1>1, <1>2 DEF Disconnect

LEMMA QueuesClose ==
  ASSUME Typed, Queues, NEW p \in Proc, Close(p) PROVE Queues'
<1>1. ASSUME NEW s \in Sid, CloseMissing(p, s) PROVE Queues'
  BY <1>1, QueuesLeave DEF CloseMissing, Enters, At
<1>2. ASSUME NEW s \in Sid, ClosePops(p, s) PROVE Queues'
  <2>1. sessions[s] \in Obj /\ {} \in SUBSET Sid /\ "close" \in Ops
    BY <1>2, EntryType DEF ClosePops, Typed, Ops
  <2>2. task[p].at = "manager" /\ mgr' = mgr
    BY <1>2 DEF ClosePops, Enters, At
  <2>. QED BY <1>2, <2>1, <2>2, QueuesCallDisconnect DEF ClosePops
<1>3. CASE CloseReturns(p)
  BY <1>3, QueuesLeave DEF CloseReturns, InManager, At
<1>. QED BY <1>1, <1>2, <1>3 DEF Close

LEMMA QueuesSweep ==
  ASSUME Typed, ManagerHeld, Queues, NEW p \in Proc, Sweep(p) PROVE Queues'
<1>1. ASSUME NEW op \in {"close_all", "cleanup"}, SweepCollects(p, op) PROVE Queues'
  <2>. DEFINE todo == {s \in Entries : op = "cleanup" => ses[sessions[s]].idle}
              t == [AtRest EXCEPT !.at = "sweep", !.op = op, !.todo = todo]
  <2>1. /\ MoveTo(p, t) /\ UNCHANGED <<mgr, lock>> /\ todo \in SUBSET Sid
        /\ task[p].at = "manager"
    BY <1>1 DEF SweepCollects, Entries, Enters, At
  <2>. HIDE DEF todo
  <2>2. t \in TaskState /\ t.at = "sweep"
    BY <2>1 DEF AtRest, TaskState, Places, Ops
  <2>. HIDE DEF t
  <2>. QED BY <2>1, <2>2, QueuesInside
<1>2. CASE SweepCloses(p)
  <2>1. PICK s \in task[p].todo :
          CallDisconnect(p, task[p].op, s, sessions[s], task[p].todo \ {s})
    BY <1>2 DEF SweepCloses
  <2>. DEFINE op == task[p].op
              o == sessions[s]
              rest == task[p].todo \ {s}
  <2>2. s \in Sid /\ o \in Obj
    BY <2>1, EntryType DEF Typed, ManagerHeld, Entries
  <2>3. rest \in SUBSET Sid /\ op \in Ops \cup {None}
    BY DEF Typed, TypeOK, TaskState
  <2>4. CallDisconnect(p, op, s, o, rest) /\ task[p].at = "sweep" /\ mgr' = mgr
    BY <1>2, <2>1 DEF SweepCloses, At
  <2>. HIDE DEF op, o, rest
  <2>. QED BY <2>2, <2>3, <2>4, QueuesCallDisconnect
<1>3. CASE SweepContinues(p)
  <2>. DEFINE t == [task[p] EXCEPT !.at = "sweep", !.sid = None, !.cur = None]
  <2>1. t \in TaskState /\ t.at = "sweep"
    BY DEF Typed, TypeOK, TaskState, Places
  <2>2. MoveTo(p, t) /\ UNCHANGED <<mgr, lock>> /\ task[p].at = "closed"
    BY <1>3 DEF SweepContinues, At
  <2>. HIDE DEF t
  <2>. QED BY <2>1, <2>2, QueuesInside
<1>4. CASE SweepEnds(p)
  BY <1>4, QueuesLeave DEF SweepEnds, At
<1>. QED BY <1>1, <1>2, <1>3, <1>4 DEF Sweep

LEMMA QueuesUse ==
  ASSUME Typed, Queues, NEW p \in Proc, Use(p) PROVE Queues'
<1>. DEFINE o == task[p].cur
<1>1. ASSUME NEW place \in {"locking", "command", "transfer"} PROVE
        LET t == [task[p] EXCEPT !.at = place]
        IN  t \in TaskState /\ t.at = place /\ t.cur = o
  BY DEF Typed, TypeOK, TaskState, Places
<1>2. CASE Drop(p) \/ UseRefused(p)
  <2>1. MoveTo(p, AtRest) /\ mgr' = mgr /\ lock' = lock /\ task[p].at = "holding"
    BY <1>2 DEF Drop, UseRefused, At
  <2>2. QueueStep(p, AtRest)
    BY <2>1, AsksNone DEF QueueStep, InsideManager
  <2>. QED BY <2>2, AtRestType, QueuesStep
<1>3. CASE UseAccepted(p)
  <2>. DEFINE t == [task[p] EXCEPT !.at = "locking"]
  <2>1. o \in Obj /\ task[p].at = "holding"
    BY <1>3 DEF UseAccepted, At, Typed, Located
  <2>2. MoveTo(p, t) /\ mgr' = mgr /\ lock' = [lock EXCEPT ![o] = Acquire(@, p)]
    BY <1>3 DEF UseAccepted
  <2>3. t \in TaskState /\ Wants(t, o)
    BY <1>1 DEF Wants
  <2>. HIDE DEF t
  <2>4. \A x \in Obj : ~Wants(task[p], x)
    BY <2>1, AsksNone
  <2>5. QueueStep(p, t)
    <3>1. mgr' = mgr /\ (task[p].at \in InsideManager => t.at \in InsideManager)
      BY <2>1, <2>2 DEF InsideManager
    <3>2. \E x \in Obj : /\ lock' = [lock EXCEPT ![x] = Acquire(@, p)]
                         /\ \A y \in Obj : ~Wants(task[p], y)
                         /\ Wants(t, x)
      BY <2>1, <2>2, <2>3, <2>4
    <3>. QED BY <2>2, <3>1, <3>2 DEF QueueStep
  <2>. QED BY <2>3, <2>5, QueuesStep
<1>4. ASSUME NEW place \in {"command", "transfer"}, task[p].at = "locking",
             UNCHANGED <<mgr, lock>>, MoveTo(p, [task[p] EXCEPT !.at = place])
      PROVE  Queues'
  <2>. DEFINE t == [task[p] EXCEPT !.at = place]
  <2>1. t \in TaskState /\ t.at = place /\ t.cur = o
    BY <1>1
  <2>2. MoveTo(p, t)
    BY <1>4
  <2>. HIDE DEF t
  <2>3. QueueStep(p, t)
    BY <1>4, <2>1, <2>2 DEF QueueStep, Wants, InsideManager
  <2>. QED BY <2>1, <2>3, QueuesStep
<1>5. CASE CommandStarts(p) \/ TransferStarts(p)
  BY <1>4, <1>5 DEF CommandStarts, TransferStarts, At
<1>6. ASSUME NEW place \in {"command", "transfer"}, NEW st, EndUse(p, place, st)
      PROVE  Queues'
  <2>1. o \in Obj /\ task[p].at = place
    BY <1>6 DEF EndUse, At, Typed, Located
  <2>2. \A x \in Obj \ {o} : ~Wants(task[p], x)
    BY <2>1 DEF Wants
  <2>3. /\ MoveTo(p, AtRest) /\ Holds(lock[o], p) /\ lock' = [lock EXCEPT ![o] = Release(@)]
        /\ mgr' = mgr /\ task[p].at \notin InsideManager
    BY <1>6, <2>1 DEF EndUse, InsideManager
  <2>. QED BY <2>1, <2>2, <2>3, AtRestType, QueuesReleases
<1>7. CASE CommandReturns(p) \/ CommandFails(p) \/ TransferEnds(p)
  BY <1>6, <1>7 DEF CommandReturns, CommandFails, TransferEnds
<1>. QED BY <1>2, <1>3, <1>5, <1>7 DEF Use

LEMMA QueuesRequest ==
  ASSUME Typed, Queues, NEW p \in Proc, Request(p) PROVE Queues'
<1>. DEFINE t == [AtRest EXCEPT !.at = "manager"]
<1>1. t \in TaskState /\ t.at = "manager"
  BY DEF AtRest, TaskState, Places, Ops
<1>2. MoveTo(p, t) /\ mgr' = Acquire(mgr, p) /\ lock' = lock /\ task[p].at = "idle"
  BY DEF Request, At
<1>. HIDE DEF t
<1>3. QueueStep(p, t)
  BY <1>1, <1>2, AsksNone DEF QueueStep, InsideManager
<1>. QED BY <1>1, <1>3, QueuesStep

LEMMA QueuesNext ==
  ASSUME Guarded, Queues, [Next]_vars PROVE Queues'
<1>1. CASE UNCHANGED <<mgr, lock, task>>
  BY <1>1 DEF Queues, Standing, AtManager, AtSession, Wants
<1>2. CASE ObjectStep
  BY <1>1, <1>2, TypedObjectStep DEF Guarded
<1>3. ASSUME NEW p \in Proc, Request(p) PROVE Queues'
  BY <1>3, QueuesRequest DEF Guarded
<1>4. ASSUME NEW p \in Proc, Step(p) PROVE Queues'
  BY <1>4, QueuesCreate, QueuesGet, QueuesConnect, QueuesDisconnect, QueuesClose,
     QueuesSweep, QueuesUse DEF Step, Guarded
<1>5. CASE UNCHANGED vars
  BY <1>1, <1>5 DEF vars
<1>. QED BY <1>2, <1>3, <1>4, <1>5, NextParts

\* No calls wait for each other in a circle, however many there are: disconnect waits for
\* the lock of a session inside the manager lock, and nobody asks for the manager lock
\* while it holds a session's (session_manager.py:728).
THEOREM NoCircularWaitCorrect == Spec => []NoCircularWait
<1>1. Init => Queues
  BY DEF Init, Queues, Standing, Unlocked
<1>2. Guarded /\ Queues /\ [Next]_vars => Queues'
  BY QueuesNext
<1>3. Guarded /\ Queues => NoCircularWait
  <2>. SUFFICES ASSUME Guarded, Queues PROVE NoCircularWait
    OBVIOUS
  <2>1. \A q \in Seq(Proc) : q # Unlocked => 1 \in DOMAIN q /\ Head(q) = q[1]
    BY DEF Unlocked
  <2>2. mgr \in Seq(Proc) /\ \A o \in Obj : lock[o] \in Seq(Proc)
    BY DEF Guarded, Typed, TypeOK
  <2>. QED BY <2>1, <2>2 DEF NoCircularWait, Queues, Standing, AtManager, AtSession
<1>. QED BY <1>1, <1>2, <1>3, GuardedCorrect, PTL DEF Spec
=============================================================================
