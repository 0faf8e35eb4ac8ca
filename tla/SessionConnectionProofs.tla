----------------------- MODULE SessionConnectionProofs -----------------------
(***************************************************************************)
(* Proofs about the connections of the sessions: an open one has an owner, *)
(* a connected session has its keepalive loop, and create_session stays    *)
(* within its limits.  They rest on Guarded and Directory: an object that  *)
(* is closed, or connected, for an id is not reached by another coroutine  *)
(* that could open or remove it.                                           *)
(***************************************************************************)
EXTENDS SessionDirectoryProofs, FiniteSetTheorems

\* An open connection that is not the leftover of a failed connect.
Open(o) == ses[o].client = "up" /\ ses[o].state # "error"

Closes(t, o) == t.cur = o /\ t.at \in {"disconnect", "closing"}

\* What coroutine state t, inside the manager lock, relies on: the object it has closed
\* stays without a client until it is replaced or its entry removed, and close_all has
\* closed the entries that are not on its list any more.
Parting(t, dir, os) ==
  /\ t.at = "closed" \/ (t.at = "connecting" /\ t.op = "use") => os[t.cur].client = "none"
  /\ t.at \in {"disconnect", "closing", "closed"} /\ t.op \in {"discard", "cleanup"} =>
       dir[t.sid] = t.cur
  /\ t.at = "sweep" => t.cur = None
  /\ t.at \in {"sweep", "disconnect", "closing", "closed"} /\ t.op = "close_all" =>
       \A s \in Sid \ t.todo : dir[s] # None =>
         dir[s] = t.cur \/ os[dir[s]].client = "none"

\* Nobody has the object of a failed connect, and nobody but its maker one that is being
\* connected.
Clean == \A o \in Obj : ses[o].state = "error" =>
           (\A s \in Sid : sessions[s] # o) /\ (\A p \in Proc : task[p].cur # o)
Apart == \A p, q \in Proc : task[p].at = "connecting" => task[q].cur # task[p].fresh

Connections ==
  /\ Monitored /\ NoLeak /\ Clean /\ Apart
  /\ \A p \in Proc : Parting(task[p], sessions, ses)

-----------------------------------------------------------------------------
(* The steps of a coroutine as the connections see them.                   *)

\* What every step but the end of a connect leaves of session o: none opens, none gets
\* connected, and none gets into the state of a failed connect; nor does one that counts
\* as connected lose its loop.
Calm(o) ==
  /\ ses[o].client = "none" => ses'[o].client = "none"
  /\ ses'[o].state = "error" => ses[o].state = "error"
  /\ Open(o)' => Open(o)
  /\ IsConnected(o)' => IsConnected(o)

Steady(o) == IsConnected(o)' => ses'[o].watched = ses[o].watched

Named(o) == \E s \in Sid : sessions[s] = o

ConnectionStep(p, t) ==
  /\ MoveTo(p, t)
  /\ sessions' = sessions \/ Removes(p)
  /\ \A o \in Obj : Calm(o) /\ (Steady(o) \/ (t.cur = o /\ t.at = "closing"))
  /\ Parting(t, sessions', ses')
  /\ t.cur = None \/ t.cur = task[p].cur \/ \E s \in Sid : t.cur = sessions[s]
  /\ t.at = "connecting" =>
       /\ t.cur = task[p].cur /\ Free(t.fresh)
       /\ t.op = "create" => ~LimitReached(ses'[t.fresh].conf)
  /\ task[p].at = "closing" => ses'[task[p].cur].client # "up"
  /\ \A o \in Obj : Open(o)' /\ (Closes(task[p], o) \/ Named(o)) =>
                      Closes(t, o) \/ Named(o)'

LEMMA Moved ==
  ASSUME Guarded, NEW p \in Proc, NEW t, MoveTo(p, t)
  PROVE  \A q \in Proc : task'[q] = IF q = p THEN t ELSE task[q]
BY DEF MoveTo, Guarded, Typed, TypeOK

LEMMA PartingElsewhere ==
  ASSUME Guarded, Directory, Connections, NEW p \in Proc, NEW q \in Proc, q # p,
         task'[q] = task[q],
         sessions' = sessions \/ Holds(mgr, p),
         task[q].at \in Managed => \A o \in Obj : ses[o].client = "none" => ses'[o].client = "none"
  PROVE  Parting(task'[q], sessions', ses')
<1>1. Parting(task[q], sessions, ses) /\ Fits(task[q], sessions, ses)
  BY DEF Connections, Directory
<1>2. CASE task[q].at \in Managed
  <2>1. sessions' = sessions
    BY <1>2, OneHolder DEF Guarded, ManagerHeld
  <2>2. task[q].at = "closed" \/ (task[q].at = "connecting" /\ task[q].op = "use") =>
          task[q].cur \in Obj
    BY <1>1 DEF Fits, Guarded, Typed, Located
  <2>3. \A s \in Sid : sessions[s] # None => sessions[s] \in Obj
    BY EntryType DEF Guarded, Typed
  <2>. QED BY <1>1, <1>2, <2>1, <2>2, <2>3 DEF Parting
<1>3. CASE task[q].at \notin Managed
  BY <1>3 DEF Parting, Managed
<1>. QED BY <1>2, <1>3

LEMMA ConnectionsKept ==
  ASSUME Guarded, Directory, Connections, NEW p \in Proc, NEW t \in TaskState,
         ConnectionStep(p, t)
  PROVE  Connections'
<1>1. \A q \in Proc : task'[q] = IF q = p THEN t ELSE task[q]
  BY Moved DEF ConnectionStep
<1>2. sessions' = sessions \/ (Removes(p) /\ Holds(mgr, p))
  BY DEF ConnectionStep, Removes
<1>3. \A o \in Obj : Calm(o)
  BY DEF ConnectionStep
<1>4. ASSUME NEW q \in Proc PROVE Parting(task'[q], sessions', ses')
  <2>1. CASE q = p
    BY <1>1, <2>1 DEF ConnectionStep
  <2>2. CASE q # p
    BY <1>1, <1>2, <1>3, <2>2, PartingElsewhere DEF Calm
  <2>. QED BY <2>1, <2>2
<1>5. Monitored'
  <2> SUFFICES ASSUME NEW o \in Obj, IsConnected(o)'
               PROVE  ses'[o].watched \/ \E q \in Proc : task'[q].at = "closing" /\ task'[q].cur = o
    BY DEF Monitored, At
  <2>1. CASE t.cur = o /\ t.at = "closing"
    BY <1>1, <2>1
  <2>2. CASE Steady(o)
    <3>1. IsConnected(o) /\ ses'[o].watched = ses[o].watched
      BY <1>3, <2>2 DEF Steady, Calm
    <3>2. ses[o].watched \/ \E q \in Proc : task[q].at = "closing" /\ task[q].cur = o
      BY <3>1 DEF Connections, Monitored, At
    <3>3. ~(task[p].at = "closing" /\ task[p].cur = o)
      BY DEF ConnectionStep, IsConnected
    <3>. QED BY <1>1, <3>1, <3>2, <3>3
  <2>. QED BY <2>1, <2>2 DEF ConnectionStep
<1>6. NoLeak'
  <2> SUFFICES ASSUME NEW o \in Obj, Open(o)'
               PROVE  Named(o)' \/ \E q \in Proc : Closes(task'[q], o)
    BY DEF NoLeak, Open, Named, Closes
  <2>1. Open(o)
    BY <1>3 DEF Calm
  <2>2. Named(o) \/ \E q \in Proc : Closes(task[q], o)
    BY <2>1 DEF Connections, NoLeak, Open, Named, Closes
  <2>3. CASE Named(o) \/ Closes(task[p], o)
    BY <1>1, <2>3 DEF ConnectionStep
  <2>4. ASSUME NEW q \in Proc, q # p, Closes(task[q], o)
        PROVE  \E r \in Proc : Closes(task'[r], o)
    BY <1>1, <2>4
  <2>. QED BY <2>2, <2>3, <2>4
<1>7. Clean'
  <2> SUFFICES ASSUME NEW o \in Obj, ses'[o].state = "error"
               PROVE  /\ \A s \in Sid : sessions'[s] # o
                      /\ \A q \in Proc : task'[q].cur # o
    BY DEF Clean
  <2>1. (\A s \in Sid : sessions[s] # o) /\ (\A q \in Proc : task[q].cur # o)
    BY <1>3 DEF Calm, Connections, Clean
  <2>2. t.cur # o
    BY <2>1, ConstantsAssumption DEF ConnectionStep
  <2>. QED BY <1>1, <1>2, <2>1, <2>2, ConstantsAssumption DEF Removes
<1>8. Apart'
  <2> SUFFICES ASSUME NEW q \in Proc, NEW r \in Proc, task'[q].at = "connecting"
               PROVE  task'[r].cur # task'[q].fresh
    BY DEF Apart
  <2>1. CASE q = p
    BY <1>1, <2>1 DEF ConnectionStep, Free
  <2>2. CASE q # p
    <3>1. task'[q] = task[q] /\ task[q].fresh \in Obj
      BY <1>1, <2>2 DEF Guarded, Typed, Located
    <3>2. \A s \in Sid : sessions[s] # task[q].fresh
      BY <3>1 DEF Directory, Fits
    <3>3. \A x \in Proc : task[x].cur # task[q].fresh
      BY <3>1 DEF Connections, Apart
    <3>4. t.cur # task[q].fresh
      BY <3>1, <3>2, <3>3, ConstantsAssumption DEF ConnectionStep
    <3>. QED BY <1>1, <3>1, <3>3, <3>4
  <2>. QED BY <2>1, <2>2
<1>. QED BY <1>4, <1>5, <1>6, <1>7, <1>8 DEF Connections

-----------------------------------------------------------------------------
(* What the changes to a session object leave as it is.                    *)

LEMMA CalmUnchanged ==
  ASSUME UNCHANGED ses PROVE \A o \in Obj : Calm(o) /\ Steady(o)
BY DEF Calm, Steady, Open, IsConnected

LEMMA CalmProbed ==
  ASSUME TypeOK, NEW S, ses' = Probed(S)
  PROVE  \A o \in Obj : Calm(o) /\ Steady(o)
<1> SUFFICES ASSUME NEW o \in Obj PROVE Calm(o) /\ Steady(o)
  OBVIOUS
<1>1. ses[o] \in Session
  BY DEF TypeOK
<1>2. CASE o \in S /\ ses[o].state = "connected" /\ ses[o].client = "down"
  <2> DEFINE r == [ses[o] EXCEPT !.state = "disconnected"]
  <2>1. r.state = "disconnected" /\ r.client = "down"
    BY <1>1, <1>2 DEF Session
  <2>2. ses'[o] = r
    BY <1>2 DEF Probed
  <2> HIDE DEF r
  <2>. QED BY <1>2, <2>1, <2>2 DEF Calm, Steady, Open, IsConnected
<1>3. CASE ~(o \in S /\ ses[o].state = "connected" /\ ses[o].client = "down")
  <2>1. ses'[o] = ses[o]
    BY <1>3 DEF Probed
  <2>. QED BY <2>1 DEF Calm, Steady, Open, IsConnected
<1>. QED BY <1>2, <1>3

\* One object changes.
LEMMA CalmBecomes ==
  ASSUME TypeOK, NEW o \in Obj, NEW r \in Session, Becomes(o, r),
         ses[o].client = "none" => r.client = "none",
         r.state = "error" => ses[o].state = "error",
         r.client = "up" /\ r.state # "error" => Open(o),
         r.client = "up" /\ r.state = "connected" =>
           IsConnected(o) /\ r.watched = ses[o].watched
  PROVE  \A x \in Obj : Calm(x) /\ Steady(x)
<1>1. \A x \in Obj : ses'[x] = IF x = o THEN r ELSE ses[x]
  BY DEF Becomes, TypeOK
<1>. QED BY <1>1 DEF Calm, Steady, Open, IsConnected

-----------------------------------------------------------------------------
(* Every operation as the connections see it.                              *)

\* A step outside the two locks' awaits, which leaves the directory alone.
Plain == {"idle", "manager", "holding", "locking", "command", "transfer"}

LEMMA PlainStep ==
  ASSUME NEW p \in Proc, NEW t \in TaskState, MoveTo(p, t), t.at \in Plain,
         UNCHANGED sessions, \A o \in Obj : Calm(o) /\ Steady(o),
         task[p].at \notin {"disconnect", "closing"},
         t.cur = None \/ t.cur = task[p].cur \/ \E s \in Sid : t.cur = sessions[s]
  PROVE  \E u \in TaskState : ConnectionStep(p, u)
<1>1. Parting(t, sessions', ses')
  BY DEF Parting, Plain
<1>. QED BY <1>1 DEF ConnectionStep, Named, Closes, Plain

LEMMA PlainAtRest ==
  ASSUME NEW p \in Proc, MoveTo(p, AtRest), UNCHANGED sessions,
         \A o \in Obj : Calm(o) /\ Steady(o), task[p].at \notin {"disconnect", "closing"}
  PROVE  \E u \in TaskState : ConnectionStep(p, u)
<1>1. AtRest \in TaskState /\ AtRest.at = "idle" /\ AtRest.cur = None
  BY AtRestType DEF AtRest
<1> HIDE DEF AtRest
<1>. QED BY <1>1, PlainStep DEF Plain

\* An object nobody has is connected: it starts without a client.
LEMMA ConnectStarts ==
  ASSUME Guarded, Directory, Connections, NEW p \in Proc, NEW op \in {"create", "use"},
         NEW o \in Obj, Free(o), NEW c \in Conf, NEW s \in Sid,
         NEW now \in [Obj -> Session], StartConnect(p, op, o, c, s, now),
         UNCHANGED sessions, now = ses \/ \E S \in SUBSET Obj : now = Probed(S),
         op = "use" => ses[task[p].cur].client = "none" /\ task[p].cur \in Obj,
         op = "create" => ~LimitReached(c),
         task[p].at \notin {"disconnect", "closing"}
  PROVE  \E t \in TaskState : ConnectionStep(p, t)
<1> DEFINE t == [task[p] EXCEPT !.at = "connecting", !.op = op, !.fresh = o, !.sid = s]
           r == [NewSession(c) EXCEPT !.state = "connecting"]
<1>1. task[p] \in TaskState /\ TypeOK
  BY DEF Guarded, Typed, TypeOK
<1>2. t \in TaskState
  BY <1>1 DEF TaskState, Places, Ops
<1>3. t.at = "connecting" /\ t.op = op /\ t.fresh = o /\ t.cur = task[p].cur
  BY <1>1 DEF TaskState
<1>4. MoveTo(p, t) /\ ses' = [now EXCEPT ![o] = r]
  BY DEF StartConnect
<1>5. r.state = "connecting" /\ r.client = "none" /\ r.conf = c
  BY DEF NewSession
<1> HIDE DEF t, r
<1>6. \A x \in Obj : ses'[x] = IF x = o THEN r ELSE now[x]
  BY <1>4
<1>7. ASSUME NEW x \in Obj
      PROVE  /\ ses[x].client = "none" => now[x].client = "none"
             /\ now[x].state = "error" => ses[x].state = "error"
             /\ now[x].client = "up" /\ now[x].state # "error" => Open(x)
             /\ now[x].client = "up" /\ now[x].state = "connected" =>
                  IsConnected(x) /\ now[x].watched = ses[x].watched
  <2>1. CASE now = ses
    BY <2>1 DEF Open, IsConnected
  <2>2. ASSUME NEW S \in SUBSET Obj, now = Probed(S)
        PROVE  /\ now[x].client = ses[x].client /\ now[x].watched = ses[x].watched
               /\ now[x].state = ses[x].state
                  \/ (now[x].state = "disconnected" /\ ses[x].client = "down")
    <3>1. ses[x] \in Session
      BY <1>1 DEF TypeOK
    <3>2. CASE x \in S /\ ses[x].state = "connected" /\ ses[x].client = "down"
      <4>1. now[x] = [ses[x] EXCEPT !.state = "disconnected"]
        BY <2>2, <3>2 DEF Probed
      <4>. QED BY <3>1, <3>2, <4>1 DEF Session
    <3>3. CASE ~(x \in S /\ ses[x].state = "connected" /\ ses[x].client = "down")
      BY <2>2, <3>3 DEF Probed
    <3>. QED BY <3>2, <3>3
  <2>. QED BY <2>1, <2>2 DEF Open, IsConnected
<1>8. \A x \in Obj : Calm(x) /\ Steady(x)
  BY <1>5, <1>6, <1>7 DEF Calm, Steady, Open, IsConnected
<1>9. Parting(t, sessions', ses')
  <2>1. op = "use" => ses'[task[p].cur].client = "none"
    BY <1>8 DEF Calm
  <2>. QED BY <1>3, <2>1 DEF Parting
<1>. QED BY <1>2, <1>3, <1>4, <1>5, <1>6, <1>8, <1>9 DEF ConnectionStep, Named, Closes

\* An object of the directory is about to be closed.
LEMMA CloseStarts ==
  ASSUME Guarded, Connections, NEW p \in Proc, NEW op \in Ops \cup {None},
         NEW s \in Sid, NEW o \in Obj, sessions[s] = o, NEW todo \in SUBSET Sid,
         CallDisconnect(p, op, s, o, todo), \A x \in Obj : Calm(x) /\ Steady(x),
         task[p].at \notin {"disconnect", "closing"},
         \/ UNCHANGED sessions
         \/ op = "close" /\ Holds(mgr, p) /\ sessions' = [sessions EXCEPT ![s] = None],
         op = "close_all" => \A x \in Sid \ todo : sessions[x] # None =>
                               sessions[x] = o \/ ses'[sessions[x]].client = "none"
  PROVE  \E t \in TaskState : ConnectionStep(p, t)
<1> DEFINE t == [task[p] EXCEPT !.at = "disconnect", !.op = op, !.sid = s,
                               !.cur = o, !.todo = todo]
<1>1. task[p] \in TaskState /\ sessions \in [Sid -> Obj \cup {None}]
  BY DEF Guarded, Typed, TypeOK
<1>2. t \in TaskState
  BY <1>1 DEF TaskState, Places
<1>3. t.at = "disconnect" /\ t.op = op /\ t.sid = s /\ t.cur = o /\ t.todo = todo
  BY <1>1 DEF TaskState
<1>4. MoveTo(p, t)
  BY DEF CallDisconnect
<1> HIDE DEF t
<1>5. task'[p] = t
  BY <1>4, Moved
<1>6. sessions' = sessions \/ Removes(p)
  BY <1>1, <1>3, <1>5 DEF Removes
<1>7. Parting(t, sessions', ses')
  BY <1>3 DEF Parting
<1>8. \A x \in Obj : Named(x) => Closes(t, x) \/ Named(x)'
  BY <1>1, <1>3 DEF Named, Closes
<1>. QED BY <1>2, <1>3, <1>4, <1>6, <1>7, <1>8 DEF ConnectionStep, Closes

LEMMA ConnectionCreate ==
  ASSUME Guarded, Directory, Connections, NEW p \in Proc, Create(p)
  PROVE  \E t \in TaskState : ConnectionStep(p, t)
<1> PICK c \in Conf : CreateReuses(p, c) \/ CreateRefused(p, c) \/ CreateConnects(p, c)
  BY DEF Create
<1>1. TypeOK /\ task[p].at = "manager"
  BY DEF Guarded, Typed, CreateReuses, CreateRefused, CreateConnects, Enters, At
<1>2. CASE CreateReuses(p, c) \/ CreateRefused(p, c)
  <2>1. \A o \in Obj : Calm(o) /\ Steady(o)
    BY <1>1, <1>2, CalmProbed DEF CreateReuses, CreateRefused
  <2>. QED BY <1>1, <1>2, <2>1, PlainAtRest DEF CreateReuses, CreateRefused, Leave
<1>3. CASE CreateConnects(p, c)
  <2> DEFINE S == {sessions[x] : x \in Entries}
             now == Probed(S)
  <2>1. PICK o \in Obj, s \in Sid : Free(o) /\ StartConnect(p, "create", o, c, s, now)
    BY <1>3 DEF CreateConnects
  <2>2. now \in [Obj -> Session] /\ S \in SUBSET Obj
    BY <1>1, ProbedType, EntryType DEF Entries
  <2>3. UNCHANGED sessions /\ ~LimitReached(c)
    BY <1>3 DEF CreateConnects
  <2> HIDE DEF S
  <2>4. \E X \in SUBSET Obj : now = Probed(X)
    BY <2>2
  <2> HIDE DEF now
  <2>. QED BY <1>1, <2>1, <2>2, <2>3, <2>4, ConnectStarts
<1>. QED BY <1>2, <1>3

LEMMA ConnectionGet ==
  ASSUME Guarded, Directory, Connections, NEW p \in Proc, Get(p)
  PROVE  \E t \in TaskState : ConnectionStep(p, t)
<1>1. TypeOK /\ task[p].at \in {"manager", "closed"}
  BY DEF Guarded, Typed, Get, GetMissing, GetLive, GetDead, GetDiscards, Rebuild,
         RebuildNoRoom, Enters, InManager, At
<1>2. task[p].at = "closed" =>
        /\ task[p].cur \in Obj /\ task[p].sid \in Sid /\ ses[task[p].cur].client = "none"
        /\ task[p].op \in {"use", "discard"} => sessions[task[p].sid] = task[p].cur
  BY DEF Guarded, Typed, Located, Directory, Fits, Connections, Parting
<1>3. ASSUME NEW s \in Sid, GetMissing(p, s)
      PROVE  \E t \in TaskState : ConnectionStep(p, t)
  BY <1>1, <1>3, CalmUnchanged, PlainAtRest DEF GetMissing, Leave
<1>4. ASSUME NEW s \in Sid, GetLive(p, s)
      PROVE  \E t \in TaskState : ConnectionStep(p, t)
  <2> DEFINE t == [AtRest EXCEPT !.at = "holding", !.op = "use", !.cur = sessions[s]]
  <2>1. sessions[s] \in Obj
    BY <1>1, <1>4, EntryType DEF GetLive
  <2>2. t \in TaskState /\ t.at = "holding" /\ t.cur = sessions[s]
    BY <2>1 DEF AtRest, TaskState, Places, Ops
  <2>3. MoveTo(p, t) /\ UNCHANGED <<sessions, ses>>
    BY <1>4 DEF GetLive
  <2> HIDE DEF t
  <2>. QED BY <1>1, <2>2, <2>3, CalmUnchanged, PlainStep DEF Plain
<1>5. ASSUME NEW s \in Sid, GetDead(p, s)
      PROVE  \E t \in TaskState : ConnectionStep(p, t)
  <2>1. sessions[s] \in Obj /\ {} \in SUBSET Sid /\ UNCHANGED sessions
    BY <1>1, <1>5, EntryType DEF GetDead
  <2>2. PICK op \in {"use", "discard"} : CallDisconnect(p, op, s, sessions[s], {})
    BY <1>5 DEF GetDead
  <2>3. \A o \in Obj : Calm(o) /\ Steady(o)
    BY <1>1, <1>5, CalmProbed DEF GetDead
  <2>4. task[p].at = "manager" /\ op \in Ops \cup {None} /\ op # "close_all"
    BY <1>5 DEF GetDead, Enters, At, Ops
  <2>. QED BY <2>1, <2>2, <2>3, <2>4, CloseStarts
<1>6. CASE GetDiscards(p)
  <2>1. MoveTo(p, AtRest) /\ UNCHANGED ses /\ sessions' = [sessions EXCEPT ![task[p].sid] = None]
    BY <1>6 DEF GetDiscards, Leave
  <2>2. Removes(p)
    BY <1>1, <1>6 DEF GetDiscards, InManager, Removes, TypeOK
  <2>3. AtRest.at = "idle" /\ AtRest.cur = None /\ AtRest \in TaskState
    BY AtRestType DEF AtRest
  <2>4. task[p].at = "closed" /\ task[p].op = "discard"
    BY <1>6 DEF GetDiscards, InManager, At
  <2>5. ASSUME NEW o \in Obj, Open(o)', Named(o) PROVE Named(o)'
    <3>1. o # task[p].cur
      BY <1>2, <2>1, <2>4, <2>5 DEF Open
    <3>. QED BY <1>1, <1>2, <2>1, <2>4, <2>5, <3>1 DEF Named, TypeOK
  <2> HIDE DEF AtRest
  <2>6. Parting(AtRest, sessions', ses')
    BY <2>3 DEF Parting
  <2>. QED BY <2>1, <2>2, <2>3, <2>4, <2>5, <2>6, CalmUnchanged DEF ConnectionStep, Closes
<1>7. CASE Rebuild(p)
  <2> DEFINE c == ses[task[p].cur].conf
             s == task[p].sid
  <2>1. PICK o \in Obj : Free(o) /\ StartConnect(p, "use", o, c, s, ses)
    BY <1>7 DEF Rebuild
  <2>2. task[p].at = "closed" /\ UNCHANGED sessions
    BY <1>7 DEF Rebuild, InManager, At
  <2>3. ses \in [Obj -> Session] /\ c \in Conf /\ s \in Sid
    BY <1>1, <1>2, <2>2 DEF TypeOK, Session
  <2> HIDE DEF c, s
  <2>. QED BY <1>2, <2>1, <2>2, <2>3, ConnectStarts
<1>8. CASE RebuildNoRoom(p)
  <2>1. UNCHANGED sessions
    BY <1>1, <1>2, <1>8 DEF RebuildNoRoom, InManager, At, TypeOK
  <2>. QED BY <1>1, <1>8, <2>1, CalmUnchanged, PlainAtRest DEF RebuildNoRoom, Leave
<1>. QED BY <1>3, <1>4, <1>5, <1>6, <1>7, <1>8 DEF Get

LEMMA ConnectionDisconnect ==
  ASSUME Guarded, Directory, Connections, NEW p \in Proc, Disconnect(p)
  PROVE  \E t \in TaskState : ConnectionStep(p, t)
<1> DEFINE o == task[p].cur
<1>1. /\ TypeOK /\ task[p] \in TaskState /\ o \in Obj /\ ses[o] \in Session
      /\ task[p].at \in {"disconnect", "closing"} /\ UNCHANGED sessions
  BY DEF Disconnect, DisconnectCloses, DisconnectEnds, At, Guarded, Typed, TypeOK, Located
<1>2. Parting(task[p], sessions, ses)
  BY DEF Connections
<1>3. CASE DisconnectCloses(p)
  <2> DEFINE t == [task[p] EXCEPT !.at = "closing"]
             r == [ses[o] EXCEPT !.watched = FALSE]
  <2>1. t \in TaskState
    BY <1>1 DEF TaskState, Places
  <2>2. /\ t.at = "closing" /\ t.op = task[p].op /\ t.cur = o /\ t.sid = task[p].sid
        /\ t.todo = task[p].todo
    BY <1>1 DEF TaskState
  <2>3. r.client = ses[o].client /\ r.state = ses[o].state
    BY <1>1 DEF Session
  <2>4. MoveTo(p, t) /\ Becomes(o, r) /\ task[p].at = "disconnect"
    BY <1>3 DEF DisconnectCloses, At
  <2> HIDE DEF t, r
  <2>5. \A x \in Obj : ses'[x] = IF x = o THEN r ELSE ses[x]
    BY <1>1, <2>4 DEF Becomes, TypeOK
  <2>6. \A x \in Obj : Calm(x) /\ (Steady(x) \/ x = o)
    BY <2>3, <2>5 DEF Calm, Steady, Open, IsConnected
  <2>7. \A s \in Sid : sessions[s] # None => sessions[s] \in Obj
    BY <1>1, EntryType
  <2>8. Parting(t, sessions', ses')
    BY <1>1, <1>2, <2>2, <2>4, <2>6, <2>7 DEF Parting, Calm
  <2>. QED BY <1>1, <2>1, <2>2, <2>4, <2>6, <2>8 DEF ConnectionStep, Closes, Named
<1>4. CASE DisconnectEnds(p)
  <2> DEFINE t == [task[p] EXCEPT !.at = "closed"]
             r == [ses[o] EXCEPT !.watched = FALSE, !.client = "none",
                                 !.state = "disconnected"]
  <2>1. t \in TaskState
    BY <1>1 DEF TaskState, Places
  <2>2. /\ t.at = "closed" /\ t.op = task[p].op /\ t.cur = o /\ t.sid = task[p].sid
        /\ t.todo = task[p].todo
    BY <1>1 DEF TaskState
  <2>3. r \in Session /\ r.client = "none" /\ r.state = "disconnected"
    BY <1>1 DEF Session, State
  <2>4. MoveTo(p, t) /\ Becomes(o, r)
    BY <1>4 DEF DisconnectEnds
  <2> HIDE DEF t, r
  <2>5. ses'[o] = r
    BY <1>1, <2>4 DEF Becomes, TypeOK
  <2>6. \A x \in Obj : Calm(x) /\ Steady(x)
    BY <1>1, <2>3, <2>4, CalmBecomes
  <2>7. \A s \in Sid : sessions[s] # None => sessions[s] \in Obj
    BY <1>1, EntryType
  <2>8. Parting(t, sessions', ses')
    BY <1>1, <1>2, <2>2, <2>3, <2>5, <2>6, <2>7 DEF Parting, Calm
  <2>9. \A x \in Obj : x = o => ~Open(x)'
    BY <2>3, <2>5 DEF Open
  <2>. QED BY <1>1, <2>1, <2>2, <2>3, <2>4, <2>5, <2>6, <2>8, <2>9
           DEF ConnectionStep, Closes, Named
<1>. QED BY <1>3, <1>4 DEF Disconnect

LEMMA ConnectionClose ==
  ASSUME Guarded, Connections, NEW p \in Proc, Close(p)
  PROVE  \E t \in TaskState : ConnectionStep(p, t)
<1>1. ASSUME NEW s \in Sid, CloseMissing(p, s)
      PROVE  \E t \in TaskState : ConnectionStep(p, t)
  BY <1>1, CalmUnchanged, PlainAtRest DEF CloseMissing, Leave, Enters, At
<1>2. ASSUME NEW s \in Sid, ClosePops(p, s)
      PROVE  \E t \in TaskState : ConnectionStep(p, t)
  <2>1. sessions[s] \in Obj /\ {} \in SUBSET Sid /\ "close" \in Ops \cup {None}
    BY <1>2, EntryType DEF ClosePops, Guarded, Typed, Ops
  <2>2. Holds(mgr, p) /\ sessions' = [sessions EXCEPT ![s] = None]
        /\ task[p].at = "manager" /\ UNCHANGED ses
    BY <1>2 DEF ClosePops, Enters, At
  <2>3. CallDisconnect(p, "close", s, sessions[s], {})
    BY <1>2 DEF ClosePops
  <2>. QED BY <2>1, <2>2, <2>3, CalmUnchanged, CloseStarts
<1>3. CASE CloseReturns(p)
  BY <1>3, CalmUnchanged, PlainAtRest DEF CloseReturns, Leave, InManager, At
<1>. QED BY <1>1, <1>2, <1>3 DEF Close

LEMMA ConnectionSweep ==
  ASSUME Guarded, Directory, Connections, NEW p \in Proc, Sweep(p)
  PROVE  \E t \in TaskState : ConnectionStep(p, t)
<1>1. /\ TypeOK /\ task[p] \in TaskState /\ Parting(task[p], sessions, ses)
      /\ sessions \in [Sid -> Obj \cup {None}]
  BY DEF Guarded, Typed, TypeOK, Connections
<1>2. ASSUME NEW op \in {"close_all", "cleanup"}, SweepCollects(p, op)
      PROVE  \E t \in TaskState : ConnectionStep(p, t)
  <2> DEFINE todo == {s \in Entries : op = "cleanup" => ses[sessions[s]].idle}
             t == [AtRest EXCEPT !.at = "sweep", !.op = op, !.todo = todo]
  <2>1. MoveTo(p, t) /\ UNCHANGED <<sessions, ses>> /\ todo \in SUBSET Sid
    BY <1>2 DEF SweepCollects, Entries
  <2>2. op = "close_all" => \A s \in Sid \ todo : sessions[s] = None
    BY DEF Entries
  <2> HIDE DEF todo
  <2>3. /\ t \in TaskState /\ t.at = "sweep" /\ t.op = op /\ t.cur = None
        /\ t.todo = todo
    BY <2>1 DEF AtRest, TaskState, Places, Ops
  <2> HIDE DEF t
  <2>4. Parting(t, sessions', ses')
    BY <2>1, <2>2, <2>3 DEF Parting
  <2>5. task[p].at = "manager"
    BY <1>2 DEF SweepCollects, Enters, At
  <2>. QED BY <2>1, <2>3, <2>4, <2>5, CalmUnchanged DEF ConnectionStep, Closes, Named
<1>3. CASE SweepCloses(p)
  <2>1. PICK s \in task[p].todo :
          CallDisconnect(p, task[p].op, s, sessions[s], task[p].todo \ {s})
    BY <1>3 DEF SweepCloses
  <2> DEFINE op == task[p].op
             o == sessions[s]
             rest == task[p].todo \ {s}
  <2>2. s \in Sid /\ o \in Obj /\ task[p].at = "sweep"
    BY <1>3, <2>1, EntryType DEF SweepCloses, At, Guarded, Typed, ManagerHeld, Entries
  <2>3. rest \in SUBSET Sid /\ op \in Ops \cup {None}
    BY <1>1 DEF TaskState
  <2>4. CallDisconnect(p, op, s, o, rest) /\ UNCHANGED <<sessions, ses>>
    BY <1>3, <2>1 DEF SweepCloses
  <2>5. op = "close_all" => \A x \in Sid \ rest : sessions[x] # None =>
                              sessions[x] = o \/ ses'[sessions[x]].client = "none"
    BY <1>1, <2>2, <2>4 DEF Parting
  <2> HIDE DEF op, rest
  <2>6. \A x \in Obj : Calm(x) /\ Steady(x)
    BY <2>4, CalmUnchanged
  <2>. QED BY <2>2, <2>3, <2>4, <2>5, <2>6, CloseStarts
<1>4. CASE SweepContinues(p)
  <2> DEFINE t == [task[p] EXCEPT !.at = "sweep", !.sid = None, !.cur = None]
             o == task[p].cur
             s == task[p].sid
  <2>1. /\ t \in TaskState /\ t.at = "sweep" /\ t.op = task[p].op /\ t.cur = None
        /\ t.todo = task[p].todo
    BY <1>1 DEF TaskState, Places
  <2>2. MoveTo(p, t) /\ UNCHANGED ses /\ task[p].at = "closed"
    BY <1>4 DEF SweepContinues, At
  <2>3. o \in Obj /\ s \in Sid /\ ses[o].client = "none"
    BY <1>1, <2>2 DEF Guarded, Typed, Located, Parting
  <2>4. \/ task[p].op = "close_all" /\ sessions' = sessions
        \/ /\ task[p].op = "cleanup" /\ sessions' = [sessions EXCEPT ![s] = None]
           /\ sessions[s] = o
    BY <1>1, <1>4, <2>2 DEF SweepContinues, Parting
  <2>5. sessions' = sessions \/ Removes(p)
    BY <1>1, <1>4, <2>4 DEF SweepContinues, Removes
  <2> HIDE DEF t
  <2>6. Parting(t, sessions', ses')
    BY <1>1, <2>1, <2>2, <2>3, <2>4 DEF Parting
  <2>7. ASSUME NEW x \in Obj, Open(x)', Named(x) PROVE Named(x)'
    <3>1. x # o
      BY <2>2, <2>3, <2>7 DEF Open
    <3>. QED BY <1>1, <2>3, <2>4, <2>7, <3>1 DEF Named
  <2>. QED BY <2>1, <2>2, <2>5, <2>6, <2>7, CalmUnchanged DEF ConnectionStep, Closes
<1>5. CASE SweepEnds(p)
  <2>1. MoveTo(p, AtRest) /\ UNCHANGED ses /\ task[p].at = "sweep" /\ task[p].todo = {}
    BY <1>5 DEF SweepEnds, Leave, At
  <2>2. AtRest.at = "idle" /\ AtRest.cur = None /\ AtRest \in TaskState
    BY AtRestType DEF AtRest
  <2> HIDE DEF AtRest
  <2>3. sessions' = sessions \/ Removes(p)
    BY <1>5 DEF SweepEnds, Removes
  <2>4. Parting(AtRest, sessions', ses')
    BY <2>2 DEF Parting
  <2>5. ASSUME NEW x \in Obj, Open(x)', Named(x) PROVE Named(x)'
    <3>1. Open(x)
      BY <2>1, <2>5 DEF Open
    <3>2. CASE task[p].op = "close_all"
      <4>1. \A s \in Sid : sessions[s] # None => ses[sessions[s]].client = "none"
        BY <1>1, <2>1, <3>2 DEF Parting
      <4>. QED BY <2>5, <3>1, <4>1, ConstantsAssumption DEF Named, Open
    <3>3. CASE task[p].op # "close_all"
      BY <1>5, <2>5, <3>3 DEF SweepEnds, Named
    <3>. QED BY <3>2, <3>3
  <2>. QED BY <2>1, <2>2, <2>3, <2>4, <2>5, CalmUnchanged DEF ConnectionStep, Closes
<1>. QED BY <1>2, <1>3, <1>4, <1>5 DEF Sweep

LEMMA ConnectionUse ==
  ASSUME Guarded, Connections, NEW p \in Proc, Use(p)
  PROVE  \E t \in TaskState : ConnectionStep(p, t)
<1> DEFINE o == task[p].cur
<1>1. /\ TypeOK /\ task[p] \in TaskState /\ UNCHANGED sessions /\ o \in Obj
      /\ ses[o] \in Session /\ task[p].at \in {"holding", "locking", "command", "transfer"}
  BY DEF Guarded, Typed, TypeOK, Located, Use, Drop, UseRefused, UseAccepted, CommandStarts,
         TransferStarts, CommandReturns, CommandFails, TransferEnds, EndUse, At
<1>2. ses[o].state # "error"
  BY <1>1 DEF Connections, Clean
<1>3. CASE Drop(p)
  BY <1>1, <1>3, CalmUnchanged, PlainAtRest DEF Drop
<1>4. CASE UseRefused(p)
  <2>1. \A x \in Obj : Calm(x) /\ Steady(x)
    BY <1>1, <1>4, CalmProbed DEF UseRefused
  <2>. QED BY <1>1, <1>4, <2>1, PlainAtRest DEF UseRefused
<1>5. ASSUME NEW place \in {"locking", "command", "transfer"},
             \A x \in Obj : Calm(x) /\ Steady(x),
             MoveTo(p, [task[p] EXCEPT !.at = place])
      PROVE  \E t \in TaskState : ConnectionStep(p, t)
  <2> DEFINE t == [task[p] EXCEPT !.at = place]
  <2>1. t \in TaskState /\ t.at = place /\ t.cur = o
    BY <1>1 DEF TaskState, Places
  <2> HIDE DEF t
  <2>2. MoveTo(p, t)
    BY <1>5 DEF t
  <2>. QED BY <1>1, <1>5, <2>1, <2>2, PlainStep DEF Plain
<1>6. CASE UseAccepted(p)
  BY <1>5, <1>6, CalmUnchanged DEF UseAccepted
<1>7. CASE CommandStarts(p)
  <2> DEFINE r == [ses[o] EXCEPT !.state = "executing", !.idle = FALSE]
  <2>1. r \in Session /\ r.client = ses[o].client /\ r.state = "executing"
    BY <1>1 DEF Session, State
  <2>2. Becomes(o, r) /\ MoveTo(p, [task[p] EXCEPT !.at = "command"])
    BY <1>7 DEF CommandStarts
  <2> HIDE DEF r
  <2>3. \A x \in Obj : Calm(x) /\ Steady(x)
    BY <1>1, <1>2, <2>1, <2>2, CalmBecomes DEF Open
  <2>. QED BY <1>5, <2>2, <2>3
<1>8. CASE TransferStarts(p)
  <2> DEFINE r == [ses[o] EXCEPT !.idle = FALSE]
  <2>1. /\ r \in Session /\ r.client = ses[o].client /\ r.state = ses[o].state
        /\ r.watched = ses[o].watched
    BY <1>1 DEF Session
  <2>2. Becomes(o, r) /\ MoveTo(p, [task[p] EXCEPT !.at = "transfer"])
    BY <1>8 DEF TransferStarts
  <2> HIDE DEF r
  <2>3. \A x \in Obj : Calm(x) /\ Steady(x)
    BY <1>1, <1>2, <2>1, <2>2, CalmBecomes DEF Open, IsConnected
  <2>. QED BY <1>5, <2>2, <2>3
<1>9. ASSUME NEW place \in {"command", "transfer"}, NEW st \in State, EndUse(p, place, st),
             st # "error", st = "connected" => ses[o].state = "connected"
      PROVE  \E t \in TaskState : ConnectionStep(p, t)
  <2> DEFINE r == [ses[o] EXCEPT !.state = st]
  <2>1. /\ r \in Session /\ r.client = ses[o].client /\ r.state = st
        /\ r.watched = ses[o].watched
    BY <1>1 DEF Session
  <2>2. Becomes(o, r) /\ MoveTo(p, AtRest)
    BY <1>9 DEF EndUse
  <2> HIDE DEF r
  <2>3. \A x \in Obj : Calm(x) /\ Steady(x)
    BY <1>1, <1>2, <1>9, <2>1, <2>2, CalmBecomes DEF Open, IsConnected
  <2>. QED BY <1>1, <2>2, <2>3, PlainAtRest
<1>10. CASE CommandReturns(p)
  <2> DEFINE st == Restored(o)
  <2>1. /\ st \in State /\ st # "error"
        /\ st = "connected" => ses[o].state = "connected"
    BY <1>1, <1>2 DEF Restored, IsConnected, Session, State
  <2>2. EndUse(p, "command", st)
    BY <1>10 DEF CommandReturns
  <2> HIDE DEF st
  <2>. QED BY <1>9, <2>1, <2>2
<1>11. CASE CommandFails(p)
  <2> DEFINE st == IF IsConnected(o) THEN "connected" ELSE "disconnected"
  <2>1. /\ st \in State /\ st # "error"
        /\ st = "connected" => ses[o].state = "connected"
    BY DEF IsConnected, State
  <2>2. EndUse(p, "command", st)
    BY <1>11 DEF CommandFails
  <2> HIDE DEF st
  <2>. QED BY <1>9, <2>1, <2>2
<1>12. CASE TransferEnds(p)
  <2> DEFINE st == ses[o].state
  <2>1. st \in State /\ EndUse(p, "transfer", st)
    BY <1>1, <1>12 DEF TransferEnds, Session
  <2>. QED BY <1>2, <1>9, <2>1
<1>. QED BY <1>3, <1>4, <1>6, <1>7, <1>8, <1>10, <1>11, <1>12 DEF Use

LEMMA ConnectionRequest ==
  ASSUME NEW p \in Proc, Request(p)
  PROVE  \E t \in TaskState : ConnectionStep(p, t)
<1> DEFINE t == [AtRest EXCEPT !.at = "manager"]
<1>1. t \in TaskState /\ t.at = "manager" /\ t.cur = None
  BY DEF AtRest, TaskState, Places, Ops
<1>2. MoveTo(p, t) /\ UNCHANGED <<sessions, ses>> /\ task[p].at = "idle"
  BY DEF Request, At
<1> HIDE DEF t
<1>. QED BY <1>1, <1>2, CalmUnchanged, PlainStep DEF Plain

-----------------------------------------------------------------------------
(* The end of a connect.                                                   *)

\* What the two ends of a connect have in common: only the object that was connected
\* changes, nobody else has it, and its maker does not close anything.
LEMMA ConnectEnds ==
  ASSUME Guarded, Directory, Connections, NEW p \in Proc, Connect(p)
  PROVE  LET o == task[p].fresh IN
         /\ o \in Obj /\ task[p].at = "connecting" /\ Holds(mgr, p)
         /\ \A s \in Sid : sessions[s] # o
         /\ \A q \in Proc : task[q].cur # o
         /\ \A x \in Obj \ {o} : ses'[x] = ses[x]
         /\ \A q \in Proc \ {p} : task'[q] = task[q] /\ task[q].at \notin Managed
         /\ \A q \in Proc \ {p} : Parting(task'[q], sessions', ses')
<1> DEFINE o == task[p].fresh
<1>1. o \in Obj /\ task[p].at = "connecting" /\ Holds(mgr, p)
  BY DEF Connect, ConnectSucceeds, ConnectFails, At, Guarded, Typed, Located
<1>2. (\A s \in Sid : sessions[s] # o) /\ (\A q \in Proc : task[q].cur # o)
  BY <1>1 DEF Directory, Fits, Connections, Apart
<1>3. PICK r : Becomes(o, r)
  BY DEF Connect, ConnectSucceeds, ConnectFails
<1>4. PICK t : MoveTo(p, t)
  BY DEF Connect, ConnectSucceeds, ConnectFails, Leave
<1>5. \A x \in Obj \ {o} : ses'[x] = ses[x]
  BY <1>3 DEF Becomes, Guarded, Typed, TypeOK
<1>6. \A q \in Proc \ {p} : task'[q] = task[q]
  BY <1>4, Moved
<1>7. \A q \in Proc \ {p} : task[q].at \notin Managed
  BY <1>1, OneHolder DEF Guarded, ManagerHeld
<1>8. \A q \in Proc \ {p} : Parting(task'[q], sessions', ses')
  BY <1>1, <1>6, <1>7, PartingElsewhere
<1>. QED BY <1>1, <1>2, <1>5, <1>6, <1>7, <1>8

LEMMA ConnectFailsKept ==
  ASSUME Guarded, Directory, Connections, NEW p \in Proc, ConnectFails(p)
  PROVE  Connections'
<1> DEFINE o == task[p].fresh
<1>1. /\ o \in Obj /\ task[p].at = "connecting"
      /\ \A s \in Sid : sessions[s] # o
      /\ \A q \in Proc : task[q].cur # o
      /\ \A x \in Obj \ {o} : ses'[x] = ses[x]
      /\ \A q \in Proc \ {p} : task'[q] = task[q] /\ task[q].at \notin Managed
      /\ \A q \in Proc \ {p} : Parting(task'[q], sessions', ses')
  BY ConnectEnds DEF Connect
<1>2. sessions' = sessions
  <2>1. Fits(task[p], sessions, ses) /\ TypeOK
    BY DEF Directory, Guarded, Typed
  <2>2. task[p].op = "use" => sessions[task[p].sid] = task[p].cur
    BY <1>1, <2>1 DEF Fits
  <2>. QED BY <1>1, <2>1, <2>2 DEF ConnectFails, Fits, TypeOK
<1>3. ses'[o].state = "error"
  <2>1. PICK c \in {"down", "up"} :
          Becomes(o, [ses[o] EXCEPT !.state = "error", !.client = c])
    BY DEF ConnectFails
  <2>2. ses[o] \in Session /\ ses'[o] = [ses[o] EXCEPT !.state = "error", !.client = c]
    BY <1>1, <2>1 DEF Becomes, Guarded, Typed, TypeOK
  <2>. QED BY <2>2 DEF Session
<1>4. task'[p].at = "idle" /\ task'[p].cur = None
  <2>1. AtRest.at = "idle" /\ AtRest.cur = None
    BY DEF AtRest
  <2>. QED BY <2>1, Moved DEF ConnectFails, Leave
<1>5. \A q \in Proc : Parting(task'[q], sessions', ses')
  BY <1>1, <1>4 DEF Parting
<1>6. Monitored'
  <2> SUFFICES ASSUME NEW x \in Obj, IsConnected(x)'
               PROVE  ses'[x].watched \/ \E q \in Proc : task'[q].at = "closing" /\ task'[q].cur = x
    BY DEF Monitored, At
  <2>1. x # o /\ ses'[x] = ses[x]
    BY <1>1, <1>3 DEF IsConnected
  <2>2. ses[x].watched \/ \E q \in Proc : task[q].at = "closing" /\ task[q].cur = x
    BY <2>1 DEF Connections, Monitored, At, IsConnected
  <2>. QED BY <1>1, <2>1, <2>2
<1>7. NoLeak'
  <2> SUFFICES ASSUME NEW x \in Obj, Open(x)'
               PROVE  Named(x)' \/ \E q \in Proc : Closes(task'[q], x)
    BY DEF NoLeak, Open, Named, Closes
  <2>1. x # o /\ ses'[x] = ses[x]
    BY <1>1, <1>3 DEF Open
  <2>2. Named(x) \/ \E q \in Proc : Closes(task[q], x)
    BY <2>1 DEF Connections, NoLeak, Open, Named, Closes
  <2>. QED BY <1>1, <1>2, <2>2 DEF Named, Closes
<1>8. Clean'
  <2> SUFFICES ASSUME NEW x \in Obj, ses'[x].state = "error"
               PROVE  /\ \A s \in Sid : sessions'[s] # x
                      /\ \A q \in Proc : task'[q].cur # x
    BY DEF Clean
  <2>1. (\A s \in Sid : sessions[s] # x) /\ (\A q \in Proc : task[q].cur # x)
    BY <1>1 DEF Connections, Clean
  <2>. QED BY <1>1, <1>2, <1>4, <2>1, ConstantsAssumption
<1>9. Apart'
  BY <1>1, <1>4 DEF Apart, Managed
<1>. QED BY <1>5, <1>6, <1>7, <1>8, <1>9 DEF Connections

LEMMA ConnectSucceedsKept ==
  ASSUME Guarded, Directory, Connections, NEW p \in Proc, ConnectSucceeds(p)
  PROVE  Connections'
<1> DEFINE o == task[p].fresh
           i == task[p].sid
<1>1. /\ o \in Obj /\ task[p].at = "connecting"
      /\ \A s \in Sid : sessions[s] # o
      /\ \A q \in Proc : task[q].cur # o
      /\ \A x \in Obj \ {o} : ses'[x] = ses[x]
      /\ \A q \in Proc \ {p} : task'[q] = task[q] /\ task[q].at \notin Managed
      /\ \A q \in Proc \ {p} : Parting(task'[q], sessions', ses')
  BY ConnectEnds DEF Connect
<1>2. i \in Sid /\ \A s \in Sid : sessions'[s] = IF s = i THEN o ELSE sessions[s]
  BY <1>1 DEF ConnectSucceeds, Guarded, Typed, TypeOK, Located
<1>3. ses'[o].state = "connected" /\ ses'[o].client = "up" /\ ses'[o].watched
  <2>1. ses[o] \in Session
        /\ ses'[o] = [ses[o] EXCEPT !.state = "connected", !.client = "up", !.watched = TRUE]
    BY <1>1 DEF ConnectSucceeds, Becomes, Guarded, Typed, TypeOK
  <2>. QED BY <2>1 DEF Session
<1>4. /\ task'[p].at \in {"idle", "holding"}
      /\ task'[p].cur = None \/ task'[p].cur = o
  <2> DEFINE t == IF task[p].op = "create" THEN AtRest
                  ELSE [AtRest EXCEPT !.at = "holding", !.op = "use", !.cur = o]
  <2>1. t.at \in {"idle", "holding"} /\ (t.cur = None \/ t.cur = o)
    BY DEF AtRest
  <2>2. MoveTo(p, t)
    BY DEF ConnectSucceeds
  <2> HIDE DEF t
  <2>. QED BY <2>1, <2>2, Moved
<1>5. \A q \in Proc : Parting(task'[q], sessions', ses')
  BY <1>1, <1>4 DEF Parting
<1>6. \A s \in Sid : sessions[s] # None /\ s = i => ses[sessions[s]].client = "none"
  <2>1. Fits(task[p], sessions, ses) /\ Parting(task[p], sessions, ses)
    BY DEF Directory, Connections
  <2>2. CASE task[p].op = "create"
    BY <1>1, <2>1, <2>2 DEF Fits
  <2>3. CASE task[p].op = "use"
    BY <1>1, <2>1, <2>3 DEF Fits, Parting
  <2>. QED BY <1>1, <2>1, <2>2, <2>3 DEF Fits
<1>7. Monitored'
  <2> SUFFICES ASSUME NEW x \in Obj, IsConnected(x)'
               PROVE  ses'[x].watched \/ \E q \in Proc : task'[q].at = "closing" /\ task'[q].cur = x
    BY DEF Monitored, At
  <2>1. CASE x = o
    BY <1>3, <2>1
  <2>2. CASE x # o
    <3>1. ses'[x] = ses[x]
      BY <1>1, <2>2
    <3>2. ses[x].watched \/ \E q \in Proc : task[q].at = "closing" /\ task[q].cur = x
      BY <3>1 DEF Connections, Monitored, At, IsConnected
    <3>. QED BY <1>1, <3>1, <3>2
  <2>. QED BY <2>1, <2>2
<1>8. NoLeak'
  <2> SUFFICES ASSUME NEW x \in Obj, Open(x)'
               PROVE  Named(x)' \/ \E q \in Proc : Closes(task'[q], x)
    BY DEF NoLeak, Open, Named, Closes
  <2>1. CASE x = o
    BY <1>2, <2>1 DEF Named
  <2>2. CASE x # o
    <3>1. ses'[x] = ses[x]
      BY <1>1, <2>2
    <3>2. Named(x) \/ \E q \in Proc : Closes(task[q], x)
      BY <3>1 DEF Connections, NoLeak, Open, Named, Closes
    <3>3. CASE Named(x)
      <4>1. PICK s \in Sid : sessions[s] = x
        BY <3>3 DEF Named
      <4>2. s # i
        BY <1>6, <3>1, <4>1, ConstantsAssumption DEF Open
      <4>. QED BY <1>2, <4>1, <4>2 DEF Named
    <3>. QED BY <1>1, <3>2, <3>3 DEF Closes
  <2>. QED BY <2>1, <2>2
<1>9. Clean'
  <2> SUFFICES ASSUME NEW x \in Obj, ses'[x].state = "error"
               PROVE  /\ \A s \in Sid : sessions'[s] # x
                      /\ \A q \in Proc : task'[q].cur # x
    BY DEF Clean
  <2>1. x # o /\ ses'[x] = ses[x]
    BY <1>1, <1>3
  <2>2. (\A s \in Sid : sessions[s] # x) /\ (\A q \in Proc : task[q].cur # x)
    BY <2>1 DEF Connections, Clean
  <2>. QED BY <1>1, <1>2, <1>4, <2>1, <2>2, ConstantsAssumption
<1>10. Apart'
  BY <1>1, <1>4 DEF Apart, Managed
<1>. QED BY <1>5, <1>7, <1>8, <1>9, <1>10 DEF Connections

-----------------------------------------------------------------------------
(* The keepalive loops and the network, and every reachable state.         *)

LEMMA ConnectionObjectStep ==
  ASSUME Guarded, ObjectStep
  PROVE  (\A o \in Obj : Calm(o) /\ Steady(o)) /\ UNCHANGED <<sessions, task>>
<1>1. UNCHANGED <<sessions, task>> /\ TypeOK
  BY TypedObjectStep DEF Guarded, Typed
<1>2. ASSUME NEW o \in Obj, KeepaliveEnds(o) PROVE \A x \in Obj : Calm(x) /\ Steady(x)
  <2> DEFINE y == Probed({o})[o]
             r == [y EXCEPT !.watched = FALSE]
  <2>1. y \in Session /\ ses[o] \in Session
    BY <1>1, ProbedType DEF TypeOK
  <2>2. /\ y.client = ses[o].client
        /\ y.state = ses[o].state \/ y.state = "disconnected"
    <3>1. y = [ses[o] EXCEPT !.state = "disconnected"] \/ y = ses[o]
      BY DEF Probed
    <3>. QED BY <2>1, <3>1 DEF Session
  <2> HIDE DEF y
  <2>3. r \in Session /\ r.client = y.client /\ r.state = y.state
    BY <2>1 DEF Session
  <2>4. Becomes(o, r) /\ ~IsConnected(o)
    BY <1>2 DEF KeepaliveEnds, y
  <2> HIDE DEF r
  <2>5. ~(r.client = "up" /\ r.state = "connected")
    BY <2>2, <2>3, <2>4 DEF IsConnected
  <2>6. /\ ses[o].client = "none" => r.client = "none"
        /\ r.state = "error" => ses[o].state = "error"
    BY <2>2, <2>3
  <2>7. r.client = "up" /\ r.state # "error" => Open(o)
    <3>1. r.client = "up" => y.state = ses[o].state
      BY <1>1, <2>2, <2>3 DEF y, Probed
    <3>. QED BY <2>2, <2>3, <3>1 DEF Open
  <2>. QED BY <1>1, <2>3, <2>4, <2>5, <2>6, <2>7, CalmBecomes
<1>3. ASSUME NEW o \in Obj, KeepaliveFails(o) PROVE \A x \in Obj : Calm(x) /\ Steady(x)
  <2> DEFINE r == [ses[o] EXCEPT !.watched = FALSE, !.state = "disconnected"]
  <2>1. r \in Session /\ r.client = ses[o].client /\ r.state = "disconnected"
    BY <1>1 DEF TypeOK, Session, State
  <2>2. Becomes(o, r) /\ ses[o].client # "up"
    BY <1>3 DEF KeepaliveFails
  <2> HIDE DEF r
  <2>. QED BY <1>1, <2>1, <2>2, CalmBecomes
<1>4. ASSUME NEW o \in Obj, ConnectionLost(o) PROVE \A x \in Obj : Calm(x) /\ Steady(x)
  <2> DEFINE r == [ses[o] EXCEPT !.client = "down"]
  <2>1. r \in Session /\ r.client = "down" /\ r.state = ses[o].state
    BY <1>1 DEF TypeOK, Session
  <2>2. Becomes(o, r) /\ ses[o].client = "up"
    BY <1>4 DEF ConnectionLost
  <2> HIDE DEF r
  <2>. QED BY <1>1, <2>1, <2>2, CalmBecomes
<1>5. ASSUME NEW s \in Sid, GoesIdle(s) PROVE \A x \in Obj : Calm(x) /\ Steady(x)
  <2> DEFINE o == sessions[s]
             r == [ses[o] EXCEPT !.idle = TRUE]
  <2>1. o \in Obj
    BY <1>1, <1>5, EntryType DEF GoesIdle
  <2>2. /\ r \in Session /\ r.client = ses[o].client /\ r.state = ses[o].state
        /\ r.watched = ses[o].watched
    BY <1>1, <2>1 DEF TypeOK, Session
  <2>3. Becomes(o, r)
    BY <1>5 DEF GoesIdle
  <2> HIDE DEF r, o
  <2>. QED BY <1>1, <2>1, <2>2, <2>3, CalmBecomes DEF Open, IsConnected
<1>. QED BY <1>1, <1>2, <1>3, <1>4, <1>5 DEF ObjectStep, Keepalive

\* A step that no coroutine takes.
LEMMA ConnectionsRest ==
  ASSUME Guarded, Connections, UNCHANGED <<sessions, task>>,
         \A o \in Obj : Calm(o) /\ Steady(o), Directory
  PROVE  Connections'
<1>1. Monitored'
  <2> SUFFICES ASSUME NEW o \in Obj, IsConnected(o)'
               PROVE  ses'[o].watched \/ \E q \in Proc : task[q].at = "closing" /\ task[q].cur = o
    BY DEF Monitored, At
  <2>. QED BY DEF Steady, Calm, Connections, Monitored, At
<1>2. NoLeak'
  <2> SUFFICES ASSUME NEW o \in Obj, Open(o)'
               PROVE  Named(o) \/ \E q \in Proc : Closes(task[q], o)
    BY DEF NoLeak, Open, Named, Closes
  <2>1. Open(o)
    BY DEF Calm
  <2>. QED BY <2>1 DEF Connections, NoLeak, Open, Named, Closes
<1>3. Clean'
  BY DEF Clean, Connections, Calm
<1>4. Apart'
  BY DEF Apart, Connections
<1>5. ASSUME NEW q \in Proc PROVE Parting(task'[q], sessions', ses')
  <2>1. Parting(task[q], sessions, ses) /\ Fits(task[q], sessions, ses)
    BY DEF Connections, Directory
  <2>2. task[q].at = "closed" \/ (task[q].at = "connecting" /\ task[q].op = "use") =>
          task[q].cur \in Obj
    BY <2>1 DEF Fits, Guarded, Typed, Located
  <2>3. \A s \in Sid : sessions[s] # None => sessions[s] \in Obj
    BY EntryType DEF Guarded, Typed
  <2>. QED BY <2>1, <2>2, <2>3 DEF Parting, Calm
<1>. QED BY <1>1, <1>2, <1>3, <1>4, <1>5 DEF Connections

LEMMA ConnectionsInit ==
  ASSUME Init PROVE Connections
<1>1. PICK c \in Conf : ses = [o \in Obj |-> NewSession(c)]
  BY DEF Init
<1>2. \A o \in Obj : ses[o].state = "disconnected" /\ ses[o].client = "none"
  BY <1>1 DEF NewSession
<1>3. \A p \in Proc : task[p].at = "idle"
  BY DEF Init, AtRest
<1>. QED BY <1>2, <1>3 DEF Connections, Monitored, IsConnected, NoLeak, Clean, Apart, Parting

LEMMA ConnectionsNext ==
  ASSUME Guarded, Directory, Connections, [Next]_vars PROVE Connections'
<1>1. CASE ObjectStep
  BY <1>1, ConnectionObjectStep, ConnectionsRest
<1>2. ASSUME NEW p \in Proc, Request(p) \/ Step(p) PROVE Connections'
  <2>1. CASE Connect(p)
    BY <2>1, ConnectSucceedsKept, ConnectFailsKept DEF Connect
  <2>2. CASE ~Connect(p)
    <3>1. \E t \in TaskState : ConnectionStep(p, t)
      BY <1>2, <2>2, ConnectionRequest, ConnectionCreate, ConnectionGet,
         ConnectionDisconnect, ConnectionClose, ConnectionSweep, ConnectionUse DEF Step
    <3>. QED BY <3>1, ConnectionsKept
  <2>. QED BY <2>1, <2>2
<1>3. CASE UNCHANGED vars
  <2>1. UNCHANGED <<sessions, task, ses>>
    BY <1>3 DEF vars
  <2>. QED BY <2>1, CalmUnchanged, ConnectionsRest
<1>. QED BY <1>1, <1>2, <1>3, NextParts

LEMMA ConnectionsAlways == Spec => []Connections
<1>1. Init => Connections
  BY ConnectionsInit
<1>2. Guarded /\ Directory /\ Connections /\ [Next]_vars => Connections'
  BY ConnectionsNext
<1>. QED BY <1>1, <1>2, GuardedCorrect, DirectoryCorrect, PTL DEF Spec

\* No path of a close, a rebuild, a cleanup or a failure loses an open connection: an
\* entry names it or a coroutine is about to close it.
THEOREM NoLeakCorrect == Spec => []NoLeak
<1>1. Connections => NoLeak
  BY DEF Connections
<1>. QED BY <1>1, ConnectionsAlways, PTL

\* A session that counts as connected has its keepalive loop or is being closed: nothing
\* brings one back to connected once the loop has ended.
THEOREM MonitoredCorrect == Spec => []Monitored
<1>1. Connections => Monitored
  BY DEF Connections
<1>. QED BY <1>1, ConnectionsAlways, PTL

-----------------------------------------------------------------------------
(* The limits.                                                             *)

\* While create_session connects, there is room for one more under both limits.
Admitted ==
  \A p \in Proc : task[p].at = "connecting" /\ task[p].op = "create" =>
    ~LimitReached(ses[task[p].fresh].conf)

\* Unless a connect ends, no session comes alive.
LEMMA LiveShrinks ==
  ASSUME Guarded, \A o \in Obj : Calm(o), ConfKept,
         \A s \in Sid : sessions'[s] = sessions[s] \/ sessions'[s] = None
  PROVE  Live' \subseteq Live /\ \A h : LiveOnHost(h)' \subseteq LiveOnHost(h)
<1>1. \A s \in Sid : sessions[s] # None => sessions[s] \in Obj
  BY EntryType DEF Guarded, Typed
<1>2. ASSUME NEW s \in Live'
      PROVE  s \in Live /\ sessions'[s] = sessions[s]
  <2>1. s \in Sid /\ sessions'[s] # None /\ IsConnected(sessions[s])'
    BY <1>2 DEF Live, Entries, IsConnected
  <2>2. sessions'[s] = sessions[s] /\ sessions[s] \in Obj
    BY <1>1, <2>1
  <2>3. \A o \in Obj : IsConnected(o)' => IsConnected(o)
    BY DEF Calm
  <2>. QED BY <1>2, <2>1, <2>2, <2>3 DEF Live, Entries, IsConnected
<1>3. ASSUME NEW h, NEW s \in LiveOnHost(h)' PROVE s \in LiveOnHost(h)
  <2>1. s \in Live' /\ HostOf[ses'[sessions'[s]].conf] = h
    BY <1>3 DEF LiveOnHost
  <2>2. s \in Sid /\ sessions[s] \in Obj /\ sessions'[s] = sessions[s] /\ s \in Live
    BY <1>1, <1>2, <2>1 DEF Live, Entries
  <2>3. ses'[sessions[s]].conf = ses[sessions[s]].conf
    BY <2>2, ConfOfUsed
  <2>. QED BY <2>1, <2>2, <2>3 DEF LiveOnHost
<1>. QED BY <1>2, <1>3

LEMMA LiveFinite ==
  /\ IsFiniteSet(Live) /\ Cardinality(Live) \in Nat
  /\ \A h : IsFiniteSet(LiveOnHost(h)) /\ Cardinality(LiveOnHost(h)) \in Nat
<1>1. Live \subseteq Sid /\ \A h : LiveOnHost(h) \subseteq Sid
  BY DEF Live, Entries, LiveOnHost
<1>2. IsFiniteSet(Sid)
  BY ConstantsAssumption
<1>. QED BY <1>1, <1>2, FS_Subset, FS_CardinalityType

LEMMA RoomKept ==
  ASSUME NEW c, Live' \subseteq Live,
         \A h : LiveOnHost(h)' \subseteq LiveOnHost(h), ~LimitReached(c)
  PROVE  ~LimitReached(c)'
<1> DEFINE h == HostOf[c]
           A == Live'
           B == LiveOnHost(h)'
<1>1. Cardinality(A) \in Nat /\ Cardinality(A) <= Cardinality(Live)
  BY LiveFinite, FS_Subset, FS_CardinalityType
<1>2. Cardinality(B) \in Nat /\ Cardinality(B) <= Cardinality(LiveOnHost(h))
  BY LiveFinite, FS_Subset, FS_CardinalityType
<1>3. Cardinality(Live) \in Nat /\ Cardinality(LiveOnHost(h)) \in Nat
  BY LiveFinite
<1>4. ~(Cardinality(A) >= MaxSessions) /\ ~(Cardinality(B) >= MaxPerHost)
  <2> HIDE DEF A, B
  <2>1. ~(Cardinality(Live) >= MaxSessions) /\ ~(Cardinality(LiveOnHost(h)) >= MaxPerHost)
    BY DEF LimitReached
  <2>. QED BY <1>1, <1>2, <1>3, <2>1, ConstantsAssumption
<1>. QED BY <1>4 DEF LimitReached

LEMMA AdmittedStep ==
  ASSUME Guarded, Directory, Connections, Admitted, NEW p \in Proc, Request(p) \/ Step(p)
  PROVE  Admitted'
<1>1. CASE Connect(p)
  <2>1. \A q \in Proc \ {p} : task'[q] = task[q] /\ task[q].at \notin Managed
    BY <1>1, ConnectEnds
  <2>2. task'[p].at # "connecting"
    <3> DEFINE t == IF task[p].op = "create" THEN AtRest
                    ELSE [AtRest EXCEPT !.at = "holding", !.op = "use", !.cur = task[p].fresh]
    <3>1. t.at # "connecting" /\ AtRest.at # "connecting"
      BY DEF AtRest
    <3>2. MoveTo(p, t) \/ MoveTo(p, AtRest)
      BY <1>1 DEF Connect, ConnectSucceeds, ConnectFails, Leave
    <3> HIDE DEF t, AtRest
    <3>. QED BY <3>1, <3>2, Moved
  <2>. QED BY <2>1, <2>2 DEF Admitted, Managed
<1>2. CASE ~Connect(p)
  <2>1. PICK t \in TaskState : ConnectionStep(p, t)
    BY <1>2, ConnectionRequest, ConnectionCreate, ConnectionGet,
       ConnectionDisconnect, ConnectionClose, ConnectionSweep, ConnectionUse DEF Step
  <2>2. ConfKept
    BY StepDirectory DEF DirectoryStep
  <2>3. \A o \in Obj : Calm(o)
    BY <2>1 DEF ConnectionStep
  <2>4. \A s \in Sid : sessions'[s] = sessions[s] \/ sessions'[s] = None
    BY <2>1 DEF ConnectionStep, Removes
  <2>5. Live' \subseteq Live /\ \A h : LiveOnHost(h)' \subseteq LiveOnHost(h)
    BY <2>2, <2>3, <2>4, LiveShrinks
  <2>6. \A q \in Proc : task'[q] = IF q = p THEN t ELSE task[q]
    BY <2>1, Moved DEF ConnectionStep
  <2>7. ASSUME NEW q \in Proc, task'[q].at = "connecting", task'[q].op = "create",
               NEW c, c = ses'[task'[q].fresh].conf
        PROVE  ~LimitReached(c)'
    <3>1. ~LimitReached(c)
      <4>1. CASE q = p
        BY <2>1, <2>6, <2>7, <4>1 DEF ConnectionStep
      <4>2. CASE q # p
        <5>1. task'[q] = task[q] /\ task[q].fresh \in Obj
          BY <2>6, <2>7, <4>2 DEF Guarded, Typed, Located
        <5>2. c = ses[task[q].fresh].conf
          BY <2>2, <2>7, <5>1, ConfOfUsed
        <5>. QED BY <2>7, <5>1, <5>2 DEF Admitted
      <4>. QED BY <4>1, <4>2
    <3>. QED BY <2>5, <3>1, RoomKept
  <2>. QED BY <2>7 DEF Admitted, LimitReached
<1>. QED BY <1>1, <1>2

LEMMA AdmittedNext ==
  ASSUME Guarded, Directory, Connections, Admitted, [Next]_vars PROVE Admitted'
<1>1. CASE ObjectStep
  <2>1. /\ ConfKept /\ UNCHANGED <<sessions, task>>
        /\ \A o \in Obj : Calm(o)
    BY <1>1, DirectoryObjectStep, ConnectionObjectStep
  <2>2. Live' \subseteq Live /\ \A h : LiveOnHost(h)' \subseteq LiveOnHost(h)
    BY <2>1, LiveShrinks
  <2>3. ASSUME NEW q \in Proc, task'[q].at = "connecting", task'[q].op = "create",
               NEW c, c = ses'[task'[q].fresh].conf
        PROVE  ~LimitReached(c)'
    <3>1. task'[q] = task[q] /\ task[q].fresh \in Obj
      BY <2>1, <2>3 DEF Guarded, Typed, Located
    <3>2. c = ses[task[q].fresh].conf
      BY <2>1, <2>3, <3>1, ConfOfUsed
    <3>. QED BY <2>2, <2>3, <3>1, <3>2, RoomKept DEF Admitted
  <2>. QED BY <2>3 DEF Admitted, LimitReached
<1>2. ASSUME NEW p \in Proc, Request(p) \/ Step(p) PROVE Admitted'
  BY <1>2, AdmittedStep
<1>3. CASE UNCHANGED vars
  BY <1>3 DEF vars, Admitted, LimitReached, Live, LiveOnHost, Entries, IsConnected
<1>. QED BY <1>1, <1>2, <1>3, NextParts

LEMMA AdmittedAlways == Spec => []Admitted
<1>1. Init => Admitted
  BY DEF Init, AtRest, Admitted
<1>2. Guarded /\ Directory /\ Connections /\ Admitted /\ [Next]_vars => Admitted'
  BY AdmittedNext
<1>. QED BY <1>1, <1>2, GuardedCorrect, DirectoryCorrect, ConnectionsAlways, PTL DEF Spec

\* What AdmissionBounded says of one step.
Admits ==
  \A s \in Sid \ Entries : sessions'[s] # None =>
    /\ Cardinality(Live') <= MaxSessions
    /\ \A c \in Conf : ses'[sessions'[s]].conf = c =>
         Cardinality(LiveOnHost(HostOf[c])') <= MaxPerHost

\* One element more.
LEMMA OneMore ==
  ASSUME NEW A, NEW B, NEW x, IsFiniteSet(A), B \subseteq A \cup {x},
         NEW n \in Nat, Cardinality(A) < n
  PROVE  Cardinality(B) <= n
<1>1. /\ IsFiniteSet(A \cup {x})
      /\ Cardinality(A \cup {x}) = Cardinality(A) \/ Cardinality(A \cup {x}) = Cardinality(A) + 1
  BY FS_AddElement
<1>2. Cardinality(B) <= Cardinality(A \cup {x}) /\ Cardinality(B) \in Nat
  BY <1>1, FS_Subset, FS_CardinalityType
<1>3. Cardinality(A) \in Nat /\ Cardinality(A \cup {x}) \in Nat
  BY <1>1, FS_CardinalityType
<1>. QED BY <1>1, <1>2, <1>3

LEMMA CreatedFits ==
  ASSUME Guarded, Directory, Connections, Admitted, NEW p \in Proc, ConnectSucceeds(p)
  PROVE  Admits
<1> DEFINE o == task[p].fresh
           i == task[p].sid
<1>1. /\ o \in Obj /\ task[p].at = "connecting"
      /\ \A s \in Sid : sessions[s] # o
      /\ \A x \in Obj \ {o} : ses'[x] = ses[x]
  BY ConnectEnds DEF Connect
<1>2. i \in Sid /\ \A s \in Sid : sessions'[s] = IF s = i THEN o ELSE sessions[s]
  BY <1>1 DEF ConnectSucceeds, Guarded, Typed, TypeOK, Located
<1>3. SUFFICES ASSUME i \notin Entries
               PROVE  /\ Cardinality(Live') <= MaxSessions
                      /\ \A c \in Conf : ses'[o].conf = c =>
                           Cardinality(LiveOnHost(HostOf[c])') <= MaxPerHost
  <2>1. \A s \in Sid \ Entries : sessions'[s] # None => s = i /\ sessions'[s] = o
    BY <1>2 DEF Entries
  <2>. QED BY <1>3, <2>1 DEF Admits
<1>4. task[p].op = "create"
  BY <1>1, <1>2, <1>3, ConstantsAssumption DEF Directory, Fits, Entries
<1>5. \A s \in Sid : sessions[s] # None => sessions[s] \in Obj
  BY EntryType DEF Guarded, Typed
<1>6. ASSUME NEW s \in Sid, s # i, sessions[s] # None
      PROVE  sessions'[s] = sessions[s] /\ ses'[sessions[s]] = ses[sessions[s]]
  BY <1>1, <1>2, <1>5, <1>6
<1>7. Live' \subseteq Live \cup {i}
  BY <1>2, <1>6 DEF Live, Entries, IsConnected
<1>8. \A h : LiveOnHost(h)' \subseteq LiveOnHost(h) \cup {i}
  BY <1>2, <1>6, <1>7 DEF LiveOnHost, Live, Entries
<1>9. ses'[o].conf = ses[o].conf
  <2>1. ConfKept
    BY StepDirectory DEF DirectoryStep, Step, Connect
  <2>. QED BY <1>1, <2>1, ConfOfUsed
<1> SUFFICES ASSUME NEW c \in Conf, c = ses[o].conf
             PROVE  /\ Cardinality(Live') <= MaxSessions
                    /\ Cardinality(LiveOnHost(HostOf[c])') <= MaxPerHost
  <2>1. ses[o].conf \in Conf
    BY <1>1 DEF Guarded, Typed, TypeOK, Session
  <2>. QED BY <1>9, <2>1
<1>10. ~LimitReached(c)
  BY <1>1, <1>4 DEF Admitted
<1>11. Cardinality(Live) < MaxSessions /\ Cardinality(LiveOnHost(HostOf[c])) < MaxPerHost
  BY <1>10, LiveFinite, ConstantsAssumption DEF LimitReached
<1>12. Cardinality(Live') <= MaxSessions
  BY <1>7, <1>11, LiveFinite, OneMore, ConstantsAssumption
<1>13. Cardinality(LiveOnHost(HostOf[c])') <= MaxPerHost
  BY <1>8, <1>11, LiveFinite, OneMore, ConstantsAssumption
<1>. QED BY <1>12, <1>13

\* A session that create_session adds is within both limits with all that are alive then,
\* however long its connect took and whatever came alive or died meanwhile.
THEOREM AdmissionCorrect == Spec => AdmissionBounded
<1>1. Guarded /\ Directory /\ Connections /\ Admitted /\ [Next]_vars => [Admits]_vars
  <2> SUFFICES ASSUME Guarded, Directory, Connections, Admitted, Next PROVE Admits
    OBVIOUS
  <2>1. CASE ObjectStep
    BY <2>1, DirectoryObjectStep DEF Admits, Entries
  <2>2. ASSUME NEW p \in Proc, Request(p) \/ Step(p) PROVE Admits
    <3>1. sessions' = sessions \/ Removes(p) \/ ConnectSucceeds(p)
      BY <2>2, StepDirectory DEF DirectoryStep
    <3>2. CASE sessions' = sessions \/ Removes(p)
      BY <3>2 DEF Admits, Entries, Removes
    <3>. QED BY <3>1, <3>2, CreatedFits
  <2>. QED BY <2>1, <2>2, NextParts
<1>. QED BY <1>1, GuardedCorrect, DirectoryCorrect, ConnectionsAlways, AdmittedAlways, PTL
         DEF Spec, AdmissionBounded, Admits
=============================================================================
