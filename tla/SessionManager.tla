---------------------------- MODULE SessionManager ----------------------------
(***************************************************************************)
(* ssh_mcp/session_manager.py: SessionManager, the directory of SSH        *)
(* sessions, with the SSHSession objects it creates, rebuilds, hands out   *)
(* and closes, the keepalive loop of each session and the idle cleanup.    *)
(*                                                                         *)
(* The program is one asyncio event loop plus a thread pool.  A coroutine  *)
(* runs without interruption between two awaits, so every action below is  *)
(* the code between two awaits of one coroutine: a tool call (Task), the   *)
(* cleanup loop (Cleaner) or the keepalive loop of a session object.       *)
(* Blocking paramiko calls run in the pool, and the coroutine resumes      *)
(* when they end or when the timeout given to submit() expires.  The       *)
(* connection itself may die at any moment (ConnectionLost).               *)
(***************************************************************************)
EXTENDS Naturals, FiniteSets, Sequences, FifoLock

CONSTANTS
  Task,         \* concurrent tool calls
  Cleaner,      \* the coroutine cleanup_loop
  Obj,          \* SSHSession objects; collected ones are used again
  Sid,          \* session ids; an id nobody knows any more is used again
  Conf,         \* connection configs, one per (host, port, username)
  HostOf,       \* the host of a config
  Reuse,        \* the values callers give create_session's parameter reuse
  Reconnect,    \* the values callers give get_session's parameter auto_reconnect
  MaxSessions,  \* MAX_SESSIONS
  MaxPerHost,   \* MAX_SESSIONS_PER_HOST
  MaxOrphans,   \* bound: connections left open by a connect that timed out
  None

Proc == Task \cup {Cleaner}

ASSUME ConstantsAssumption ==
  /\ Cleaner \notin Task
  /\ None \notin Proc \cup Obj \cup Sid \cup Conf
  /\ IsFiniteSet(Sid)
  /\ DOMAIN HostOf = Conf
  /\ Reuse \subseteq BOOLEAN /\ Reconnect \subseteq BOOLEAN
  /\ MaxSessions \in Nat \ {0}
  /\ MaxPerHost \in Nat \ {0}
  /\ MaxOrphans \in Nat

VARIABLES
  mgr,       \* SessionManager._lock
  sessions,  \* SessionManager._sessions: Sid -> Obj, None where there is no entry
  lock,      \* SSHSession._connect_lock of each object
  ses,       \* the other attributes of each SSHSession object
  task       \* where each coroutine stands, and its local variables

vars == <<mgr, sessions, lock, ses, task>>

State == {"disconnected", "connecting", "connected", "executing", "error"}

(***************************************************************************)
(* client: "none" is self.client = None, "down" a client whose transport   *)
(* is missing or inactive, "up" a client with an active transport.         *)
(* watched: the keepalive loop runs (asleep, or awaiting its probe).       *)
(* idle: more than config.session_timeout has passed since _last_activity. *)
(***************************************************************************)
Session == [conf : Conf, state : State, client : {"none", "down", "up"},
            watched : BOOLEAN, idle : BOOLEAN]

Ops == {"create", "use", "discard", "close", "close_all", "cleanup"}

Places == {"idle", "manager", "connecting", "disconnect", "closing", "closed",
           "sweep", "holding", "locking", "command", "transfer"}

\* at: what the coroutine awaits; cur: the session object it works on; fresh:
\* the one it is connecting; todo: the ids a sweep has still to close.
TaskState == [at : Places, op : Ops \cup {None}, sid : Sid \cup {None},
              cur : Obj \cup {None}, fresh : Obj \cup {None}, todo : SUBSET Sid]

AtRest == [at |-> "idle", op |-> None, sid |-> None, cur |-> None,
           fresh |-> None, todo |-> {}]

NewSession(c) == [conf |-> c, state |-> "disconnected", client |-> "none",
                  watched |-> FALSE, idle |-> FALSE]

Init ==
  /\ mgr = Unlocked
  /\ sessions = [s \in Sid |-> None]
  /\ lock = [o \in Obj |-> Unlocked]
  /\ \E c \in Conf : ses = [o \in Obj |-> NewSession(c)]  \* no object in use yet
  /\ task = [p \in Proc |-> AtRest]

-----------------------------------------------------------------------------
(* What the code asks about sessions.                                      *)

Entries == {s \in Sid : sessions[s] # None}

\* SSHSession.is_connected, the value it returns.
IsConnected(o) == ses[o].state = "connected" /\ ses[o].client = "up"

\* SSHSession.is_connected, what reading it on the objects of S does: a session
\* that was connected and whose transport is dead becomes disconnected.
Probed(S) ==
  [o \in Obj |->
     IF o \in S /\ ses[o].state = "connected" /\ ses[o].client = "down"
     THEN [ses[o] EXCEPT !.state = "disconnected"] ELSE ses[o]]

Live == {s \in Entries : IsConnected(sessions[s])}

LiveOnHost(h) == {s \in Live : HostOf[ses[sessions[s]].conf] = h}

\* A fault to check against: the limits are off by one.
LimitPassed(c) ==
  \/ Cardinality(Live) > MaxSessions
  \/ Cardinality(LiveOnHost(HostOf[c])) > MaxPerHost

\* create_session's two limits on the sessions that are alive.
LimitReached(c) ==
  \/ Cardinality(Live) >= MaxSessions
  \/ Cardinality(LiveOnHost(HostOf[c])) >= MaxPerHost

\* The entries create_session may hand out again for config c.
Reusable(c) == {s \in Live : ses[sessions[s]].conf = c}

\* An object that neither the directory nor a coroutine refers to any more.
Free(o) ==
  /\ \A s \in Sid : sessions[s] # o
  /\ \A p \in Proc : task[p].cur # o /\ task[p].fresh # o
  /\ ses[o].client # "up"

\* uuid4(): an id no entry has and no call names.
Unused(s) == sessions[s] = None /\ \A p \in Proc : task[p].sid # s

\* Bound: no object or id is left.  Connecting fails then.
NoRoom == (\A o \in Obj : ~Free(o)) \/ (\A s \in Sid : ~Unused(s))

\* Connections that stay open because submit() timed out on _connect_sync while
\* its thread went on.
Orphans == {o \in Obj : ses[o].state = "error" /\ ses[o].client = "up"}

-----------------------------------------------------------------------------
(* Steps every operation is made of.                                       *)

At(p, place) == task[p].at = place

\* p holds the manager lock: at the start of an operation, or further on in op.
Enters(p) == At(p, "manager") /\ Holds(mgr, p)
InManager(p, op, place) == At(p, place) /\ task[p].op = op /\ Holds(mgr, p)

MoveTo(p, t) == task' = [task EXCEPT ![p] = t]

Becomes(o, r) == ses' = [ses EXCEPT ![o] = r]

\* The coroutine returns or raises, leaving `async with self._lock`.
Leave(p) == mgr' = Release(mgr) /\ MoveTo(p, AtRest)

\* A tool call, or the cleanup loop after its sleep, asks for the manager lock.
Request(p) ==
  /\ At(p, "idle")
  /\ mgr' = Acquire(mgr, p)
  /\ MoveTo(p, [AtRest EXCEPT !.at = "manager"])
  /\ UNCHANGED <<sessions, lock, ses>>

\* p builds SSHSession(c) as object o for id s and awaits its connect(): the
\* object is nobody else's, so its lock is free.
StartConnect(p, op, o, c, s, sesNow) ==
  /\ ses' = [sesNow EXCEPT ![o] = [NewSession(c) EXCEPT !.state = "connecting"]]
  /\ lock' = [lock EXCEPT ![o] = Acquire(Unlocked, p)]
  /\ MoveTo(p, [task[p] EXCEPT !.at = "connecting", !.op = op, !.fresh = o,
                               !.sid = s])

\* p calls disconnect() on the object of id s and asks for its lock.
CallDisconnect(p, op, s, o, todo) ==
  /\ lock' = [lock EXCEPT ![o] = Acquire(@, p)]
  /\ MoveTo(p, [task[p] EXCEPT !.at = "disconnect", !.op = op, !.sid = s,
                               !.cur = o, !.todo = todo])

-----------------------------------------------------------------------------
(* create_session                                                          *)

\* A fault: the session that is used again gets a fresh id.
CreateRenames(p, c) ==
  /\ p \in Task /\ Enters(p)
  /\ TRUE \in Reuse
  /\ \E s \in Reusable(c), u \in Sid :
       Unused(u) /\ sessions' = [sessions EXCEPT ![u] = sessions[s]]
  /\ Leave(p)
  /\ UNCHANGED <<lock, ses>>

\* A live session of the same host, port and user is handed out again.  P: the
\* matching sessions the loop found dead before it came to that one.
CreateReuses(p, c) ==
  /\ p \in Task /\ Enters(p)
  /\ TRUE \in Reuse
  /\ Reusable(c) # {}
  /\ \E P \in SUBSET {s \in Entries \ Live : ses[sessions[s]].conf = c} :
       ses' = Probed({sessions[s] : s \in P})
  /\ Leave(p)
  /\ UNCHANGED <<sessions, lock>>

\* reuse is FALSE, or there is nothing to use again.
NothingToReuse(c) == \E r \in Reuse : r => Reusable(c) = {}

\* A fault: the error path leaves the manager lock taken.
CreateRefusedKeepsLock(p, c) ==
  /\ p \in Task /\ Enters(p)
  /\ NothingToReuse(c)
  /\ LimitReached(c) \/ NoRoom
  /\ MoveTo(p, AtRest)
  /\ UNCHANGED <<mgr, sessions, lock, ses>>

CreateRefused(p, c) ==
  /\ p \in Task /\ Enters(p)
  /\ NothingToReuse(c)
  /\ LimitReached(c) \/ NoRoom
  /\ ses' = Probed({sessions[s] : s \in Entries})
  /\ Leave(p)
  /\ UNCHANGED <<sessions, lock>>

CreateConnects(p, c) ==
  /\ p \in Task /\ Enters(p)
  /\ NothingToReuse(c)
  /\ ~LimitReached(c)
  /\ \E o \in Obj, s \in Sid :
       /\ Free(o) /\ Unused(s)
       /\ StartConnect(p, "create", o, c, s, Probed({sessions[x] : x \in Entries}))
  /\ UNCHANGED <<mgr, sessions>>

-----------------------------------------------------------------------------
(* get_session(session_id), which every use of a session starts with       *)

GetMissing(p, s) ==
  /\ p \in Task /\ Enters(p)
  /\ sessions[s] = None
  /\ Leave(p)
  /\ UNCHANGED <<sessions, lock, ses>>

GetLive(p, s) ==
  /\ p \in Task /\ Enters(p)
  /\ sessions[s] # None /\ IsConnected(sessions[s])
  /\ mgr' = Release(mgr)
  /\ MoveTo(p, [AtRest EXCEPT !.at = "holding", !.op = "use", !.cur = sessions[s]])
  /\ UNCHANGED <<sessions, lock, ses>>

\* The entry is not connected: it is closed and then rebuilt under the same id
\* or, without auto_reconnect, discarded.
GetDead(p, s) ==
  /\ p \in Task /\ Enters(p)
  /\ sessions[s] # None /\ ~IsConnected(sessions[s])
  /\ ses' = Probed({sessions[s]})
  /\ \E r \in Reconnect :
       CallDisconnect(p, IF r THEN "use" ELSE "discard", s, sessions[s], {})
  /\ UNCHANGED <<mgr, sessions>>

GetDiscards(p) ==
  /\ InManager(p, "discard", "closed")
  /\ sessions' = [sessions EXCEPT ![task[p].sid] = None]
  /\ Leave(p)
  /\ UNCHANGED <<lock, ses>>

\* A fault: the session that a rebuild makes is one the caller asked for, of another
\* user of the host.
RebuildElsewhere(p) ==
  /\ InManager(p, "use", "closed")
  /\ \E o \in Obj, c \in Conf :
       /\ Free(o)
       /\ StartConnect(p, "use", o, c, task[p].sid, ses)
  /\ UNCHANGED <<mgr, sessions>>

\* The old object is closed: a new one with the same config takes its place.
Rebuild(p) ==
  /\ InManager(p, "use", "closed")
  /\ \E o \in Obj : /\ Free(o)
                    /\ StartConnect(p, "use", o, ses[task[p].cur].conf, task[p].sid, ses)
  /\ UNCHANGED <<mgr, sessions>>

\* As when connecting fails at once: the old object stays in the directory.
RebuildNoRoom(p) ==
  /\ InManager(p, "use", "closed")
  /\ \A o \in Obj : ~Free(o)
  /\ sessions' = [sessions EXCEPT ![task[p].sid] = task[p].cur]
  /\ Leave(p)
  /\ UNCHANGED <<lock, ses>>

-----------------------------------------------------------------------------
(* SSHSession.connect, once the thread is done or given up                 *)

\* The session is connected and its keepalive loop started.  create_session
\* returns, get_session hands the rebuilt session out.
ConnectSucceeds(p) ==
  LET o == task[p].fresh IN
  /\ At(p, "connecting") /\ Holds(mgr, p) /\ Holds(lock[o], p)
  /\ Becomes(o, [ses[o] EXCEPT !.state = "connected", !.client = "up", !.watched = TRUE])
  /\ lock' = [lock EXCEPT ![o] = Release(@)]
  /\ sessions' = [sessions EXCEPT ![task[p].sid] = o]
  /\ mgr' = Release(mgr)
  /\ MoveTo(p, IF task[p].op = "create" THEN AtRest
               ELSE [AtRest EXCEPT !.at = "holding", !.op = "use", !.cur = o])

\* A fault: a failed rebuild deletes the entry (as the code once did, line 814).
ConnectFailsForgets(p) ==
  LET o == task[p].fresh IN
  /\ At(p, "connecting") /\ Holds(mgr, p) /\ Holds(lock[o], p)
  /\ Becomes(o, [ses[o] EXCEPT !.state = "error", !.client = "down"])
  /\ lock' = [lock EXCEPT ![o] = Release(@)]
  /\ sessions' = [sessions EXCEPT ![task[p].sid] = None]
  /\ Leave(p)

\* An exception or the timeout.  After the timeout the thread goes on and may
\* still open the connection.  A failed rebuild keeps the old entry.
ConnectFails(p) ==
  LET o == task[p].fresh IN
  /\ At(p, "connecting") /\ Holds(mgr, p) /\ Holds(lock[o], p)
  /\ \E c \in {"down", "up"} :
       /\ c = "up" => Cardinality(Orphans) < MaxOrphans
       /\ Becomes(o, [ses[o] EXCEPT !.state = "error", !.client = c])
  /\ lock' = [lock EXCEPT ![o] = Release(@)]
  /\ sessions' = IF task[p].op = "create" THEN sessions
                 ELSE [sessions EXCEPT ![task[p].sid] = task[p].cur]
  /\ Leave(p)

-----------------------------------------------------------------------------
(* SSHSession.disconnect                                                   *)

\* A fault: disconnect does not wait for whoever uses the session.
DisconnectInterrupts(p) ==
  LET o == task[p].cur IN
  /\ At(p, "disconnect")
  /\ ses[o].client # "none"
  /\ Becomes(o, [ses[o] EXCEPT !.watched = FALSE])
  /\ MoveTo(p, [task[p] EXCEPT !.at = "closing"])
  /\ UNCHANGED <<mgr, sessions, lock>>

\* The keepalive task is cancelled, and client.close runs in the pool.
DisconnectCloses(p) ==
  LET o == task[p].cur IN
  /\ At(p, "disconnect") /\ Holds(lock[o], p)
  /\ ses[o].client # "none"
  /\ Becomes(o, [ses[o] EXCEPT !.watched = FALSE])
  /\ MoveTo(p, [task[p] EXCEPT !.at = "closing"])
  /\ UNCHANGED <<mgr, sessions, lock>>

\* client.close has returned, or there was no client.
DisconnectEnds(p) ==
  LET o == task[p].cur IN
  /\ At(p, "closing") \/ (At(p, "disconnect") /\ ses[o].client = "none")
  /\ Holds(lock[o], p)
  /\ Becomes(o, [ses[o] EXCEPT !.watched = FALSE, !.client = "none", !.state = "disconnected"])
  /\ lock' = [lock EXCEPT ![o] = Release(@)]
  /\ MoveTo(p, [task[p] EXCEPT !.at = "closed"])
  /\ UNCHANGED <<mgr, sessions>>

-----------------------------------------------------------------------------
(* close_session, close_all_sessions, _cleanup_timeout_sessions            *)

CloseMissing(p, s) ==
  /\ p \in Task /\ Enters(p)
  /\ sessions[s] = None
  /\ Leave(p)
  /\ UNCHANGED <<sessions, lock, ses>>

\* A fault: the entry is popped before the manager lock is obtained (which a
\* sweep that has the id on its list would trip over).
ClosePopsEarly(p, s) ==
  /\ p \in Task /\ At(p, "manager")
  /\ sessions[s] # None /\ \A q \in Proc : s \notin task[q].todo
  /\ sessions' = [sessions EXCEPT ![s] = None]
  /\ CallDisconnect(p, "close", s, sessions[s], {})
  /\ UNCHANGED <<mgr, ses>>

\* The entry is popped first and its object closed after that.
ClosePops(p, s) ==
  /\ p \in Task /\ Enters(p)
  /\ sessions[s] # None
  /\ sessions' = [sessions EXCEPT ![s] = None]
  /\ CallDisconnect(p, "close", s, sessions[s], {})
  /\ UNCHANGED <<mgr, ses>>

CloseReturns(p) ==
  /\ InManager(p, "close", "closed")
  /\ Leave(p)
  /\ UNCHANGED <<sessions, lock, ses>>

\* A fault: only sessions that are connected are closed.
SweepCollectsLive(p, op) ==
  /\ Enters(p)
  /\ (op = "cleanup") = (p = Cleaner)
  /\ MoveTo(p, [AtRest EXCEPT !.at = "sweep", !.op = op,
                  !.todo = {s \in Live : op = "cleanup" => ses[sessions[s]].idle}])
  /\ UNCHANGED <<mgr, sessions, lock, ses>>

\* The ids to close are collected once: all of them, or those idle too long.
SweepCollects(p, op) ==
  /\ Enters(p)
  /\ (op = "cleanup") = (p = Cleaner)
  /\ MoveTo(p, [AtRest EXCEPT !.at = "sweep", !.op = op,
                  !.todo = {s \in Entries : op = "cleanup" => ses[sessions[s]].idle}])
  /\ UNCHANGED <<mgr, sessions, lock, ses>>

SweepCloses(p) ==
  /\ At(p, "sweep") /\ Holds(mgr, p)
  /\ \E s \in task[p].todo : CallDisconnect(p, task[p].op, s, sessions[s], task[p].todo \ {s})
  /\ UNCHANGED <<mgr, sessions, ses>>

\* The cleanup deletes each entry after closing it; close_all_sessions leaves
\* them to the clear() at its end.
SweepContinues(p) ==
  /\ At(p, "closed") /\ Holds(mgr, p)
  /\ task[p].op \in {"close_all", "cleanup"}
  /\ sessions' = IF task[p].op = "cleanup"
                 THEN [sessions EXCEPT ![task[p].sid] = None] ELSE sessions
  /\ MoveTo(p, [task[p] EXCEPT !.at = "sweep", !.sid = None, !.cur = None])
  /\ UNCHANGED <<mgr, lock, ses>>

SweepEnds(p) ==
  /\ At(p, "sweep") /\ Holds(mgr, p)
  /\ task[p].todo = {}
  /\ sessions' = IF task[p].op = "close_all" THEN [s \in Sid |-> None] ELSE sessions
  /\ Leave(p)
  /\ UNCHANGED <<lock, ses>>

-----------------------------------------------------------------------------
(* The use of a session object that get_session handed out, outside the    *)
(* manager lock: execute_command, the SFTP operations, or nothing.         *)

Drop(p) ==
  /\ At(p, "holding")
  /\ MoveTo(p, AtRest)
  /\ UNCHANGED <<mgr, sessions, lock, ses>>

\* is_connected is read before the session's lock is asked for.
UseRefused(p) ==
  /\ At(p, "holding")
  /\ ~IsConnected(task[p].cur)
  /\ ses' = Probed({task[p].cur})
  /\ MoveTo(p, AtRest)
  /\ UNCHANGED <<mgr, sessions, lock>>

UseAccepted(p) ==
  /\ At(p, "holding")
  /\ IsConnected(task[p].cur)
  /\ lock' = [lock EXCEPT ![task[p].cur] = Acquire(@, p)]
  /\ MoveTo(p, [task[p] EXCEPT !.at = "locking"])
  /\ UNCHANGED <<mgr, sessions, ses>>

\* The lock is ours: a command marks the session as executing, a transfer does
\* not; both are activity.
CommandStarts(p) ==
  LET o == task[p].cur IN
  /\ At(p, "locking") /\ Holds(lock[o], p)
  /\ Becomes(o, [ses[o] EXCEPT !.state = "executing", !.idle = FALSE])
  /\ MoveTo(p, [task[p] EXCEPT !.at = "command"])
  /\ UNCHANGED <<mgr, sessions, lock>>

TransferStarts(p) ==
  LET o == task[p].cur IN
  /\ At(p, "locking") /\ Holds(lock[o], p)
  /\ Becomes(o, [ses[o] EXCEPT !.idle = FALSE])
  /\ MoveTo(p, [task[p] EXCEPT !.at = "transfer"])
  /\ UNCHANGED <<mgr, sessions, lock>>

\* A fault: the state goes back to connected although the keepalive loop is gone.
RestoredUnwatched(o) == IF ses[o].client = "up" THEN "connected" ELSE ses[o].state

\* A fault: a state that SessionState does not have.
RestoredUntyped(o) == IF ses[o].client = "up" THEN "ready" ELSE ses[o].state

\* execute_command's finally clause: connected again if is_connected says so.
Restored(o) == IF IsConnected(o) THEN "connected" ELSE ses[o].state

\* The coroutine of a command or a transfer ends and leaves the state given.
EndUse(p, place, st) ==
  LET o == task[p].cur IN
  /\ At(p, place) /\ Holds(lock[o], p)
  /\ Becomes(o, [ses[o] EXCEPT !.state = st])
  /\ lock' = [lock EXCEPT ![o] = Release(@)]
  /\ MoveTo(p, AtRest)
  /\ UNCHANGED <<mgr, sessions>>

\* A result, or the timeout of submit(): neither touches the state.  Without a
\* client (assert self.client is not None) there is neither.
CommandReturns(p) ==
  /\ At(p, "command") /\ ses[task[p].cur].client # "none"
  /\ EndUse(p, "command", Restored(task[p].cur))

\* ConnectionError, or any exception while is_connected is false.
CommandFails(p) ==
  /\ At(p, "command")
  /\ EndUse(p, "command",
         IF IsConnected(task[p].cur) THEN "connected" ELSE "disconnected")

TransferEnds(p) == At(p, "transfer") /\ EndUse(p, "transfer", ses[task[p].cur].state)

-----------------------------------------------------------------------------
(* The keepalive loop of a session object.                                 *)

\* The loop tests is_connected before and after its sleep and ends when the
\* session is in any other state.
KeepaliveEnds(o) ==
  /\ ses[o].watched /\ ~IsConnected(o)
  /\ Becomes(o, [Probed({o})[o] EXCEPT !.watched = FALSE])
  /\ UNCHANGED <<mgr, sessions, lock, task>>

\* A fault: the exception of the probe ends the loop without a word.
KeepaliveStops(o) ==
  /\ ses[o].watched /\ ses[o].client # "up"
  /\ Becomes(o, [ses[o] EXCEPT !.watched = FALSE])
  /\ UNCHANGED <<mgr, sessions, lock, task>>

\* The probe finds the transport dead: the loop marks the session disconnected
\* whatever state it has by then, and ends.
KeepaliveFails(o) ==
  /\ ses[o].watched /\ ses[o].client # "up"
  /\ Becomes(o, [ses[o] EXCEPT !.watched = FALSE, !.state = "disconnected"])
  /\ UNCHANGED <<mgr, sessions, lock, task>>

-----------------------------------------------------------------------------
(* The environment.                                                        *)

\* The network or the server ends the transport.
ConnectionLost(o) ==
  /\ ses[o].client = "up"
  /\ Becomes(o, [ses[o] EXCEPT !.client = "down"])
  /\ UNCHANGED <<mgr, sessions, lock, task>>

\* session_timeout passes since the last activity of an entry.
GoesIdle(s) ==
  /\ sessions[s] # None /\ ~ses[sessions[s]].idle
  /\ Becomes(sessions[s], [ses[sessions[s]] EXCEPT !.idle = TRUE])
  /\ UNCHANGED <<mgr, sessions, lock, task>>

-----------------------------------------------------------------------------

Create(p) == \E c \in Conf : CreateReuses(p, c) \/ CreateRefused(p, c) \/ CreateConnects(p, c)

Get(p) == \/ \E s \in Sid : GetMissing(p, s) \/ GetLive(p, s) \/ GetDead(p, s)
          \/ GetDiscards(p) \/ Rebuild(p) \/ RebuildNoRoom(p)

Connect(p) == ConnectSucceeds(p) \/ ConnectFails(p)

Disconnect(p) == DisconnectCloses(p) \/ DisconnectEnds(p)

Close(p) == (\E s \in Sid : CloseMissing(p, s) \/ ClosePops(p, s)) \/ CloseReturns(p)

Sweep(p) == \/ \E op \in {"close_all", "cleanup"} : SweepCollects(p, op)
            \/ SweepCloses(p) \/ SweepContinues(p) \/ SweepEnds(p)

Use(p) == \/ Drop(p) \/ UseRefused(p) \/ UseAccepted(p)
          \/ CommandStarts(p) \/ TransferStarts(p)
          \/ CommandReturns(p) \/ CommandFails(p) \/ TransferEnds(p)

\* A step of a coroutine that is under way.
Step(p) == Create(p) \/ Get(p) \/ Connect(p) \/ Disconnect(p) \/ Close(p) \/ Sweep(p) \/ Use(p)

Keepalive(o) == KeepaliveEnds(o) \/ KeepaliveFails(o)

CleanupTick == Request(Cleaner)

Next ==
  \/ \E t \in Task : Request(t)
  \/ CleanupTick
  \/ \E p \in Proc : Step(p)
  \/ \E o \in Obj : Keepalive(o) \/ ConnectionLost(o)
  \/ \E s \in Sid : GoesIdle(s)

Spec == Init /\ [][Next]_vars

(***************************************************************************)
(* The event loop runs every coroutine that can run, asyncio.Lock is fair, *)
(* every blocking call ends (submit gives connect and commands a timeout), *)
(* and the cleanup and keepalive loops wake up after their sleep.  Nothing *)
(* is assumed of the requests, the network or the passing of time.         *)
(***************************************************************************)
Fairness ==
  /\ \A p \in Proc : WF_vars(Step(p))
  /\ \A o \in Obj : WF_vars(Keepalive(o))
  /\ WF_vars(CleanupTick)

FairSpec == Spec /\ Fairness

-----------------------------------------------------------------------------
(* Properties.                                                             *)

\* Every variable has the type its declaration says.
TypeOK ==
  /\ mgr \in Seq(Proc)
  /\ sessions \in [Sid -> Obj \cup {None}]
  /\ lock \in [Obj -> Seq(Proc)]
  /\ ses \in [Obj -> Session]
  /\ task \in [Proc -> TaskState]

\* p is inside `async with self._connect_lock` of o, past its first await.
WorksOn(p, o) ==
  \/ task[p].at \in {"closing", "command", "transfer"} /\ task[p].cur = o
  \/ At(p, "connecting") /\ task[p].fresh = o

\* A session's client is never closed under a command or a transfer that runs
\* on it, and no two coroutines connect, close or use one session at once:
\* whoever got the object from get_session before it was popped included.
SessionExclusive ==
  \A p, q \in Proc, o \in Obj : WorksOn(p, o) /\ WorksOn(q, o) => p = q

\* A coroutine in state t has asked for the lock of o, or is inside it.
Wants(t, o) ==
  \/ t.at \in {"disconnect", "closing", "locking", "command", "transfer"} /\ t.cur = o
  \/ t.at = "connecting" /\ t.fresh = o

\* Where a coroutine stands that has asked for the manager lock, or is inside it.
InsideManager == {"manager", "connecting", "disconnect", "closing", "closed", "sweep"}

\* Nobody waits in a circle, or for a coroutine that is past the lock: whoever holds the
\* lock of a session works on that session and so waits for no other lock, and whoever
\* holds the manager lock waits at most for the lock of one session.
NoCircularWait ==
  /\ \A o \in Obj : lock[o] # Unlocked => Wants(task[Head(lock[o])], o)
  /\ mgr # Unlocked => task[Head(mgr)].at \in InsideManager

\* Two ids never name one session object: closing one would cut off the other.
NoSharing ==
  \A s, t \in Entries : sessions[s] = sessions[t] => s = t

\* No connection is leaked: an open one belongs to an entry of the directory or
\* is being closed.  What remains open after a failed connect (state error) is
\* the thread submit() gave up on.
NoLeak ==
  \A o \in Obj : ses[o].client = "up" /\ ses[o].state # "error" =>
    \/ \E s \in Sid : sessions[s] = o
    \/ \E p \in Proc : task[p].cur = o /\ task[p].at \in {"disconnect", "closing"}

\* A session that counts as connected has a keepalive loop watching it, unless
\* it is being closed: the loop ends for good when it sees another state, so no
\* path may bring a session back to connected behind it.
Monitored ==
  \A o \in Obj : IsConnected(o) =>
    \/ ses[o].watched
    \/ \E p \in Proc : At(p, "closing") /\ task[p].cur = o

\* What a step that changes the directory may do: an entry keeps its config, or
\* it goes away in an operation that closes it.
KeepsIds ==
  \A s \in Entries :
    IF sessions'[s] = None
    THEN \E p \in Proc :
           /\ Holds(mgr, p)
           /\ \/ task[p].op \in {"discard", "close_all", "cleanup"}
              \/ task'[p].op = "close" /\ task'[p].cur = sessions[s]
    ELSE ses'[sessions'[s]].conf = ses[sessions[s]].conf

\* A session id keeps meaning the same host, port and user, through every
\* rebuild, and goes away only when a call closes it or the cleanup does: a
\* rebuild that fails keeps the entry (session_manager.py:812).
IdsStayBound == [][KeepsIds]_vars

\* What a step that adds an entry is: the end of a create_session.
AddsCreated ==
  \A s \in Sid \ Entries :
    sessions'[s] # None =>
      \E p \in Proc : task[p].op = "create" /\ task[p].fresh = sessions'[s]

\* A closed id does not come back: only create_session adds an entry, although
\* a rebuild writes its entry long after it looked it up.
NoResurrection == [][AddsCreated]_vars

\* When create_session adds a session, the live sessions stay within the two
\* limits, although connecting took a while since it counted them.
AdmissionBounded ==
  [][\A s \in Sid \ Entries : sessions'[s] # None =>
       /\ Cardinality(Live') <= MaxSessions
       /\ \A c \in Conf : ses'[sessions'[s]].conf = c =>
            Cardinality(LiveOnHost(HostOf[c])') <= MaxPerHost]_vars

\* What an id stands for, and what the session is connected to that a coroutine got
\* from get_session.
BoundTo(s) == IF sessions[s] = None THEN None ELSE ses[sessions[s]].conf
HoldsOf(p) ==
  IF task[p].at \in {"holding", "locking", "command", "transfer"}
    THEN ses[task[p].cur].conf ELSE None

Promise == INSTANCE SessionDirectory
             WITH bound <- [s \in Sid |-> BoundTo(s)], held <- [p \in Proc |-> HoldsOf(p)]

\* Through rebuilds that swap the object of an id and objects that are used again,
\* the manager is a directory of ids: nobody ever works on a session of another
\* host, port or user than the id he gave stood for.
ImplementsDirectory == Promise!DirSpec

\* Every tool call that starts returns: the manager lock is held across awaits
\* that wait for session locks, and nobody waits for it while holding one.
CallsReturn ==
  \A p \in Proc : ~At(p, "idle") ~> At(p, "idle")

\* A connected session whose transport has died does not go on counting as
\* connected: its keepalive loop (or whoever looks first) marks it.
DeadNoticed ==
  \A o \in Obj : (ses[o].state = "connected" /\ ses[o].client = "down")
                   ~> ses[o].state # "connected"

\* An entry that stays idle is closed and deleted, a dead one included.
IdleReaped ==
  \A s \in Sid : (s \in Entries /\ ses[sessions[s]].idle)
                   ~> ~(s \in Entries /\ ses[sessions[s]].idle)

\* session_manager.py:690, "maximum number of concurrent sessions (against
\* resource exhaustion)": no more sessions than that are alive.
LiveSessionsBounded == Cardinality(Live) <= MaxSessions

\* session_manager.py:789, "if the session exists but is disconnected, try to
\* rebuild it": a session at rest whose transport is alive, and which no failed
\* command has marked disconnected, is not torn down and rebuilt.
OnlyDeadRebuilt ==
  [][\A p \in Task :
       At(p, "manager") /\ At(p, "disconnect")' /\ task'[p].op = "use" =>
         LET o == task'[p].cur IN
         \/ ses[o].client # "up" \/ ses[o].state = "disconnected"
         \/ lock[o] # Unlocked]_vars
=============================================================================
