------------------------ MODULE SessionDirectoryProofs ------------------------
(***************************************************************************)
(* Proofs about the directory of SessionManager: what an id names, and how *)
(* the ids come and go.  They rest on the invariant Guarded: the directory *)
(* changes under the manager lock only, and a coroutine keeps that lock    *)
(* while it closes, connects or rebuilds a session.                        *)
(***************************************************************************)
EXTENDS SessionManagerProofs

\* What coroutine state t, inside the manager lock, relies on in the directory
\* dir and the session objects os: a rebuild works on the object its id names,
\* and the object being connected is not in the directory yet.
Fits(t, dir, os) ==
  /\ t.op = "use" /\ t.at \in {"disconnect", "closing", "closed", "connecting"} =>
       t.cur \in Obj /\ dir[t.sid] = t.cur
  /\ t.at = "connecting" =>
       /\ t.op \in {"create", "use"}
       /\ \A s \in Sid : dir[s] # t.fresh
       /\ t.op = "create" => dir[t.sid] = None
       /\ t.op = "use" => os[t.fresh].conf = os[t.cur].conf

Directory == NoSharing /\ \A p \in Proc : Fits(task[p], sessions, ses)

\* A config changes in objects nobody refers to only.
ConfKept == \A o \in Obj : ses'[o].conf = ses[o].conf \/ Free(o)

\* A step of coroutine p that removes entries: which operations do that.
Removes(p) ==
  /\ Holds(mgr, p)
  /\ \A s \in Sid : \/ sessions'[s] = sessions[s]
                    \/ /\ sessions'[s] = None
                       /\ \/ task[p].op \in {"discard", "close_all", "cleanup"}
                          \/ task'[p].op = "close" /\ task'[p].cur = sessions[s]

\* The steps of a coroutine as the directory sees them.
DirectoryStep(p, t) ==
  /\ MoveTo(p, t)
  /\ ConfKept
  /\ Fits(t, sessions', ses')
  /\ sessions' = sessions \/ Removes(p) \/ ConnectSucceeds(p)

-----------------------------------------------------------------------------

\* The object of an entry, and one a coroutine works on, keep their config.
LEMMA ConfOfUsed ==
  ASSUME ConfKept, NEW o \in Obj,
         \/ \E s \in Sid : sessions[s] = o
         \/ \E p \in Proc : task[p].cur = o \/ task[p].fresh = o
  PROVE  ses'[o].conf = ses[o].conf
BY DEF ConfKept, Free

LEMMA ConfProbed ==
  ASSUME TypeOK, NEW S PROVE \A o \in Obj : Probed(S)[o].conf = ses[o].conf
BY DEF TypeOK, Probed, Session

LEMMA FitsElsewhere ==
  ASSUME Guarded, Directory, NEW p \in Proc, NEW t \in TaskState, DirectoryStep(p, t),
         NEW q \in Proc, q # p
  PROVE  Fits(task'[q], sessions', ses')
<1>1. task'[q] = task[q] /\ Fits(task[q], sessions, ses)
  BY DEF Guarded, Typed, TypeOK, DirectoryStep, MoveTo, Directory
<1>2. CASE task[q].at \in Managed
  <2>1. Holds(mgr, q)
    BY <1>2 DEF Guarded, ManagerHeld
  <2>2. sessions' = sessions
    BY <2>1, OneHolder DEF DirectoryStep, Removes, ConnectSucceeds
  <2>3. task[q].at = "connecting" => task[q].fresh \in Obj
    BY DEF Guarded, Typed, Located
  <2>4. task[q].at = "connecting" => ses'[task[q].fresh].conf = ses[task[q].fresh].conf
    BY <2>3, ConfOfUsed DEF DirectoryStep
  <2>5. task[q].at = "connecting" /\ task[q].op = "use" =>
          ses'[task[q].cur].conf = ses[task[q].cur].conf
    BY <1>1, ConfOfUsed DEF DirectoryStep, Fits
  <2>. QED BY <1>1, <2>2, <2>4, <2>5 DEF Fits
<1>3. CASE task[q].at \notin Managed
  BY <1>1, <1>3 DEF Fits, Managed
<1>. QED BY <1>2, <1>3

LEMMA SharingStep ==
  ASSUME Guarded, Directory, NEW p \in Proc, NEW t \in TaskState, DirectoryStep(p, t)
  PROVE  NoSharing'
<1>1. NoSharing
  BY DEF Directory
<1>2. CASE sessions' = sessions \/ Removes(p)
  BY <1>1, <1>2 DEF NoSharing, Entries, Removes
<1>3. CASE ConnectSucceeds(p)
  <2> DEFINE o == task[p].fresh
             i == task[p].sid
  <2>1. sessions' = [sessions EXCEPT ![i] = o] /\ task[p].at = "connecting"
    BY <1>3 DEF ConnectSucceeds, At
  <2>2. \A s \in Sid : sessions[s] # o
    BY <2>1 DEF Directory, Fits
  <2>3. sessions \in [Sid -> Obj \cup {None}]
    BY DEF Guarded, Typed, TypeOK
  <2>4. \A s \in Sid : sessions'[s] = IF s = i THEN o ELSE sessions[s]
    BY <2>1, <2>3
  <2>. QED BY <1>1, <2>2, <2>4 DEF NoSharing, Entries
<1>. QED BY <1>2, <1>3 DEF DirectoryStep

LEMMA DirectoryKept ==
  ASSUME Guarded, Directory, NEW p \in Proc, NEW t \in TaskState, DirectoryStep(p, t)
  PROVE  Directory'
<1>1. task'[p] = t
  BY DEF Guarded, Typed, TypeOK, DirectoryStep, MoveTo
<1>2. \A q \in Proc : Fits(task'[q], sessions', ses')
  BY <1>1, FitsElsewhere DEF DirectoryStep
<1>. QED BY <1>2, SharingStep DEF Directory, Fits

-----------------------------------------------------------------------------
(* Every operation as the directory sees it.                               *)

LEMMA ConfUnchanged ==
  ASSUME UNCHANGED ses PROVE ConfKept
BY DEF ConfKept

LEMMA ConfBecomes ==
  ASSUME TypeOK, NEW o \in Obj, NEW r \in Session, Becomes(o, r), r.conf = ses[o].conf
  PROVE  ConfKept
BY DEF ConfKept, Becomes, TypeOK

LEMMA DirectoryAtRest ==
  ASSUME NEW p \in Proc, MoveTo(p, AtRest), ConfKept,
         sessions' = sessions \/ Removes(p) \/ ConnectSucceeds(p)
  PROVE  \E t \in TaskState : DirectoryStep(p, t)
BY AtRestType DEF DirectoryStep, Fits, AtRest

LEMMA DirectoryStartConnect ==
  ASSUME Guarded, NEW p \in Proc, NEW op \in {"create", "use"}, NEW o \in Obj, Free(o),
         NEW c \in Conf, NEW s \in Sid, NEW sesNow \in [Obj -> Session],
         StartConnect(p, op, o, c, s, sesNow), UNCHANGED sessions,
         \A x \in Obj : sesNow[x].conf = ses[x].conf,
         op = "create" => sessions[s] = None,
         op = "use" => /\ task[p].cur \in Obj /\ sessions[s] = task[p].cur
                       /\ c = ses[task[p].cur].conf
  PROVE  \E t \in TaskState : DirectoryStep(p, t)
<1> DEFINE t == [task[p] EXCEPT !.at = "connecting", !.op = op, !.fresh = o, !.sid = s]
           r == [NewSession(c) EXCEPT !.state = "connecting"]
<1>0. task[p] \in TaskState
  BY DEF Guarded, Typed, TypeOK
<1>1. t \in TaskState
  BY <1>0 DEF TaskState, Places, Ops
<1>2. t.at = "connecting" /\ t.op = op /\ t.fresh = o /\ t.sid = s /\ t.cur = task[p].cur
  BY DEF Guarded, Typed, TypeOK, TaskState
<1>3. MoveTo(p, t) /\ ses' = [sesNow EXCEPT ![o] = r]
  BY DEF StartConnect
<1>4. r.conf = c
  BY DEF NewSession
<1> HIDE DEF t, r
<1>5. \A x \in Obj : ses'[x].conf = IF x = o THEN c ELSE ses[x].conf
  BY <1>3, <1>4
<1>6. ConfKept
  BY <1>5 DEF ConfKept
<1>7. \A i \in Sid : sessions'[i] # o
  BY DEF Free
<1>8. op = "use" => task[p].cur # o
  BY DEF Free
<1>9. Fits(t, sessions', ses')
  BY <1>2, <1>5, <1>7, <1>8 DEF Fits
<1>. QED BY <1>1, <1>3, <1>6, <1>9 DEF DirectoryStep

LEMMA DirectoryCallDisconnect ==
  ASSUME Guarded, NEW p \in Proc, NEW op \in Ops \cup {None}, NEW s \in Sid,
         NEW o \in Obj, NEW todo \in SUBSET Sid, CallDisconnect(p, op, s, o, todo),
         ConfKept, op = "use" => sessions'[s] = o,
         \/ UNCHANGED sessions
         \/ /\ op = "close" /\ o = sessions[s] /\ Holds(mgr, p)
            /\ sessions' = [sessions EXCEPT ![s] = None]
  PROVE  \E t \in TaskState : DirectoryStep(p, t)
<1> DEFINE t == [task[p] EXCEPT !.at = "disconnect", !.op = op, !.sid = s,
                               !.cur = o, !.todo = todo]
<1>0. task[p] \in TaskState
  BY DEF Guarded, Typed, TypeOK
<1>1. t \in TaskState
  BY <1>0 DEF TaskState, Places
<1>2. t.at = "disconnect" /\ t.op = op /\ t.sid = s /\ t.cur = o
  BY DEF Guarded, Typed, TypeOK, TaskState
<1>3. MoveTo(p, t)
  BY DEF CallDisconnect
<1> HIDE DEF t
<1>4. task'[p] = t
  BY <1>3 DEF Guarded, Typed, TypeOK, MoveTo
<1>5. sessions' = sessions \/ Removes(p)
  BY <1>2, <1>4 DEF Removes, Guarded, Typed, TypeOK
<1>6. Fits(t, sessions', ses')
  BY <1>2 DEF Fits
<1>. QED BY <1>1, <1>3, <1>5, <1>6 DEF DirectoryStep

LEMMA DirectoryCreate ==
  ASSUME Guarded, Directory, NEW p \in Proc, Create(p)
  PROVE  \E t \in TaskState : DirectoryStep(p, t)
<1> PICK c \in Conf : CreateReuses(p, c) \/ CreateRefused(p, c) \/ CreateConnects(p, c)
  BY DEF Create
<1>1. TypeOK
  BY DEF Guarded, Typed
<1>2. CASE CreateReuses(p, c)
  <2>1. ConfKept
    BY <1>1, <1>2, ConfProbed DEF CreateReuses, ConfKept
  <2>. QED BY <1>2, <2>1, DirectoryAtRest DEF CreateReuses, Leave
<1>3. CASE CreateRefused(p, c)
  <2>1. ConfKept
    BY <1>1, <1>3, ConfProbed DEF CreateRefused, ConfKept
  <2>. QED BY <1>3, <2>1, DirectoryAtRest DEF CreateRefused, Leave
<1>4. CASE CreateConnects(p, c)
  <2> DEFINE now == Probed({sessions[x] : x \in Entries})
  <2>1. PICK o \in Obj, s \in Sid :
          Free(o) /\ Unused(s) /\ StartConnect(p, "create", o, c, s, now)
    BY <1>4 DEF CreateConnects
  <2>2. now \in [Obj -> Session] /\ \A x \in Obj : now[x].conf = ses[x].conf
    BY <1>1, ProbedType, ConfProbed
  <2>3. UNCHANGED sessions /\ sessions[s] = None
    BY <1>4, <2>1 DEF CreateConnects, Unused
  <2> HIDE DEF now
  <2>. QED BY <2>1, <2>2, <2>3, DirectoryStartConnect
<1>. QED BY <1>2, <1>3, <1>4

LEMMA DirectoryGet ==
  ASSUME Guarded, Directory, NEW p \in Proc, Get(p)
  PROVE  \E t \in TaskState : DirectoryStep(p, t)
<1>1. TypeOK
  BY DEF Guarded, Typed
<1>2. ASSUME NEW s \in Sid, GetMissing(p, s)
      PROVE  \E t \in TaskState : DirectoryStep(p, t)
  BY <1>2, ConfUnchanged, DirectoryAtRest DEF GetMissing, Leave
<1>3. ASSUME NEW s \in Sid, GetLive(p, s)
      PROVE  \E t \in TaskState : DirectoryStep(p, t)
  <2> DEFINE t == [AtRest EXCEPT !.at = "holding", !.op = "use", !.cur = sessions[s]]
  <2>1. sessions[s] \in Obj
    BY <1>1, <1>3, EntryType DEF GetLive
  <2>2. t \in TaskState /\ t.at = "holding"
    BY <2>1 DEF AtRest, TaskState, Places, Ops
  <2>3. MoveTo(p, t) /\ UNCHANGED <<sessions, ses>>
    BY <1>3 DEF GetLive
  <2> HIDE DEF t
  <2>4. DirectoryStep(p, t)
    BY <2>2, <2>3, ConfUnchanged DEF DirectoryStep, Fits
  <2>. QED BY <2>2, <2>4
<1>4. ASSUME NEW s \in Sid, GetDead(p, s)
      PROVE  \E t \in TaskState : DirectoryStep(p, t)
  <2>1. sessions[s] \in Obj /\ {} \in SUBSET Sid /\ UNCHANGED sessions
    BY <1>1, <1>4, EntryType DEF GetDead
  <2>2. PICK op \in Ops : CallDisconnect(p, op, s, sessions[s], {})
    BY <1>4 DEF GetDead, Ops
  <2>3. ConfKept
    BY <1>1, <1>4, ConfProbed DEF GetDead, ConfKept
  <2>. QED BY <2>1, <2>2, <2>3, DirectoryCallDisconnect
<1>5. CASE GetDiscards(p)
  <2>1. Removes(p)
    BY <1>1, <1>5 DEF GetDiscards, InManager, Removes, TypeOK
  <2>. QED BY <1>5, <2>1, ConfUnchanged, DirectoryAtRest DEF GetDiscards, Leave
<1>6. task[p].at = "closed" /\ task[p].op = "use" =>
        task[p].cur \in Obj /\ task[p].sid \in Sid /\ sessions[task[p].sid] = task[p].cur
  BY DEF Guarded, Typed, Located, Directory, Fits
<1>7. CASE Rebuild(p)
  <2> DEFINE cur == task[p].cur
             s == task[p].sid
             c == ses[cur].conf
  <2>1. PICK o \in Obj : Free(o) /\ StartConnect(p, "use", o, c, s, ses)
    BY <1>7 DEF Rebuild
  <2>2. cur \in Obj /\ s \in Sid /\ sessions[s] = cur /\ UNCHANGED sessions
    BY <1>6, <1>7 DEF Rebuild, InManager, At
  <2>3. ses \in [Obj -> Session] /\ c \in Conf
    BY <1>1, <2>2 DEF TypeOK, Session
  <2> HIDE DEF s, c
  <2>. QED BY <2>1, <2>2, <2>3, DirectoryStartConnect DEF c
<1>8. CASE RebuildNoRoom(p)
  <2>1. UNCHANGED sessions
    BY <1>1, <1>6, <1>8 DEF RebuildNoRoom, InManager, At, TypeOK
  <2>. QED BY <1>8, <2>1, ConfUnchanged, DirectoryAtRest DEF RebuildNoRoom, Leave
<1>. QED BY <1>2, <1>3, <1>4, <1>5, <1>7, <1>8 DEF Get

LEMMA DirectoryConnect ==
  ASSUME Guarded, Directory, NEW p \in Proc, Connect(p)
  PROVE  \E t \in TaskState : DirectoryStep(p, t)
<1> DEFINE o == task[p].fresh
<1>1. TypeOK /\ o \in Obj /\ task[p].at = "connecting" /\ Fits(task[p], sessions, ses)
  BY DEF Connect, ConnectSucceeds, ConnectFails, At, Guarded, Typed, Located, Directory
<1>2. ses[o] \in Session
  BY <1>1 DEF TypeOK
<1>3. CASE ConnectSucceeds(p)
  <2> DEFINE r == [ses[o] EXCEPT !.state = "connected", !.client = "up",
                                 !.watched = TRUE]
             t == IF task[p].op = "create" THEN AtRest
                  ELSE [AtRest EXCEPT !.at = "holding", !.op = "use", !.cur = o]
  <2>1. r \in Session /\ r.conf = ses[o].conf
    BY <1>2 DEF Session, State
  <2>2. Becomes(o, r) /\ MoveTo(p, t)
    BY <1>3 DEF ConnectSucceeds
  <2>3. t \in TaskState /\ t.at \in {"idle", "holding"}
    BY <1>1 DEF AtRest, TaskState, Places, Ops
  <2> HIDE DEF r, t
  <2>4. ConfKept
    BY <1>1, <2>1, <2>2, ConfBecomes
  <2>5. DirectoryStep(p, t)
    BY <1>3, <2>2, <2>3, <2>4 DEF DirectoryStep, Fits
  <2>. QED BY <2>3, <2>5
<1>4. CASE ConnectFails(p)
  <2>1. PICK c \in {"down", "up"} :
          Becomes(o, [ses[o] EXCEPT !.state = "error", !.client = c])
    BY <1>4 DEF ConnectFails
  <2> DEFINE r == [ses[o] EXCEPT !.state = "error", !.client = c]
  <2>2. r \in Session /\ r.conf = ses[o].conf
    BY <1>2 DEF Session, State
  <2>3. ConfKept
    BY <1>1, <2>1, <2>2, ConfBecomes
  <2>4. UNCHANGED sessions
    <3>1. CASE task[p].op = "create"
      BY <1>4, <3>1 DEF ConnectFails
    <3>2. CASE task[p].op = "use"
      BY <1>1, <1>4, <3>2 DEF ConnectFails, Fits, TypeOK
    <3>. QED BY <1>1, <3>1, <3>2 DEF Fits
  <2>. QED BY <1>4, <2>3, <2>4, DirectoryAtRest DEF ConnectFails, Leave
<1>. QED BY <1>3, <1>4 DEF Connect

LEMMA DirectoryDisconnect ==
  ASSUME Guarded, Directory, NEW p \in Proc, Disconnect(p)
  PROVE  \E t \in TaskState : DirectoryStep(p, t)
<1> DEFINE o == task[p].cur
<1>1. PICK place \in {"closing", "closed"} : MoveTo(p, [task[p] EXCEPT !.at = place])
  BY DEF Disconnect, DisconnectCloses, DisconnectEnds
<1> DEFINE t == [task[p] EXCEPT !.at = place]
<1>2. task[p] \in TaskState /\ o \in Obj /\ ses[o] \in Session /\ TypeOK
  BY DEF Disconnect, DisconnectCloses, DisconnectEnds, At, Guarded, Typed, TypeOK, Located
<1>3. /\ t \in TaskState /\ t.at = place /\ t.op = task[p].op /\ t.cur = o
      /\ t.sid = task[p].sid
  BY <1>2 DEF TaskState, Places
<1>4. ConfKept
  <2>1. CASE DisconnectCloses(p)
    <3> DEFINE r == [ses[o] EXCEPT !.watched = FALSE]
    <3>1. r \in Session /\ r.conf = ses[o].conf
      BY <1>2 DEF Session
    <3>2. Becomes(o, r)
      BY <2>1 DEF DisconnectCloses
    <3>. QED BY <1>2, <3>1, <3>2, ConfBecomes
  <2>2. CASE DisconnectEnds(p)
    <3> DEFINE r == [ses[o] EXCEPT !.watched = FALSE, !.client = "none",
                                   !.state = "disconnected"]
    <3>1. r \in Session /\ r.conf = ses[o].conf
      BY <1>2 DEF Session, State
    <3>2. Becomes(o, r)
      BY <2>2 DEF DisconnectEnds
    <3>. QED BY <1>2, <3>1, <3>2, ConfBecomes
  <2>. QED BY <2>1, <2>2 DEF Disconnect
<1>5. UNCHANGED sessions /\ task[p].at \in {"disconnect", "closing"}
  BY DEF Disconnect, DisconnectCloses, DisconnectEnds, At
<1>6. Fits(t, sessions', ses')
  BY <1>3, <1>5 DEF Fits, Directory
<1>. QED BY <1>1, <1>3, <1>4, <1>5, <1>6 DEF DirectoryStep

LEMMA DirectoryClose ==
  ASSUME Guarded, Directory, NEW p \in Proc, Close(p)
  PROVE  \E t \in TaskState : DirectoryStep(p, t)
<1>1. ASSUME NEW s \in Sid, CloseMissing(p, s)
      PROVE  \E t \in TaskState : DirectoryStep(p, t)
  BY <1>1, ConfUnchanged, DirectoryAtRest DEF CloseMissing, Leave
<1>2. ASSUME NEW s \in Sid, ClosePops(p, s)
      PROVE  \E t \in TaskState : DirectoryStep(p, t)
  <2>1. sessions[s] \in Obj /\ {} \in SUBSET Sid /\ "close" \in Ops
    BY <1>2, EntryType DEF ClosePops, Guarded, Typed, Ops
  <2>2. ConfKept
    BY <1>2, ConfUnchanged DEF ClosePops
  <2>3. Holds(mgr, p) /\ sessions' = [sessions EXCEPT ![s] = None]
    BY <1>2 DEF ClosePops, Enters
  <2>4. CallDisconnect(p, "close", s, sessions[s], {})
    BY <1>2 DEF ClosePops
  <2>. QED BY <2>1, <2>2, <2>3, <2>4, DirectoryCallDisconnect
<1>3. CASE CloseReturns(p)
  BY <1>3, ConfUnchanged, DirectoryAtRest DEF CloseReturns, Leave
<1>. QED BY <1>1, <1>2, <1>3 DEF Close

LEMMA DirectorySweep ==
  ASSUME Guarded, Directory, NEW p \in Proc, Sweep(p)
  PROVE  \E t \in TaskState : DirectoryStep(p, t)
<1>1. ASSUME NEW op \in {"close_all", "cleanup"}, SweepCollects(p, op)
      PROVE  \E t \in TaskState : DirectoryStep(p, t)
  <2> DEFINE todo == {s \in Entries : op = "cleanup" => ses[sessions[s]].idle}
             t == [AtRest EXCEPT !.at = "sweep", !.op = op, !.todo = todo]
  <2>1. MoveTo(p, t) /\ UNCHANGED <<sessions, ses>> /\ todo \in SUBSET Sid
    BY <1>1 DEF SweepCollects, Entries
  <2> HIDE DEF todo
  <2>2. t \in TaskState /\ t.at = "sweep"
    BY <2>1 DEF AtRest, TaskState, Places, Ops
  <2> HIDE DEF t
  <2>. QED BY <2>1, <2>2, ConfUnchanged DEF DirectoryStep, Fits
<1>2. CASE SweepCloses(p)
  <2>1. PICK s \in task[p].todo :
          CallDisconnect(p, task[p].op, s, sessions[s], task[p].todo \ {s})
    BY <1>2 DEF SweepCloses
  <2> DEFINE op == task[p].op
             o == sessions[s]
             rest == task[p].todo \ {s}
  <2>2. s \in Sid /\ o \in Obj
    BY <2>1, EntryType DEF Guarded, Typed, ManagerHeld, Entries
  <2>3. rest \in SUBSET Sid /\ op \in Ops \cup {None}
    BY DEF Guarded, Typed, TypeOK, TaskState
  <2>4. CallDisconnect(p, op, s, o, rest) /\ UNCHANGED <<sessions, ses>>
    BY <1>2, <2>1 DEF SweepCloses
  <2>5. sessions'[s] = o
    BY <2>4
  <2> HIDE DEF op, o, rest
  <2>. QED BY <2>2, <2>3, <2>4, <2>5, ConfUnchanged, DirectoryCallDisconnect
<1>3. CASE SweepContinues(p)
  <2> DEFINE t == [task[p] EXCEPT !.at = "sweep", !.sid = None, !.cur = None]
  <2>1. task[p] \in TaskState
    BY DEF Guarded, Typed, TypeOK
  <2>2. t \in TaskState /\ t.at = "sweep"
    BY <2>1 DEF TaskState, Places
  <2>3. MoveTo(p, t) /\ UNCHANGED ses /\ (sessions' = sessions \/ Removes(p))
    BY <1>3 DEF SweepContinues, Removes, Guarded, Typed, TypeOK
  <2> HIDE DEF t
  <2>. QED BY <2>2, <2>3, ConfUnchanged DEF DirectoryStep, Fits
<1>4. CASE SweepEnds(p)
  <2>1. sessions' = sessions \/ Removes(p)
    BY <1>4 DEF SweepEnds, Removes
  <2>. QED BY <1>4, <2>1, ConfUnchanged, DirectoryAtRest DEF SweepEnds, Leave
<1>. QED BY <1>1, <1>2, <1>3, <1>4 DEF Sweep

LEMMA DirectoryUse ==
  ASSUME Guarded, Directory, NEW p \in Proc, Use(p)
  PROVE  \E t \in TaskState : DirectoryStep(p, t)
<1> DEFINE o == task[p].cur
<1>1. TypeOK /\ task[p] \in TaskState /\ UNCHANGED sessions
  BY DEF Guarded, Typed, TypeOK, Use, Drop, UseRefused, UseAccepted, CommandStarts,
         TransferStarts, CommandReturns, CommandFails, TransferEnds, EndUse
<1>2. task[p].at \in {"holding", "locking", "command", "transfer"} =>
        o \in Obj /\ ses[o] \in Session
  BY <1>1 DEF Guarded, Typed, Located, TypeOK
<1>3. CASE Drop(p)
  BY <1>3, ConfUnchanged, DirectoryAtRest DEF Drop
<1>4. CASE UseRefused(p)
  <2>1. ConfKept
    BY <1>1, <1>4, ConfProbed DEF UseRefused, ConfKept
  <2>. QED BY <1>4, <2>1, DirectoryAtRest DEF UseRefused
<1>5. ASSUME NEW place \in {"locking", "command", "transfer"}, ConfKept,
             MoveTo(p, [task[p] EXCEPT !.at = place])
      PROVE  \E t \in TaskState : DirectoryStep(p, t)
  <2> DEFINE t == [task[p] EXCEPT !.at = place]
  <2>1. t \in TaskState /\ t.at = place
    BY <1>1 DEF TaskState, Places
  <2>2. DirectoryStep(p, t)
    BY <1>1, <1>5, <2>1 DEF DirectoryStep, Fits
  <2>. QED BY <2>1, <2>2
<1>6. CASE UseAccepted(p)
  BY <1>5, <1>6, ConfUnchanged DEF UseAccepted
<1>7. CASE CommandStarts(p)
  <2> DEFINE r == [ses[o] EXCEPT !.state = "executing", !.idle = FALSE]
  <2>1. o \in Obj /\ r \in Session /\ r.conf = ses[o].conf
    BY <1>2, <1>7 DEF CommandStarts, At, Session, State
  <2>2. Becomes(o, r)
    BY <1>7 DEF CommandStarts
  <2> HIDE DEF r
  <2>. QED BY <1>1, <1>5, <1>7, <2>1, <2>2, ConfBecomes DEF CommandStarts
<1>8. CASE TransferStarts(p)
  <2> DEFINE r == [ses[o] EXCEPT !.idle = FALSE]
  <2>1. o \in Obj /\ r \in Session /\ r.conf = ses[o].conf
    BY <1>2, <1>8 DEF TransferStarts, At, Session
  <2>2. Becomes(o, r)
    BY <1>8 DEF TransferStarts
  <2> HIDE DEF r
  <2>. QED BY <1>1, <1>5, <1>8, <2>1, <2>2, ConfBecomes DEF TransferStarts
<1>9. ASSUME NEW place \in {"command", "transfer"}, NEW st \in State, EndUse(p, place, st)
      PROVE  \E t \in TaskState : DirectoryStep(p, t)
  <2> DEFINE r == [ses[o] EXCEPT !.state = st]
  <2>1. o \in Obj /\ r \in Session /\ r.conf = ses[o].conf
    BY <1>2, <1>9 DEF EndUse, At, Session
  <2>2. Becomes(o, r)
    BY <1>9 DEF EndUse
  <2> HIDE DEF r
  <2>3. ConfKept
    BY <1>1, <2>1, <2>2, ConfBecomes
  <2>. QED BY <1>1, <1>9, <2>3, DirectoryAtRest DEF EndUse
<1>10. CASE CommandReturns(p)
  <2>1. Restored(o) \in State
    BY <1>2, <1>10 DEF CommandReturns, At, Restored, Session, State
  <2>. QED BY <1>9, <1>10, <2>1 DEF CommandReturns
<1>11. CASE CommandFails(p)
  BY <1>9, <1>11 DEF CommandFails, State
<1>12. CASE TransferEnds(p)
  <2>1. ses[o].state \in State
    BY <1>2, <1>12 DEF TransferEnds, At, Session
  <2>. QED BY <1>9, <1>12, <2>1 DEF TransferEnds
<1>. QED BY <1>3, <1>4, <1>6, <1>7, <1>8, <1>10, <1>11, <1>12 DEF Use

LEMMA DirectoryRequest ==
  ASSUME NEW p \in Proc, Request(p)
  PROVE  \E t \in TaskState : DirectoryStep(p, t)
<1> DEFINE t == [AtRest EXCEPT !.at = "manager"]
<1>1. t \in TaskState /\ t.at = "manager"
  BY DEF AtRest, TaskState, Places, Ops
<1>2. MoveTo(p, t) /\ UNCHANGED <<sessions, ses>>
  BY DEF Request
<1> HIDE DEF t
<1>3. DirectoryStep(p, t)
  BY <1>1, <1>2, ConfUnchanged DEF DirectoryStep, Fits
<1>. QED BY <1>1, <1>3

LEMMA DirectoryObjectStep ==
  ASSUME Guarded, ObjectStep
  PROVE  ConfKept /\ UNCHANGED <<mgr, sessions, lock, task>>
<1>1. UNCHANGED <<mgr, sessions, lock, task>>
  BY TypedObjectStep DEF Guarded
<1>2. TypeOK
  BY DEF Guarded, Typed
<1>3. ASSUME NEW o \in Obj, KeepaliveEnds(o) PROVE ConfKept
  <2> DEFINE x == Probed({o})[o]
             r == [x EXCEPT !.watched = FALSE]
  <2>1. x \in Session /\ x.conf = ses[o].conf
    BY <1>2, ProbedType, ConfProbed
  <2> HIDE DEF x
  <2>2. r \in Session /\ r.conf = ses[o].conf
    BY <2>1 DEF Session
  <2>3. Becomes(o, r)
    BY <1>3 DEF KeepaliveEnds, x
  <2> HIDE DEF r
  <2>. QED BY <1>2, <2>2, <2>3, ConfBecomes
<1>4. ASSUME NEW o \in Obj
      PROVE  /\ ses[o] \in Session
             /\ [ses[o] EXCEPT !.watched = FALSE, !.state = "disconnected"] \in Session
             /\ [ses[o] EXCEPT !.client = "down"] \in Session
             /\ [ses[o] EXCEPT !.idle = TRUE] \in Session
  <2>1. ses[o] \in Session
    BY <1>2 DEF TypeOK
  <2>. QED BY <2>1 DEF Session, State
<1>5. ASSUME NEW o \in Obj, KeepaliveFails(o) PROVE ConfKept
  <2> DEFINE r == [ses[o] EXCEPT !.watched = FALSE, !.state = "disconnected"]
  <2>1. r \in Session /\ r.conf = ses[o].conf
    BY <1>4 DEF Session
  <2>2. Becomes(o, r)
    BY <1>5 DEF KeepaliveFails
  <2>. QED BY <1>2, <2>1, <2>2, ConfBecomes
<1>6. ASSUME NEW o \in Obj, ConnectionLost(o) PROVE ConfKept
  <2> DEFINE r == [ses[o] EXCEPT !.client = "down"]
  <2>1. r \in Session /\ r.conf = ses[o].conf
    BY <1>4 DEF Session
  <2>2. Becomes(o, r)
    BY <1>6 DEF ConnectionLost
  <2>. QED BY <1>2, <2>1, <2>2, ConfBecomes
<1>7. ASSUME NEW s \in Sid, GoesIdle(s) PROVE ConfKept
  <2> DEFINE o == sessions[s]
             r == [ses[o] EXCEPT !.idle = TRUE]
  <2>1. o \in Obj
    BY <1>2, <1>7, EntryType DEF GoesIdle
  <2>2. r \in Session /\ r.conf = ses[o].conf
    BY <1>4, <2>1 DEF Session
  <2>3. Becomes(o, r)
    BY <1>7 DEF GoesIdle
  <2>. QED BY <1>2, <2>1, <2>2, <2>3, ConfBecomes
<1>. QED BY <1>1, <1>3, <1>5, <1>6, <1>7 DEF ObjectStep, Keepalive

-----------------------------------------------------------------------------
(* The directory invariant, and what a step does to the ids.               *)

LEMMA StepDirectory ==
  ASSUME Guarded, Directory, NEW p \in Proc, Request(p) \/ Step(p)
  PROVE  \E t \in TaskState : DirectoryStep(p, t)
<1>1. CASE Request(p)
  BY <1>1, DirectoryRequest
<1>2. CASE Step(p)
  BY <1>2, DirectoryCreate, DirectoryGet, DirectoryConnect, DirectoryDisconnect,
     DirectoryClose, DirectorySweep, DirectoryUse DEF Step
<1>. QED BY <1>1, <1>2

LEMMA DirectoryNext ==
  ASSUME Guarded, Directory, [Next]_vars PROVE Directory'
<1>1. CASE ObjectStep
  <2>1. ConfKept /\ UNCHANGED <<mgr, sessions, lock, task>>
    BY <1>1, DirectoryObjectStep
  <2>2. ASSUME NEW p \in Proc PROVE Fits(task[p], sessions, ses')
    <3>1. task[p].at = "connecting" => task[p].fresh \in Obj
      BY DEF Guarded, Typed, Located
    <3>2. task[p].at = "connecting" => ses'[task[p].fresh].conf = ses[task[p].fresh].conf
      BY <2>1, <3>1, ConfOfUsed
    <3>3. task[p].at = "connecting" /\ task[p].op = "use" =>
            ses'[task[p].cur].conf = ses[task[p].cur].conf
      BY <2>1, ConfOfUsed DEF Directory, Fits
    <3>. QED BY <3>2, <3>3 DEF Directory, Fits
  <2>. QED BY <2>1, <2>2 DEF Directory, NoSharing, Entries
<1>2. ASSUME NEW p \in Proc, Request(p) \/ Step(p) PROVE Directory'
  <2>1. PICK t \in TaskState : DirectoryStep(p, t)
    BY <1>2, StepDirectory
  <2>. QED BY <2>1, DirectoryKept
<1>3. CASE UNCHANGED vars
  BY <1>3 DEF vars, Directory, NoSharing, Entries
<1>. QED BY <1>1, <1>2, <1>3, NextParts

LEMMA DirectoryInit ==
  ASSUME Init PROVE Directory
BY DEF Init, Directory, NoSharing, Entries, Fits, AtRest

\* Every reachable state satisfies the invariant of the directory.
THEOREM DirectoryCorrect == Spec => []Directory
<1>1. Init => Directory
  BY DirectoryInit
<1>2. Guarded /\ Directory /\ [Next]_vars => Directory'
  BY DirectoryNext
<1>. QED BY <1>1, <1>2, GuardedCorrect, PTL DEF Spec

\* However calls, rebuilds and failures interleave, no two ids name one session
\* object: closing an id never cuts off another one.
THEOREM SharingCorrect == Spec => []NoSharing
<1>1. Directory => NoSharing
  BY DEF Directory
<1>. QED BY <1>1, DirectoryCorrect, PTL

\* What a coroutine's step does to the ids.
LEMMA IdsStep ==
  ASSUME Guarded, Directory, NEW p \in Proc, NEW t \in TaskState, DirectoryStep(p, t)
  PROVE  KeepsIds /\ AddsCreated
<1>1. sessions \in [Sid -> Obj \cup {None}] /\ ConfKept
  BY DEF Guarded, Typed, TypeOK, DirectoryStep
<1>2. ASSUME NEW s \in Entries PROVE ses'[sessions[s]].conf = ses[sessions[s]].conf
  BY <1>1, ConfOfUsed DEF Entries
<1>3. CASE sessions' = sessions
  BY <1>2, <1>3 DEF KeepsIds, AddsCreated, Entries
<1>4. CASE Removes(p)
  BY <1>2, <1>4 DEF KeepsIds, AddsCreated, Entries, Removes
<1>5. CASE ConnectSucceeds(p)
  <2> DEFINE o == task[p].fresh
             i == task[p].sid
  <2>1. task[p].at = "connecting" /\ o \in Obj /\ i \in Sid
    BY <1>5 DEF ConnectSucceeds, At, Guarded, Typed, Located
  <2>2. \A s \in Sid : sessions'[s] = IF s = i THEN o ELSE sessions[s]
    BY <1>1, <1>5 DEF ConnectSucceeds
  <2>3. Fits(task[p], sessions, ses)
    BY DEF Directory
  <2>4. ses'[o].conf = ses[o].conf
    BY <1>1, <2>1, ConfOfUsed
  <2>5. o # None
    BY <2>1, ConstantsAssumption
  <2>6. KeepsIds
    <3>1. ASSUME NEW s \in Entries, s # i
          PROVE  sessions'[s] # None /\ ses'[sessions'[s]].conf = ses[sessions[s]].conf
      BY <1>2, <2>2, <3>1 DEF Entries
    <3>2. i \in Entries => ses'[sessions'[i]].conf = ses[sessions[i]].conf
      BY <2>1, <2>2, <2>3, <2>4 DEF Fits, Entries
    <3>. QED BY <2>1, <2>2, <2>5, <3>1, <3>2 DEF KeepsIds
  <2>7. AddsCreated
    <3>1. i \notin Entries => task[p].op = "create"
      BY <2>1, <2>3, ConstantsAssumption DEF Fits, Entries
    <3>. QED BY <2>2, <3>1 DEF AddsCreated, Entries
  <2>. QED BY <2>6, <2>7
<1>. QED BY <1>3, <1>4, <1>5 DEF DirectoryStep

LEMMA IdsNext ==
  ASSUME Guarded, Directory, [Next]_vars PROVE [KeepsIds /\ AddsCreated]_vars
<1>1. CASE ObjectStep
  <2>1. ConfKept /\ sessions' = sessions
    BY <1>1, DirectoryObjectStep
  <2>2. ASSUME NEW s \in Entries PROVE ses'[sessions[s]].conf = ses[sessions[s]].conf
    BY <2>1, ConfOfUsed DEF Entries, Guarded, Typed, TypeOK
  <2>. QED BY <2>1, <2>2 DEF KeepsIds, AddsCreated, Entries
<1>2. ASSUME NEW p \in Proc, Request(p) \/ Step(p) PROVE KeepsIds /\ AddsCreated
  <2>1. PICK t \in TaskState : DirectoryStep(p, t)
    BY <1>2, StepDirectory
  <2>. QED BY <2>1, IdsStep
<1>. QED BY <1>1, <1>2, NextParts

\* A session id names the same host, port and user until an operation that
\* closes it removes it: no rebuild, failed or not, changes or drops an id.
THEOREM IdsCorrect == Spec => IdsStayBound
<1>1. Guarded /\ Directory /\ [Next]_vars => [KeepsIds]_vars
  BY IdsNext
<1>. QED BY <1>1, GuardedCorrect, DirectoryCorrect, PTL DEF Spec, IdsStayBound

\* No rebuild that was under way brings a closed id back.
THEOREM NoResurrectionCorrect == Spec => NoResurrection
<1>1. Guarded /\ Directory /\ [Next]_vars => [AddsCreated]_vars
  BY IdsNext
<1>. QED BY <1>1, GuardedCorrect, DirectoryCorrect, PTL DEF Spec, NoResurrection

=============================================================================
