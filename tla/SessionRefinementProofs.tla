------------------------ MODULE SessionRefinementProofs ------------------------
(***************************************************************************)
(* SessionManager implements SessionDirectory.  SessionDirectoryProofs says*)
(* what a step does to the entries; here is what it does to the sessions   *)
(* that coroutines got from get_session, and which step of the abstract    *)
(* directory the two make together.                                        *)
(***************************************************************************)
EXTENDS SessionDirectoryProofs

Uses == {"holding", "locking", "command", "transfer"}

\* What coroutine p has in hand before and after one of its steps: nothing, the same
\* session or one that it gives back, or the one that an id of the directory names now.
HandStep(p) ==
  \/ task[p].at \notin Uses /\ task'[p].at \notin Uses
  \/ /\ task[p].at \in Uses /\ sessions' = sessions
     /\ task'[p].at \in Uses => task'[p].cur = task[p].cur
  \/ /\ task[p].at \notin Uses /\ task'[p].at \in Uses
     /\ task'[p].cur \in Obj
     /\ \E s \in Sid :
          /\ sessions[s] # None
          /\ ses'[task'[p].cur].conf = ses[sessions[s]].conf
          /\ sessions' = [sessions EXCEPT ![s] = task'[p].cur]

LEMMA MovedTo ==
  ASSUME Guarded, NEW p \in Proc, NEW t, MoveTo(p, t)
  PROVE  task'[p] = t
BY DEF MoveTo, Guarded, Typed, TypeOK

\* A coroutine that has no session in hand and gets none.
LEMMA HandEmpty ==
  ASSUME Guarded, NEW p \in Proc, task[p].at \notin Uses, NEW t, MoveTo(p, t),
         t.at \notin Uses
  PROVE  HandStep(p)
BY MovedTo DEF HandStep

LEMMA HandCreate ==
  ASSUME Guarded, NEW p \in Proc, Create(p) PROVE HandStep(p)
<1> PICK c \in Conf : CreateReuses(p, c) \/ CreateRefused(p, c) \/ CreateConnects(p, c)
  BY DEF Create
<1>1. task[p].at \notin Uses
  BY DEF CreateReuses, CreateRefused, CreateConnects, Enters, At, Uses
<1>2. CASE CreateReuses(p, c) \/ CreateRefused(p, c)
  BY <1>1, <1>2, HandEmpty DEF CreateReuses, CreateRefused, Leave, AtRest, Uses
<1>3. CASE CreateConnects(p, c)
  <2>1. task[p] \in TaskState
    BY DEF Guarded, Typed, TypeOK
  <2>2. PICK o \in Obj, s \in Sid :
          MoveTo(p, [task[p] EXCEPT !.at = "connecting", !.op = "create", !.fresh = o,
                                    !.sid = s])
    BY <1>3 DEF CreateConnects, StartConnect
  <2>3. [task[p] EXCEPT !.at = "connecting", !.op = "create", !.fresh = o,
                        !.sid = s].at = "connecting"
    BY <2>1 DEF TaskState
  <2>. QED BY <1>1, <2>2, <2>3, HandEmpty DEF Uses
<1>. QED BY <1>2, <1>3

LEMMA HandGet ==
  ASSUME Guarded, Directory, NEW p \in Proc, Get(p) PROVE HandStep(p)
<1>1. task[p].at \notin Uses
  BY DEF Get, GetMissing, GetLive, GetDead, GetDiscards, Rebuild, RebuildNoRoom,
         Enters, InManager, At, Uses
<1>2. task[p] \in TaskState /\ sessions \in [Sid -> Obj \cup {None}]
  BY DEF Guarded, Typed, TypeOK
<1>3. CASE \/ \E s \in Sid : GetMissing(p, s)
           \/ GetDiscards(p) \/ RebuildNoRoom(p)
  BY <1>1, <1>3, HandEmpty DEF GetMissing, GetDiscards, RebuildNoRoom, Leave, AtRest, Uses
<1>4. ASSUME NEW s \in Sid, GetLive(p, s) PROVE HandStep(p)
  <2> DEFINE t == [AtRest EXCEPT !.at = "holding", !.op = "use", !.cur = sessions[s]]
  <2>1. t.at = "holding" /\ t.cur = sessions[s]
    BY DEF AtRest
  <2>2. task'[p].at = "holding" /\ task'[p].cur = sessions[s]
    BY <1>4, <2>1, MovedTo DEF GetLive
  <2>3. sessions[s] # None /\ sessions[s] \in Obj /\ UNCHANGED <<sessions, ses>>
    BY <1>4, EntryType DEF GetLive, Guarded, Typed
  <2>. QED BY <1>1, <1>2, <2>2, <2>3 DEF HandStep, Uses
<1>5. ASSUME NEW s \in Sid, GetDead(p, s) PROVE HandStep(p)
  <2>1. PICK op : MoveTo(p, [task[p] EXCEPT !.at = "disconnect", !.op = op, !.sid = s,
                                    !.cur = sessions[s], !.todo = {}])
    BY <1>5 DEF GetDead, CallDisconnect
  <2>2. [task[p] EXCEPT !.at = "disconnect", !.op = op, !.sid = s,
                        !.cur = sessions[s], !.todo = {}].at = "disconnect"
    BY <1>2 DEF TaskState
  <2>. QED BY <1>1, <2>1, <2>2, HandEmpty DEF Uses
<1>6. CASE Rebuild(p)
  <2>1. PICK o \in Obj :
          MoveTo(p, [task[p] EXCEPT !.at = "connecting", !.op = "use", !.fresh = o,
                                    !.sid = task[p].sid])
    BY <1>6 DEF Rebuild, StartConnect
  <2>2. [task[p] EXCEPT !.at = "connecting", !.op = "use", !.fresh = o,
                        !.sid = task[p].sid].at = "connecting"
    BY <1>2 DEF TaskState
  <2>. QED BY <1>1, <2>1, <2>2, HandEmpty DEF Uses
<1>. QED BY <1>3, <1>4, <1>5, <1>6 DEF Get

\* A rebuild that ends hands out the new object, whose config is that of the entry.
LEMMA HandConnect ==
  ASSUME Guarded, Directory, NEW p \in Proc, Connect(p) PROVE HandStep(p)
<1> DEFINE o == task[p].fresh
           s == task[p].sid
<1>1. /\ task[p].at = "connecting" /\ o \in Obj /\ s \in Sid
      /\ Fits(task[p], sessions, ses)
  BY DEF Connect, ConnectSucceeds, ConnectFails, At, Guarded, Typed, Located, Directory
<1>2. CASE ConnectFails(p)
  BY <1>1, <1>2, HandEmpty DEF ConnectFails, Leave, AtRest, Uses
<1>3. CASE ConnectSucceeds(p) /\ task[p].op = "create"
  BY <1>1, <1>3, HandEmpty DEF ConnectSucceeds, AtRest, Uses
<1>4. CASE ConnectSucceeds(p) /\ task[p].op # "create"
  <2> DEFINE t == [AtRest EXCEPT !.at = "holding", !.op = "use", !.cur = o]
             r == [ses[o] EXCEPT !.state = "connected", !.client = "up", !.watched = TRUE]
  <2>1. t.at = "holding" /\ t.cur = o
    BY DEF AtRest
  <2>2. task'[p].at = "holding" /\ task'[p].cur = o
    BY <1>4, <2>1, MovedTo DEF ConnectSucceeds
  <2>3. ses \in [Obj -> Session] /\ Becomes(o, r)
    BY <1>4 DEF ConnectSucceeds, Guarded, Typed, TypeOK
  <2>4. r.conf = ses[o].conf
    BY <1>1, <2>3 DEF Session
  <2>5. ses'[o].conf = ses[o].conf
    BY <1>1, <2>3, <2>4 DEF Becomes
  <2>6. task[p].cur \in Obj /\ sessions[s] = task[p].cur
        /\ ses[o].conf = ses[task[p].cur].conf
    BY <1>1, <1>4 DEF Fits
  <2>7. sessions' = [sessions EXCEPT ![s] = o] /\ sessions[s] # None
    BY <1>4, <2>6, ConstantsAssumption DEF ConnectSucceeds
  <2>. QED BY <1>1, <2>2, <2>5, <2>6, <2>7 DEF HandStep, Uses
<1>. QED BY <1>2, <1>3, <1>4 DEF Connect

LEMMA HandDisconnect ==
  ASSUME Guarded, NEW p \in Proc, Disconnect(p) PROVE HandStep(p)
<1>1. PICK place \in {"closing", "closed"} : MoveTo(p, [task[p] EXCEPT !.at = place])
  BY DEF Disconnect, DisconnectCloses, DisconnectEnds
<1>2. task[p] \in TaskState
  BY DEF Guarded, Typed, TypeOK
<1>3. [task[p] EXCEPT !.at = place].at = place
  BY <1>2 DEF TaskState
<1>4. task[p].at \notin Uses
  BY DEF Disconnect, DisconnectCloses, DisconnectEnds, At, Uses
<1>. QED BY <1>1, <1>3, <1>4, HandEmpty DEF Uses

LEMMA HandClose ==
  ASSUME Guarded, NEW p \in Proc, Close(p) PROVE HandStep(p)
<1>1. task[p].at \notin Uses /\ task[p] \in TaskState
  BY DEF Close, CloseMissing, ClosePops, CloseReturns, Enters, InManager, At, Uses,
         Guarded, Typed, TypeOK
<1>2. CASE CloseReturns(p) \/ \E s \in Sid : CloseMissing(p, s)
  BY <1>1, <1>2, HandEmpty DEF CloseReturns, CloseMissing, Leave, AtRest, Uses
<1>3. ASSUME NEW s \in Sid, ClosePops(p, s) PROVE HandStep(p)
  <2>1. MoveTo(p, [task[p] EXCEPT !.at = "disconnect", !.op = "close", !.sid = s,
                                  !.cur = sessions[s], !.todo = {}])
    BY <1>3 DEF ClosePops, CallDisconnect
  <2>2. [task[p] EXCEPT !.at = "disconnect", !.op = "close", !.sid = s,
                        !.cur = sessions[s], !.todo = {}].at = "disconnect"
    BY <1>1 DEF TaskState
  <2>. QED BY <1>1, <2>1, <2>2, HandEmpty DEF Uses
<1>. QED BY <1>2, <1>3 DEF Close

LEMMA HandSweep ==
  ASSUME Guarded, NEW p \in Proc, Sweep(p) PROVE HandStep(p)
<1>1. task[p].at \notin Uses /\ task[p] \in TaskState
  BY DEF Sweep, SweepCollects, SweepCloses, SweepContinues, SweepEnds, Enters, At, Uses,
         Guarded, Typed, TypeOK
<1>2. ASSUME NEW op, SweepCollects(p, op) PROVE HandStep(p)
  <2> DEFINE todo == {s \in Entries : op = "cleanup" => ses[sessions[s]].idle}
  <2>1. MoveTo(p, [AtRest EXCEPT !.at = "sweep", !.op = op, !.todo = todo])
    BY <1>2 DEF SweepCollects
  <2> HIDE DEF todo
  <2>2. [AtRest EXCEPT !.at = "sweep", !.op = op, !.todo = todo].at = "sweep"
    BY DEF AtRest
  <2>. QED BY <1>1, <2>1, <2>2, HandEmpty DEF Uses
<1>3. CASE SweepCloses(p)
  <2>1. PICK s \in task[p].todo :
          MoveTo(p, [task[p] EXCEPT !.at = "disconnect", !.op = task[p].op, !.sid = s,
                                    !.cur = sessions[s], !.todo = task[p].todo \ {s}])
    BY <1>3 DEF SweepCloses, CallDisconnect
  <2>2. [task[p] EXCEPT !.at = "disconnect", !.op = task[p].op, !.sid = s,
                        !.cur = sessions[s], !.todo = task[p].todo \ {s}].at = "disconnect"
    BY <1>1 DEF TaskState
  <2>. QED BY <1>1, <2>1, <2>2, HandEmpty DEF Uses
<1>4. CASE SweepContinues(p)
  <2>1. MoveTo(p, [task[p] EXCEPT !.at = "sweep", !.sid = None, !.cur = None])
    BY <1>4 DEF SweepContinues
  <2>2. [task[p] EXCEPT !.at = "sweep", !.sid = None, !.cur = None].at = "sweep"
    BY <1>1 DEF TaskState
  <2>. QED BY <1>1, <2>1, <2>2, HandEmpty DEF Uses
<1>5. CASE SweepEnds(p)
  BY <1>1, <1>5, HandEmpty DEF SweepEnds, Leave, AtRest, Uses
<1>. QED BY <1>2, <1>3, <1>4, <1>5 DEF Sweep

\* A coroutine that uses a session keeps the object until it lets it go.
LEMMA HandUse ==
  ASSUME Guarded, NEW p \in Proc, Use(p) PROVE HandStep(p)
<1>1. task[p].at \in Uses /\ task[p] \in TaskState /\ UNCHANGED sessions
  BY DEF Use, Drop, UseRefused, UseAccepted, CommandStarts, TransferStarts,
         CommandReturns, CommandFails, TransferEnds, EndUse, At, Uses, Guarded, Typed,
         TypeOK
<1>2. CASE MoveTo(p, AtRest)
  <2>1. task'[p] = AtRest
    BY <1>2, MovedTo
  <2>. QED BY <1>1, <2>1 DEF HandStep, AtRest, Uses
<1>3. ASSUME NEW place \in Uses, MoveTo(p, [task[p] EXCEPT !.at = place])
      PROVE  HandStep(p)
  <2>1. task'[p] = [task[p] EXCEPT !.at = place]
    BY <1>3, MovedTo
  <2>2. task'[p].cur = task[p].cur
    BY <1>1, <2>1 DEF TaskState
  <2>. QED BY <1>1, <2>2 DEF HandStep
<1>4. CASE UseAccepted(p) \/ CommandStarts(p) \/ TransferStarts(p)
  BY <1>3, <1>4 DEF UseAccepted, CommandStarts, TransferStarts, Uses
<1>5. CASE Drop(p) \/ UseRefused(p) \/ CommandReturns(p) \/ CommandFails(p) \/ TransferEnds(p)
  BY <1>2, <1>5 DEF Drop, UseRefused, CommandReturns, CommandFails, TransferEnds, EndUse
<1>. QED BY <1>4, <1>5 DEF Use

LEMMA HandSteps ==
  ASSUME Guarded, Directory, NEW p \in Proc, Request(p) \/ Step(p) PROVE HandStep(p)
<1>1. CASE Request(p)
  <2>1. task[p].at \notin Uses /\ MoveTo(p, [AtRest EXCEPT !.at = "manager"])
    BY <1>1 DEF Request, At, Uses
  <2>2. [AtRest EXCEPT !.at = "manager"].at = "manager"
    BY DEF AtRest
  <2>. QED BY <2>1, <2>2, HandEmpty DEF Uses
<1>2. CASE Step(p)
  BY <1>2, HandCreate, HandGet, HandConnect, HandDisconnect, HandClose, HandSweep, HandUse
     DEF Step
<1>. QED BY <1>1, <1>2

-----------------------------------------------------------------------------
(* The two together are a step of the abstract directory, or none.         *)

\* A session in hand keeps the config it had.
LEMMA HeldKept ==
  ASSUME Guarded, ConfKept, NEW q \in Proc,
         task'[q].at \in Uses <=> task[q].at \in Uses,
         task[q].at \in Uses => task'[q].cur = task[q].cur
  PROVE  HoldsOf(q)' = HoldsOf(q)
<1>1. task[q].at \in Uses => task[q].cur \in Obj
  BY DEF Guarded, Typed, Located, Uses
<1>2. task[q].at \in Uses => ses'[task[q].cur].conf = ses[task[q].cur].conf
  BY <1>1, ConfOfUsed
<1>. QED BY <1>2 DEF HoldsOf, Uses

LEMMA BoundKept ==
  ASSUME Guarded, ConfKept, NEW s \in Sid, sessions'[s] = sessions[s]
  PROVE  BoundTo(s)' = BoundTo(s)
<1>1. sessions[s] # None => sessions[s] \in Obj
  BY EntryType DEF Guarded, Typed
<1>2. sessions[s] # None => ses'[sessions[s]].conf = ses[sessions[s]].conf
  BY <1>1, ConfOfUsed
<1>. QED BY <1>2 DEF BoundTo

\* No config is None: an id that is bound is in the directory.
LEMMA ConfNotNone ==
  ASSUME TypeOK, NEW o \in Obj PROVE ses[o].conf \in Conf /\ ses[o].conf # None
BY ConstantsAssumption DEF TypeOK, Session

LEMMA PromiseStep ==
  ASSUME Guarded, Directory, Guarded', NEW p \in Proc, NEW t \in TaskState,
         DirectoryStep(p, t), HandStep(p)
  PROVE  [Promise!DirNext]_(Promise!dirVars)
<1> USE DEF Promise!DirNext, Promise!dirVars
<1>1. ConfKept /\ task'[p] = t /\ sessions \in [Sid -> Obj \cup {None}] /\ TypeOK
  BY MovedTo DEF DirectoryStep, Guarded, Typed, TypeOK
<1>2. ASSUME NEW q \in Proc, q # p PROVE HoldsOf(q)' = HoldsOf(q)
  <2>1. task'[q] = task[q]
    BY <1>2 DEF DirectoryStep, MoveTo, Guarded, Typed, TypeOK
  <2>. QED BY <1>1, <2>1, HeldKept
<1> DEFINE bound == [s \in Sid |-> BoundTo(s)]
           held == [q \in Proc |-> HoldsOf(q)]
<1>3. CASE HoldsOf(p)' = HoldsOf(p)
  <2>1. held' = held
    BY <1>2, <1>3
  <2>2. CASE sessions' = sessions
    BY <1>1, <2>1, <2>2, BoundKept
  <2>3. CASE Removes(p)
    <3> DEFINE S == {s \in Sid : sessions'[s] = None}
    <3>1. \A s \in Sid : BoundTo(s)' = IF s \in S THEN None ELSE BoundTo(s)
      BY <1>1, <2>3, BoundKept DEF Removes, BoundTo
    <3>2. Promise!Close(S)
      BY <2>1, <3>1 DEF Promise!Close
    <3>. QED BY <3>2
  <2>4. CASE ConnectSucceeds(p)
    <3> DEFINE o == task[p].fresh
               i == task[p].sid
    <3>1. task[p].at = "connecting" /\ o \in Obj /\ i \in Sid /\ Fits(task[p], sessions, ses)
      BY <2>4 DEF ConnectSucceeds, At, Guarded, Typed, Located, Directory
    <3>2. \A s \in Sid : sessions'[s] = IF s = i THEN o ELSE sessions[s]
      BY <1>1, <2>4 DEF ConnectSucceeds
    <3>3. ses'[o].conf = ses[o].conf /\ ses[o].conf \in Conf /\ o # None
      BY <1>1, <3>1, ConfOfUsed, ConfNotNone, ConstantsAssumption
    <3>4. \A s \in Sid : BoundTo(s)' = IF s = i THEN ses[o].conf ELSE BoundTo(s)
      BY <1>1, <3>2, <3>3, BoundKept DEF BoundTo
    <3>5. CASE task[p].op = "create"
      <4>1. BoundTo(i) = None
        BY <3>1, <3>5 DEF Fits, BoundTo
      <4>2. bound' = [bound EXCEPT ![i] = ses[o].conf]
        BY <3>4
      <4>3. Promise!Open(i, ses[o].conf)
        BY <2>1, <3>1, <4>1, <4>2 DEF Promise!Open
      <4>. QED BY <3>1, <3>3, <4>3
    <3>6. CASE task[p].op = "use"
      <4>1. BoundTo(i) = ses[o].conf
        BY <3>1, <3>6, ConstantsAssumption DEF Fits, BoundTo
      <4>2. bound' = bound
        BY <3>4, <4>1
      <4>. QED BY <2>1, <4>2
    <3>. QED BY <3>1, <3>5, <3>6 DEF Fits
  <2>. QED BY <2>2, <2>3, <2>4 DEF DirectoryStep
<1>4. CASE task[p].at \notin Uses /\ task'[p].at \notin Uses
  BY <1>3, <1>4 DEF HoldsOf, Uses
<1>5. CASE task[p].at \in Uses
  <2>1. sessions' = sessions /\ (task'[p].at \in Uses => task'[p].cur = task[p].cur)
    BY <1>5 DEF HandStep
  <2>2. CASE task'[p].at \in Uses
    BY <1>1, <1>3, <1>5, <2>1, <2>2, HeldKept
  <2>3. CASE task'[p].at \notin Uses
    <3>1. HoldsOf(p)' = None
      BY <2>3 DEF HoldsOf, Uses
    <3>2. held' = [held EXCEPT ![p] = None]
      BY <1>2, <3>1
    <3>3. bound' = bound
      BY <1>1, <2>1, BoundKept
    <3>4. Promise!GiveBack(p)
      BY <3>2, <3>3 DEF Promise!GiveBack
    <3>. QED BY <3>4
  <2>. QED BY <2>2, <2>3
<1>6. CASE task[p].at \notin Uses /\ task'[p].at \in Uses
  <2> DEFINE o == task'[p].cur
  <2>1. PICK s \in Sid :
          /\ o \in Obj /\ sessions[s] # None
          /\ ses'[o].conf = ses[sessions[s]].conf
          /\ sessions' = [sessions EXCEPT ![s] = o]
    BY <1>6 DEF HandStep
  <2>2. o # None /\ sessions[s] \in Obj
    BY <1>1, <2>1, EntryType, ConstantsAssumption
  <2>3. ses[sessions[s]].conf # None
    BY <1>1, <2>2, ConfNotNone
  <2>4. BoundTo(s) = ses[sessions[s]].conf /\ BoundTo(s)' = ses'[o].conf
    BY <1>1, <2>1, <2>2 DEF BoundTo
  <2>5. ASSUME NEW i \in Sid PROVE BoundTo(i)' = BoundTo(i)
    <3>1. CASE i = s
      BY <2>1, <2>4, <3>1
    <3>2. CASE i # s
      BY <1>1, <2>1, <3>2, BoundKept
    <3>. QED BY <3>1, <3>2
  <2>6. HoldsOf(p) = None /\ HoldsOf(p)' = BoundTo(s)
    BY <1>6, <2>1, <2>4 DEF HoldsOf, Uses
  <2>7. held' = [held EXCEPT ![p] = bound[s]]
    BY <1>2, <2>6
  <2>8. bound' = bound
    BY <2>5
  <2>9. Promise!HandOut(p, s)
    BY <2>3, <2>4, <2>6, <2>7, <2>8 DEF Promise!HandOut
  <2>. QED BY <2>9
<1>. QED BY <1>4, <1>5, <1>6

LEMMA PromiseNext ==
  ASSUME Guarded, Directory, Guarded', [Next]_vars
  PROVE  [Promise!DirNext]_(Promise!dirVars)
<1>1. CASE ObjectStep
  <2>1. ConfKept /\ UNCHANGED <<mgr, sessions, lock, task>>
    BY <1>1, DirectoryObjectStep
  <2>2. \A q \in Proc : HoldsOf(q)' = HoldsOf(q)
    BY <2>1, HeldKept
  <2>3. \A s \in Sid : BoundTo(s)' = BoundTo(s)
    BY <2>1, BoundKept
  <2>. QED BY <2>2, <2>3 DEF Promise!dirVars
<1>2. ASSUME NEW p \in Proc, Request(p) \/ Step(p)
      PROVE  [Promise!DirNext]_(Promise!dirVars)
  <2>1. PICK t \in TaskState : DirectoryStep(p, t)
    BY <1>2, StepDirectory
  <2>2. HandStep(p)
    BY <1>2, HandSteps
  <2>. QED BY <2>1, <2>2, PromiseStep
<1>3. CASE UNCHANGED vars
  BY <1>3 DEF vars, Promise!dirVars, BoundTo, HoldsOf
<1>. QED BY <1>1, <1>2, <1>3, NextParts

\* The session manager implements the directory of ids, for any number of calls, ids and
\* objects: an id stands for one host, port and user, and a caller never works on a
\* session of another one, through any order of rebuilds, closes and objects used again.
THEOREM DirectoryImplemented == Spec => ImplementsDirectory
<1>1. Init => Promise!DirInit
  BY DEF Init, Promise!DirInit, BoundTo, HoldsOf, AtRest
<1>2. Guarded /\ Directory /\ Guarded' /\ [Next]_vars => [Promise!DirNext]_(Promise!dirVars)
  BY PromiseNext
<1>. QED
  BY <1>1, <1>2, GuardedCorrect, DirectoryCorrect, PTL
     DEF Spec, ImplementsDirectory, Promise!DirSpec
=============================================================================
