----------------------------- MODULE ServicesProofs -----------------------------
(***************************************************************************)
(* Proofs about the parts around the session manager: the thread pool, the *)
(* tunnels, the watchdog, the pools of the batch executor, the connections *)
(* of SSHService and the file of hosts.  Each has an invariant of a few    *)
(* lines, and a step for each of its actions.  The last section shows that *)
(* MCServices, which runs them in one state space, implements each.        *)
(***************************************************************************)
EXTENDS MCServices, RateLimiterProofs, TLAPS,
        FiniteSetTheorems, WellFoundedInduction

-----------------------------------------------------------------------------
(* Workers.                                                                *)

Spots == 1 .. Len(queue)

\* A job in the queue is awaited, is there once and has not begun.
QueueInv ==
  /\ queue \in Seq(Job)
  /\ caller \in [Job -> {"idle", "locking", "awaiting", "answered", "timedout"}]
  /\ \A i \in Spots : caller[queue[i]] = "awaiting" /\ queue[i] \notin running
  /\ \A i, k \in Spots : queue[i] = queue[k] => i = k
  /\ \A j \in Job \cap running : caller[j] \notin {"idle", "locking"}

\* A caller that is not awaiting, or whose job has begun, has no place in the queue.
LEMMA CallerMoves ==
  ASSUME QueueInv, NEW j \in Job, caller[j] # "awaiting" \/ j \in running,
         NEW place \in {"locking", "answered", "timedout"},
         place = "locking" => j \notin running,
         caller' = [caller EXCEPT ![j] = place], UNCHANGED <<queue, running>>
  PROVE  QueueInv'
<1>1. \A i \in Spots : queue[i] # j /\ queue[i] \in Job
  BY DEF QueueInv, Spots
<1>. QED BY <1>1 DEF QueueInv, Spots

LEMMA JobEnds == ASSUME QueueInv, NEW j \in Job \cap running, Ends(j), UNCHANGED queue
                 PROVE  QueueInv'
<1>1. \A i \in Spots : queue[i] # j /\ queue[i] \in Job
  BY DEF QueueInv, Spots
<1>. QED BY <1>1 DEF QueueInv, Spots, Ends

LEMMA SubmitQueues == ASSUME QueueInv, NEW j \in Job, Submit(j) PROVE QueueInv'
<1>1. queue' = Append(queue, j) /\ caller' = [caller EXCEPT ![j] = "awaiting"]
      /\ caller[j] = "locking" /\ running' = running
  BY DEF Submit
<1>2. j \notin running /\ \A i \in Spots : queue[i] # j /\ queue[i] \in Job
  BY <1>1 DEF QueueInv, Spots
<1>3. /\ queue' \in Seq(Job) /\ Len(queue') = Len(queue) + 1
      /\ \A i \in Spots : queue'[i] = queue[i]
      /\ queue'[Len(queue) + 1] = j
  BY <1>1 DEF QueueInv, Spots
<1>. QED BY <1>1, <1>2, <1>3 DEF QueueInv, Spots

LEMMA BeginTakes == ASSUME QueueInv, BeginJob PROVE QueueInv'
<1>1. queue # <<>> /\ queue' = Tail(queue) /\ running' = running \cup {queue[1]} /\ caller' = caller
  BY DEF BeginJob
<1>2. /\ queue' \in Seq(Job) /\ Len(queue') = Len(queue) - 1
      /\ \A i \in 1 .. Len(queue) - 1 : queue'[i] = queue[i + 1] /\ i + 1 \in Spots
      /\ 1 \in Spots
  BY <1>1 DEF QueueInv, Spots
<1>. QED BY <1>1, <1>2 DEF QueueInv, Spots

LEMMA TimeOutLeaves == ASSUME QueueInv, NEW j \in Job, TimeOut(j) PROVE QueueInv'
<1>1. CASE j \in running /\ UNCHANGED queue
  BY <1>1, CallerMoves DEF TimeOut
<1>2. CASE \E i \in DOMAIN queue : queue[i] = j /\ queue' = Without(i)
  <2>1. PICK n \in Spots : queue[n] = j /\ queue' = Without(n)
    BY <1>2 DEF QueueInv, Spots
  <2>2. /\ queue' \in Seq(Job) /\ Len(queue') = Len(queue) - 1
        /\ \A i \in 1 .. Len(queue) - 1 : queue'[i] = IF i < n THEN queue[i] ELSE queue[i + 1]
    <3>. DEFINE front == SubSeq(queue, 1, n - 1)
                back == SubSeq(queue, n + 1, Len(queue))
    <3>1. /\ front \in Seq(Job) /\ Len(front) = n - 1
          /\ \A i \in 1 .. n - 1 : front[i] = queue[i]
      BY <2>1 DEF QueueInv, Spots
    <3>2. /\ back \in Seq(Job) /\ Len(back) = Len(queue) - n
          /\ \A i \in 1 .. Len(queue) - n : back[i] = queue[n + i]
      BY <2>1 DEF QueueInv, Spots
    <3>3. queue' = front \o back
      BY <2>1 DEF Without
    <3>4. Len(queue) \in Nat /\ n \in 1 .. Len(queue)
      BY <2>1 DEF QueueInv, Spots
    <3>. HIDE DEF front, back
    <3>5. queue' \in Seq(Job) /\ Len(queue') = Len(queue) - 1
      BY <3>1, <3>2, <3>3, <3>4
    <3>6. \A i \in 1 .. Len(queue) - 1 :
            queue'[i] = IF i <= n - 1 THEN front[i] ELSE back[i - (n - 1)]
      BY <3>1, <3>2, <3>3, <3>4
    <3>7. \A i \in 1 .. Len(queue) - 1 : i > n - 1 => back[i - (n - 1)] = queue[i + 1]
      <4>. TAKE i \in 1 .. Len(queue) - 1
      <4>. HAVE i > n - 1
      <4>1. i - (n - 1) \in 1 .. Len(queue) - n /\ n + (i - (n - 1)) = i + 1
        BY <3>4
      <4>. QED BY <3>2, <4>1
    <3>. QED BY <3>1, <3>4, <3>5, <3>6, <3>7
  <2>3. \A i \in Spots : i # n => queue[i] # j /\ queue[i] \in Job
    BY <2>1 DEF QueueInv, Spots
  <2>4. \A i \in Spots : i # n => caller'[queue[i]] = "awaiting"
    BY <2>3 DEF QueueInv, TimeOut
  <2>5. Spots' = 1 .. Len(queue) - 1 /\ Len(queue) \in Nat
    BY <2>2 DEF Spots, QueueInv
  <2>6. \A i \in Spots' : \E k \in Spots \ {n} : queue'[i] = queue[k] /\ k = IF i < n THEN i ELSE i + 1
    BY <2>1, <2>2, <2>5 DEF Spots
  <2>7. \A i, k \in Spots' : queue'[i] = queue'[k] => i = k
    BY <2>1, <2>5, <2>6 DEF QueueInv, Spots
  <2>8. caller' \in [Job -> {"idle", "locking", "awaiting", "answered", "timedout"}]
        /\ \A i \in Job \cap running' : caller'[i] \notin {"idle", "locking"}
    BY DEF QueueInv, TimeOut
  <2>9. \A i \in Spots' : caller'[queue'[i]] = "awaiting" /\ queue'[i] \notin running'
    BY <2>4, <2>6 DEF QueueInv, TimeOut
  <2>. QED BY <2>2, <2>7, <2>8, <2>9 DEF QueueInv
<1>. QED BY <1>1, <1>2 DEF TimeOut

LEMMA QueueStep == QueueInv /\ [WorkersNext]_workersVars => QueueInv'
<1>. SUFFICES ASSUME QueueInv, [WorkersNext]_workersVars PROVE QueueInv'
  OBVIOUS
<1>1. ASSUME NEW j \in Job, AskLock(j) \/ SubmitFails(j) PROVE QueueInv'
  BY <1>1, CallerMoves DEF AskLock, SubmitFails, QueueInv
<1>2. ASSUME NEW j \in Job, CommandEnds(j) \/ CloseRuns(j) PROVE QueueInv'
  BY <1>2, JobEnds DEF CommandEnds, CloseRuns
<1>3. CASE UNCHANGED <<caller, queue, running>>
  BY <1>3 DEF QueueInv, Spots
<1>. QED
  BY <1>1, <1>2, <1>3, SubmitQueues, BeginTakes, TimeOutLeaves
     DEF WorkersNext, WorkersStep, TransportDies, workersVars

\* A command whose caller was told that it timed out before a thread was free does not begin
\* afterwards, for any number of commands, connections and threads.
THEOREM AwaitedWhenBegun == WorkersSpec => OnlyAwaitedBegin
<1>1. WorkersInit => QueueInv
  BY DEF WorkersInit, QueueInv, Spots
<1>2. QueueInv /\ [WorkersNext]_workersVars =>
        [\A j \in Job : j \in running' \ running => caller[j] = "awaiting"]_workersVars
  <2>. SUFFICES ASSUME QueueInv, WorkersNext, NEW j \in Job, j \in running', j \notin running
                PROVE  caller[j] = "awaiting"
    BY DEF workersVars
  <2>1. CASE BeginJob
    <3>1. 1 \in Spots /\ j = queue[1]
      BY <2>1 DEF BeginJob, QueueInv, Spots
    <3>. QED BY <3>1 DEF QueueInv
  <2>2. CASE ~BeginJob
    BY <2>2 DEF WorkersNext, WorkersStep, Submit, SubmitFails, CommandEnds, CloseRuns, TimeOut,
       AskLock, TransportDies, Ends
  <2>. QED BY <2>1, <2>2
<1>. QED BY <1>1, <1>2, QueueStep, PTL DEF WorkersSpec, OnlyAwaitedBegin

-----------------------------------------------------------------------------
(* Tunnels.                                                                *)

TunRec == [port : Port, alive : BOOLEAN,
           at : {"none", "asked", "failed", "listening", "deaf", "stopped", "gone"}]

TableInv ==
  /\ tun \in [Tunnel -> TunRec]
  /\ tunnels \in [Port -> Tunnel \cup {NoTunnel}]
  /\ TableIsTrue

LEMMA TableInit == TunnelsInit => TableInv
<1>. SUFFICES ASSUME TunnelsInit PROVE TableInv
  OBVIOUS
<1>1. tun \in [Tunnel -> TunRec]
  <2>1. [port : Port, at : {"none"}, alive : {TRUE}] \subseteq TunRec
    BY DEF TunRec
  <2>. QED BY <2>1 DEF TunnelsInit
<1>2. tunnels \in [Port -> Tunnel \cup {NoTunnel}]
  BY DEF TunnelsInit
<1>3. TableIsTrue
  BY TunnelsAssumption DEF TunnelsInit, TableIsTrue, Open
<1>. QED BY <1>1, <1>2, <1>3 DEF TableInv

\* A step that changes the place or the transport of one tunnel t, and the table if at
\* all at its port.
LEMMA TableStep ==
  ASSUME TableInv, NEW t \in Tunnel, NEW r \in TunRec, tun' = [tun EXCEPT ![t] = r],
         r.port = tun[t].port,
         \/ tunnels' = tunnels /\ (r.at \in Open <=> tun[t].at \in Open)
         \/ /\ tunnels' = [tunnels EXCEPT ![r.port] = t] /\ r.at \in Open
            /\ tunnels[r.port] = NoTunnel
         \/ /\ tunnels' = [tunnels EXCEPT ![r.port] = NoTunnel] /\ r.at \notin Open
            /\ tunnels[r.port] = t
  PROVE  TableInv'
<1>1. tun \in [Tunnel -> TunRec] /\ tunnels \in [Port -> Tunnel \cup {NoTunnel}]
  BY DEF TableInv
<1>2. r.port \in Port
  BY DEF TunRec
<1>3. tun' \in [Tunnel -> TunRec] /\ tunnels' \in [Port -> Tunnel \cup {NoTunnel}]
  BY <1>1, <1>2
<1>5. \A u \in Tunnel : tun'[u].port = tun[u].port
  BY <1>1
<1>6. TableIsTrue'
  <2>1. /\ tun'[t] = r /\ \A u \in Tunnel \ {t} : tun'[u] = tun[u]
        /\ \A u \in Tunnel : tun[u].port \in Port
    BY <1>1 DEF TunRec
  <2>2. /\ \A u \in Tunnel : tun[u].at \in Open <=> tunnels[tun[u].port] = u
        /\ \A p \in Port : tunnels[p] # NoTunnel => tun[tunnels[p]].port = p
    BY DEF TableInv, TableIsTrue
  <2>3. CASE tunnels' = tunnels /\ (r.at \in Open <=> tun[t].at \in Open)
    BY <1>1, <1>5, <2>1, <2>2, <2>3 DEF TableIsTrue
  <2>4. CASE /\ tunnels' = [tunnels EXCEPT ![r.port] = t] /\ r.at \in Open
             /\ tunnels[r.port] = NoTunnel
    <3>1. ASSUME NEW u \in Tunnel PROVE tun'[u].at \in Open <=> tunnels'[tun'[u].port] = u
      BY <1>1, <1>2, <2>1, <2>2, <2>4, TunnelsAssumption
    <3>2. ASSUME NEW p \in Port, tunnels'[p] # NoTunnel PROVE tun'[tunnels'[p]].port = p
      BY <1>1, <1>2, <1>5, <2>2, <2>4, <3>2
    <3>. QED BY <3>1, <3>2 DEF TableIsTrue
  <2>5. CASE /\ tunnels' = [tunnels EXCEPT ![r.port] = NoTunnel] /\ r.at \notin Open
             /\ tunnels[r.port] = t
    <3>1. ASSUME NEW u \in Tunnel PROVE tun'[u].at \in Open <=> tunnels'[tun'[u].port] = u
      BY <1>1, <1>2, <2>1, <2>2, <2>5, TunnelsAssumption
    <3>2. ASSUME NEW p \in Port, tunnels'[p] # NoTunnel PROVE tun'[tunnels'[p]].port = p
      BY <1>1, <1>2, <1>5, <2>2, <2>5, <3>2
    <3>. QED BY <3>1, <3>2 DEF TableIsTrue
  <2>. QED BY <2>3, <2>4, <2>5
<1>. QED BY <1>3, <1>6 DEF TableInv

LEMMA TunnelsStutter ==
  TableInv /\ UNCHANGED <<tunnels, tun>> => TableInv'
BY DEF TableInv, TableIsTrue

\* The steps of one tunnel, and of the table.
LEMMA TunnelSteps ==
  ASSUME TableInv, NEW t \in Tunnel,
         \/ TunnelAsked(t) \/ TunnelOpened(t) \/ TunnelNotOpened(t) \/ PollEnds(t)
         \/ AcceptFails(t) \/ TunnelTransportDies(t)
         \/ \E p \in Port : TunnelClosed(p) /\ tunnels[p] = t
  PROVE  TableInv'
<1>2. tun[t] \in TunRec /\ tun \in [Tunnel -> TunRec]
  BY DEF TableInv
<1>3. ASSUME NEW place \in {"none", "asked", "failed", "listening", "deaf", "stopped", "gone"},
             TunMoves(t, place),
             \/ tunnels' = tunnels /\ (place \in Open <=> tun[t].at \in Open)
             \/ /\ tunnels' = [tunnels EXCEPT ![tun[t].port] = t] /\ place \in Open
                /\ tunnels[tun[t].port] = NoTunnel
             \/ /\ tunnels' = [tunnels EXCEPT ![tun[t].port] = NoTunnel] /\ place \notin Open
                /\ tunnels[tun[t].port] = t
      PROVE  TableInv'
  <2>. DEFINE r == [tun[t] EXCEPT !.at = place]
  <2>1. r \in TunRec /\ r.port = tun[t].port /\ r.at = place
    BY <1>2 DEF TunRec
  <2>2. tun' = [tun EXCEPT ![t] = r]
    BY <1>3 DEF TunMoves
  <2>. HIDE DEF r
  <2>. QED BY <1>3, <2>1, <2>2, TableStep
<1>4. CASE TunnelAsked(t)
  BY <1>3, <1>4 DEF TunnelAsked, Open
<1>5. CASE TunnelOpened(t)
  <2>1. tunnels[tun[t].port] = NoTunnel
    <3>1. tun[t].port \in Port
      BY <1>2 DEF TunRec
    <3>2. ~Bound(tun[t].port)
      BY <1>5 DEF TunnelOpened
    <3>. QED BY <3>1, <3>2 DEF Bound, TableInv, TableIsTrue
  <2>. QED BY <1>3, <1>5, <2>1 DEF TunnelOpened, Open
<1>6. CASE TunnelNotOpened(t)
  BY <1>3, <1>6 DEF TunnelNotOpened, Open
<1>7. CASE PollEnds(t)
  BY <1>3, <1>7 DEF PollEnds, Open
<1>8. CASE TunnelTransportDies(t)
  <2>. DEFINE r == [tun[t] EXCEPT !.alive = FALSE]
  <2>1. r \in TunRec /\ r.port = tun[t].port /\ r.at = tun[t].at
    BY <1>2 DEF TunRec
  <2>2. tun' = [tun EXCEPT ![t] = r] /\ tunnels' = tunnels
    BY <1>8 DEF TunnelTransportDies
  <2>. HIDE DEF r
  <2>. QED BY <2>1, <2>2, TableStep
<1>9. CASE AcceptFails(t)
  BY <1>3, <1>9 DEF AcceptFails, Open
<1>10. CASE \E p \in Port : TunnelClosed(p) /\ tunnels[p] = t
  <2>1. PICK p \in Port : TunnelClosed(p) /\ tunnels[p] = t
    BY <1>10
  <2>2. tun[t].port = p
    BY <2>1, TunnelsAssumption DEF TableInv, TableIsTrue
  <2>3. Stops(tun[t].at) \in {"stopped", "gone"} /\ Stops(tun[t].at) \notin Open
    BY DEF Stops, Open
  <2>4. TunMoves(t, Stops(tun[t].at)) /\ tunnels' = [tunnels EXCEPT ![p] = NoTunnel]
    BY <2>1 DEF TunnelClosed
  <2>. HIDE DEF Stops
  <2>. QED BY <1>3, <2>1, <2>2, <2>3, <2>4
<1>. QED BY <1>4, <1>5, <1>6, <1>7, <1>8, <1>9, <1>10

LEMMA ServerEndsKeeps == TableInv /\ ServerEnds => TableInv'
<1>. SUFFICES ASSUME TableInv, ServerEnds PROVE TableInv'
  OBVIOUS
<1>1. tun \in [Tunnel -> TunRec] /\ tunnels' = [p \in Port |-> NoTunnel]
  BY DEF TableInv, ServerEnds
<1>. DEFINE end(u) == [tun[u] EXCEPT !.at = IF @ \in Open THEN Stops(@)
                                             ELSE IF @ \in {"none", "asked"} THEN "failed" ELSE @]
<1>2. tun' = [u \in Tunnel |-> end(u)]
  BY DEF ServerEnds
<1>3. \A u \in Tunnel : end(u) \in TunRec /\ end(u).at \notin Open
  BY <1>1 DEF TunRec, Open, Stops
<1>. HIDE DEF end
<1>4. tun' \in [Tunnel -> TunRec] /\ \A u \in Tunnel : tun'[u].at \notin Open /\ tun'[u].port \in Port
  BY <1>2, <1>3 DEF TunRec
<1>5. TableInv'
  BY <1>1, <1>4, TunnelsAssumption DEF TableInv, TableIsTrue
<1>. QED BY <1>5

LEMMA AcceptKeeps ==
  ASSUME TableInv, NEW k \in Peer, NEW t \in Tunnel, Accept(k, t) PROVE TableInv'
<1>. DEFINE r == [tun[t] EXCEPT !.at = IF Stopped(t) THEN "gone" ELSE "listening"]
<1>1. tun[t] \in TunRec
  BY DEF TableInv
<1>2. r \in TunRec /\ r.port = tun[t].port /\ (r.at \in Open <=> tun[t].at \in Open)
  BY <1>1 DEF TunRec, Accept, Stopped, Open
<1>3. tun' = [tun EXCEPT ![t] = r] /\ tunnels' = tunnels
  BY DEF Accept, TunMoves
<1>. HIDE DEF r
<1>. QED BY <1>2, <1>3, TableStep

LEMMA TableInvAlways == TunnelsSpec => []TableInv
<1>1. TableInv /\ TunnelsNext => TableInv'
  <2>. SUFFICES ASSUME TableInv, TunnelsNext PROVE TableInv'
    OBVIOUS
  <2>1. ASSUME NEW t \in Tunnel,
               \/ TunnelAsked(t) \/ TunnelOpened(t) \/ TunnelNotOpened(t) \/ PollEnds(t)
               \/ AcceptFails(t) \/ TunnelTransportDies(t)
        PROVE  TableInv'
    BY <2>1, TunnelSteps
  <2>2. ASSUME NEW t \in Tunnel, NEW k \in Peer, Accept(k, t) PROVE TableInv'
    BY <2>2, AcceptKeeps
  <2>3. ASSUME NEW p \in Port, TunnelClosed(p) PROVE TableInv'
    <3>1. tunnels[p] \in Tunnel
      BY <2>3 DEF TunnelClosed, TableInv
    <3>. QED BY <2>3, <3>1, TunnelSteps
  <2>4. ASSUME NEW k \in Peer, NEW w \in Way, PipeReads(k, w) \/ PipeWrites(k, w) PROVE TableInv'
    BY <2>4, TunnelsStutter DEF PipeReads, PipeWrites
  <2>. QED BY <2>1, <2>2, <2>3, <2>4, ServerEndsKeeps DEF TunnelsNext
<1>2. TableInv /\ UNCHANGED tunnelVars => TableInv'
  BY TunnelsStutter DEF tunnelVars
<1>. QED BY <1>1, <1>2, TableInit, PTL DEF TunnelsSpec

\* The table of tunnels lists the tunnels that hold their port and were not closed, and no
\* other, for any number of calls that open and close them.
THEOREM TableAlwaysTrue == TunnelsSpec => []TableIsTrue
<1>1. TableInv => TableIsTrue
  BY DEF TableInv
<1>. QED BY <1>1, TableInvAlways, PTL

PeerRec == [of : Tunnel \cup {NoTunnel}, late : [Way -> 0 .. 2],
            pipe : [Way -> {"none", "reading", "writing", "ended"}]]

\* A pipe that has sent a chunk for a closed tunnel has ended, and one that was never
\* opened has sent none.
Dry(r) ==
  /\ r \in PeerRec
  /\ r.of = NoTunnel => \A w \in Way : r.pipe[w] = "none" /\ r.late[w] = 0
  /\ \A w \in Way : r.late[w] = 0 \/ (r.late[w] = 1 /\ r.pipe[w] = "ended")

PipeInv == peer = [k \in Peer |-> peer[k]] /\ \A k \in Peer : Dry(peer[k])

LEMMA PipeInit == TunnelsInit => PipeInv
<1>. SUFFICES ASSUME TunnelsInit PROVE PipeInv
  OBVIOUS
<1>. DEFINE r == [of |-> NoTunnel, pipe |-> [w \in Way |-> "none"], late |-> [w \in Way |-> 0]]
<1>1. Dry(r)
  BY DEF Dry, PeerRec
<1>2. peer = [k \in Peer |-> r]
  BY DEF TunnelsInit
<1>. HIDE DEF r
<1>. QED BY <1>1, <1>2 DEF PipeInv

LEMMA OnePeer ==
  ASSUME PipeInv, NEW k \in Peer, NEW r, peer' = [peer EXCEPT ![k] = r], Dry(r)
  PROVE  PipeInv'
<1>1. Dry(r)' <=> Dry(r)
  BY DEF Dry, PeerRec
<1>. QED BY <1>1 DEF PipeInv, Dry, PeerRec

LEMMA PipeAccepts ==
  ASSUME PipeInv, NEW k \in Peer, NEW t \in Tunnel, Accept(k, t) PROVE PipeInv'
<1>. DEFINE r == [peer[k] EXCEPT !.of = t,
                    !.pipe = [w \in Way |-> IF Stopped(t) THEN "ended" ELSE "reading"]]
<1>1. peer' = [peer EXCEPT ![k] = r]
  BY DEF Accept, PipeInv
<1>2. Dry(r)
  BY TunnelsAssumption DEF Accept, PipeInv, Dry, PeerRec
<1>. HIDE DEF r
<1>. QED BY <1>1, <1>2, OnePeer

LEMMA PipeCopies ==
  ASSUME PipeInv, NEW k \in Peer, NEW w \in Way, PipeReads(k, w) \/ PipeWrites(k, w)
  PROVE  PipeInv'
<1>1. Dry(peer[k]) /\ peer[k] \in PeerRec
  BY DEF PipeInv, Dry
<1>2. peer[k].pipe[w] \in {"reading", "writing"} =>
        peer[k].late[w] = 0 /\ peer[k].of \in Tunnel
  BY <1>1 DEF Dry, PeerRec
<1>. DEFINE piped(next) == [peer[k].pipe EXCEPT ![w] = next]
            sent(n) == [peer[k].late EXCEPT ![w] = n]
            moved(next) == [peer[k] EXCEPT !.pipe = piped(next)]
            then(next, n) == [moved(next) EXCEPT !.late = sent(n)]
<1>3. ASSUME NEW next \in {"reading", "writing", "ended"},
             peer[k].pipe[w] \in {"reading", "writing"}
      PROVE  Dry(moved(next))
  <2>1. piped(next) \in [Way -> {"none", "reading", "writing", "ended"}]
    BY <1>1 DEF PeerRec
  <2>2. moved(next) \in PeerRec /\ moved(next).of = peer[k].of /\ moved(next).late = peer[k].late
    BY <1>1, <2>1 DEF PeerRec
  <2>3. \A v \in Way : v # w => moved(next).pipe[v] = peer[k].pipe[v]
    BY <1>1 DEF PeerRec
  <2>. HIDE DEF moved
  <2>. QED BY <1>1, <1>2, <1>3, <2>2, <2>3, TunnelsAssumption DEF Dry
<1>4. ASSUME NEW next \in {"reading", "ended"}, NEW n \in 0 .. 1,
             n = 1 => next = "ended",
             peer[k].pipe[w] \in {"reading", "writing"}
      PROVE  Dry(then(next, n))
  <2>1. sent(n) \in [Way -> 0 .. 2] /\ piped(next) \in [Way -> {"none", "reading", "writing", "ended"}]
    BY <1>1 DEF PeerRec
  <2>2. then(next, n) \in PeerRec /\ then(next, n).of = peer[k].of
        /\ then(next, n).pipe = piped(next) /\ then(next, n).late = sent(n)
    BY <1>1, <2>1 DEF PeerRec
  <2>3. \A v \in Way : v # w => piped(next)[v] = peer[k].pipe[v] /\ sent(n)[v] = peer[k].late[v]
    BY <1>1 DEF PeerRec
  <2>4. piped(next)[w] = next /\ sent(n)[w] = n
    BY <1>1 DEF PeerRec
  <2>. HIDE DEF then, piped, sent
  <2>. QED BY <1>1, <1>2, <1>4, <2>2, <2>3, <2>4, TunnelsAssumption DEF Dry
<1>5. CASE PipeReads(k, w)
  <2>1. PICK next \in {"writing", "ended"} : peer' = [peer EXCEPT ![k].pipe[w] = next]
    BY <1>5 DEF PipeReads
  <2>2. peer' = [peer EXCEPT ![k] = moved(next)]
    BY <2>1
  <2>3. Dry(moved(next))
    BY <1>3, <1>5 DEF PipeReads
  <2>. HIDE DEF moved
  <2>. QED BY <2>2, <2>3, OnePeer
<1>6. CASE PipeWrites(k, w)
  <2>. DEFINE t == peer[k].of
  <2>1. peer[k].pipe[w] = "writing" /\ peer[k].late[w] = 0
    BY <1>2, <1>6 DEF PipeWrites
  <2>2. CASE ~tun[t].alive
    <3>1. peer' = [peer EXCEPT ![k] = moved("ended")]
      BY <1>6, <2>2 DEF PipeWrites
    <3>2. Dry(moved("ended"))
      BY <1>3, <2>1
    <3>. HIDE DEF moved
    <3>. QED BY <3>1, <3>2, OnePeer
  <2>3. ASSUME NEW next \in {"reading", "ended"}, NEW n \in 0 .. 1, n = 1 => next = "ended",
               peer' = [peer EXCEPT ![k].pipe[w] = next, ![k].late[w] = n]
        PROVE  PipeInv'
    <3>1. peer' = [peer EXCEPT ![k] = then(next, n)]
      BY <2>3
    <3>2. Dry(then(next, n))
      BY <1>4, <2>1, <2>3
    <3>. HIDE DEF then
    <3>. QED BY <3>1, <3>2, OnePeer
  <2>4. CASE tun[t].alive /\ Stopped(t)
    <3>1. peer' = [peer EXCEPT ![k].pipe[w] = "ended", ![k].late[w] = 1]
      BY <1>6, <2>1, <2>4 DEF PipeWrites
    <3>. QED BY <2>3, <3>1
  <2>5. CASE tun[t].alive /\ ~Stopped(t)
    <3>1. peer' = [peer EXCEPT ![k].pipe[w] = "reading", ![k].late[w] = 0]
      BY <1>6, <2>1, <2>5 DEF PipeWrites
    <3>. QED BY <2>3, <3>1
  <2>. QED BY <2>2, <2>4, <2>5
<1>. QED BY <1>5, <1>6

LEMMA PipeInvAlways == TunnelsSpec => []PipeInv
<1>1. PipeInv /\ TunnelsNext => PipeInv'
  <2>. SUFFICES ASSUME PipeInv, TunnelsNext PROVE PipeInv'
    OBVIOUS
  <2>1. ASSUME NEW k \in Peer, NEW t \in Tunnel, Accept(k, t) PROVE PipeInv'
    BY <2>1, PipeAccepts
  <2>2. ASSUME NEW k \in Peer, NEW w \in Way, PipeReads(k, w) \/ PipeWrites(k, w) PROVE PipeInv'
    BY <2>2, PipeCopies
  <2>3. CASE UNCHANGED peer
    BY <2>3 DEF PipeInv, Dry, PeerRec
  <2>. QED
    BY <2>1, <2>2, <2>3 DEF TunnelsNext, TunnelAsked, TunnelOpened, TunnelNotOpened, PollEnds,
       AcceptFails, TunnelTransportDies, TunnelClosed, ServerEnds
<1>2. PipeInv /\ UNCHANGED tunnelVars => PipeInv'
  BY DEF tunnelVars, PipeInv, Dry, PeerRec
<1>. QED BY <1>1, <1>2, PipeInit, PTL DEF TunnelsSpec

\* A closed tunnel lets at most one more chunk through in each direction of a connection,
\* for any number of tunnels and connections.
THEOREM ClosedTunnelsDry == TunnelsSpec => []ClosedTunnelDries
<1>1. PipeInv => ClosedTunnelDries
  BY DEF PipeInv, Dry, ClosedTunnelDries
<1>. QED BY <1>1, PipeInvAlways, PTL

-----------------------------------------------------------------------------
(* Watchdog.                                                               *)

Active(m) == wdLoop[m] \in {"asleep", "scanning"}

\* While it runs the event is not set and one loop is active, the current one; while it
\* does not, none is.
WatchdogInv ==
  /\ wdLoop \in [Monitor -> {"none", "asleep", "scanning", "cancelled"}]
  /\ wdRunning => ~wdShutdown /\ wdCurrent \in Monitor
  /\ ~wdRunning => wdCurrent = NoMonitor
  /\ \A m \in Monitor : Active(m) <=> wdRunning /\ m = wdCurrent

LEMMA WatchdogStep == WatchdogInv /\ [WatchdogNext]_watchdogVars => WatchdogInv'
<1>. SUFFICES ASSUME WatchdogInv, [WatchdogNext]_watchdogVars PROVE WatchdogInv'
  OBVIOUS
<1>. USE DEF WatchdogInv, Active
<1>1. CASE Watch
  <2>1. PICK m \in Monitor : /\ wdLoop[m] = "none"
                             /\ wdLoop' = [wdLoop EXCEPT ![m] = "asleep"]
                             /\ wdCurrent' = m
    BY <1>1 DEF Watch
  <2>. QED BY <1>1, <2>1 DEF Watch
<1>2. CASE Unwatch
  BY <1>2, WatchdogAssumption DEF Unwatch, LoopFree
<1>3. ASSUME NEW m \in Monitor, MonitorCancelled(m) PROVE WatchdogInv'
  BY <1>3 DEF MonitorCancelled, wdControl
<1>4. ASSUME NEW m \in Monitor, MonitorScans(m) PROVE WatchdogInv'
  BY <1>4 DEF MonitorScans, wdControl
<1>5. ASSUME NEW m \in Monitor, MonitorSleeps(m) PROVE WatchdogInv'
  BY <1>5 DEF MonitorSleeps, wdControl
<1>6. CASE UNCHANGED <<wdControl, wdLoop>>
  BY <1>6 DEF wdControl
<1>7. ASSUME NEW m \in Monitor, NEW i \in WdTask, MonitorLooks(m, i) \/ MonitorPops(m, i)
      PROVE  WatchdogInv'
  <2>1. UNCHANGED <<wdControl, wdLoop>>
    BY <1>7 DEF MonitorLooks, MonitorPops
  <2>. QED BY <1>6, <2>1
<1>8. ASSUME NEW i \in WdTask,
             RegisterTask(i) \/ Heartbeat(i) \/ UnregisterTask(i) \/ GoesOverdue(i)
      PROVE  WatchdogInv'
  <2>1. UNCHANGED <<wdControl, wdLoop>>
    BY <1>8 DEF RegisterTask, Heartbeat, UnregisterTask, GoesOverdue
  <2>. QED BY <1>6, <2>1
<1>9. CASE UNCHANGED watchdogVars
  BY <1>6, <1>9 DEF watchdogVars, wdControl
<1>. QED BY <1>1, <1>2, <1>3, <1>4, <1>5, <1>7, <1>8, <1>9 DEF WatchdogNext, MonitorStep

\* One loop monitors while the watchdog runs and none after it was stopped, for any number
\* of starts and stops.
THEOREM OneMonitorAlways == WatchdogSpec => []OneMonitor
<1>1. WatchdogInit => WatchdogInv
  BY DEF WatchdogInit, WatchdogInv, Active
<1>2. WatchdogInv => OneMonitor
  BY DEF WatchdogInv, Active, OneMonitor
<1>. QED BY <1>1, <1>2, WatchdogStep, PTL DEF WatchdogSpec

-----------------------------------------------------------------------------
(* SSHService.                                                             *)

\* A client is in the table from its connect to its disconnect, and its session with it;
\* what is being closed is in the table no more.
ClientInv(s) ==
  /\ s \in svcClients => svcSessions[s] # "absent"
  /\ s \in svcClients \/ (\E d \in Leaver : s \in leaver[d]) => svcConnect[s] = "connected"
  /\ \A d \in Leaver : s \in leaver[d] => s \notin svcClients
  /\ svcLine[s] = "opening" => svcConnect[s] \in {"connecting", "gaveup"}
  /\ svcLine[s] = "none" => svcConnect[s] = "none"

ServiceInv ==
  /\ ServiceTypeOK
  /\ ConnectionsOwned
  /\ \A s \in SvcId : ClientInv(s)
  /\ \A d \in Leaver : \A s, u \in leaver[d] : s = u

LEMMA ServiceStep == ServiceInv /\ [ServiceNext]_serviceVars => ServiceInv'
<1>. SUFFICES ASSUME ServiceInv, [ServiceNext]_serviceVars PROVE ServiceInv'
  OBVIOUS
<1>. USE DEF ServiceInv, ServiceTypeOK, ConnectionsOwned, ClientInv
<1>1. ASSUME NEW s \in SvcId, ConnectBegins(s) PROVE ServiceInv'
  BY <1>1 DEF ConnectBegins
<1>2. ASSUME NEW s \in SvcId, LineOpens(s) PROVE ServiceInv'
  BY <1>2 DEF LineOpens
<1>3. ASSUME NEW s \in SvcId, ConnectTimesOut(s) PROVE ServiceInv'
  BY <1>3 DEF ConnectTimesOut
<1>4. ASSUME NEW s \in SvcId, ConnectReturns(s) PROVE ServiceInv'
  BY <1>4 DEF ConnectReturns
<1>5. ASSUME NEW s \in SvcId, MarkDisconnected(s) \/ MarkHealthy(s) PROVE ServiceInv'
  BY <1>5 DEF MarkDisconnected, MarkHealthy
<1>6. ASSUME NEW s \in SvcId, LineDies(s) PROVE ServiceInv'
  BY <1>6 DEF LineDies
<1>7. ASSUME NEW s \in SvcId, NEW d \in Leaver, LeaveBegins(d, s) PROVE ServiceInv'
  BY <1>7 DEF LeaveBegins
<1>8. ASSUME NEW d \in Leaver, LeaveEnds(d) PROVE ServiceInv'
  <2>1. PICK s \in leaver[d] :
          /\ svcLine' = [svcLine EXCEPT ![s] = "closed"]
          /\ svcSessions' = [svcSessions EXCEPT ![s] = "absent"]
          /\ leaver' = [leaver EXCEPT ![d] = {}]
          /\ UNCHANGED <<svcClients, svcConnect>>
    BY <1>8 DEF LeaveEnds
  <2>2. ServiceTypeOK' /\ leaver[d] = {s}
    BY <2>1
  <2>3. ConnectionsOwned'
    BY <2>1, <2>2
  <2>4. \A u \in SvcId : ClientInv(u)'
    BY <2>1, <2>2
  <2>. QED BY <2>1, <2>2, <2>3, <2>4
<1>9. CASE UNCHANGED serviceVars
  BY <1>9 DEF serviceVars
<1>. QED BY <1>1, <1>2, <1>3, <1>4, <1>5, <1>6, <1>7, <1>8, <1>9 DEF ServiceNext

\* Every open connection but that of a connect that timed out can be closed by its id, for
\* any number of sessions and of disconnects at once.
THEOREM ConnectionsAlwaysOwned == ServiceSpec => []ConnectionsOwned
<1>1. ServiceInit => ServiceInv
  BY DEF ServiceInit, ServiceInv, ServiceTypeOK, ConnectionsOwned, ClientInv
<1>2. ServiceInv => ConnectionsOwned
  BY DEF ServiceInv
<1>. QED BY <1>1, <1>2, ServiceStep, PTL DEF ServiceSpec

-----------------------------------------------------------------------------
(* Batch executor.                                                         *)

BatchTyped ==
  /\ pools \in [Key -> RowJob \cup {NoPool}]
  /\ poolIs \in [RowJob -> {"none", "open", "closed"}]
  /\ jobAt \in [RowJob -> {"none", "looking", "making", "running", "ended"}]
  /\ verdict \in [Batch -> {"none", "running", "success", "partial", "failed"}]
  /\ closing = NotClosing \/ closing \subseteq Key

\* A job that makes a pool has found none, or races with the one that stored it.
MakerInv ==
  /\ \A j \in RowJob : jobAt[j] = "making" =>
       pools[KeyFor(j)] = NoPool \/ KeyFor(j) \in raced
  /\ \A i, j \in RowJob :
       i # j /\ jobAt[i] = "making" /\ jobAt[j] = "making" /\ KeyFor(i) = KeyFor(j)
       => KeyFor(j) \in raced

\* Jobs are at work only in a batch that runs, and then nothing is closed; a pool that
\* close() has passed is closed.
CloseInv ==
  /\ \A j \in RowJob :
       jobAt[j] \in {"looking", "making", "running"} => verdict[j[1]] = "running"
  /\ closing # NotClosing => \A b \in Batch : ~BatchRuns(b)
  /\ \A k \in Key : pools[k] # NoPool => KeyFor(pools[k]) = k
  /\ closing # NotClosing =>
       \A k \in Key \ closing : pools[k] # NoPool => poolIs[pools[k]] = "closed"
  /\ closing # NotClosing => \A k \in closing : pools[k] # NoPool

BatchInv == BatchTyped /\ MakerInv /\ CloseInv /\ PoolsOwned

LEMMA KeysOfJobs ==
  /\ \A j \in RowJob : KeyFor(j) \in Key /\ j[1] \in Batch
  /\ \A j \in RowJob : j # NoPool
  /\ \A K \in SUBSET Key : K # NotClosing
BY BatchAssumption DEF RowJob, KeyFor, Key, NotClosing

LEMMA BatchStep == BatchInv /\ [BatchNext]_batchVars => BatchInv'
<1>. SUFFICES ASSUME BatchInv, [BatchNext]_batchVars PROVE BatchInv'
  OBVIOUS
<1>. USE DEF BatchInv
<1>1. ASSUME NEW b \in Batch, BatchStarts(b) PROVE BatchInv'
  <2>1. UNCHANGED <<pools, poolIs, jobOk, closing, raced>> /\ closing = NotClosing
    BY <1>1 DEF BatchStarts
  <2>2. /\ verdict' = [verdict EXCEPT ![b] = "running"]
        /\ jobAt' = [j \in RowJob |-> IF j \in JobsOf(b) THEN "looking" ELSE jobAt[j]]
    BY <1>1 DEF BatchStarts
  <2>3. BatchTyped'
    BY <2>1, <2>2 DEF BatchTyped
  <2>4. \A j \in RowJob : j \in JobsOf(b) <=> j[1] = b
    BY DEF JobsOf, RowJob
  <2>5. MakerInv'
    BY <2>1, <2>2 DEF MakerInv
  <2>6. CloseInv'
    BY <2>1, <2>2, <2>4, KeysOfJobs DEF CloseInv, BatchTyped
  <2>7. PoolsOwned'
    BY <2>1 DEF PoolsOwned
  <2>. QED BY <2>3, <2>5, <2>6, <2>7
<1>2. ASSUME NEW j \in RowJob, LookForPool(j) PROVE BatchInv'
  <2>. DEFINE k == KeyFor(j)
  <2>1. /\ jobAt[j] = "looking" /\ UNCHANGED <<pools, poolIs, jobOk, verdict, closing>>
        /\ jobAt' = [jobAt EXCEPT ![j] = IF pools[k] = NoPool THEN "making" ELSE "running"]
        /\ raced \subseteq raced'
        /\ pools[k] = NoPool => \A i \in RowJob : KeyFor(i) = k /\ jobAt[i] = "making" => k \in raced'
    BY <1>2 DEF LookForPool, JobMoves
  <2>2. BatchTyped'
    BY <2>1 DEF BatchTyped
  <2>3. MakerInv'
    BY <2>1 DEF MakerInv, BatchTyped
  <2>4. CloseInv'
    BY <2>1 DEF CloseInv, BatchTyped, BatchRuns
  <2>5. PoolsOwned'
    BY <2>1 DEF PoolsOwned
  <2>. QED BY <2>2, <2>3, <2>4, <2>5
<1>3. ASSUME NEW j \in RowJob, StorePool(j) PROVE BatchInv'
  <2>. DEFINE k == KeyFor(j)
  <2>1. /\ jobAt[j] = "making" /\ UNCHANGED <<jobOk, verdict, closing, raced>>
        /\ poolIs' = [poolIs EXCEPT ![j] = "open"]
        /\ pools' = [pools EXCEPT ![k] = j]
        /\ jobAt' = [jobAt EXCEPT ![j] = "running"]
    BY <1>3 DEF StorePool, JobMoves
  <2>2. k \in Key /\ j \in RowJob
    BY KeysOfJobs
  <2>3. BatchTyped'
    BY <2>1, <2>2 DEF BatchTyped
  <2>4. MakerInv'
    BY <2>1, <2>2 DEF MakerInv, BatchTyped
  <2>5. closing = NotClosing
    BY <2>1, KeysOfJobs DEF CloseInv, BatchRuns
  <2>6. CloseInv'
    BY <2>1, <2>2, <2>5 DEF CloseInv, BatchTyped
  <2>7. pools[k] = NoPool \/ k \in raced
    BY <2>1 DEF MakerInv
  <2>8. PoolsOwned'
    BY <2>1, <2>2, <2>7, KeysOfJobs DEF PoolsOwned, BatchTyped
  <2>. QED BY <2>3, <2>4, <2>6, <2>8
<1>4. ASSUME NEW j \in RowJob, RowEnds(j) PROVE BatchInv'
  <2>1. /\ jobAt[j] = "running" /\ jobAt' = [jobAt EXCEPT ![j] = "ended"]
        /\ UNCHANGED <<pools, poolIs, verdict, closing, raced>>
    BY <1>4 DEF RowEnds, JobMoves
  <2>2. BatchTyped' /\ MakerInv' /\ PoolsOwned'
    BY <2>1 DEF BatchTyped, MakerInv, PoolsOwned
  <2>3. CloseInv'
    BY <2>1 DEF CloseInv, BatchTyped, BatchRuns
  <2>. QED BY <2>2, <2>3
<1>5. ASSUME NEW b \in Batch, BatchReturns(b) PROVE BatchInv'
  <2>1. PICK v \in {"success", "failed", "partial"} : verdict' = [verdict EXCEPT ![b] = v]
    BY <1>5 DEF BatchReturns
  <2>2. /\ \A j \in JobsOf(b) : jobAt[j] = "ended"
        /\ UNCHANGED <<pools, poolIs, jobAt, jobOk, closing, raced>>
    BY <1>5 DEF BatchReturns
  <2>3. \A j \in RowJob : j[1] = b => j \in JobsOf(b)
    BY DEF JobsOf, RowJob
  <2>4. BatchTyped' /\ MakerInv' /\ PoolsOwned'
    BY <2>1, <2>2 DEF BatchTyped, MakerInv, PoolsOwned
  <2>5. CloseInv'
    BY <2>1, <2>2, <2>3, KeysOfJobs DEF CloseInv, BatchTyped, BatchRuns
  <2>. QED BY <2>4, <2>5
<1>6. CASE CloseStarts
  <2>1. /\ closing' = {k \in Key : pools[k] # NoPool} /\ \A b \in Batch : ~BatchRuns(b)
        /\ UNCHANGED <<pools, poolIs, jobAt, jobOk, verdict, raced>>
    BY <1>6 DEF CloseStarts
  <2>2. BatchTyped' /\ MakerInv' /\ PoolsOwned'
    BY <2>1 DEF BatchTyped, MakerInv, PoolsOwned
  <2>3. CloseInv'
    BY <2>1 DEF CloseInv, BatchRuns
  <2>. QED BY <2>2, <2>3
<1>7. ASSUME NEW k \in Key, ClosePool(k) PROVE BatchInv'
  <2>1. /\ closing # NotClosing /\ k \in closing /\ closing' = closing \ {k}
        /\ poolIs' = [poolIs EXCEPT ![pools[k]] = "closed"]
        /\ UNCHANGED <<pools, jobAt, jobOk, verdict, raced>>
    BY <1>7 DEF ClosePool
  <2>2. pools[k] \in RowJob /\ closing \subseteq Key
    BY <2>1 DEF BatchTyped, CloseInv
  <2>3. BatchTyped' /\ MakerInv'
    BY <2>1, <2>2 DEF BatchTyped, MakerInv
  <2>4. CloseInv'
    BY <2>1, <2>2, KeysOfJobs DEF CloseInv, BatchTyped, BatchRuns
  <2>5. PoolsOwned'
    BY <2>1, <2>2 DEF PoolsOwned, BatchTyped
  <2>. QED BY <2>3, <2>4, <2>5
<1>8. CASE CloseReturns
  <2>1. /\ closing = {} /\ closing' = NotClosing /\ pools' = [k \in Key |-> NoPool]
        /\ UNCHANGED <<poolIs, jobAt, jobOk, verdict, raced>>
    BY <1>8 DEF CloseReturns
  <2>2. closing # NotClosing
    BY <2>1 DEF NotClosing
  <2>3. BatchTyped'
    BY <2>1 DEF BatchTyped
  <2>4. MakerInv' /\ CloseInv'
    BY <2>1, <2>2, KeysOfJobs DEF MakerInv, CloseInv
  <2>5. PoolsOwned'
    BY <2>1, <2>2, KeysOfJobs DEF PoolsOwned, CloseInv
  <2>. QED BY <2>3, <2>4, <2>5
<1>9. CASE UNCHANGED batchVars
  BY <1>9 DEF batchVars, BatchTyped, MakerInv, CloseInv, PoolsOwned, BatchRuns
<1>. QED BY <1>1, <1>2, <1>3, <1>4, <1>5, <1>6, <1>7, <1>8, <1>9 DEF BatchNext

\* close() closes every pool but those of a host:port for which two threads made a pool at
\* one time, for any number of batches, rows and threads.
THEOREM PoolsAlwaysOwned == BatchSpec => []PoolsOwned
<1>1. BatchInit => BatchInv
  BY KeysOfJobs DEF BatchInit, BatchInv, BatchTyped, MakerInv, CloseInv, PoolsOwned
<1>2. BatchInv => PoolsOwned
  BY DEF BatchInv
<1>. QED BY <1>1, <1>2, BatchStep, PTL DEF BatchSpec
-----------------------------------------------------------------------------
(* HostsFile.                                                              *)

EditState ==
  [at : {"idle", "read", "opened"}, data : Seq(Entry), name : SUBSET HostName,
   gone : SUBSET HostName]

Distinct(list) == \A i, j \in DOMAIN list : list[i].name = list[j].name => i = j

HostsInv ==
  /\ hosts \in Seq(Entry) /\ parses \in BOOLEAN /\ expected \subseteq HostName
  /\ disturbed \in BOOLEAN
  /\ edit \in [Editor -> EditState]
  /\ Distinct(hosts)
  /\ \A p \in Editor : Distinct(edit[p].data)

\* A set of positions that has a member has a least one.
LEMMA LeastPosition ==
  ASSUME NEW T \in SUBSET Nat, T # {} PROVE \E n \in T : \A m \in T : n <= m
<1>. DEFINE R == {ss \in Nat \X Nat : ss[1] < ss[2]}
<1>1. IsWellFoundedOn(R, Nat)
  BY NatLessThanWellFounded DEF OpToRel
<1>. HIDE DEF R
<1>2. PICK n \in T : \A m \in T : ~ (<<m, n>> \in R)
  BY <1>1, WFMin, Zenon
<1>3. \A m \in T : ~ (m < n)
  BY <1>2 DEF R
<1>. QED BY <1>3

\* An entry that no first match keeps out has a name that is not in the list.
LEMMA NoMatch ==
  ASSUME NEW list \in Seq(Entry), NEW e \in Entry, FirstMatch(list, e) = {}
  PROVE  \A i \in DOMAIN list : list[i].name # e.name
<1>. DEFINE found == {i \in DOMAIN list : list[i].name = e.name \/ list[i].at = e.at}
<1>1. found \in SUBSET Nat
  OBVIOUS
<1>. SUFFICES ASSUME found # {} PROVE FALSE
  OBVIOUS
<1>2. PICK n \in found : \A m \in found : n <= m
  <2>. HIDE DEF found
  <2>. QED BY <1>1, LeastPosition
<1>3. \A j \in 1 .. n - 1 : j \in DOMAIN list /\ j \notin found
  <2>1. n \in 1 .. Len(list)
    OBVIOUS
  <2>. QED BY <1>2, <2>1
<1>4. n \in FirstMatch(list, e)
  BY <1>2, <1>3 DEF FirstMatch
<1>. QED BY <1>4

\* What add_host writes has the names of the file and the new one, none of them twice.
LEMMA AddedNames ==
  ASSUME NEW list \in Seq(Entry), NEW e \in Entry, NEW new \in Added(list, e)
  PROVE  /\ new \in Seq(Entry)
         /\ Names(new) = Names(list) \cup {e.name}
         /\ Distinct(list) => Distinct(new)
<1>1. CASE FirstMatch(list, e) = {}
  <2>1. new = Append(list, e)
    BY <1>1 DEF Added
  <2>2. /\ new \in Seq(Entry) /\ DOMAIN new = 1 .. Len(list) + 1
        /\ DOMAIN list = 1 .. Len(list) /\ Len(list) \in Nat
        /\ \A i \in 1 .. Len(list) : new[i] = list[i]
        /\ new[Len(list) + 1] = e
    BY <2>1
  <2>3. \A i \in DOMAIN list : list[i].name # e.name
    BY <1>1, NoMatch
  <2>4. Names(new) = Names(list) \cup {e.name}
    BY <2>2 DEF Names
  <2>5. Distinct(list) => Distinct(new)
    BY <2>2, <2>3 DEF Distinct
  <2>. QED BY <2>2, <2>4, <2>5
<1>2. CASE FirstMatch(list, e) # {}
  <2>1. PICK k \in FirstMatch(list, e) : list[k].name = e.name /\ new = [list EXCEPT ![k] = e]
    BY <1>2 DEF Added
  <2>2. /\ k \in DOMAIN list /\ new \in Seq(Entry) /\ DOMAIN new = DOMAIN list
        /\ new[k] = e
        /\ \A i \in DOMAIN list : i # k => new[i] = list[i]
    BY <2>1 DEF FirstMatch
  <2>3. \A i \in DOMAIN list : new[i].name = list[i].name
    BY <2>1, <2>2
  <2>4. Names(new) = Names(list) \cup {e.name}
    BY <2>1, <2>2, <2>3 DEF Names
  <2>5. Distinct(list) => Distinct(new)
    BY <2>2, <2>3 DEF Distinct
  <2>. QED BY <2>2, <2>4, <2>5
<1>. QED BY <1>1, <1>2

\* What remove_host writes has the other names: its positions, taken in order, are all
\* the positions that stay.
LEMMA KeptNames ==
  ASSUME NEW list \in Seq(Entry), NEW n, NEW new \in Kept(list, n)
  PROVE  /\ new \in Seq(Entry)
         /\ Names(new) = Names(list) \ {n}
         /\ Distinct(list) => Distinct(new)
<1>. DEFINE stay == {i \in DOMAIN list : list[i].name # n}
            size == Cardinality(stay)
<1>1. PICK f \in [1 .. size -> stay] :
        /\ \A i, j \in DOMAIN f : i < j => f[i] < f[j]
        /\ new = [i \in DOMAIN f |-> list[f[i]]]
  BY DEF Kept
<1>2. stay \subseteq 1 .. Len(list) /\ Len(list) \in Nat /\ DOMAIN list = 1 .. Len(list)
  OBVIOUS
<1>3. IsFiniteSet(stay)
  <2>1. IsFiniteSet(1 .. Len(list))
    BY <1>2, FS_Interval
  <2>. HIDE DEF stay
  <2>. QED BY <1>2, <2>1, FS_Subset
<1>4. size \in Nat
  BY <1>3, FS_CardinalityType
<1>5. IsFiniteSet(1 .. size) /\ Cardinality(1 .. size) = size
  BY <1>4, FS_Interval
<1>. HIDE DEF size
<1>6. \A i, j \in 1 .. size : f[i] = f[j] => i = j
  <2>1. \A i, j \in 1 .. size : i < j => f[i] < f[j]
    BY <1>1
  <2>2. \A i \in 1 .. size : f[i] \in Nat
    BY <1>1, <1>2
  <2>. QED BY <1>4, <2>1, <2>2
<1>7. f \in Injection(1 .. size, stay)
  BY <1>1, <1>6 DEF Injection, IsInjective
<1>8. f \in Surjection(1 .. size, stay)
  BY <1>3, <1>5, <1>7, FS_Injection DEF size
<1>9. \A i \in stay : \E k \in 1 .. size : f[k] = i
  BY <1>8 DEF Surjection
<1>10. /\ new \in Seq(Entry) /\ DOMAIN new = 1 .. size
       /\ \A k \in 1 .. size : f[k] \in DOMAIN list /\ list[f[k]].name # n /\ new[k] = list[f[k]]
  <2>1. /\ DOMAIN new = 1 .. size
        /\ \A k \in 1 .. size : f[k] \in DOMAIN list /\ list[f[k]].name # n /\ new[k] = list[f[k]]
    BY <1>1
  <2>2. new = [k \in 1 .. size |-> list[f[k]]] /\ \A k \in 1 .. size : list[f[k]] \in Entry
    BY <1>1, <2>1
  <2>. QED BY <1>4, <2>1, <2>2
<1>11. Names(new) = Names(list) \ {n}
  <2>1. Names(new) \subseteq Names(list) \ {n}
    BY <1>10 DEF Names
  <2>2. ASSUME NEW m \in Names(list) \ {n} PROVE m \in Names(new)
    <3>1. PICK i \in DOMAIN list : list[i].name = m
      BY <2>2 DEF Names
    <3>2. PICK k \in 1 .. size : f[k] = i
      BY <1>9, <2>2, <3>1
    <3>. QED BY <1>10, <3>1, <3>2 DEF Names
  <2>. QED BY <2>1, <2>2
<1>12. Distinct(list) => Distinct(new)
  BY <1>6, <1>10 DEF Distinct
<1>. QED BY <1>10, <1>11, <1>12

\* As long as nothing was disturbed: one call at a time, which has what the file will
\* hold; while it writes, and only then, the file cannot be read.
KeptInv ==
  ~disturbed =>
    /\ \A p, q \in Editor : edit[p].at # "idle" /\ edit[q].at # "idle" => p = q
    /\ (\A p \in Editor : edit[p].at # "opened") => parses /\ Names(hosts) = expected
    /\ \A p \in Editor : edit[p].at = "opened" => ~parses
    /\ \A p \in Editor :
         edit[p].at # "idle" => Names(edit[p].data) = (expected \cup edit[p].name) \ edit[p].gone

LEMMA HostsStart == HostsInit => HostsInv /\ KeptInv
<1>. SUFFICES ASSUME HostsInit PROVE HostsInv /\ KeptInv
  OBVIOUS
<1>1. AtRestEdit \in EditState /\ AtRestEdit.at = "idle" /\ AtRestEdit.data = <<>>
  BY DEF AtRestEdit, EditState
<1>2. Names(<<>>) = {} /\ Distinct(<<>>)
  BY DEF Names, Distinct
<1>3. /\ hosts = <<>> /\ parses = TRUE /\ expected = {} /\ disturbed = FALSE
      /\ edit = [p \in Editor |-> AtRestEdit]
  BY DEF HostsInit
<1>4. HostsInv
  <2>1. hosts \in Seq(Entry) /\ expected \subseteq HostName /\ Distinct(hosts)
    BY <1>2, <1>3
  <2>2. edit \in [Editor -> EditState] /\ \A p \in Editor : edit[p] = AtRestEdit
    BY <1>1, <1>3
  <2>3. Distinct(AtRestEdit.data)
    BY <1>1, <1>2
  <2>. QED BY <1>3, <2>1, <2>2, <2>3 DEF HostsInv
<1>5. \A p \in Editor : edit[p].at = "idle"
  BY <1>1, <1>3
<1>6. Names(hosts) = expected
  BY <1>2, <1>3
<1>. QED BY <1>3, <1>4, <1>5, <1>6 DEF KeptInv

\* A call that begins from what it has read of the file.
LEMMA BeginsKeeps ==
  ASSUME HostsInv, KeptInv, NEW p \in Editor, edit[p].at = "idle",
         NEW data \in Seq(Entry), NEW name \in SUBSET HostName, NEW gone \in SUBSET HostName,
         Begins(p, data, name, gone),
         Distinct(data),
         parses => Names(data) = (Names(hosts) \cup name) \ gone
  PROVE  HostsInv' /\ KeptInv'
<1>. DEFINE st == [at |-> "read", data |-> data, name |-> name, gone |-> gone]
<1>1. /\ st \in EditState /\ st.at = "read" /\ st.data = data /\ st.name = name
      /\ st.gone = gone
  BY DEF EditState
<1>2. /\ edit' = [edit EXCEPT ![p] = st]
      /\ disturbed' = (disturbed \/ \E q \in Editor \ {p} : edit[q].at # "idle")
      /\ hosts' = hosts /\ parses' = parses /\ expected' = expected
  BY DEF Begins
<1>. HIDE DEF st
<1>3. /\ edit' \in [Editor -> EditState] /\ edit'[p] = st
      /\ \A q \in Editor : q # p => edit'[q] = edit[q]
  BY <1>1, <1>2 DEF HostsInv
<1>4. HostsInv'
  BY <1>1, <1>2, <1>3 DEF HostsInv
<1>5. KeptInv'
  <2>. SUFFICES ASSUME ~disturbed' PROVE KeptInv'
    BY DEF KeptInv
  <2>1. ~disturbed /\ \A q \in Editor : q # p => edit[q].at = "idle"
    BY <1>2
  <2>2. parses /\ Names(hosts) = expected
    BY <2>1 DEF KeptInv
  <2>. QED BY <1>1, <1>2, <1>3, <2>1, <2>2 DEF KeptInv
<1>. QED BY <1>4, <1>5

LEMMA AddHostKeeps == ASSUME HostsInv, KeptInv, NEW p \in Editor, AddHost(p) PROVE HostsInv' /\ KeptInv'
<1>1. edit[p].at = "idle"
  BY DEF AddHost
<1>2. PICK e \in Entry : \E list \in Added(Loaded, e) : Begins(p, list, {e.name}, {})
  BY DEF AddHost
<1>3. PICK list \in Added(Loaded, e) : Begins(p, list, {e.name}, {})
  BY <1>2
<1>4. Loaded \in Seq(Entry) /\ Distinct(Loaded) /\ (parses => Loaded = hosts)
  BY DEF Loaded, HostsInv, Distinct
<1>5. list \in Seq(Entry) /\ Names(list) = Names(Loaded) \cup {e.name} /\ Distinct(list)
  BY <1>4, AddedNames
<1>6. {e.name} \in SUBSET HostName /\ {} \in SUBSET HostName
  BY DEF Entry
<1>. QED BY <1>1, <1>3, <1>4, <1>5, <1>6, BeginsKeeps

LEMMA RemoveHostKeeps ==
  ASSUME HostsInv, KeptInv, NEW p \in Editor, RemoveHost(p) PROVE HostsInv' /\ KeptInv'
<1>1. PICK n \in Names(hosts) : \E list \in Kept(hosts, n) : Begins(p, list, {}, {n})
  BY DEF RemoveHost
<1>2. PICK list \in Kept(hosts, n) : Begins(p, list, {}, {n})
  BY <1>1
<1>3. edit[p].at = "idle" /\ hosts \in Seq(Entry) /\ Distinct(hosts)
  BY DEF RemoveHost, HostsInv
<1>4. list \in Seq(Entry) /\ Names(list) = Names(hosts) \ {n} /\ Distinct(list)
  BY <1>3, KeptNames
<1>5. {n} \in SUBSET HostName /\ {} \in SUBSET HostName
  <2>1. PICK i \in DOMAIN hosts : n = hosts[i].name
    BY DEF Names
  <2>2. hosts[i] \in Entry
    BY <1>3, <2>1
  <2>. QED BY <2>1, <2>2 DEF Entry
<1>. QED BY <1>2, <1>3, <1>4, <1>5, BeginsKeeps

LEMMA OpenHostsKeeps ==
  ASSUME HostsInv, KeptInv, NEW p \in Editor, OpenHosts(p) PROVE HostsInv' /\ KeptInv'
<1>1. /\ edit[p].at = "read" /\ parses' = FALSE
      /\ edit' = [edit EXCEPT ![p] = [edit[p] EXCEPT !.at = "opened"]]
      /\ hosts' = hosts /\ expected' = expected /\ disturbed' = disturbed
  BY DEF OpenHosts
<1>2. edit[p] \in EditState
  BY DEF HostsInv
<1>3. /\ edit' \in [Editor -> EditState]
      /\ edit'[p].at = "opened" /\ edit'[p].data = edit[p].data
      /\ edit'[p].name = edit[p].name /\ edit'[p].gone = edit[p].gone
      /\ \A q \in Editor : q # p => edit'[q] = edit[q]
  BY <1>1, <1>2 DEF HostsInv, EditState
<1>4. HostsInv'
  BY <1>1, <1>3 DEF HostsInv
<1>5. KeptInv'
  BY <1>1, <1>3 DEF KeptInv
<1>. QED BY <1>4, <1>5

\* A call that is over has left the file alone, or has written it.
LEMMA WriteHostsKeeps ==
  ASSUME HostsInv, KeptInv, NEW p \in Editor, WriteHosts(p) PROVE HostsInv' /\ KeptInv'
<1>1. /\ edit[p].at = "opened" /\ hosts' = edit[p].data
      /\ parses' \in BOOLEAN /\ (~parses => parses')
      /\ expected' = (expected \cup edit[p].name) \ edit[p].gone
      /\ edit' = [edit EXCEPT ![p] = AtRestEdit] /\ disturbed' = disturbed
  BY DEF WriteHosts
<1>2. edit[p] \in EditState /\ edit[p].data \in Seq(Entry) /\ edit[p].name \subseteq HostName
  BY DEF HostsInv, EditState
<1>3. AtRestEdit \in EditState /\ AtRestEdit.at = "idle" /\ Distinct(AtRestEdit.data)
  BY DEF AtRestEdit, EditState, Distinct
<1>4. /\ edit' \in [Editor -> EditState] /\ edit'[p] = AtRestEdit
      /\ \A q \in Editor : q # p => edit'[q] = edit[q]
  BY <1>1, <1>3 DEF HostsInv
<1>5. HostsInv'
  BY <1>1, <1>2, <1>3, <1>4 DEF HostsInv
<1>6. KeptInv'
  <2>. SUFFICES ASSUME ~disturbed' PROVE KeptInv'
    BY DEF KeptInv
  <2>1. \A q \in Editor : edit'[q].at = "idle"
    BY <1>1, <1>3, <1>4 DEF KeptInv
  <2>2. parses' /\ Names(hosts)' = expected'
    BY <1>1 DEF KeptInv, Names
  <2>. QED BY <2>1, <2>2 DEF KeptInv
<1>. QED BY <1>5, <1>6

LEMMA EditorKilledKeeps ==
  ASSUME HostsInv, KeptInv, NEW p \in Editor, EditorKilled(p) PROVE HostsInv' /\ KeptInv'
<1>1. /\ disturbed' = (disturbed \/ edit[p].at = "opened")
      /\ edit' = [edit EXCEPT ![p] = AtRestEdit]
      /\ hosts' = hosts /\ parses' = parses /\ expected' = expected
  BY DEF EditorKilled
<1>2. AtRestEdit \in EditState /\ AtRestEdit.at = "idle" /\ Distinct(AtRestEdit.data)
  BY DEF AtRestEdit, EditState, Distinct
<1>3. /\ edit' \in [Editor -> EditState] /\ edit'[p] = AtRestEdit
      /\ \A q \in Editor : q # p => edit'[q] = edit[q]
  BY <1>1, <1>2 DEF HostsInv
<1>4. HostsInv'
  BY <1>1, <1>2, <1>3 DEF HostsInv
<1>5. KeptInv'
  BY <1>1, <1>2, <1>3 DEF KeptInv
<1>. QED BY <1>4, <1>5

LEMMA HostsStep == HostsInv /\ KeptInv /\ [HostsNext]_hostsVars => HostsInv' /\ KeptInv'
<1>. SUFFICES ASSUME HostsInv, KeptInv, [HostsNext]_hostsVars PROVE HostsInv' /\ KeptInv'
  OBVIOUS
<1>1. CASE HostsNext
  <2>1. PICK p \in Editor :
          AddHost(p) \/ RemoveHost(p) \/ OpenHosts(p) \/ WriteHosts(p) \/ EditorKilled(p)
    BY <1>1 DEF HostsNext
  <2>. QED BY <2>1, AddHostKeeps, RemoveHostKeeps, OpenHostsKeeps, WriteHostsKeeps,
              EditorKilledKeeps
<1>2. CASE UNCHANGED hostsVars
  BY <1>2 DEF hostsVars, HostsInv, KeptInv
<1>. QED BY <1>1, <1>2

\* Whatever processes add and remove at the same time, and whichever of them are killed,
\* no name is in the file twice (ConfigManager.add_host, remove_host).
THEOREM NamesAlwaysUnique == HostsSpec => []NamesUnique
<1>1. HostsInv => NamesUnique
  BY DEF HostsInv, NamesUnique, Distinct
<1>. QED BY <1>1, HostsStart, HostsStep, PTL DEF HostsSpec

\* As long as calls come one after the other and none is killed while it writes, the
\* file can be read and has the hosts that were added and not removed.
THEOREM HostsAlwaysKept == HostsSpec => []HostsKept
<1>1. HostsInv /\ KeptInv => HostsKept
  BY DEF KeptInv, HostsKept
<1>. QED BY <1>1, HostsStart, HostsStep, PTL DEF HostsSpec
-----------------------------------------------------------------------------
(* All the parts in one run (MCServices): each behaviour of MCSpec is a    *)
(* behaviour of every part, so that what is proved of a part holds there.  *)

LEMMA WorkersTypes == WorkersSpec => []WorkersTypeOK
<1>1. WorkersInit => QueueInv /\ exits \subseteq Cmd /\ up \subseteq Conn /\ running \subseteq Job
  BY DEF WorkersInit, QueueInv, Spots
<1>2. QueueInv /\ WorkersTypeOK /\ [WorkersNext]_workersVars => WorkersTypeOK'
  <2>. SUFFICES ASSUME QueueInv, QueueInv', WorkersTypeOK, [WorkersNext]_workersVars
                PROVE  exits' \subseteq Cmd /\ up' \subseteq Conn /\ running' \subseteq Job
    BY QueueStep DEF QueueInv, WorkersTypeOK
  <2>. USE DEF WorkersTypeOK
  <2>1. CASE BeginJob
    <3>1. queue # <<>> /\ queue \in Seq(Job) /\ running' = running \cup {Head(queue)}
          /\ exits' = exits /\ up' = up
      BY <2>1 DEF BeginJob
    <3>. QED BY <3>1
  <2>2. ASSUME NEW j \in Job, Submit(j) \/ SubmitFails(j) \/ TimeOut(j) \/ AskLock(j)
        PROVE  exits' \subseteq Cmd /\ up' \subseteq Conn /\ running' \subseteq Job
    BY <2>2 DEF Submit, SubmitFails, TimeOut, AskLock
  <2>3. ASSUME NEW j \in Job, CommandEnds(j) \/ CloseRuns(j)
        PROVE  exits' \subseteq Cmd /\ up' \subseteq Conn /\ running' \subseteq Job
    BY <2>3 DEF CommandEnds, CloseRuns, Ends
  <2>4. ASSUME NEW c \in Conn, TransportDies(c)
        PROVE  exits' \subseteq Cmd /\ up' \subseteq Conn /\ running' \subseteq Job
    BY <2>4 DEF TransportDies
  <2>5. CASE UNCHANGED workersVars
    BY <2>5 DEF workersVars
  <2>. QED BY <2>1, <2>2, <2>3, <2>4, <2>5 DEF WorkersNext, WorkersStep
<1>3. QueueInv /\ exits \subseteq Cmd /\ up \subseteq Conn /\ running \subseteq Job => WorkersTypeOK
  BY DEF QueueInv, WorkersTypeOK
<1>. QED BY <1>1, <1>2, <1>3, QueueStep, PTL DEF WorkersSpec

LEMMA TunnelsTypes == TunnelsSpec => []TunnelsTypeOK
<1>1. TableInv /\ PipeInv => TunnelsTypeOK
  BY DEF TableInv, TunRec, PipeInv, Dry, PeerRec, TunnelsTypeOK
<1>. QED BY <1>1, TableInvAlways, PipeInvAlways, PTL

LEMMA WatchdogTypes == WatchdogSpec => []WatchdogTypeOK
<1>1. WatchdogInit => WatchdogTypeOK
  BY DEF WatchdogInit, WatchdogTypeOK
<1>2. WatchdogTypeOK /\ [WatchdogNext]_watchdogVars => WatchdogTypeOK'
  <2>. SUFFICES ASSUME WatchdogTypeOK, [WatchdogNext]_watchdogVars PROVE WatchdogTypeOK'
    OBVIOUS
  <2>. USE DEF WatchdogTypeOK, wdControl
  <2>1. CASE Watch \/ Unwatch
    BY <2>1 DEF Watch, Unwatch
  <2>2. ASSUME NEW m \in Monitor, MonitorCancelled(m) \/ MonitorScans(m) \/ MonitorSleeps(m)
        PROVE  WatchdogTypeOK'
    BY <2>2 DEF MonitorCancelled, MonitorScans, MonitorSleeps
  <2>3. ASSUME NEW m \in Monitor, NEW i \in WdTask, MonitorLooks(m, i) \/ MonitorPops(m, i)
        PROVE  WatchdogTypeOK'
    BY <2>3 DEF MonitorLooks, MonitorPops
  <2>4. ASSUME NEW i \in WdTask,
               RegisterTask(i) \/ Heartbeat(i) \/ UnregisterTask(i) \/ GoesOverdue(i)
        PROVE  WatchdogTypeOK'
    BY <2>4 DEF RegisterTask, Heartbeat, UnregisterTask, GoesOverdue
  <2>5. CASE UNCHANGED watchdogVars
    BY <2>5 DEF watchdogVars
  <2>. QED BY <2>1, <2>2, <2>3, <2>4, <2>5 DEF WatchdogNext, MonitorStep
<1>. QED BY <1>1, <1>2, PTL DEF WatchdogSpec

LEMMA HostsTypes == HostsSpec => []HostsTypeOK
<1>1. HostsInv => HostsTypeOK
  BY DEF HostsInv, EditState, HostsTypeOK
<1>. QED BY <1>1, HostsStart, HostsStep, PTL DEF HostsSpec

LEMMA BatchTypes == BatchSpec => []BatchTypeOK
<1>1. BatchInit => BatchInv /\ jobOk \subseteq RowJob /\ raced \subseteq Key
  BY KeysOfJobs DEF BatchInit, BatchInv, BatchTyped, MakerInv, CloseInv, PoolsOwned
<1>2. BatchInv /\ BatchTypeOK /\ [BatchNext]_batchVars => BatchTypeOK'
  <2>. SUFFICES ASSUME BatchInv', BatchTypeOK, [BatchNext]_batchVars
                PROVE  jobOk' \subseteq RowJob /\ raced' \subseteq Key
    BY BatchStep DEF BatchInv, BatchTyped, BatchTypeOK
  <2>. USE DEF BatchTypeOK
  <2>1. ASSUME NEW j \in RowJob, LookForPool(j) \/ RowEnds(j)
        PROVE  jobOk' \subseteq RowJob /\ raced' \subseteq Key
    BY <2>1, KeysOfJobs DEF LookForPool, RowEnds
  <2>2. CASE UNCHANGED <<jobOk, raced>>
    BY <2>2
  <2>. QED
    BY <2>1, <2>2 DEF BatchNext, batchVars, BatchStarts, BatchReturns, StorePool, CloseStarts,
       CloseReturns, ClosePool
<1>3. BatchInv /\ jobOk \subseteq RowJob /\ raced \subseteq Key => BatchTypeOK
  BY DEF BatchInv, BatchTyped, BatchTypeOK
<1>. QED BY <1>1, <1>2, <1>3, BatchStep, PTL DEF BatchSpec

LEMMA ServiceTypes == ServiceSpec => []ServiceTypeOK
<1>1. ServiceInit => ServiceInv
  BY DEF ServiceInit, ServiceInv, ServiceTypeOK, ConnectionsOwned, ClientInv
<1>2. ServiceInv => ServiceTypeOK
  BY DEF ServiceInv
<1>. QED BY <1>1, <1>2, ServiceStep, PTL DEF ServiceSpec

\* Running the parts side by side adds no behaviour to any of them: what the theorems say
\* of each part's specification, the run `services` checks.
THEOREM PartsImplemented ==
  MCSpec => /\ RateSpec /\ WorkersSpec /\ TunnelsSpec /\ WatchdogSpec
            /\ HostsSpec /\ BatchSpec /\ ServiceSpec
<1>1. MCInit => /\ RateInit /\ WorkersInit /\ TunnelsInit /\ WatchdogInit
                /\ HostsInit /\ BatchInit /\ ServiceInit
  BY DEF MCInit
<1>. USE DEF MCNext, partVars, RatePart, WorkersPart, TunnelsPart, WatchdogPart, HostsPart,
         BatchPart, ServicePart
<1>2. [MCNext]_partVars => [RateNext]_rateVars
  OBVIOUS
<1>3. [MCNext]_partVars => [WorkersNext]_workersVars
  OBVIOUS
<1>4. [MCNext]_partVars => [TunnelsNext]_tunnelVars
  OBVIOUS
<1>5. [MCNext]_partVars => [WatchdogNext]_watchdogVars
  OBVIOUS
<1>6. [MCNext]_partVars => [HostsNext]_hostsVars
  OBVIOUS
<1>7. [MCNext]_partVars => [BatchNext]_batchVars
  OBVIOUS
<1>8. [MCNext]_partVars => [ServiceNext]_serviceVars
  OBVIOUS
<1>. QED
  BY <1>1, <1>2, <1>3, <1>4, <1>5, <1>6, <1>7, <1>8, PTL
  DEF MCSpec, RateSpec, WorkersSpec, TunnelsSpec, WatchdogSpec, HostsSpec, BatchSpec,
      ServiceSpec

\* The types of all the parts' variables.
THEOREM PartsTypeCorrect == MCSpec => []TypesOK
BY PartsImplemented, RateTypeCorrect, WorkersTypes, TunnelsTypes, WatchdogTypes, HostsTypes,
   BatchTypes, ServiceTypes, PTL DEF TypesOK

\* Everything that the run `services` checks of its parts, but for what has to happen in the
\* end, holds of the composition with any number of calls, threads, tunnels, tasks, editors,
\* batches and ids.
THEOREM CompositionSafe ==
  MCSpec => /\ [](WindowBound /\ TableIsTrue /\ ClosedTunnelDries /\ OneMonitor)
            /\ [](NamesUnique /\ HostsKept /\ PoolsOwned /\ ConnectionsOwned)
            /\ RefusedOnlyWhenFull /\ OnlyAwaitedBegin
BY PartsImplemented, WindowBoundCorrect, TableAlwaysTrue, ClosedTunnelsDry, OneMonitorAlways,
   NamesAlwaysUnique, HostsAlwaysKept, PoolsAlwaysOwned, ConnectionsAlwaysOwned,
   RefusedOnlyWhenFullCorrect, AwaitedWhenBegun, PTL
==============================================================================
