-------------------------------- MODULE Tunnels --------------------------------
(***************************************************************************)
(* ssh_mcp/tunnel.py and its callers: tunnel_open and tunnel_close of      *)
(* handle_process (ssh_mcp/handlers/process.py), and the end of the server *)
(* (ssh_mcp/server.py).                                                    *)
(*                                                                         *)
(* The handlers run on the event loop; each tunnel has a thread that       *)
(* accepts connections and each connection two that copy data.  accept     *)
(* polls for half a second: closing the socket meanwhile frees the port    *)
(* only when the poll ends.                                                *)
(***************************************************************************)
EXTENDS Integers

CONSTANTS
  Port,            \* local ports
  Tunnel,          \* Tunnel objects, each made by one call of tunnel_open
  Peer,            \* local connections, each to one tunnel
  NoTunnel

ASSUME TunnelsAssumption == NoTunnel \notin Tunnel

VARIABLES
  tunnels,         \* ctx.tunnels
  tun,             \* the tunnel of each call of tunnel_open: port, place, transport
  peer             \* each local connection: tunnel, its two pipes, chunks sent late

tunnelVars == <<tunnels, tun, peer>>

\* pipe: from the local socket to the channel, and back.
Way == {"out", "back"}

TunnelsInit ==
  /\ tunnels = [p \in Port |-> NoTunnel]
  /\ tun \in [Tunnel -> [port : Port, at : {"none"}, alive : {TRUE}]]
  /\ peer = [k \in Peer |-> [of |-> NoTunnel, pipe |-> [w \in Way |-> "none"],
                             late |-> [w \in Way |-> 0]]]

TunMoves(t, place) == tun' = [tun EXCEPT ![t].at = place]

Stopped(t) == tun[t].at \in {"stopped", "gone"}

\* Opened and not closed.  A deaf tunnel has its socket, and no thread that accepts.
Open == {"listening", "deaf"}

\* Who has the port: an open tunnel, or one whose last poll has not ended.
Bound(p) == \E t \in Tunnel : tun[t].port = p /\ tun[t].at \in Open \cup {"stopped"}

\* stop(): the port is free at once if no thread polls the socket.
Stops(place) == IF place = "deaf" THEN "gone" ELSE "stopped"

-----------------------------------------------------------------------------

\* tunnel_open as far as the await of get_session.
TunnelAsked(t) ==
  /\ tun[t].at = "none"
  /\ tunnels[tun[t].port] = NoTunnel
  /\ TunMoves(t, "asked")
  /\ UNCHANGED <<tunnels, peer>>

\* A fault: the table is written before the socket is bound.
OpenedUnbound(t) ==
  /\ tun[t].at = "asked"
  /\ tunnels' = [tunnels EXCEPT ![tun[t].port] = t]
  /\ TunMoves(t, IF Bound(tun[t].port) THEN "failed" ELSE "listening")
  /\ UNCHANGED peer

TunnelOpened(t) ==
  /\ tun[t].at = "asked"
  /\ ~Bound(tun[t].port)
  /\ tunnels' = [tunnels EXCEPT ![tun[t].port] = t]
  /\ TunMoves(t, "listening")
  /\ UNCHANGED peer

\* No session, no transport, or bind raises OSError: the port may also be in use by
\* another program.
TunnelNotOpened(t) ==
  /\ tun[t].at = "asked"
  /\ TunMoves(t, "failed")
  /\ UNCHANGED <<tunnels, peer>>

\* tunnel_close: pop and stop.
TunnelClosed(p) ==
  /\ tunnels[p] # NoTunnel
  /\ tunnels' = [tunnels EXCEPT ![p] = NoTunnel]
  /\ TunMoves(tunnels[p], Stops(tun[tunnels[p]].at))
  /\ UNCHANGED peer

\* The end of SSHMCPServer.run: tool calls have been cancelled before.
ServerEnds ==
  /\ tunnels' = [p \in Port |-> NoTunnel]
  /\ tun' = [t \in Tunnel |->
       [tun[t] EXCEPT !.at = IF @ \in Open THEN Stops(@)
                             ELSE IF @ \in {"none", "asked"} THEN "failed" ELSE @]]
  /\ UNCHANGED peer

\* The accept thread of a stopped tunnel ends, and the port is free.
PollEnds(t) ==
  /\ tun[t].at = "stopped"
  /\ TunMoves(t, "gone")
  /\ UNCHANGED <<tunnels, peer>>

\* accept raises OSError in a tunnel that nobody stopped (there are no more file
\* descriptors, say): its thread ends, and nobody is told.
AcceptFails(t) ==
  /\ tun[t].at = "listening"
  /\ TunMoves(t, "deaf")
  /\ UNCHANGED <<tunnels, peer>>

-----------------------------------------------------------------------------
(* Connections.                                                            *)

\* A connection is accepted and its channel opened.  stop() may come between the test
\* of _stop and the accept: then the thread ends after this one.
Accept(k, t) ==
  /\ peer[k].of = NoTunnel
  /\ tun[t].at \in {"listening", "stopped"} /\ tun[t].alive
  /\ peer' = [peer EXCEPT ![k].of = t,
                ![k].pipe = [w \in Way |-> IF Stopped(t) THEN "ended" ELSE "reading"]]
  /\ TunMoves(t, IF Stopped(t) THEN "gone" ELSE "listening")
  /\ UNCHANGED tunnels

\* recv has data, or the end of its side.
PipeReads(k, w) ==
  /\ peer[k].pipe[w] = "reading"
  /\ \E next \in {"writing", "ended"} : peer' = [peer EXCEPT ![k].pipe[w] = next]
  /\ UNCHANGED <<tunnels, tun>>

\* A fault: the copying does not look at _stop.
PipeWritesOn(k, w) ==
  LET t == peer[k].of IN
  /\ peer[k].pipe[w] = "writing"
  /\ peer' = IF ~tun[t].alive THEN [peer EXCEPT ![k].pipe[w] = "ended"]
             ELSE [peer EXCEPT ![k].pipe[w] = "reading",
                               ![k].late[w] = IF Stopped(t) /\ @ < 2 THEN @ + 1 ELSE @]
  /\ UNCHANGED <<tunnels, tun>>

\* sendall, which raises if the other side is closed, and the test of _stop.
PipeWrites(k, w) ==
  LET t == peer[k].of IN
  /\ peer[k].pipe[w] = "writing"
  /\ peer' = IF ~tun[t].alive THEN [peer EXCEPT ![k].pipe[w] = "ended"]
             ELSE [peer EXCEPT ![k].pipe[w] = IF Stopped(t) THEN "ended" ELSE "reading",
                               ![k].late[w] = IF Stopped(t) /\ @ < 2 THEN @ + 1 ELSE @]
  /\ UNCHANGED <<tunnels, tun>>

\* The session is closed or rebuilt: the transport the tunnel keeps is dead.
TunnelTransportDies(t) ==
  /\ tun[t].at \in Open \cup {"stopped"} /\ tun[t].alive
  /\ tun' = [tun EXCEPT ![t].alive = FALSE]
  /\ UNCHANGED <<tunnels, peer>>

TunnelsNext ==
  \/ \E t \in Tunnel :
       \/ TunnelAsked(t) \/ TunnelOpened(t) \/ TunnelNotOpened(t) \/ PollEnds(t)
       \/ AcceptFails(t) \/ TunnelTransportDies(t)
       \/ \E k \in Peer : Accept(k, t)
  \/ \E p \in Port : TunnelClosed(p)
  \/ ServerEnds
  \/ \E k \in Peer, w \in Way : PipeReads(k, w) \/ PipeWrites(k, w)

TunnelsSpec == TunnelsInit /\ [][TunnelsNext]_tunnelVars

-----------------------------------------------------------------------------

TunnelsTypeOK ==
  /\ tunnels \in [Port -> Tunnel \cup {NoTunnel}]
  /\ tun \in [Tunnel -> [port : Port, alive : BOOLEAN,
                         at : {"none", "asked", "failed", "listening", "deaf", "stopped", "gone"}]]
  /\ peer \in [Peer -> [of : Tunnel \cup {NoTunnel}, late : [Way -> 0 .. 2],
                        pipe : [Way -> {"none", "reading", "writing", "ended"}]]]

\* The table has the tunnels that hold their port and were not closed, and no other,
\* although two calls for one port both find it absent before they await the session:
\* every such tunnel can be closed by its port, and every one listed is there.
TableIsTrue ==
  /\ \A t \in Tunnel : tun[t].at \in Open <=> tunnels[tun[t].port] = t
  /\ \A p \in Port : tunnels[p] # NoTunnel => tun[tunnels[p]].port = p

\* A closed tunnel lets at most one more chunk through in each direction of a
\* connection.
ClosedTunnelDries == \A k \in Peer, w \in Way : peer[k].late[w] <= 1
=============================================================================
