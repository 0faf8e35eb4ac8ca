-------------------------------- MODULE Service --------------------------------
(***************************************************************************)
(* ssh_mcp/service.py: SSHService, over ParamikoClient.connect and close   *)
(* (ssh_mcp/clients/paramiko_client.py).                                   *)
(*                                                                         *)
(* connect gives the timeout of the configuration to submit(), which does  *)
(* not hand it on to the client: when submit gives up, the thread of the   *)
(* client goes on and may still open the connection.  disconnect takes the *)
(* client out of its table, awaits its close and then takes the session out*)
(* of the other table.                                                     *)
(***************************************************************************)
EXTENDS Integers

CONSTANTS
  SvcId,           \* session ids
  Leaver           \* concurrent calls of disconnect, those of disconnect_all included

VARIABLES
  svcSessions,     \* _sessions, with is_connected
  svcClients,      \* _clients
  svcConnect,      \* the call of connect that made each id
  svcLine,         \* the connection of each client
  leaver           \* the id each call of disconnect closes, as a set

serviceVars == <<svcSessions, svcClients, svcConnect, svcLine, leaver>>

ServiceInit ==
  /\ svcSessions = [s \in SvcId |-> "absent"]
  /\ svcClients = {}
  /\ svcConnect = [s \in SvcId |-> "none"]
  /\ svcLine = [s \in SvcId |-> "none"]
  /\ leaver = [d \in Leaver |-> {}]

ConnectBegins(s) ==
  /\ svcConnect[s] = "none"
  /\ svcConnect' = [svcConnect EXCEPT ![s] = "connecting"]
  /\ svcLine' = [svcLine EXCEPT ![s] = "opening"]
  /\ UNCHANGED <<svcSessions, svcClients, leaver>>

\* The thread: client.connect opens the connection or returns a failure.
LineOpens(s) ==
  /\ svcLine[s] = "opening"
  /\ \E line \in {"open", "failed"} : svcLine' = [svcLine EXCEPT ![s] = line]
  /\ UNCHANGED <<svcSessions, svcClients, svcConnect, leaver>>

\* submit gives up, whether the connection has been opened or not.
ConnectTimesOut(s) ==
  /\ svcConnect[s] = "connecting"
  /\ svcConnect' = [svcConnect EXCEPT ![s] = "gaveup"]
  /\ UNCHANGED <<svcSessions, svcClients, svcLine, leaver>>

ConnectReturns(s) ==
  /\ svcConnect[s] = "connecting" /\ svcLine[s] \in {"open", "failed", "down"}
  /\ IF svcLine[s] = "failed"
       THEN /\ svcConnect' = [svcConnect EXCEPT ![s] = "raised"]
            /\ UNCHANGED <<svcSessions, svcClients>>
       ELSE /\ svcConnect' = [svcConnect EXCEPT ![s] = "connected"]
            /\ svcSessions' = [svcSessions EXCEPT ![s] = "connected"]
            /\ svcClients' = svcClients \cup {s}
  /\ UNCHANGED <<svcLine, leaver>>

\* A fault: the session is taken out first, and a close that is refused ends the call.
LeaveForgets(d, s) ==
  /\ leaver[d] = {} /\ svcSessions[s] # "absent"
  /\ svcSessions' = [svcSessions EXCEPT ![s] = "absent"]
  /\ UNCHANGED <<svcClients, svcConnect, svcLine, leaver>>

\* disconnect as far as the await of the close; without a client it returns at once.
LeaveBegins(d, s) ==
  /\ leaver[d] = {} /\ svcSessions[s] # "absent"
  /\ IF s \in svcClients
       THEN /\ svcClients' = svcClients \ {s}
            /\ leaver' = [leaver EXCEPT ![d] = {s}]
            /\ UNCHANGED svcSessions
       ELSE /\ svcSessions' = [svcSessions EXCEPT ![s] = "absent"]
            /\ UNCHANGED <<svcClients, leaver>>
  /\ UNCHANGED <<svcConnect, svcLine>>

\* The client is closed.
LeaveEnds(d) ==
  \E s \in leaver[d] :
    /\ svcLine' = [svcLine EXCEPT ![s] = "closed"]
    /\ svcSessions' = [svcSessions EXCEPT ![s] = "absent"]
    /\ leaver' = [leaver EXCEPT ![d] = {}]
    /\ UNCHANGED <<svcClients, svcConnect>>

\* execute_command that finds no client or a dead one, and health_check with a bad
\* result or an exception.
MarkDisconnected(s) ==
  /\ svcSessions[s] = "connected"
  /\ svcSessions' = [svcSessions EXCEPT ![s] = "disconnected"]
  /\ UNCHANGED <<svcClients, svcConnect, svcLine, leaver>>

\* health_check: the result of a command that was sent before, for a session that is
\* still in the table.
MarkHealthy(s) ==
  /\ svcSessions[s] = "disconnected"
  /\ svcSessions' = [svcSessions EXCEPT ![s] = "connected"]
  /\ UNCHANGED <<svcClients, svcConnect, svcLine, leaver>>

LineDies(s) ==
  /\ svcLine[s] = "open"
  /\ svcLine' = [svcLine EXCEPT ![s] = "down"]
  /\ UNCHANGED <<svcSessions, svcClients, svcConnect, leaver>>

ServiceNext ==
  \/ \E s \in SvcId :
       \/ ConnectBegins(s) \/ LineOpens(s) \/ ConnectTimesOut(s) \/ ConnectReturns(s)
       \/ MarkDisconnected(s) \/ MarkHealthy(s) \/ LineDies(s)
       \/ \E d \in Leaver : LeaveBegins(d, s)
  \/ \E d \in Leaver : LeaveEnds(d)

ServiceSpec == ServiceInit /\ [][ServiceNext]_serviceVars

-----------------------------------------------------------------------------

ServiceTypeOK ==
  /\ svcSessions \in [SvcId -> {"absent", "connected", "disconnected"}]
  /\ svcClients \subseteq SvcId
  /\ svcConnect \in [SvcId -> {"none", "connecting", "gaveup", "raised", "connected"}]
  /\ svcLine \in [SvcId -> {"none", "opening", "open", "failed", "down", "closed"}]
  /\ leaver \in [Leaver -> SUBSET SvcId]

\* An open connection can be closed by its session id, or it is being closed, or it has
\* no id yet: several disconnects of one session at once included.  What a connect that
\* timed out leaves open is the exception.
ConnectionsOwned ==
  \A s \in SvcId : svcLine[s] = "open" =>
    \/ s \in svcClients /\ svcSessions[s] # "absent"
    \/ \E d \in Leaver : s \in leaver[d]
    \/ svcConnect[s] \in {"connecting", "gaveup"}
=============================================================================
