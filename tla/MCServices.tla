------------------------------ MODULE MCServices ------------------------------
(***************************************************************************)
(* The parts around the session manager and the command calls, on small    *)
(* instances, in one run.  They share no variable, so each behaviour       *)
(* follows one of them (part) and leaves the others in a fixed initial     *)
(* state: a property of one part holds of the system if it holds there.    *)
(***************************************************************************)
EXTENDS RateLimiter, Workers, Tunnels, Watchdog, HostsFile, BatchExecutor, Service, TLC

CONSTANTS
  Parts,       \* the parts that a run follows
  c1, c2, k1, k2, h1, h2, r1, r2, t1, t2, p1

VARIABLE part

MCConn == {c1, c2}
MCCmd == {k1, k2}
\* Both commands on one connection: their time-outs take a thread each.
MCConnOf == k1 :> c1 @@ k2 :> c1
MCClock == 0 .. 3
MCRow == {r1, r2}
MCRowKey == r1 :> h1 @@ r2 :> h2
MCTunnel == {t1, t2}

partVars == <<part, rateVars, workersVars, tunnelVars, watchdogVars, hostsVars, batchVars,
              serviceVars>>

MCInit ==
  /\ part \in Parts
  /\ RateInit /\ WorkersInit /\ TunnelsInit /\ WatchdogInit /\ HostsInit /\ BatchInit
  /\ ServiceInit
  /\ part # "rate" => limited
  /\ part # "workers" => exits = {}
  /\ part # "tunnels" => \A t \in Tunnel : tun[t].port = p1

RatePart ==
  /\ part = "rate" /\ RateNext
  /\ UNCHANGED <<part, workersVars, tunnelVars, watchdogVars, hostsVars, batchVars, serviceVars>>
WorkersPart ==
  /\ part = "workers" /\ WorkersNext
  /\ UNCHANGED <<part, rateVars, tunnelVars, watchdogVars, hostsVars, batchVars, serviceVars>>
TunnelsPart ==
  /\ part = "tunnels" /\ TunnelsNext
  /\ UNCHANGED <<part, rateVars, workersVars, watchdogVars, hostsVars, batchVars, serviceVars>>
WatchdogPart ==
  /\ part = "watchdog" /\ WatchdogNext
  /\ UNCHANGED <<part, rateVars, workersVars, tunnelVars, hostsVars, batchVars, serviceVars>>
HostsPart ==
  /\ part = "hosts" /\ HostsNext
  /\ UNCHANGED <<part, rateVars, workersVars, tunnelVars, watchdogVars, batchVars, serviceVars>>
BatchPart ==
  /\ part = "batch" /\ BatchNext
  /\ UNCHANGED <<part, rateVars, workersVars, tunnelVars, watchdogVars, hostsVars, serviceVars>>
ServicePart ==
  /\ part = "service" /\ ServiceNext
  /\ UNCHANGED <<part, rateVars, workersVars, tunnelVars, watchdogVars, hostsVars, batchVars>>

MCNext ==
  \/ RatePart \/ WorkersPart \/ TunnelsPart \/ WatchdogPart \/ HostsPart \/ BatchPart
  \/ ServicePart

MCSpec == MCInit /\ [][MCNext]_partVars

\* The threads of the pool run, and the watchdog's loop wakes up, in the behaviours that
\* follow them.
MCFairSpec ==
  /\ MCSpec
  /\ WF_workersVars(part = "workers" /\ WorkersStep)
  /\ \A m \in Monitor : WF_watchdogVars(part = "watchdog" /\ MonitorStep(m))

\* Every variable has its type.
TypesOK ==
  /\ RateTypeOK /\ WorkersTypeOK /\ TunnelsTypeOK /\ WatchdogTypeOK /\ HostsTypeOK
  /\ BatchTypeOK /\ ServiceTypeOK

=============================================================================
