-------------------------------- MODULE Watchdog --------------------------------
(***************************************************************************)
(* ssh_mcp/watchdog.py: Watchdog, which reports the registered tasks that  *)
(* have sent no heartbeat for longer than their timeout.                   *)
(*                                                                         *)
(* start, stop and the monitor loop run on the event loop; its await in    *)
(* the middle of a scan does not suspend, so a scan is not interrupted     *)
(* there.  Tasks are registered, kept alive and unregistered from threads  *)
(* too, which come between the steps of a scan that hold _task_lock.       *)
(***************************************************************************)
EXTENDS Integers, FiniteSets

CONSTANTS
  WdTask,          \* task ids
  Monitor,         \* the monitor loops that start() creates; ended ones are used again
  NoMonitor

ASSUME WatchdogAssumption == NoMonitor \notin Monitor

VARIABLES
  wdRunning,       \* _status is RUNNING
  wdShutdown,      \* _shutdown_event
  wdCurrent,       \* _monitor_task
  wdLoop,          \* where each monitor loop stands
  wdTask,          \* the entry of each id in _tasks, and whether it is overdue
  wdTodo,          \* timeout_tasks of the scan
  wdLooked         \* the id that _handle_timeout is about to pop, as a set

watchdogVars == <<wdRunning, wdShutdown, wdCurrent, wdLoop, wdTask, wdTodo, wdLooked>>
wdControl == <<wdRunning, wdShutdown, wdCurrent>>

WatchdogInit ==
  /\ wdRunning = FALSE
  /\ wdShutdown = FALSE
  /\ wdCurrent = NoMonitor
  /\ wdLoop = [m \in Monitor |-> "none"]
  /\ wdTask = [i \in WdTask |-> "absent"]
  /\ wdTodo = {}
  /\ wdLooked = {}

\* The event loop is not in the middle of a scan.
LoopFree == \A m \in Monitor : wdLoop[m] # "scanning"

Watch ==
  /\ LoopFree /\ ~wdRunning
  /\ wdRunning' = TRUE
  /\ wdShutdown' = FALSE
  /\ \E m \in Monitor :
       /\ wdLoop[m] = "none"
       /\ wdLoop' = [wdLoop EXCEPT ![m] = "asleep"]
       /\ wdCurrent' = m
  /\ UNCHANGED <<wdTask, wdTodo, wdLooked>>

\* A fault: the loop is left to notice the event by itself.
UnwatchByEvent ==
  /\ LoopFree
  /\ wdRunning' = FALSE
  /\ wdShutdown' = TRUE
  /\ wdCurrent' = NoMonitor
  /\ UNCHANGED <<wdLoop, wdTask, wdTodo, wdLooked>>

\* stop: the sleep of the loop will raise CancelledError.
Unwatch ==
  /\ LoopFree
  /\ wdRunning' = FALSE
  /\ wdShutdown' = TRUE
  /\ wdLoop' = [m \in Monitor |-> IF m = wdCurrent THEN "cancelled" ELSE wdLoop[m]]
  /\ wdCurrent' = NoMonitor
  /\ UNCHANGED <<wdTask, wdTodo, wdLooked>>

MonitorCancelled(m) ==
  /\ LoopFree
  /\ wdLoop[m] = "cancelled"
  /\ wdLoop' = [wdLoop EXCEPT ![m] = "none"]
  /\ UNCHANGED <<wdControl, wdTask, wdTodo, wdLooked>>

\* The sleep is over: _check_timeouts collects the ids that are overdue.
MonitorScans(m) ==
  /\ LoopFree
  /\ wdLoop[m] = "asleep"
  /\ wdLoop' = [wdLoop EXCEPT ![m] = "scanning"]
  /\ wdTodo' = {i \in WdTask : wdTask[i] = "overdue"}
  /\ UNCHANGED <<wdControl, wdTask, wdLooked>>

\* _handle_timeout: the entry is looked up, logged and given to the callbacks.
MonitorLooks(m, i) ==
  /\ wdLoop[m] = "scanning"
  /\ wdLooked = {} /\ i \in wdTodo
  /\ wdTodo' = wdTodo \ {i}
  /\ wdLooked' = IF wdTask[i] = "absent" THEN {} ELSE {i}
  /\ UNCHANGED <<wdControl, wdLoop, wdTask>>

\* Whatever the entry is by now, one registered again since included.
MonitorPops(m, i) ==
  /\ wdLoop[m] = "scanning"
  /\ i \in wdLooked
  /\ wdTask' = [wdTask EXCEPT ![i] = "absent"]
  /\ wdLooked' = {}
  /\ UNCHANGED <<wdControl, wdLoop, wdTodo>>

\* A fault: the loop is left after a scan.
MonitorSleepsForGood(m) ==
  /\ wdLoop[m] = "scanning" /\ wdTodo = {} /\ wdLooked = {}
  /\ wdLoop' = [wdLoop EXCEPT ![m] = "none"]
  /\ UNCHANGED <<wdControl, wdTask, wdTodo, wdLooked>>

MonitorSleeps(m) ==
  /\ wdLoop[m] = "scanning" /\ wdTodo = {} /\ wdLooked = {}
  /\ wdLoop' = [wdLoop EXCEPT ![m] = IF wdShutdown THEN "none" ELSE "asleep"]
  /\ UNCHANGED <<wdControl, wdTask, wdTodo, wdLooked>>

RegisterTask(i) ==
  /\ wdTask' = [wdTask EXCEPT ![i] = "present"]
  /\ UNCHANGED <<wdControl, wdLoop, wdTodo, wdLooked>>

\* update_task_heartbeat and update_task_progress
Heartbeat(i) ==
  /\ wdTask[i] # "absent"
  /\ wdTask' = [wdTask EXCEPT ![i] = "present"]
  /\ UNCHANGED <<wdControl, wdLoop, wdTodo, wdLooked>>

UnregisterTask(i) ==
  /\ wdTask' = [wdTask EXCEPT ![i] = "absent"]
  /\ UNCHANGED <<wdControl, wdLoop, wdTodo, wdLooked>>

\* More than its timeout has passed since its last heartbeat.
GoesOverdue(i) ==
  /\ wdTask[i] = "present"
  /\ wdTask' = [wdTask EXCEPT ![i] = "overdue"]
  /\ UNCHANGED <<wdControl, wdLoop, wdTodo, wdLooked>>

MonitorStep(m) ==
  \/ MonitorCancelled(m) \/ MonitorScans(m) \/ MonitorSleeps(m)
  \/ \E i \in WdTask : MonitorLooks(m, i) \/ MonitorPops(m, i)

WatchdogNext ==
  \/ Watch \/ Unwatch
  \/ \E m \in Monitor : MonitorStep(m)
  \/ \E i \in WdTask : RegisterTask(i) \/ Heartbeat(i) \/ UnregisterTask(i) \/ GoesOverdue(i)

WatchdogSpec == WatchdogInit /\ [][WatchdogNext]_watchdogVars

-----------------------------------------------------------------------------

WatchdogTypeOK ==
  /\ wdRunning \in BOOLEAN
  /\ wdShutdown \in BOOLEAN
  /\ wdCurrent \in Monitor \cup {NoMonitor}
  /\ wdLoop \in [Monitor -> {"none", "asleep", "scanning", "cancelled"}]
  /\ wdTask \in [WdTask -> {"absent", "present", "overdue"}]
  /\ wdTodo \subseteq WdTask
  /\ wdLooked \subseteq WdTask

\* While the watchdog runs one loop monitors, and none after it was stopped: although
\* start() clears the event that an earlier loop would have to see, no loop survives a
\* stop() that is followed at once by a start().
OneMonitor ==
  {m \in Monitor : wdLoop[m] \in {"asleep", "scanning"}} =
    (IF wdRunning THEN {wdCurrent} ELSE {})

\* A task that falls silent is reported and taken off while the watchdog runs.
SilentReported ==
  \A i \in WdTask : wdTask[i] = "overdue" /\ wdRunning ~> wdTask[i] # "overdue" \/ ~wdRunning
=============================================================================
