---------------------------- MODULE MCCommandCalls ----------------------------
(* The instance of CommandCalls that TLC checks: commands of each kind the   *)
(* policy tells apart, and the arguments that matter for each entry.         *)
EXTENDS CommandCalls, TLC

CONSTANTS c1, c2, data, logs

MCCall == {c1, c2}
MCName == {data, logs}
MCCode == {0, 3}

\* uptime: in the strict and base lists, safe.
Plain ==
  [lists |-> {"strict", "base"}, signs |-> {}, risk |-> "safe",
   catastrophic |-> FALSE, blacklisted |-> FALSE, launchBlocked |-> FALSE,
   keyword |-> FALSE, long |-> FALSE, parses |-> TRUE,
   server |-> FALSE, leaves |-> FALSE, parts |-> <<>>]

Server == [Plain EXCEPT !.lists = {"base"}, !.server = TRUE]       \* nginx
Exits == [Server EXCEPT !.leaves = TRUE]                           \* bash with an exit
Wipe == [Plain EXCEPT !.lists = {"base", "extended"}, !.risk = "critical",
                      !.catastrophic = TRUE, !.blacklisted = TRUE,
                      !.launchBlocked = TRUE]                      \* rm -rf /data
Reboot == [Plain EXCEPT !.lists = {"base", "extended"}, !.risk = "high"]
KillAll == [Plain EXCEPT !.lists = {"base"}, !.blacklisted = TRUE] \* killall -9 x
Chain == [Plain EXCEPT !.lists = {"base"}, !.signs = {"ampersand"}] \* cd x && docker build
Rm == [Plain EXCEPT !.lists = {"base", "extended"}, !.parts = <<{data}>>]
RmTwo == [Rm EXCEPT !.parts = <<{data, logs}>>]
RmBoth == [Rm EXCEPT !.signs = {"semicolon"}, !.parts = <<{data}, {logs}>>]

Call1 ==
  [entry |-> "execute", cmd |-> Plain, confirm |-> FALSE, layer |-> 1,
   background |-> "auto", backup |-> "unset", wait |-> FALSE, kind |-> "nohup",
   workdir |-> "tmp", ownLog |-> FALSE, pathsOk |-> TRUE, sudo |-> "no", about |-> c1]

Policy ==
  { [Call1 EXCEPT !.cmd = Wipe, !.confirm = TRUE, !.layer = 3],
    [Call1 EXCEPT !.cmd = Wipe],
    [Call1 EXCEPT !.cmd = Wipe, !.entry = "start"],
    [Call1 EXCEPT !.cmd = Wipe, !.entry = "direct"],
    [Call1 EXCEPT !.cmd = Reboot, !.confirm = TRUE, !.layer = 1],
    [Call1 EXCEPT !.cmd = Reboot, !.confirm = TRUE, !.layer = 2],
    [Call1 EXCEPT !.cmd = KillAll, !.entry = "direct"],
    [Call1 EXCEPT !.cmd = Chain, !.entry = "start"],
    [Call1 EXCEPT !.sudo = "nopassword"],
    [Call1 EXCEPT !.background = "yes", !.pathsOk = FALSE] }

Deletions ==
  { [Call1 EXCEPT !.cmd = Rm, !.background = bg, !.backup = b, !.workdir = w] :
      bg \in {"auto", "yes"}, b \in {"unset", "yes", "no"}, w \in {"home", "tmp"} }
  \cup { [Call1 EXCEPT !.cmd = RmBoth, !.backup = "yes"] }
  \cup { [Call1 EXCEPT !.cmd = RmTwo, !.backup = "yes", !.background = bg, !.workdir = "home"] :
           bg \in {"auto", "yes"} }

Tasks ==
  { [Call1 EXCEPT !.cmd = Server, !.wait = w] : w \in BOOLEAN }
  \cup { [Call1 EXCEPT !.cmd = Exits, !.wait = TRUE, !.ownLog = TRUE],
         [Call1 EXCEPT !.cmd = Server, !.workdir = "missing"] }
  \cup { [Call1 EXCEPT !.cmd = Server, !.kind = "screen", !.wait = w] : w \in BOOLEAN }

Observers == { [Call1 EXCEPT !.entry = e] : e \in {"stop", "status"} }

Pairs(R1, R2) == { c1 :> r1 @@ c2 :> r2 : r1 \in R1, r2 \in R2 }

\* Calls that can meet on the host: deletions of the same files, tasks and the
\* calls that stop and look at them.
MCScenario ==
  Pairs(Policy, {Call1})
  \cup Pairs(Deletions, { d \in Deletions : d.cmd = RmTwo })
  \cup Pairs(Tasks, Observers)

\* Two tasks that are waited for, with the default logs file.
TwoTasks == Pairs({[Call1 EXCEPT !.cmd = Server, !.wait = TRUE]},
                  {[Call1 EXCEPT !.cmd = Server, !.wait = TRUE]})

=============================================================================
