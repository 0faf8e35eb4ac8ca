----------------------------- MODULE CommandCalls -----------------------------
(***************************************************************************)
(* The tool calls that run commands on a host: ssh_execute with its guards,*)
(* backups and background tasks, ssh_process start, stop and status, the   *)
(* docker build, and the commands of ssh_session and ssh_connect           *)
(* (ssh_mcp/handlers/execute.py, process.py, session.py, docker.py), over  *)
(* what they leave on the remote host: processes, the files of a task, the *)
(* files that commands delete, and the backups.                            *)
(*                                                                         *)
(* A call is a coroutine; an action is what it does between two awaits,    *)
(* with what the remote shell does for it in between.  The line that       *)
(* starts a task makes two shells on the host, which go on by themselves.  *)
(* A remote step may take effect without the call hearing of it: submit    *)
(* times out and raises, or the connection is lost, and the step has the   *)
(* exit code -1 and no output.  SessionManager says what sessions do       *)
(* meanwhile; here a session is there or it is not.                        *)
(***************************************************************************)
EXTENDS CommandPolicy, Integers

CONSTANTS
  Call,          \* tool calls; the task a call starts is known by its name
  Scenario,      \* functions from Call to the arguments the calls come with
  Code,          \* exit codes of commands, 0 among them
  WaitRounds     \* wait_timeout / interval of wait_for_task_completion

Dir == {"home", "tmp"}
File == Dir \X Name
NoCode == -1

\* entry: the tool.  backup: the argument backup_before_delete.  kind: session_type.
\* workdir "missing": cd fails.  ownLog: log_file is not the default, which all tasks
\* share.  about: the task that stop and status name.
RequestType ==
  [entry : {"execute", "start", "direct", "stop", "status"}, cmd : Command,
   confirm : BOOLEAN, layer : 1 .. 3,
   background : {"auto", "yes", "no"}, backup : {"unset", "yes", "no"},
   wait : BOOLEAN, kind : {"nohup", "screen"}, workdir : Dir \cup {"missing"},
   ownLog : BOOLEAN, pathsOk : BOOLEAN, sudo : {"no", "password", "nopassword"}, about : Call]

ASSUME CallAssumption ==
  /\ Scenario \subseteq [Call -> RequestType]
  /\ Code \subseteq Nat
  /\ 0 \in Code
  /\ WaitRounds \in Nat

VARIABLES
  level,         \* SSH_SECURITY_LEVEL of this server
  call,          \* the await each call is at, and its local variables
  task,          \* what the task a call started is on the host
  log,           \* the task that opened the default log file last
  files,         \* files on the host
  saved,         \* the files that the backup of each call copied
  removed,       \* the files that the command of each call deleted
  ran            \* the calls whose command has started on the host

vars == <<level, call, task, log, files, saved, removed, ran>>
host == <<task, log, files, saved, removed, ran>>

\* A task is a shell, whose process id the pid file gets, and the command the shell
\* waits for.  exitFile is what "echo $?" after the command wrote, code what the
\* command ended with.
NoTask == [shell |-> "none", cmd |-> "none", pidFile |-> FALSE, exitFile |-> NoCode,
           code |-> NoCode]

Init ==
  /\ level \in Level
  /\ \E r \in Scenario :
       call = [c \in Call |-> [at |-> "idle", req |-> r[c], left |-> 0, code |-> NoCode,
                               output |-> {}, answer |-> "none"]]
  /\ task = [c \in Call |-> NoTask]
  /\ log = {}
  /\ \E missing \in SUBSET Name : files = File \ ({"home"} \X missing)
  /\ saved = [c \in Call |-> {}]
  /\ removed = [c \in Call |-> {}]
  /\ ran = {}

At(c, await) == call[c].at = await
Req(c) == call[c].req
Cmd(c) == call[c].req.cmd

Goto(c, await) == call' = [call EXCEPT ![c].at = await]

\* The call returns its text.
Answer(c, text) == call' = [call EXCEPT ![c].at = "done", ![c].answer = text]

\* A remote step that had its effect: the call goes on if it hears of it.  If not,
\* it raises, or says what it says of the exit code -1 and no output.
Heard(c, heard, next, unheard) ==
  IF heard THEN next ELSE \E text \in {"error", unheard} : Answer(c, text)

-----------------------------------------------------------------------------
(* Guards.                                                                 *)

RunsInBackground(r) ==
  \/ r.entry = "start"
  \/ r.entry = "execute" /\ Background(r.cmd, r.background)

\* The guards of handle_execute before it awaits anything but the session, and
\* the one guard of the other entries, in their order; "none" when all pass.
Refusal(r) ==
  IF r.entry = "execute"
    THEN IF ~Confirmed(r.cmd, r.confirm, r.layer) THEN "confirm"
         ELSE IF HardBlocked(r.cmd) THEN "hard"
         ELSE IF ~Valid(level, r.cmd) THEN "policy"
         ELSE IF IsDeletion(r.cmd) /\ r.backup = "unset" THEN "prompt"
         ELSE "none"
  ELSE IF r.entry = "direct" /\ ~Valid(level, r.cmd) THEN "policy"
  ELSE "none"

\* A fault: execute_background relies on its callers to validate.
LaunchUnchecked(r) ==
  IF ~r.pathsOk THEN "path"
  ELSE IF r.cmd.launchBlocked THEN "dangerous"
  ELSE "none"

\* The guards of execute_background, which handle_process and handle_docker call
\* without any of the above.
LaunchRefusal(r) ==
  IF ~Valid(level, r.cmd) THEN "policy"
  ELSE IF ~r.pathsOk THEN "path"
  ELSE IF r.cmd.launchBlocked THEN "dangerous"
  ELSE "none"

\* execute_background as far as its first await.
EnterLaunch(c) ==
  IF LaunchRefusal(Req(c)) = "none" THEN Goto(c, "launch")
  ELSE Answer(c, LaunchRefusal(Req(c)))

WantsBackup(r) == r.entry = "execute" /\ IsDeletion(r.cmd) /\ r.backup = "yes"

Start(c) ==
  /\ At(c, "idle")
  /\ Goto(c, "ensure")
  /\ UNCHANGED <<level, host>>

\* ensure_session has no session to offer.
NoSession(c) ==
  /\ At(c, "ensure")
  /\ Answer(c, "nosession")
  /\ UNCHANGED <<level, host>>

Refused(c) ==
  /\ At(c, "ensure")
  /\ Refusal(Req(c)) # "none"
  /\ Answer(c, Refusal(Req(c)))
  /\ UNCHANGED <<level, host>>

\* ssh_process stop and status.
LookUpTask(c) ==
  /\ At(c, "ensure")
  /\ Req(c).entry \in {"stop", "status"}
  /\ Goto(c, "pid")
  /\ UNCHANGED <<level, host>>

\* A command in the background: the deletion among them waits for its backup.
BackUpFirst(c) ==
  /\ At(c, "ensure")
  /\ Refusal(Req(c)) = "none"
  /\ RunsInBackground(Req(c)) /\ WantsBackup(Req(c))
  /\ Goto(c, "backup")
  /\ UNCHANGED <<level, host>>

LaunchAtOnce(c) ==
  /\ At(c, "ensure")
  /\ Refusal(Req(c)) = "none"
  /\ RunsInBackground(Req(c)) /\ ~WantsBackup(Req(c))
  /\ EnterLaunch(c)
  /\ UNCHANGED <<level, host>>

RunInForeground(c) ==
  /\ At(c, "ensure")
  /\ Refusal(Req(c)) = "none"
  /\ Req(c).entry \in {"execute", "direct"} /\ ~RunsInBackground(Req(c))
  /\ Goto(c, "run")
  /\ UNCHANGED <<level, host>>

\* get_session has nothing, or a remote step raises before it had an effect.
Fails(c) ==
  /\ call[c].at \in {"backup", "run", "launch", "probe", "waiting", "exit", "log", "pid", "kill"}
  /\ \E text \in {"nosession", "error"} :
       /\ text = "nosession" => call[c].at \in {"backup", "run"}
       /\ Answer(c, text)
  /\ UNCHANGED <<level, host>>

-----------------------------------------------------------------------------
(* Commands in the foreground, and backups.                                *)

InHome(names) == {"home"} \X names

\* The shell starts in the home directory: cp -a fails unless every target is there.
\* What it copies before it fails is not counted as saved.
BackupSucceeds(cmd) == TargetsAreFiles(cmd) /\ InHome(Targets(cmd)) \subseteq files

\* A fault: the exit code of the backup is not looked at.
BackupUnchecked(c) ==
  \E heard \in BOOLEAN :
    /\ At(c, "backup")
    /\ saved' = IF BackupSucceeds(Cmd(c))
                  THEN [saved EXCEPT ![c] = InHome(Targets(Cmd(c)))] ELSE saved
    /\ Heard(c, heard, EnterLaunch(c), "backupfailed")
    /\ UNCHANGED <<level, task, log, files, removed, ran>>

\* The backup of a deletion that will run in the background: a command of its own.
Backup(c) ==
  \E heard \in BOOLEAN :
    /\ At(c, "backup")
    /\ saved' = IF BackupSucceeds(Cmd(c))
                  THEN [saved EXCEPT ![c] = InHome(Targets(Cmd(c)))] ELSE saved
    /\ Heard(c, heard, IF BackupSucceeds(Cmd(c)) THEN EnterLaunch(c)
                       ELSE Answer(c, "backupfailed"), "backupfailed")
    /\ UNCHANGED <<level, task, log, files, removed, ran>>

\* A fault: the password is missed when the command has run.
NoSudoTooLate(c) ==
  /\ At(c, "run")
  /\ Req(c).entry = "execute" /\ Req(c).sudo = "nopassword"
  /\ Answer(c, "nosudo")
  /\ ran' = ran \cup {c}
  /\ UNCHANGED <<level, task, log, files, saved, removed>>

NoSudo(c) ==
  /\ At(c, "run")
  /\ Req(c).entry = "execute" /\ Req(c).sudo = "nopassword"
  /\ Answer(c, "nosudo")
  /\ UNCHANGED <<level, host>>

\* The parts of a line that run: in "backup && rm a; rm b" only the first part
\* depends on the backup.
PartsThatRun(c) ==
  IF WantsBackup(Req(c)) /\ ~BackupSucceeds(Cmd(c)) THEN Tail(Cmd(c).parts)
  ELSE Cmd(c).parts

Run(c) ==
  \E heard \in BOOLEAN :
    LET gone == InHome(Removes(PartsThatRun(c))) \cap files IN
    /\ At(c, "run")
    /\ ~(Req(c).entry = "execute" /\ Req(c).sudo = "nopassword")
    /\ ran' = IF PartsThatRun(c) = <<>> /\ Cmd(c).parts # <<>> THEN ran ELSE ran \cup {c}
    /\ saved' = IF WantsBackup(Req(c)) /\ BackupSucceeds(Cmd(c))
                  THEN [saved EXCEPT ![c] = InHome(Targets(Cmd(c)))] ELSE saved
    /\ removed' = [removed EXCEPT ![c] = gone]
    /\ files' = files \ gone
    /\ Heard(c, heard, Answer(c, "ran"), "ran")
    /\ UNCHANGED <<level, task, log>>

-----------------------------------------------------------------------------
(* Background tasks.                                                       *)

\* The shell opens the log file, which empties it, and runs the command.
CommandStarts(c) ==
  /\ ran' = ran \cup {c}
  /\ log' = IF Req(c).ownLog THEN log ELSE {c}

\* The task whose output is in the log file that a call reads.
Output(c) == IF Req(c).ownLog THEN {c} ELSE log

\* The line of the remote shell begins with a list "meta && cd && nohup ... &": it
\* forks a shell that runs the list.  What follows is WritePid and Probe.
Launch(c) ==
  /\ At(c, "launch")
  /\ Req(c).kind = "nohup"
  /\ task' = [task EXCEPT ![c].shell = "alive"]
  /\ Goto(c, "probe")
  /\ UNCHANGED <<level, log, files, saved, removed, ran>>

\* screen and tmux: no pid file, no exit file.  Any text on stderr counts as a
\* failure, and nothing else does.
LaunchScreen(c) ==
  \E heard, starts, stderr \in BOOLEAN :
    /\ At(c, "launch")
    /\ Req(c).kind = "screen"
    /\ starts => Req(c).workdir # "missing"
    /\ IF starts
         THEN /\ task' = [task EXCEPT ![c].cmd = "running"]
              /\ CommandStarts(c)
         ELSE UNCHANGED <<task, log, ran>>
    /\ IF ~heard THEN Answer(c, "error")
       ELSE IF stderr THEN Answer(c, "notstarted")
       ELSE IF ~Req(c).wait THEN Answer(c, "started")
       ELSE call' = [call EXCEPT ![c].at = "waiting", ![c].left = WaitRounds]
    /\ UNCHANGED <<level, files, saved, removed>>

Verdict(code) == IF code = 0 THEN "success" ELSE IF code > 0 THEN "failed" ELSE "abnormal"

\* The end of the remote line: ps, and the exit file if ps finds nothing.
Probe(c) ==
  /\ At(c, "probe")
  /\ task[c].pidFile
  /\ IF task[c].shell # "alive"
       THEN call' = [call EXCEPT ![c].at = "done", ![c].code = task[c].exitFile,
                                 ![c].output = Output(c),
                                 ![c].answer = Verdict(task[c].exitFile)]
     ELSE IF Req(c).wait /\ Req(c).entry = "execute"
       THEN call' = [call EXCEPT ![c].at = "waiting", ![c].left = WaitRounds]
     ELSE Answer(c, "started")
  /\ UNCHANGED <<level, host>>

\* The line ends without the word STATUS: its shell cannot write the pid file, or the
\* connection is lost.
ProbeUnheard(c) ==
  /\ At(c, "probe")
  /\ Answer(c, "notstarted")
  /\ UNCHANGED <<level, host>>

\* A fault: elapsed is not advanced.
StillRunningForever(c) ==
  /\ At(c, "waiting")
  /\ call[c].left > 0
  /\ UNCHANGED <<level, call, host>>

TaskAlive(c) == task[c].pidFile /\ task[c].shell = "alive"

\* A round of wait_for_task_completion: ps finds the shell, or says nothing because
\* the connection is lost.
StillRunning(c) ==
  \E heard \in BOOLEAN :
    /\ At(c, "waiting")
    /\ call[c].left > 0
    /\ heard => TaskAlive(c)
    /\ call' = [call EXCEPT ![c].left = @ - 1]
    /\ UNCHANGED <<level, host>>

SeemsEnded(c) ==
  /\ At(c, "waiting")
  /\ call[c].left > 0
  /\ ~TaskAlive(c)
  /\ Goto(c, "exit")
  /\ UNCHANGED <<level, host>>

WaitTimesOut(c) ==
  /\ At(c, "waiting")
  /\ call[c].left = 0
  /\ Answer(c, "stillrunning")
  /\ UNCHANGED <<level, host>>

\* A fault: a missing exit file reads as 0.
ReadExitAsZero(c) ==
  /\ At(c, "exit")
  /\ call' = [call EXCEPT ![c].at = "log",
                          ![c].code = IF task[c].exitFile = NoCode THEN 0 ELSE task[c].exitFile]
  /\ UNCHANGED <<level, host>>

\* No answer reads like no file.
ReadExit(c) ==
  \E code \in {task[c].exitFile, NoCode} :
    /\ At(c, "exit")
    /\ call' = [call EXCEPT ![c].at = "log", ![c].code = code]
    /\ UNCHANGED <<level, host>>

ReadLog(c) ==
  \E output \in {Output(c), {}} :
    /\ At(c, "log")
    /\ call' = [call EXCEPT ![c].at = "done", ![c].answer = "waited", ![c].output = output]
    /\ UNCHANGED <<level, host>>

\* stop and status with a task id: first the pid file, then kill or ps.
ReadPid(c) ==
  \E heard \in BOOLEAN :
    /\ At(c, "pid")
    /\ IF heard /\ task[Req(c).about].pidFile THEN Goto(c, "kill") ELSE Answer(c, "nopid")
    /\ UNCHANGED <<level, host>>

\* The process with that id is the shell of the list, not the command.
Kill(c) ==
  \E heard \in BOOLEAN :
    LET t == Req(c).about IN
    /\ At(c, "kill")
    /\ Req(c).entry = "stop"
    /\ task' = IF task[t].shell = "alive" THEN [task EXCEPT ![t].shell = "killed"] ELSE task
    /\ Heard(c, heard, Answer(c, IF task[t].shell = "alive" THEN "sent" ELSE "killfailed"),
             "killfailed")
    /\ UNCHANGED <<level, log, files, saved, removed, ran>>

Status(c) ==
  \E heard \in BOOLEAN :
    /\ At(c, "kill")
    /\ Req(c).entry = "status"
    /\ Answer(c, IF heard /\ task[Req(c).about].shell = "alive" THEN "running" ELSE "notrunning")
    /\ UNCHANGED <<level, host>>

-----------------------------------------------------------------------------
(* What happens on the host by itself.  The shell that runs the line goes  *)
(* on to write the pid file beside the shell it has forked for the list,   *)
(* whether its call still listens or not; the command has a wrapper        *)
(* "command; echo $? > exit_file", which the shell of the list waits for.  *)

WritePid(c) ==
  /\ task[c].shell # "none"
  /\ ~task[c].pidFile
  /\ task' = [task EXCEPT ![c].pidFile = TRUE]
  /\ UNCHANGED <<level, call, log, files, saved, removed, ran>>

\* cd fails, and with it the list.
ListFails(c) ==
  /\ task[c].shell = "alive" /\ task[c].cmd = "none"
  /\ Req(c).workdir = "missing"
  /\ task' = [task EXCEPT ![c].shell = "ended"]
  /\ UNCHANGED <<level, call, log, files, saved, removed, ran>>

CommandBegins(c) ==
  /\ task[c].shell = "alive" /\ task[c].cmd = "none"
  /\ Req(c).workdir # "missing"
  /\ task' = [task EXCEPT ![c].cmd = "running"]
  /\ CommandStarts(c)
  /\ UNCHANGED <<level, call, files, saved, removed>>

CommandEnds(c) ==
  \E code \in Code :
    LET gone == ({Req(c).workdir} \X Removes(Cmd(c).parts)) \cap files IN
    /\ task[c].cmd = "running"
    /\ task' = [task EXCEPT ![c].cmd = "ended", ![c].code = code]
    /\ removed' = [removed EXCEPT ![c] = gone]
    /\ files' = files \ gone
    /\ UNCHANGED <<level, call, log, saved, ran>>

\* A signal that nobody here sent, or the kernel out of memory, takes the command and
\* its wrapper.
CommandDies(c) ==
  /\ task[c].cmd = "running"
  /\ task' = [task EXCEPT ![c].cmd = "died"]
  /\ UNCHANGED <<level, call, log, files, saved, removed, ran>>

\* The wrapper is left without its echo by a command that leaves the shell.
WritesExit(c) == task[c].cmd = "ended" /\ Req(c).kind = "nohup" /\ ~Cmd(c).leaves

WriteExit(c) ==
  /\ WritesExit(c) /\ task[c].exitFile = NoCode
  /\ task' = [task EXCEPT ![c].exitFile = task[c].code]
  /\ UNCHANGED <<level, call, log, files, saved, removed, ran>>

\* A fault: the shell waits for the command and not for its wrapper.
ShellEndsEarly(c) ==
  /\ task[c].shell = "alive"
  /\ task[c].cmd \in {"ended", "died"}
  /\ task' = [task EXCEPT ![c].shell = "ended"]
  /\ UNCHANGED <<level, call, log, files, saved, removed, ran>>

ShellEnds(c) ==
  /\ task[c].shell = "alive"
  /\ task[c].cmd \in {"ended", "died"}
  /\ WritesExit(c) => task[c].exitFile # NoCode
  /\ task' = [task EXCEPT ![c].shell = "ended"]
  /\ UNCHANGED <<level, call, log, files, saved, removed, ran>>

OnHost(c) ==
  \/ WritePid(c) \/ ListFails(c) \/ CommandBegins(c)
  \/ CommandEnds(c) \/ CommandDies(c) \/ WriteExit(c) \/ ShellEnds(c)

Work(c) ==
  \/ Start(c) \/ Refused(c)
  \/ LookUpTask(c) \/ BackUpFirst(c) \/ LaunchAtOnce(c) \/ RunInForeground(c)
  \/ Backup(c) \/ NoSudo(c) \/ Run(c)
  \/ Launch(c) \/ LaunchScreen(c) \/ Probe(c) \/ ProbeUnheard(c)
  \/ StillRunning(c) \/ SeemsEnded(c) \/ WaitTimesOut(c) \/ ReadExit(c) \/ ReadLog(c)
  \/ ReadPid(c) \/ Kill(c) \/ Status(c)

Next == \E c \in Call :
  Work(c) \/ NoSession(c) \/ Fails(c) \/ OnHost(c)

Spec == Init /\ [][Next]_vars

\* The event loop runs a call whenever it can run, and every remote step ends or
\* times out in submit.  Nothing is assumed of failures, nor of the host: the pid file
\* is never written, and a server never ends.
FairSpec == Spec /\ \A c \in Call : WF_vars(Work(c))

-----------------------------------------------------------------------------
(* Properties.                                                             *)

\* The texts of the answers, in the words of the model.
Texts == {"none", "nosession", "confirm", "hard", "policy", "prompt", "path", "dangerous",
          "backupfailed", "nosudo", "error", "ran", "notstarted", "started", "success",
          "failed", "abnormal", "stillrunning", "waited", "nopid", "sent", "killfailed",
          "running", "notrunning"}

TypeOK ==
  /\ level \in Level
  /\ call \in [Call ->
       [at : {"idle", "ensure", "backup", "run", "launch", "probe", "waiting", "exit",
              "log", "pid", "kill", "done"},
        req : RequestType, left : 0 .. WaitRounds, code : Code \cup {NoCode},
        output : SUBSET Call, answer : Texts]]
  /\ task \in [Call ->
       [shell : {"none", "alive", "ended", "killed"},
        cmd : {"none", "running", "ended", "died"},
        pidFile : BOOLEAN, exitFile : Code \cup {NoCode}, code : Code \cup {NoCode}]]
  /\ log \subseteq Call
  /\ files \subseteq File
  /\ saved \in [Call -> SUBSET File]
  /\ removed \in [Call -> SUBSET File]
  /\ ran \subseteq Call

\* A command that a tool takes as such (the argument named command, or the one that
\* the docker build puts together) starts on the host only if the policy of the level
\* accepts it, directly, as a background task or after its backup, and through
\* ssh_execute only with the confirmations its risk asks for.
PolicyHolds ==
  \A c \in ran :
    /\ Valid(level, Cmd(c))
    /\ Req(c).entry = "execute" => Confirmed(Cmd(c), Req(c).confirm, Req(c).layer)

\* What a call says has not been done has not been done: after one of these
\* answers the command has not started and nothing has been deleted
\* ("Backup failed; deletion was not started", execute.py:128).
RefusedMeansNotRun ==
  \A c \in Call :
    call[c].answer \in {"nosession", "confirm", "hard", "policy", "prompt", "path",
                        "dangerous", "backupfailed", "nosudo"}
    => c \notin ran /\ removed[c] = {}

\* ssh_execute deletes nothing before the caller has chosen, and what a deletion
\* with a backup deletes is in its backup: in the foreground and in the background,
\* with an answer lost, and with another call deleting the same files.  It takes a
\* line with one removal and, in the background, the home directory for workdir:
\* the backup looks for the files there.
BackupFirst ==
  \A c \in Call :
    removed[c] # {} /\ Req(c).entry = "execute" /\ IsDeletion(Cmd(c)) =>
      /\ Req(c).backup # "unset"
      /\ WantsBackup(Req(c)) /\ TargetsAreFiles(Cmd(c))
         /\ (RunsInBackground(Req(c)) => Req(c).workdir = "home")
         => removed[c] \subseteq saved[c]

\* An exit code that a call reports of a background task is the one the command
\* ended with: with a kill, a lost answer or a command that goes on beside its
\* dead shell, no other code is reported than "unknown".
VerdictTrue ==
  \A c \in Call :
    /\ call[c].answer \in {"success", "failed", "waited"}
    /\ call[c].code # NoCode
    => task[c].cmd = "ended" /\ task[c].code = call[c].code

\* What keeps a task from leaving an exit file: a signal to its shell, its command or
\* its wrapper, a command that leaves the shell, or a list that failed before it.
CutShort(c) ==
  \/ task[c].shell = "killed"
  \/ task[c].cmd = "died"
  \/ Cmd(c).leaves
  \/ task[c].shell = "ended" /\ task[c].cmd = "none"

\* execute_background tells a task that was cut short from one that ran to its end by
\* a missing exit file behind a dead shell (execute.py:354): "terminated abnormally"
\* is never said of a command that ran to its end with its shell alone, at whatever
\* moment the probe looks at the two.
AbnormalMeansCut == \A c \in Call : call[c].answer = "abnormal" => CutShort(c)

\* Every call returns, also one that waits for a task that never ends.
CallsReturn == \A c \in Call : call[c].at = "ensure" ~> call[c].at = "done"

\* wait_for_task_completion: "Wait for a background task to complete and return
\* its output" (execute.py:560), not that of another task.
WaitReturnsOutput ==
  \A c \in Call : call[c].answer = "waited" => call[c].output \subseteq {c}
=============================================================================
