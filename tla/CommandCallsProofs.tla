-------------------------- MODULE CommandCallsProofs --------------------------
(***************************************************************************)
(* Proofs about the calls that run commands.  What is known of a call      *)
(* depends on its own state and on its own task, files and backup, and the *)
(* level and the arguments never change: so each step is a step of one     *)
(* call or of one task, and the other calls only have to see that nothing  *)
(* of theirs has changed but a shell that somebody killed.                 *)
(***************************************************************************)
EXTENDS CommandCalls, SequenceTheorems, TLAPS

Places == {"idle", "ensure", "backup", "run", "launch", "probe", "waiting", "exit",
           "log", "pid", "kill", "done"}

CallRec == [at : Places, req : RequestType, left : 0 .. WaitRounds,
            code : Code \cup {NoCode}, output : SUBSET Call, answer : Texts]

TaskRec == [shell : {"none", "alive", "ended", "killed"},
            cmd : {"none", "running", "ended", "died"},
            pidFile : BOOLEAN, exitFile : Code \cup {NoCode}, code : Code \cup {NoCode}]

Typed ==
  /\ call \in [Call -> CallRec]
  /\ task \in [Call -> TaskRec]

\* What TypeOK says of the rest.
HostTyped ==
  /\ level \in Level
  /\ log \subseteq Call
  /\ files \subseteq File
  /\ saved \in [Call -> SUBSET File]
  /\ removed \in [Call -> SUBSET File]
  /\ ran \subseteq Call

LEMMA TypeParts == TypeOK <=> Typed /\ HostTyped
BY DEF TypeOK, Typed, HostTyped, CallRec, TaskRec, Places

-----------------------------------------------------------------------------
(* What is known of a call.                                                *)

\* A call that has done nothing on the host.
Early == {"idle", "ensure", "backup", "run", "launch", "pid", "kill"}

\* What a call answers that has done nothing.
Refusals == {"nosession", "confirm", "hard", "policy", "prompt", "path",
             "dangerous", "backupfailed", "nosudo"}

Cleared(c) == Refusal(Req(c)) = "none"

Accepted(c) == Cleared(c) /\ Valid(level, Cmd(c))

\* The guards of a background task have passed, and its backup is there.
Launchable(c) ==
  /\ LaunchRefusal(Req(c)) = "none"
  /\ Cleared(c)
  /\ RunsInBackground(Req(c))
  /\ WantsBackup(Req(c)) => /\ TargetsAreFiles(Cmd(c))
                            /\ saved[c] = InHome(Targets(Cmd(c)))

\* What BackupFirst says of a call that has removed files.
Covered(c) ==
  Req(c).entry = "execute" /\ IsDeletion(Cmd(c)) =>
    /\ Req(c).backup # "unset"
    /\ WantsBackup(Req(c)) /\ TargetsAreFiles(Cmd(c))
       /\ (RunsInBackground(Req(c)) => Req(c).workdir = "home")
       => removed[c] \subseteq saved[c]

\* The order of a call: what has passed where it stands, and what has been done.
Ordered(c) ==
  /\ call[c].at \in {"backup", "run", "launch"} => Cleared(c)
  /\ call[c].at = "backup" => RunsInBackground(Req(c))
  /\ call[c].at = "run" =>
       Req(c).entry \in {"execute", "direct"} /\ ~RunsInBackground(Req(c))
  /\ call[c].at = "launch" => Launchable(c)
  /\ call[c].answer # "none" => call[c].at = "done"
  /\ call[c].answer \in Refusals => c \notin ran
  /\ c \in ran => call[c].at \notin Early /\ Accepted(c)

\* The line that starts the task of c has reached the host.
Forked(c) == task[c].shell # "none" \/ task[c].cmd # "none"

\* A task and the files of its command.
TaskTrue(c) ==
  /\ Forked(c) => Launchable(c) /\ call[c].at \notin Early /\ call[c].answer \notin Refusals
  /\ task[c].shell # "none" => Req(c).kind = "nohup"
  /\ task[c].pidFile => task[c].shell # "none"
  /\ task[c].cmd # "none" => c \in ran
  /\ removed[c] # {} => c \in ran /\ Covered(c)
  /\ task[c].exitFile # NoCode => task[c].cmd = "ended" /\ task[c].code = task[c].exitFile
  /\ call[c].code # NoCode => task[c].cmd = "ended" /\ task[c].code = call[c].code
  /\ task[c].shell = "ended" => task[c].exitFile # NoCode \/ CutShort(c)
  /\ call[c].answer = "abnormal" => CutShort(c)

CallInv == \A c \in Call : Ordered(c) /\ TaskTrue(c)

Inv == Typed /\ HostTyped /\ CallInv

\* The command of c is as it was: its shell may have been killed.
SameCommand(c) ==
  /\ task'[c].shell = task[c].shell \/ (task[c].shell = "alive" /\ task'[c].shell = "killed")
  /\ task'[c].cmd = task[c].cmd
  /\ task'[c].pidFile = task[c].pidFile
  /\ task'[c].exitFile = task[c].exitFile
  /\ task'[c].code = task[c].code

SameFiles(c) == saved'[c] = saved[c] /\ removed'[c] = removed[c] /\ (c \in ran' <=> c \in ran)

\* Level and arguments are fixed, and with them the verdicts of the guards.
LEMMA GuardsFixed ==
  ASSUME NEW c \in Call, level' = level, call'[c].req = call[c].req
  PROVE  /\ Cleared(c)' = Cleared(c)
         /\ Accepted(c)' = Accepted(c)
         /\ saved'[c] = saved[c] => Launchable(c)' = Launchable(c)
         /\ SameFiles(c) => Covered(c)' = Covered(c)
<1>1. Req(c)' = Req(c) /\ Cmd(c)' = Cmd(c)
  BY DEF Req, Cmd
<1>2. Refusal(Req(c))' = Refusal(Req(c)) /\ LaunchRefusal(Req(c))' = LaunchRefusal(Req(c))
  BY <1>1 DEF Refusal, LaunchRefusal
<1>. QED BY <1>1, <1>2 DEF Cleared, Accepted, Launchable, Covered, SameFiles

\* Nothing of d changes in a step of another call or task.
LEMMA OthersKeep ==
  ASSUME Inv, NEW d \in Call, level' = level, call'[d] = call[d], SameCommand(d), SameFiles(d)
  PROVE  Ordered(d)' /\ TaskTrue(d)'
<1>1. /\ Cleared(d)' = Cleared(d) /\ Accepted(d)' = Accepted(d)
      /\ Launchable(d)' = Launchable(d) /\ Covered(d)' = Covered(d)
  BY GuardsFixed DEF SameFiles
<1>2. Req(d)' = Req(d)
  BY DEF Req
<1>3. Ordered(d)'
  BY <1>1, <1>2 DEF Inv, CallInv, Ordered, SameFiles
<1>4. CutShort(d) => CutShort(d)'
  BY DEF CutShort, Cmd, SameCommand
<1>5. TaskTrue(d)'
  <2>1. Forked(d)' = Forked(d)
    BY DEF Forked, SameCommand
  <2>. QED BY <1>1, <1>2, <1>4, <2>1 DEF Inv, CallInv, TaskTrue, SameFiles, SameCommand
<1>. QED BY <1>3, <1>5

-----------------------------------------------------------------------------
(* The steps of a call as the calls see them.                              *)

\* Call c goes from one place to another, with an answer at the end.
Moves(c, place, text) ==
  /\ call' \in [Call -> CallRec]
  /\ \A d \in Call \ {c} : call'[d] = call[d]
  /\ call'[c].at = place
  /\ call'[c].req = call[c].req
  /\ call'[c].answer = text

LEMMA GotoMoves ==
  ASSUME Typed, NEW c \in Call, NEW place \in Places, Goto(c, place)
  PROVE  Moves(c, place, call[c].answer) /\ call'[c].code = call[c].code
<1>1. call[c] \in CallRec
  BY DEF Typed
<1>2. call' = [call EXCEPT ![c] = [call[c] EXCEPT !.at = place]]
  BY DEF Goto
<1>3. [call[c] EXCEPT !.at = place] \in CallRec
  BY <1>1 DEF CallRec
<1>. QED BY <1>1, <1>2, <1>3 DEF Moves, Typed, CallRec

LEMMA AnswerMoves ==
  ASSUME Typed, NEW c \in Call, NEW text \in Texts, Answer(c, text)
  PROVE  Moves(c, "done", text) /\ call'[c].code = call[c].code
<1>1. call[c] \in CallRec
  BY DEF Typed
<1>2. call' = [call EXCEPT ![c] = [call[c] EXCEPT !.at = "done", !.answer = text]]
  BY DEF Answer
<1>3. [call[c] EXCEPT !.at = "done", !.answer = text] \in CallRec
  BY <1>1 DEF CallRec, Places
<1>. QED BY <1>1, <1>2, <1>3 DEF Moves, Typed, CallRec

\* A step that only moves call c: the host stays as it is.
LEMMA MovesKeep ==
  ASSUME Inv, NEW c \in Call, NEW place \in Places, NEW text, Moves(c, place, text),
         level' = level, UNCHANGED host, Ordered(c)',
         Forked(c) => place \notin Early /\ text \notin Refusals,
         call'[c].code # NoCode => task[c].cmd = "ended" /\ task[c].code = call'[c].code,
         text = "abnormal" => CutShort(c)
  PROVE  Inv'
<1>1. Typed' /\ HostTyped'
  BY DEF Inv, Typed, HostTyped, Moves, host
<1>2. \A d \in Call : SameCommand(d) /\ SameFiles(d)
  BY DEF SameCommand, SameFiles, host
<1>3. ASSUME NEW d \in Call \ {c} PROVE Ordered(d)' /\ TaskTrue(d)'
  BY <1>2, <1>3, OthersKeep DEF Moves
<1>4. TaskTrue(c)'
  <2>1. Req(c)' = Req(c) /\ Launchable(c)' = Launchable(c) /\ Covered(c)' = Covered(c)
    BY <1>2, GuardsFixed DEF Moves, Req, SameFiles
  <2>2. Forked(c)' = Forked(c) /\ CutShort(c)' = CutShort(c)
    BY DEF Forked, CutShort, Moves, Cmd, host
  <2>3. call'[c].at = place /\ call'[c].answer = text /\ task' = task
    BY DEF Moves, host
  <2>. QED BY <1>2, <2>1, <2>2, <2>3 DEF Inv, CallInv, TaskTrue, SameFiles
<1>5. CallInv'
  BY <1>3, <1>4 DEF CallInv
<1>. QED BY <1>1, <1>5 DEF Inv

\* A call goes on or ends without a word to the host, and with the code it had.
LEMMA QuietStep ==
  ASSUME Inv, NEW c \in Call, NEW place \in Places, NEW text,
         Moves(c, place, text), call'[c].code = call[c].code,
         level' = level, UNCHANGED host,
         place \in Early => call[c].at \in Early,
         place \in {"backup", "run", "launch"} => Cleared(c),
         place = "backup" => RunsInBackground(Req(c)),
         place = "run" => Req(c).entry \in {"execute", "direct"} /\ ~RunsInBackground(Req(c)),
         place = "launch" => Launchable(c),
         text # "none" => place = "done",
         text \in Refusals => call[c].at \in Early,
         text # "abnormal"
  PROVE  Inv'
<1>1. Req(c)' = Req(c) /\ SameFiles(c)
  BY DEF Moves, Req, SameFiles, host
<1>2. Cleared(c)' = Cleared(c) /\ Accepted(c)' = Accepted(c) /\ Launchable(c)' = Launchable(c)
  BY <1>1, GuardsFixed DEF Moves, SameFiles
<1>3. Ordered(c) /\ TaskTrue(c)
  BY DEF Inv, CallInv
<1>4. call'[c].at = place /\ call'[c].answer = text /\ ran' = ran
  BY DEF Moves, host
<1>5. Ordered(c)'
  BY <1>1, <1>2, <1>3, <1>4 DEF Ordered
<1>6. call'[c].code # NoCode => task[c].cmd = "ended" /\ task[c].code = call'[c].code
  BY <1>3 DEF TaskTrue
<1>7. Forked(c) => place \notin Early /\ text \notin Refusals
  BY <1>3 DEF TaskTrue
<1>. QED BY <1>5, <1>6, <1>7, MovesKeep

LEMMA NoAnswerYet ==
  ASSUME Inv, NEW c \in Call, call[c].at # "done" PROVE call[c].answer = "none"
BY DEF Inv, CallInv, Ordered

\* Steps that leave with an answer, nothing done.
LEMMA AnswerKeeps ==
  ASSUME Inv, NEW c \in Call, NEW text \in Texts, Answer(c, text), level' = level,
         UNCHANGED host, text \in Refusals => call[c].at \in Early, text # "abnormal"
  PROVE  Inv'
<1>1. Moves(c, "done", text) /\ call'[c].code = call[c].code
  BY AnswerMoves DEF Inv
<1>2. "done" \in Places /\ "done" \notin Early
  BY DEF Places, Early
<1>. QED BY <1>1, <1>2, QuietStep

LEMMA GotoKeeps ==
  ASSUME Inv, NEW c \in Call, NEW place \in Places, Goto(c, place), level' = level,
         UNCHANGED host, call[c].at # "done", place # "done",
         place \in Early => call[c].at \in Early,
         place \in {"backup", "run", "launch"} => Cleared(c),
         place = "backup" => RunsInBackground(Req(c)),
         place = "run" => Req(c).entry \in {"execute", "direct"} /\ ~RunsInBackground(Req(c)),
         place = "launch" => Launchable(c)
  PROVE  Inv'
<1>1. Moves(c, place, call[c].answer) /\ call'[c].code = call[c].code
  BY GotoMoves DEF Inv
<1>2. call[c].answer = "none"
  BY NoAnswerYet
<1>. QED BY <1>1, <1>2, QuietStep DEF Refusals

LEMMA RefusalTexts ==
  ASSUME NEW r
  PROVE  /\ Refusal(r) \in {"confirm", "hard", "policy", "prompt", "none"}
         /\ LaunchRefusal(r) \in {"policy", "path", "dangerous", "none"}
         /\ Refusal(r) \in Texts /\ LaunchRefusal(r) \in Texts
BY DEF Refusal, LaunchRefusal, Texts

\* execute_background as far as its first await, after the guards of its caller.
LEMMA EnterLaunchKeeps ==
  ASSUME Inv, NEW c \in Call, EnterLaunch(c), level' = level, UNCHANGED host,
         call[c].at \in Early, Cleared(c), RunsInBackground(Req(c)),
         WantsBackup(Req(c)) => /\ TargetsAreFiles(Cmd(c))
                                /\ saved[c] = InHome(Targets(Cmd(c)))
  PROVE  Inv'
<1>1. CASE LaunchRefusal(Req(c)) = "none"
  <2>1. Goto(c, "launch") /\ Launchable(c)
    BY <1>1 DEF EnterLaunch, Launchable
  <2>. QED BY <2>1, GotoKeeps DEF Places, Early
<1>2. CASE LaunchRefusal(Req(c)) # "none"
  <2>1. LaunchRefusal(Req(c)) \in Texts /\ LaunchRefusal(Req(c)) # "abnormal"
    BY RefusalTexts
  <2>2. Answer(c, LaunchRefusal(Req(c)))
    BY <1>2 DEF EnterLaunch
  <2>. QED BY <2>1, <2>2, AnswerKeeps
<1>. QED BY <1>1, <1>2

LEMMA EntrySteps ==
  ASSUME Inv, NEW c \in Call,
         \/ Start(c) \/ NoSession(c) \/ Refused(c) \/ LookUpTask(c) \/ BackUpFirst(c)
         \/ LaunchAtOnce(c) \/ RunInForeground(c) \/ NoSudo(c) \/ Fails(c)
  PROVE  Inv'
<1>1. CASE Start(c)
  BY <1>1, GotoKeeps DEF Start, At, Places, Early
<1>2. CASE NoSession(c)
  <2>1. "nosession" \in Texts
    BY DEF Texts
  <2>. QED BY <1>2, <2>1, AnswerKeeps DEF NoSession, At, Early
<1>3. CASE Refused(c)
  <2>1. Refusal(Req(c)) \in Texts /\ Refusal(Req(c)) # "abnormal"
    BY RefusalTexts
  <2>. QED BY <1>3, <2>1, AnswerKeeps DEF Refused, At, Early
<1>4. CASE LookUpTask(c)
  BY <1>4, GotoKeeps DEF LookUpTask, At, Places, Early
<1>5. CASE BackUpFirst(c)
  BY <1>5, GotoKeeps DEF BackUpFirst, At, Places, Early, Cleared
<1>6. CASE LaunchAtOnce(c)
  BY <1>6, EnterLaunchKeeps DEF LaunchAtOnce, At, Early, Cleared
<1>7. CASE RunInForeground(c)
  BY <1>7, GotoKeeps DEF RunInForeground, At, Places, Early, Cleared
<1>8. CASE NoSudo(c)
  <2>1. "nosudo" \in Texts
    BY DEF Texts
  <2>. QED BY <1>8, <2>1, AnswerKeeps DEF NoSudo, At, Early
<1>9. CASE Fails(c)
  <2>1. PICK text \in {"nosession", "error"} :
          /\ text = "nosession" => call[c].at \in {"backup", "run"}
          /\ Answer(c, text)
    BY <1>9 DEF Fails
  <2>2. {"nosession", "error"} \subseteq Texts
    BY DEF Texts
  <2>3. text \in Texts /\ (text \in Refusals => call[c].at \in Early)
    BY <2>1, <2>2 DEF Refusals, Early
  <2>. QED BY <1>9, <2>1, <2>3, AnswerKeeps DEF Fails
<1>. QED BY <1>1, <1>2, <1>3, <1>4, <1>5, <1>6, <1>7, <1>8, <1>9

-----------------------------------------------------------------------------
(* Steps that report what the host says.                                   *)

\* A call leaves a place where its task is on the host, and takes the code of the exit
\* file, or none, or keeps its own.
LEMMA ReportStep ==
  ASSUME Inv, NEW c \in Call, NEW place \in Places, NEW text,
         Moves(c, place, text), place \notin Early, place # "run",
         call'[c].code \in {call[c].code, task[c].exitFile, NoCode},
         level' = level, UNCHANGED host,
         text # "none" => place = "done",
         text \notin Refusals,
         text = "abnormal" => CutShort(c)
  PROVE  Inv'
<1>1. Req(c)' = Req(c) /\ SameFiles(c)
  BY DEF Moves, Req, SameFiles, host
<1>2. Accepted(c)' = Accepted(c)
  BY <1>1, GuardsFixed DEF Moves, SameFiles
<1>3. Ordered(c) /\ TaskTrue(c)
  BY DEF Inv, CallInv
<1>4. call'[c].at = place /\ call'[c].answer = text /\ ran' = ran
  BY DEF Moves, host
<1>5. place \notin {"backup", "run", "launch"}
  BY DEF Early
<1>6. Ordered(c)'
  BY <1>1, <1>2, <1>3, <1>4, <1>5 DEF Ordered
<1>7. call'[c].code # NoCode => task[c].cmd = "ended" /\ task[c].code = call'[c].code
  BY <1>3 DEF TaskTrue
<1>. QED BY <1>6, <1>7, MovesKeep

\* Any change of the record of c that leaves its request is a move.
LEMMA RecordMoves ==
  ASSUME Typed, NEW c \in Call, NEW r \in CallRec, call' = [call EXCEPT ![c] = r],
         r.req = call[c].req
  PROVE  Moves(c, r.at, r.answer) /\ call'[c] = r /\ r.at \in Places
BY DEF Typed, Moves, CallRec

LEMMA WaitMoves ==
  ASSUME Inv, NEW c \in Call, NEW n \in 0 .. WaitRounds,
         call' = [call EXCEPT ![c].at = "waiting", ![c].left = n]
  PROVE  Moves(c, "waiting", call[c].answer) /\ call'[c].code = call[c].code
<1>. DEFINE r == [call[c] EXCEPT !.at = "waiting", !.left = n]
<1>1. call[c] \in CallRec
  BY DEF Inv, Typed
<1>2. r \in CallRec
  BY <1>1 DEF CallRec, Places
<1>3. /\ r.at = "waiting" /\ r.answer = call[c].answer
      /\ r.req = call[c].req /\ r.code = call[c].code
  BY <1>1 DEF CallRec
<1>4. call' = [call EXCEPT ![c] = r]
  OBVIOUS
<1>. HIDE DEF r
<1>. QED BY <1>2, <1>3, <1>4, RecordMoves DEF Inv

LEMMA WaitKeeps ==
  ASSUME Inv, NEW c \in Call, NEW n \in 0 .. WaitRounds,
         call' = [call EXCEPT ![c].at = "waiting", ![c].left = n],
         call[c].at # "done", level' = level, UNCHANGED host
  PROVE  Inv'
<1>1. Moves(c, "waiting", call[c].answer) /\ call'[c].code = call[c].code
  BY WaitMoves
<1>2. call[c].answer = "none"
  BY NoAnswerYet
<1>3. "waiting" \in Places /\ "waiting" \notin Early /\ "none" \notin Refusals
  BY DEF Places, Early, Refusals
<1>. QED BY <1>1, <1>2, <1>3, ReportStep

LEMMA OutputOfTask ==
  ASSUME Inv, NEW c \in Call PROVE Output(c) \subseteq Call
BY DEF Inv, HostTyped, Output

\* Only a missing exit file reads as an abnormal end: exit codes are not negative.
LEMMA VerdictOfCode ==
  ASSUME NEW code \in Code \cup {NoCode}, Verdict(code) = "abnormal"
  PROVE  code = NoCode
<1>1. SUFFICES ASSUME code \in Code PROVE FALSE
  OBVIOUS
<1>2. code \in Nat
  BY <1>1, CallAssumption
<1>3. code = 0 \/ code > 0
  BY <1>2
<1>. QED BY <1>3 DEF Verdict

LEMMA ProbeKeeps ==
  ASSUME Inv, NEW c \in Call, Probe(c) PROVE Inv'
<1>1. CASE task[c].shell # "alive"
  <2>. DEFINE r == [call[c] EXCEPT !.at = "done", !.code = task[c].exitFile,
                                   !.output = Output(c), !.answer = Verdict(task[c].exitFile)]
  <2>1. call[c] \in CallRec /\ task[c].exitFile \in Code \cup {NoCode}
    BY DEF Inv, Typed, TaskRec
  <2>2. /\ Verdict(task[c].exitFile) \in {"success", "failed", "abnormal"}
        /\ Verdict(task[c].exitFile) = "abnormal" => CutShort(c)
    <3>1. Verdict(task[c].exitFile) = "abnormal" => task[c].exitFile = NoCode
      BY <2>1, VerdictOfCode
    <3>2. task[c].shell \in {"ended", "killed"}
      BY <1>1 DEF Probe, Inv, CallInv, TaskTrue, Typed, TaskRec
    <3>3. task[c].exitFile = NoCode => CutShort(c)
      BY <3>2 DEF Inv, CallInv, TaskTrue, CutShort
    <3>. QED BY <3>1, <3>3 DEF Verdict
  <2>3. Verdict(task[c].exitFile) \in Texts
    BY <2>2 DEF Texts
  <2>4. r \in CallRec
    BY <2>1, <2>3, OutputOfTask DEF CallRec, Places
  <2>5. /\ r.at = "done" /\ r.answer = Verdict(task[c].exitFile)
        /\ r.req = call[c].req /\ r.code = task[c].exitFile
    BY <2>1 DEF CallRec
  <2>6. call' = [call EXCEPT ![c] = r]
    BY <1>1 DEF Probe
  <2>. HIDE DEF r
  <2>7. Moves(c, "done", Verdict(task[c].exitFile)) /\ call'[c].code = task[c].exitFile
    BY <2>4, <2>5, <2>6, RecordMoves DEF Inv
  <2>8. "done" \in Places /\ "done" \notin Early /\ Verdict(task[c].exitFile) \notin Refusals
    BY <2>2 DEF Places, Early, Refusals
  <2>9. level' = level /\ UNCHANGED host
    BY DEF Probe
  <2>. QED BY <2>2, <2>7, <2>8, <2>9, ReportStep
<1>2. CASE task[c].shell = "alive" /\ Req(c).wait /\ Req(c).entry = "execute"
  <2>1. WaitRounds \in 0 .. WaitRounds
    BY CallAssumption
  <2>. QED BY <1>2, <2>1, WaitKeeps DEF Probe, At
<1>3. CASE task[c].shell = "alive" /\ ~(Req(c).wait /\ Req(c).entry = "execute")
  <2>1. "started" \in Texts /\ "started" \notin Refusals
    BY DEF Texts, Refusals
  <2>. QED BY <1>3, <2>1, AnswerKeeps DEF Probe
<1>. QED BY <1>1, <1>2, <1>3

LEMMA ProbeUnheardKeeps ==
  ASSUME Inv, NEW c \in Call, ProbeUnheard(c) PROVE Inv'
<1>1. "notstarted" \in Texts /\ "notstarted" \notin Refusals
  BY DEF Texts, Refusals
<1>. QED BY <1>1, AnswerKeeps DEF ProbeUnheard

LEMMA WaitSteps ==
  ASSUME Inv, NEW c \in Call,
         \/ StillRunning(c) \/ SeemsEnded(c) \/ WaitTimesOut(c) \/ ReadExit(c) \/ ReadLog(c)
  PROVE  Inv'
<1>0. call[c] \in CallRec /\ task[c].exitFile \in Code \cup {NoCode}
  BY DEF Inv, Typed, TaskRec
<1>1. CASE StillRunning(c)
  <2>1. call[c].left - 1 \in 0 .. WaitRounds
    BY <1>0, <1>1, CallAssumption DEF StillRunning, CallRec
  <2>2. call' = [call EXCEPT ![c].at = "waiting", ![c].left = call[c].left - 1]
    <3>1. [call[c] EXCEPT !.left = call[c].left - 1]
            = [call[c] EXCEPT !.at = "waiting", !.left = call[c].left - 1]
      BY <1>0, <1>1 DEF StillRunning, At, CallRec
    <3>. QED BY <1>1, <3>1 DEF StillRunning
  <2>. QED BY <1>1, <2>1, <2>2, WaitKeeps DEF StillRunning, At
<1>2. CASE SeemsEnded(c)
  BY <1>2, GotoKeeps DEF SeemsEnded, At, Places, Early
<1>3. CASE WaitTimesOut(c)
  <2>1. "stillrunning" \in Texts /\ "stillrunning" \notin Refusals
    BY DEF Texts, Refusals
  <2>. QED BY <1>3, <2>1, AnswerKeeps DEF WaitTimesOut
<1>4. CASE ReadExit(c)
  <2>0. PICK code \in {task[c].exitFile, NoCode} :
          call' = [call EXCEPT ![c].at = "log", ![c].code = code]
    BY <1>4 DEF ReadExit
  <2>. DEFINE r == [call[c] EXCEPT !.at = "log", !.code = code]
  <2>1. r \in CallRec
    BY <1>0 DEF CallRec, Places
  <2>2. /\ r.at = "log" /\ r.answer = call[c].answer
        /\ r.req = call[c].req /\ r.code = code
    BY <1>0 DEF CallRec
  <2>3. call' = [call EXCEPT ![c] = r]
    BY <2>0
  <2>. HIDE DEF r
  <2>4. Moves(c, "log", call[c].answer) /\ call'[c].code = code
    BY <2>1, <2>2, <2>3, RecordMoves DEF Inv
  <2>5. call[c].answer = "none"
    BY <1>4, NoAnswerYet DEF ReadExit, At
  <2>6. "log" \in Places /\ "log" \notin Early /\ "none" \notin Refusals
    BY DEF Places, Early, Refusals
  <2>. QED BY <1>4, <2>4, <2>5, <2>6, ReportStep DEF ReadExit
<1>5. CASE ReadLog(c)
  <2>0. PICK output \in {Output(c), {}} :
          call' = [call EXCEPT ![c].at = "done", ![c].answer = "waited", ![c].output = output]
    BY <1>5 DEF ReadLog
  <2>. DEFINE r == [call[c] EXCEPT !.at = "done", !.answer = "waited", !.output = output]
  <2>1. r \in CallRec
    BY <1>0, OutputOfTask DEF CallRec, Places, Texts
  <2>2. /\ r.at = "done" /\ r.answer = "waited"
        /\ r.req = call[c].req /\ r.code = call[c].code
    BY <1>0 DEF CallRec
  <2>3. call' = [call EXCEPT ![c] = r]
    BY <2>0
  <2>. HIDE DEF r
  <2>4. Moves(c, "done", "waited") /\ call'[c].code = call[c].code
    BY <2>1, <2>2, <2>3, RecordMoves DEF Inv
  <2>5. "done" \in Places /\ "done" \notin Early /\ "waited" \notin Refusals
    BY DEF Places, Early, Refusals
  <2>. QED BY <1>5, <2>4, <2>5, ReportStep DEF ReadLog
<1>. QED BY <1>1, <1>2, <1>3, <1>4, <1>5

LEMMA LookUpSteps ==
  ASSUME Inv, NEW c \in Call, ReadPid(c) \/ Status(c) PROVE Inv'
<1>1. CASE ReadPid(c)
  <2>1. "nopid" \in Texts /\ "nopid" \notin Refusals
    BY DEF Texts, Refusals
  <2>2. CASE Goto(c, "kill")
    BY <1>1, <2>2, GotoKeeps DEF ReadPid, At, Places, Early
  <2>3. CASE Answer(c, "nopid")
    BY <1>1, <2>1, <2>3, AnswerKeeps DEF ReadPid
  <2>. QED BY <1>1, <2>2, <2>3 DEF ReadPid
<1>2. CASE Status(c)
  <2>1. {"running", "notrunning"} \subseteq Texts /\ {"running", "notrunning"} \cap Refusals = {}
    BY DEF Texts, Refusals
  <2>2. PICK text \in {"running", "notrunning"} : Answer(c, text)
    BY <1>2 DEF Status
  <2>. QED BY <1>2, <2>1, <2>2, AnswerKeeps DEF Status
<1>. QED BY <1>1, <1>2

-----------------------------------------------------------------------------
(* Steps with an effect on the host.                                       *)

\* Whatever a step changes of c and its task, it changes no other call's.
LEMMA OwnKeep ==
  ASSUME Inv, NEW c \in Call, level' = level, Typed', HostTyped',
         \A d \in Call \ {c} : call'[d] = call[d] /\ SameCommand(d) /\ SameFiles(d),
         Ordered(c)', TaskTrue(c)'
  PROVE  Inv'
<1>1. ASSUME NEW d \in Call \ {c} PROVE Ordered(d)' /\ TaskTrue(d)'
  BY OthersKeep
<1>. QED BY <1>1 DEF Inv, CallInv

\* Before its line has reached the host, a call has no task and has removed nothing.
LEMMA NothingDone ==
  ASSUME Inv, NEW c \in Call, call[c].at \in Early
  PROVE  /\ c \notin ran /\ removed[c] = {} /\ call[c].code = NoCode
         /\ task[c].cmd = "none" /\ task[c].shell = "none" /\ ~task[c].pidFile
         /\ task[c].exitFile = NoCode /\ call[c].answer = "none"
<1>1. Ordered(c) /\ TaskTrue(c)
  BY DEF Inv, CallInv
<1>2. c \notin ran
  BY <1>1 DEF Ordered
<1>3. task[c].cmd = "none" /\ task[c].shell = "none"
  BY <1>1 DEF TaskTrue, Forked
<1>4. call[c].at # "done"
  BY DEF Early
<1>. QED BY <1>1, <1>2, <1>3, <1>4 DEF TaskTrue, Ordered

\* The backup of c: only saved[c] changes.
LEMMA BackupKeeps ==
  ASSUME Inv, NEW c \in Call, Backup(c) PROVE Inv'
<1>1. /\ call[c].at = "backup" /\ call[c].at \in Early
      /\ level' = level /\ task' = task /\ log' = log /\ files' = files
      /\ removed' = removed /\ ran' = ran
  BY DEF Backup, At, Early
<1>2. InHome(Targets(Cmd(c))) \subseteq File \/ ~BackupSucceeds(Cmd(c))
  BY DEF BackupSucceeds, Inv, HostTyped
<1>3. /\ saved' \in [Call -> SUBSET File]
      /\ \A d \in Call \ {c} : saved'[d] = saved[d]
      /\ BackupSucceeds(Cmd(c)) => saved'[c] = InHome(Targets(Cmd(c)))
  BY <1>2 DEF Backup, Inv, HostTyped
<1>4. Cleared(c) /\ RunsInBackground(Req(c))
  BY <1>1 DEF Inv, CallInv, Ordered
<1>5. \E place \in {"done", "launch"}, text \in Texts :
        /\ Moves(c, place, text) /\ call'[c].code = call[c].code
        /\ text # "abnormal"
        /\ place = "launch" => text = "none" /\ BackupSucceeds(Cmd(c))
                               /\ LaunchRefusal(Req(c)) = "none"
  <2>1. {"error", "backupfailed", "none"} \subseteq Texts /\ "launch" \in Places
    BY DEF Texts, Places
  <2>2. \/ Answer(c, "error")
        \/ Answer(c, "backupfailed")
        \/ EnterLaunch(c) /\ BackupSucceeds(Cmd(c))
    BY DEF Backup, Heard
  <2>3. CASE EnterLaunch(c) /\ BackupSucceeds(Cmd(c)) /\ LaunchRefusal(Req(c)) = "none"
    <3>1. Moves(c, "launch", call[c].answer) /\ call'[c].code = call[c].code
      BY <2>1, <2>3, GotoMoves DEF EnterLaunch, Inv
    <3>. QED BY <1>1, <2>1, <2>3, <3>1, NothingDone
  <2>4. CASE EnterLaunch(c) /\ LaunchRefusal(Req(c)) # "none"
    <3>1. /\ Answer(c, LaunchRefusal(Req(c))) /\ LaunchRefusal(Req(c)) \in Texts
          /\ LaunchRefusal(Req(c)) # "abnormal"
      BY <2>4, RefusalTexts DEF EnterLaunch
    <3>. QED BY <3>1, AnswerMoves DEF Inv
  <2>5. CASE Answer(c, "error")
    BY <2>1, <2>5, AnswerMoves DEF Inv
  <2>6. CASE Answer(c, "backupfailed")
    BY <2>1, <2>6, AnswerMoves DEF Inv
  <2>. QED BY <2>2, <2>3, <2>4, <2>5, <2>6
<1>6. PICK place \in {"done", "launch"}, text \in Texts :
        /\ Moves(c, place, text) /\ call'[c].code = call[c].code
        /\ text # "abnormal"
        /\ place = "launch" => text = "none" /\ BackupSucceeds(Cmd(c))
                               /\ LaunchRefusal(Req(c)) = "none"
  BY <1>5
<1>7. Typed' /\ HostTyped'
  BY <1>1, <1>3, <1>6 DEF Inv, Typed, HostTyped, Moves
<1>8. \A d \in Call \ {c} : call'[d] = call[d] /\ SameCommand(d) /\ SameFiles(d)
  BY <1>1, <1>3, <1>6 DEF Moves, SameCommand, SameFiles
<1>9. /\ Req(c)' = Req(c) /\ Cmd(c)' = Cmd(c)
      /\ call'[c].at = place /\ call'[c].answer = text /\ call'[c].code = NoCode
      /\ c \notin ran'
  BY <1>1, <1>6, NothingDone DEF Moves, Req, Cmd
<1>10. Cleared(c)'
  BY <1>1, <1>4, <1>6, GuardsFixed DEF Moves
<1>11. place = "launch" => Launchable(c)'
  <2>1. LaunchRefusal(Req(c))' = LaunchRefusal(Req(c))
    BY <1>1, <1>9 DEF LaunchRefusal
  <2>. QED BY <1>3, <1>4, <1>6, <1>9, <1>10, <2>1 DEF Launchable, BackupSucceeds
<1>12. Ordered(c)'
  BY <1>6, <1>9, <1>10, <1>11 DEF Ordered
<1>13. TaskTrue(c)'
  BY <1>1, <1>6, <1>9, NothingDone DEF TaskTrue, Forked
<1>. QED BY <1>1, <1>7, <1>8, <1>12, <1>13, OwnKeep

\* What a call has put on the line of its command.
LEMMA PartsOfLine ==
  ASSUME Inv, NEW c \in Call
  PROVE  /\ Cmd(c).parts \in Seq(SUBSET Name)
         /\ TargetsAreFiles(Cmd(c)) => /\ Removes(Cmd(c).parts) = Targets(Cmd(c))
                                       /\ Removes(Tail(Cmd(c).parts)) = {}
         /\ Removes(<<>>) = {}
<1>1. call[c].req \in RequestType
  BY DEF Inv, Typed, CallRec
<1>2. call[c].req.cmd \in Command
  BY <1>1 DEF RequestType
<1>3. Cmd(c).parts \in Seq(SUBSET Name)
  BY <1>2 DEF Cmd, Command
<1>. DEFINE s == Cmd(c).parts
<1>4. Removes(<<>>) = {}
  BY DEF Removes
<1>5. ASSUME Len(s) = 1 PROVE Removes(s) = Head(s) /\ Removes(Tail(s)) = {}
  <2>1. s \in Seq(SUBSET Name)
    BY <1>3
  <2>. HIDE DEF s
  <2>2. DOMAIN s = {1} /\ Head(s) = s[1]
    BY <1>5, <2>1
  <2>3. Removes(s) = Head(s)
    BY <2>2 DEF Removes
  <2>4. \A t \in Seq(SUBSET Name) : Len(t) = 0 => DOMAIN t = {}
    OBVIOUS
  <2>5. DOMAIN Tail(s) = {}
    <3>. DEFINE t == Tail(s)
    <3>1. s # <<>>
      BY <1>5
    <3>2. t \in Seq(SUBSET Name) /\ Len(t) = 0
      BY <1>5, <2>1, <3>1, HeadTailProperties
    <3>. HIDE DEF t
    <3>3. DOMAIN t = {}
      BY <2>4, <3>2
    <3>. QED BY <3>3 DEF t
  <2>. QED BY <2>3, <2>5 DEF Removes
<1>. QED BY <1>3, <1>4, <1>5 DEF TargetsAreFiles, Targets

LEMMA RunKeeps ==
  ASSUME Inv, NEW c \in Call, Run(c) PROVE Inv'
<1>. DEFINE gone == InHome(Removes(PartsThatRun(c))) \cap files
<1>1. /\ call[c].at = "run" /\ call[c].at \in Early
      /\ level' = level /\ task' = task /\ log' = log
      /\ removed' = [removed EXCEPT ![c] = gone] /\ files' = files \ gone
      /\ Answer(c, "ran") \/ Answer(c, "error")
  BY DEF Run, At, Early, Heard
<1>2. ran' = ran \cup {c} \/ (ran' = ran /\ PartsThatRun(c) = <<>>)
  BY DEF Run
<1>3. saved' = IF WantsBackup(Req(c)) /\ BackupSucceeds(Cmd(c))
                 THEN [saved EXCEPT ![c] = InHome(Targets(Cmd(c)))] ELSE saved
  BY DEF Run
<1>4. gone \subseteq File /\ gone \subseteq InHome(Removes(PartsThatRun(c)))
  BY DEF Inv, HostTyped
<1>. HIDE DEF gone
<1>5. gone # {} => PartsThatRun(c) # <<>>
  BY <1>4, PartsOfLine DEF InHome
<1>6. /\ saved' \in [Call -> SUBSET File] /\ removed' \in [Call -> SUBSET File]
      /\ removed'[c] = gone
      /\ \A d \in Call \ {c} : saved'[d] = saved[d] /\ removed'[d] = removed[d]
      /\ WantsBackup(Req(c)) /\ BackupSucceeds(Cmd(c)) => saved'[c] = InHome(Targets(Cmd(c)))
  BY <1>1, <1>3, <1>4 DEF Inv, HostTyped, BackupSucceeds
<1>7. PICK text \in {"ran", "error"} : Moves(c, "done", text) /\ call'[c].code = call[c].code
  <2>1. "ran" \in Texts /\ "error" \in Texts
    BY DEF Texts
  <2>. QED BY <1>1, <2>1, AnswerMoves DEF Inv
<1>8. Typed' /\ HostTyped'
  <2>1. Typed'
    BY <1>1, <1>7 DEF Inv, Typed, Moves
  <2>2. ran' \subseteq Call
    BY <1>2 DEF Inv, HostTyped
  <2>3. level' \in Level /\ log' \subseteq Call /\ files' \subseteq File
    BY <1>1 DEF Inv, HostTyped
  <2>. QED BY <1>6, <2>1, <2>2, <2>3 DEF HostTyped
<1>9. \A d \in Call \ {c} : call'[d] = call[d] /\ SameCommand(d) /\ SameFiles(d)
  BY <1>1, <1>2, <1>6, <1>7 DEF Moves, SameCommand, SameFiles
<1>10. /\ Req(c)' = Req(c) /\ Cmd(c)' = Cmd(c)
       /\ call'[c].at = "done" /\ call'[c].answer = text /\ call'[c].code = NoCode
  BY <1>1, <1>7, NothingDone DEF Moves, Req, Cmd
<1>11. /\ Cleared(c) /\ Req(c).entry \in {"execute", "direct"} /\ ~RunsInBackground(Req(c))
  BY <1>1 DEF Inv, CallInv, Ordered
<1>12. Accepted(c)'
  <2>1. Valid(level, Cmd(c))
    BY <1>11 DEF Cleared, Refusal, Cmd, Req
  <2>2. Accepted(c)' = Accepted(c)
    BY <1>1, <1>7, GuardsFixed DEF Moves
  <2>. QED BY <1>11, <2>1, <2>2 DEF Accepted
<1>13. Ordered(c)'
  BY <1>10, <1>12 DEF Ordered, Early, Refusals
<1>14. Covered(c)'
  <2>1. SUFFICES ASSUME Req(c).entry = "execute", IsDeletion(Cmd(c))
                 PROVE  /\ Req(c).backup # "unset"
                        /\ WantsBackup(Req(c)) /\ TargetsAreFiles(Cmd(c)) => gone \subseteq saved'[c]
    BY <1>6, <1>10 DEF Covered
  <2>2. Req(c).backup # "unset"
    BY <1>11, <2>1 DEF Cleared, Refusal, Cmd, Req
  <2>3. ASSUME WantsBackup(Req(c)), TargetsAreFiles(Cmd(c)) PROVE gone \subseteq saved'[c]
    <3>1. CASE BackupSucceeds(Cmd(c))
      BY <1>4, <1>6, <2>3, <3>1, PartsOfLine DEF PartsThatRun
    <3>2. CASE ~BackupSucceeds(Cmd(c))
      BY <1>4, <2>3, <3>2, PartsOfLine DEF PartsThatRun, InHome
    <3>. QED BY <3>1, <3>2
  <2>. QED BY <2>2, <2>3
<1>15. gone # {} => c \in ran'
  BY <1>2, <1>5
<1>16. TaskTrue(c)'
  BY <1>1, <1>6, <1>10, <1>14, <1>15, NothingDone DEF TaskTrue, Forked
<1>. QED BY <1>1, <1>8, <1>9, <1>13, <1>16, OwnKeep

\* The line that starts the task of c reaches the host, and the command has started with
\* it or not.
LaunchEffect(c, starts) ==
  /\ task' = [task EXCEPT ![c] = task'[c]] /\ task'[c] \in TaskRec
  /\ task'[c].cmd = (IF starts THEN "running" ELSE task[c].cmd)
  /\ task'[c].shell = (IF Req(c).kind = "nohup" THEN "alive" ELSE task[c].shell)
  /\ task'[c].exitFile = task[c].exitFile /\ task'[c].code = task[c].code
  /\ task'[c].pidFile = task[c].pidFile
  /\ ran' = IF starts THEN ran \cup {c} ELSE ran
  /\ log' \subseteq Call
  /\ UNCHANGED <<level, files, saved, removed>>

LEMMA LaunchedKeeps ==
  ASSUME Inv, NEW c \in Call, call[c].at = "launch", NEW starts \in BOOLEAN,
         LaunchEffect(c, starts),
         NEW place \in Places \ Early, NEW text, Moves(c, place, text),
         call'[c].code = call[c].code, text # "none" => place = "done",
         place # "run", text \notin Refusals, text # "abnormal"
  PROVE  Inv'
<1>1. /\ level' = level /\ files' = files /\ saved' = saved /\ removed' = removed
      /\ log' \subseteq Call /\ ran' = (IF starts THEN ran \cup {c} ELSE ran)
      /\ task' = [task EXCEPT ![c] = task'[c]] /\ task'[c] \in TaskRec
  BY DEF LaunchEffect
<1>2. call[c].at \in Early
  BY DEF Early
<1>3. Launchable(c) /\ Launchable(c)' /\ Accepted(c)'
  <2>1. Launchable(c)
    BY DEF Inv, CallInv, Ordered
  <2>2. Accepted(c)
    BY <2>1 DEF Launchable, LaunchRefusal, Accepted, Cmd, Req
  <2>. QED BY <1>1, <2>1, <2>2, GuardsFixed DEF Moves
<1>4. Typed' /\ HostTyped'
  <2>1. ran' \subseteq Call
    BY <1>1 DEF Inv, HostTyped
  <2>2. task' \in [Call -> TaskRec]
    BY <1>1 DEF Inv, Typed
  <2>. QED BY <1>1, <2>1, <2>2 DEF Inv, Typed, HostTyped, Moves
<1>5. \A d \in Call \ {c} : call'[d] = call[d] /\ SameCommand(d) /\ SameFiles(d)
  BY <1>1 DEF Moves, SameCommand, SameFiles, Inv, Typed
<1>6. /\ Req(c)' = Req(c) /\ call'[c].at = place /\ call'[c].answer = text
      /\ call'[c].code = NoCode
  BY <1>2, NothingDone DEF Moves, Req
<1>7. Ordered(c)'
  BY <1>3, <1>6 DEF Ordered, Early
<1>8. TaskTrue(c)'
  BY <1>1, <1>2, <1>3, <1>6, NothingDone DEF TaskTrue, LaunchEffect
<1>. QED BY <1>1, <1>4, <1>5, <1>7, <1>8, OwnKeep

LEMMA LaunchKeeps ==
  ASSUME Inv, NEW c \in Call, Launch(c) PROVE Inv'
<1>1. /\ call[c].at = "launch" /\ Req(c).kind = "nohup" /\ Goto(c, "probe")
      /\ UNCHANGED <<level, log, files, saved, removed, ran>>
  BY DEF Launch, At
<1>2. task[c] \in TaskRec /\ task \in [Call -> TaskRec] /\ log \subseteq Call
  BY DEF Inv, Typed, HostTyped
<1>3. LaunchEffect(c, FALSE)
  <2>. DEFINE r == [task[c] EXCEPT !.shell = "alive"]
  <2>1. /\ r \in TaskRec
        /\ r.cmd = task[c].cmd /\ r.shell = "alive" /\ r.exitFile = task[c].exitFile
        /\ r.code = task[c].code /\ r.pidFile = task[c].pidFile
    BY <1>2 DEF TaskRec
  <2>2. task' = [task EXCEPT ![c] = r]
    BY DEF Launch
  <2>. HIDE DEF r
  <2>. QED BY <1>1, <1>2, <2>1, <2>2 DEF LaunchEffect
<1>4. "probe" \in Places \ Early
  BY DEF Places, Early
<1>5. Moves(c, "probe", call[c].answer) /\ call'[c].code = call[c].code
  BY <1>1, <1>4, GotoMoves DEF Inv
<1>6. call[c].answer = "none" /\ "none" \notin Refusals
  BY <1>1, NoAnswerYet DEF Refusals
<1>. QED BY <1>1, <1>3, <1>4, <1>5, <1>6, LaunchedKeeps

LEMMA LaunchScreenKeeps ==
  ASSUME Inv, NEW c \in Call, LaunchScreen(c) PROVE Inv'
<1>1. /\ call[c].at = "launch" /\ Req(c).kind = "screen"
      /\ UNCHANGED <<level, files, saved, removed>>
  BY DEF LaunchScreen, At
<1>2. task[c] \in TaskRec /\ task \in [Call -> TaskRec] /\ log \subseteq Call
  BY DEF Inv, Typed, HostTyped
<1>3. PICK starts \in BOOLEAN : LaunchEffect(c, starts)
  <2>1. CASE UNCHANGED <<task, log, ran>>
    <3>1. LaunchEffect(c, FALSE)
      BY <1>1, <1>2, <2>1 DEF LaunchEffect
    <3>. QED BY <3>1
  <2>2. CASE task' = [task EXCEPT ![c].cmd = "running"] /\ CommandStarts(c)
    <3>. DEFINE r == [task[c] EXCEPT !.cmd = "running"]
    <3>1. r \in TaskRec
      BY <1>2 DEF TaskRec
    <3>2. r.cmd = "running" /\ r.exitFile = task[c].exitFile /\ r.code = task[c].code
          /\ r.pidFile = task[c].pidFile /\ r.shell = task[c].shell
      BY <1>2 DEF TaskRec
    <3>3. task' = [task EXCEPT ![c] = r] /\ log' \subseteq Call /\ ran' = ran \cup {c}
      BY <1>2, <2>2 DEF CommandStarts
    <3>. HIDE DEF r
    <3>4. LaunchEffect(c, TRUE)
      BY <1>1, <1>2, <3>1, <3>2, <3>3 DEF LaunchEffect
    <3>. QED BY <3>1, <3>4
  <2>. QED BY <2>1, <2>2 DEF LaunchScreen
<1>4. \/ \E text \in {"error", "notstarted", "started"} : Answer(c, text)
      \/ call' = [call EXCEPT ![c].at = "waiting", ![c].left = WaitRounds]
  BY DEF LaunchScreen
<1>5. CASE \E text \in {"error", "notstarted", "started"} : Answer(c, text)
  <2>1. PICK text \in {"error", "notstarted", "started"} : Answer(c, text)
    BY <1>5
  <2>2. /\ text \in Texts /\ text \notin Refusals /\ text # "abnormal"
        /\ "done" \in Places \ Early
    BY DEF Texts, Refusals, Places, Early
  <2>3. Moves(c, "done", text) /\ call'[c].code = call[c].code
    BY <2>1, <2>2, AnswerMoves DEF Inv
  <2>. QED BY <1>1, <1>3, <2>2, <2>3, LaunchedKeeps
<1>6. CASE call' = [call EXCEPT ![c].at = "waiting", ![c].left = WaitRounds]
  <2>1. Moves(c, "waiting", call[c].answer) /\ call'[c].code = call[c].code
    <3>1. WaitRounds \in 0 .. WaitRounds
      BY CallAssumption
    <3>. QED BY <1>6, <3>1, WaitMoves
  <2>2. call[c].answer = "none" /\ "none" \notin Refusals
    BY <1>1, NoAnswerYet DEF Refusals
  <2>3. "waiting" \in Places \ Early
    BY DEF Places, Early
  <2>. QED BY <1>1, <1>3, <2>1, <2>2, <2>3, LaunchedKeeps
<1>. QED BY <1>4, <1>5, <1>6

\* A kill takes the shell of a task, of any call, and nothing of its command.
LEMMA KillKeeps ==
  ASSUME Inv, NEW c \in Call, Kill(c) PROVE Inv'
<1>1. /\ call[c].at = "kill" /\ call[c].at \in Early
      /\ level' = level /\ log' = log /\ files' = files /\ saved' = saved
      /\ removed' = removed /\ ran' = ran
      /\ \E text \in {"error", "sent", "killfailed"} : Answer(c, text)
  BY DEF Kill, At, Early, Heard
<1>2. task' \in [Call -> TaskRec] /\ \A d \in Call : SameCommand(d)
  <2>. DEFINE t == Req(c).about
              r == [task[t] EXCEPT !.shell = "killed"]
  <2>1. t \in Call
    BY DEF Inv, Typed, CallRec, RequestType, Req
  <2>2. task[t] \in TaskRec /\ task \in [Call -> TaskRec]
    BY <2>1 DEF Inv, Typed
  <2>3. /\ r \in TaskRec
        /\ r.cmd = task[t].cmd /\ r.pidFile = task[t].pidFile
        /\ r.exitFile = task[t].exitFile /\ r.code = task[t].code
        /\ r.shell = "killed"
    BY <2>2 DEF TaskRec
  <2>4. \/ task[t].shell = "alive" /\ task' = [task EXCEPT ![t] = r]
        \/ task' = task
    BY DEF Kill
  <2>. HIDE DEF t, r
  <2>. QED BY <2>1, <2>2, <2>3, <2>4 DEF SameCommand
<1>3. PICK text \in {"error", "sent", "killfailed"} :
        Moves(c, "done", text) /\ call'[c].code = call[c].code
  <2>1. {"error", "sent", "killfailed"} \subseteq Texts
    BY DEF Texts
  <2>. QED BY <1>1, <2>1, AnswerMoves DEF Inv
<1>4. Typed' /\ HostTyped'
  BY <1>1, <1>2, <1>3 DEF Inv, Typed, HostTyped, Moves
<1>5. \A d \in Call : SameCommand(d) /\ SameFiles(d)
  BY <1>1, <1>2 DEF SameFiles
<1>6. /\ Req(c)' = Req(c) /\ call'[c].at = "done" /\ call'[c].answer = text
      /\ call'[c].code = NoCode
  BY <1>1, <1>3, NothingDone DEF Moves, Req
<1>7. Ordered(c)' /\ TaskTrue(c)'
  BY <1>1, <1>3, <1>5, <1>6, NothingDone DEF Ordered, TaskTrue, Forked, SameCommand, Refusals
<1>. QED BY <1>1, <1>3, <1>4, <1>5, <1>7, OwnKeep DEF Moves

-----------------------------------------------------------------------------
(* What happens on the host by itself.                                     *)

\* The task of c goes on: what is true of it afterwards, whatever c does, is true of all.
LEMMA HostStepKeeps ==
  ASSUME Inv, NEW c \in Call, Forked(c), NEW r \in TaskRec, task' = [task EXCEPT ![c] = r],
         UNCHANGED <<level, call, saved>>, HostTyped',
         \A d \in Call \ {c} : removed'[d] = removed[d],
         ran' = ran \/ ran' = ran \cup {c},
         r.shell # "none" => task[c].shell # "none",
         r.pidFile => r.shell # "none",
         r.cmd # "none" => c \in ran',
         removed'[c] # {} => c \in ran' /\ Covered(c)',
         r.exitFile # NoCode => r.cmd = "ended" /\ r.code = r.exitFile,
         call[c].code # NoCode => r.cmd = "ended" /\ r.code = call[c].code,
         r.shell = "ended" => r.exitFile # NoCode \/ CutShort(c)',
         CutShort(c) => CutShort(c)'
  PROVE  Inv'
<1>1. Ordered(c) /\ TaskTrue(c)
  BY DEF Inv, CallInv
<1>2. task'[c] = r /\ Typed'
  BY DEF Inv, Typed
<1>3. \A d \in Call \ {c} : call'[d] = call[d] /\ SameCommand(d) /\ SameFiles(d)
  BY DEF Inv, Typed, SameCommand, SameFiles
<1>4. Req(c)' = Req(c) /\ Cleared(c)' = Cleared(c) /\ Accepted(c)' = Accepted(c)
      /\ Launchable(c)' = Launchable(c)
  BY GuardsFixed DEF Req
<1>5. Launchable(c) /\ call[c].at \notin Early /\ call[c].answer \notin Refusals
  BY <1>1 DEF TaskTrue
<1>6. Accepted(c)
  BY <1>5 DEF Launchable, LaunchRefusal, Accepted, Cmd, Req
<1>7. Ordered(c)'
  BY <1>1, <1>4, <1>5, <1>6 DEF Ordered
<1>8. TaskTrue(c)'
  BY <1>1, <1>2, <1>4, <1>5 DEF TaskTrue
<1>. QED BY <1>2, <1>3, <1>7, <1>8, OwnKeep

\* Steps that change the record of the task and nothing else.
LEMMA TaskStepKeeps ==
  ASSUME Inv, NEW c \in Call, Forked(c), NEW r \in TaskRec, task' = [task EXCEPT ![c] = r],
         UNCHANGED <<level, call, log, files, saved, removed, ran>>,
         r.shell # "none" => task[c].shell # "none",
         r.pidFile => r.shell # "none",
         r.cmd # "none" => task[c].cmd # "none",
         r.exitFile # NoCode => r.cmd = "ended" /\ r.code = r.exitFile,
         task[c].cmd = "ended" => r.cmd = "ended" /\ r.code = task[c].code,
         r.shell = "ended" => r.exitFile # NoCode \/ CutShort(c)',
         CutShort(c) => CutShort(c)'
  PROVE  Inv'
<1>1. TaskTrue(c)
  BY DEF Inv, CallInv
<1>2. HostTyped'
  BY DEF Inv, HostTyped
<1>3. Covered(c)' = Covered(c)
  BY GuardsFixed DEF SameFiles
<1>. QED BY <1>1, <1>2, <1>3, HostStepKeeps DEF TaskTrue

LEMMA ShellSteps ==
  ASSUME Inv, NEW c \in Call, WritePid(c) \/ ListFails(c) \/ ShellEnds(c)
  PROVE  Inv'
<1>1. task[c] \in TaskRec /\ TaskTrue(c) /\ Forked(c)
  BY DEF Inv, Typed, CallInv, WritePid, ListFails, ShellEnds, Forked
<1>2. CASE WritePid(c)
  <2>. DEFINE r == [task[c] EXCEPT !.pidFile = TRUE]
  <2>1. /\ r \in TaskRec /\ r.pidFile
        /\ r.shell = task[c].shell /\ r.cmd = task[c].cmd
        /\ r.exitFile = task[c].exitFile /\ r.code = task[c].code
    BY <1>1 DEF TaskRec
  <2>2. task' = [task EXCEPT ![c] = r]
    BY <1>2 DEF WritePid
  <2>. HIDE DEF r
  <2>3. CutShort(c)' = CutShort(c)
    BY <1>2, <2>1, <2>2 DEF CutShort, Cmd, WritePid, Inv, Typed
  <2>4. /\ task[c].shell # "none"
        /\ UNCHANGED <<level, call, log, files, saved, removed, ran>>
    BY <1>2 DEF WritePid
  <2>. QED BY <1>1, <2>1, <2>2, <2>3, <2>4, TaskStepKeeps DEF TaskTrue
<1>3. CASE ListFails(c) \/ ShellEnds(c)
  <2>. DEFINE r == [task[c] EXCEPT !.shell = "ended"]
  <2>1. /\ r \in TaskRec /\ r.shell = "ended"
        /\ r.pidFile = task[c].pidFile /\ r.cmd = task[c].cmd
        /\ r.exitFile = task[c].exitFile /\ r.code = task[c].code
    BY <1>1 DEF TaskRec
  <2>2. /\ task' = [task EXCEPT ![c] = r] /\ task[c].shell = "alive"
        /\ UNCHANGED <<level, call, log, files, saved, removed, ran>>
    BY <1>3 DEF ListFails, ShellEnds
  <2>3. \/ task[c].cmd = "none"
        \/ task[c].cmd = "died"
        \/ task[c].cmd = "ended" /\ (~Cmd(c).leaves => task[c].exitFile # NoCode)
    <3>1. Req(c).kind = "nohup"
      BY <1>1, <2>2 DEF TaskTrue
    <3>. QED BY <1>3, <3>1 DEF ListFails, ShellEnds, WritesExit
  <2>. HIDE DEF r
  <2>4. task'[c] = r /\ Cmd(c)' = Cmd(c)
    BY <2>2 DEF Cmd, Inv, Typed
  <2>5. CutShort(c) => CutShort(c)'
    BY <2>1, <2>2, <2>4 DEF CutShort
  <2>6. r.exitFile # NoCode \/ CutShort(c)'
    BY <2>1, <2>3, <2>4 DEF CutShort
  <2>. QED BY <1>1, <2>1, <2>2, <2>5, <2>6, TaskStepKeeps DEF TaskTrue
<1>. QED BY <1>2, <1>3

LEMMA WriteExitKeeps ==
  ASSUME Inv, NEW c \in Call, WriteExit(c) PROVE Inv'
<1>1. task[c] \in TaskRec /\ TaskTrue(c) /\ task[c].cmd = "ended" /\ Forked(c)
  BY DEF Inv, Typed, CallInv, WriteExit, WritesExit, Forked
<1>. DEFINE r == [task[c] EXCEPT !.exitFile = task[c].code]
<1>2. /\ r \in TaskRec /\ r.exitFile = task[c].code /\ r.code = task[c].code
      /\ r.shell = task[c].shell /\ r.cmd = "ended" /\ r.pidFile = task[c].pidFile
  BY <1>1 DEF TaskRec
<1>3. task' = [task EXCEPT ![c] = r]
  BY DEF WriteExit
<1>. HIDE DEF r
<1>4. task'[c] = r /\ Cmd(c)' = Cmd(c)
  BY <1>3 DEF WriteExit, Cmd, Inv, Typed
<1>5. CutShort(c)' = CutShort(c)
  BY <1>1, <1>2, <1>4 DEF CutShort
<1>6. r.shell = "ended" => r.exitFile # NoCode \/ CutShort(c)'
  <2>1. task[c].exitFile = NoCode
    BY DEF WriteExit
  <2>. QED BY <1>1, <1>2, <1>5, <2>1 DEF TaskTrue
<1>. QED BY <1>1, <1>2, <1>3, <1>5, <1>6, TaskStepKeeps DEF WriteExit, TaskTrue

LEMMA CommandBeginsKeeps ==
  ASSUME Inv, NEW c \in Call, CommandBegins(c) PROVE Inv'
<1>1. /\ task[c] \in TaskRec /\ TaskTrue(c) /\ Forked(c)
      /\ task[c].shell = "alive" /\ task[c].cmd = "none"
  BY DEF Inv, Typed, CallInv, CommandBegins, Forked
<1>. DEFINE r == [task[c] EXCEPT !.cmd = "running"]
<1>2. /\ r \in TaskRec /\ r.exitFile = task[c].exitFile /\ r.code = task[c].code
      /\ r.shell = "alive" /\ r.cmd = "running" /\ r.pidFile = task[c].pidFile
  BY <1>1 DEF TaskRec
<1>3. /\ task' = [task EXCEPT ![c] = r] /\ ran' = ran \cup {c}
      /\ UNCHANGED <<level, call, files, saved, removed>>
  BY DEF CommandBegins, CommandStarts
<1>. HIDE DEF r
<1>4. task'[c] = r /\ Cmd(c)' = Cmd(c)
  BY <1>3 DEF Cmd, Inv, Typed
<1>5. CutShort(c) => CutShort(c)'
  BY <1>1, <1>4 DEF CutShort
<1>6. HostTyped'
  <2>1. log' \subseteq Call
    BY DEF CommandBegins, CommandStarts, Inv, HostTyped
  <2>. QED BY <1>3, <2>1 DEF Inv, HostTyped
<1>7. removed'[c] # {} => c \in ran' /\ Covered(c)'
  <2>1. removed[c] # {} => c \in ran /\ Covered(c)
    BY <1>1 DEF TaskTrue
  <2>2. c \in ran => Covered(c)' = Covered(c)
    BY <1>3, GuardsFixed DEF SameFiles
  <2>. QED BY <1>3, <2>1, <2>2
<1>. QED BY <1>1, <1>2, <1>3, <1>5, <1>6, <1>7, HostStepKeeps DEF TaskTrue

LEMMA CommandDiesKeeps ==
  ASSUME Inv, NEW c \in Call, CommandDies(c) PROVE Inv'
<1>1. task[c] \in TaskRec /\ TaskTrue(c) /\ Forked(c) /\ task[c].cmd = "running"
  BY DEF Inv, Typed, CallInv, CommandDies, Forked
<1>. DEFINE r == [task[c] EXCEPT !.cmd = "died"]
<1>2. /\ r \in TaskRec /\ r.exitFile = task[c].exitFile /\ r.code = task[c].code
      /\ r.shell = task[c].shell /\ r.cmd = "died" /\ r.pidFile = task[c].pidFile
  BY <1>1 DEF TaskRec
<1>3. task' = [task EXCEPT ![c] = r]
  BY DEF CommandDies
<1>. HIDE DEF r
<1>4. CutShort(c)'
  BY <1>2, <1>3 DEF CutShort, Inv, Typed
<1>. QED BY <1>1, <1>2, <1>3, <1>4, TaskStepKeeps DEF CommandDies, TaskTrue

\* What a background deletion removes is in its backup.
LEMMA CommandEndsKeeps ==
  ASSUME Inv, NEW c \in Call, CommandEnds(c) PROVE Inv'
<1>. DEFINE gone == ({Req(c).workdir} \X Removes(Cmd(c).parts)) \cap files
<1>1. /\ task[c] \in TaskRec /\ TaskTrue(c) /\ Forked(c) /\ task[c].cmd = "running"
  BY DEF Inv, Typed, CallInv, CommandEnds, Forked
<1>2. PICK code \in Code : task' = [task EXCEPT ![c].cmd = "ended", ![c].code = code]
  BY DEF CommandEnds
<1>. DEFINE r == [task[c] EXCEPT !.cmd = "ended", !.code = code]
<1>3. /\ r \in TaskRec /\ r.exitFile = task[c].exitFile
      /\ r.shell = task[c].shell /\ r.cmd = "ended" /\ r.pidFile = task[c].pidFile
  BY <1>1 DEF TaskRec
<1>4. task' = [task EXCEPT ![c] = r]
  BY <1>2
<1>. HIDE DEF r
<1>5. /\ removed' = [removed EXCEPT ![c] = gone] /\ files' = files \ gone
      /\ UNCHANGED <<level, call, log, saved, ran>> /\ gone \subseteq File
  BY DEF CommandEnds, Inv, HostTyped
<1>6. gone \subseteq {Req(c).workdir} \X Removes(Cmd(c).parts)
  OBVIOUS
<1>. HIDE DEF gone
<1>7. /\ HostTyped' /\ removed'[c] = gone
      /\ \A d \in Call \ {c} : removed'[d] = removed[d]
  BY <1>5 DEF Inv, HostTyped
<1>8. Req(c)' = Req(c) /\ Cmd(c)' = Cmd(c) /\ c \in ran /\ Launchable(c)
      /\ task[c].exitFile = NoCode /\ call[c].code = NoCode
  BY <1>1, <1>5 DEF TaskTrue, Req, Cmd
<1>9. Covered(c)'
  <2>1. SUFFICES ASSUME Req(c).entry = "execute", IsDeletion(Cmd(c))
                 PROVE  /\ Req(c).backup # "unset"
                        /\ WantsBackup(Req(c)) /\ TargetsAreFiles(Cmd(c))
                           /\ Req(c).workdir = "home" => gone \subseteq saved[c]
    BY <1>5, <1>7, <1>8 DEF Covered, Launchable
  <2>2. Req(c).backup # "unset"
    BY <1>8, <2>1 DEF Launchable, Cleared, Refusal, Cmd, Req
  <2>3. ASSUME WantsBackup(Req(c)), TargetsAreFiles(Cmd(c)), Req(c).workdir = "home"
        PROVE  gone \subseteq saved[c]
    <3>1. Removes(Cmd(c).parts) = Targets(Cmd(c))
      BY <2>3, PartsOfLine
    <3>. QED BY <1>6, <1>8, <2>3, <3>1 DEF Launchable, InHome
  <2>. QED BY <2>2, <2>3
<1>10. CutShort(c) => CutShort(c)'
  <2>1. task'[c] = r
    BY <1>4 DEF Inv, Typed
  <2>. QED BY <1>1, <1>3, <1>8, <2>1 DEF CutShort
<1>11. r.shell = "ended" => r.exitFile # NoCode \/ CutShort(c)'
  BY <1>1, <1>3, <1>10 DEF TaskTrue
<1>. QED BY <1>1, <1>3, <1>4, <1>5, <1>7, <1>8, <1>9, <1>10, <1>11, HostStepKeeps DEF TaskTrue

-----------------------------------------------------------------------------
(* The invariant, and what follows from it.                                *)

LEMMA InvInit == Init => Inv
<1>. SUFFICES ASSUME Init PROVE Inv
  OBVIOUS
<1>1. PICK r \in Scenario :
        call = [c \in Call |-> [at |-> "idle", req |-> r[c], left |-> 0, code |-> NoCode,
                                output |-> {}, answer |-> "none"]]
  BY DEF Init
<1>2. r \in [Call -> RequestType]
  BY CallAssumption
<1>3. call \in [Call -> CallRec]
  BY <1>1, <1>2, CallAssumption DEF CallRec, Places, Texts
<1>4. NoTask \in TaskRec
  BY DEF NoTask, TaskRec
<1>5. Typed /\ HostTyped
  BY <1>3, <1>4 DEF Init, Typed, HostTyped
<1>6. ASSUME NEW c \in Call
      PROVE  /\ call[c].at = "idle" /\ call[c].answer = "none" /\ call[c].code = NoCode
             /\ task[c].cmd = "none" /\ task[c].shell = "none" /\ ~task[c].pidFile
             /\ task[c].exitFile = NoCode /\ removed[c] = {} /\ c \notin ran
  BY <1>1 DEF Init, NoTask
<1>7. CallInv
  BY <1>6 DEF CallInv, Ordered, TaskTrue, Forked, Refusals
<1>. QED BY <1>5, <1>7 DEF Inv

LEMMA StepKeeps == Inv /\ Next => Inv'
<1>. SUFFICES ASSUME Inv, NEW c \in Call,
                     Work(c) \/ NoSession(c) \/ Fails(c) \/ OnHost(c)
              PROVE  Inv'
  BY DEF Next
<1>1. CASE \/ Start(c) \/ NoSession(c) \/ Refused(c) \/ LookUpTask(c) \/ BackUpFirst(c)
           \/ LaunchAtOnce(c) \/ RunInForeground(c) \/ NoSudo(c) \/ Fails(c)
  BY <1>1, EntrySteps
<1>2. CASE Backup(c)
  BY <1>2, BackupKeeps
<1>3. CASE Run(c)
  BY <1>3, RunKeeps
<1>4. CASE Launch(c)
  BY <1>4, LaunchKeeps
<1>5. CASE LaunchScreen(c)
  BY <1>5, LaunchScreenKeeps
<1>6. CASE Probe(c) \/ ProbeUnheard(c)
  BY <1>6, ProbeKeeps, ProbeUnheardKeeps
<1>7. CASE \/ StillRunning(c) \/ SeemsEnded(c) \/ WaitTimesOut(c) \/ ReadExit(c) \/ ReadLog(c)
  BY <1>7, WaitSteps
<1>8. CASE ReadPid(c) \/ Status(c)
  BY <1>8, LookUpSteps
<1>9. CASE Kill(c)
  BY <1>9, KillKeeps
<1>10. CASE OnHost(c)
  <2>1. CASE WritePid(c) \/ ListFails(c) \/ ShellEnds(c)
    BY <2>1, ShellSteps
  <2>2. CASE CommandBegins(c)
    BY <2>2, CommandBeginsKeeps
  <2>3. CASE CommandEnds(c)
    BY <2>3, CommandEndsKeeps
  <2>4. CASE CommandDies(c)
    BY <2>4, CommandDiesKeeps
  <2>5. CASE WriteExit(c)
    BY <2>5, WriteExitKeeps
  <2>. QED BY <1>10, <2>1, <2>2, <2>3, <2>4, <2>5 DEF OnHost
<1>. QED BY <1>1, <1>2, <1>3, <1>4, <1>5, <1>6, <1>7, <1>8, <1>9, <1>10 DEF Work

LEMMA StutterKeeps == Inv /\ UNCHANGED vars => Inv'
<1>. SUFFICES ASSUME Inv, UNCHANGED vars PROVE Inv'
  OBVIOUS
<1>1. Typed' /\ HostTyped'
  BY DEF Inv, Typed, HostTyped, vars
<1>2. ASSUME NEW c \in Call PROVE Ordered(c)' /\ TaskTrue(c)'
  <2>1. SameCommand(c) /\ SameFiles(c) /\ call'[c] = call[c] /\ level' = level
    BY DEF vars, SameCommand, SameFiles
  <2>. QED BY <2>1, OthersKeep
<1>. QED BY <1>1, <1>2 DEF Inv, CallInv

LEMMA InvAlways == Spec => []Inv
<1>1. Inv /\ [Next]_vars => Inv'
  BY StepKeeps, StutterKeeps
<1>. QED BY InvInit, <1>1, PTL DEF Spec

\* Type correctness of the calls, the tasks and the host.
THEOREM CallTypeCorrect == Spec => []TypeOK
<1>1. Inv => TypeOK
  BY TypeParts DEF Inv
<1>. QED BY <1>1, InvAlways, PTL

\* Through none of the four ways to the host - at once, as a task, after a backup, by
\* another tool - does a command start that the level does not accept or, from ssh_execute,
\* that was not confirmed.
THEOREM PolicyAlwaysHolds == Spec => []PolicyHolds
<1>1. Inv => PolicyHolds
  <2>. SUFFICES ASSUME Inv, NEW c \in ran
                PROVE  /\ Valid(level, Cmd(c))
                       /\ Req(c).entry = "execute" => Confirmed(Cmd(c), Req(c).confirm, Req(c).layer)
    BY DEF PolicyHolds
  <2>1. c \in Call
    BY DEF Inv, HostTyped
  <2>2. Accepted(c)
    BY <2>1 DEF Inv, CallInv, Ordered
  <2>3. Req(c).entry = "execute" => Confirmed(Req(c).cmd, Req(c).confirm, Req(c).layer)
    BY <2>2 DEF Accepted, Cleared, Refusal
  <2>. QED BY <2>2, <2>3 DEF Accepted, Cmd, Req
<1>. QED BY <1>1, InvAlways, PTL

\* After an answer that says a command was not run, it has not run and nothing is deleted,
\* whatever was lost on the way.
THEOREM RefusalsTrue == Spec => []RefusedMeansNotRun
<1>1. Inv => RefusedMeansNotRun
  <2>. SUFFICES ASSUME Inv, NEW c \in Call, call[c].answer \in Refusals
                PROVE  c \notin ran /\ removed[c] = {}
    BY DEF RefusedMeansNotRun, Refusals
  <2>1. Ordered(c) /\ TaskTrue(c)
    BY DEF Inv, CallInv
  <2>. QED BY <2>1 DEF Ordered, TaskTrue
<1>. QED BY <1>1, InvAlways, PTL

\* What ssh_execute deletes with a backup is in the backup, with any number of calls that
\* delete the same files, and nothing is deleted before the caller has chosen.
THEOREM BackupAlwaysFirst == Spec => []BackupFirst
<1>1. Inv => BackupFirst
  <2>. SUFFICES ASSUME Inv, NEW c \in Call, removed[c] # {} PROVE Covered(c)
    BY DEF BackupFirst, Covered
  <2>. QED BY DEF Inv, CallInv, TaskTrue
<1>. QED BY <1>1, InvAlways, PTL

\* A code that is reported of a background task is the code its command ended with, for any
\* number of calls that stop tasks.
THEOREM VerdictsTrue == Spec => []VerdictTrue
<1>1. Inv => VerdictTrue
  <2>. SUFFICES ASSUME Inv, NEW c \in Call, call[c].code # NoCode
                PROVE  task[c].cmd = "ended" /\ task[c].code = call[c].code
    BY DEF VerdictTrue
  <2>. QED BY DEF Inv, CallInv, TaskTrue
<1>. QED BY <1>1, InvAlways, PTL

\* A command that ran to its end, with its shell and its wrapper alone, is never reported
\* as terminated abnormally, for any number of tasks and of calls that stop them.
THEOREM AbnormalMeansCutCorrect == Spec => []AbnormalMeansCut
<1>1. Inv => AbnormalMeansCut
  BY DEF Inv, CallInv, TaskTrue, AbnormalMeansCut
<1>. QED BY <1>1, InvAlways, PTL
==============================================================================
