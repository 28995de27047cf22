--------------------------------- MODULE Host ---------------------------------
(***************************************************************************)
(* The bot on its host: a Claude session in tmux that cron keeps alive     *)
(* (deploy/respawn.sh), and the setup and uninstall commands               *)
(* (server/src/setup.ts, vps.ts and uninstall.ts) that put the script and  *)
(* the schedule there and take them away.  Every respawn runs setup before *)
(* it launches, so that a new version of the plugin installs its own       *)
(* script; the jobs of cron and the commands of a person are processes of  *)
(* the operating system and interleave at every system call.               *)
(*                                                                         *)
(* Both cron lines are due at minute 0 of every sixth hour.  The script    *)
(* stands for the three files that setup writes in the same way.  .env,    *)
(* which only the first setup writes, and the other lines of the crontab   *)
(* are left out, no process is killed between two of its steps, and a      *)
(* shell reads the script in one go: what it makes of a script that is     *)
(* filled while it runs is not modelled.                                   *)
(***************************************************************************)

CONSTANTS
  Hands,     \* the shells a person works in
  Versions   \* the versions of the plugin, which differ in the script

\* The two lines of the crontab, each of which runs one process at a time.
Crons == {"five", "six"}

Processes == Crons \union Hands

\* A file may be absent, truncated, or hold one version written over another.
Contents == Versions \union {"absent", "empty", "mixed"}

ASSUME HostAssumption ==
  /\ Hands \intersect Crons = {}
  /\ Versions # {}
  /\ Versions \intersect {"none", "absent", "empty", "mixed"} = {}

VARIABLES
  version,    \* the plugin's newest version in the cache
  script,     \* respawn.sh
  temp,       \* respawn.sh.tmp, one name for all writers
  runs,       \* which of the two names has a file that may be executed
  scheduled,  \* whether the crontab has the two lines
  session,    \* the tmux session: "none", at the "prompt" of the launch, or "up"
  step,       \* where each process is
  respawns,   \* whether its setup is that of a respawn, which goes on to launch
  installs,   \* the version its setup installs, or "none"
  writes      \* the file under the descriptor a process writes to

vars == <<version, script, temp, runs, scheduled, session, step, respawns, installs, writes>>

files == <<script, temp, runs, writes>>
task == <<respawns, installs>>

Steps == {"idle", "refresh", "check", "exists", "compare", "open", "fill", "chmod", "rename",
          "schedule", "launch", "press", "unschedule", "remove"}

Init ==
  /\ version \in Versions
  /\ script = "absent"
  /\ temp = "absent"
  /\ runs = {}
  /\ scheduled = FALSE
  /\ session = "none"
  /\ step = [p \in Processes |-> "idle"]
  /\ respawns = [p \in Processes |-> FALSE]
  /\ installs = [p \in Processes |-> "none"]
  /\ writes = [p \in Processes |-> "nothing"]

Go(p, s) == step' = [step EXCEPT ![p] = s] /\ UNCHANGED task

BeginSetup(p, respawn) ==
  /\ step' = [step EXCEPT ![p] = "exists"]
  /\ respawns' = [respawns EXCEPT ![p] = respawn]
  /\ installs' = [installs EXCEPT ![p] = version]

\* respawn.sh does not look at how setup has ended.
EndSetup(p) ==
  /\ step' = [step EXCEPT ![p] = IF respawns[p] THEN "launch" ELSE "idle"]
  /\ respawns' = [respawns EXCEPT ![p] = FALSE]
  /\ installs' = [installs EXCEPT ![p] = "none"]

-----------------------------------------------------------------------------
(***************************************************************************)
(* respawn.sh                                                              *)
(***************************************************************************)
\* Cron and people start the script by its name, so it has to be executable.  A
\* shell finds nothing to run in an empty one.  A mixed one holds all of the
\* version that was written last and then a rest of the other.
Runnable == script \notin {"absent", "empty"} /\ "script" \in runs

\* "*/5 * * * * respawn.sh", or a person who types it.
Respawn(p) ==
  /\ step[p] = "idle"
  /\ p \in Crons => p = "five" /\ scheduled
  /\ Runnable
  /\ Go(p, "check")
  /\ UNCHANGED <<version, files, scheduled, session>>

\* Mutant: the second line of the crontab does not kill the session.
FaultKill(p) ==
  /\ step[p] = "idle"
  /\ p = "six" /\ scheduled
  /\ Go(p, "refresh")
  /\ UNCHANGED <<version, files, scheduled, session>>

\* "0 */6 * * * tmux kill-session; respawn.sh": the session is killed first.
Kill(p) ==
  /\ step[p] = "idle"
  /\ p = "six" /\ scheduled
  /\ session' = "none"
  /\ Go(p, "refresh")
  /\ UNCHANGED <<version, files, scheduled>>

Refresh(p) ==
  /\ step[p] = "refresh"
  /\ Go(p, IF Runnable THEN "check" ELSE "idle")
  /\ UNCHANGED <<version, files, scheduled, session>>

\* Mutant: the respawn launches without a setup.
FaultCheck(p) ==
  /\ step[p] = "check"
  /\ Go(p, IF session # "none" THEN "idle" ELSE "launch")
  /\ UNCHANGED <<version, files, scheduled, session>>

\* A session that is there is left alone; otherwise the newest setup comes first.
Check(p) ==
  /\ step[p] = "check"
  /\ IF session # "none"
     THEN Go(p, "idle")
     ELSE BeginSetup(p, TRUE)
  /\ UNCHANGED <<version, files, scheduled, session>>

\* tmux refuses a second session of the name.
Launch(p) ==
  /\ step[p] = "launch"
  /\ session' = IF session = "none" THEN "prompt" ELSE session
  /\ Go(p, "press")
  /\ UNCHANGED <<version, files, scheduled>>

\* The prompt is on the screen within the twenty seconds, and is answered.
Press(p) ==
  /\ step[p] = "press"
  /\ session = "prompt"
  /\ session' = "up"
  /\ Go(p, "idle")
  /\ UNCHANGED <<version, files, scheduled>>

\* It is not: a session that is still to show it will wait there.
GiveUp(p) ==
  /\ step[p] = "press"
  /\ Go(p, "idle")
  /\ UNCHANGED <<version, files, scheduled, session>>

-----------------------------------------------------------------------------
(***************************************************************************)
(* runSetup                                                                *)
(***************************************************************************)
Setup(p) ==
  /\ step[p] = "idle"
  /\ p \in Hands
  /\ BeginSetup(p, FALSE)
  /\ UNCHANGED <<version, files, scheduled, session>>

\* install: existsSync ...
Exists(p) ==
  /\ step[p] = "exists"
  /\ Go(p, IF script = "absent" THEN "open" ELSE "compare")
  /\ UNCHANGED <<version, files, scheduled, session>>

\* ... and readFileSync, which throws when an uninstall has come in between.  A
\* file that is the template already is not written, whatever its mode is.
Compare(p) ==
  /\ step[p] = "compare"
  /\ IF script = "absent"
     THEN EndSetup(p)
     ELSE Go(p, IF script = installs[p] THEN "schedule" ELSE "open")
  /\ UNCHANGED <<version, files, scheduled, session>>

\* Mutant: the write is not waited for, and the file is closed before.
FaultOpen(p) ==
  /\ step[p] = "open"
  /\ temp' = "empty"
  /\ runs' = IF temp = "absent" THEN runs \ {"temp"} ELSE runs
  /\ Go(p, "chmod")
  /\ UNCHANGED <<version, script, writes, scheduled, session>>

\* writeFileSync opens the temporary file, which another setup may be using too:
\* a new file is not executable, an old one is truncated and keeps its mode.
Open(p) ==
  /\ step[p] = "open"
  /\ temp' = "empty"
  /\ runs' = IF temp = "absent" THEN runs \ {"temp"} ELSE runs
  /\ writes' = [writes EXCEPT ![p] = "temp"]
  /\ Go(p, "fill")
  /\ UNCHANGED <<version, script, scheduled, session>>

Over(old, new) == IF old \in {"empty", new} THEN new ELSE "mixed"

\* Mutant: the file is still open when it is renamed.
FaultFill(p) ==
  /\ step[p] = "fill"
  /\ temp' = IF writes[p] = "temp" THEN Over(temp, installs[p]) ELSE temp
  /\ Go(p, "chmod")
  /\ UNCHANGED <<version, script, runs, writes, scheduled, session>>

\* The content goes to the file that was opened, whatever its name is by now.
Fill(p) ==
  /\ step[p] = "fill"
  /\ temp' = IF writes[p] = "temp" THEN Over(temp, installs[p]) ELSE temp
  /\ script' = IF writes[p] = "script" THEN Over(script, installs[p]) ELSE script
  /\ writes' = [writes EXCEPT ![p] = "nothing"]
  /\ Go(p, "chmod")
  /\ UNCHANGED <<version, runs, scheduled, session>>

\* Mutant: the mode is set at the place the script is to have.
FaultChmod(p) ==
  /\ step[p] = "chmod"
  /\ runs' = IF script = "absent" THEN runs ELSE runs \union {"script"}
  /\ Go(p, "rename")
  /\ UNCHANGED <<version, script, temp, writes, scheduled, session>>

\* chmodSync goes by the name: it changes the file another setup has put there
\* since, or none, and then the error is swallowed.
Chmod(p) ==
  /\ step[p] = "chmod"
  /\ runs' = IF temp = "absent" THEN runs ELSE runs \union {"temp"}
  /\ Go(p, "rename")
  /\ UNCHANGED <<version, script, temp, writes, scheduled, session>>

\* Where the descriptors point once the temporary file is the script.
Renamed(w) == CASE w = "temp" -> "script" [] w = "script" -> "nothing" [] OTHER -> w

\* renameSync throws, and setup ends there, when another one was faster.
Rename(p) ==
  /\ step[p] = "rename"
  /\ IF temp = "absent"
     THEN EndSetup(p) /\ UNCHANGED files
     ELSE /\ script' = temp
          /\ temp' = "absent"
          /\ runs' = IF "temp" \in runs THEN {"script"} ELSE {}
          /\ writes' = [q \in Processes |-> Renamed(writes[q])]
          /\ Go(p, "schedule")
  /\ UNCHANGED <<version, scheduled, session>>

\* installCron, which may fail.
Schedule(p) ==
  /\ step[p] = "schedule"
  /\ scheduled' \in {TRUE, scheduled}
  /\ EndSetup(p)
  /\ UNCHANGED <<version, files, session>>

-----------------------------------------------------------------------------
(***************************************************************************)
(* runUninstall                                                            *)
(***************************************************************************)
Uninstall(p) ==
  /\ step[p] = "idle"
  /\ p \in Hands
  /\ session' = "none"
  /\ Go(p, "unschedule")
  /\ UNCHANGED <<version, files, scheduled>>

Unschedule(p) ==
  /\ step[p] = "unschedule"
  /\ scheduled' \in {FALSE, scheduled}
  /\ Go(p, "remove")
  /\ UNCHANGED <<version, files, session>>

\* Who writes to the removed file writes to nothing that has a name.
Remove(p) ==
  /\ step[p] = "remove"
  /\ script' = "absent"
  /\ runs' = runs \ {"script"}
  /\ writes' = [q \in Processes |-> IF writes[q] = "script" THEN "nothing" ELSE writes[q]]
  /\ Go(p, "idle")
  /\ UNCHANGED <<version, temp, scheduled, session>>

-----------------------------------------------------------------------------
\* Claude exits, or a person kills the session.
SessionEnds ==
  /\ session # "none"
  /\ session' = "none"
  /\ UNCHANGED <<version, files, task, scheduled, step>>

PluginChanges ==
  /\ version' \in Versions \ {version}
  /\ UNCHANGED <<files, task, scheduled, session, step>>

Goes(p) ==
  \/ Refresh(p) \/ Check(p) \/ Launch(p) \/ Press(p) \/ GiveUp(p)
  \/ Exists(p) \/ Compare(p) \/ Open(p) \/ Fill(p) \/ Chmod(p) \/ Rename(p) \/ Schedule(p)
  \/ Unschedule(p) \/ Remove(p)

CronRuns == Respawn("five") \/ Kill("six")

HandRuns(p) == Respawn(p) \/ Setup(p) \/ Uninstall(p)

Next ==
  \/ CronRuns
  \/ \E p \in Hands : HandRuns(p)
  \/ \E p \in Processes : Goes(p)
  \/ SessionEnds
  \/ PluginChanges

\* Processes run to their ends, cron is punctual, and of all launches some show
\* their prompt in time.
Fairness ==
  /\ \A p \in Processes : WF_vars(Goes(p)) /\ SF_vars(Press(p))
  /\ WF_vars(Respawn("five"))
  /\ WF_vars(Kill("six"))

Spec == Init /\ [][Next]_vars /\ Fairness

-----------------------------------------------------------------------------
TypeOK ==
  /\ version \in Versions
  /\ {script, temp} \subseteq Contents
  /\ runs \subseteq {"script", "temp"}
  /\ scheduled \in BOOLEAN
  /\ session \in {"none", "prompt", "up"}
  /\ step \in [Processes -> Steps]
  /\ respawns \in [Processes -> BOOLEAN]
  /\ installs \in [Processes -> Versions \union {"none"}]
  /\ writes \in [Processes -> {"temp", "script", "nothing"}]
  /\ \A p \in Processes :
       writes[p] = "temp" => step[p] = "fill" /\ temp # "absent"

\* Setups that race for one temporary name may put a truncated script in place,
\* but the one that truncated it is about to fill it: no script stays empty.
ScriptSettles ==
  script = "empty" => \E p \in Processes : step[p] = "fill" /\ writes[p] = "script"

\* A script is put in place without its mode only while another setup is between
\* the creation of the temporary file and its chmod: one that is not raced leaves a
\* script that cron can start.
LosesMode ==
  /\ script' # "absent" /\ "script" \notin runs'
  /\ script = "absent" \/ "script" \in runs

KeepsMode == [][LosesMode => \E p \in Processes : step[p] \in {"fill", "chmod"}]_vars

\* The bot is installed, and nobody has taken the script's mode away: of setups
\* that race for the temporary name one may put a file into place that another has
\* just created, after its own chmod and before the other's.
Installed == scheduled /\ script # "absent" /\ "script" \in runs

\* As long as the bot stays installed its session comes up again and again,
\* whatever sessions end, setups race, and prompts stay unanswered: also a session
\* that waits at the prompt is replaced.
SessionComesBack == <>[]Installed => []<>(session = "up")

\* Once the plugin has stopped changing, its script takes the place of the old one
\* by itself: no earlier version, nor a mixed file, stays or comes back.
UpdatesLand ==
  <>[]Installed => \/ []<><<PluginChanges>>_vars
                   \/ <>[](script \in {version, "empty"})
===============================================================================
