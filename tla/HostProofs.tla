------------------------------ MODULE HostProofs ------------------------------
(***************************************************************************)
(* The host: whatever setups, respawns and uninstalls interleave, no       *)
(* script stays empty, and only a race takes its mode away.                *)
(***************************************************************************)
EXTENDS Host, TLAPS

(***************************************************************************)
(* The inductive invariant.  A script is empty only because an empty       *)
(* temporary file was renamed, so whoever emptied that one has to be known *)
(* before the rename (TempSettles); and what its writer puts there has to  *)
(* be a version, since an Over with "none" would settle nothing            *)
(* (SetupKnows).  A temporary file that is not executable was created by   *)
(* a setup that has not come to its chmod (ModeComes).                     *)
(***************************************************************************)
InSetup == {"exists", "compare", "open", "fill", "chmod", "rename", "schedule"}

Writing == {"fill", "chmod"}

SetupKnows == \A p \in Processes : step[p] \in InSetup => installs[p] \in Versions

TempSettles ==
  temp = "empty" => \E p \in Processes : step[p] = "fill" /\ writes[p] = "temp"

ModeComes ==
  temp # "absent" /\ "temp" \notin runs => \E p \in Processes : step[p] \in Writing

IInv == TypeOK /\ SetupKnows /\ TempSettles /\ ScriptSettles /\ ModeComes

-----------------------------------------------------------------------------
LEMMA InitInvariant == Init => IInv
<1> SUFFICES ASSUME Init PROVE IInv
  OBVIOUS
<1>1. TypeOK
  BY DEF Init, TypeOK, Contents, Steps
<1>2. SetupKnows /\ TempSettles /\ ScriptSettles /\ ModeComes
  BY DEF Init, SetupKnows, InSetup, TempSettles, ScriptSettles, ModeComes
<1> QED
  BY <1>1, <1>2 DEF IInv

(***************************************************************************)
(* A step of a process that opens, fills and renames nothing.              *)
(***************************************************************************)
LEMMA Elsewhere ==
  ASSUME IInv, UNCHANGED files,
         NEW p \in Processes, NEW s \in Steps \ Writing, step[p] \notin Writing,
         step' = [step EXCEPT ![p] = s],
         s \in InSetup => installs'[p] \in Versions,
         UNCHANGED task \/ EndSetup(p) \/ \E r \in BOOLEAN : BeginSetup(p, r),
         version' \in Versions, scheduled' \in BOOLEAN, session' \in {"none", "prompt", "up"}
  PROVE  IInv'
<1>1. step'[p] = s /\ \A q \in Processes \ {p} : step'[q] = step[q]
  BY DEF IInv, TypeOK
<1>2. UNCHANGED <<script, temp, runs, writes>>
  BY DEF files
<1>3. /\ \A q \in Processes : step[q] = "fill" => step'[q] = "fill"
      /\ \A q \in Processes : step[q] \in Writing => step'[q] = step[q]
  BY <1>1 DEF Writing
<1>4. /\ respawns' \in [Processes -> BOOLEAN]
      /\ installs' \in [Processes -> Versions \union {"none"}]
      /\ \A q \in Processes \ {p} : installs'[q] = installs[q]
  <2>1. /\ respawns \in [Processes -> BOOLEAN]
        /\ installs \in [Processes -> Versions \union {"none"}]
        /\ version \in Versions
    BY DEF IInv, TypeOK
  <2>2. CASE UNCHANGED task
    BY <2>1, <2>2 DEF task
  <2>3. CASE EndSetup(p)
    BY <2>1, <2>3 DEF EndSetup
  <2>4. ASSUME NEW r \in BOOLEAN, BeginSetup(p, r)
        PROVE  /\ respawns' \in [Processes -> BOOLEAN]
               /\ installs' \in [Processes -> Versions \union {"none"}]
               /\ \A q \in Processes \ {p} : installs'[q] = installs[q]
    BY <2>1, <2>4 DEF BeginSetup
  <2> QED
    BY <2>2, <2>3, <2>4
<1>5. TypeOK'
  BY <1>2, <1>3, <1>4 DEF IInv, TypeOK
<1>6. SetupKnows'
  BY <1>1, <1>4 DEF IInv, SetupKnows
<1>7. TempSettles' /\ ScriptSettles' /\ ModeComes'
  BY <1>2, <1>3 DEF IInv, TempSettles, ScriptSettles, ModeComes
<1> QED
  BY <1>5, <1>6, <1>7 DEF IInv

LEMMA Beginning ==
  ASSUME IInv, NEW p \in Processes, step[p] \notin Writing, NEW r \in BOOLEAN, BeginSetup(p, r),
         UNCHANGED <<version, session, files, scheduled>>
  PROVE  IInv'
<1>1. step' = [step EXCEPT ![p] = "exists"] /\ "exists" \in Steps \ Writing
  BY DEF BeginSetup, Steps, Writing
<1>2. TypeOK
  BY DEF IInv
<1>3. installs'[p] \in Versions
  BY <1>2 DEF BeginSetup, TypeOK
<1> QED
  BY <1>1, <1>2, <1>3, Elsewhere DEF TypeOK

LEMMA Ending ==
  ASSUME IInv, NEW p \in Processes, step[p] \notin Writing, EndSetup(p),
         UNCHANGED <<version, session, files>>, scheduled' \in BOOLEAN
  PROVE  IInv'
<1>1. PICK s \in {"launch", "idle"} : step' = [step EXCEPT ![p] = s]
  BY DEF EndSetup
<1>2. s \in Steps \ Writing /\ s \notin InSetup
  BY DEF Steps, InSetup, Writing
<1> QED
  BY <1>1, <1>2, Elsewhere DEF IInv, TypeOK

LEMMA Going ==
  ASSUME IInv, NEW p \in Processes, step[p] \notin Writing, NEW s \in Steps \ Writing, Go(p, s),
         s \in InSetup => step[p] \in InSetup,
         UNCHANGED <<version, files>>, scheduled' \in BOOLEAN, session' \in {"none", "prompt", "up"}
  PROVE  IInv'
<1>1. step' = [step EXCEPT ![p] = s] /\ UNCHANGED task
  BY DEF Go
<1>2. s \in InSetup => installs'[p] \in Versions
  BY <1>1 DEF IInv, SetupKnows, task
<1> QED
  BY <1>1, <1>2, Elsewhere DEF IInv, TypeOK

(***************************************************************************)
(* The temporary file: who empties it fills it, and the descriptor keeps   *)
(* the duty when the file gets the script's name.                          *)
(***************************************************************************)
LEMMA OpenKeeps == ASSUME IInv, NEW p \in Processes, Open(p) PROVE IInv'
<1>0. TypeOK /\ SetupKnows /\ TempSettles /\ ScriptSettles /\ ModeComes
  BY DEF IInv
<1>1. /\ step[p] = "open" /\ temp' = "empty" /\ writes' = [writes EXCEPT ![p] = "temp"]
      /\ step' = [step EXCEPT ![p] = "fill"]
      /\ UNCHANGED <<version, script, scheduled, session, respawns, installs>>
  BY DEF Open, Go, task
<1>2. /\ step'[p] = "fill" /\ writes'[p] = "temp"
      /\ \A q \in Processes \ {p} : step'[q] = step[q] /\ writes'[q] = writes[q]
  BY <1>0, <1>1 DEF TypeOK
<1>3. TypeOK'
  BY <1>0, <1>1, <1>2 DEF Open, TypeOK, Contents, Steps
<1>4. SetupKnows' /\ TempSettles' /\ ScriptSettles' /\ ModeComes'
  BY <1>0, <1>1, <1>2 DEF SetupKnows, InSetup, TempSettles, ScriptSettles, ModeComes, Writing
<1> QED
  BY <1>3, <1>4 DEF IInv

LEMMA OverSettles ==
  ASSUME NEW old \in Contents, NEW v \in Versions
  PROVE  Over(old, v) \in Contents \ {"absent", "empty"}
BY HostAssumption DEF Over, Contents

LEMMA FillKeeps == ASSUME IInv, NEW p \in Processes, Fill(p) PROVE IInv'
<1>0. TypeOK /\ SetupKnows /\ TempSettles /\ ScriptSettles /\ ModeComes
  BY DEF IInv
<1>1. /\ step[p] = "fill" /\ writes' = [writes EXCEPT ![p] = "nothing"]
      /\ step' = [step EXCEPT ![p] = "chmod"]
      /\ UNCHANGED <<version, runs, scheduled, session, respawns, installs>>
  BY DEF Fill, Go, task
<1>2. /\ step'[p] = "chmod" /\ writes'[p] = "nothing"
      /\ \A q \in Processes \ {p} : step'[q] = step[q] /\ writes'[q] = writes[q]
  BY <1>0, <1>1 DEF TypeOK
<1>3. installs[p] \in Versions
  BY <1>0, <1>1 DEF SetupKnows, InSetup
<1>4. /\ writes[p] = "temp" => temp' \in Contents \ {"absent", "empty"}
      /\ writes[p] # "temp" => temp' = temp
      /\ writes[p] = "script" => script' \in Contents \ {"absent", "empty"}
      /\ writes[p] # "script" => script' = script
  BY <1>0, <1>3, OverSettles DEF Fill, TypeOK
<1>5. TypeOK'
  BY <1>0, <1>1, <1>2, <1>4 DEF TypeOK, Steps
<1>6. SetupKnows'
  BY <1>0, <1>1, <1>2 DEF SetupKnows, InSetup
<1>7. TempSettles' /\ ScriptSettles' /\ ModeComes'
  BY <1>0, <1>2, <1>4 DEF TempSettles, ScriptSettles, ModeComes, Writing
<1> QED
  BY <1>5, <1>6, <1>7 DEF IInv

LEMMA ChmodKeeps == ASSUME IInv, NEW p \in Processes, Chmod(p) PROVE IInv'
<1>0. TypeOK /\ SetupKnows /\ TempSettles /\ ScriptSettles /\ ModeComes
  BY DEF IInv
<1>1. /\ step[p] = "chmod" /\ step' = [step EXCEPT ![p] = "rename"]
      /\ runs' = IF temp = "absent" THEN runs ELSE runs \union {"temp"}
      /\ UNCHANGED <<version, script, temp, writes, scheduled, session, respawns, installs>>
  BY DEF Chmod, Go, task
<1>2. /\ step'[p] = "rename"
      /\ \A q \in Processes \ {p} : step'[q] = step[q]
  BY <1>0, <1>1 DEF TypeOK
<1>3. TypeOK'
  BY <1>0, <1>1, <1>2 DEF TypeOK, Steps
<1>4. SetupKnows' /\ TempSettles' /\ ScriptSettles' /\ ModeComes'
  BY <1>0, <1>1, <1>2 DEF SetupKnows, InSetup, TempSettles, ScriptSettles, ModeComes
<1> QED
  BY <1>3, <1>4 DEF IInv

LEMMA RenameKeeps == ASSUME IInv, NEW p \in Processes, Rename(p) PROVE IInv'
<1>0. TypeOK /\ SetupKnows /\ TempSettles /\ ScriptSettles /\ ModeComes
  BY DEF IInv
<1>1. CASE temp = "absent"
  BY <1>0, <1>1, Ending DEF Rename, TypeOK, Writing
<1>2. CASE temp # "absent"
  <2>1. /\ step[p] = "rename" /\ script' = temp /\ temp' = "absent"
        /\ writes' = [q \in Processes |-> Renamed(writes[q])]
        /\ step' = [step EXCEPT ![p] = "schedule"]
        /\ UNCHANGED <<version, scheduled, session, respawns, installs>>
    BY <1>2 DEF Rename, Go, task
  <2>2. /\ step'[p] = "schedule"
        /\ \A q \in Processes \ {p} : step'[q] = step[q]
    BY <1>0, <2>1 DEF TypeOK
  <2>3. \A q \in Processes : /\ writes'[q] \in {"script", "nothing"}
                             /\ writes[q] = "temp" => writes'[q] = "script"
    BY <1>0, <2>1 DEF TypeOK, Renamed
  <2>4. TypeOK'
    BY <1>0, <1>2, <2>1, <2>3 DEF Rename, TypeOK, Contents, Steps
  <2>5. SetupKnows'
    BY <1>0, <2>1, <2>2 DEF SetupKnows, InSetup
  <2>6. TempSettles' /\ ScriptSettles' /\ ModeComes'
    BY <1>0, <2>1, <2>2, <2>3 DEF TempSettles, ScriptSettles, ModeComes
  <2> QED
    BY <2>4, <2>5, <2>6 DEF IInv
<1> QED
  BY <1>1, <1>2

LEMMA RemoveKeeps == ASSUME IInv, NEW p \in Processes, Remove(p) PROVE IInv'
<1>0. TypeOK /\ SetupKnows /\ TempSettles /\ ScriptSettles /\ ModeComes
  BY DEF IInv
<1>1. /\ step[p] = "remove" /\ script' = "absent" /\ runs' = runs \ {"script"}
      /\ writes' = [q \in Processes |-> IF writes[q] = "script" THEN "nothing" ELSE writes[q]]
      /\ step' = [step EXCEPT ![p] = "idle"]
      /\ UNCHANGED <<version, temp, scheduled, session, respawns, installs>>
  BY DEF Remove, Go, task
<1>2. /\ step'[p] = "idle"
      /\ \A q \in Processes \ {p} : step'[q] = step[q]
      /\ \A q \in Processes : /\ writes'[q] \in {"temp", "nothing"}
                              /\ writes'[q] = "temp" <=> writes[q] = "temp"
  BY <1>0, <1>1 DEF TypeOK
<1>3. TypeOK'
  BY <1>0, <1>1, <1>2 DEF TypeOK, Contents, Steps
<1>4. SetupKnows'
  BY <1>0, <1>1, <1>2 DEF SetupKnows, InSetup
<1>5. TempSettles' /\ ScriptSettles' /\ ModeComes'
  BY <1>0, <1>1, <1>2 DEF TempSettles, ScriptSettles, ModeComes, Writing
<1> QED
  BY <1>3, <1>4, <1>5 DEF IInv

-----------------------------------------------------------------------------
LEMMA NextInvariant == IInv /\ [Next]_vars => IInv'
<1> SUFFICES ASSUME IInv, [Next]_vars PROVE IInv'
  OBVIOUS
<1>0. /\ TypeOK
      /\ session \in {"none", "prompt", "up"} /\ scheduled \in BOOLEAN
      /\ "five" \in Processes /\ "six" \in Processes
      /\ \A h \in Hands : h \in Processes
  BY DEF IInv, TypeOK, Processes, Crons
<1>1. ASSUME NEW p \in Processes, Respawn(p) PROVE IInv'
  BY <1>0, <1>1, Going DEF Respawn, Steps, InSetup, Writing
<1>2. CASE Kill("six")
  BY <1>0, <1>2, Going DEF Kill, Steps, InSetup, Writing
<1>3. ASSUME NEW p \in Hands, HandRuns(p) PROVE IInv'
  <2>1. CASE Respawn(p)
    BY <1>0, <1>1, <2>1
  <2>2. CASE Setup(p)
    BY <1>0, <2>2, Beginning DEF Setup, Writing
  <2>3. CASE Uninstall(p)
    BY <1>0, <2>3, Going DEF Uninstall, Steps, InSetup, Writing
  <2> QED
    BY <1>3, <2>1, <2>2, <2>3 DEF HandRuns
<1>4. ASSUME NEW p \in Processes, Goes(p) PROVE IInv'
  <2>1. CASE Refresh(p)
    BY <1>0, <2>1, Going DEF Refresh, Steps, InSetup, Writing
  <2>2. CASE Check(p)
    <3>1. step[p] = "check" /\ UNCHANGED <<version, files, scheduled, session>>
          /\ (Go(p, "idle") \/ BeginSetup(p, TRUE))
      BY <2>2 DEF Check
    <3> QED
      BY <1>0, <3>1, Going, Beginning DEF Steps, InSetup, Writing
  <2>3. CASE Launch(p)
    BY <1>0, <2>3, Going DEF Launch, Steps, InSetup, Writing
  <2>4. CASE Press(p)
    BY <1>0, <2>4, Going DEF Press, Steps, InSetup, Writing
  <2>5. CASE GiveUp(p)
    BY <1>0, <2>5, Going DEF GiveUp, Steps, InSetup, Writing
  <2>6. CASE Compare(p)
    <3>1. CASE script = "absent"
      BY <1>0, <2>6, <3>1, Ending DEF Compare, Writing
    <3>2. CASE script # "absent"
      BY <1>0, <2>6, <3>2, Going DEF Compare, Steps, InSetup, Writing
    <3> QED
      BY <3>1, <3>2
  <2>9. CASE Exists(p)
    BY <1>0, <2>9, Going DEF Exists, Steps, InSetup, Writing
  <2>7. CASE Schedule(p)
    BY <1>0, <2>7, Ending DEF Schedule, Writing
  <2>8. CASE Unschedule(p)
    BY <1>0, <2>8, Going DEF Unschedule, Steps, InSetup, Writing
  <2> QED
    BY <1>4, <2>1, <2>2, <2>3, <2>4, <2>5, <2>6, <2>7, <2>8, <2>9,
       OpenKeeps, FillKeeps, ChmodKeeps, RenameKeeps, RemoveKeeps DEF Goes
<1>5. CASE SessionEnds
  BY <1>5 DEF SessionEnds, files, task, IInv, TypeOK, SetupKnows, TempSettles, ScriptSettles, ModeComes
<1>6. CASE PluginChanges
  BY <1>6 DEF PluginChanges, files, task, IInv, TypeOK, SetupKnows, TempSettles, ScriptSettles, ModeComes
<1>7. CASE UNCHANGED vars
  BY <1>7 DEF vars, IInv, TypeOK, SetupKnows, TempSettles, ScriptSettles, ModeComes
<1> QED
  BY <1>0, <1>1, <1>2, <1>3, <1>4, <1>5, <1>6, <1>7 DEF Next, CronRuns

LEMMA Invariance == Spec => []IInv
<1> QED
  BY InitInvariant, NextInvariant, PTL DEF Spec

-----------------------------------------------------------------------------
(***************************************************************************)
(* The variables keep their types, and only a process that is about to     *)
(* fill the temporary file writes to it (writeFileSync in setup.ts).       *)
(***************************************************************************)
THEOREM TypeCorrect == Spec => []TypeOK
<1>1. IInv => TypeOK
  BY DEF IInv
<1> QED
  BY <1>1, Invariance, PTL

(***************************************************************************)
(* However many setups race for the one temporary name, a script that was  *)
(* put in place truncated is about to be filled by the process that        *)
(* truncated it (install in setup.ts, runUninstall in uninstall.ts).       *)
(***************************************************************************)
THEOREM NoScriptStaysEmpty == Spec => []ScriptSettles
<1>1. IInv => ScriptSettles
  BY DEF IInv
<1> QED
  BY <1>1, Invariance, PTL

(***************************************************************************)
(* Whatever setups race for the temporary name, the file that is renamed   *)
(* into place is executable, unless the setup that created it has still    *)
(* to come to its chmod (write in setup.ts).                               *)
(***************************************************************************)
THEOREM ModeIsKept == Spec => KeepsMode
<1>1. IInv /\ [Next]_vars => [LosesMode => \E p \in Processes : step[p] \in {"fill", "chmod"}]_vars
  <2> SUFFICES ASSUME IInv, Next, LosesMode, \A p \in Processes : step[p] \notin Writing
               PROVE  FALSE
    BY DEF Writing, vars
  <2>1. ~ UNCHANGED <<script, runs>>
    BY DEF LosesMode
  <2>2. PICK p \in Processes : Rename(p) \/ Remove(p) \/ Open(p)
    BY <2>1 DEF Next, CronRuns, HandRuns, Goes, Respawn, Kill, Setup, Uninstall, Refresh, Check,
                Launch, Press, GiveUp, Exists, Compare, Fill, Chmod, Schedule, Unschedule,
                SessionEnds, PluginChanges, files, Writing
  <2>3. CASE Rename(p)
    BY <2>1, <2>3 DEF Rename, files, IInv, ModeComes, LosesMode
  <2>4. CASE Remove(p)
    BY <2>4 DEF Remove, LosesMode
  <2>5. CASE Open(p)
    BY <2>5 DEF Open, LosesMode
  <2> QED
    BY <2>2, <2>3, <2>4, <2>5
<1> QED
  BY <1>1, Invariance, PTL DEF Spec, KeepsMode

===============================================================================
