------------------------ MODULE InboundPipelineProofs ------------------------
(***************************************************************************)
(* The long-poll loop's status and warnings, the wholeness of what is      *)
(* shown, and the steps of Channel, for any messages with any attachments, *)
(* any number of restarts and any SUSTAINED_BACKOFF_ATTEMPTS.              *)
(***************************************************************************)
EXTENDS InboundPipeline, TLAPS, SequenceTheorems

(***************************************************************************)
(* The inductive invariant of LongPoll.  StatusTells and WarnsOnce say     *)
(* nothing of the flag that keeps the warning from being repeated, nor of  *)
(* what a process has when it boots: the flag is set as soon as the        *)
(* failures are many enough, for as long as there can be more.             *)
(***************************************************************************)
WarningOK ==
  /\ loop \in {"off", "starting", "sleeping"} => (warned <=> failures >= Sustained)
  /\ pushed["unreachable"] = IF failures >= Sustained THEN 1 ELSE 0
  /\ loop # "ended" => pushed["missing"] = 0 /\ pushed["refused"] = 0
  /\ loop = "off" => failures = 0 /\ lastError = "none"
  /\ loop = "sleeping" => failures > 0

PollInv == PollTypeOK /\ StatusTells /\ WarnsOnce /\ WarningOK

(***************************************************************************)
(* The inductive invariant of the messages.  downloadAll's result has an   *)
(* entry for each attachment it is past, and the file of an entry with a   *)
(* path is whole from then on, for only the place after the last entry is  *)
(* written to.                                                             *)
(***************************************************************************)
Results == {"path", "bare"}
FileStates == {"none", "partial", "whole"}

MessagesOK ==
  /\ content \in [Messages -> Contents]
  /\ stage \in [Messages -> Stages]
  /\ out \in [Messages -> Seq(Results)]
  /\ inbox = [m \in Messages |-> inbox[m]]
  /\ \A m \in Messages : inbox[m] \in [Places(m) -> FileStates]
  /\ reboots \in 0..MaxReboots

PathOK ==
  \A m \in Messages :
    /\ Len(out[m]) <= Len(content[m].attachments)
    /\ \A i \in Saved(m) : content[m].attachments[i] = "cdn" /\ inbox[m][i] = "whole"
    /\ stage[m] = "writing" => Is(m, "cdn")
    /\ stage[m] = "shown" => Len(out[m]) = Len(content[m].attachments)

IInv == PollInv /\ MessagesOK /\ PathOK
-----------------------------------------------------------------------------
\* The Booleans among the variables of LongPoll.
Flags ==
  reachable \in BOOLEAN /\ warned \in BOOLEAN /\ connected \in BOOLEAN /\ session \in BOOLEAN

LEMMA PollInitInvariant == PollInit => PollInv
<1> SUFFICES ASSUME PollInit PROVE PollInv
  OBVIOUS
<1>1. PollTypeOK
  <2>1. Flags
    BY Zenon DEF PollInit, Booted, Flags
  <2>2. token \in Tokens /\ loop \in LoopStates /\ lastError \in Causes \union {"none"}
    BY DEF PollInit, Booted, LoopStates
  <2>3. failures \in 0..Sustained + 1 /\ pushed \in [Causes -> Nat]
    BY LongPollAssumption DEF PollInit, Booted
  <2> QED
    BY <2>1, <2>2, <2>3 DEF PollTypeOK, Flags
<1>2. StatusTells /\ WarnsOnce /\ WarningOK
  BY LongPollAssumption DEF PollInit, Booted, StatusTells, WarnsOnce, WarningOK, Causes
<1> QED
  BY <1>1, <1>2 DEF PollInv

(***************************************************************************)
(* The attempts of startWithBackoff, the network and the session.          *)
(***************************************************************************)
(***************************************************************************)
(* The variables of LongPoll keep their types.                             *)
(***************************************************************************)
LEMMA PollTypesKept == ASSUME PollTypeOK, PollStep \/ Reboot PROVE PollTypeOK'
<1> USE DEF PollStep, LoopStep, Start, Connect, Refuse, FailToStart, Wake, ReachChanges,
            OpenSession, Reboot
<1>1. Flags'
  <2>1. Flags
    BY DEF PollTypeOK, Flags
  <2> QED
    BY <2>1, ZenonT(30) DEF Flags, MarkConnected, MarkDisconnected
<1>2. token' \in Tokens /\ loop' \in LoopStates
  BY DEF PollTypeOK, LoopStates
<1>3. failures' \in 0..Sustained + 1
  BY LongPollAssumption DEF PollTypeOK, Counted
<1>4. lastError' \in Causes \union {"none"}
  BY DEF PollTypeOK, Causes, MarkConnected, MarkDisconnected
<1>5. pushed' \in [Causes -> Nat]
  BY DEF PollTypeOK, Warn
<1> QED
  BY <1>1, <1>2, <1>3, <1>4, <1>5 DEF PollTypeOK, Flags

LEMMA PollStepKeeps == ASSUME PollInv, PollStep PROVE PollInv'
<1> USE LongPollAssumption DEF PollInv
<1>0. PollTypeOK'
  BY PollTypesKept
<1>1. CASE Start
  <2>2. StatusTells' /\ WarningOK'
    BY <1>1 DEF Start, PollTypeOK, MarkDisconnected, Warn, Causes, StatusTells, WarningOK
  <2>3. WarnsOnce'
    BY <1>1 DEF Start, PollTypeOK, MarkDisconnected, Warn, Causes, WarnsOnce, WarningOK
  <2> QED
    BY <1>0, <2>2, <2>3
<1>2. CASE Connect
  <2>1. StatusTells'
    BY <1>2 DEF Connect, MarkConnected, StatusTells
  <2>2. WarnsOnce' /\ WarningOK'
    BY <1>2 DEF Connect, WarnsOnce, WarningOK
  <2> QED
    BY <1>0, <2>1, <2>2
<1>3. CASE Refuse
  <2>2. StatusTells' /\ WarningOK'
    BY <1>3 DEF Refuse, PollTypeOK, MarkDisconnected, Warn, Causes, StatusTells, WarningOK
  <2>3. WarnsOnce'
    BY <1>3 DEF Refuse, PollTypeOK, MarkDisconnected, Warn, Causes, WarnsOnce, WarningOK
  <2> QED
    BY <1>0, <2>2, <2>3
<1>4. CASE FailToStart
  <2>2. StatusTells'
    BY <1>4 DEF FailToStart, MarkDisconnected, StatusTells
  <2>3. failures \in 0..Sustained + 1 /\ pushed \in [Causes -> Nat]
        /\ warned \in BOOLEAN
    BY DEF PollTypeOK
  <2>4. Due <=> failures < Sustained /\ failures' >= Sustained
    BY <1>4, <2>3 DEF FailToStart, Due, Counted, WarningOK
  <2>5. failures' >= failures /\ failures' > 0
    BY <1>4, <2>3 DEF FailToStart, Counted
  <2>6. CASE Due
    <3>1. warned' = TRUE /\ pushed' = [pushed EXCEPT !["unreachable"] = @ + 1]
          /\ loop = "starting" /\ loop' = "sleeping"
      BY <1>4, <2>6 DEF FailToStart, Warn
    <3>2. WarningOK'
      BY <2>3, <2>4, <2>5, <2>6, <3>1 DEF WarningOK, Causes
    <3>3. WarnsOnce'
      BY <2>3, <2>4, <2>5, <2>6, <3>1 DEF WarningOK, WarnsOnce, Causes
    <3> QED
      BY <1>0, <2>2, <3>2, <3>3
  <2>7. CASE ~Due
    <3>1. UNCHANGED <<warned, pushed>> /\ loop = "starting" /\ loop' = "sleeping"
      BY <1>4, <2>7 DEF FailToStart
    <3>2. failures >= Sustained <=> failures' >= Sustained
      BY <1>0, <2>3, <2>4, <2>5, <2>7 DEF PollTypeOK
    <3> QED
      BY <1>0, <2>2, <2>5, <3>1, <3>2 DEF WarningOK, WarnsOnce
  <2> QED
    BY <2>6, <2>7
<1>5. CASE Wake
  BY <1>0, <1>5 DEF Wake, StatusTells, WarnsOnce, WarningOK
<1>6. CASE ReachChanges
  BY <1>0, <1>6 DEF ReachChanges, StatusTells, WarnsOnce, WarningOK
<1>7. CASE OpenSession
  BY <1>0, <1>7 DEF OpenSession, StatusTells, WarnsOnce, WarningOK
<1> QED
  BY <1>1, <1>2, <1>3, <1>4, <1>5, <1>6, <1>7 DEF PollStep, LoopStep

LEMMA RebootKeeps == ASSUME PollInv, Reboot PROVE PollInv'
<1>1. PollTypeOK'
  BY PollTypesKept DEF PollInv
<1>2. StatusTells' /\ WarnsOnce' /\ WarningOK'
  BY LongPollAssumption DEF Reboot, StatusTells, WarnsOnce, WarningOK, Causes
<1> QED
  BY <1>1, <1>2 DEF PollInv

-----------------------------------------------------------------------------
(***************************************************************************)
(* What a message is never changes.                                        *)
(***************************************************************************)
LEMMA ContentType ==
  ASSUME MessagesOK, NEW m \in Messages
  PROVE  /\ content[m].attachments \in Seq(Hosts) /\ content[m].click \in BOOLEAN
         /\ Len(content[m].attachments) \in Nat
         /\ Len(out[m]) \in Nat /\ DOMAIN out[m] = 1..Len(out[m])
         /\ Saved(m) \subseteq 1..Len(out[m])
<1>1. content[m] \in [click : BOOLEAN, attachments : Seq(Hosts)]
  BY InboundAssumption DEF MessagesOK
<1>2. out[m] \in Seq(Results)
  BY DEF MessagesOK
<1> QED
  BY <1>1, <1>2 DEF Saved

(***************************************************************************)
(* A step of one handler that ends an entry, or none, and leaves the files *)
(* of the entries before it alone.                                         *)
(***************************************************************************)
LEMMA HandlerKeeps ==
  ASSUME MessagesOK, PathOK, NEW m \in Messages, NEW s \in Stages, NEW f \in [Places(m) -> FileStates],
         stage' = [stage EXCEPT ![m] = s], inbox' = [inbox EXCEPT ![m] = f],
         out' = out \/ \E r \in Results : Push(m, r) /\ (r = "path" => Is(m, "cdn") /\ f[At(m)] = "whole"),
         out' # out => At(m) \in Places(m) /\ s \notin {"writing", "shown"},
         \A i \in Saved(m) : f[i] = inbox[m][i],
         out' = out /\ s = "writing" => Is(m, "cdn"),
         out' = out /\ s = "shown" => Len(out[m]) = Len(content[m].attachments),
         UNCHANGED <<content, reboots>>
  PROVE  MessagesOK' /\ PathOK'
<1>1. /\ stage'[m] = s /\ inbox'[m] = f
      /\ \A n \in Messages \ {m} : stage'[n] = stage[n] /\ inbox'[n] = inbox[n]
      /\ stage' \in [Messages -> Stages]
  BY DEF MessagesOK
<1>2. inbox' = [n \in Messages |-> inbox'[n]]
  BY DEF MessagesOK
<1>3. \A n \in Messages : Places(n)' = Places(n)
  BY DEF Places
<1>4. \A n \in Messages : inbox'[n] \in [Places(n)' -> FileStates]
  BY <1>1, <1>3 DEF MessagesOK
<1>5. /\ content[m].attachments \in Seq(Hosts) /\ Len(content[m].attachments) \in Nat
      /\ Len(out[m]) \in Nat /\ DOMAIN out[m] = 1..Len(out[m]) /\ Saved(m) \subseteq 1..Len(out[m])
  BY ContentType
<1>6. \A n \in Messages \ {m} : out'[n] = out[n] /\ Saved(n)' = Saved(n)
  BY DEF Push, Saved, MessagesOK
<1>7. /\ out' \in [Messages -> Seq(Results)]
      /\ Len(out'[m]) <= Len(content[m].attachments)
      /\ \A i \in Saved(m)' : content[m].attachments[i] = "cdn" /\ f[i] = "whole"
  <2>1. CASE out' = out
    BY <2>1 DEF MessagesOK, PathOK, Saved
  <2>2. CASE out' # out
    <3>1. PICK r \in Results : Push(m, r) /\ (r = "path" => Is(m, "cdn") /\ f[At(m)] = "whole")
      BY <2>2
    <3>2. /\ out' = [out EXCEPT ![m] = Append(out[m], r)] /\ out'[m] = Append(out[m], r)
          /\ out[m] \in Seq(Results)
      BY <3>1 DEF Push, MessagesOK
    <3>3. /\ out'[m] \in Seq(Results) /\ Len(out'[m]) = Len(out[m]) + 1
          /\ DOMAIN out'[m] = 1..Len(out[m]) + 1
          /\ \A i \in 1..Len(out[m]) : out'[m][i] = out[m][i]
          /\ out'[m][Len(out[m]) + 1] = r
      BY <1>5, <3>2
    <3>4. out' \in [Messages -> Seq(Results)]
      BY <3>2, <3>3 DEF MessagesOK
    <3>5. Len(out'[m]) <= Len(content[m].attachments)
      BY <1>5, <2>2, <3>3 DEF At, Places
    <3>6. ASSUME NEW i \in Saved(m)'
          PROVE  content[m].attachments[i] = "cdn" /\ f[i] = "whole"
      <4>1. i \in 1..Len(out[m]) + 1 /\ out'[m][i] = "path"
        BY <3>3, <3>6 DEF Saved
      <4>2. CASE i = Len(out[m]) + 1
        BY <3>1, <3>3, <4>1, <4>2 DEF Is, At
      <4>3. CASE i # Len(out[m]) + 1
        <5>1. i \in Saved(m)
          BY <1>5, <3>3, <4>1, <4>3 DEF Saved
        <5> QED
          BY <5>1 DEF PathOK
      <4> QED
        BY <4>2, <4>3
    <3> QED
      BY <3>4, <3>5, <3>6
  <2> QED
    BY <2>1, <2>2
<1>8. MessagesOK'
  BY <1>1, <1>2, <1>4, <1>7 DEF MessagesOK
<1>9. ASSUME NEW n \in Messages
      PROVE  /\ Len(out'[n]) <= Len(content'[n].attachments)
             /\ \A i \in Saved(n)' : content'[n].attachments[i] = "cdn" /\ inbox'[n][i] = "whole"
             /\ stage'[n] = "writing" => Is(n, "cdn")'
             /\ stage'[n] = "shown" => Len(out'[n]) = Len(content'[n].attachments)
  <2>1. CASE n # m
    BY <1>1, <1>6, <2>1 DEF PathOK, Is, At, Places
  <2>2. CASE n = m
    BY <1>1, <1>7, <2>2 DEF PathOK, Is, At, Places
  <2> QED
    BY <2>1, <2>2
<1>10. PathOK'
  BY <1>9 DEF PathOK
<1> QED
  BY <1>8, <1>10

(***************************************************************************)
(* The turns of downloadAll's loop, and handle before and after it.        *)
(***************************************************************************)
LEMMA MessageStepKeeps ==
  ASSUME MessagesOK, PathOK, NEW m \in Messages, MessageStep(m), UNCHANGED reboots
  PROVE  MessagesOK' /\ PathOK'
<1>1. /\ inbox[m] \in [Places(m) -> FileStates] /\ stage[m] \in Stages
      /\ inbox = [inbox EXCEPT ![m] = inbox[m]] /\ stage = [stage EXCEPT ![m] = stage[m]]
  BY DEF MessagesOK
<1>2. /\ Len(out[m]) \in Nat /\ Saved(m) \subseteq 1..Len(out[m])
      /\ Len(content[m].attachments) \in Nat
  BY ContentType
<1>3. At(m) \notin Saved(m)
  BY <1>2 DEF At
<1>4. ASSUME NEW t \in FileStates
      PROVE  /\ At(m) \in Places(m) => [inbox[m] EXCEPT ![At(m)] = t] \in [Places(m) -> FileStates]
             /\ At(m) \in Places(m) => [inbox[m] EXCEPT ![At(m)] = t][At(m)] = t
             /\ \A i \in Saved(m) : [inbox[m] EXCEPT ![At(m)] = t][i] = inbox[m][i]
  <2>1. Saved(m) \subseteq Places(m)
    BY <1>2 DEF PathOK, Places
  <2> QED
    BY <1>1, <1>3, <2>1
<1>5. CASE Handle(m)
  <2>1. PICK s \in {"turned", "consumed", "saving"} : stage' = [stage EXCEPT ![m] = s]
    BY <1>5 DEF Handle, AfterGate
  <2>2. s \in Stages \ {"writing", "shown"}
    BY DEF Stages
  <2> QED
    BY <1>1, <1>5, <2>1, <2>2, HandlerKeeps DEF Handle
<1>6. CASE KeepUrl(m)
  <2>1. stage[m] = "saving" /\ Is(m, "other") /\ Push(m, "bare") /\ UNCHANGED <<content, stage, inbox>>
    BY <1>6 DEF KeepUrl
  <2>2. At(m) \in Places(m) /\ "bare" \in Results
    BY <2>1 DEF Is, Results
  <2> QED
    BY <1>1, <2>1, <2>2, HandlerKeeps
<1>7. CASE Fetch(m)
  <2> DEFINE f == [inbox[m] EXCEPT ![At(m)] = "partial"]
  <2>1. /\ Is(m, "cdn") /\ stage' = [stage EXCEPT ![m] = "writing"]
        /\ inbox' = [inbox EXCEPT ![m] = f] /\ UNCHANGED <<content, out>>
    BY <1>7 DEF Fetch
  <2>2. At(m) \in Places(m) /\ "partial" \in FileStates /\ "writing" \in Stages
    BY <2>1 DEF Is, FileStates, Stages
  <2>3. f \in [Places(m) -> FileStates] /\ \A i \in Saved(m) : f[i] = inbox[m][i]
    BY <1>4, <2>2
  <2> HIDE DEF f
  <2> QED
    BY <2>1, <2>2, <2>3, HandlerKeeps
<1>8. CASE Written(m)
  <2> DEFINE f == [inbox[m] EXCEPT ![At(m)] = "whole"]
  <2>1. /\ stage[m] = "writing" /\ stage' = [stage EXCEPT ![m] = "saving"]
        /\ inbox' = [inbox EXCEPT ![m] = f] /\ Push(m, "path") /\ UNCHANGED content
    BY <1>8 DEF Written
  <2>2. Is(m, "cdn")
    BY <2>1 DEF PathOK
  <2>3. /\ At(m) \in Places(m) /\ "whole" \in FileStates /\ "path" \in Results
        /\ "saving" \in Stages \ {"writing", "shown"}
    BY <2>2 DEF Is, FileStates, Results, Stages
  <2>4. /\ f \in [Places(m) -> FileStates] /\ f[At(m)] = "whole"
        /\ \A i \in Saved(m) : f[i] = inbox[m][i]
    BY <1>4, <2>3
  <2> HIDE DEF f
  <2> QED
    BY <2>1, <2>2, <2>3, <2>4, HandlerKeeps
<1>9. CASE DownloadFails(m)
  <2>1. /\ stage[m] = "writing" \/ (stage[m] = "saving" /\ Is(m, "cdn"))
        /\ stage' = [stage EXCEPT ![m] = "saving"]
        /\ Push(m, "bare") /\ UNCHANGED <<content, inbox>>
    BY <1>9 DEF DownloadFails
  <2>2. At(m) \in Places(m) /\ "bare" \in Results /\ "saving" \in Stages \ {"writing", "shown"}
    BY <2>1 DEF PathOK, Is, Results, Stages
  <2> QED
    BY <1>1, <2>1, <2>2, HandlerKeeps
<1>10. CASE Notify(m)
  <2>1. PICK s \in {"shown", "missed"} : stage' = [stage EXCEPT ![m] = s]
    BY <1>10 DEF Notify
  <2>2. At(m) \notin Places(m) /\ UNCHANGED <<content, out, inbox>> /\ s \in Stages \ {"writing"}
    BY <1>10 DEF Notify, Stages
  <2>3. Len(out[m]) = Len(content[m].attachments)
    BY <1>2, <2>2 DEF At, Places, PathOK
  <2> QED
    BY <1>1, <2>1, <2>2, <2>3, HandlerKeeps
<1> QED
  BY <1>5, <1>6, <1>7, <1>8, <1>9, <1>10 DEF MessageStep, HandlerStep

(***************************************************************************)
(* A restart leaves the messages and their files as they are, and cuts off *)
(* what was being handled.                                                 *)
(***************************************************************************)
LEMMA RestartKeeps ==
  ASSUME MessagesOK, PathOK, Restart
  PROVE  MessagesOK' /\ PathOK'
<1>1. UNCHANGED <<content, out, inbox>> /\ stage' = CutOff
      /\ reboots < MaxReboots /\ reboots' = reboots + 1
  BY DEF Restart
<1>2. \A m \in Messages :
        stage'[m] = IF stage[m] \in {"saving", "writing"} THEN "cut" ELSE stage[m]
  BY <1>1 DEF CutOff
<1>3. stage' \in [Messages -> Stages]
  BY <1>1 DEF CutOff, MessagesOK, Stages
<1>4. reboots' \in 0..MaxReboots
  BY <1>1, InboundAssumption DEF MessagesOK
<1>5. MessagesOK'
  BY <1>1, <1>3, <1>4 DEF MessagesOK, Places
<1>6. PathOK'
  BY <1>1, <1>2 DEF PathOK, Saved
<1> QED
  BY <1>5, <1>6

LEMMA InitInvariant == Init => IInv
<1> SUFFICES ASSUME Init PROVE IInv
  OBVIOUS
<1>1. PollInv
  BY PollInitInvariant DEF Init
<1>2. MessagesOK
  BY InboundAssumption DEF Init, MessagesOK, Stages, FileStates
<1>3. \A m \in Messages : Len(content[m].attachments) \in Nat
  BY <1>2, ContentType
<1>4. PathOK
  BY <1>3 DEF Init, PathOK, Saved
<1> QED
  BY <1>1, <1>2, <1>4 DEF IInv

LEMMA NextInvariant == IInv /\ [Next]_vars => IInv'
<1> SUFFICES ASSUME IInv, [Next]_vars PROVE IInv'
  OBVIOUS
<1> USE DEF IInv
<1>1. ASSUME UNCHANGED pollVars PROVE PollInv'
  BY <1>1 DEF pollVars, PollInv, PollTypeOK, StatusTells, WarnsOnce, WarningOK
<1>2. ASSUME UNCHANGED <<messageVars, reboots>> PROVE MessagesOK' /\ PathOK'
  BY <1>2 DEF messageVars, MessagesOK, Places, PathOK, Saved, Is, At
<1>3. CASE PollStep /\ UNCHANGED <<messageVars, reboots>>
  BY <1>2, <1>3, PollStepKeeps
<1>4. ASSUME NEW m \in Messages, MessageStep(m), UNCHANGED <<pollVars, reboots>> PROVE IInv'
  BY <1>1, <1>4, MessageStepKeeps
<1>5. CASE Restart
  BY <1>5, RebootKeeps, RestartKeeps DEF Restart
<1>6. CASE UNCHANGED vars
  BY <1>1, <1>2, <1>6 DEF vars
<1> QED
  BY <1>3, <1>4, <1>5, <1>6 DEF Next

LEMMA Invariance == Spec => []IInv
<1> QED
  BY InitInvariant, NextInvariant, PTL DEF Spec

-----------------------------------------------------------------------------
(***************************************************************************)
(* The variables keep their types.                                         *)
(***************************************************************************)
THEOREM TypeCorrect == Spec => []TypeOK
<1>1. ASSUME IInv PROVE TypeOK
  <2>1. PollTypeOK /\ MessagesOK /\ PathOK
    BY <1>1 DEF IInv, PollInv
  <2>2. \A m \in Messages : \A i \in DOMAIN out[m] : out[m][i] \in {"path", "bare"}
    BY <2>1 DEF MessagesOK, Results
  <2> QED
    BY <2>1, <2>2 DEF TypeOK, MessagesOK, PathOK, FileStates
<1> QED
  BY <1>1, Invariance, PTL

(***************************************************************************)
(* /state tells the truth about the long-poll loop                         *)
(* (LongPollService.startWithBackoff, StatusRegistry).                     *)
(***************************************************************************)
THEOREM TruthfulStatus == Spec => []StatusTells
<1>1. IInv => StatusTells
  BY DEF IInv, PollInv
<1> QED
  BY <1>1, Invariance, PTL

(***************************************************************************)
(* A process pushes each warning at most once, and exactly when its cause  *)
(* is established (LongPollService.startWithBackoff).                      *)
(***************************************************************************)
THEOREM WarningsOnce == Spec => []WarnsOnce
<1>1. IInv => WarnsOnce
  BY DEF IInv, PollInv
<1> QED
  BY <1>1, Invariance, PTL

(***************************************************************************)
(* A message that is shown is shown whole: with all of its attachments,    *)
(* and with paths of whole files only (AttachmentService.downloadAll,      *)
(* ChannelNotifier.notify).                                                *)
(***************************************************************************)
THEOREM WholeMessages == Spec => []ShownWhole
<1>1. ASSUME IInv PROVE ShownWhole
  <2>1. MessagesOK /\ PathOK
    BY <1>1 DEF IInv
  <2>2. ASSUME NEW m \in Messages, stage[m] = "shown", Places(m) # {} PROVE Mentioned(m) # {}
    <3>1. DOMAIN out[m] = 1..Len(content[m].attachments)
      BY <2>1, <2>2, ContentType DEF PathOK
    <3> QED
      BY <2>2, <3>1 DEF Mentioned, Places
  <2> QED
    BY <2>1, <2>2 DEF ShownWhole, PathOK
<1> QED
  BY <1>1, Invariance, PTL

-----------------------------------------------------------------------------
(***************************************************************************)
(* The refinement.  Every step of the pipeline is one of Channel's or      *)
(* changes nothing Channel sees.                                           *)
(***************************************************************************)
\* What Channel sees of the clicks and of the fates.
Click == [m \in Messages |-> content[m].click]
Fates == [m \in Messages |-> Fate(m)]

LEMMA ListenerInit == Init => Listener!Init
<1> SUFFICES ASSUME Init PROVE Listener!Init
  OBVIOUS
<1>1. session = FALSE
  BY DEF Init, PollInit, Booted
<1>2. \A m \in Messages : content[m].click \in BOOLEAN
  BY InboundAssumption DEF Init
<1>3. \A m \in Messages : Fate(m) = "new"
  BY DEF Init, Fate
<1> QED
  BY <1>1, <1>2, <1>3 DEF Listener!Init

(***************************************************************************)
(* A step of one handler changes the fate of its message only.             *)
(***************************************************************************)
LEMMA OneFate ==
  ASSUME MessagesOK, NEW m \in Messages, NEW s, stage' = [stage EXCEPT ![m] = s]
  PROVE  /\ stage'[m] = s
         /\ Fates' = [Fates EXCEPT ![m] = Fate(m)']
<1>1. stage'[m] = s /\ \A n \in Messages \ {m} : stage'[n] = stage[n]
  BY DEF MessagesOK
<1>2. \A n \in Messages \ {m} : Fate(n)' = Fate(n)
  BY <1>1 DEF Fate
<1>3. Fates' = [Fates EXCEPT ![m] = Fate(m)']
  BY <1>2 DEF Fates
<1> QED
  BY <1>1, <1>3

LEMMA ListenerHandler ==
  ASSUME MessagesOK, NEW m \in Messages, MessageStep(m), UNCHANGED session
  PROVE  Listener!Next \/ UNCHANGED <<session, Click, Fates>>
<1>1. UNCHANGED Click
  BY DEF MessageStep, HandlerStep, Handle, KeepUrl, Fetch, Written, DownloadFails, Notify, Click
<1>2. ASSUME NEW s, stage' = [stage EXCEPT ![m] = s], Fate(m) = "waiting", s \in {"saving", "writing"}
      PROVE  UNCHANGED Fates
  <2>1. Fates' = [Fates EXCEPT ![m] = Fate(m)'] /\ stage'[m] = s
    BY <1>2, OneFate
  <2>2. Fate(m)' = "waiting"
    BY <1>2, <2>1 DEF Fate
  <2> QED
    BY <1>2, <2>1, <2>2 DEF Fates
<1>3. CASE Handle(m)
  <2>1. PICK s \in {"turned", AfterGate(m)} : stage' = [stage EXCEPT ![m] = s]
    BY <1>3 DEF Handle
  <2>2. Fates' = [Fates EXCEPT ![m] = Fate(m)'] /\ stage'[m] = s
    BY <2>1, OneFate
  <2>3. Fate(m) = "new"
    BY <1>3 DEF Handle, Fate
  <2>4. CASE s = "saving"
    <3>1. ~content[m].click
      BY <2>1, <2>4 DEF AfterGate
    <3>2. Fate(m)' = "waiting"
      BY <2>2, <2>4 DEF Fate
    <3>3. Listener!LetIn(m)
      BY <1>1, <2>2, <2>3, <3>1, <3>2 DEF Listener!LetIn, Fates, Click
    <3> QED
      BY <3>3 DEF Listener!Next
  <2>5. CASE s # "saving"
    <3>1. s \in {"turned", "consumed"}
      BY <2>1, <2>5 DEF AfterGate
    <3>2. Fate(m)' = "gone"
      BY <2>2, <3>1 DEF Fate
    <3>3. Listener!TurnAway(m)
      BY <1>1, <2>2, <2>3, <3>2 DEF Listener!TurnAway, Fates, Click
    <3> QED
      BY <3>3 DEF Listener!Next
  <2> QED
    BY <2>4, <2>5
<1>4. CASE KeepUrl(m)
  <2>1. UNCHANGED Fates
    BY <1>4 DEF KeepUrl, Fates, Fate
  <2> QED
    BY <1>1, <2>1
<1>5. CASE Fetch(m) \/ Written(m) \/ DownloadFails(m)
  <2>1. Fate(m) = "waiting"
    BY <1>5 DEF Fetch, Written, DownloadFails, Fate
  <2>2. \E s \in {"saving", "writing"} : stage' = [stage EXCEPT ![m] = s]
    BY <1>5 DEF Fetch, Written, DownloadFails
  <2> QED
    BY <1>1, <1>2, <2>1, <2>2
<1>6. CASE Notify(m)
  <2> DEFINE s == IF session THEN "shown" ELSE "missed"
  <2>1. Fates' = [Fates EXCEPT ![m] = Fate(m)'] /\ stage'[m] = s
    BY <1>6, OneFate DEF Notify
  <2>2. Fate(m) = "waiting"
    BY <1>6 DEF Notify, Fate
  <2>3. Fate(m)' = IF session THEN "shown" ELSE "gone"
    BY <2>1 DEF Fate
  <2>4. Listener!Settle(m)
    BY <1>1, <2>1, <2>2, <2>3 DEF Listener!Settle, Fates, Click
  <2> QED
    BY <2>4 DEF Listener!Next
<1> QED
  BY <1>3, <1>4, <1>5, <1>6 DEF MessageStep, HandlerStep

LEMMA ListenerNext == IInv /\ [Next]_vars => [Listener!Next]_(Listener!vars)
<1> SUFFICES ASSUME IInv, [Next]_vars
             PROVE  Listener!Next \/ UNCHANGED <<session, Click, Fates>>
  BY DEF Listener!vars, Click, Fates
<1>1. ASSUME UNCHANGED messageVars PROVE UNCHANGED <<Click, Fates>>
  BY <1>1 DEF messageVars, Click, Fates, Fate
<1>2. CASE PollStep /\ UNCHANGED <<messageVars, reboots>>
  <2>1. CASE OpenSession
    <3>1. Listener!Open
      BY <1>1, <1>2, <2>1 DEF OpenSession, Listener!Open, Click, Fates
    <3> QED
      BY <3>1 DEF Listener!Next
  <2>2. CASE ~OpenSession
    <3>1. UNCHANGED session
      BY <1>2, <2>2 DEF PollStep, LoopStep, Start, Connect, Refuse, FailToStart, Wake, ReachChanges
    <3> QED
      BY <1>1, <1>2, <3>1
  <2> QED
    BY <2>1, <2>2
<1>3. ASSUME NEW m \in Messages, MessageStep(m), UNCHANGED <<pollVars, reboots>>
      PROVE  Listener!Next \/ UNCHANGED <<session, Click, Fates>>
  BY <1>3, ListenerHandler DEF IInv, pollVars
<1>4. CASE Restart
  <2>1. session' = FALSE /\ stage' = CutOff /\ UNCHANGED Click
    BY <1>4 DEF Restart, Reboot, Click
  <2>2. \A m \in Messages : Fate(m)' = IF Fate(m) = "waiting" THEN "gone" ELSE Fate(m)
    BY <2>1 DEF CutOff, Fate
  <2>3. Listener!Close
    BY <2>1, <2>2 DEF Listener!Close, Click
  <2> QED
    BY <2>3 DEF Listener!Next
<1>5. CASE UNCHANGED vars
  BY <1>1, <1>5 DEF vars, pollVars, messageVars
<1> QED
  BY <1>2, <1>3, <1>4, <1>5 DEF Next

(***************************************************************************)
(* What the pipeline does to a message is something Channel allows: none   *)
(* is shown twice, none that was cut off or turned away, and no click on a *)
(* verdict button (InboundService.handle).                                 *)
(***************************************************************************)
THEOREM StepsOfChannel == Spec => Listener!Safe
<1> QED
  BY ListenerInit, ListenerNext, Invariance, PTL DEF Spec, Listener!Safe

==============================================================================
