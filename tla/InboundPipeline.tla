---------------------------- MODULE InboundPipeline ----------------------------
(***************************************************************************)
(* From VK to the session: the messages that the long-poll transport       *)
(* delivers go through InboundService.handle, the attachments are          *)
(* downloaded one after the other (AttachmentService.downloadAll), the     *)
(* sender's name is looked up, and the ChannelNotifier shows the message   *)
(* (all in server/src/modules/inbound).  Handlers of several messages      *)
(* interleave at every await.                                              *)
(*                                                                         *)
(* What the gate decides is AccessControl's subject and a choice here, and *)
(* so are the verdicts behind a button (PermissionRelay) and the answer to *)
(* the look-up (UsersCache), which always comes and is only waited for.    *)
(* The inbox has a directory per message, so a file is named by its        *)
(* message and its place in it.                                            *)
(***************************************************************************)
EXTENDS LongPoll, Sequences

CONSTANTS
  Messages,    \* the messages people write
  Contents,    \* what a message may be: whether it is a click, its attachments
  MaxReboots   \* bound: how often the process ends

Hosts == {"cdn", "other"}  \* isAllowedHost, or not

ASSUME InboundAssumption ==
  /\ Contents \subseteq [click : BOOLEAN, attachments : Seq(Hosts)]
  /\ MaxReboots \in Nat

VARIABLES
  content,  \* what each message is
  stage,    \* how far each message has got
  out,      \* downloadAll's result so far: "path" (local_path is set) or "bare"
  inbox,    \* the files of each message: "none", "partial" or "whole"
  reboots   \* how often the process has ended

messageVars == <<content, stage, out, inbox>>
vars == <<pollVars, messageVars, reboots>>

\* "new", in a handler ("saving", or "writing" a file), then how it ended: turned
\* away or consumed, shown, missed by a session that is not open, or cut off.
Stages == {"new", "saving", "writing", "turned", "consumed", "shown", "missed", "cut"}

Places(m) == 1..Len(content[m].attachments)

Init ==
  /\ PollInit
  /\ content \in [Messages -> Contents]
  /\ stage = [m \in Messages |-> "new"]
  /\ out = [m \in Messages |-> <<>>]
  /\ inbox = [m \in Messages |-> [i \in Places(m) |-> "none"]]
  /\ reboots = 0

-----------------------------------------------------------------------------
(***************************************************************************)
(* InboundService.handle                                                   *)
(***************************************************************************)
\* Mutant: the click is answered and goes on as a message.
FaultAfterGate(m) == "saving"

\* tryResolveVerdict: a click on a verdict button goes no further.
AfterGate(m) == IF content[m].click THEN "consumed" ELSE "saving"

\* The gate decides before the first await.
Handle(m) ==
  /\ loop = "running"
  /\ stage[m] = "new"
  /\ \E s \in {"turned", AfterGate(m)} : stage' = [stage EXCEPT ![m] = s]
  /\ UNCHANGED <<content, out, inbox>>

\* The place of the attachment downloadAll is at.
At(m) == Len(out[m]) + 1

Is(m, host) == At(m) \in Places(m) /\ content[m].attachments[At(m)] = host

Push(m, entry) == out' = [out EXCEPT ![m] = Append(@, entry)]

\* Mutant: without the continue, the attachment is tried, and pushed, once more.
FaultKeepUrl(m) ==
  /\ stage[m] = "saving" /\ Is(m, "other")
  /\ out' = [out EXCEPT ![m] = @ \o <<"bare", "bare">>]
  /\ UNCHANGED <<content, stage, inbox>>

\* No URL, or not one of VK's hosts: the entry stays as it is.
KeepUrl(m) ==
  /\ stage[m] = "saving" /\ Is(m, "other")
  /\ Push(m, "bare")
  /\ UNCHANGED <<content, stage, inbox>>

\* Mutant: the end of writeFile is not awaited.
FaultFetch(m) ==
  /\ stage[m] = "saving" /\ Is(m, "cdn")
  /\ inbox' = [inbox EXCEPT ![m][At(m)] = "partial"]
  /\ Push(m, "path")
  /\ UNCHANGED <<content, stage>>

\* The directory is there, the bytes have come, and writeFile has begun.
Fetch(m) ==
  /\ stage[m] = "saving" /\ Is(m, "cdn")
  /\ stage' = [stage EXCEPT ![m] = "writing"]
  /\ inbox' = [inbox EXCEPT ![m][At(m)] = "partial"]
  /\ UNCHANGED <<content, out>>

Written(m) ==
  /\ stage[m] = "writing"
  /\ stage' = [stage EXCEPT ![m] = "saving"]
  /\ inbox' = [inbox EXCEPT ![m][At(m)] = "whole"]
  /\ Push(m, "path")
  /\ UNCHANGED content

\* mkdir, the request or the write fails: the entry stays as it is, and what was
\* written of the file stays too.
DownloadFails(m) ==
  /\ stage[m] = "writing" \/ (stage[m] = "saving" /\ Is(m, "cdn"))
  /\ stage' = [stage EXCEPT ![m] = "saving"]
  /\ Push(m, "bare")
  /\ UNCHANGED <<content, inbox>>

\* The name is there; the notification fails when no session is open.
Notify(m) ==
  /\ stage[m] = "saving"
  /\ At(m) \notin Places(m)
  /\ stage' = [stage EXCEPT ![m] = IF session THEN "shown" ELSE "missed"]
  /\ UNCHANGED <<content, out, inbox>>

\* The trailer of the notification: the places it names.
Saved(m) == {i \in DOMAIN out[m] : out[m][i] = "path"}
Mentioned(m) == IF Saved(m) # {} THEN Saved(m) ELSE DOMAIN out[m]

\* What a process was handling when it ended is not taken up by the next one.
CutOff == [m \in Messages |-> IF stage[m] \in {"saving", "writing"} THEN "cut" ELSE stage[m]]

Restart ==
  /\ reboots < MaxReboots
  /\ reboots' = reboots + 1
  /\ Reboot
  /\ stage' = CutOff
  /\ UNCHANGED <<content, out, inbox>>

-----------------------------------------------------------------------------
HandlerStep(m) == KeepUrl(m) \/ Fetch(m) \/ Written(m) \/ DownloadFails(m) \/ Notify(m)

MessageStep(m) == Handle(m) \/ HandlerStep(m)

Next ==
  \/ PollStep /\ UNCHANGED <<messageVars, reboots>>
  \/ \E m \in Messages : MessageStep(m) /\ UNCHANGED <<pollVars, reboots>>
  \/ Restart

\* A request is answered or times out, and a file operation ends; the clock and
\* the network owe nothing more.  Nobody has to write, or to open a session.
Fairness ==
  /\ WF_vars(LoopStep /\ UNCHANGED <<messageVars, reboots>>)
  /\ \A m \in Messages : WF_vars(HandlerStep(m) /\ UNCHANGED <<pollVars, reboots>>)

Spec == Init /\ [][Next]_vars /\ Fairness

-----------------------------------------------------------------------------
TypeOK ==
  /\ PollTypeOK
  /\ content \in [Messages -> Contents]
  /\ stage \in [Messages -> Stages]
  /\ \A m \in Messages :
       /\ Len(out[m]) <= Len(content[m].attachments)
       /\ \A i \in DOMAIN out[m] : out[m][i] \in {"path", "bare"}
       /\ inbox[m] \in [Places(m) -> {"none", "partial", "whole"}]
       /\ stage[m] = "writing" => Is(m, "cdn")
  /\ reboots \in 0..MaxReboots

\* A message that is shown is shown whole: downloadAll has been through all of its
\* attachments, every path that the notification names is that of a file that was
\* written to its end, then and ever after, and when nothing could be saved the
\* notification says which attachments there were.
ShownWhole ==
  \A m \in Messages : stage[m] = "shown" =>
    /\ Len(out[m]) = Len(content[m].attachments)
    /\ \A i \in Saved(m) : content[m].attachments[i] = "cdn" /\ inbox[m][i] = "whole"
    /\ Places(m) # {} => Mentioned(m) # {}

\* The pipeline keeps what Channel promises: a message that was let in is shown,
\* once, as long as the session is open and lives, whatever downloads, look-ups
\* and other messages do; one that is cut off is not shown later; and no click on
\* a verdict button is shown.
Fate(m) ==
  CASE stage[m] = "new" -> "new"
    [] stage[m] \in {"saving", "writing"} -> "waiting"
    [] stage[m] = "shown" -> "shown"
    [] OTHER -> "gone"

Listener == INSTANCE Channel WITH
  open <- session,
  click <- [m \in Messages |-> content[m].click],
  fate <- [m \in Messages |-> Fate(m)]

ImplementsChannel == Listener!Spec
===============================================================================
