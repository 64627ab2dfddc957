------------------------- MODULE HostContractProofs -------------------------
(***************************************************************************)
(* HyperVHost implements CallContract, for any clients, slots, machines,   *)
(* requests and scenes.                                                    *)
(***************************************************************************)
EXTENDS HyperVHostProofs

HostVars == <<vms, files, exports, switches, bound, hostAddr, nats>>

PowerTools == {"start_vm", "stop_vm", "restart_vm", "suspend_vm", "resume_vm"}

(* Where a tool may refuse: at its first look, or when it has read the guest's
   adapters; in the tools that are known to check late; and in a power tool
   whose machine is no longer found by its name. *)
MayRefuse(c) ==
  \/ call[c].pc \in {"look", "pick"}
  \/ Req(c).op \in ChecksLate
  \/ Req(c).op \in PowerTools /\ Named(Req(c).name) = {}

(* What a step of a call is to its client: it changes the host, or it leaves
   the host alone and goes on, passes to its next part, or ends. *)
Changes(c) ==
  /\ Scripting(c) /\ Acts(c) /\ call'[c].touched = TRUE /\ call'[c].told = call[c].told
  /\ call'[c].pc \notin {"look", "pick"}

SameSoFar(c) ==
  /\ call'[c].req = call[c].req /\ call'[c].alone = call[c].alone
  /\ call'[c].touched = call[c].touched /\ call'[c].told = call[c].told

GoesOn(c) ==
  /\ call[c].st \in {"running", "orphan", "tail"} /\ call'[c].st = call[c].st /\ SameSoFar(c)
  /\ call'[c].pc \notin {"look", "pick"}

Passes(c) ==
  /\ call[c].st \in {"running", "tail"} /\ call'[c].st \in {"queued", "tail"} /\ SameSoFar(c)
  /\ call'[c].pc \in {"look", "pick"} => call[c].pc \in {"look", "pick"} \/ Req(c).op \in ChecksLate
  /\ (call'[c].st = "queued" /\ Req(c).op \in PowerTools) => call'[c].pc \in {"look", "start"}
  /\ call'[c].st = "tail" => call'[c].pc = "pick" \/ Req(c).op = "rename_vm"

Ends(c) ==
  /\ call[c].st # "idle" /\ call'[c].st = "idle" /\ call'[c].touched = FALSE
  /\ call'[c].req = [op |-> "none"] /\ call'[c].alone = TRUE
  /\ call'[c].told \in {"ok", "refused", "failed"}
  /\ call'[c].told = "ok" => call[c].st \in {"running", "tail"}
  /\ call'[c].told = "refused" => MayRefuse(c)

Quiet(c) == UNCHANGED HostVars /\ Formed(c) /\ OthersStay(c) /\ (GoesOn(c) \/ Passes(c) \/ Ends(c))

Outcome(c) == Changes(c) \/ Quiet(c)

\* A script that reads goes on.
LEMMA GotoGoesOn ==
  ASSUME Shaped, NEW c \in Callers, NEW pc, NEW loc, Goto(c, pc, loc), UNCHANGED HostVars,
         call[c].st \in {"running", "orphan", "tail"}, pc \notin {"look", "pick"}
  PROVE  Outcome(c)
BY DEF Shaped, Fields, Goto, Formed, OthersStay, Outcome, Quiet, GoesOn, SameSoFar

\* A script that acts changes the host.
LEMMA EffectChanges ==
  ASSUME Shaped, NEW c \in Callers, NEW pc, NEW loc, Effect(c, pc, loc), Scripting(c),
         pc \notin {"look", "pick"}
  PROVE  Outcome(c)
<1>1. Acts(c) /\ call'[c].pc = pc
  BY EffectActs
<1>2. call'[c].touched = TRUE /\ call'[c].told = call[c].told
  BY DEF Effect, Shaped, Fields
<1>. QED
  BY <1>1, <1>2 DEF Outcome, Changes

\* What ends a call, ends it for its client.
LEMMA TellEnds ==
  ASSUME Shaped, NEW c \in Callers, UNCHANGED HostVars, call[c].st # "idle",
         \/ Tell(c, "failed")
         \/ Tell(c, "ok") /\ call[c].st \in {"running", "orphan", "tail"}
         \/ Tell(c, "refused") /\ MayRefuse(c)
  PROVE  Outcome(c)
<1>1. Formed(c) /\ OthersStay(c)
  BY DEF Shaped, Fields, Tell, Idle, Formed, OthersStay
<1>2. /\ call'[c].st = "idle" /\ call'[c].touched = FALSE /\ call'[c].alone = TRUE
      /\ call'[c].req = [op |-> "none"]
  BY DEF Shaped, Tell, Idle
<1>3. \/ call'[c].told = "failed"
      \/ call'[c].told = "ok" /\ call[c].st \in {"running", "tail"}
      \/ call'[c].told = "refused" /\ MayRefuse(c)
  BY DEF Shaped, Tell, Idle
<1>. QED
  BY <1>1, <1>2, <1>3 DEF Outcome, Quiet, Ends

\* So does the end of its script.
LEMMA ScriptEnds ==
  ASSUME Shaped, NEW c \in Callers, UNCHANGED HostVars,
         Fail(c) \/ Finish(c) \/ (Throw(c) /\ MayRefuse(c))
  PROVE  Outcome(c)
BY TellEnds DEF Fail, Finish, Throw, Scripting

\* A script that another part of the same call follows passes to it.
LEMMA ThenPasses ==
  ASSUME Shaped, NEW c \in Callers, NEW pc, Scripting(c), UNCHANGED HostVars,
         ThenQueue(c, pc) \/ (ThenTail(c, pc) /\ Req(c).op = "rename_vm"),
         pc \in {"look", "pick"} => Req(c).op \in ChecksLate,
         Req(c).op \in PowerTools => pc \in {"look", "start"}
  PROVE  Outcome(c)
<1>1. CASE call[c].st = "orphan"
  BY <1>1, TellEnds DEF ThenQueue, ThenTail
<1>2. CASE call[c].st # "orphan"
  BY <1>2 DEF ThenQueue, ThenTail, Scripting, Shaped, Fields, Formed, OthersStay, Outcome, Quiet,
     Passes, SameSoFar
<1>. QED
  BY <1>1, <1>2

\* The scripts of machines, checkpoints and disks.
LEMMA StoreOutcomes ==
  ASSUME Shaped, NEW c \in Callers, Script(c), UNCHANGED netVars
  PROVE  Outcome(c)
<1>. USE GotoGoesOn, EffectChanges, ScriptEnds, ThenPasses
     DEF At, Scripting, HostVars, storeVars, netVars, OnlyVMs, MayRefuse, PowerTools, ChecksLate
<1>1. CASE \/ LookUp(c, {"stop_vm", "restart_vm"}, Present, "stop")
            \/ LookUp(c, {"suspend_vm"}, {"Running"}, "act")
            \/ LookUp(c, {"resume_vm"}, {"Running", "Paused", "Saved"}, "act")
            \/ LookUp(c, {"create_checkpoint", "attach_vhd", "export_vm"}, Present, "act")
  BY <1>1 DEF LookUp
<1>2. CASE FindForStart(c)
  BY <1>2 DEF FindForStart
<1>3. CASE StartVM(c)
  BY <1>3 DEF StartVM
<1>4. CASE StopVM(c)
  BY <1>4 DEF StopVM
<1>5. CASE PollForOff(c)
  BY <1>5 DEF PollForOff
<1>6. CASE Suspend(c)
  BY <1>6 DEF Suspend
<1>7. CASE Resume(c)
  BY <1>7 DEF Resume
<1>8. CASE ReportByName(c)
  BY <1>8 DEF ReportByName
<1>9. CASE FindCheckpoint(c)
  BY <1>9 DEF FindCheckpoint
<1>10. CASE CreateCheckpoint(c)
  BY <1>10 DEF CreateCheckpoint
<1>11. CASE TurnOff(c)
  BY <1>11 DEF TurnOff
<1>12. CASE RestoreCheckpoint(c)
  BY <1>12 DEF RestoreCheckpoint
<1>13. CASE DeleteCheckpoint(c)
  BY <1>13 DEF DeleteCheckpoint
<1>14. CASE AwaitMerge(c)
  BY <1>14 DEF AwaitMerge
<1>15. CASE ReadParent(c)
  BY <1>15 DEF ReadParent
<1>16. CASE MakeChild(c)
  BY <1>16 DEF MakeChild
<1>17. CASE ChildMade(c)
  BY <1>17 DEF ChildMade
<1>18. CASE CheckNewName(c)
  BY <1>18 DEF CheckNewName, Creations
<1>19. CASE NewVM(c)
  BY <1>19 DEF NewVM, Creations
<1>20. CASE Configure(c)
  BY <1>20 DEF Configure, Creations
<1>21. CASE BootDevices(c)
  BY <1>21 DEF BootDevices, Creations
<1>22. CASE FindForDelete(c)
  BY <1>22 DEF FindForDelete
<1>23. CASE RemoveVM(c)
  BY <1>23 DEF RemoveVM
<1>24. CASE Survey(c)
  BY <1>24 DEF Survey
<1>25. CASE RemoveDisk(c)
  BY <1>25 DEF RemoveDisk
<1>26. CASE FindForRename(c)
  BY <1>26 DEF FindForRename
<1>27. CASE RenameVM(c)
  BY <1>27 DEF RenameVM
<1>28. CASE ExportVM(c)
  BY <1>28 DEF ExportVM
<1>29. CASE ImportVM(c)
  BY <1>29 DEF ImportVM
<1>30. CASE CreateVHD(c)
  BY <1>30 DEF CreateVHD
<1>31. CASE ConvertVHD(c)
  BY <1>31 DEF ConvertVHD
<1>32. CASE FindForResize(c)
  BY <1>32 DEF FindForResize
<1>33. CASE ResizeVHD(c)
  BY <1>33 DEF ResizeVHD
<1>34. CASE AttachVHD(c)
  BY <1>34 DEF AttachVHD
<1>35. CASE FindForDetach(c)
  BY <1>35 DEF FindForDetach
<1>36. CASE DetachVHD(c)
  BY <1>36 DEF DetachVHD
<1>37. CASE ClearSeedPath(c)
  BY <1>37 DEF ClearSeedPath
<1>38. CASE MakeSeedDisk(c)
  BY <1>38 DEF MakeSeedDisk
<1>39. CASE MountSeedDisk(c)
  BY <1>39 DEF MountSeedDisk
<1>40. CASE WriteSeedDisk(c)
  BY <1>40 DEF WriteSeedDisk
<1>41. CASE EndScript(c)
  BY <1>41 DEF EndScript
<1>42. CASE ScriptDies(c)
  BY <1>42 DEF ScriptDies, Kill
<1>. QED
  BY <1>1, <1>2, <1>3, <1>4, <1>5, <1>6, <1>7, <1>8, <1>9, <1>10, <1>11, <1>12, <1>13, <1>14, <1>15,
     <1>16, <1>17, <1>18, <1>19, <1>20, <1>21, <1>22, <1>23, <1>24, <1>25, <1>26, <1>27, <1>28,
     <1>29, <1>30, <1>31, <1>32, <1>33, <1>34, <1>35, <1>36, <1>37, <1>38, <1>39, <1>40, <1>41,
     <1>42 DEF Script

\* The scripts of switches and adapters.
LEMMA NetworkOutcomes ==
  ASSUME Shaped, NEW c \in Callers, Networking(c)
  PROVE  Outcome(c)
<1>. USE GotoGoesOn, EffectChanges, ScriptEnds, ThenPasses
     DEF At, Scripting, HostVars, storeVars, netVars, OnlyVMs, MayRefuse, PowerTools, ChecksLate
<1>1. CASE CheckNewSwitch(c)
  BY <1>1 DEF CheckNewSwitch
<1>2. CASE NewSwitch(c)
  BY <1>2 DEF NewSwitch
<1>3. CASE FindSwitch(c)
  BY <1>3 DEF FindSwitch
<1>4. CASE DeleteSwitch(c)
  BY <1>4 DEF DeleteSwitch
<1>5. CASE ClearHostAddress(c)
  BY <1>5 DEF ClearHostAddress
<1>6. CASE SetHostAddress(c)
  BY <1>6 DEF SetHostAddress
<1>7. CASE RemoveNAT(c)
  BY <1>7 DEF RemoveNAT
<1>8. CASE NewNAT(c)
  BY <1>8 DEF NewNAT
<1>9. CASE FindAdapter(c)
  <2>1. Scripting(c) /\ call[c].pc = "look" /\ UNCHANGED HostVars
    BY <1>9 DEF FindAdapter
  <2>2. Throw(c) \/ \E loc : Goto(c, "connect", loc) \/ Goto(c, "add", loc)
    BY <1>9 DEF FindAdapter
  <2>. QED
    BY <2>1, <2>2
<1>10. CASE AddAdapter(c)
  <2>1. Scripting(c) /\ call[c].pc = "add" /\ \E loc : Effect(c, "connect", loc)
    BY <1>10 DEF AddAdapter
  <2>. QED
    BY <2>1
<1>11. CASE ConnectAdapter(c)
  BY <1>11 DEF ConnectAdapter
<1>12. CASE SetPort(c)
  BY <1>12 DEF SetPort
<1>13. CASE RemoveAdapter(c)
  BY <1>13 DEF RemoveAdapter
<1>. QED
  BY <1>1, <1>2, <1>3, <1>4, <1>5, <1>6, <1>7, <1>8, <1>9, <1>10, <1>11, <1>12, <1>13 DEF Networking

\* The settings tools.
LEMMA SettingsOutcomes ==
  ASSUME Shaped, NEW c \in Callers, Settings(c), UNCHANGED netVars
  PROVE  Outcome(c)
<1>. USE GotoGoesOn, EffectChanges, ScriptEnds, ThenPasses
     DEF At, Scripting, HostVars, storeVars, netVars, OnlyVMs, MayRefuse, PowerTools, ChecksLate, Setters, NotOffered
<1>1. CASE FindForSetting(c)
  <2>1. Scripting(c) /\ call[c].pc = "look" /\ UNCHANGED HostVars
    BY <1>1 DEF FindForSetting
  <2>2. Throw(c) \/ \E loc : Goto(c, "apply", loc)
    BY <1>1 DEF FindForSetting
  <2>. QED
    BY <2>1, <2>2
<1>2. CASE ApplySetting(c)
  BY <1>2 DEF ApplySetting
<1>. QED
  BY <1>1, <1>2 DEF Settings

\* What the service does for a call once a script of it is over, or before one.
LEMMA ServiceOutcomes ==
  ASSUME Shaped, NEW c \in Callers, UNCHANGED HostVars,
         \/ RenameDone(c) \/ RecordsTail(c) \/ ReadAdapters(c) \/ Pick(c) \/ Diagnose(c) \/ CancelQueued(c)
  PROVE  Outcome(c)
<1>. USE GotoGoesOn, TellEnds, ScriptEnds, ThenPasses DEF MayRefuse, At
<1>1. CASE RenameDone(c)
  BY <1>1 DEF RenameDone, Req, PowerTools
<1>2. CASE MoveCredentials(c) \/ MovePin(c) \/ DropConnection(c)
  BY <1>2 DEF MoveCredentials, MovePin, DropConnection
<1>3. CASE MoveTunnels(c) \/ Diagnose(c)
  BY <1>3 DEF MoveTunnels, Diagnose
<1>4. ASSUME call[c].st \in {"running", "tail"}, call[c].pc \in {"look", "pick"}, NEW loc,
             \/ call' = [call EXCEPT ![c].st = "tail", ![c].pc = "pick", ![c].loc = loc]
             \/ call' = [call EXCEPT ![c].st = "queued", ![c].pc = "look", ![c].loc = loc]
      PROVE  Outcome(c)
  <2>1. Formed(c) /\ OthersStay(c)
    BY <1>4 DEF Shaped, Fields, Formed, OthersStay
  <2>2. SameSoFar(c) /\ call'[c].st \in {"queued", "tail"}
        /\ (call'[c].st = "queued" => call'[c].pc = "look")
        /\ (call'[c].st = "tail" => call'[c].pc = "pick")
    BY <1>4 DEF Shaped, Fields, SameSoFar
  <2>. QED
    BY <1>4, <2>1, <2>2 DEF Outcome, Quiet, Passes
<1>5. CASE ReadAdapters(c)
  <2>1. /\ Scripting(c) /\ call[c].pc = "look"
        /\ \/ Throw(c) \/ Fail(c)
           \/ /\ call[c].st # "orphan"
              /\ \E loc : call' = [call EXCEPT ![c].st = "tail", ![c].pc = "pick", ![c].loc = loc]
    BY <1>5 DEF ReadAdapters
  <2>. QED
    BY <1>4, <2>1 DEF Scripting
<1>6. CASE Pick(c)
  <2>1. /\ call[c].st = "tail" /\ call[c].pc = "pick"
        /\ \/ Tell(c, "ok") \/ Tell(c, "refused")
           \/ call' = [call EXCEPT ![c].st = "queued", ![c].pc = "look", ![c].loc = {}]
    BY <1>6 DEF Pick
  <2>. QED
    BY <1>4, <2>1
<1>7. CASE CancelQueued(c)
  <2>1. Tell(c, "failed") /\ call[c].st # "idle"
    BY <1>7 DEF CancelQueued, Tell
  <2>. QED
    BY <2>1
<1>. QED
  BY <1>1, <1>2, <1>3, <1>5, <1>6, <1>7 DEF RecordsTail

\* Whatever is done for a call, one of its outcomes comes of it.
LEMMA WorksOutcomes ==
  ASSUME Shaped, NEW c \in Callers, Works(c)
  PROVE  Outcome(c)
<1>1. CASE RunsScript(c)
  BY <1>1, StoreOutcomes, SettingsOutcomes DEF RunsScript
<1>2. CASE RunsNetworkScript(c)
  BY <1>2, NetworkOutcomes DEF RunsNetworkScript
<1>3. CASE EndsRename(c) \/ MovesRecords(c) \/ Answers(c)
  BY <1>3, ServiceOutcomes DEF EndsRename, OnlyTheCall, MovesRecords, Answers, HostVars, storeVars,
     netVars
<1>. QED
  BY <1>1, <1>2, <1>3 DEF Works

(* What happens to the calls and the host in a step of any kind. *)
StepOf(c) ==
  \/ Outcome(c) /\ (Works(c) \/ CancelQueued(c))
  \/ UNCHANGED HostVars /\ TakeSlot(c)
  \/ UNCHANGED HostVars /\ Refuse(c)
  \/ UNCHANGED HostVars /\ \E r \in todo : Submit(c, r, FirstStep(r.op))

Nothing == UNCHANGED <<call, held>> /\ UNCHANGED HostVars
HyperVMovesAlone == /\ \E i \in Ids : MergeEnds(i) \/ GuestShutsDown(i)
                    /\ UNCHANGED <<exports, switches, bound, hostAddr, nats>>

\* Every step is one of these.
LEMMA Steps ==
  ASSUME Shaped, [Next]_vars
  PROVE  \/ Nothing \/ HyperVMovesAlone
         \/ UNCHANGED HostVars /\ (Overtake \/ ServiceDies)
         \/ \E c \in Callers : StepOf(c)
<1>. USE DEF HostVars, storeVars, netVars
<1>1. ASSUME NEW c \in Callers, Ask(c)
      PROVE  StepOf(c)
  BY <1>1 DEF Ask, StepOf
<1>2. ASSUME NEW c \in Callers, GetsSlot(c)
      PROVE  StepOf(c)
  BY <1>2 DEF GetsSlot, OnlyTheCall, StepOf
<1>3. ASSUME NEW c \in Callers, GivesUp(c) \/ Works(c)
      PROVE  StepOf(c)
  BY <1>3, WorksOutcomes, ServiceOutcomes DEF GivesUp, OnlyTheCall, StepOf
<1>4. CASE FilesRecord \/ UNCHANGED vars
  BY <1>4 DEF FilesRecord, vars, runnerVars, Nothing
<1>5. CASE Meanwhile
  <2>1. CASE \E i \in Ids : MergeEnds(i) \/ ("guests" \in events /\ GuestShutsDown(i))
    BY <1>5, <2>1 DEF Meanwhile, HyperVMovesAlone, MergeEnds, GuestShutsDown, OnlyVMs, CableMoves,
       GuestReports, Become
  <2>2. CASE ~\E i \in Ids : MergeEnds(i) \/ ("guests" \in events /\ GuestShutsDown(i))
    BY <1>5, <2>2 DEF Meanwhile, CableMoves, GuestReports, Nothing
  <2>. QED
    BY <2>1, <2>2
<1>. QED
  BY <1>1, <1>2, <1>3, <1>4, <1>5 DEF Next

(***************************************************************************)
(* What a refusal finds.  A call that has changed the host is past its     *)
(* first look, unless its tool checks late; and a power tool that nobody   *)
(* overtook still finds its machine by name.                               *)
(***************************************************************************)
Stages == {"idle", "queued", "running", "tail", "orphan"}

Clean ==
  \A c \in Callers :
    /\ call[c].st \in Stages /\ call[c].touched \in BOOLEAN
    /\ call[c].st = "idle" => ~call[c].touched
    /\ (call[c].touched /\ call[c].pc \in {"look", "pick"}) => Req(c).op \in ChecksLate
    /\ (call[c].st = "queued" /\ Req(c).op \in PowerTools) => call[c].pc \in {"look", "start"}

PowerLooked ==
  \A c \in Callers :
    (/\ Req(c).op \in PowerTools /\ call[c].alone
     /\ call[c].touched \/ (Scripting(c) /\ call[c].pc \notin {"look", "start"}))
      => Named(Req(c).name) # {}

\* A script that is overtaken shows no more to its client than before.
LEMMA OvertakenShows ==
  ASSUME Shaped, NEW d \in Callers
  PROVE  Overtaken(d).touched = call[d].touched /\ Overtaken(d).told = call[d].told
BY DEF Shaped, Fields, Overtaken

\* What the death of the service leaves of a call.
LEMMA DeathLeaves ==
  ASSUME Shaped, ServiceDies, NEW c \in Callers
  PROVE  \/ call[c].st = "idle" /\ call'[c] = call[c]
         \/ /\ Scripting(c) /\ call'[c].st = "orphan" /\ call'[c].told = "failed"
            /\ call'[c].req = call[c].req /\ call'[c].pc = call[c].pc
            /\ call'[c].touched = call[c].touched /\ call'[c].alone = call[c].alone
         \/ /\ call[c].st # "idle" /\ ~Scripting(c)
            /\ call'[c].st = "idle" /\ call'[c].touched = FALSE /\ call'[c].told = "failed"
            /\ call'[c].req = [op |-> "none"]
<1>1. CASE call[c].st = "idle"
  BY <1>1 DEF ServiceDies, Scripting
<1>2. CASE Scripting(c)
  <2>1. call'[c] = [call[c] EXCEPT !.st = "orphan", !.told = "failed"]
    BY <1>2 DEF ServiceDies, Scripting
  <2>. QED
    BY <1>2, <2>1 DEF Shaped, Fields
<1>3. CASE call[c].st # "idle" /\ ~Scripting(c)
  <2>1. call'[c] = [Idle EXCEPT !.told = "failed"]
    BY <1>3 DEF ServiceDies
  <2>. QED
    BY <1>3, <2>1 DEF Idle
<1>. QED
  BY <1>1, <1>2, <1>3

\* Every step keeps the first of these.
LEMMA CleanNext ==
  ASSUME Shaped, Clean, [Next]_vars
  PROVE  Clean'
<1>. USE DEF Clean, Stages, Req
<1>1. CASE Nothing \/ HyperVMovesAlone
  BY <1>1 DEF Nothing, HyperVMovesAlone, MergeEnds, GuestShutsDown
<1>2. CASE Overtake
  BY <1>2, OvertakenKeeps, OvertakenShows DEF Overtake
<1>3. CASE ServiceDies
  BY <1>3, DeathLeaves DEF Scripting
<1>4. ASSUME NEW c \in Callers, TakeSlot(c) \/ Refuse(c)
      PROVE  Clean'
  BY <1>4 DEF TakeSlot, Refuse, Shaped, Fields
<1>5. ASSUME NEW c \in Callers, NEW r \in todo, Submit(c, r, FirstStep(r.op))
      PROVE  Clean'
  <2>1. call'[c].st = "queued" /\ call'[c].touched = FALSE /\ call'[c].req = r /\ call'[c].pc = FirstStep(r.op)
    BY <1>5 DEF Submit, Shaped, Idle
  <2>2. r.op \in PowerTools => FirstStep(r.op) \in {"look", "start"}
    BY DEF FirstStep, PowerTools
  <2>3. \A d \in Callers \ {c} : call'[d] = call[d]
    BY <1>5 DEF Submit, Shaped
  <2>. QED
    BY <2>1, <2>2, <2>3
<1>6. ASSUME NEW c \in Callers, Changes(c)
      PROVE  Clean'
  <2>1. /\ call'[c].st \in {"running", "orphan"} /\ call'[c].pc \notin {"look", "pick"}
        /\ call'[c].touched = TRUE
    BY <1>6 DEF Changes, Acts, Same, Scripting
  <2>2. \A d \in Callers \ {c} :
          /\ call'[d].st = call[d].st /\ call'[d].pc = call[d].pc /\ call'[d].req = call[d].req
          /\ call'[d].touched = call[d].touched
    BY <1>6, OvertakenKeeps, OvertakenShows DEF Changes, Acts, OthersOvertaken
  <2>. QED
    BY <2>1, <2>2
<1>7. ASSUME NEW c \in Callers, Quiet(c)
      PROVE  Clean'
  <2>1. \A d \in Callers \ {c} : call'[d] = call[d]
    BY <1>7 DEF Quiet, OthersStay
  <2>2. CASE GoesOn(c)
    BY <2>1, <2>2 DEF GoesOn, SameSoFar
  <2>3. CASE Passes(c)
    BY <2>1, <2>3 DEF Passes, SameSoFar
  <2>4. CASE Ends(c)
    BY <2>1, <2>4 DEF Ends
  <2>. QED
    BY <1>7, <2>2, <2>3, <2>4 DEF Quiet
<1>. QED
  BY <1>1, <1>2, <1>3, <1>4, <1>5, <1>6, <1>7, Steps DEF StepOf, Outcome

\* Machines keep their names and stay.
NamesStay == \A i \in Ids : Exists(i)' = Exists(i) /\ vms'[i].name = vms[i].name

\* So what was found by a name is found by it again.
LEMMA StayNamed ==
  ASSUME NamesStay, NEW n
  PROVE  Named(n)' = Named(n)
BY DEF NamesStay, Named

\* A power tool looks before it acts, and never takes a name from its machine.
LEMMA PowerSteps ==
  ASSUME Shaped, MachinesFormed, NEW c \in Callers, Script(c), Req(c).op \in PowerTools
  PROVE  /\ NamesStay
         /\ Scripting(c)' => Named(Req(c).name) # {} \/ call[c].pc \notin {"look", "start"}
<1>. USE EndsLeave DEF At, PowerTools, Exists, NamesStay, MachinesFormed, MachineFields, Become,
   storeVars, Leaves
<1>. DEFINE Looked == Scripting(c)' => Named(Req(c).name) # {} \/ call[c].pc \notin {"look", "start"}
<1>0. Throw(c) => Looked
  BY DEF Scripting
<1>1. CASE \/ LookUp(c, {"stop_vm", "restart_vm"}, Present, "stop")
            \/ LookUp(c, {"suspend_vm"}, {"Running"}, "act")
            \/ LookUp(c, {"resume_vm"}, {"Running", "Paused", "Saved"}, "act")
            \/ LookUp(c, {"create_checkpoint", "attach_vhd", "export_vm"}, Present, "act")
  BY <1>0, <1>1 DEF LookUp
<1>2. CASE FindForStart(c)
  BY <1>0, <1>2 DEF FindForStart
<1>3. CASE StartVM(c)
  BY <1>3 DEF StartVM, StillThere
<1>4. CASE StopVM(c)
  BY <1>4 DEF StopVM, StillThere
<1>5. CASE Suspend(c)
  BY <1>5 DEF Suspend, StillThere
<1>6. CASE Resume(c)
  BY <1>6 DEF Resume, StillThere
<1>7. CASE PollForOff(c) \/ ReportByName(c)
  BY <1>7 DEF PollForOff, ReportByName
<1>8. CASE EndScript(c)
  BY <1>8 DEF EndScript
<1>9. CASE ScriptDies(c)
  BY <1>9 DEF ScriptDies, Kill, Scripting
<1>10. CASE \/ FindCheckpoint(c) \/ CreateCheckpoint(c) \/ TurnOff(c) \/ RestoreCheckpoint(c)
            \/ DeleteCheckpoint(c) \/ AwaitMerge(c) \/ ReadParent(c) \/ MakeChild(c) \/ ChildMade(c)
            \/ CheckNewName(c) \/ NewVM(c) \/ Configure(c) \/ BootDevices(c)
  BY <1>10 DEF FindCheckpoint, CreateCheckpoint, TurnOff, RestoreCheckpoint, DeleteCheckpoint,
     AwaitMerge, ReadParent, MakeChild, ChildMade, CheckNewName, NewVM, Configure, BootDevices, Creations
<1>11. CASE \/ FindForDelete(c) \/ RemoveVM(c) \/ Survey(c) \/ RemoveDisk(c) \/ FindForRename(c)
            \/ RenameVM(c) \/ ExportVM(c) \/ ImportVM(c) \/ CreateVHD(c) \/ ConvertVHD(c)
            \/ FindForResize(c) \/ ResizeVHD(c) \/ AttachVHD(c) \/ FindForDetach(c) \/ DetachVHD(c)
            \/ ClearSeedPath(c) \/ MakeSeedDisk(c) \/ MountSeedDisk(c) \/ WriteSeedDisk(c)
  BY <1>11 DEF FindForDelete, RemoveVM, Survey, RemoveDisk, FindForRename, RenameVM, ExportVM,
     ImportVM, CreateVHD, ConvertVHD, FindForResize, ResizeVHD, AttachVHD, FindForDetach, DetachVHD,
     ClearSeedPath, MakeSeedDisk, MountSeedDisk, WriteSeedDisk
<1>. QED
  BY <1>1, <1>2, <1>3, <1>4, <1>5, <1>6, <1>7, <1>8, <1>9, <1>10, <1>11 DEF Script

\* The power of machines and merges take no name from a machine.
LEMMA MovesKeepNames ==
  ASSUME MachinesFormed, HyperVMovesAlone
  PROVE  NamesStay
<1>. USE DEF MachinesFormed, MachineFields, NamesStay, Exists
<1>1. ASSUME NEW i \in Ids, GuestShutsDown(i)
      PROVE  NamesStay
  BY <1>1 DEF GuestShutsDown, Become
<1>2. ASSUME NEW i \in Ids, MergeEnds(i)
      PROVE  NamesStay
  BY <1>2 DEF MergeEnds
<1>. QED
  BY <1>1, <1>2 DEF HyperVMovesAlone

\* A call in the middle of a power tool runs a script of machines.
LEMMA PowerWorks ==
  ASSUME Shaped, MachinesFormed, NEW c \in Callers, Works(c), Scripting(c), Req(c).op \in PowerTools
  PROVE  /\ NamesStay
         /\ Scripting(c)' => Named(Req(c).name) # {} \/ call[c].pc \notin {"look", "start"}
<1>1. CASE RunsScript(c)
  <2>1. ~Settings(c)
    BY DEF Settings, FindForSetting, ApplySetting, At, Setters, PowerTools
  <2>. QED
    BY <1>1, <2>1, PowerSteps DEF RunsScript
<1>2. ~RunsNetworkScript(c)
  BY DEF RunsNetworkScript, Networking, CheckNewSwitch, NewSwitch, FindSwitch, DeleteSwitch,
     ClearHostAddress, SetHostAddress, RemoveNAT, NewNAT, FindAdapter, AddAdapter, ConnectAdapter,
     SetPort, RemoveAdapter, At, PowerTools
<1>3. ~EndsRename(c)
  BY DEF EndsRename, RenameDone, At, PowerTools
<1>4. ~MovesRecords(c)
  BY DEF MovesRecords, RecordsTail, MoveCredentials, MovePin, DropConnection, MoveTunnels, Scripting
<1>5. ~Answers(c)
  BY DEF Answers, ReadAdapters, Pick, Diagnose, At, Scripting, PowerTools
<1>. QED
  BY <1>1, <1>2, <1>3, <1>4, <1>5 DEF Works

\* A power tool that nobody overtook still finds its machine.
LEMMA PowerLookedNext ==
  ASSUME Shaped, MachinesFormed, Clean, PowerLooked, [Next]_vars
  PROVE  PowerLooked'
<1>. SUFFICES ASSUME NEW d \in Callers, Req(d).op' \in PowerTools, call'[d].alone,
                     call'[d].touched \/ (Scripting(d)' /\ call'[d].pc \notin {"look", "start"})
              PROVE  Named(Req(d).name)' # {}
  BY DEF PowerLooked
<1>. DEFINE Was == call[d].alone /\ (call[d].touched \/ (Scripting(d) /\ call[d].pc \notin {"look", "start"}))
<1>0. ASSUME Was, Req(d)' = Req(d), NamesStay
      PROVE  Named(Req(d).name)' # {}
  BY <1>0, StayNamed DEF PowerLooked
<1>1. UNCHANGED vms => NamesStay
  BY DEF NamesStay, Exists
<1>2. CASE Nothing
  BY <1>0, <1>1, <1>2 DEF Nothing, HostVars, Req, Scripting
<1>3. CASE HyperVMovesAlone
  <2>1. UNCHANGED call
    BY <1>3 DEF HyperVMovesAlone, MergeEnds, GuestShutsDown
  <2>. QED
    BY <1>0, <1>3, <2>1, MovesKeepNames DEF Req, Scripting
<1>4. CASE UNCHANGED HostVars /\ Overtake
  BY <1>0, <1>1, <1>4, OvertakenKeeps, OvertakenShows DEF Overtake, HostVars, Req, Scripting, Overtaken
<1>5. CASE UNCHANGED HostVars /\ ServiceDies
  <2>1. Was /\ Req(d)' = Req(d)
    BY <1>5, DeathLeaves DEF Req, Scripting
  <2>. QED
    BY <1>0, <1>1, <1>5, <2>1 DEF HostVars
<1>6. ASSUME NEW c \in Callers, c # d, StepOf(c)
      PROVE  Named(Req(d).name)' # {}
  <2>1. CASE Changes(c)
    <3>1. call'[d] = Overtaken(d)
      BY <1>6, <2>1 DEF Changes, Acts, OthersOvertaken
    <3>2. ~call'[d].alone
      BY <3>1, OvertakenKeeps, OvertakenShows DEF Scripting, Overtaken, Shaped, Fields
    <3>. QED
      BY <3>2
  <2>2. CASE ~Changes(c)
    <3>1. UNCHANGED vms /\ call'[d] = call[d]
      BY <1>6, <2>2
         DEF StepOf, Outcome, Quiet, OthersStay, HostVars, TakeSlot, Refuse, Submit, Shaped
    <3>. QED
      BY <1>0, <1>1, <3>1 DEF Req, Scripting
  <2>. QED
    BY <2>1, <2>2
<1>7. CASE UNCHANGED HostVars /\ (TakeSlot(d) \/ Refuse(d))
  <2>1. /\ UNCHANGED vms /\ Req(d)' = Req(d) /\ call'[d].alone = call[d].alone
        /\ call'[d].touched = call[d].touched /\ call'[d].pc = call[d].pc
    BY <1>7 DEF TakeSlot, Refuse, Shaped, Fields, Req, HostVars
  <2>2. call[d].touched
    BY <1>7, <2>1 DEF TakeSlot, Refuse, Shaped, Fields, Clean, Req, Scripting
  <2>. QED
    BY <1>0, <1>1, <2>1, <2>2
<1>8. CASE \E r \in todo : Submit(d, r, FirstStep(r.op))
  BY <1>8 DEF Submit, Shaped, Idle, Scripting
<1>9. CASE CancelQueued(d)
  BY <1>9 DEF CancelQueued, Shaped, Idle, Scripting
<1>10. CASE Outcome(d) /\ Works(d)
  <2>1. ~Ends(d)
    BY DEF Ends, Scripting
  <2>2. Req(d)' = Req(d) /\ call'[d].alone = call[d].alone
    BY <1>10, <2>1 DEF Outcome, Changes, Acts, Same, Quiet, GoesOn, Passes, SameSoFar, Req
  <2>3. CASE Scripting(d)
    <3>1. /\ NamesStay
          /\ Scripting(d)' => Named(Req(d).name) # {} \/ call[d].pc \notin {"look", "start"}
      BY <1>10, <2>2, <2>3, PowerWorks
    <3>2. CASE Was
      BY <1>0, <2>2, <3>1, <3>2
    <3>3. CASE ~Was
      <4>1. Scripting(d)'
        BY <1>10, <2>1, <2>2, <2>3, <3>3
           DEF Outcome, Changes, Acts, Same, Quiet, GoesOn, Passes, SameSoFar, Scripting
      <4>2. Named(Req(d).name) # {}
        BY <2>2, <2>3, <3>1, <3>3, <4>1
      <4>. QED
        BY <2>2, <3>1, <4>2, StayNamed
    <3>. QED
      BY <3>2, <3>3
  <2>4. CASE ~Scripting(d)
    <3>1. UNCHANGED vms /\ call'[d].touched = call[d].touched /\ ~Scripting(d)'
      BY <1>10, <2>1, <2>4
         DEF Outcome, Changes, Quiet, GoesOn, Passes, SameSoFar, Scripting, HostVars
    <3>. QED
      BY <1>0, <1>1, <2>2, <3>1
  <2>. QED
    BY <2>3, <2>4
<1>. QED
  BY <1>2, <1>3, <1>4, <1>5, <1>6, <1>7, <1>8, <1>9, <1>10, Steps DEF StepOf

(***************************************************************************)
(* The host that the contract speaks of.                                   *)
(***************************************************************************)

\* A step that leaves the host alone leaves all the contract sees of it.
LEMMA QuietHost ==
  ASSUME UNCHANGED HostVars
  PROVE  UNCHANGED HostState
BY DEF HostVars, HostState, Layer, Unused

\* So do the guests and the merges, which only take layers away.
LEMMA MovesHost ==
  ASSUME MachinesFormed, HyperVMovesAlone
  PROVE  UNCHANGED HostState
<1>. USE DEF MachinesFormed, MachineFields
<1>1. UNCHANGED <<exports, switches, bound, hostAddr, nats>>
  BY DEF HyperVMovesAlone
<1>2. [i \in Ids |-> <<vms[i].name, vms[i].conf, vms[i].nics, vms[i].built>>]'
        = [i \in Ids |-> <<vms[i].name, vms[i].conf, vms[i].nics, vms[i].built>>]
  <2>1. \A i \in Ids : /\ vms'[i].name = vms[i].name /\ vms'[i].conf = vms[i].conf
                       /\ vms'[i].nics = vms[i].nics /\ vms'[i].built = vms[i].built
    BY DEF HyperVMovesAlone, MergeEnds, GuestShutsDown, Become
  <2>. QED
    BY <2>1
<1>3. \A p \in Paths : (~Unused(p) /\ ~Layer(p))' <=> (~Unused(p) /\ ~Layer(p))
  <2>1. ASSUME NEW i \in Ids, GuestShutsDown(i)
        PROVE  \A p \in Paths : (~Unused(p) /\ ~Layer(p))' <=> (~Unused(p) /\ ~Layer(p))
    <3>1. UNCHANGED files /\ \A j \in Ids : vms'[j].layers = vms[j].layers /\ vms'[j].snap = vms[j].snap
      BY <2>1 DEF GuestShutsDown, Become, OnlyVMs
    <3>. QED
      BY <3>1 DEF Unused, Layer
  <2>2. ASSUME NEW i \in Ids, MergeEnds(i), NEW p \in Paths
        PROVE  (~Unused(p) /\ ~Layer(p))' <=> (~Unused(p) /\ ~Layer(p))
    <3>1. /\ vms'[i].snap = {}
          /\ \A j \in Ids \ {i} : vms'[j] = vms[j]
      BY <2>2 DEF MergeEnds
    <3>2. CASE p \in vms[i].layers /\ files[p] \in vms[i].snap
      BY <2>2, <3>2 DEF MergeEnds, Unused, Layer
    <3>3. CASE ~(p \in vms[i].layers /\ files[p] \in vms[i].snap)
      <4>1. files'[p] = files[p]
        BY <2>2, <3>3 DEF MergeEnds
      <4>2. Layer(p)' <=> Layer(p)
        BY <3>1, <3>3, <4>1 DEF Layer
      <4>. QED
        BY <4>1, <4>2 DEF Unused
    <3>. QED
      BY <3>2, <3>3
  <2>. QED
    BY <2>1, <2>2 DEF HyperVMovesAlone
<1>. QED
  BY <1>1, <1>2, <1>3 DEF HostState

(***************************************************************************)
(* The steps of the contract.                                              *)
(***************************************************************************)

\* What the contract sees of the calls is all that a step of it shows.
Seen == <<[c \in Callers |-> Phase[call[c].st]], [c \in Callers |-> call[c].touched],
          [c \in Callers |-> call[c].told], HostState>>

\* The calls that work are those that hold a slot.
LEMMA BusyRun ==
  ASSUME Clean
  PROVE  Contract!Busy = Running
BY DEF Contract!Busy, Clean, Stages, Phase, Running

\* A step that shows nothing.
LEMMA Stutter ==
  ASSUME UNCHANGED HostState,
         \A d \in Callers : /\ call'[d].st = call[d].st /\ call'[d].touched = call[d].touched
                            /\ call'[d].told = call[d].told
  PROVE  UNCHANGED Seen
BY DEF Seen

\* A step of one call shows in that call alone.
LEMMA ShowsOne ==
  ASSUME NEW c \in Callers, NEW st, NEW touched, NEW told,
         call'[c].st = st, call'[c].touched = touched, call'[c].told = told,
         \A d \in Callers \ {c} : /\ call'[d].st = call[d].st /\ call'[d].touched = call[d].touched
                                  /\ call'[d].told = call[d].told
  PROVE  /\ [d \in Callers |-> Phase[call[d].st]]'
                = [[d \in Callers |-> Phase[call[d].st]] EXCEPT ![c] = Phase[st]]
         /\ [d \in Callers |-> call[d].touched]' = [[d \in Callers |-> call[d].touched] EXCEPT ![c] = touched]
         /\ [d \in Callers |-> call[d].told]' = [[d \in Callers |-> call[d].told] EXCEPT ![c] = told]
OBVIOUS

\* A part that no call shows a change of.
LEMMA ShowsSame ==
  /\ (\A d \in Callers : call'[d].st = call[d].st) => UNCHANGED [d \in Callers |-> Phase[call[d].st]]
  /\ (\A d \in Callers : call'[d].touched = call[d].touched) => UNCHANGED [d \in Callers |-> call[d].touched]
  /\ (\A d \in Callers : call'[d].told = call[d].told) => UNCHANGED [d \in Callers |-> call[d].told]
OBVIOUS

\* A call is turned away on the spot.
LEMMA RefuseMaps ==
  ASSUME Shaped, NEW c \in Callers, UNCHANGED HostState, Refuse(c)
  PROVE  Contract!TurnAway(c)
<1>1. /\ call'[c].st = call[c].st /\ call'[c].touched = call[c].touched /\ call'[c].told = "refused"
      /\ call[c].st = "idle" /\ \A d \in Callers \ {c} : call'[d] = call[d]
  BY DEF Refuse, Shaped, Fields
<1>2. Phase[call[c].st] = "idle"
  BY <1>1 DEF Phase
<1>3. UNCHANGED <<[d \in Callers |-> Phase[call[d].st]], [d \in Callers |-> call[d].touched]>>
  BY <1>1, ShowsSame
<1>4. [d \in Callers |-> call[d].told]' = [[d \in Callers |-> call[d].told] EXCEPT ![c] = "refused"]
  BY <1>1, ShowsOne
<1>. QED
  BY <1>1, <1>2, <1>3, <1>4 DEF Contract!TurnAway

\* It asks.
LEMMA SubmitMaps ==
  ASSUME Shaped, NEW c \in Callers, UNCHANGED HostState, NEW r, NEW pc, Submit(c, r, pc)
  PROVE  Contract!Ask(c)
<1>1. /\ call'[c].st = "queued" /\ call'[c].touched = FALSE /\ call'[c].told = "none"
      /\ call[c].st = "idle" /\ \A d \in Callers \ {c} : call'[d] = call[d]
  BY DEF Submit, Shaped, Fields, Idle
<1>2. Phase[call[c].st] = "idle" /\ Phase["queued"] = "waiting"
  BY <1>1 DEF Phase
<1>3. /\ [d \in Callers |-> Phase[call[d].st]]'
             = [[d \in Callers |-> Phase[call[d].st]] EXCEPT ![c] = Phase["queued"]]
      /\ [d \in Callers |-> call[d].touched]' = [[d \in Callers |-> call[d].touched] EXCEPT ![c] = FALSE]
      /\ [d \in Callers |-> call[d].told]' = [[d \in Callers |-> call[d].told] EXCEPT ![c] = "none"]
  BY <1>1, ShowsOne
<1>. QED
  BY <1>1, <1>2, <1>3 DEF Contract!Ask

\* It gets its turn.
LEMMA BeginMaps ==
  ASSUME Shaped, SlotsAreGivenBack, Clean, NEW c \in Callers, UNCHANGED HostState, TakeSlot(c)
  PROVE  Contract!Begin(c)
<1>1. /\ call'[c].st = "running" /\ call'[c].touched = call[c].touched /\ call'[c].told = call[c].told
      /\ call[c].st = "queued" /\ \A d \in Callers \ {c} : call'[d] = call[d]
  BY DEF TakeSlot, Shaped, Fields
<1>2. Phase[call[c].st] = "waiting" /\ Phase["running"] = "working"
  BY <1>1 DEF Phase
<1>3. Contract!Cardinality(Contract!Busy) < Slots
  <2>1. Cardinality(Running) < Slots
    BY DEF TakeSlot, SlotsAreGivenBack, Running
  <2>2. Contract!Cardinality(Running) = Cardinality(Running)
    BY Zenon DEF Contract!Cardinality, Cardinality
  <2>. QED
    BY <2>1, <2>2, BusyRun
<1>4. [d \in Callers |-> Phase[call[d].st]]'
            = [[d \in Callers |-> Phase[call[d].st]] EXCEPT ![c] = Phase["running"]]
  BY <1>1, ShowsOne
<1>5. \A d \in Callers : call'[d].touched = call[d].touched /\ call'[d].told = call[d].told
  BY <1>1
<1>6. UNCHANGED <<[d \in Callers |-> call[d].touched], [d \in Callers |-> call[d].told]>>
  BY <1>5, ShowsSame
<1>. QED
  BY <1>1, <1>2, <1>3, <1>4, <1>6 DEF Contract!Begin

\* It changes the host.
LEMMA ChangeMaps ==
  ASSUME Shaped, NEW c \in Callers, Changes(c)
  PROVE  Contract!Change(c)
<1>1. \A d \in Callers : call'[d].st = call[d].st /\ call'[d].told = call[d].told
  BY OvertakenKeeps, OvertakenShows DEF Changes, Acts, Same, OthersOvertaken
<1>2. call'[c].touched = TRUE /\ \A d \in Callers \ {c} : call'[d].touched = call[d].touched
  BY OvertakenShows DEF Changes, Acts, OthersOvertaken
<1>3. Phase[call[c].st] \in {"working", "lost"}
  BY DEF Changes, Scripting, Phase
<1>4. UNCHANGED <<[d \in Callers |-> Phase[call[d].st]], [d \in Callers |-> call[d].told]>>
  BY <1>1, ShowsSame
<1>5. [d \in Callers |-> call[d].touched]' = [[d \in Callers |-> call[d].touched] EXCEPT ![c] = TRUE]
  BY <1>1, <1>2, ShowsOne
<1>. QED
  BY <1>3, <1>4, <1>5 DEF Contract!Change

\* It goes on to its next part, or ends, having left the host alone.
LEMMA QuietMaps ==
  ASSUME Clean, PowerLooked, NEW c \in Callers, Quiet(c)
  PROVE  \/ UNCHANGED Seen \/ Contract!Pause(c)
         \/ \E what \in {"ok", "refused", "failed"} : Contract!Answer(c, what)
<1>1. UNCHANGED HostState /\ \A d \in Callers \ {c} : call'[d] = call[d]
  BY QuietHost DEF Quiet, OthersStay
<1>2. CASE GoesOn(c)
  BY <1>1, <1>2, Stutter DEF GoesOn, SameSoFar
<1>3. CASE Passes(c)
  <2>1. Phase[call[c].st] \in {"working", "closing"} /\ Phase[call'[c].st] \in {"waiting", "closing"}
    BY <1>3 DEF Passes, Phase
  <2>2. [d \in Callers |-> Phase[call[d].st]]'
            = [[d \in Callers |-> Phase[call[d].st]] EXCEPT ![c] = Phase[call'[c].st]]
    BY <1>1, <1>3, ShowsOne DEF Passes, SameSoFar
  <2>3. \A d \in Callers : call'[d].touched = call[d].touched /\ call'[d].told = call[d].told
    BY <1>1, <1>3 DEF Passes, SameSoFar
  <2>4. UNCHANGED <<[d \in Callers |-> call[d].touched], [d \in Callers |-> call[d].told]>>
    BY <2>3, ShowsSame
  <2>5. Contract!Pause(c)
    BY <1>1, <2>1, <2>2, <2>4 DEF Contract!Pause
  <2>. QED
    BY <2>5
<1>4. CASE Ends(c)
  <2>1. /\ call[c].st # "idle" /\ call'[c].st = "idle" /\ call'[c].touched = FALSE
        /\ call'[c].told \in {"ok", "refused", "failed"}
    BY <1>4 DEF Ends
  <2>2. Phase[call[c].st] # "idle" /\ Phase["idle"] = "idle"
    BY <2>1 DEF Clean, Stages, Phase
  <2>3. call'[c].told = "ok" => Phase[call[c].st] \in {"working", "closing"}
    BY <1>4 DEF Ends, Phase
  <2>4. call'[c].told = "refused" => ~call[c].touched \/ ~call[c].alone \/ Req(c).op \in ChecksLate
    BY <1>4 DEF Ends, MayRefuse, Clean, PowerLooked
  <2>5. /\ [d \in Callers |-> Phase[call[d].st]]'
             = [[d \in Callers |-> Phase[call[d].st]] EXCEPT ![c] = Phase["idle"]]
        /\ [d \in Callers |-> call[d].touched]' = [[d \in Callers |-> call[d].touched] EXCEPT ![c] = FALSE]
        /\ [d \in Callers |-> call[d].told]'
             = [[d \in Callers |-> call[d].told] EXCEPT ![c] = call'[c].told]
    BY <1>1, <2>1, ShowsOne
  <2>. QED
    BY <1>1, <2>1, <2>2, <2>3, <2>4, <2>5 DEF Contract!Answer
<1>. QED
  BY <1>2, <1>3, <1>4 DEF Quiet

\* The service dies with all its calls.
LEMMA DeathMaps ==
  ASSUME Shaped, Clean, ServiceDies, UNCHANGED HostState
  PROVE  Contract!Lose
<1>. DEFINE phase == [d \in Callers |-> Phase[call[d].st]]
<1>1. \A d \in Callers :
        /\ Phase[call'[d].st] = IF Phase[call[d].st] \in {"working", "lost"} THEN "lost" ELSE "idle"
        /\ call'[d].touched = (Phase[call'[d].st] = "lost" /\ call[d].touched)
        /\ call'[d].told = IF Phase[call[d].st] = "idle" THEN call[d].told ELSE "failed"
  <2>. SUFFICES ASSUME NEW d \in Callers
                PROVE  /\ Phase[call'[d].st] = IF Phase[call[d].st] \in {"working", "lost"} THEN "lost" ELSE "idle"
                       /\ call'[d].touched = (Phase[call'[d].st] = "lost" /\ call[d].touched)
                       /\ call'[d].told = IF Phase[call[d].st] = "idle" THEN call[d].told ELSE "failed"
    OBVIOUS
  <2>0. /\ Phase["idle"] = "idle" /\ Phase["queued"] = "waiting" /\ Phase["running"] = "working"
        /\ Phase["tail"] = "closing" /\ Phase["orphan"] = "lost"
    BY DEF Phase
  <2>1. call[d].st \in Stages /\ call[d].touched \in BOOLEAN /\ (call[d].st = "idle" => call[d].touched = FALSE)
    BY DEF Clean
  <2>2. CASE call[d].st = "idle"
    BY <2>0, <2>1, <2>2, DeathLeaves DEF Scripting
  <2>3. CASE Scripting(d)
    BY <2>0, <2>1, <2>3, DeathLeaves DEF Scripting
  <2>4. CASE call[d].st \in {"queued", "tail"}
    BY <2>0, <2>1, <2>4, DeathLeaves DEF Scripting
  <2>. QED
    BY <2>1, <2>2, <2>3, <2>4 DEF Stages, Scripting
<1>2. /\ phase' = [d \in Callers |-> IF phase[d] \in {"working", "lost"} THEN "lost" ELSE "idle"]
      /\ [d \in Callers |-> call[d].touched]'
           = [d \in Callers |-> phase'[d] = "lost" /\ [e \in Callers |-> call[e].touched][d]]
      /\ [d \in Callers |-> call[d].told]'
           = [d \in Callers |-> IF phase[d] = "idle" THEN [e \in Callers |-> call[e].told][d] ELSE "failed"]
  BY <1>1
<1>. QED
  BY <1>2 DEF Contract!Lose

(* Every step of the host is one that the contract allows, or one that it does
   not see. *)
CallsInv == NamesInv /\ SlotsAreGivenBack /\ Clean /\ PowerLooked

LEMMA ContractStep ==
  ASSUME CallsInv, [Next]_vars
  PROVE  Contract!ContractNext \/ UNCHANGED Seen
<1>. USE DEF CallsInv, NamesInv, Contract!ContractNext
<1>1. CASE Nothing \/ HyperVMovesAlone
  <2>1. UNCHANGED <<call, HostState>>
    BY <1>1, QuietHost, MovesHost DEF Nothing, HyperVMovesAlone, MergeEnds, GuestShutsDown
  <2>. QED
    BY <2>1, Stutter
<1>2. CASE UNCHANGED HostVars /\ Overtake
  BY <1>2, QuietHost, Stutter, OvertakenKeeps, OvertakenShows DEF Overtake
<1>3. CASE UNCHANGED HostVars /\ ServiceDies
  BY <1>3, QuietHost, DeathMaps
<1>4. ASSUME NEW c \in Callers, StepOf(c)
      PROVE  Contract!ContractNext \/ UNCHANGED Seen
  <2>1. CASE Outcome(c)
    BY <2>1, ChangeMaps, QuietMaps DEF Outcome
  <2>2. CASE UNCHANGED HostVars /\ (TakeSlot(c) \/ Refuse(c))
    BY <2>2, QuietHost, BeginMaps, RefuseMaps
  <2>3. CASE UNCHANGED HostVars /\ \E r \in todo : Submit(c, r, FirstStep(r.op))
    BY <2>3, QuietHost, SubmitMaps
  <2>. QED
    BY <1>4, <2>1, <2>2, <2>3 DEF StepOf
<1>. QED
  BY <1>1, <1>2, <1>3, <1>4, Steps

(* The host implements the contract of its calls: for any clients, tools,
   requests, kills, crashes and moves of Hyper-V, only a call that has its
   turn changes the host, at most Slots have it, and a refusal by a tool's own
   checks leaves the host as it was unless another script overtook the call or
   the tool is one that checks late (psrun.go:110, errmap.go:80). *)
THEOREM HostKeepsContract == Spec => CallsKeepContract
<1>1. Init => CallsInv
  <2>1. Init => NamesInv
    BY InitNames
  <2>2. Init => SlotsAreGivenBack /\ call = [c \in Callers |-> Idle]
    BY InitSlots DEF Init, RunnerInit, SlotsInv
  <2>3. call = [c \in Callers |-> Idle] => Clean /\ PowerLooked
    <3>. SUFFICES ASSUME call = [c \in Callers |-> Idle] PROVE Clean /\ PowerLooked
      OBVIOUS
    <3>1. \A c \in Callers : call[c].st = "idle" /\ call[c].touched = FALSE /\ call[c].req.op = "none"
      BY DEF Idle
    <3>. QED
      BY <3>1 DEF Clean, Stages, PowerLooked, Req, Scripting, PowerTools
  <2>. QED
    BY <2>1, <2>2, <2>3 DEF CallsInv
<1>2. CallsInv /\ [Next]_vars => CallsInv'
  BY NamesNext, SlotsNext, CleanNext, PowerLookedNext DEF CallsInv, NamesInv, SlotsInv
<1>3. Init => Contract!ContractInit
  <2>1. Init => call = [c \in Callers |-> Idle]
    BY DEF Init, RunnerInit
  <2>2. call = [c \in Callers |-> Idle] => Contract!ContractInit
    <3>. SUFFICES ASSUME call = [c \in Callers |-> Idle] PROVE Contract!ContractInit
      OBVIOUS
    <3>1. \A c \in Callers : call[c].st = "idle" /\ call[c].touched = FALSE /\ call[c].told = "none"
      BY DEF Idle
    <3>2. Phase["idle"] = "idle"
      BY DEF Phase
    <3>. QED
      BY <3>1, <3>2 DEF Contract!ContractInit
  <2>. QED
    BY <2>1, <2>2
<1>4. CallsInv /\ [Next]_vars =>
        [Contract!ContractNext]_<<[c \in Callers |-> Phase[call[c].st]], [c \in Callers |-> call[c].touched],
                                  [c \in Callers |-> call[c].told], HostState>>
  BY ContractStep DEF Seen
<1>. QED
  BY <1>1, <1>2, <1>3, <1>4, PTL DEF Spec, CallsKeepContract, Contract!ContractSpec
=============================================================================
