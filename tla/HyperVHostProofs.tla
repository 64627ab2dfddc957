-------------------------- MODULE HyperVHostProofs --------------------------
(***************************************************************************)
(* Safety of HyperVHost for any clients, slots, machines, files, switches  *)
(* and adapters, and any calls in any order: the slots of psrun, the names *)
(* of machines, the host's last adapter and what is told of a guest's      *)
(* addresses.                                                              *)
(***************************************************************************)
EXTENDS HyperVHost, FiniteSetTheorems, WellFoundedInduction, TLAPS

(***************************************************************************)
(* What a step does to the calls.  A script looks at the host, which only  *)
(* its own call shows; it acts on it, which overtakes the other calls that *)
(* are under way; or it leaves the interpreter and gives its slot back.    *)
(***************************************************************************)
Fields == {"st", "req", "pc", "loc", "told", "touched", "alone"}
Shaped == DOMAIN call = Callers /\ \A c \in Callers : DOMAIN call[c] = Fields

(* Where a call that waits for a slot may be in its scripts. *)
Looking == {"look", "start", "parent", "child"}
Entries == Looking \cup {"act"}
Entry(r, pc) == pc \in Looking \/ (pc = "act" /\ r.op \in {"create_vhd", "convert_vhd"})

Formed(c) == DOMAIN call' = Callers /\ DOMAIN call'[c] = Fields
Same(c) == /\ call'[c].st = call[c].st /\ call'[c].req = call[c].req
           /\ call'[c].alone = call[c].alone
OthersStay(c) == \A d \in Callers \ {c} : call'[d] = call[d]
OthersOvertaken(c) == \A d \in Callers \ {c} : call'[d] = Overtaken(d)

Looks(c) == Formed(c) /\ Same(c) /\ OthersStay(c) /\ held' = held
Acts(c) == Formed(c) /\ Same(c) /\ OthersOvertaken(c) /\ held' = held
Leaves(c) ==
  /\ Formed(c) /\ Scripting(c) /\ OthersStay(c) /\ Release(c)
  /\ call'[c].st \in {"idle", "queued", "tail"}
  /\ call'[c].st = "queued" => call'[c].pc \in Looking

ScriptStep(c) == Scripting(c) /\ (Looks(c) \/ Acts(c) \/ Leaves(c))

\* A call that reads keeps all but its place.
LEMMA GotoLooks ==
  ASSUME Shaped, NEW c \in Callers, NEW pc, NEW loc, Goto(c, pc, loc)
  PROVE  Looks(c) /\ call'[c].pc = pc
BY DEF Shaped, Fields, Goto, Looks, Formed, Same, OthersStay

\* What a script that is overtaken keeps.
LEMMA OvertakenKeeps ==
  ASSUME Shaped, NEW d \in Callers
  PROVE  /\ DOMAIN Overtaken(d) = Fields /\ Overtaken(d).st = call[d].st
         /\ Overtaken(d).req = call[d].req /\ Overtaken(d).pc = call[d].pc
         /\ Scripting(d) => ~Overtaken(d).alone
BY DEF Shaped, Fields, Overtaken, Scripting

\* A call that acts keeps all but its place, and overtakes the others.
LEMMA EffectActs ==
  ASSUME Shaped, NEW c \in Callers, NEW pc, NEW loc, Effect(c, pc, loc)
  PROVE  Acts(c) /\ call'[c].pc = pc
BY DEF Shaped, Fields, Effect, Acts, Formed, Same, OthersOvertaken

\* What is told a client ends its call.
LEMMA TellIdles ==
  ASSUME Shaped, NEW c \in Callers, NEW what, Tell(c, what)
  PROVE  Formed(c) /\ OthersStay(c) /\ call'[c].st = "idle"
BY DEF Shaped, Fields, Tell, Idle, Formed, OthersStay

\* A call that ends, well or not, gives its slot back.
LEMMA EndsLeave ==
  ASSUME Shaped, NEW c \in Callers, Throw(c) \/ Fail(c) \/ Finish(c)
  PROVE  Leaves(c)
BY TellIdles DEF Throw, Fail, Finish, Leaves

\* So does a script that another one of the same call, or the service, follows.
LEMMA ThenLeaves ==
  ASSUME Shaped, NEW c \in Callers, Scripting(c),
         \/ \E pc \in Looking : ThenQueue(c, pc)
         \/ ThenTail(c, "creds")
  PROVE  Leaves(c)
<1>1. CASE call[c].st = "orphan"
  BY <1>1, TellIdles DEF ThenQueue, ThenTail, Leaves
<1>2. CASE call[c].st # "orphan"
  <2>1. ASSUME NEW st, NEW pc, call' = [call EXCEPT ![c].st = st, ![c].pc = pc]
        PROVE  Formed(c) /\ OthersStay(c) /\ call'[c].st = st /\ call'[c].pc = pc
    BY <2>1 DEF Shaped, Fields, Formed, OthersStay
  <2>2. ASSUME NEW pc \in Looking, ThenQueue(c, pc)
        PROVE  Leaves(c)
    BY <1>2, <2>1, <2>2 DEF ThenQueue, Leaves
  <2>3. ASSUME ThenTail(c, "creds")
        PROVE  Leaves(c)
    BY <1>2, <2>1, <2>3 DEF ThenTail, Leaves
  <2>. QED
    BY <2>2, <2>3
<1>. QED
  BY <1>1, <1>2

(* The three steps that look whether something may be done: whatever brings a
   call to the place after one of them is that step. *)
Guarded(c) ==
  (call'[c].st \in {"running", "orphan"}) =>
    /\ Req(c).op \in Creations /\ call'[c].pc = "new" => CheckNewName(c)
    /\ Req(c).op = "rename_vm" /\ call'[c].pc = "rename" => FindForRename(c)
    /\ Req(c).op = "create_switch" /\ call'[c].pc = "make" => CheckNewSwitch(c)

\* Every step of the scripts of machines, checkpoints and disks.
LEMMA StoreSteps ==
  ASSUME Shaped, NEW c \in Callers, Script(c)
  PROVE  ScriptStep(c) /\ Guarded(c)
<1>. USE GotoLooks, EffectActs, EndsLeave, ThenLeaves
     DEF ScriptStep, Guarded, Looks, Acts, Leaves, Same, At, Scripting, Req, Looking, Creations
<1>1. CASE \/ LookUp(c, {"stop_vm", "restart_vm"}, Present, "stop")
            \/ LookUp(c, {"suspend_vm"}, {"Running"}, "act")
            \/ LookUp(c, {"resume_vm"}, {"Running", "Paused", "Saved"}, "act")
            \/ LookUp(c, {"create_checkpoint", "attach_vhd", "export_vm"}, Present, "act")
  BY <1>1 DEF LookUp
<1>2. CASE FindForStart(c)
  BY <1>2 DEF FindForStart
<1>3. CASE StartVM(c)
  BY <1>3 DEF StartVM
<1>4. CASE StopVM(c)
  BY <1>4 DEF StopVM
<1>5. CASE PollForOff(c)
  BY <1>5 DEF PollForOff
<1>6. CASE Suspend(c)
  BY <1>6 DEF Suspend
<1>7. CASE Resume(c)
  BY <1>7 DEF Resume
<1>8. CASE ReportByName(c)
  BY <1>8 DEF ReportByName
<1>9. CASE FindCheckpoint(c)
  BY <1>9 DEF FindCheckpoint
<1>10. CASE CreateCheckpoint(c)
  BY <1>10 DEF CreateCheckpoint
<1>11. CASE TurnOff(c)
  BY <1>11 DEF TurnOff
<1>12. CASE RestoreCheckpoint(c)
  BY <1>12 DEF RestoreCheckpoint
<1>13. CASE DeleteCheckpoint(c)
  BY <1>13 DEF DeleteCheckpoint
<1>14. CASE AwaitMerge(c)
  BY <1>14 DEF AwaitMerge
<1>15. CASE ReadParent(c)
  BY <1>15 DEF ReadParent
<1>16. CASE MakeChild(c)
  BY <1>16 DEF MakeChild
<1>17. CASE ChildMade(c)
  BY <1>17 DEF ChildMade
<1>18. CASE CheckNewName(c)
  BY <1>18 DEF CheckNewName
<1>19. CASE NewVM(c)
  <2>1. Scripting(c) /\ call[c].pc = "new" /\ \E i : Effect(c, "configure", {i})
    BY <1>19 DEF NewVM
  <2>. QED
    BY <2>1
<1>20. CASE Configure(c)
  BY <1>20 DEF Configure
<1>21. CASE BootDevices(c)
  BY <1>21 DEF BootDevices
<1>22. CASE FindForDelete(c)
  BY <1>22 DEF FindForDelete
<1>23. CASE RemoveVM(c)
  BY <1>23 DEF RemoveVM
<1>24. CASE Survey(c)
  BY <1>24 DEF Survey
<1>25. CASE RemoveDisk(c)
  BY <1>25 DEF RemoveDisk
<1>26. CASE FindForRename(c)
  BY <1>26 DEF FindForRename
<1>27. CASE RenameVM(c)
  <2>1. Effect(c, "end", Loc(c))
    BY <1>27 DEF RenameVM
  <2>2. Scripting(c)
    BY <1>27 DEF RenameVM
  <2>. QED
    BY <2>1, <2>2
<1>28. CASE ExportVM(c)
  BY <1>28 DEF ExportVM
<1>29. CASE ImportVM(c)
  BY <1>29 DEF ImportVM
<1>30. CASE CreateVHD(c)
  BY <1>30 DEF CreateVHD
<1>31. CASE ConvertVHD(c)
  BY <1>31 DEF ConvertVHD
<1>32. CASE FindForResize(c)
  BY <1>32 DEF FindForResize
<1>33. CASE ResizeVHD(c)
  BY <1>33 DEF ResizeVHD
<1>34. CASE AttachVHD(c)
  BY <1>34 DEF AttachVHD
<1>35. CASE FindForDetach(c)
  BY <1>35 DEF FindForDetach
<1>36. CASE DetachVHD(c)
  BY <1>36 DEF DetachVHD
<1>37. CASE ClearSeedPath(c)
  BY <1>37 DEF ClearSeedPath
<1>38. CASE MakeSeedDisk(c)
  BY <1>38 DEF MakeSeedDisk
<1>39. CASE MountSeedDisk(c)
  BY <1>39 DEF MountSeedDisk
<1>40. CASE WriteSeedDisk(c)
  BY <1>40 DEF WriteSeedDisk
<1>41. CASE EndScript(c)
  BY <1>41 DEF EndScript
<1>42. CASE ScriptDies(c)
  BY <1>42 DEF ScriptDies, Kill
<1>. QED
  BY <1>1, <1>2, <1>3, <1>4, <1>5, <1>6, <1>7, <1>8, <1>9, <1>10, <1>11, <1>12, <1>13, <1>14,
     <1>15, <1>16, <1>17, <1>18, <1>19, <1>20, <1>21, <1>22, <1>23, <1>24, <1>25, <1>26, <1>27,
     <1>28, <1>29, <1>30, <1>31, <1>32, <1>33, <1>34, <1>35, <1>36, <1>37, <1>38, <1>39, <1>40,
     <1>41, <1>42 DEF Script

\* Every step of the scripts of switches and adapters.
LEMMA NetworkSteps ==
  ASSUME Shaped, NEW c \in Callers, Networking(c)
  PROVE  ScriptStep(c) /\ Guarded(c)
<1>. USE GotoLooks, EffectActs, EndsLeave, ThenLeaves
     DEF ScriptStep, Guarded, Looks, Acts, Leaves, Same, At, Scripting, Req, Looking, Creations
<1>1. CASE CheckNewSwitch(c)
  BY <1>1 DEF CheckNewSwitch
<1>2. CASE NewSwitch(c)
  BY <1>2 DEF NewSwitch
<1>3. CASE FindSwitch(c)
  BY <1>3 DEF FindSwitch
<1>4. CASE DeleteSwitch(c)
  BY <1>4 DEF DeleteSwitch
<1>5. CASE ClearHostAddress(c)
  BY <1>5 DEF ClearHostAddress
<1>6. CASE SetHostAddress(c)
  BY <1>6 DEF SetHostAddress
<1>7. CASE RemoveNAT(c)
  BY <1>7 DEF RemoveNAT
<1>8. CASE NewNAT(c)
  BY <1>8 DEF NewNAT
<1>9. CASE FindAdapter(c)
  BY <1>9 DEF FindAdapter
<1>10. CASE AddAdapter(c)
  BY <1>10 DEF AddAdapter
<1>11. CASE ConnectAdapter(c)
  BY <1>11 DEF ConnectAdapter
<1>12. CASE SetPort(c)
  BY <1>12 DEF SetPort
<1>13. CASE RemoveAdapter(c)
  BY <1>13 DEF RemoveAdapter
<1>. QED
  BY <1>1, <1>2, <1>3, <1>4, <1>5, <1>6, <1>7, <1>8, <1>9, <1>10, <1>11, <1>12, <1>13 DEF
     Networking

\* Every step of the settings tools, and the ends of the scripts that the service goes on after.
LEMMA OtherSteps ==
  ASSUME Shaped, NEW c \in Callers, Settings(c) \/ RenameDone(c) \/ ReadAdapters(c)
  PROVE  ScriptStep(c) /\ Guarded(c)
<1>. USE GotoLooks, EffectActs, EndsLeave, ThenLeaves
     DEF ScriptStep, Guarded, Looks, Acts, Leaves, Same, At, Scripting, Req, Looking, Creations, Setters
<1>1. CASE FindForSetting(c)
  BY <1>1 DEF FindForSetting
<1>2. CASE ApplySetting(c)
  BY <1>2 DEF ApplySetting
<1>3. CASE RenameDone(c)
  BY <1>3 DEF RenameDone
<1>4. CASE ReadAdapters(c)
  <2>1. ASSUME NEW i \in Ids,
               call' = [call EXCEPT ![c].st = "tail", ![c].pc = "pick",
                                    ![c].loc = [nics |-> vms[i].nics, adapters |-> reported[i]]],
               Release(c)
        PROVE  Leaves(c)
    <3>1. DOMAIN call' = Callers /\ OthersStay(c)
      BY <2>1 DEF Shaped, OthersStay
    <3>2. call'[c] = [call[c] EXCEPT !.st = "tail", !.pc = "pick",
                                     !.loc = [nics |-> vms[i].nics, adapters |-> reported[i]]]
      BY <2>1 DEF Shaped
    <3>3. DOMAIN call'[c] = Fields /\ call'[c].st = "tail"
      BY <3>2 DEF Shaped, Fields
    <3>. QED
      BY <1>4, <2>1, <3>1, <3>3 DEF ReadAdapters, Formed
  <2>. QED
    BY <1>4, <2>1 DEF ReadAdapters, Named
<1>. QED
  BY <1>1, <1>2, <1>3, <1>4 DEF Settings

(* A call that has no slot: it waits for one, or the service is at work for it. *)
Waits(c) ==
  /\ Formed(c) /\ OthersStay(c) /\ held' = held
  /\ call[c].st \in {"idle", "queued", "tail"} /\ call'[c].st \in {"idle", "queued", "tail"}
  /\ call'[c].st = "queued" => Entry(call'[c].req, call'[c].pc)

\* Every step of a call that has no slot.
LEMMA WaitSteps ==
  ASSUME Shaped, NEW c \in Callers,
         Ask(c) \/ GivesUp(c) \/ RecordsTail(c) \/ Pick(c) \/ Diagnose(c)
  PROVE  Waits(c)
<1>. USE DEF Shaped, Fields, Waits, Formed, OthersStay, Idle, Tell
<1>1. CASE Ask(c)
  <2>1. CASE Refuse(c)
    BY <2>1 DEF Refuse
  <2>2. ASSUME NEW r \in todo, Submit(c, r, FirstStep(r.op))
        PROVE  Waits(c)
    <3>1. Entry(r, FirstStep(r.op))
      BY DEF FirstStep, Entry, Looking
    <3>. QED
      BY <2>2, <3>1 DEF Submit
  <2>. QED
    BY <1>1, <2>1, <2>2 DEF Ask
<1>2. CASE GivesUp(c)
  BY <1>2 DEF GivesUp, CancelQueued
<1>3. CASE MoveCredentials(c) \/ MovePin(c) \/ DropConnection(c)
  BY <1>3 DEF MoveCredentials, MovePin, DropConnection, Goto
<1>4. CASE MoveTunnels(c)
  BY <1>4 DEF MoveTunnels
<1>5. CASE Diagnose(c)
  BY <1>5 DEF Diagnose
<1>6. CASE Pick(c)
  <2>1. ASSUME call' = [call EXCEPT ![c].st = "queued", ![c].pc = "look", ![c].loc = {}]
        PROVE  Formed(c) /\ OthersStay(c) /\ call'[c].st = "queued" /\ call'[c].pc = "look"
    <3>1. call'[c] = [call[c] EXCEPT !.st = "queued", !.pc = "look", !.loc = {}]
      BY <2>1
    <3>. QED
      BY <2>1, <3>1
  <2>2. ASSUME Tell(c, "ok") \/ Tell(c, "refused")
        PROVE  Formed(c) /\ OthersStay(c) /\ call'[c].st = "idle"
    BY <2>2
  <2>. QED
    BY <1>6, <2>1, <2>2 DEF Pick, Entry, Looking
<1>. QED
  BY <1>1, <1>2, <1>3, <1>4, <1>5, <1>6 DEF RecordsTail

\* What any step of the host does to the calls.
LEMMA StepKinds ==
  ASSUME Shaped, [Next]_vars
  PROVE  \/ UNCHANGED <<call, held>> \/ Overtake \/ ServiceDies
         \/ \E c \in Callers : TakeSlot(c) \/ Waits(c) \/ (ScriptStep(c) /\ Guarded(c))
<1>1. ASSUME NEW c \in Callers, Ask(c) \/ GivesUp(c)
      PROVE  Waits(c)
  BY <1>1, WaitSteps
<1>2. ASSUME NEW c \in Callers, Works(c)
      PROVE  Waits(c) \/ (ScriptStep(c) /\ Guarded(c))
  <2>1. CASE RunsScript(c)
    BY <2>1, StoreSteps, OtherSteps DEF RunsScript
  <2>2. CASE RunsNetworkScript(c)
    BY <2>2, NetworkSteps DEF RunsNetworkScript
  <2>3. CASE EndsRename(c)
    BY <2>3, OtherSteps DEF EndsRename
  <2>4. CASE MovesRecords(c)
    BY <2>4, WaitSteps DEF MovesRecords
  <2>5. CASE Answers(c)
    BY <2>5, WaitSteps, OtherSteps DEF Answers
  <2>. QED
    BY <1>2, <2>1, <2>2, <2>3, <2>4, <2>5 DEF Works
<1>3. CASE FilesRecord
  BY <1>3 DEF FilesRecord, runnerVars
<1>4. CASE Meanwhile
  BY <1>4 DEF Meanwhile, MergeEnds, GuestShutsDown, CableMoves, GuestReports
<1>5. CASE UNCHANGED vars
  BY <1>5 DEF vars, runnerVars
<1>. QED
  BY <1>1, <1>2, <1>3, <1>4, <1>5 DEF Next, GetsSlot

\* Every step keeps the form of the calls.
LEMMA ShapedNext ==
  ASSUME Shaped, [Next]_vars
  PROVE  Shaped'
<1>1. CASE UNCHANGED <<call, held>>
  BY <1>1 DEF Shaped
<1>2. CASE Overtake
  BY <1>2, OvertakenKeeps DEF Overtake, Shaped
<1>3. CASE ServiceDies
  BY <1>3 DEF ServiceDies, Shaped, Fields, Idle
<1>4. ASSUME NEW c \in Callers, TakeSlot(c)
      PROVE  Shaped'
  BY <1>4 DEF TakeSlot, Shaped
<1>5. ASSUME NEW c \in Callers, Waits(c) \/ ScriptStep(c)
      PROVE  Shaped'
  BY <1>5, OvertakenKeeps
     DEF Waits, ScriptStep, Looks, Acts, Leaves, Formed, OthersStay, OthersOvertaken, Shaped
<1>. QED
  BY <1>1, <1>2, <1>3, <1>4, <1>5, StepKinds

\* A call that waits for a slot waits before its next script.
QueueOK == \A c \in Callers : call[c].st = "queued" => Entry(Req(c), call[c].pc)

\* Every step keeps that.
LEMMA QueueNext ==
  ASSUME Shaped, QueueOK, [Next]_vars
  PROVE  QueueOK'
<1>. USE DEF QueueOK, Entry, Req
<1>1. CASE UNCHANGED <<call, held>>
  BY <1>1
<1>2. CASE Overtake
  BY <1>2, OvertakenKeeps DEF Overtake
<1>3. CASE ServiceDies
  <2>1. ASSUME NEW c \in Callers
        PROVE  call'[c].st # "queued"
    <3>. HIDE DEF QueueOK, Entry, Req
    <3>1. CASE call[c].st = "idle"
      <4>1. call'[c] = call[c]
        BY <1>3, <3>1 DEF ServiceDies, Scripting
      <4>. QED
        BY <3>1, <4>1
    <3>2. CASE Scripting(c)
      <4>1. call'[c] = [call[c] EXCEPT !.st = "orphan", !.told = "failed"]
        BY <1>3, <3>2 DEF ServiceDies, Scripting
      <4>. QED
        BY <4>1 DEF Shaped, Fields
    <3>3. CASE call[c].st # "idle" /\ ~Scripting(c)
      <4>1. call'[c] = [Idle EXCEPT !.told = "failed"]
        BY <1>3, <3>3 DEF ServiceDies
      <4>. QED
        BY <4>1 DEF Idle
    <3>. QED
      BY <3>1, <3>2, <3>3
  <2>. QED
    BY <2>1
<1>4. ASSUME NEW c \in Callers, TakeSlot(c)
      PROVE  QueueOK'
  BY <1>4 DEF TakeSlot, Shaped, Fields
<1>5. ASSUME NEW c \in Callers, Waits(c) \/ Leaves(c)
      PROVE  QueueOK'
  BY <1>5 DEF Waits, Leaves, OthersStay
<1>6. ASSUME NEW c \in Callers, Scripting(c), Looks(c) \/ Acts(c)
      PROVE  QueueOK'
  BY <1>6, OvertakenKeeps
     DEF Scripting, Looks, Acts, Same, OthersStay, OthersOvertaken
<1>. QED
  BY <1>1, <1>2, <1>3, <1>4, <1>5, <1>6, StepKinds DEF ScriptStep

(***************************************************************************)
(* Slots.                                                                  *)
(***************************************************************************)
Running == {c \in Callers : call[c].st = "running"}
SlotsInv == Shaped /\ SlotsAreGivenBack

\* A slot that is taken or given back is counted, and nothing else is.
LEMMA SlotsNext ==
  ASSUME SlotsInv, [Next]_vars
  PROVE  SlotsAreGivenBack'
<1>. USE DEF SlotsInv, SlotsAreGivenBack
<1>1. /\ IsFiniteSet(Running) /\ Cardinality(Running) \in Nat
      /\ held = Cardinality(Running) /\ held \in Nat /\ Slots \in Nat \ {0}
  BY CallersAssumption, SlotsAssumption, FS_Subset, FS_CardinalityType DEF Running
<1>2. SUFFICES held' = Cardinality(Running') /\ held' <= Slots
  BY DEF Running
<1>3. CASE UNCHANGED <<call, held>>
  BY <1>1, <1>3 DEF Running
<1>4. CASE Overtake
  <2>1. Running' = Running
    BY <1>4, OvertakenKeeps DEF Overtake, Running
  <2>. QED
    BY <1>1, <1>4, <2>1 DEF Overtake
<1>5. CASE ServiceDies
  <2>1. \A c \in Callers : call'[c].st # "running"
    BY <1>5 DEF ServiceDies, Shaped, Fields, Scripting, Idle
  <2>2. Running' = {}
    BY <2>1 DEF Running
  <2>3. held' = 0
    BY <1>5 DEF ServiceDies
  <2>. QED
    BY <1>1, <2>2, <2>3, FS_EmptySet
<1>6. ASSUME NEW c \in Callers, TakeSlot(c)
      PROVE  held' = Cardinality(Running') /\ held' <= Slots
  <2>1. c \notin Running /\ Running' = Running \cup {c}
    BY <1>6 DEF TakeSlot, Running, Shaped, Fields
  <2>2. Cardinality(Running') = Cardinality(Running) + 1
    BY <1>1, <2>1, FS_AddElement
  <2>. QED
    BY <1>1, <1>6, <2>2 DEF TakeSlot
<1>7. ASSUME NEW c \in Callers, Waits(c) \/ Looks(c) \/ Acts(c)
      PROVE  held' = Cardinality(Running') /\ held' <= Slots
  <2>1. held' = held /\ \A d \in Callers : call'[d].st = "running" <=> call[d].st = "running"
    BY <1>7, OvertakenKeeps DEF Waits, Looks, Acts, Same, OthersStay, OthersOvertaken
  <2>2. Running' = Running
    BY <2>1 DEF Running
  <2>. QED
    BY <1>1, <2>1, <2>2
<1>8. ASSUME NEW c \in Callers, Leaves(c)
      PROVE  held' = Cardinality(Running') /\ held' <= Slots
  <2>1. Running' = Running \ {c}
    BY <1>8 DEF Leaves, OthersStay, Running
  <2>2. CASE c \in Running
    <3>1. Cardinality(Running') = Cardinality(Running) - 1
      BY <1>1, <2>1, <2>2, FS_RemoveElement
    <3>2. held' = held - 1
      BY <1>8, <2>2 DEF Leaves, Release, Running
    <3>. QED
      BY <1>1, <3>1, <3>2
  <2>3. CASE c \notin Running
    <3>1. Running' = Running
      BY <2>1, <2>3
    <3>2. held' = held
      BY <1>8, <2>3 DEF Leaves, Release, Running
    <3>. QED
      BY <1>1, <3>1, <3>2
  <2>. QED
    BY <2>2, <2>3
<1>. QED
  BY <1>3, <1>4, <1>5, <1>6, <1>7, <1>8, StepKinds DEF ScriptStep

\* At first nobody calls and no slot is taken.
LEMMA InitSlots == Init => SlotsInv
<1>. SUFFICES ASSUME Init PROVE SlotsInv
  OBVIOUS
<1>1. call = [c \in Callers |-> Idle] /\ held = 0
  BY DEF Init, RunnerInit
<1>2. Shaped
  BY <1>1 DEF Shaped, Fields, Idle
<1>3. {c \in Callers : call[c].st = "running"} = {}
  BY <1>1 DEF Idle
<1>. QED
  BY <1>1, <1>2, <1>3, FS_EmptySet, SlotsAssumption DEF SlotsInv, SlotsAreGivenBack

(* Whatever ends a script (its last cmdlet, a refusal, a failed cmdlet, the
   deadline, the caller, the end of the service), exactly the scripts that run
   hold a slot, and no more of them run than there are slots (psrun.go:110). *)
THEOREM SlotsAlwaysGivenBack == Spec => []SlotsAreGivenBack
<1>1. Init => SlotsInv
  BY InitSlots
<1>2. SlotsInv /\ [Next]_vars => SlotsInv'
  BY ShapedNext, SlotsNext DEF SlotsInv
<1>3. SlotsInv => SlotsAreGivenBack
  BY DEF SlotsInv
<1>. QED
  BY <1>1, <1>2, <1>3, PTL DEF Spec

(***************************************************************************)
(* What a call has looked at holds until it acts, if it stays alone.       *)
(***************************************************************************)

\* Where a call is that may still act on what it has looked at.
Watched(c) ==
  \/ At(c, Creations, "new") \/ At(c, {"rename_vm"}, "rename") \/ At(c, {"create_switch"}, "make")

\* A call that is there and alone has just taken its look, or it was there
\* before and no other script has acted in this step.
LEMMA Arrivals ==
  ASSUME Shaped, QueueOK, [Next]_vars, NEW d \in Callers, Watched(d)', call'[d].alone
  PROVE  /\ call'[d].req = call[d].req /\ call[d].alone
         /\ \/ Guarded(d)
            \/ Scripting(d) /\ call'[d].pc = call[d].pc
<1>. USE DEF Watched, At, Scripting
<1>1. CASE UNCHANGED <<call, held>>
  BY <1>1
<1>2. CASE Overtake
  BY <1>2, OvertakenKeeps DEF Overtake
<1>3. CASE ServiceDies
  BY <1>3 DEF ServiceDies, Shaped, Fields, Idle
<1>4. ASSUME NEW c \in Callers, TakeSlot(c)
      PROVE  call'[d].req = call[d].req /\ call[d].alone /\ Scripting(d) /\ call'[d].pc = call[d].pc
  <2>1. CASE c = d
    <3>1. call'[d].pc = call[d].pc /\ call[d].pc \in Entries
      BY <1>4, <2>1 DEF TakeSlot, QueueOK, Shaped, Fields, Entry, Entries
    <3>. QED
      BY <3>1 DEF Entries, Looking
  <2>2. CASE c # d
    BY <1>4, <2>2 DEF TakeSlot, Shaped
  <2>. QED
    BY <2>1, <2>2
<1>5. ASSUME NEW c \in Callers, Waits(c) \/ Leaves(c)
      PROVE  call'[d].req = call[d].req /\ call[d].alone /\ Scripting(d) /\ call'[d].pc = call[d].pc
  BY <1>5 DEF Waits, Leaves, OthersStay
<1>6. ASSUME NEW c \in Callers, Guarded(c), Looks(c) \/ Acts(c)
      PROVE  /\ call'[d].req = call[d].req /\ call[d].alone
             /\ Guarded(d) \/ (Scripting(d) /\ call'[d].pc = call[d].pc)
  <2>1. CASE c = d
    BY <1>6, <2>1 DEF Looks, Acts, Same
  <2>2. CASE c # d
    BY <1>6, <2>2, OvertakenKeeps DEF Looks, Acts, OthersStay, OthersOvertaken
  <2>. QED
    BY <2>1, <2>2
<1>. QED
  BY <1>1, <1>2, <1>3, <1>4, <1>5, <1>6, StepKinds DEF ScriptStep

\* Another script that acts overtakes it.
LEMMA ActsOvertake ==
  ASSUME Shaped, NEW c \in Callers, NEW pc, NEW loc, Effect(c, pc, loc),
         NEW d \in Callers, Watched(d)', call'[d].alone
  PROVE  c = d /\ call'[d].pc = pc
<1>1. SUFFICES ASSUME c # d PROVE FALSE
  BY EffectActs
<1>2. call'[d] = Overtaken(d)
  BY <1>1 DEF Effect
<1>. QED
  BY <1>2, OvertakenKeeps DEF Watched, At, Scripting

(***************************************************************************)
(* The host's last adapter.                                                *)
(***************************************************************************)
Counted ==
  \A c \in Callers :
    (At(c, {"create_switch"}, "make") /\ call[c].alone /\ TakesAdapter(Req(c))) => Cardinality(up) > 1

AdapterInv == Shaped /\ QueueOK /\ up \subseteq Adapters /\ Counted

\* Only a cable that moves changes which adapters have one, and that overtakes
\* every script.
LEMMA CablesNext ==
  ASSUME [Next]_vars
  PROVE  \/ UNCHANGED up
         \/ up' \subseteq Adapters /\ Overtake
         \/ ~(up \subseteq Adapters)
<1>1. ASSUME NEW c \in Callers, Works(c)
      PROVE  UNCHANGED up
  <2>1. CASE RunsNetworkScript(c)
    BY <2>1 DEF RunsNetworkScript, Networking, CheckNewSwitch, NewSwitch, FindSwitch, DeleteSwitch,
       ClearHostAddress, SetHostAddress, RemoveNAT, NewNAT, FindAdapter, AddAdapter, ConnectAdapter,
       SetPort, RemoveAdapter, netVars
  <2>. QED
    BY <1>1, <2>1 DEF Works, RunsScript, EndsRename, OnlyTheCall, MovesRecords, Answers, netVars
<1>2. ASSUME NEW c \in Callers, Ask(c) \/ GetsSlot(c) \/ GivesUp(c)
      PROVE  UNCHANGED up
  BY <1>2 DEF Ask, GetsSlot, GivesUp, OnlyTheCall, netVars
<1>3. CASE FilesRecord \/ UNCHANGED vars
  BY <1>3 DEF FilesRecord, vars, netVars
<1>4. CASE CableMoves
  BY <1>4 DEF CableMoves
<1>5. CASE Meanwhile /\ ~CableMoves
  BY <1>5 DEF Meanwhile, netVars
<1>. QED
  BY <1>1, <1>2, <1>3, <1>4, <1>5 DEF Next

\* The count that create_switch took stands while it is alone.
LEMMA AdapterNext ==
  ASSUME AdapterInv, [Next]_vars
  PROVE  AdapterInv'
<1>. USE DEF AdapterInv
<1>1. Shaped' /\ QueueOK'
  BY ShapedNext, QueueNext
<1>2. up' \subseteq Adapters
  BY CablesNext
<1>3. ASSUME NEW c \in Callers, At(c, {"create_switch"}, "make")', call'[c].alone, TakesAdapter(Req(c))'
      PROVE  Cardinality(up') > 1
  <2>1. Watched(c)' /\ Scripting(c)'
    BY <1>3 DEF Watched, At
  <2>2. UNCHANGED up
    <3>1. SUFFICES ASSUME Overtake PROVE FALSE
      BY CablesNext
    <3>. QED
      BY <1>3, <2>1, <3>1, OvertakenKeeps DEF Overtake, Scripting
  <2>3. call'[c].req = call[c].req /\ call[c].alone
    BY <1>3, <2>1, Arrivals
  <2>4. CASE Guarded(c)
    <3>1. CheckNewSwitch(c)
      BY <1>3, <2>3, <2>4 DEF Guarded, At, Scripting, Req
    <3>2. ~Throw(c)
      BY <1>3, EndsLeave DEF Leaves, At, Scripting
    <3>3. Cardinality(up) > 1 \/ ~TakesAdapter(Req(c))
      BY <3>1, <3>2, AdaptersAssumption, FS_Subset, FS_CardinalityType DEF CheckNewSwitch
    <3>. QED
      BY <1>3, <2>2, <2>3, <3>3 DEF TakesAdapter, Req
  <2>5. CASE Scripting(c) /\ call'[c].pc = call[c].pc
    BY <1>3, <2>2, <2>3, <2>5 DEF Counted, At, Scripting, TakesAdapter, Req
  <2>. QED
    BY <1>3, <2>1, <2>4, <2>5, Arrivals
<1>. QED
  BY <1>1, <1>2, <1>3 DEF Counted

\* Whoever takes an adapter from the host is the call that counted.
LEMMA OnlyNewSwitchTakes ==
  ASSUME [Next]_vars, ~(taken' \subseteq taken)
  PROVE  \E c \in Callers : NewSwitch(c)
<1>1. ASSUME NEW c \in Callers, Works(c)
      PROVE  NewSwitch(c)
  <2>1. CASE RunsNetworkScript(c)
    BY <2>1 DEF RunsNetworkScript, Networking, CheckNewSwitch, FindSwitch, DeleteSwitch,
       ClearHostAddress, SetHostAddress, RemoveNAT, NewNAT, FindAdapter, AddAdapter, ConnectAdapter,
       SetPort, RemoveAdapter, netVars
  <2>. QED
    BY <1>1, <2>1 DEF Works, RunsScript, EndsRename, OnlyTheCall, MovesRecords, Answers, netVars
<1>2. ASSUME NEW c \in Callers
      PROVE  ~(Ask(c) \/ GetsSlot(c) \/ GivesUp(c))
  BY <1>2 DEF Ask, GetsSlot, GivesUp, OnlyTheCall, netVars
<1>3. ~FilesRecord /\ ~UNCHANGED vars
  BY DEF FilesRecord, vars, netVars
<1>4. ~Meanwhile
  BY DEF Meanwhile, CableMoves, netVars
<1>. QED
  BY <1>1, <1>2, <1>3, <1>4 DEF Next

(* create_switch leaves the host an adapter with a cable whatever other calls,
   guests and cables do, as long as none of its adapters was taken before and
   nothing came between the count and the switch (network.go:197). *)
THEOREM HostAlwaysKeepsAnAdapter == Spec => HostKeepsAnAdapter
<1>1. Init => AdapterInv
  <2>. SUFFICES ASSUME Init PROVE AdapterInv
    OBVIOUS
  <2>1. call = [c \in Callers |-> Idle] /\ up = Adapters
    BY DEF Init, RunnerInit
  <2>. QED
    BY <2>1, InitSlots DEF AdapterInv, SlotsInv, QueueOK, Counted, At, Scripting, Idle
<1>2. AdapterInv /\ [Next]_vars => AdapterInv'
  BY AdapterNext
<1>3. ASSUME AdapterInv, [Next]_vars, NEW c \in Callers,
             At(c, {"create_switch"}, "make"), call[c].alone, call'[c].alone, taken = {},
             ~(taken' \subseteq taken)
      PROVE  up \ taken' # {}
  <2>1. PICK d \in Callers : NewSwitch(d)
    BY <1>3, OnlyNewSwitchTakes
  <2>2. d = c
    <3>1. Effect(d, "end", {})
      BY <2>1 DEF NewSwitch
    <3>2. d # c => call'[c] = Overtaken(c)
      BY <3>1 DEF Effect
    <3>. QED
      BY <1>3, <3>2, OvertakenKeeps DEF AdapterInv, At
  <2>3. TakesAdapter(Req(c)) /\ taken' = {Req(c).adapter}
    BY <1>3, <2>1, <2>2 DEF NewSwitch, TakesAdapter
  <2>4. Cardinality(up) > 1 /\ IsFiniteSet(up)
    BY <1>3, <2>3, AdaptersAssumption, FS_Subset DEF AdapterInv, Counted
  <2>. QED
    <3>1. SUFFICES ASSUME up \subseteq {Req(c).adapter} PROVE FALSE
      BY <2>3
    <3>2. Cardinality({Req(c).adapter}) = 1 /\ IsFiniteSet({Req(c).adapter})
      BY FS_Singleton
    <3>3. Cardinality(up) <= 1
      BY <3>1, <3>2, FS_Subset
    <3>. QED
      BY <2>4, <3>3, FS_CardinalityType
<1>4. AdapterInv /\ [Next]_vars =>
        [\A c \in Callers :
           (/\ At(c, {"create_switch"}, "make") /\ call[c].alone /\ call'[c].alone
            /\ taken = {} /\ ~(taken' \subseteq taken))
             => up \ taken' # {}]_taken
  BY <1>3
<1>. QED
  BY <1>1, <1>2, <1>4, PTL DEF Spec, HostKeepsAnAdapter

(***************************************************************************)
(* Names.                                                                  *)
(***************************************************************************)
MachineFields == {"state", "name", "disks", "snap", "layers", "merging", "built", "checked", "gen", "nics",
                  "devs", "conf"}
MachinesFormed == DOMAIN vms = Ids /\ \A i \in Ids : DOMAIN vms[i] = MachineFields

\* No machine comes or is renamed.
Kept ==
  /\ MachinesFormed'
  /\ \A i \in Ids : vms'[i].state # "none" =>
       vms[i].state # "none" /\ vms'[i].name = vms[i].name /\ vms'[i].checked = vms[i].checked

\* Only making, renaming and importing a machine gives one a name.
LEMMA StoreKeepsNames ==
  ASSUME MachinesFormed, NEW c \in Callers, Script(c)
  PROVE  Kept \/ NewVM(c) \/ RenameVM(c) \/ ImportVM(c)
<1>. USE DEF MachinesFormed, MachineFields, Kept, storeVars, OnlyVMs, Become, StillThere, Exists
<1>1. CASE \/ LookUp(c, {"stop_vm", "restart_vm"}, Present, "stop")
            \/ LookUp(c, {"suspend_vm"}, {"Running"}, "act")
            \/ LookUp(c, {"resume_vm"}, {"Running", "Paused", "Saved"}, "act")
            \/ LookUp(c, {"create_checkpoint", "attach_vhd", "export_vm"}, Present, "act")
  BY <1>1 DEF LookUp
<1>2. CASE \/ FindForStart(c) \/ PollForOff(c) \/ ReportByName(c) \/ FindCheckpoint(c) \/ RestoreCheckpoint(c)
            \/ AwaitMerge(c) \/ ReadParent(c) \/ MakeChild(c) \/ ChildMade(c) \/ CheckNewName(c)
            \/ FindForDelete(c) \/ Survey(c) \/ RemoveDisk(c) \/ FindForRename(c) \/ ExportVM(c)
            \/ CreateVHD(c) \/ ConvertVHD(c) \/ FindForResize(c) \/ ResizeVHD(c) \/ FindForDetach(c)
            \/ ClearSeedPath(c) \/ MakeSeedDisk(c) \/ MountSeedDisk(c) \/ WriteSeedDisk(c) \/ EndScript(c)
            \/ ScriptDies(c)
  BY <1>2 DEF FindForStart, PollForOff, ReportByName, FindCheckpoint, RestoreCheckpoint,
     AwaitMerge, ReadParent, MakeChild, ChildMade, CheckNewName, FindForDelete, Survey,
     RemoveDisk, FindForRename, ExportVM, CreateVHD, ConvertVHD, FindForResize, ResizeVHD,
     FindForDetach, ClearSeedPath, MakeSeedDisk, MountSeedDisk, WriteSeedDisk, EndScript,
     ScriptDies
<1>3. CASE StartVM(c)
  BY <1>3 DEF StartVM
<1>4. CASE StopVM(c)
  BY <1>4 DEF StopVM
<1>5. CASE Suspend(c)
  BY <1>5 DEF Suspend
<1>6. CASE Resume(c)
  BY <1>6 DEF Resume
<1>7. CASE CreateCheckpoint(c)
  BY <1>7 DEF CreateCheckpoint
<1>8. CASE TurnOff(c)
  BY <1>8 DEF TurnOff
<1>9. CASE DeleteCheckpoint(c)
  BY <1>9 DEF DeleteCheckpoint
<1>10. CASE Configure(c)
  BY <1>10 DEF Configure
<1>11. CASE BootDevices(c)
  BY <1>11 DEF BootDevices
<1>12. CASE RemoveVM(c)
  BY <1>12 DEF RemoveVM, Gone, NoVM
<1>13. CASE AttachVHD(c)
  BY <1>13 DEF AttachVHD
<1>14. CASE DetachVHD(c)
  BY <1>14 DEF DetachVHD
<1>15. CASE NewVM(c) \/ RenameVM(c) \/ ImportVM(c)
  BY <1>15 DEF Script
<1>. QED
  BY <1>1, <1>2, <1>3, <1>4, <1>5, <1>6, <1>7, <1>8, <1>9, <1>10, <1>11, <1>12, <1>13, <1>14,
     <1>15 DEF Script

\* So do the tools that set what a machine has.
LEMMA OthersKeepNames ==
  ASSUME MachinesFormed, NEW c \in Callers, Settings(c) \/ Networking(c)
  PROVE  Kept
<1>. USE DEF MachinesFormed, MachineFields, Kept, storeVars, OnlyVMs
<1>1. CASE \/ CheckNewSwitch(c) \/ NewSwitch(c) \/ FindSwitch(c) \/ ClearHostAddress(c) \/ SetHostAddress(c)
            \/ RemoveNAT(c) \/ NewNAT(c) \/ FindAdapter(c)
  BY <1>1 DEF CheckNewSwitch, NewSwitch, FindSwitch, ClearHostAddress, SetHostAddress,
     RemoveNAT, NewNAT, FindAdapter
<1>2. CASE FindForSetting(c)
  BY <1>2 DEF FindForSetting
<1>3. CASE ApplySetting(c)
  BY <1>3 DEF ApplySetting
<1>4. CASE DeleteSwitch(c)
  BY <1>4 DEF DeleteSwitch
<1>5. CASE AddAdapter(c)
  <2>1. PICK nics : SetNics(Loc(c).on, nics)
    BY <1>5 DEF AddAdapter
  <2>. QED
    BY <1>5, <2>1 DEF AddAdapter, SetNics
<1>6. CASE ConnectAdapter(c)
  <2>1. ASSUME NEW nics, SetNics(Loc(c).on, nics)
        PROVE  Kept
    BY <2>1 DEF SetNics
  <2>2. UNCHANGED vms \/ \E nics : SetNics(Loc(c).on, nics)
    BY <1>6 DEF ConnectAdapter, Rewire
  <2>. QED
    BY <2>1, <2>2
<1>7. CASE SetPort(c)
  BY <1>7 DEF SetPort, Rewire, SetNics
<1>8. CASE RemoveAdapter(c)
  BY <1>8 DEF RemoveAdapter, SetNics
<1>. QED
  BY <1>1, <1>2, <1>3, <1>4, <1>5, <1>6, <1>7, <1>8 DEF Settings, Networking

\* And what happens meanwhile.
LEMMA HyperVKeepsNames ==
  ASSUME MachinesFormed, NEW i \in Ids, GuestShutsDown(i) \/ MergeEnds(i)
  PROVE  Kept
<1>. USE DEF MachinesFormed, MachineFields, Kept
<1>1. CASE GuestShutsDown(i)
  BY <1>1 DEF GuestShutsDown, Become
<1>2. CASE MergeEnds(i)
  BY <1>2 DEF MergeEnds
<1>. QED
  BY <1>1, <1>2

\* The steps that give a machine a name are these three.
LEMMA NamesStep ==
  ASSUME MachinesFormed, [Next]_vars
  PROVE  Kept \/ \E c \in Callers : NewVM(c) \/ RenameVM(c) \/ ImportVM(c)
<1>1. ASSUME UNCHANGED vms
      PROVE  Kept
  BY <1>1 DEF Kept, MachinesFormed
<1>2. ASSUME NEW c \in Callers, Ask(c) \/ GetsSlot(c) \/ GivesUp(c)
      PROVE  UNCHANGED vms
  BY <1>2 DEF Ask, GetsSlot, GivesUp, OnlyTheCall, storeVars
<1>3. ASSUME NEW c \in Callers, Works(c)
      PROVE  Kept \/ NewVM(c) \/ RenameVM(c) \/ ImportVM(c)
  <2>1. CASE RunsScript(c) \/ RunsNetworkScript(c)
    BY <2>1, StoreKeepsNames, OthersKeepNames DEF RunsScript, RunsNetworkScript
  <2>2. CASE EndsRename(c) \/ MovesRecords(c) \/ Answers(c)
    BY <1>1, <2>2 DEF EndsRename, OnlyTheCall, MovesRecords, Answers, storeVars
  <2>. QED
    BY <1>3, <2>1, <2>2 DEF Works
<1>4. CASE FilesRecord \/ UNCHANGED vars
  BY <1>1, <1>4 DEF FilesRecord, vars, storeVars
<1>5. CASE Meanwhile
  <2>1. ASSUME NEW i \in Ids, GuestShutsDown(i) \/ MergeEnds(i)
        PROVE  Kept
    BY <2>1, HyperVKeepsNames
  <2>. QED
    BY <1>1, <1>5, <2>1 DEF Meanwhile, CableMoves, storeVars
<1>. QED
  BY <1>1, <1>2, <1>3, <1>4, <1>5 DEF Next

(* A name that a call has found free, and nobody overtook it since. *)
NamesLooked ==
  \A c \in Callers : call[c].alone =>
    /\ At(c, Creations, "new") => Named(Req(c).name) = {}
    /\ At(c, {"rename_vm"}, "rename") => Named(Req(c).new) = {}

NamesInv == Shaped /\ QueueOK /\ MachinesFormed /\ NamesLooked /\ NamesAreUnique

\* A step that only keeps names keeps a free one free.
LEMMA KeptFree ==
  ASSUME Kept, NEW n, Named(n) = {}
  PROVE  Named(n)' = {}
BY DEF Kept, Named, Exists

\* The name that was found free is free until the call that found it takes it.
LEMMA LookedNext ==
  ASSUME NamesInv, [Next]_vars
  PROVE  NamesLooked'
<1>. SUFFICES ASSUME NEW d \in Callers, call'[d].alone
              PROVE  /\ At(d, Creations, "new")' => Named(Req(d).name)' = {}
                     /\ At(d, {"rename_vm"}, "rename")' => Named(Req(d).new)' = {}
  BY DEF NamesLooked
<1>. USE DEF NamesInv
<1>1. SUFFICES ASSUME At(d, Creations, "new")' \/ At(d, {"rename_vm"}, "rename")'
               PROVE  /\ At(d, Creations, "new")' => Named(Req(d).name)' = {}
                      /\ At(d, {"rename_vm"}, "rename")' => Named(Req(d).new)' = {}
  OBVIOUS
<1>2. Watched(d)'
  BY <1>1 DEF Watched
<1>3. /\ Req(d)' = Req(d) /\ call[d].alone
      /\ Guarded(d) \/ (Scripting(d) /\ call'[d].pc = call[d].pc)
  BY <1>2, Arrivals DEF Req
<1>4. ~Throw(d)
  BY <1>1, EndsLeave DEF Leaves, At, Scripting
<1>5. CASE Guarded(d)
  <2>1. CASE At(d, Creations, "new")'
    <3>1. CheckNewName(d)
      BY <1>3, <1>5, <2>1 DEF Guarded, At, Scripting
    <3>2. Named(Req(d).name) = {} /\ UNCHANGED vms
      BY <1>4, <3>1 DEF CheckNewName, storeVars
    <3>. QED
      BY <1>3, <2>1, <3>2 DEF Named, Exists, At, Creations
  <2>2. CASE At(d, {"rename_vm"}, "rename")'
    <3>1. FindForRename(d)
      BY <1>3, <1>5, <2>2 DEF Guarded, At, Scripting
    <3>2. Named(Req(d).new) = {} /\ UNCHANGED vms
      BY <1>4, <3>1 DEF FindForRename, storeVars
    <3>. QED
      BY <1>3, <2>2, <3>2 DEF Named, Exists, At, Creations
  <2>. QED
    BY <1>1, <2>1, <2>2
<1>6. CASE Scripting(d) /\ call'[d].pc = call[d].pc
  <2>1. /\ At(d, Creations, "new")' => Named(Req(d).name) = {}
        /\ At(d, {"rename_vm"}, "rename")' => Named(Req(d).new) = {}
    BY <1>3, <1>6 DEF NamesLooked, At
  <2>2. Kept
    <3>. SUFFICES ASSUME NEW c \in Callers, NewVM(c) \/ RenameVM(c) \/ ImportVM(c)
                  PROVE  Kept
      BY NamesStep
    <3>1. CASE NewVM(c)
      <4>1. \E i \in Ids : Effect(c, "configure", {i})
        BY <3>1 DEF NewVM
      <4>. QED
        BY <1>1, <1>2, <4>1, ActsOvertake DEF At
    <3>2. CASE RenameVM(c)
      <4>1. Effect(c, "end", Loc(c))
        BY <3>2 DEF RenameVM
      <4>. QED
        BY <1>1, <1>2, <4>1, ActsOvertake DEF At
    <3>3. CASE ImportVM(c)
      <4>1. /\ Req(c).op = "import_vm"
            /\ UNCHANGED vms \/ \E pc \in {"end", "rename"}, i \in Ids : Effect(c, pc, {i})
        BY <3>3 DEF ImportVM, At
      <4>2. ASSUME NEW pc, NEW i \in Ids, Effect(c, pc, {i})
            PROVE  FALSE
        BY <1>1, <1>2, <1>3, <4>1, <4>2, ActsOvertake DEF At, Req, Creations
      <4>. QED
        BY <4>1, <4>2 DEF Kept, MachinesFormed
    <3>. QED
      BY <3>1, <3>2, <3>3
  <2>. QED
    BY <1>3, <2>1, <2>2, KeptFree DEF At
<1>. QED
  BY <1>3, <1>5, <1>6

\* A machine gets a name that another one has only when somebody overtook the
\* look, or from an export.
LEMMA UniqueNext ==
  ASSUME NamesInv, [Next]_vars
  PROVE  MachinesFormed' /\ NamesAreUnique'
<1>. USE DEF NamesInv, NamesAreUnique, Exists
<1>1. CASE Kept
  BY <1>1 DEF Kept
<1>2. ASSUME NEW c \in Callers, NewVM(c)
      PROVE  MachinesFormed' /\ NamesAreUnique'
  <2>1. PICK i \in Ids : \E nics :
          /\ ~Exists(i)
          /\ vms' = [vms EXCEPT ![i] = [NoVM EXCEPT !.state = "Off", !.name = Req(c).name,
                        !.disks = {Req(c).disk}, !.nics = nics,
                        !.built = "bare", !.checked = call[c].alone]]
    BY <1>2 DEF NewVM
  <2>2. /\ DOMAIN vms'[i] = MachineFields /\ vms'[i].name = Req(c).name
        /\ vms'[i].checked = call[c].alone
    BY <2>1 DEF MachinesFormed, MachineFields, NoVM
  <2>3. call[c].alone => \A j \in Ids : vms[j].state # "none" => vms[j].name # Req(c).name
    BY <1>2 DEF NewVM, NamesLooked, Named
  <2>. QED
    BY <2>1, <2>2, <2>3 DEF MachinesFormed
<1>3. ASSUME NEW c \in Callers, RenameVM(c)
      PROVE  MachinesFormed' /\ NamesAreUnique'
  <2>1. vms' = [i \in Ids |-> IF i \in Loc(c)
                  THEN [vms[i] EXCEPT !.name = Req(c).new,
                          !.checked = Req(c).op = "rename_vm" /\ call[c].alone /\ Loc(c) = {i}]
                  ELSE vms[i]]
    BY <1>3 DEF RenameVM
  <2>2. MachinesFormed'
    BY <2>1 DEF MachinesFormed
  <2>3. \A i \in Ids : /\ vms'[i].state = vms[i].state
                       /\ i \notin Loc(c) => vms'[i] = vms[i]
                       /\ i \in Loc(c) => vms'[i].name = Req(c).new
    BY <2>1 DEF MachinesFormed, MachineFields
  <2>0. \A i \in Loc(c) \cap Ids : vms'[i].checked = (Req(c).op = "rename_vm" /\ call[c].alone /\ Loc(c) = {i})
    BY <2>1 DEF MachinesFormed, MachineFields
  <2>4. (Req(c).op = "rename_vm" /\ call[c].alone) =>
          \A j \in Ids : vms[j].state # "none" => vms[j].name # Req(c).new
    BY <1>3 DEF RenameVM, NamesLooked, Named, At
  <2>. SUFFICES ASSUME NEW i \in Ids, NEW j \in Ids, i # j, Exists(i)', Exists(j)',
                       vms'[i].name = vms'[j].name, vms'[i].checked, vms'[j].checked
                PROVE  FALSE
    BY <2>2
  <2>5. ASSUME i \in Loc(c) PROVE FALSE
    <3>1. Req(c).op = "rename_vm" /\ call[c].alone /\ Loc(c) = {i}
      BY <2>0, <2>5
    <3>2. vms'[j] = vms[j] /\ vms[j].state # "none"
      BY <2>3, <3>1
    <3>. QED
      BY <2>3, <2>4, <2>5, <3>1, <3>2
  <2>6. ASSUME j \in Loc(c) PROVE FALSE
    <3>1. Req(c).op = "rename_vm" /\ call[c].alone /\ Loc(c) = {j}
      BY <2>0, <2>6
    <3>2. vms'[i] = vms[i] /\ vms[i].state # "none"
      BY <2>3, <3>1
    <3>. QED
      BY <2>3, <2>4, <2>6, <3>1, <3>2
  <2>. QED
    BY <2>3, <2>5, <2>6
<1>4. ASSUME NEW c \in Callers, ImportVM(c)
      PROVE  MachinesFormed' /\ NamesAreUnique'
  <2>1. CASE UNCHANGED vms
    BY <2>1 DEF MachinesFormed
  <2>2. ASSUME NEW e \in exports, NEW i \in Ids,
               vms' = [vms EXCEPT ![i] = [NoVM EXCEPT !.state = "Off", !.name = e.name, !.gen = e.gen,
                          !.devs = e.devs, !.conf = e.conf, !.built = "whole", !.checked = FALSE]]
        PROVE  MachinesFormed' /\ NamesAreUnique'
    <3>1. DOMAIN vms'[i] = MachineFields /\ ~vms'[i].checked
      BY <2>2 DEF MachinesFormed, MachineFields, NoVM
    <3>. QED
      BY <2>2, <3>1 DEF MachinesFormed
  <2>. QED
    BY <1>4, <2>1, <2>2 DEF ImportVM
<1>. QED
  BY <1>1, <1>2, <1>3, <1>4, NamesStep

\* A scene begins with machines of names of their own, and nobody calls.
LEMMA InitNames == Init => NamesInv
<1>. SUFFICES ASSUME Init PROVE NamesInv
  OBVIOUS
<1>1. PICK s \in Scenes : vms = s.vms
  BY DEF Init
<1>2. call = [c \in Callers |-> Idle]
  BY DEF Init, RunnerInit
<1>3. MachinesFormed
  BY <1>1, ScenesAssumption DEF MachinesFormed, MachineFields, NoVM
<1>4. NamesAreUnique
  BY <1>1, ScenesAssumption DEF NamesAreUnique, Exists
<1>. QED
  BY <1>2, <1>3, <1>4, InitSlots DEF NamesInv, SlotsInv, QueueOK, NamesLooked, At, Scripting, Idle

\* Every step keeps what is known of the names.
LEMMA NamesNext ==
  ASSUME NamesInv, [Next]_vars
  PROVE  NamesInv'
BY ShapedNext, QueueNext, LookedNext, UniqueNext DEF NamesInv

(* Two machines share a name only if one of them got it while another script
   overtook the look for it, or came in by import_vm: any clients, any calls,
   any kills and crashes (provision.go:126, rename.go:34). *)
THEOREM NamesAlwaysUnique == Spec => []NamesAreUnique
<1>1. Init => NamesInv
  BY InitNames
<1>2. NamesInv /\ [Next]_vars => NamesInv'
  BY NamesNext
<1>3. NamesInv => NamesAreUnique
  BY DEF NamesInv
<1>. QED
  BY <1>1, <1>2, <1>3, PTL DEF Spec

(***************************************************************************)
(* Recursive functions on 0..L, with sets and functions for what the       *)
(* induction is about.                                                     *)
(***************************************************************************)

\* A set with 0 and, with each number, the next one, has them all.
LEMMA Induction ==
  ASSUME NEW L \in Nat, NEW T, 0 \in T, \A n \in 1..L : n - 1 \in T => n \in T
  PROVE  0..L \subseteq T
<1>. DEFINE W == (0..L) \ T
<1>. SUFFICES ASSUME W # {} PROVE FALSE
  OBVIOUS
<1>1. \E m \in W : \A k \in W : <<k, m>> \notin OpToRel(<, Nat)
  <2>1. W \subseteq Nat
    OBVIOUS
  <2>. HIDE DEF W
  <2>. QED
    BY <2>1, WFMin, NatLessThanWellFounded
<1>2. PICK m \in W : \A k \in W : ~(k < m)
  <2>1. PICK m \in W : \A k \in W : <<k, m>> \notin OpToRel(<, Nat)
    BY <1>1, Zenon
  <2>2. ASSUME NEW k \in W, k < m PROVE <<k, m>> \in OpToRel(<, Nat)
    BY <2>2 DEF OpToRel
  <2>. QED
    BY <2>1, <2>2, Zenon
<1>3. m \in 1..L /\ m - 1 \in 0..L /\ m - 1 < m
  OBVIOUS
<1>. QED
  BY <1>2, <1>3

\* A value for each number from the value for the one before.
Recurs(f, L, S, base, step) ==
  f \in [0..L -> S] /\ f[0] = base /\ \A n \in 1..L : f[n] = step[n][f[n - 1]]

\* There is such a function.
LEMMA Recursion ==
  ASSUME NEW L \in Nat, NEW S, NEW base \in S, NEW step \in [1..L -> [S -> S]]
  PROVE  \E f : Recurs(f, L, S, base, step)
<1>. DEFINE Upto(k) ==
       \E f \in [0..k -> S] : f[0] = base /\ \A n \in 1..k : f[n] = step[n][f[n - 1]]
<1>1. Upto(0)
  <2>. WITNESS [n \in 0..0 |-> base] \in [0..0 -> S]
  <2>. QED
    OBVIOUS
<1>2. ASSUME NEW k \in 1..L, Upto(k - 1)
      PROVE  Upto(k)
  <2>1. PICK f \in [0..(k - 1) -> S] : f[0] = base /\ \A n \in 1..(k - 1) : f[n] = step[n][f[n - 1]]
    BY <1>2
  <2>. DEFINE g == [n \in 0..k |-> IF n = k THEN step[k][f[k - 1]] ELSE f[n]]
  <2>2. step[k][f[k - 1]] \in S
    BY <2>1
  <2>3. g \in [0..k -> S]
    BY <2>1, <2>2
  <2>4. g[0] = base /\ \A n \in 1..k : g[n] = step[n][g[n - 1]]
    BY <2>1
  <2>. QED
    BY <2>3, <2>4
<1>. DEFINE T == {k \in 0..L : Upto(k)}
<1>3. 0 \in T /\ \A n \in 1..L : n - 1 \in T => n \in T
  <2>. HIDE DEF Upto
  <2>. QED
    BY <1>1, <1>2
<1>4. L \in T
  <2>1. 0..L \subseteq T
    <3>. HIDE DEF T
    <3>. QED
      BY <1>3, Induction, Zenon
  <2>. QED
    BY <2>1
<1>. QED
  BY <1>4 DEF Recurs

(***************************************************************************)
(* What callers are told of a guest's addresses.                           *)
(***************************************************************************)
Bests == [{"v4", "v6", "linklocal"} -> Addresses \cup {NoAddress}]

\* The best of each class so far comes from the best of each class before.
LEMMA BestsCome ==
  ASSUME NEW all \in Seq(Addresses), NEW subnet \in BOOLEAN, NEW linkLocal \in BOOLEAN
  PROVE  LET best == BestOf(all, subnet, linkLocal) IN
         best = [n \in 0..Len(all) |->
                   IF n = 0 THEN [k \in {"v4", "v6", "linklocal"} |-> NoAddress]
                   ELSE KeepFirst(best[n - 1], all[n], subnet, linkLocal)]
<1>. DEFINE none == [k \in {"v4", "v6", "linklocal"} |-> NoAddress]
            step == [n \in 1..Len(all) |-> [b \in Bests |-> KeepFirst(b, all[n], subnet, linkLocal)]]
<1>1. none \in Bests
  BY DEF Bests
<1>2. ASSUME NEW b \in Bests, NEW a \in Addresses
      PROVE  KeepFirst(b, a, subnet, linkLocal) \in Bests
  <2>1. Class(a) \in {"v4", "v6", "linklocal"} /\ FirstOf(b[Class(a)], a) \in Addresses \cup {NoAddress}
    BY DEF Class, FirstOf, Bests
  <2>. QED
    BY <2>1 DEF KeepFirst, Bests
<1>3. step \in [1..Len(all) -> [Bests -> Bests]]
  BY <1>2
<1>4. PICK f \in [0..Len(all) -> Bests] :
        f[0] = none /\ \A n \in 1..Len(all) : f[n] = step[n][f[n - 1]]
  <2>. DEFINE L == Len(all)
  <2>1. L \in Nat
    OBVIOUS
  <2>2. step \in [1..L -> [Bests -> Bests]]
    BY <1>3
  <2>. HIDE DEF none, step, L
  <2>3. \E f : Recurs(f, L, Bests, none, step)
    BY <1>1, <2>1, <2>2, Recursion
  <2>. QED
    BY <2>3 DEF L, Recurs
<1>5. f = [n \in 0..Len(all) |-> IF n = 0 THEN none ELSE KeepFirst(f[n - 1], all[n], subnet, linkLocal)]
  <2>1. \A n \in 1..Len(all) : f[n - 1] \in Bests /\ f[n] = KeepFirst(f[n - 1], all[n], subnet, linkLocal)
    <3>. SUFFICES ASSUME NEW n \in 1..Len(all)
                  PROVE  f[n - 1] \in Bests /\ f[n] = KeepFirst(f[n - 1], all[n], subnet, linkLocal)
      OBVIOUS
    <3>1. n - 1 \in 0..Len(all)
      OBVIOUS
    <3>2. f[n - 1] \in Bests
      BY <1>4, <3>1
    <3>3. f[n] = step[n][f[n - 1]]
      BY <1>4
    <3>. QED
      BY <3>2, <3>3
  <2>. QED
    BY <1>4, <2>1
<1>. QED
  BY <1>5, Zenon DEF BestOf

\* An address that may be picked, in the class it is kept for.
Counts(a, k, subnet, linkLocal) ==
  /\ Considered(a, subnet) /\ Class(a) = k
  /\ k = "linklocal" => linkLocal /\ a.family = 4

\* Of each class, the first of the first n addresses is kept.
FirstKept(best, n, all, subnet, linkLocal) ==
  /\ best \in Bests
  /\ \A k \in {"v4", "v6", "linklocal"} :
       \/ /\ best[k] = NoAddress
          /\ \A m \in 1..n : ~Counts(all[m], k, subnet, linkLocal)
       \/ \E m \in 1..n : /\ best[k] = all[m] /\ Counts(all[m], k, subnet, linkLocal)
                          /\ \A j \in 1..n : Counts(all[j], k, subnet, linkLocal) => m <= j

\* Of each class, the first of all the addresses is kept.
LEMMA BestsAreFirst ==
  ASSUME NEW all \in Seq(Addresses), NEW subnet \in BOOLEAN, NEW linkLocal \in BOOLEAN
  PROVE  FirstKept(BestOf(all, subnet, linkLocal)[Len(all)], Len(all), all, subnet, linkLocal)
<1>. DEFINE L == Len(all)
            best == BestOf(all, subnet, linkLocal)
            none == [k \in {"v4", "v6", "linklocal"} |-> NoAddress]
            T == {n \in 0..L : FirstKept(best[n], n, all, subnet, linkLocal)}
<1>1. L \in Nat /\ \A n \in 1..L : all[n] \in Addresses
  OBVIOUS
<1>2. /\ best[0] = none
      /\ \A n \in 1..L : best[n] = KeepFirst(best[n - 1], all[n], subnet, linkLocal)
  <2>1. best = [n \in 0..L |-> IF n = 0 THEN none ELSE KeepFirst(best[n - 1], all[n], subnet, linkLocal)]
    BY BestsCome
  <2>. HIDE DEF best, L, none, T
  <2>2. \A n \in 0..L : best[n] = IF n = 0 THEN none ELSE KeepFirst(best[n - 1], all[n], subnet, linkLocal)
    BY <2>1, Zenon
  <2>3. 0 \in 0..L /\ \A n \in 1..L : n \in 0..L /\ n # 0
    BY <1>1
  <2>. QED
    BY <2>2, <2>3, Zenon
<1>3. 0 \in T
  <2>1. FirstKept(none, 0, all, subnet, linkLocal)
    BY DEF FirstKept, Bests
  <2>. QED
    BY <1>1, <1>2, <2>1
<1>4. ASSUME NEW n \in 1..L, n - 1 \in T
      PROVE  n \in T
  <2>. DEFINE b == best[n - 1]  a == all[n]
  <2>1. FirstKept(b, n - 1, all, subnet, linkLocal) /\ best[n] = KeepFirst(b, a, subnet, linkLocal)
    BY <1>2, <1>4
  <2>2. a \in Addresses /\ a # NoAddress /\ Class(a) \in {"v4", "v6", "linklocal"}
    BY <1>1, AddressesAssumption DEF Class
  <2>. HIDE DEF L, best, a, b
  <2>3. CASE \A k \in {"v4", "v6", "linklocal"} : ~Counts(a, k, subnet, linkLocal)
    <3>1. best[n] = b
      BY <2>1, <2>2, <2>3 DEF KeepFirst, Counts
    <3>. QED
      BY <1>1, <2>1, <2>3, <3>1 DEF FirstKept, a
  <2>4. CASE Counts(a, Class(a), subnet, linkLocal)
    <3>1. best[n] = [b EXCEPT ![Class(a)] = IF b[Class(a)] = NoAddress THEN a ELSE b[Class(a)]]
      BY <2>1, <2>4 DEF KeepFirst, FirstOf, Counts, FirstKept, Bests
    <3>. DEFINE new == best[n]
    <3>2. new \in Bests
      BY <2>1, <2>2, <3>1 DEF FirstKept, Bests
    <3>3. ASSUME NEW k \in {"v4", "v6", "linklocal"}
          PROVE  \/ /\ new[k] = NoAddress
                    /\ \A m \in 1..n : ~Counts(all[m], k, subnet, linkLocal)
                 \/ \E m \in 1..n : /\ new[k] = all[m] /\ Counts(all[m], k, subnet, linkLocal)
                                    /\ \A j \in 1..n : Counts(all[j], k, subnet, linkLocal) => m <= j
      <4>1. CASE k # Class(a)
        <5>1. new[k] = b[k] /\ ~Counts(a, k, subnet, linkLocal)
          BY <2>1, <3>1, <4>1 DEF FirstKept, Bests, Counts
        <5>2. \A m \in 1..n : m \in 1..(n - 1) \/ all[m] = a
          BY <1>1 DEF a
        <5>3. CASE \A m \in 1..(n - 1) : ~Counts(all[m], k, subnet, linkLocal)
          BY <2>1, <5>1, <5>2, <5>3 DEF FirstKept
        <5>4. CASE \E m \in 1..(n - 1) :
                     /\ b[k] = all[m] /\ Counts(all[m], k, subnet, linkLocal)
                     /\ \A j \in 1..(n - 1) : Counts(all[j], k, subnet, linkLocal) => m <= j
          <6>1. PICK m \in 1..(n - 1) :
                     /\ b[k] = all[m] /\ Counts(all[m], k, subnet, linkLocal)
                     /\ \A j \in 1..(n - 1) : Counts(all[j], k, subnet, linkLocal) => m <= j
            BY <5>4
          <6>2. m \in 1..n /\ \A j \in 1..n : Counts(all[j], k, subnet, linkLocal) => m <= j
            BY <1>1, <5>1, <5>2, <6>1
          <6>. QED
            BY <5>1, <6>1, <6>2
        <5>. QED
          BY <2>1, <5>1, <5>3, <5>4 DEF FirstKept
      <4>2. CASE k = Class(a) /\ b[k] # NoAddress
        <5>1. new[k] = b[k]
          BY <2>1, <3>1, <4>2 DEF FirstKept, Bests
        <5>. QED
          BY <1>1, <2>1, <4>2, <5>1 DEF FirstKept, a
      <4>3. CASE k = Class(a) /\ b[k] = NoAddress
        <5>1. new[k] = all[n] /\ Counts(all[n], k, subnet, linkLocal)
          BY <2>1, <2>4, <3>1, <4>3 DEF FirstKept, Bests, a
        <5>2. \A m \in 1..(n - 1) : ~Counts(all[m], k, subnet, linkLocal)
          BY <1>1, <2>1, <4>3, AddressesAssumption DEF FirstKept, L
        <5>3. \A j \in 1..n : Counts(all[j], k, subnet, linkLocal) => n <= j
          BY <1>1, <5>2
        <5>. QED
          BY <1>1, <5>1, <5>3
      <4>. QED
        BY <4>1, <4>2, <4>3
    <3>. QED
      BY <1>1, <3>2, <3>3 DEF FirstKept
  <2>. QED
    BY <2>2, <2>3, <2>4 DEF Counts
<1>5. L \in T
  <2>1. 0..L \subseteq T
    <3>. HIDE DEF T, L
    <3>. QED
      BY <1>1, <1>3, <1>4, Induction
  <2>. QED
    BY <1>1, <2>1
<1>. QED
  BY <1>5

\* What adapters have, one after the other, is a sequence of what each has.
LEMMA Flattened ==
  ASSUME NEW A, NEW s \in Seq(Seq(A))
  PROVE  FlattenSeq(s) \in Seq(A)
<1>. DEFINE flatten[i \in 1..Len(s)] == IF i = 1 THEN s[i] ELSE flatten[i - 1] \o s[i]
<1>1. CASE Len(s) = 0
  <2>1. FlattenSeq(s) = s
    BY <1>1, Zenon DEF FlattenSeq
  <2>. QED
    BY <1>1, <2>1
<1>2. CASE Len(s) # 0
  <2>. DEFINE L == Len(s) - 1
              step == [n \in 1..L |-> [v \in Seq(A) |-> v \o s[n + 1]]]
              T == {n \in 0..L : flatten[n + 1] \in Seq(A)}
  <2>1. L \in Nat /\ s[1] \in Seq(A) /\ \A n \in 1..L : n + 1 \in 1..Len(s) /\ s[n + 1] \in Seq(A)
    BY <1>2
  <2>2. step \in [1..L -> [Seq(A) -> Seq(A)]]
    BY <2>1
  <2>3. PICK f : Recurs(f, L, Seq(A), s[1], step)
    <3>. HIDE DEF L, step
    <3>. QED
      BY <2>1, <2>2, Recursion
  <2>. DEFINE g == [i \in 1..Len(s) |-> f[i - 1]]
  <2>4. g = [i \in 1..Len(s) |-> IF i = 1 THEN s[i] ELSE g[i - 1] \o s[i]]
    <3>. SUFFICES ASSUME NEW i \in 1..Len(s)
                  PROVE  f[i - 1] = IF i = 1 THEN s[i] ELSE g[i - 1] \o s[i]
      OBVIOUS
    <3>1. CASE i = 1
      BY <2>3, <3>1 DEF Recurs
    <3>2. CASE i # 1
      <4>. DEFINE n == i - 1
      <4>1. n \in 1..L /\ n + 1 = i /\ n - 1 \in 0..L
        BY <1>2, <3>2
      <4>2. f[n] = step[n][f[n - 1]] /\ f[n - 1] \in Seq(A)
        BY <2>3, <4>1 DEF Recurs
      <4>3. f[n] = f[n - 1] \o s[i]
        BY <4>1, <4>2
      <4>4. g[i - 1] = f[n - 1]
        BY <4>1
      <4>. QED
        BY <3>2, <4>3, <4>4
    <3>. QED
      BY <3>1, <3>2
  <2>5. flatten = [i \in 1..Len(s) |-> IF i = 1 THEN s[i] ELSE flatten[i - 1] \o s[i]]
    <3>. HIDE DEF g
    <3>. QED
      BY <2>4, Zenon DEF flatten
  <2>. HIDE DEF flatten
  <2>6. 0 \in T
    BY <1>2, <2>1, <2>5
  <2>7. ASSUME NEW n \in 1..L, n - 1 \in T
        PROVE  n \in T
    <3>1. n + 1 \in 1..Len(s) /\ n + 1 # 1 /\ (n + 1) - 1 = n /\ (n - 1) + 1 = n
      BY <2>1
    <3>2. flatten[n + 1] = flatten[n] \o s[n + 1]
      BY <2>5, <3>1
    <3>3. flatten[n] \in Seq(A)
      BY <2>7, <3>1
    <3>4. flatten[n] \o s[n + 1] \in Seq(A)
      <4>. HIDE DEF L
      <4>. QED
        BY <2>1, <3>3
    <3>5. n \in 0..L
      BY <2>1
    <3>. QED
      BY <3>2, <3>4, <3>5
  <2>8. L \in T
    <3>1. 0..L \subseteq T
      <4>. HIDE DEF T, L
      <4>. QED
        BY <2>1, <2>6, <2>7, Induction
    <3>2. L \in 0..L
      BY <2>1
    <3>. HIDE DEF T
    <3>. QED
      BY <3>1, <3>2
  <2>9. FlattenSeq(s) = flatten[Len(s)]
    BY <1>2, Zenon DEF FlattenSeq, flatten
  <2>. QED
    BY <1>2, <2>8, <2>9
<1>. QED
  BY <1>1, <1>2

\* What a guest reports is a sequence of addresses for each adapter.
Reporting == \A i \in Ids : reported[i] \in Seq(Seq(Addresses))

\* The first of the best rank is picked.
LEMMA PickBest ==
  ASSUME Reporting
  PROVE  PickIsBest
<1>. SUFFICES ASSUME NEW i \in Ids, NEW subnet \in BOOLEAN, NEW linkLocal \in BOOLEAN
              PROVE  LET all == FlattenSeq(reported[i])
                         good == {k \in DOMAIN all : Usable(all[k], subnet, linkLocal)}
                         a == PickGuestIP(reported[i], subnet, linkLocal)
                     IN IF good = {} THEN a = NoAddress
                        ELSE \E k \in good : /\ a = all[k]
                                             /\ \A j \in good : Rank(all[j]) <= Rank(all[k])
                                             /\ \A j \in good : Rank(all[j]) = Rank(all[k]) => k <= j
  BY Zenon DEF PickIsBest
<1>. DEFINE all == FlattenSeq(reported[i])
            L == Len(all)
            good == {k \in 1..L : Usable(all[k], subnet, linkLocal)}
            best == BestOf(all, subnet, linkLocal)[L]
            a == PickGuestIP(reported[i], subnet, linkLocal)
<1>1. all \in Seq(Addresses)
  BY Flattened DEF Reporting
<1>2. FirstKept(best, L, all, subnet, linkLocal)
  <2>. HIDE DEF all
  <2>. QED
    BY <1>1, BestsAreFirst
<1>3. a = IF best.v4 # NoAddress THEN best.v4 ELSE IF best.v6 # NoAddress THEN best.v6 ELSE best.linklocal
  BY Zenon DEF PickGuestIP
<1>4. DOMAIN all = 1..L /\ \A k \in 1..L : all[k] \in Addresses /\ all[k] # NoAddress
  <2>. HIDE DEF all
  <2>. QED
    BY <1>1, AddressesAssumption
<1>. HIDE DEF all, best, a
\* How the classes rank.
<1>5. ASSUME NEW x \in Addresses
      PROVE  /\ Counts(x, "v4", subnet, linkLocal) <=> Usable(x, subnet, linkLocal) /\ Rank(x) = 3
             /\ Counts(x, "v6", subnet, linkLocal) <=> Usable(x, subnet, linkLocal) /\ Rank(x) = 2
             /\ Counts(x, "linklocal", subnet, linkLocal) <=> Usable(x, subnet, linkLocal) /\ Rank(x) = 1
             /\ Usable(x, subnet, linkLocal) => Rank(x) \in {1, 2, 3}
  BY DEF Addresses, Counts, Considered, Class, Usable, Rank
<1>. DEFINE FirstOfRank(k, r) ==
              \/ best[k] = NoAddress /\ \A m \in good : Rank(all[m]) # r
              \/ \E m \in good : /\ best[k] = all[m] /\ Rank(all[m]) = r /\ best[k] # NoAddress
                                 /\ \A j \in good : Rank(all[j]) = r => m <= j
<1>6. FirstOfRank("v4", 3)
  BY <1>2, <1>4, <1>5 DEF FirstKept
<1>7. FirstOfRank("v6", 2)
  BY <1>2, <1>4, <1>5 DEF FirstKept
<1>8. FirstOfRank("linklocal", 1)
  BY <1>2, <1>4, <1>5 DEF FirstKept
<1>9. \A m \in good : Rank(all[m]) \in {1, 2, 3}
  BY <1>4, <1>5
<1>10. IF good = {} THEN a = NoAddress
       ELSE \E k \in good : /\ a = all[k]
                            /\ \A j \in good : Rank(all[j]) <= Rank(all[k])
                            /\ \A j \in good : Rank(all[j]) = Rank(all[k]) => k <= j
  <2>. HIDE DEF good
  <2>. QED
    BY <1>3, <1>6, <1>7, <1>8, <1>9
<1>. QED
  BY <1>4, <1>10 DEF all, a

\* What the diagnosis leads with is so.
LEMMA DiagnosisTrue ==
  ASSUME Reporting
  PROVE  DiagnosisIsTrue
<1>. SUFFICES ASSUME NEW i \in Ids, NEW given \in SUBSET answers
              PROVE  LET v == Diagnosis(reported[i], vms[i].nics, given, {})
                         all == Range(FlattenSeq(reported[i])) IN
                       /\ v = "behind the host" => (all \cup given) \cap answers # {}
                       /\ v = "no answer" => all # {} /\ \A a \in all \cap answers : a.kind # "routable"
                       /\ v = "unknown" => all \cup given = {}
  BY DEF DiagnosisIsTrue
<1>. DEFINE all == FlattenSeq(reported[i])
<1>1. all \in Seq(Addresses)
  BY Flattened DEF Reporting
<1>2. all = <<>> <=> Range(all) = {}
  <2>. HIDE DEF all
  <2>1. CASE Len(all) = 0
    <3>1. all = <<>> /\ DOMAIN all = {}
      BY <1>1, <2>1
    <3>. QED
      BY <3>1 DEF Range
  <2>2. CASE Len(all) # 0
    <3>1. 1 \in DOMAIN all /\ all # <<>>
      BY <1>1, <2>2
    <3>. QED
      BY <3>1 DEF Range
  <2>. QED
    BY <2>1, <2>2
<1>. QED
  BY <1>2 DEF Diagnosis, Verdict, Tried, Dialled

\* Only a guest changes what it reports.
LEMMA ReportingNext ==
  ASSUME Reporting, [Next]_vars
  PROVE  Reporting'
<1>1. UNCHANGED reported => Reporting'
  BY DEF Reporting
<1>2. ASSUME NEW c \in Callers, Ask(c) \/ GetsSlot(c) \/ GivesUp(c) \/ Works(c)
      PROVE  UNCHANGED reported
  BY <1>2 DEF Ask, GetsSlot, GivesUp, OnlyTheCall, Works, RunsScript, RunsNetworkScript, EndsRename,
     MovesRecords, Answers, ReadAdapters, Pick, Diagnose, addressVars
<1>3. CASE FilesRecord \/ UNCHANGED vars
  BY <1>1, <1>3 DEF FilesRecord, vars, addressVars
<1>4. ASSUME NEW i \in Ids, GuestReports(i)
      PROVE  Reporting'
  <2>1. PICK r \in Reports : reported' = [reported EXCEPT ![i] = r]
    BY <1>4 DEF GuestReports
  <2>2. r \in Seq(Seq(Addresses))
    BY AddressesAssumption
  <2>. QED
    BY <2>1, <2>2 DEF Reporting
<1>5. CASE Meanwhile
  BY <1>1, <1>4, <1>5 DEF Meanwhile, addressVars
<1>. QED
  BY <1>1, <1>2, <1>3, <1>5 DEF Next

(* Whatever a guest reports and a caller asks for, the address picked is a usable
   one, the first of the best rank, and none is picked only when none is usable;
   and what the diagnosis leads with is true of the addresses: for any number of
   adapters and addresses (guest.go:137, network.go:692). *)
THEOREM AddressesAlwaysToldRight == Spec => []AddressesAreToldRight
<1>1. Init => Reporting
  BY DEF Init, Reporting
<1>2. Reporting /\ [Next]_vars => Reporting'
  BY ReportingNext
<1>3. Reporting => AddressesAreToldRight
  BY PickBest, DiagnosisTrue DEF AddressesAreToldRight
<1>. QED
  BY <1>1, <1>2, <1>3, PTL DEF Spec
=============================================================================
