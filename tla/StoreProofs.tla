----------------------------- MODULE StoreProofs -----------------------------
(***************************************************************************)
(* What the scripts keep of machines, disks and adapters, for any clients, *)
(* machines, files, switches and calls, kills and crashes.                 *)
(***************************************************************************)
EXTENDS HostContractProofs

(***************************************************************************)
(* What calls ask for.                                                     *)
(***************************************************************************)
Asked == (\A r \in todo : WellFormed(r)) /\ (\A c \in Callers : WellFormed(call[c].req))

\* A call asks for what it asked before, for what a client just asked, or for nothing.
LEMMA RequestsCome ==
  ASSUME Shaped, [Next]_vars, NEW d \in Callers
  PROVE  call'[d].req = call[d].req \/ call'[d].req = [op |-> "none"] \/ call'[d].req \in todo
<1>1. CASE Nothing \/ HyperVMovesAlone
  BY <1>1 DEF Nothing, HyperVMovesAlone, MergeEnds, GuestShutsDown
<1>2. CASE Overtake
  BY <1>2, OvertakenKeeps DEF Overtake
<1>3. CASE ServiceDies
  BY <1>3, DeathLeaves
<1>4. ASSUME NEW c \in Callers, TakeSlot(c) \/ Refuse(c)
      PROVE  call'[d].req = call[d].req
  BY <1>4 DEF TakeSlot, Refuse, Shaped, Fields
<1>5. ASSUME NEW c \in Callers, NEW r \in todo, Submit(c, r, FirstStep(r.op))
      PROVE  call'[d].req = call[d].req \/ call'[d].req \in todo
  BY <1>5 DEF Submit, Shaped, Idle
<1>6. ASSUME NEW c \in Callers, Outcome(c)
      PROVE  call'[d].req = call[d].req \/ call'[d].req = [op |-> "none"]
  BY <1>6, OvertakenKeeps
     DEF Outcome, Changes, Acts, Same, OthersOvertaken, Quiet, OthersStay, GoesOn, Passes, Ends, SameSoFar
<1>. QED
  BY <1>1, <1>2, <1>3, <1>4, <1>5, <1>6, Steps DEF StepOf

\* The calls nobody has made yet are among those of the scene.
LEMMA TodoShrinks ==
  ASSUME [Next]_vars
  PROVE  todo' \subseteq todo
<1>1. ASSUME NEW c \in Callers, Ask(c) \/ GetsSlot(c) \/ GivesUp(c) \/ Works(c)
      PROVE  todo' \subseteq todo
  BY <1>1 DEF Ask, GetsSlot, GivesUp, OnlyTheCall, Works, RunsScript, RunsNetworkScript,
     EndsRename, MovesRecords, Answers, sceneVars
<1>2. CASE FilesRecord \/ Meanwhile \/ UNCHANGED vars
  BY <1>2 DEF FilesRecord, Meanwhile, sceneVars, vars
<1>. QED
  BY <1>1, <1>2 DEF Next

\* Nothing else is ever asked than the scene has clients ask.
LEMMA AskedNext ==
  ASSUME Shaped, Asked, [Next]_vars
  PROVE  Asked'
<1>1. WellFormed([op |-> "none"])
  BY DEF WellFormed, Creations, Setters
<1>2. \A r \in todo' : WellFormed(r)
  BY TodoShrinks DEF Asked
<1>3. \A d \in Callers : WellFormed(call'[d].req)
  BY <1>1, RequestsCome DEF Asked
<1>. QED
  BY <1>2, <1>3 DEF Asked, WellFormed, Creations, Setters

\* At first nobody asks.
LEMMA InitAsked == Init => Asked
<1>. SUFFICES ASSUME Init PROVE Asked
  OBVIOUS
<1>1. WellFormed([op |-> "none"])
  BY DEF WellFormed, Creations, Setters
<1>2. \A c \in Callers : call[c].req = [op |-> "none"]
  BY DEF Init, RunnerInit, Idle
<1>3. \A r \in todo : WellFormed(r)
  BY RequestsAssumption DEF Init
<1>. QED
  BY <1>1, <1>2, <1>3 DEF Asked

(***************************************************************************)
(* What others do to a script that is past its first step: it goes on by   *)
(* itself, or stays where it is with what it has read; and if it stays     *)
(* alone, no other script changed the host.                                *)
(***************************************************************************)
GoesOnItself(d) ==
  Works(d) /\ Outcome(d) /\ call'[d].req = call[d].req /\ call'[d].alone = call[d].alone

Stands(d) ==
  /\ Scripting(d) /\ call'[d].req = call[d].req /\ call'[d].pc = call[d].pc /\ call'[d].loc = call[d].loc
  /\ call'[d].alone => call[d].alone /\ (UNCHANGED HostVars \/ HyperVMovesAlone)

\* Every step is one of the two to it, or gives it the slot it waited for.
LEMMA ScriptComes ==
  ASSUME Shaped, [Next]_vars, NEW d \in Callers, Scripting(d)'
  PROVE  GoesOnItself(d) \/ Stands(d) \/ (UNCHANGED HostVars /\ TakeSlot(d))
<1>1. (call'[d] = call[d] /\ (UNCHANGED HostVars \/ HyperVMovesAlone)) => Stands(d)
  BY DEF Stands, Scripting
<1>2. call'[d] = Overtaken(d) => Stands(d)
  BY OvertakenKeeps DEF Overtaken, Shaped, Fields, Stands, Scripting
<1>3. CASE Nothing \/ HyperVMovesAlone
  <2>1. UNCHANGED call
    BY <1>3 DEF Nothing, HyperVMovesAlone, MergeEnds, GuestShutsDown
  <2>. QED
    BY <1>1, <1>3, <2>1 DEF Nothing
<1>4. CASE Overtake
  BY <1>2, <1>4 DEF Overtake
<1>5. CASE UNCHANGED HostVars /\ ServiceDies
  <2>1. Scripting(d)
    BY <1>5, DeathLeaves DEF Scripting
  <2>2. call'[d] = [call[d] EXCEPT !.st = "orphan", !.told = "failed"]
    BY <1>5, <2>1 DEF ServiceDies, Scripting
  <2>. QED
    BY <1>5, <2>1, <2>2 DEF Shaped, Fields, Stands
<1>6. ASSUME NEW c \in Callers, c # d, StepOf(c)
      PROVE  Stands(d)
  <2>1. CASE Changes(c)
    BY <1>2, <1>6, <2>1 DEF Changes, Acts, OthersOvertaken
  <2>2. CASE ~Changes(c)
    <3>1. UNCHANGED HostVars /\ call'[d] = call[d]
      BY <1>6, <2>2 DEF StepOf, Outcome, Quiet, OthersStay, TakeSlot, Refuse, Submit, Shaped
    <3>. QED
      BY <1>1, <3>1
  <2>. QED
    BY <2>1, <2>2
<1>7. CASE StepOf(d)
  <2>1. ~(Refuse(d) \/ CancelQueued(d) \/ \E r \in todo : Submit(d, r, FirstStep(r.op)))
    BY DEF Refuse, CancelQueued, Submit, Shaped, Fields, Idle, Scripting
  <2>2. CASE TakeSlot(d) /\ UNCHANGED HostVars
    BY <2>2
  <2>3. CASE Outcome(d) /\ Works(d)
    <3>1. call'[d].req = call[d].req /\ call'[d].alone = call[d].alone
      BY <2>3 DEF Outcome, Changes, Acts, Same, Quiet, GoesOn, Passes, Ends, SameSoFar, Scripting
    <3>. QED
      BY <2>3, <3>1 DEF GoesOnItself
  <2>. QED
    BY <1>7, <2>1, <2>2, <2>3 DEF StepOf
<1>. QED
  BY <1>3, <1>4, <1>5, <1>6, <1>7, Steps

\* Past the first step there is no slot to be given.
LEMMA ScriptMoves ==
  ASSUME Shaped, QueueOK, [Next]_vars, NEW d \in Callers, Scripting(d)', call'[d].pc \notin Entries
  PROVE  GoesOnItself(d) \/ Stands(d)
<1>1. ~TakeSlot(d)
  BY DEF TakeSlot, QueueOK, Entry, Entries, Shaped, Fields
<1>. QED
  BY <1>1, ScriptComes

\* What is done for each tool, as long as its script goes on.
LEMMA ToolWorks ==
  ASSUME Shaped, NEW c \in Callers, Works(c), Scripting(c)'
  PROVE  /\ Req(c).op \in {"stop_vm", "restart_vm"} =>
              \/ LookUp(c, {"stop_vm", "restart_vm"}, Present, "stop") \/ StopVM(c) \/ PollForOff(c)
              \/ Req(c).op = "restart_vm" /\ (FindForStart(c) \/ StartVM(c))
         /\ Req(c).op = "start_vm" => FindForStart(c) \/ StartVM(c)
         /\ Req(c).op = "resume_vm" =>
              LookUp(c, {"resume_vm"}, {"Running", "Paused", "Saved"}, "act") \/ Resume(c)
         /\ Req(c).op = "suspend_vm" => LookUp(c, {"suspend_vm"}, {"Running"}, "act") \/ Suspend(c)
         /\ Req(c).op = "create_checkpoint" =>
              LookUp(c, {"create_checkpoint", "attach_vhd", "export_vm"}, Present, "act") \/ CreateCheckpoint(c)
         /\ Req(c).op = "delete_checkpoint" => FindCheckpoint(c) \/ DeleteCheckpoint(c) \/ AwaitMerge(c)
         /\ Req(c).op = "apply_checkpoint" => FindCheckpoint(c) \/ TurnOff(c) \/ RestoreCheckpoint(c)
         /\ Req(c).op = "import_vm" => ImportVM(c) \/ RenameVM(c)
         /\ Req(c).op = "create_vhd" => CreateVHD(c)
         /\ Req(c).op = "convert_vhd" => ConvertVHD(c)
         /\ Req(c).op \in Creations =>
              \/ ReadParent(c) \/ MakeChild(c) \/ ChildMade(c) \/ CheckNewName(c) \/ NewVM(c)
              \/ Configure(c) \/ BootDevices(c)
         /\ Req(c).op = "delete_vm" =>
              FindForDelete(c) \/ TurnOff(c) \/ RemoveVM(c) \/ Survey(c) \/ RemoveDisk(c)
         /\ Req(c).op = "attach_vhd" =>
              LookUp(c, {"create_checkpoint", "attach_vhd", "export_vm"}, Present, "act") \/ AttachVHD(c)
         /\ Req(c).op = "export_vm" =>
              LookUp(c, {"create_checkpoint", "attach_vhd", "export_vm"}, Present, "act") \/ ExportVM(c)
         /\ Req(c).op = "create_seed_disk" =>
              ClearSeedPath(c) \/ MakeSeedDisk(c) \/ MountSeedDisk(c) \/ WriteSeedDisk(c)
         /\ Req(c).op \in Setters => FindForSetting(c) \/ ApplySetting(c)
         /\ Req(c).op = "set_vm_network" =>
              FindAdapter(c) \/ AddAdapter(c) \/ ConnectAdapter(c) \/ SetPort(c)
         /\ Req(c).op = "create_switch" => CheckNewSwitch(c) \/ NewSwitch(c)
         /\ Req(c).op = "delete_switch" => FindSwitch(c) \/ DeleteSwitch(c)
         /\ Req(c).op = "set_switch_nat" => RemoveNAT(c) \/ NewNAT(c)
         /\ Req(c).op = "set_switch_host_address" =>
              FindSwitch(c) \/ ClearHostAddress(c) \/ SetHostAddress(c)
<1>. USE DEF At, Req
<1>0. ~Leaves(c) /\ ~Waits(c)
  BY DEF Leaves, Waits, Scripting
<1>1. ~(EndScript(c) \/ ScriptDies(c)) /\ ~Throw(c) /\ ~Fail(c) /\ ~Finish(c)
  BY <1>0, EndsLeave DEF EndScript, ScriptDies, Kill
<1>2. /\ \A s, t : /\ LookUp(c, {"stop_vm", "restart_vm"}, s, t) => Req(c).op \in {"stop_vm", "restart_vm"}
                   /\ LookUp(c, {"suspend_vm"}, s, t) => Req(c).op = "suspend_vm"
                   /\ LookUp(c, {"resume_vm"}, s, t) => Req(c).op = "resume_vm"
                   /\ LookUp(c, {"create_checkpoint", "attach_vhd", "export_vm"}, s, t)
                        => Req(c).op \in {"create_checkpoint", "attach_vhd", "export_vm"}
  BY DEF LookUp
<1>3. /\ ~ReportByName(c)
      /\ FindForStart(c) \/ StartVM(c) => Req(c).op \in {"start_vm", "restart_vm"}
      /\ StopVM(c) \/ PollForOff(c) => Req(c).op \in {"stop_vm", "restart_vm"}
      /\ Suspend(c) => Req(c).op = "suspend_vm"
      /\ Resume(c) => Req(c).op = "resume_vm"
  <2>1. ~(Scripting(c) /\ ThenQueue(c, "start"))
    BY <1>0, ThenLeaves DEF Looking
  <2>2. ~ReportByName(c)
    BY <1>1, <2>1 DEF ReportByName
  <2>. QED
    BY <2>2 DEF FindForStart, StartVM, StopVM, PollForOff, Suspend, Resume
<1>4. /\ FindCheckpoint(c) => Req(c).op \in {"apply_checkpoint", "delete_checkpoint"}
      /\ CreateCheckpoint(c) => Req(c).op = "create_checkpoint"
      /\ TurnOff(c) => Req(c).op \in {"apply_checkpoint", "delete_vm"}
      /\ RestoreCheckpoint(c) => Req(c).op = "apply_checkpoint"
      /\ DeleteCheckpoint(c) \/ AwaitMerge(c) => Req(c).op = "delete_checkpoint"
  BY DEF FindCheckpoint, CreateCheckpoint, TurnOff, RestoreCheckpoint, DeleteCheckpoint, AwaitMerge
<1>5. /\ ReadParent(c) \/ MakeChild(c) \/ ChildMade(c) \/ CheckNewName(c) \/ NewVM(c) \/ Configure(c)
           \/ BootDevices(c) => Req(c).op \in Creations
      /\ FindForDelete(c) \/ RemoveVM(c) \/ Survey(c) \/ RemoveDisk(c) => Req(c).op = "delete_vm"
      /\ FindForRename(c) => Req(c).op = "rename_vm"
      /\ RenameVM(c) => Req(c).op \in {"rename_vm", "import_vm"}
      /\ ImportVM(c) => Req(c).op = "import_vm"
      /\ ExportVM(c) => Req(c).op = "export_vm"
  BY DEF ReadParent, MakeChild, ChildMade, CheckNewName, NewVM, Configure, BootDevices, Creations,
     FindForDelete, RemoveVM, Survey, RemoveDisk, FindForRename, RenameVM, ExportVM, ImportVM
<1>6. /\ CreateVHD(c) => Req(c).op = "create_vhd"
      /\ ConvertVHD(c) => Req(c).op = "convert_vhd"
      /\ FindForResize(c) \/ ResizeVHD(c) \/ FindForDetach(c) \/ DetachVHD(c)
           => Req(c).op \in {"resize_vhd", "detach_vhd"}
      /\ AttachVHD(c) => Req(c).op = "attach_vhd"
      /\ ClearSeedPath(c) \/ MakeSeedDisk(c) \/ MountSeedDisk(c) \/ WriteSeedDisk(c)
           => Req(c).op = "create_seed_disk"
      /\ FindForSetting(c) \/ ApplySetting(c) => Req(c).op \in Setters
  BY DEF CreateVHD, ConvertVHD, FindForResize, ResizeVHD, FindForDetach, DetachVHD, AttachVHD,
     ClearSeedPath, MakeSeedDisk, MountSeedDisk, WriteSeedDisk, FindForSetting, ApplySetting
<1>7. /\ CheckNewSwitch(c) \/ NewSwitch(c) => Req(c).op = "create_switch"
      /\ FindSwitch(c) => Req(c).op \in {"delete_switch", "set_switch_host_address"}
      /\ DeleteSwitch(c) => Req(c).op = "delete_switch"
      /\ ClearHostAddress(c) \/ SetHostAddress(c) => Req(c).op = "set_switch_host_address"
      /\ RemoveNAT(c) \/ NewNAT(c) => Req(c).op = "set_switch_nat"
      /\ FindAdapter(c) => Req(c).op \in {"set_vm_network", "remove_vm_network_adapter"}
      /\ AddAdapter(c) \/ ConnectAdapter(c) \/ SetPort(c) => Req(c).op = "set_vm_network"
      /\ RemoveAdapter(c) => Req(c).op = "remove_vm_network_adapter"
  BY DEF CheckNewSwitch, NewSwitch, FindSwitch, DeleteSwitch, ClearHostAddress, SetHostAddress,
     RemoveNAT, NewNAT, FindAdapter, AddAdapter, ConnectAdapter, SetPort, RemoveAdapter
<1>8. EndsRename(c) => Req(c).op = "rename_vm"
  BY DEF EndsRename, RenameDone
<1>9. ReadAdapters(c) => Req(c).op \in {"wait_for_guest_ip", "ssh_info", "diagnose_vm_network"}
  BY DEF ReadAdapters
<1>10. ~(MovesRecords(c) \/ Pick(c) \/ Diagnose(c))
  BY <1>0, WaitSteps DEF MovesRecords
<1>11. CASE Script(c)
  BY <1>1, <1>2, <1>3, <1>4, <1>5, <1>6, <1>11 DEF Script, Creations, Setters
<1>12. CASE Settings(c)
  BY <1>6, <1>12 DEF Settings, Creations, Setters
<1>13. CASE Networking(c)
  BY <1>7, <1>13 DEF Networking, Creations, Setters
<1>14. CASE EndsRename(c) \/ ReadAdapters(c)
  BY <1>8, <1>9, <1>14 DEF Creations, Setters
<1>. QED
  BY <1>10, <1>11, <1>12, <1>13, <1>14 DEF Works, RunsScript, RunsNetworkScript, Answers

(***************************************************************************)
(* Machines and disk files.                                                *)
(***************************************************************************)
Stored ==
  /\ files \in [Paths -> Paths \cup {NoFile, Root}]
  /\ mounted \subseteq Paths
  /\ \A i \in Ids : /\ vms[i].state \in Present \cup {"none"}
                    /\ vms[i].disks \subseteq Paths /\ vms[i].snap \subseteq Paths
                    /\ vms[i].layers \subseteq vms[i].disks

\* One machine is put in the place of another, of the same types.
LEMMA OneStored ==
  ASSUME MachinesFormed, Stored, NEW i, NEW m, vms' = [vms EXCEPT ![i] = m],
         m.state \in Present \cup {"none"}, m.disks \subseteq Paths, m.snap \subseteq Paths,
         m.layers \subseteq m.disks,
         files' \in [Paths -> Paths \cup {NoFile, Root}], mounted' \subseteq Paths
  PROVE  Stored'
<1>1. ASSUME NEW j \in Ids
      PROVE  vms'[j] = IF j = i THEN m ELSE vms[j]
  BY DEF MachinesFormed
<1>. QED
  BY <1>1 DEF Stored

\* The files stay, and of each machine all that counts here.
LEMMA LikeStored ==
  ASSUME Stored, UNCHANGED <<files, mounted>>,
         \A i \in Ids : /\ vms'[i].state = vms[i].state /\ vms'[i].snap = vms[i].snap
                        /\ vms'[i].disks \subseteq Paths /\ vms'[i].layers \subseteq vms'[i].disks
  PROVE  Stored'
BY DEF Stored

\* The scripts of machines, checkpoints and disks keep their types.
LEMMA ScriptStores ==
  ASSUME MachinesFormed, Stored, NEW c \in Callers, Script(c), WellFormed(call[c].req)
  PROVE  Stored'
<1>. USE DEF MachinesFormed, MachineFields, Stored, storeVars, OnlyVMs, Become, Present
<1>1. CASE \/ LookUp(c, {"stop_vm", "restart_vm"}, Present, "stop")
            \/ LookUp(c, {"suspend_vm"}, {"Running"}, "act")
            \/ LookUp(c, {"resume_vm"}, {"Running", "Paused", "Saved"}, "act")
            \/ LookUp(c, {"create_checkpoint", "attach_vhd", "export_vm"}, Present, "act")
  BY <1>1 DEF LookUp
<1>2. CASE \/ FindForStart(c) \/ PollForOff(c) \/ ReportByName(c) \/ FindCheckpoint(c) \/ RestoreCheckpoint(c)
            \/ AwaitMerge(c) \/ ReadParent(c) \/ ChildMade(c) \/ CheckNewName(c)
            \/ FindForDelete(c) \/ Survey(c) \/ FindForRename(c) \/ ExportVM(c)
            \/ FindForResize(c) \/ ResizeVHD(c) \/ FindForDetach(c) \/ EndScript(c) \/ ScriptDies(c)
  BY <1>2 DEF FindForStart, PollForOff, ReportByName, FindCheckpoint, RestoreCheckpoint,
     AwaitMerge, ReadParent, ChildMade, CheckNewName, FindForDelete, Survey, FindForRename, ExportVM,
     FindForResize, ResizeVHD, FindForDetach, EndScript, ScriptDies
<1>3. CASE StartVM(c)
  BY <1>3 DEF StartVM
<1>4. CASE StopVM(c)
  BY <1>4 DEF StopVM
<1>5. CASE Suspend(c)
  BY <1>5 DEF Suspend
<1>6. CASE Resume(c)
  BY <1>6 DEF Resume
<1>7. CASE CreateCheckpoint(c)
  <2>1. PICK i \in Ids : \E new \in Injection(vms[i].disks, {p \in Paths : Unused(p)}) :
          /\ files' = [p \in Paths |-> IF \E d \in DOMAIN new : new[d] = p
                                     THEN CHOOSE d \in DOMAIN new : new[d] = p ELSE files[p]]
          /\ vms' = [vms EXCEPT ![i].snap = vms[i].disks, ![i].disks = Range(new), ![i].layers = Range(new)]
    BY <1>7 DEF CreateCheckpoint
  <2>2. PICK new \in [vms[i].disks -> {p \in Paths : Unused(p)}] :
          /\ files' = [p \in Paths |-> IF \E d \in DOMAIN new : new[d] = p
                                     THEN CHOOSE d \in DOMAIN new : new[d] = p ELSE files[p]]
          /\ vms' = [vms EXCEPT ![i].snap = vms[i].disks, ![i].disks = Range(new), ![i].layers = Range(new)]
    BY <2>1 DEF Injection
  <2>3. Range(new) \subseteq Paths
    <3>1. DOMAIN new = vms[i].disks /\ \A d \in vms[i].disks : new[d] \in Paths
      BY <2>2
    <3>. HIDE DEF MachinesFormed, Stored
    <3>. QED
      BY <3>1, Zenon DEF Range
  <2>4. files' \in [Paths -> Paths \cup {NoFile, Root}]
    BY <2>2
  <2>5. mounted' \subseteq Paths
    BY <1>7 DEF CreateCheckpoint
  <2>. DEFINE m == [vms[i] EXCEPT !.snap = vms[i].disks, !.disks = Range(new), !.layers = Range(new)]
  <2>6. vms' = [vms EXCEPT ![i] = m]
    BY <2>2
  <2>7. /\ m.state = vms[i].state /\ m.snap = vms[i].disks
        /\ m.disks = Range(new) /\ m.layers = Range(new)
    <3>1. DOMAIN vms[i] = MachineFields
      OBVIOUS
    <3>. QED
      BY <3>1
  <2>8. m.state \in Present \cup {"none"} /\ m.snap \subseteq Paths
    BY <2>7
  <2>. HIDE DEF m, MachinesFormed, Stored
  <2>. QED
    BY <2>3, <2>4, <2>5, <2>6, <2>7, <2>8, OneStored
<1>8. CASE TurnOff(c)
  BY <1>8 DEF TurnOff
<1>9. CASE DeleteCheckpoint(c)
  BY <1>9 DEF DeleteCheckpoint
<1>10. CASE MakeChild(c)
  BY <1>10 DEF MakeChild, At, Req, WellFormed, Creations
<1>11. CASE NewVM(c)
  <2>a. PICK i \in Ids : \E nics :
          vms' = [vms EXCEPT ![i] = [NoVM EXCEPT !.state = "Off", !.name = Req(c).name,
                    !.disks = {Req(c).disk}, !.nics = nics, !.built = "bare", !.checked = call[c].alone]]
    BY <1>11 DEF NewVM
  <2>1. PICK nics :
          vms' = [vms EXCEPT ![i] = [NoVM EXCEPT !.state = "Off", !.name = Req(c).name,
                    !.disks = {Req(c).disk}, !.nics = nics, !.built = "bare", !.checked = call[c].alone]]
    BY <2>a
  <2>2. Req(c).disk \in Paths /\ files' = [files EXCEPT ![Req(c).disk] = IF @ = NoFile THEN Root ELSE @]
        /\ mounted' \subseteq Paths
    BY <1>11 DEF NewVM, At, Req, WellFormed
  <2>3. files' \in [Paths -> Paths \cup {NoFile, Root}]
    BY <2>2
  <2>. DEFINE m == [NoVM EXCEPT !.state = "Off", !.name = Req(c).name, !.disks = {Req(c).disk},
                              !.nics = nics, !.built = "bare", !.checked = call[c].alone]
  <2>4. vms' = [vms EXCEPT ![i] = m]
    BY <2>1
  <2>5. m.state = "Off" /\ m.disks = {Req(c).disk} /\ m.snap = {} /\ m.layers = {}
    BY DEF NoVM
  <2>6. m.state \in Present \cup {"none"} /\ m.disks \subseteq Paths /\ m.snap \subseteq Paths
        /\ m.layers \subseteq m.disks
    BY <2>2, <2>5
  <2>. HIDE DEF m, MachinesFormed, Stored
  <2>. QED
    BY <2>2, <2>3, <2>4, <2>6, OneStored
<1>12. CASE Configure(c)
  BY <1>12 DEF Configure
<1>13. CASE BootDevices(c)
  BY <1>13 DEF BootDevices
<1>14. CASE RemoveVM(c)
  BY <1>14 DEF RemoveVM, Gone, NoVM
<1>15. CASE RemoveDisk(c)
  BY <1>15 DEF RemoveDisk
<1>16. CASE RenameVM(c)
  <2>1. ASSUME NEW i \in Ids
        PROVE  /\ vms'[i].state = vms[i].state /\ vms'[i].snap = vms[i].snap
               /\ vms'[i].disks = vms[i].disks /\ vms'[i].layers = vms[i].layers
    <3>1. vms'[i] = IF i \in Loc(c)
                    THEN [vms[i] EXCEPT !.name = Req(c).new,
                            !.checked = Req(c).op = "rename_vm" /\ call[c].alone /\ Loc(c) = {i}]
                    ELSE vms[i]
      BY <1>16 DEF RenameVM
    <3>2. DOMAIN vms[i] = MachineFields
      OBVIOUS
    <3>. HIDE DEF MachinesFormed, Stored
    <3>. QED
      BY <3>1, <3>2
  <2>2. UNCHANGED <<files, mounted>>
    BY <1>16 DEF RenameVM
  <2>3. \A i \in Ids : vms[i].disks \subseteq Paths /\ vms[i].layers \subseteq vms[i].disks
    OBVIOUS
  <2>. HIDE DEF MachinesFormed, Stored
  <2>. QED
    BY <2>1, <2>2, <2>3, LikeStored
<1>17. CASE ImportVM(c)
  <2>0. files' = files /\ mounted' = mounted
    BY <1>17 DEF ImportVM
  <2>1. ASSUME NEW e, NEW i,
               vms' = [vms EXCEPT ![i] = [NoVM EXCEPT !.state = "Off", !.name = e.name, !.gen = e.gen,
                          !.devs = e.devs, !.conf = e.conf, !.built = "whole", !.checked = FALSE]]
        PROVE  Stored'
    <3>. DEFINE m == [NoVM EXCEPT !.state = "Off", !.name = e.name, !.gen = e.gen,
                        !.devs = e.devs, !.conf = e.conf, !.built = "whole", !.checked = FALSE]
    <3>1. m.state = "Off" /\ m.disks = {} /\ m.snap = {} /\ m.layers = {}
      BY DEF NoVM
    <3>2. vms' = [vms EXCEPT ![i] = m]
      BY <2>1
    <3>3. files' \in [Paths -> Paths \cup {NoFile, Root}] /\ mounted' \subseteq Paths
      BY <2>0
    <3>4. m.state \in Present \cup {"none"} /\ m.disks \subseteq Paths /\ m.snap \subseteq Paths
          /\ m.layers \subseteq m.disks
      BY <3>1
    <3>. HIDE DEF m, MachinesFormed, Stored
    <3>. QED
      BY <3>2, <3>3, <3>4, OneStored
  <2>2. UNCHANGED vms => Stored'
    BY <2>0
  <2>. HIDE DEF MachinesFormed, Stored
  <2>. QED
    BY <1>17, <2>1, <2>2 DEF ImportVM
<1>18. CASE CreateVHD(c)
  BY <1>18 DEF CreateVHD, At, Req, WellFormed
<1>19. CASE ConvertVHD(c)
  BY <1>19 DEF ConvertVHD
<1>20. CASE AttachVHD(c)
  <2>1. Req(c).disk \in Paths
    BY <1>20 DEF AttachVHD, At, Req, WellFormed
  <2>. QED
    BY <1>20, <2>1 DEF AttachVHD
<1>21. CASE DetachVHD(c)
  <2>. DEFINE p == Req(c).disk
  <2>1. ASSUME NEW i \in Ids
        PROVE  /\ vms'[i].state = vms[i].state /\ vms'[i].snap = vms[i].snap
               /\ vms'[i].disks \subseteq Paths /\ vms'[i].layers \subseteq vms'[i].disks
    <3>1. vms'[i] = IF i \in Loc(c) THEN [vms[i] EXCEPT !.disks = @ \ {p}, !.layers = @ \ {p}] ELSE vms[i]
      BY <1>21 DEF DetachVHD
    <3>2. /\ DOMAIN vms[i] = MachineFields
          /\ vms[i].disks \subseteq Paths /\ vms[i].layers \subseteq vms[i].disks
      OBVIOUS
    <3>. HIDE DEF MachinesFormed, Stored, p
    <3>3. CASE i \in Loc(c)
      <4>1. /\ vms'[i].state = vms[i].state /\ vms'[i].snap = vms[i].snap
            /\ vms'[i].disks = vms[i].disks \ {p} /\ vms'[i].layers = vms[i].layers \ {p}
        BY <3>1, <3>2, <3>3
      <4>. QED
        BY <3>2, <4>1
    <3>4. CASE i \notin Loc(c)
      BY <3>1, <3>2, <3>4
    <3>. QED
      BY <3>3, <3>4
  <2>2. UNCHANGED <<files, mounted>>
    BY <1>21 DEF DetachVHD
  <2>. HIDE DEF MachinesFormed, Stored
  <2>. QED
    BY <2>1, <2>2, LikeStored
<1>22. CASE ClearSeedPath(c)
  BY <1>22 DEF ClearSeedPath
<1>23. CASE MakeSeedDisk(c)
  BY <1>23 DEF MakeSeedDisk
<1>24. CASE MountSeedDisk(c)
  BY <1>24 DEF MountSeedDisk, At, Req, WellFormed
<1>25. CASE WriteSeedDisk(c)
  BY <1>25 DEF WriteSeedDisk
<1>. QED
  BY <1>1, <1>2, <1>3, <1>4, <1>5, <1>6, <1>7, <1>8, <1>9, <1>10, <1>11, <1>12, <1>13, <1>14, <1>15,
     <1>16, <1>17, <1>18, <1>19, <1>20, <1>21, <1>22, <1>23, <1>24, <1>25 DEF Script

\* So do the tools that set what a machine has.
LEMMA OthersStore ==
  ASSUME MachinesFormed, Stored, NEW c \in Callers, Settings(c) \/ Networking(c)
  PROVE  Stored'
<1>. USE DEF MachinesFormed, MachineFields, Stored, storeVars, OnlyVMs
<1>0. ASSUME UNCHANGED <<files, mounted>>,
             \A i \in Ids : /\ vms'[i].state = vms[i].state /\ vms'[i].disks = vms[i].disks
                            /\ vms'[i].snap = vms[i].snap /\ vms'[i].layers = vms[i].layers
      PROVE  Stored'
  BY <1>0
<1>1. CASE \/ CheckNewSwitch(c) \/ NewSwitch(c) \/ FindSwitch(c) \/ ClearHostAddress(c) \/ SetHostAddress(c)
            \/ RemoveNAT(c) \/ NewNAT(c) \/ FindAdapter(c)
  BY <1>1 DEF CheckNewSwitch, NewSwitch, FindSwitch, ClearHostAddress, SetHostAddress,
     RemoveNAT, NewNAT, FindAdapter
<1>2. CASE FindForSetting(c)
  BY <1>2 DEF FindForSetting
<1>3. CASE ApplySetting(c)
  BY <1>0, <1>3 DEF ApplySetting
<1>4. CASE DeleteSwitch(c)
  BY <1>0, <1>4 DEF DeleteSwitch
<1>5. ASSUME NEW i, NEW nics, SetNics(i, nics), UNCHANGED <<files, mounted>>
      PROVE  Stored'
  BY <1>0, <1>5 DEF SetNics
<1>6. CASE AddAdapter(c)
  BY <1>5, <1>6 DEF AddAdapter
<1>7. CASE ConnectAdapter(c)
  BY <1>5, <1>7 DEF ConnectAdapter, Rewire
<1>8. CASE SetPort(c) \/ RemoveAdapter(c)
  BY <1>5, <1>8 DEF SetPort, RemoveAdapter, Rewire
<1>. QED
  BY <1>1, <1>2, <1>3, <1>4, <1>6, <1>7, <1>8 DEF Settings, Networking

\* And what happens meanwhile.
LEMMA HyperVStores ==
  ASSUME MachinesFormed, Stored, NEW i \in Ids, GuestShutsDown(i) \/ MergeEnds(i)
  PROVE  Stored'
<1>. USE DEF MachinesFormed, MachineFields, Stored
<1>1. CASE GuestShutsDown(i)
  BY <1>1 DEF GuestShutsDown, Become, OnlyVMs, Present
<1>2. CASE MergeEnds(i)
  <2>1. \A j \in Ids : /\ vms'[j].state = vms[j].state /\ vms'[j].snap \subseteq Paths
                       /\ vms'[j].disks \subseteq Paths /\ vms'[j].layers \subseteq vms'[j].disks
    BY <1>2 DEF MergeEnds
  <2>. QED
    BY <1>2, <2>1 DEF MergeEnds
<1>. QED
  BY <1>1, <1>2

\* Every step keeps them.
LEMMA StoredNext ==
  ASSUME MachinesFormed, Stored, Asked, [Next]_vars
  PROVE  Stored'
<1>1. UNCHANGED storeVars => Stored'
  BY DEF Stored, storeVars
<1>2. ASSUME NEW c \in Callers, Ask(c) \/ GetsSlot(c) \/ GivesUp(c)
      PROVE  UNCHANGED storeVars
  BY <1>2 DEF Ask, GetsSlot, GivesUp, OnlyTheCall
<1>3. ASSUME NEW c \in Callers, Works(c)
      PROVE  Stored'
  <2>1. CASE RunsScript(c) \/ RunsNetworkScript(c)
    BY <2>1, ScriptStores, OthersStore DEF RunsScript, RunsNetworkScript, Asked
  <2>2. CASE EndsRename(c) \/ MovesRecords(c) \/ Answers(c)
    BY <1>1, <2>2 DEF EndsRename, OnlyTheCall, MovesRecords, Answers
  <2>. QED
    BY <1>3, <2>1, <2>2 DEF Works
<1>4. CASE FilesRecord \/ UNCHANGED vars
  BY <1>1, <1>4 DEF FilesRecord, vars
<1>5. CASE Meanwhile
  BY <1>1, <1>5, HyperVStores DEF Meanwhile, CableMoves
<1>. QED
  BY <1>1, <1>2, <1>3, <1>4, <1>5 DEF Next

(***************************************************************************)
(* The disks that delete_vm removes.                                       *)
(***************************************************************************)
Sweeping(c) == At(c, {"delete_vm"}, "sweep") /\ call[c].alone

\* No disk is filed under another parent than before, though some may be gone.
OnlyRemoved == \A p \in Paths : files'[p] \in {files[p], NoFile}

(* The disks a deletion has yet to remove are not among those that were in use
   when it looked, nor the parents of any of these that Get-VHD could read. *)
Surveyed ==
  \A c \in Callers : Sweeping(c) =>
    /\ DOMAIN Loc(c) = {"left", "used", "read"}
    /\ \A d \in Loc(c).left \cap Paths, u \in Loc(c).used \cap Paths :
         u # d /\ (u \in Loc(c).read => files[u] # d)

\* What is done for a deletion.
LEMMA DeletionWorks ==
  ASSUME Shaped, NEW c \in Callers, Works(c), Req(c).op = "delete_vm"
  PROVE  \/ FindForDelete(c) \/ TurnOff(c) \/ RemoveVM(c) \/ Survey(c) \/ RemoveDisk(c)
         \/ EndScript(c) \/ ScriptDies(c)
         \/ Waits(c)
<1>. USE DEF At, Req
<1>1. CASE RunsScript(c)
  <2>1. ~Settings(c)
    BY DEF Settings, FindForSetting, ApplySetting, Setters
  <2>2. ~\E s, t : \/ LookUp(c, {"stop_vm", "restart_vm"}, s, t) \/ LookUp(c, {"suspend_vm"}, s, t)
                   \/ LookUp(c, {"resume_vm"}, s, t)
                   \/ LookUp(c, {"create_checkpoint", "attach_vhd", "export_vm"}, s, t)
    BY DEF LookUp
  <2>3. ~(\/ FindForStart(c) \/ StartVM(c) \/ StopVM(c) \/ PollForOff(c) \/ Suspend(c) \/ Resume(c)
          \/ ReportByName(c) \/ FindCheckpoint(c) \/ CreateCheckpoint(c) \/ RestoreCheckpoint(c)
          \/ DeleteCheckpoint(c) \/ AwaitMerge(c))
    BY DEF FindForStart, StartVM, StopVM, PollForOff, Suspend, Resume, ReportByName,
       FindCheckpoint, CreateCheckpoint, RestoreCheckpoint, DeleteCheckpoint, AwaitMerge
  <2>4. ~(\/ ReadParent(c) \/ MakeChild(c) \/ ChildMade(c) \/ CheckNewName(c) \/ NewVM(c)
          \/ Configure(c) \/ BootDevices(c) \/ FindForRename(c) \/ RenameVM(c)
          \/ ExportVM(c) \/ ImportVM(c))
    BY DEF ReadParent, MakeChild, ChildMade, CheckNewName, NewVM, Configure, BootDevices,
       FindForRename, RenameVM, ExportVM, ImportVM, Creations
  <2>5. ~(\/ CreateVHD(c) \/ ConvertVHD(c) \/ FindForResize(c) \/ ResizeVHD(c) \/ AttachVHD(c)
          \/ FindForDetach(c) \/ DetachVHD(c) \/ ClearSeedPath(c) \/ MakeSeedDisk(c)
          \/ MountSeedDisk(c) \/ WriteSeedDisk(c))
    BY DEF CreateVHD, ConvertVHD, FindForResize, ResizeVHD, AttachVHD, FindForDetach, DetachVHD,
       ClearSeedPath, MakeSeedDisk, MountSeedDisk, WriteSeedDisk
  <2>. QED
    BY <1>1, <2>1, <2>2, <2>3, <2>4, <2>5 DEF RunsScript, Script
<1>2. ~RunsNetworkScript(c)
  BY DEF RunsNetworkScript, Networking, CheckNewSwitch, NewSwitch, FindSwitch, DeleteSwitch,
     ClearHostAddress, SetHostAddress, RemoveNAT, NewNAT, FindAdapter, AddAdapter, ConnectAdapter,
     SetPort, RemoveAdapter
<1>3. ~EndsRename(c) /\ ~ReadAdapters(c)
  BY DEF EndsRename, RenameDone, ReadAdapters
<1>4. CASE MovesRecords(c) \/ Pick(c) \/ Diagnose(c)
  BY <1>4, WaitSteps DEF MovesRecords
<1>. QED
  BY <1>1, <1>2, <1>3, <1>4 DEF Works, Answers

\* The steps of a deletion at and around the removal of disks.
LEMMA SweepWorks ==
  ASSUME Shaped, NEW c \in Callers, Works(c), Req(c).op = "delete_vm"
  PROVE  /\ (Scripting(c)' /\ call'[c].pc = "sweep") => Survey(c) \/ RemoveDisk(c)
         /\ (Scripting(c) /\ call[c].pc = "sweep") => RemoveDisk(c) \/ Leaves(c)
<1>1. Scripting(c)' => ~Leaves(c) /\ ~Waits(c)
  BY DEF Leaves, Waits, Scripting
<1>2. EndScript(c) \/ ScriptDies(c) => Leaves(c)
  BY EndsLeave DEF EndScript, ScriptDies, Kill
<1>3. ASSUME NEW pc, NEW loc, Goto(c, pc, loc) \/ Effect(c, pc, loc)
      PROVE  call'[c].pc = pc
  BY <1>3, GotoLooks, EffectActs
<1>4. FindForDelete(c) => Leaves(c) \/ call'[c].pc \in {"remove", "turnoff"}
  BY <1>3, EndsLeave DEF FindForDelete
<1>5. TurnOff(c) => call'[c].pc \in {"remove", "restore"}
  BY <1>3 DEF TurnOff
<1>6. RemoveVM(c) => call'[c].pc \in {"survey", "end"}
  BY <1>3 DEF RemoveVM
<1>7. (Scripting(c) /\ call[c].pc = "sweep") =>
        ~(FindForDelete(c) \/ TurnOff(c) \/ RemoveVM(c) \/ Survey(c) \/ Waits(c))
  BY DEF FindForDelete, TurnOff, RemoveVM, Survey, At, Waits, Scripting
<1>. QED
  BY <1>1, <1>2, <1>4, <1>5, <1>6, <1>7, DeletionWorks

\* A deletion that nobody overtook goes on by itself, or nothing but merges and
\* the end of the service came in between.
LEMMA SweepSteps ==
  ASSUME Shaped, QueueOK, DOMAIN files = Paths, [Next]_vars, NEW d \in Callers, Sweeping(d)'
  PROVE  \/ (Survey(d) \/ RemoveDisk(d)) /\ call'[d].req = call[d].req /\ call'[d].alone = call[d].alone
         \/ Sweeping(d) /\ call'[d].loc = call[d].loc /\ OnlyRemoved
<1>1. Scripting(d)' /\ call'[d].pc = "sweep" /\ call'[d].alone /\ call'[d].req.op = "delete_vm"
  BY DEF Sweeping, At, Req
<1>2. CASE GoesOnItself(d)
  BY <1>1, <1>2, SweepWorks DEF GoesOnItself, Req
<1>3. CASE Stands(d)
  <2>1. (UNCHANGED HostVars \/ HyperVMovesAlone) => OnlyRemoved
    BY DEF HostVars, OnlyRemoved, HyperVMovesAlone, MergeEnds, GuestShutsDown, OnlyVMs
  <2>. QED
    BY <1>1, <1>3, <2>1 DEF Stands, Sweeping, At, Req
<1>. QED
  BY <1>1, <1>2, <1>3, ScriptMoves DEF Entries, Looking

\* What the look finds stands until the disks are removed.
LEMMA SurveyedNext ==
  ASSUME Shaped, QueueOK, Stored, Surveyed, [Next]_vars
  PROVE  Surveyed'
<1>. SUFFICES ASSUME NEW c \in Callers, Sweeping(c)'
              PROVE  /\ DOMAIN call'[c].loc = {"left", "used", "read"}
                     /\ \A d \in call'[c].loc.left \cap Paths, u \in call'[c].loc.used \cap Paths :
                          u # d /\ (u \in call'[c].loc.read => files'[u] # d)
  BY DEF Surveyed, Loc
<1>. USE PathsAssumption DEF Stored
<1>1. CASE Sweeping(c) /\ call'[c].loc = call[c].loc /\ OnlyRemoved
  BY <1>1 DEF Surveyed, OnlyRemoved, Loc
<1>2. CASE Survey(c)
  <2>1. /\ \E read : call'[c].loc = [left |-> Deletable(Loc(c), read), used |-> Attached, read |-> read]
        /\ UNCHANGED files
    BY <1>2 DEF Survey, Goto, Shaped, Fields, storeVars
  <2>. QED
    BY <2>1 DEF Deletable
<1>3. CASE RemoveDisk(c) /\ call'[c].req = call[c].req /\ call'[c].alone = call[c].alone
  <2>1. Sweeping(c)
    BY <1>3 DEF RemoveDisk, Sweeping
  <2>2. ~Goto(c, "end", {})
    BY GotoLooks DEF Sweeping, At
  <2>3. PICK e \in Loc(c).left :
          /\ \/ Goto(c, "sweep", [Loc(c) EXCEPT !.left = @ \ {e}])
             \/ Effect(c, "sweep", [Loc(c) EXCEPT !.left = @ \ {e}])
          /\ UNCHANGED files \/ files' = [files EXCEPT ![e] = NoFile]
    BY <1>3, <2>2 DEF RemoveDisk
  <2>4. call'[c].loc = [Loc(c) EXCEPT !.left = @ \ {e}]
    <3>1. ASSUME NEW loc, Goto(c, "sweep", loc)
          PROVE  call'[c].loc = loc
      BY <3>1 DEF Goto, Shaped, Fields
    <3>2. ASSUME NEW loc, Effect(c, "sweep", loc)
          PROVE  call'[c].loc = loc
      BY <3>2 DEF Effect, Shaped, Fields
    <3>. QED
      BY <2>3, <3>1, <3>2
  <2>5. /\ DOMAIN call'[c].loc = {"left", "used", "read"} /\ call'[c].loc.used = Loc(c).used
        /\ call'[c].loc.read = Loc(c).read /\ call'[c].loc.left \subseteq Loc(c).left
    BY <2>1, <2>4 DEF Surveyed
  <2>. QED
    BY <2>1, <2>3, <2>5 DEF Surveyed
<1>. QED
  BY <1>1, <1>2, <1>3, SweepSteps

\* Whoever removes a file while a deletion stays alone is that deletion, or Hyper-V.
LEMMA OnlySweepRemoves ==
  ASSUME Shaped, QueueOK, [Next]_vars, NEW c \in Callers, NEW d \in Paths, DOMAIN files = Paths, RemovedBy(c, d)
  PROVE  d \in Loc(c).left
<1>. USE DEF RemovedBy
<1>0. /\ Scripting(c) /\ call[c].pc = "sweep" /\ Req(c).op = "delete_vm" /\ call'[c] # call[c]
      /\ call'[c].alone /\ files'[d] # files[d]
  BY DEF At, Unused
<1>1. ~Nothing /\ ~HyperVMovesAlone
  BY <1>0 DEF Nothing, HyperVMovesAlone, MergeEnds, GuestShutsDown
<1>2. ~UNCHANGED HostVars
  BY <1>0 DEF HostVars
<1>3. ASSUME NEW e \in Callers, e # c, StepOf(e)
      PROVE  FALSE
  <2>1. ~Changes(e)
    BY <1>0, <1>3, OvertakenKeeps DEF Changes, Acts, OthersOvertaken
  <2>. QED
    BY <1>0, <1>2, <1>3, <2>1 DEF StepOf, Outcome, Quiet
<1>4. CASE StepOf(c)
  <2>1. Changes(c) /\ Works(c)
    BY <1>2, <1>4 DEF StepOf, Outcome, Quiet, CancelQueued, Changes, Scripting
  <2>2. CASE RemoveDisk(c)
    <3>1. \E e \in Loc(c).left : files' = [files EXCEPT ![e] = NoFile]
      BY <1>0, <2>2 DEF RemoveDisk
    <3>. QED
      BY <1>0, <3>1
  <2>3. ~Leaves(c)
    BY <2>1 DEF Changes, Acts, Same, Leaves, Scripting
  <2>. QED
    BY <1>0, <2>1, <2>2, <2>3, SweepWorks
<1>. QED
  BY <1>1, <1>2, <1>3, <1>4, Steps

SweepInv == NamesInv /\ Asked /\ Stored /\ Surveyed

\* The disks and what the scene has of them.
LEMMA InitStored == Init => Stored
<1>. SUFFICES ASSUME Init PROVE Stored
  OBVIOUS
<1>1. PICK s \in Scenes : vms = s.vms /\ files = s.files /\ mounted = {}
  BY DEF Init
<1>. QED
  BY <1>1, DisksAssumption DEF Stored

\* At first nothing is asked, let alone removed.
LEMMA InitSweep == Init => SweepInv
<1>. SUFFICES ASSUME Init PROVE SweepInv
  OBVIOUS
<1>1. call = [c \in Callers |-> Idle]
  BY DEF Init, RunnerInit
<1>2. Surveyed
  BY <1>1 DEF Surveyed, Sweeping, At, Scripting, Idle
<1>. QED
  BY <1>2, InitNames, InitAsked, InitStored DEF SweepInv

\* Every step keeps what a deletion goes by.
LEMMA SweepNext ==
  ASSUME SweepInv, [Next]_vars
  PROVE  SweepInv'
BY NamesNext, AskedNext, StoredNext, SurveyedNext DEF SweepInv, NamesInv

(* Whatever other calls, guests, merges and crashes do, delete_vm never removes
   a disk that a machine uses, or that a disk in use has for its parent, as long
   as no other script changed the host after it began, what is in use was in use
   when it looked, and Get-VHD could then read it (provision.go:206). *)
THEOREM DisksInUseAreSpared == Spec => DeleteSparesDisksInUse
<1>1. ASSUME SweepInv, [Next]_vars, NEW c \in Callers, NEW d \in Paths, RemovedBy(c, d),
             NEW u \in Attached \cap Loc(c).used
      PROVE  u # d /\ (u \in Loc(c).read => files[u] # d)
  <2>1. d \in Loc(c).left
    BY <1>1, OnlySweepRemoves DEF SweepInv, NamesInv, Stored
  <2>2. u \in Paths
    BY <1>1 DEF SweepInv, Stored, Attached
  <2>3. Sweeping(c)
    BY <1>1 DEF RemovedBy, Sweeping
  <2>. QED
    BY <1>1, <2>1, <2>2, <2>3 DEF SweepInv, Surveyed
<1>2. SweepInv /\ [Next]_vars =>
        [\A c \in Callers, d \in Paths : RemovedBy(c, d) =>
           \A u \in Attached \cap Loc(c).used :
             u # d /\ (u \in Loc(c).read => files[u] # d)]_files
  BY <1>1
<1>. QED
  BY InitSweep, SweepNext, <1>2, PTL DEF Spec, DeleteSparesDisksInUse

(***************************************************************************)
(* Types.                                                                  *)
(***************************************************************************)
Settable == DOMAIN DefaultConf

(* The cmdlets of a settings tool: each writes some of what a machine has. *)
Of(s, Sets) == s \in Seq(Sets) /\ \A set \in Sets : DOMAIN set \subseteq Settable
Plan(s) == \E Sets : Of(s, Sets)

LEMMA PlanNone == Plan(<<>>)
<1>1. Of(<<>>, {})
  BY DEF Of
<1>. QED
  BY <1>1 DEF Plan

LEMMA PlanOne ==
  ASSUME NEW one, DOMAIN one \subseteq Settable
  PROVE  Plan(<<one>>)
<1>1. Of(<<one>>, {one})
  BY DEF Of
<1>. QED
  BY <1>1 DEF Plan

LEMMA PlanBoth ==
  ASSUME NEW s, NEW t, Plan(s), Plan(t)
  PROVE  Plan(s \o t)
<1>1. PICK S, T : Of(s, S) /\ Of(t, T)
  BY DEF Plan
<1>2. Of(s, S \cup T) /\ Of(t, S \cup T)
  BY <1>1 DEF Of
<1>3. Of(s \o t, S \cup T)
  BY <1>2 DEF Of
<1>. QED
  BY <1>3 DEF Plan

LEMMA PlanRest ==
  ASSUME NEW s, Plan(s), s # <<>>
  PROVE  DOMAIN Head(s) \subseteq Settable /\ Plan(Tail(s))
<1>1. PICK S : Of(s, S)
  BY DEF Plan
<1>2. Head(s) \in S /\ Of(Tail(s), S)
  BY <1>1 DEF Of
<1>. QED
  BY <1>1, <1>2 DEF Plan, Of

\* Whatever a tool is given to set is among what machines have, and so is what its
\* cmdlets set.
LEMMA CmdletsPlanned ==
  ASSUME NEW r, NEW i, DOMAIN r.set \subseteq Settable, r.op # "set_vm_integration_services"
  PROVE  Plan(Cmdlets(r, i))
<1>1. \A f \in Settable : Plan(OneOf(r, f))
  BY PlanNone, PlanOne DEF OneOf, Given
<1>2. /\ \A f \in {"nested", "encrypt", "tpm", "boot", "secure", "numlock", "trunk", "kind"} : f \in Settable
      /\ {"dynamic", "protector"} \subseteq Settable
  BY DEF Settable, DefaultConf
<1>3. Plan(NestedCmdlets(r, i))
  BY <1>1, <1>2, PlanNone, PlanOne, PlanBoth DEF NestedCmdlets
<1>4. Plan(SecurityCmdlets(r, i))
  BY <1>1, <1>2, PlanNone, PlanOne, PlanBoth DEF SecurityCmdlets
<1>5. Plan(AdapterCmdlets(r))
  BY <1>1, <1>2, PlanNone, PlanOne, PlanBoth DEF AdapterCmdlets, Restrict
<1>6. Plan(FirmwareCmdlets(r, i))
  BY <1>1, <1>2, PlanNone, PlanOne, PlanBoth DEF FirmwareCmdlets
<1>7. Plan(VideoCmdlets(r))
  BY <1>2, PlanOne DEF VideoCmdlets, Over
<1>8. Plan(InOneCmdlet(r))
  BY PlanOne DEF InOneCmdlet
<1>. QED
  BY <1>3, <1>4, <1>5, <1>6, <1>7, <1>8 DEF Cmdlets

(* What a settings tool is about to write is among what machines have. *)
Writers == Setters \ {"set_vm_integration_services"}

\* All tools but one offer only to set what machines have.
LEMMA OffersSettable ==
  ASSUME NEW r, WellFormed(r), r.op \in Writers
  PROVE  DOMAIN r.set \subseteq Settable
<1>1. DOMAIN r.set \subseteq Offers[r.op] /\ r.op \in Writers
  BY DEF WellFormed, Writers
<1>2. \A op \in Writers : Offers[op] \subseteq Settable
  BY DEF Offers, Writers, Setters, Settable, DefaultConf
<1>. QED
  BY <1>1, <1>2

Planned ==
  \A c \in Callers : At(c, Writers, "apply") => DOMAIN Loc(c) = {"on", "todo"} /\ Plan(Loc(c).todo)
Configured == \A i \in Ids : DOMAIN vms[i].conf = Settable

(* An export has what its machine had. *)
ExportsFormed ==
  /\ \A e \in exports : DOMAIN e.conf = Settable
  /\ \A c \in Callers : At(c, {"export_vm"}, "act") => Loc(c) \subseteq Ids

\* A settings tool goes on with the rest of its cmdlets.
LEMMA PlannedNext ==
  ASSUME Shaped, QueueOK, Asked, Planned, [Next]_vars
  PROVE  Planned'
<1>. SUFFICES ASSUME NEW c \in Callers, At(c, Writers, "apply")'
              PROVE  DOMAIN call'[c].loc = {"on", "todo"} /\ Plan(call'[c].loc.todo)
  BY DEF Planned, Loc
<1>1. Scripting(c)' /\ call'[c].pc = "apply" /\ call'[c].req.op \in Writers
  BY DEF At, Req
<1>2. CASE Stands(c)
  BY <1>1, <1>2 DEF Stands, Planned, At, Req, Loc
<1>3. CASE GoesOnItself(c)
  <2>1. Req(c).op \in Writers /\ (FindForSetting(c) \/ ApplySetting(c)) /\ ~Throw(c)
    BY <1>1, <1>3, ToolWorks, EndsLeave DEF GoesOnItself, Req, Writers, Leaves, Scripting
  <2>2. ASSUME NEW pc, NEW loc, Goto(c, pc, loc) \/ Effect(c, pc, loc)
        PROVE  call'[c].pc = pc /\ call'[c].loc = loc
    BY <2>2 DEF Goto, Effect, Shaped, Fields
  <2>3. CASE FindForSetting(c)
    <3>1. PICK i \in Ids : Goto(c, "apply", [on |-> i, todo |-> Cmdlets(Req(c), i)])
      BY <2>1, <2>3 DEF FindForSetting, Named
    <3>2. call'[c].loc = [on |-> i, todo |-> Cmdlets(Req(c), i)]
      BY <2>2, <3>1
    <3>3. WellFormed(Req(c)) /\ DOMAIN Req(c).set \subseteq Settable
      BY <2>1, OffersSettable DEF Asked, Req
    <3>. QED
      BY <2>1, <3>2, <3>3, CmdletsPlanned DEF Writers
  <2>4. CASE ApplySetting(c)
    <3>1. At(c, Writers, "apply") /\ ~Goto(c, "end", {Loc(c).on})
      BY <1>1, <2>1, <2>2, <2>4 DEF ApplySetting, At
    <3>2. Loc(c).todo # <<>> /\ Effect(c, "apply", [on |-> Loc(c).on, todo |-> Tail(Loc(c).todo)])
      BY <2>1, <2>4, <3>1 DEF ApplySetting
    <3>3. call'[c].loc = [on |-> Loc(c).on, todo |-> Tail(Loc(c).todo)]
      BY <2>2, <3>2
    <3>. QED
      BY <3>1, <3>2, <3>3, PlanRest DEF Planned
  <2>. QED
    BY <2>1, <2>3, <2>4
<1>. QED
  BY <1>1, <1>2, <1>3, ScriptMoves DEF Entries, Looking

\* Only a settings tool writes what a machine has, and it writes what it planned.
LEMMA ScriptConfigures ==
  ASSUME MachinesFormed, Configured, ExportsFormed, NEW c \in Callers, Script(c)
  PROVE  Configured'
<1>. USE DEF MachinesFormed, MachineFields, Configured, Settable, storeVars, OnlyVMs, Become
<1>1. CASE \/ LookUp(c, {"stop_vm", "restart_vm"}, Present, "stop")
            \/ LookUp(c, {"suspend_vm"}, {"Running"}, "act")
            \/ LookUp(c, {"resume_vm"}, {"Running", "Paused", "Saved"}, "act")
            \/ LookUp(c, {"create_checkpoint", "attach_vhd", "export_vm"}, Present, "act")
  BY <1>1 DEF LookUp
<1>2. CASE \/ FindForStart(c) \/ PollForOff(c) \/ ReportByName(c) \/ FindCheckpoint(c) \/ RestoreCheckpoint(c)
            \/ AwaitMerge(c) \/ ReadParent(c) \/ MakeChild(c) \/ ChildMade(c) \/ CheckNewName(c)
            \/ FindForDelete(c) \/ Survey(c) \/ RemoveDisk(c) \/ FindForRename(c) \/ ExportVM(c)
            \/ CreateVHD(c) \/ ConvertVHD(c) \/ FindForResize(c) \/ ResizeVHD(c) \/ FindForDetach(c)
            \/ ClearSeedPath(c) \/ MakeSeedDisk(c) \/ MountSeedDisk(c) \/ WriteSeedDisk(c) \/ EndScript(c)
            \/ ScriptDies(c)
  BY <1>2 DEF FindForStart, PollForOff, ReportByName, FindCheckpoint, RestoreCheckpoint,
     AwaitMerge, ReadParent, MakeChild, ChildMade, CheckNewName, FindForDelete, Survey,
     RemoveDisk, FindForRename, ExportVM, CreateVHD, ConvertVHD, FindForResize, ResizeVHD,
     FindForDetach, ClearSeedPath, MakeSeedDisk, MountSeedDisk, WriteSeedDisk, EndScript,
     ScriptDies
<1>3. CASE StartVM(c) \/ StopVM(c) \/ Suspend(c) \/ Resume(c) \/ TurnOff(c)
  <2>1. CASE UNCHANGED vms
    BY <2>1
  <2>2. ASSUME NEW on, NEW s, Become(on, s)
        PROVE  Configured'
    BY <2>2
  <2>3. CASE StartVM(c)
    BY <2>1, <2>2, <2>3 DEF StartVM
  <2>4. CASE StopVM(c)
    BY <2>1, <2>2, <2>4 DEF StopVM
  <2>5. CASE Suspend(c)
    BY <2>2, <2>5 DEF Suspend
  <2>6. CASE Resume(c)
    BY <2>1, <2>2, <2>6 DEF Resume
  <2>7. CASE TurnOff(c)
    BY <2>2, <2>7 DEF TurnOff
  <2>. QED
    BY <1>3, <2>3, <2>4, <2>5, <2>6, <2>7
<1>4. CASE CreateCheckpoint(c)
  BY <1>4 DEF CreateCheckpoint
<1>5. CASE DeleteCheckpoint(c)
  BY <1>5 DEF DeleteCheckpoint
<1>6. CASE Configure(c) \/ BootDevices(c)
  BY <1>6 DEF Configure, BootDevices
<1>7. CASE RemoveVM(c)
  BY <1>7 DEF RemoveVM, Gone, NoVM
<1>8. CASE AttachVHD(c) \/ DetachVHD(c)
  <2>1. CASE AttachVHD(c)
    BY <2>1 DEF AttachVHD
  <2>2. CASE DetachVHD(c)
    BY <2>2 DEF DetachVHD
  <2>. QED
    BY <1>8, <2>1, <2>2
<1>9. CASE NewVM(c)
  <2>1. PICK i \in Ids : \E nics :
          vms' = [vms EXCEPT ![i] = [NoVM EXCEPT !.state = "Off", !.name = Req(c).name,
                    !.disks = {Req(c).disk}, !.nics = nics, !.built = "bare", !.checked = call[c].alone]]
    BY <1>9 DEF NewVM
  <2>. QED
    BY <2>1 DEF NoVM
<1>10. CASE RenameVM(c)
  BY <1>10 DEF RenameVM
<1>11. CASE ImportVM(c)
  <2>1. ASSUME NEW e \in exports, NEW i \in Ids,
               vms' = [vms EXCEPT ![i] = [NoVM EXCEPT !.state = "Off", !.name = e.name, !.gen = e.gen,
                          !.devs = e.devs, !.conf = e.conf, !.built = "whole", !.checked = FALSE]]
        PROVE  Configured'
    BY <2>1 DEF NoVM, ExportsFormed
  <2>. QED
    BY <1>11, <2>1 DEF ImportVM
<1>. QED
  BY <1>1, <1>2, <1>3, <1>4, <1>5, <1>6, <1>7, <1>8, <1>9, <1>10, <1>11 DEF Script

LEMMA OthersConfigure ==
  ASSUME MachinesFormed, Configured, Planned, NEW c \in Callers, Settings(c) \/ Networking(c)
  PROVE  Configured'
<1>. USE DEF MachinesFormed, MachineFields, Configured, storeVars
<1>1. CASE \/ CheckNewSwitch(c) \/ NewSwitch(c) \/ FindSwitch(c) \/ ClearHostAddress(c) \/ SetHostAddress(c)
            \/ RemoveNAT(c) \/ NewNAT(c) \/ FindAdapter(c) \/ FindForSetting(c)
  BY <1>1 DEF CheckNewSwitch, NewSwitch, FindSwitch, ClearHostAddress, SetHostAddress,
     RemoveNAT, NewNAT, FindAdapter, FindForSetting
<1>2. CASE ApplySetting(c)
  <2>. DEFINE i == Loc(c).on  set == Head(Loc(c).todo)  off == vms[i].state = "Off"
              new == Taken(vms[i].conf, set, off)
  <2>1. CASE UNCHANGED vms
    BY <2>1
  <2>2. CASE ~UNCHANGED vms
    <3>1. /\ At(c, Setters, "apply") /\ Loc(c).todo # <<>> /\ ~NotOffered(Req(c), set)
          /\ vms' = [vms EXCEPT ![i].conf = new]
      BY <1>2, <2>2 DEF ApplySetting
    <3>2. DOMAIN set \subseteq Settable
      <4>1. CASE Req(c).op = "set_vm_integration_services"
        BY <3>1, <4>1 DEF NotOffered, Settable
      <4>2. CASE Req(c).op # "set_vm_integration_services"
        BY <3>1, <4>2, PlanRest DEF Planned, Writers, At
      <4>. QED
        BY <4>1, <4>2
    <3>3. i \in Ids => DOMAIN new = Settable
      BY <3>2 DEF Taken, Over
    <3>. QED
      BY <3>1, <3>3
  <2>. QED
    BY <2>1, <2>2
<1>3. CASE DeleteSwitch(c)
  BY <1>3 DEF DeleteSwitch
<1>4. ASSUME NEW i, NEW nics, SetNics(i, nics)
      PROVE  Configured'
  BY <1>4 DEF SetNics
<1>5. CASE AddAdapter(c) \/ SetPort(c) \/ RemoveAdapter(c)
  BY <1>4, <1>5 DEF AddAdapter, SetPort, RemoveAdapter, Rewire
<1>6. CASE ConnectAdapter(c)
  BY <1>4, <1>6 DEF ConnectAdapter, Rewire
<1>. QED
  BY <1>1, <1>2, <1>3, <1>5, <1>6 DEF Settings, Networking

\* Every step keeps what machines have.
LEMMA ConfiguredNext ==
  ASSUME MachinesFormed, Configured, ExportsFormed, Planned, [Next]_vars
  PROVE  Configured'
<1>1. UNCHANGED vms => Configured'
  BY DEF Configured
<1>2. ASSUME NEW c \in Callers, Ask(c) \/ GetsSlot(c) \/ GivesUp(c)
      PROVE  UNCHANGED vms
  BY <1>2 DEF Ask, GetsSlot, GivesUp, OnlyTheCall, storeVars
<1>3. ASSUME NEW c \in Callers, Works(c)
      PROVE  Configured'
  <2>1. CASE RunsScript(c) \/ RunsNetworkScript(c)
    BY <2>1, ScriptConfigures, OthersConfigure DEF RunsScript, RunsNetworkScript
  <2>2. CASE EndsRename(c) \/ MovesRecords(c) \/ Answers(c)
    BY <1>1, <2>2 DEF EndsRename, OnlyTheCall, MovesRecords, Answers, storeVars
  <2>. QED
    BY <1>3, <2>1, <2>2 DEF Works
<1>4. CASE FilesRecord \/ UNCHANGED vars
  BY <1>1, <1>4 DEF FilesRecord, vars, storeVars
<1>5. ASSUME NEW i \in Ids, GuestShutsDown(i) \/ MergeEnds(i)
      PROVE  Configured'
  BY <1>5 DEF GuestShutsDown, MergeEnds, Become, Configured, MachinesFormed, MachineFields
<1>6. CASE Meanwhile
  BY <1>1, <1>5, <1>6 DEF Meanwhile, CableMoves, storeVars
<1>. QED
  BY <1>1, <1>2, <1>3, <1>4, <1>6 DEF Next

\* Only export_vm exports.
LEMMA ExportsCome ==
  ASSUME [Next]_vars
  PROVE  UNCHANGED exports \/ \E c \in Callers : ExportVM(c)
<1>. USE DEF storeVars, OnlyVMs
<1>1. ASSUME NEW c \in Callers, Script(c)
      PROVE  UNCHANGED exports \/ ExportVM(c)
  <2>1. CASE \/ LookUp(c, {"stop_vm", "restart_vm"}, Present, "stop")
              \/ LookUp(c, {"suspend_vm"}, {"Running"}, "act")
              \/ LookUp(c, {"resume_vm"}, {"Running", "Paused", "Saved"}, "act")
              \/ LookUp(c, {"create_checkpoint", "attach_vhd", "export_vm"}, Present, "act")
    BY <2>1 DEF LookUp
  <2>2. CASE \/ FindForStart(c) \/ PollForOff(c) \/ ReportByName(c) \/ FindCheckpoint(c) \/ RestoreCheckpoint(c)
              \/ AwaitMerge(c) \/ ReadParent(c) \/ MakeChild(c) \/ ChildMade(c) \/ CheckNewName(c)
              \/ FindForDelete(c) \/ Survey(c) \/ RemoveDisk(c) \/ FindForRename(c)
              \/ CreateVHD(c) \/ ConvertVHD(c) \/ FindForResize(c) \/ ResizeVHD(c) \/ FindForDetach(c)
              \/ ClearSeedPath(c) \/ MakeSeedDisk(c) \/ MountSeedDisk(c) \/ WriteSeedDisk(c) \/ EndScript(c)
              \/ ScriptDies(c)
    BY <2>2 DEF FindForStart, PollForOff, ReportByName, FindCheckpoint, RestoreCheckpoint,
       AwaitMerge, ReadParent, MakeChild, ChildMade, CheckNewName, FindForDelete, Survey,
       RemoveDisk, FindForRename, CreateVHD, ConvertVHD, FindForResize, ResizeVHD,
       FindForDetach, ClearSeedPath, MakeSeedDisk, MountSeedDisk, WriteSeedDisk, EndScript,
       ScriptDies
  <2>3. CASE \/ StartVM(c) \/ StopVM(c) \/ Suspend(c) \/ Resume(c) \/ TurnOff(c) \/ CreateCheckpoint(c)
              \/ DeleteCheckpoint(c) \/ Configure(c) \/ BootDevices(c) \/ RemoveVM(c) \/ AttachVHD(c)
              \/ DetachVHD(c) \/ NewVM(c) \/ RenameVM(c) \/ ImportVM(c) \/ ExportVM(c)
    BY <2>3 DEF StartVM, StopVM, Suspend, Resume, TurnOff, CreateCheckpoint, DeleteCheckpoint,
       Configure, BootDevices, RemoveVM, AttachVHD, DetachVHD, NewVM, RenameVM, ImportVM
  <2>. QED
    BY <1>1, <2>1, <2>2, <2>3 DEF Script
<1>2. ASSUME NEW c \in Callers, Settings(c) \/ Networking(c)
      PROVE  UNCHANGED exports
  <2>1. CASE Settings(c)
    BY <2>1 DEF Settings, FindForSetting, ApplySetting
  <2>2. CASE Networking(c)
    BY <2>2 DEF Networking, CheckNewSwitch, NewSwitch, FindSwitch, ClearHostAddress, SetHostAddress,
       RemoveNAT, NewNAT, FindAdapter, DeleteSwitch, AddAdapter, SetPort, RemoveAdapter, ConnectAdapter
  <2>. QED
    BY <1>2, <2>1, <2>2
<1>3. ASSUME NEW c \in Callers, Ask(c) \/ GetsSlot(c) \/ GivesUp(c) \/ Works(c)
      PROVE  UNCHANGED exports \/ ExportVM(c)
  BY <1>1, <1>2, <1>3 DEF Ask, GetsSlot, GivesUp, OnlyTheCall, Works, RunsScript, RunsNetworkScript,
     EndsRename, MovesRecords, Answers
<1>4. CASE FilesRecord \/ UNCHANGED vars
  BY <1>4 DEF FilesRecord, vars
<1>5. CASE Meanwhile
  BY <1>5 DEF Meanwhile, MergeEnds, GuestShutsDown, CableMoves
<1>. QED
  BY <1>3, <1>4, <1>5 DEF Next

LEMMA ExportsFormedNext ==
  ASSUME Shaped, QueueOK, Asked, Configured, ExportsFormed, [Next]_vars
  PROVE  ExportsFormed'
<1>1. \A e \in exports' : DOMAIN e.conf = Settable
  <2>1. ASSUME NEW c \in Callers, ExportVM(c)
        PROVE  \A e \in exports' : DOMAIN e.conf = Settable
    <3>1. PICK i \in Loc(c) : exports' = exports \cup {Exported(i, vms[i])}
      BY <2>1 DEF ExportVM
    <3>2. i \in Ids
      BY <2>1, <3>1 DEF ExportVM, ExportsFormed
    <3>3. Exported(i, vms[i]).conf = vms[i].conf
      BY DEF Exported
    <3>. QED
      BY <3>1, <3>2, <3>3 DEF ExportsFormed, Configured
  <2>. QED
    BY <2>1, ExportsCome DEF ExportsFormed
<1>2. ASSUME NEW c \in Callers, At(c, {"export_vm"}, "act")'
      PROVE  call'[c].loc \subseteq Ids
  <2>1. Scripting(c)' /\ call'[c].pc = "act" /\ call'[c].req.op = "export_vm"
    BY <1>2 DEF At, Req
  <2>2. CASE Stands(c)
    BY <2>1, <2>2 DEF Stands, ExportsFormed, At, Req, Loc
  <2>3. CASE GoesOnItself(c)
    <3>1. Req(c).op = "export_vm" /\ Works(c) /\ ~Throw(c)
      BY <2>1, <2>3, EndsLeave DEF GoesOnItself, Req, Leaves, Scripting
    <3>2. ASSUME NEW pc, NEW loc, Goto(c, pc, loc) \/ Effect(c, pc, loc)
          PROVE  call'[c].pc = pc /\ call'[c].loc = loc
      BY <3>2 DEF Goto, Effect, Shaped, Fields
    <3>3. ~ExportVM(c)
      BY <2>1, <3>2 DEF ExportVM
    <3>4. Goto(c, "act", Named(Req(c).name))
      BY <2>1, <3>1, <3>3, ToolWorks DEF LookUp
    <3>. QED
      BY <3>2, <3>4 DEF Named
  <2>4. ~TakeSlot(c)
    BY <2>1 DEF TakeSlot, QueueOK, Entry, Looking, Req, Shaped, Fields
  <2>. QED
    BY <2>1, <2>2, <2>3, <2>4, ScriptComes
<1>. QED
  BY <1>1, <1>2 DEF ExportsFormed, Loc

\* What a client is told, and whether its call is alone.
Told == \A c \in Callers : /\ call[c].told \in {"none", "ok", "refused", "failed"}
                           /\ call[c].alone \in BOOLEAN

LEMMA ToldNext ==
  ASSUME Shaped, Told, [Next]_vars
  PROVE  Told'
<1>. USE DEF Told
<1>0. ASSUME NEW d \in Callers
      PROVE  Overtaken(d).told = call[d].told /\ Overtaken(d).alone \in BOOLEAN
  BY DEF Overtaken, Shaped, Fields
<1>1. CASE Nothing \/ HyperVMovesAlone
  BY <1>1 DEF Nothing, HyperVMovesAlone, MergeEnds, GuestShutsDown
<1>2. CASE Overtake
  BY <1>0, <1>2 DEF Overtake
<1>3. CASE ServiceDies
  <2>1. ASSUME NEW d \in Callers
        PROVE  call'[d].told \in {call[d].told, "failed"} /\ call'[d].alone \in {call[d].alone, TRUE}
    BY <1>3 DEF ServiceDies, Shaped, Fields, Idle
  <2>. QED
    BY <2>1
<1>4. ASSUME NEW c \in Callers, TakeSlot(c) \/ Refuse(c)
      PROVE  Told'
  BY <1>4 DEF TakeSlot, Refuse, Shaped, Fields
<1>5. ASSUME NEW c \in Callers, NEW r \in todo, Submit(c, r, FirstStep(r.op))
      PROVE  Told'
  BY <1>5 DEF Submit, Shaped, Idle
<1>6. ASSUME NEW c \in Callers, Outcome(c)
      PROVE  Told'
  <2>1. call'[c].told \in {call[c].told, "ok", "refused", "failed"} /\ call'[c].alone \in {call[c].alone, TRUE}
    BY <1>6 DEF Outcome, Changes, Acts, Same, Quiet, GoesOn, Passes, Ends, SameSoFar
  <2>2. \A d \in Callers \ {c} : call'[d] = call[d] \/ call'[d] = Overtaken(d)
    BY <1>6 DEF Outcome, Changes, Acts, OthersOvertaken, Quiet, OthersStay
  <2>. QED
    BY <1>0, <2>1, <2>2
<1>. QED
  BY <1>1, <1>2, <1>3, <1>4, <1>5, <1>6, Steps DEF StepOf

TypesInv ==
  NamesInv /\ SlotsAreGivenBack /\ Clean /\ Told /\ Asked /\ Stored /\ Planned /\ Configured
  /\ ExportsFormed

LEMMA InitTypes == Init => TypesInv
<1>. SUFFICES ASSUME Init PROVE TypesInv
  OBVIOUS
<1>1. \A c \in Callers : call[c] = Idle
  BY DEF Init, RunnerInit
<1>2. ASSUME NEW c \in Callers
      PROVE  /\ call[c].st = "idle" /\ call[c].told = "none"
             /\ call[c].touched = FALSE /\ call[c].alone = TRUE
  <2>1. call[c] = Idle
    BY <1>1
  <2>2. Idle.st = "idle" /\ Idle.told = "none" /\ Idle.touched = FALSE /\ Idle.alone = TRUE
    BY DEF Idle
  <2>. QED
    BY <2>1, <2>2
<1>4. Clean /\ Told /\ Planned
  BY <1>2 DEF Clean, Stages, Told, Planned, At, Scripting
<1>5. ExportsFormed
  BY <1>2, BootAssumption DEF ExportsFormed, Init, Settable, At, Scripting
<1>3. Configured
  <2>1. PICK s \in Scenes : vms = s.vms
    BY DEF Init
  <2>. QED
    BY <2>1, DisksAssumption DEF Configured, Settable
<1>. QED
  BY <1>3, <1>4, <1>5, InitNames, InitSlots, InitAsked, InitStored DEF TypesInv, SlotsInv

LEMMA TypesNext ==
  ASSUME TypesInv, [Next]_vars
  PROVE  TypesInv'
<1>1. NamesInv' /\ SlotsAreGivenBack' /\ Clean'
  BY NamesNext, SlotsNext, CleanNext DEF TypesInv, NamesInv, SlotsInv
<1>2. Told' /\ Asked' /\ Stored' /\ Planned' /\ Configured' /\ ExportsFormed'
  BY ToldNext, AskedNext, StoredNext, PlannedNext, ConfiguredNext, ExportsFormedNext DEF TypesInv,
     NamesInv
<1>. QED
  BY <1>1, <1>2 DEF TypesInv

(* The calls, slots, machines and disk files of the host are always what they
   should be, whatever tools run; and what a settings tool writes on its way
   through its cmdlets is among what machines have (settings.go:997). *)
THEOREM TypeAlwaysOK == Spec => []TypeOK
<1>1. TypesInv => TypeOK
  <2>. SUFFICES ASSUME TypesInv PROVE TypeOK
    OBVIOUS
  <2>1. held \in Nat
    BY CallersAssumption, FS_Subset, FS_CardinalityType DEF TypesInv, SlotsAreGivenBack
  <2>2. StoreTypeOK
    BY DEF StoreTypeOK, TypesInv, NamesInv, MachinesFormed, MachineFields, NoVM, Stored,
       Configured, Settable
  <2>3. \A c \in Callers :
          /\ call[c].st \in {"idle", "queued", "running", "tail", "orphan"}
          /\ call[c].told \in {"none", "ok", "refused", "failed"}
          /\ call[c].touched \in BOOLEAN /\ call[c].alone \in BOOLEAN
    BY DEF TypesInv, Clean, Stages, Told
  <2>. QED
    BY <2>1, <2>2, <2>3 DEF TypeOK
<1>. QED
  BY <1>1, InitTypes, TypesNext, PTL DEF Spec

(***************************************************************************)
(* The adapters of machines, and the switches they are on.                 *)
(***************************************************************************)
NicFields == {"id", "name", "switch", "mac", "vlan", "checked"}
Connected == \A i \in Ids : \A a \in Nics(i) :
               a.switch # "none" => a.switch \in Switches /\ switches[a.switch] # "none"
Plugged ==
  /\ DOMAIN switches = Switches /\ \A i \in Ids : \A a \in Nics(i) : DOMAIN a = NicFields
  /\ Connected /\ AdapterNamesAreUnique

(* Nobody has overtaken the look that found no adapter of the name. *)
Adding(c) == At(c, {"set_vm_network"}, "add") /\ call[c].alone
AddsUnseen ==
  \A c \in Callers : Adding(c) => \A a \in Nics(Loc(c).on) : Loc(c).on \in Ids => a.name # NameOf(Req(c))

\* Machines that keep their adapters or lose some, over switches that stay.
LEMMA FewerNics ==
  ASSUME Plugged, UNCHANGED switches, \A i \in Ids : vms'[i].nics \subseteq vms[i].nics
  PROVE  Plugged'
BY DEF Plugged, Connected, AdapterNamesAreUnique, Nics

\* Adapters that keep their names, each on a switch there is or on none.
LEMMA SameNames ==
  ASSUME Plugged, UNCHANGED switches, MachinesFormed, NEW i \in Ids, NEW a \in Nics(i), NEW b,
         SetNics(i, (Nics(i) \ {a}) \cup {b}),
         DOMAIN b = NicFields, b.name = a.name, b.checked = a.checked,
         b.switch = a.switch \/ b.switch = "none" \/ (b.switch \in Switches /\ switches[b.switch] # "none")
  PROVE  Plugged'
<1>1. \A j \in Ids : vms'[j].nics = IF j = i THEN (Nics(i) \ {a}) \cup {b} ELSE vms[j].nics
  BY DEF SetNics, MachinesFormed, MachineFields
<1>2. DOMAIN switches' = Switches /\ \A j \in Ids : \A x \in vms'[j].nics : DOMAIN x = NicFields
  BY <1>1 DEF Plugged, Nics
<1>3. Connected'
  BY <1>1 DEF Plugged, Connected, Nics
<1>4. AdapterNamesAreUnique'
  BY <1>1 DEF Plugged, AdapterNamesAreUnique, Nics
<1>. QED
  BY <1>2, <1>3, <1>4 DEF Plugged, Nics

\* The scripts of machines, checkpoints and disks only make and remove whole
\* machines, a new one with one adapter.
LEMMA ScriptPlugs ==
  ASSUME MachinesFormed, Plugged, NEW c \in Callers, Script(c), UNCHANGED switches, WellFormed(call[c].req)
  PROVE  Plugged'
<1>. USE DEF MachinesFormed, MachineFields, storeVars, OnlyVMs
<1>0. (\A i \in Ids : vms'[i].nics \subseteq vms[i].nics) => Plugged'
  BY FewerNics
<1>1. CASE \/ LookUp(c, {"stop_vm", "restart_vm"}, Present, "stop")
            \/ LookUp(c, {"suspend_vm"}, {"Running"}, "act")
            \/ LookUp(c, {"resume_vm"}, {"Running", "Paused", "Saved"}, "act")
            \/ LookUp(c, {"create_checkpoint", "attach_vhd", "export_vm"}, Present, "act")
  BY <1>0, <1>1 DEF LookUp
<1>2. CASE \/ FindForStart(c) \/ PollForOff(c) \/ ReportByName(c) \/ FindCheckpoint(c) \/ RestoreCheckpoint(c)
            \/ AwaitMerge(c) \/ ReadParent(c) \/ MakeChild(c) \/ ChildMade(c) \/ CheckNewName(c)
            \/ FindForDelete(c) \/ Survey(c) \/ RemoveDisk(c) \/ FindForRename(c) \/ ExportVM(c)
            \/ CreateVHD(c) \/ ConvertVHD(c) \/ FindForResize(c) \/ ResizeVHD(c) \/ FindForDetach(c)
            \/ ClearSeedPath(c) \/ MakeSeedDisk(c) \/ MountSeedDisk(c) \/ WriteSeedDisk(c) \/ EndScript(c)
            \/ ScriptDies(c)
  BY <1>0, <1>2 DEF FindForStart, PollForOff, ReportByName, FindCheckpoint, RestoreCheckpoint,
     AwaitMerge, ReadParent, MakeChild, ChildMade, CheckNewName, FindForDelete, Survey,
     RemoveDisk, FindForRename, ExportVM, CreateVHD, ConvertVHD, FindForResize, ResizeVHD,
     FindForDetach, ClearSeedPath, MakeSeedDisk, MountSeedDisk, WriteSeedDisk, EndScript,
     ScriptDies
<1>3. CASE StartVM(c) \/ StopVM(c) \/ Suspend(c) \/ Resume(c) \/ TurnOff(c)
  <2>1. CASE UNCHANGED vms
    BY <1>0, <2>1
  <2>2. ASSUME NEW on, NEW s, Become(on, s)
        PROVE  Plugged'
    BY <1>0, <2>2 DEF Become
  <2>3. CASE StartVM(c)
    BY <2>1, <2>2, <2>3 DEF StartVM
  <2>4. CASE StopVM(c)
    BY <2>1, <2>2, <2>4 DEF StopVM
  <2>5. CASE Suspend(c)
    BY <2>2, <2>5 DEF Suspend
  <2>6. CASE Resume(c)
    BY <2>1, <2>2, <2>6 DEF Resume
  <2>7. CASE TurnOff(c)
    BY <2>2, <2>7 DEF TurnOff
  <2>. QED
    BY <1>3, <2>3, <2>4, <2>5, <2>6, <2>7
<1>4. CASE CreateCheckpoint(c)
  BY <1>0, <1>4 DEF CreateCheckpoint
<1>5. CASE DeleteCheckpoint(c)
  BY <1>0, <1>5 DEF DeleteCheckpoint
<1>6. CASE Configure(c)
  BY <1>0, <1>6 DEF Configure
<1>7. CASE BootDevices(c)
  BY <1>0, <1>7 DEF BootDevices
<1>8. CASE RemoveVM(c)
  BY <1>0, <1>8 DEF RemoveVM, Gone, NoVM
<1>9. CASE AttachVHD(c)
  BY <1>0, <1>9 DEF AttachVHD
<1>10. CASE DetachVHD(c)
  BY <1>0, <1>10 DEF DetachVHD
<1>11. CASE NewVM(c)
  <2>. DEFINE s == IF Req(c).switch = "" THEN "none" ELSE Req(c).switch
  <2>1. PICK i \in Ids, x \in NicIds :
          vms' = [vms EXCEPT ![i] = [NoVM EXCEPT !.state = "Off", !.name = Req(c).name,
                    !.disks = {Req(c).disk}, !.nics = {NewNic(x, DefaultNic, s, TRUE)},
                    !.built = "bare", !.checked = call[c].alone]]
    BY <1>11 DEF NewVM
  <2>2. s = "none" \/ (s \in Switches /\ switches[s] # "none")
    BY <1>11 DEF NewVM, At, Req, WellFormed
  <2>. HIDE DEF s
  <2>. DEFINE new == NewNic(x, DefaultNic, s, TRUE)
  <2>3. \A j \in Ids : vms'[j].nics = IF j = i THEN {new} ELSE vms[j].nics
    BY <2>1 DEF NoVM
  <2>4. DOMAIN new = NicFields /\ new.switch = s
    BY DEF NewNic, NicFields
  <2>. HIDE DEF new
  <2>5. Connected'
    BY <2>2, <2>3, <2>4 DEF Plugged, Connected, Nics
  <2>6. AdapterNamesAreUnique'
    BY <2>3 DEF Plugged, AdapterNamesAreUnique, Nics
  <2>7. \A j \in Ids : \A a \in vms'[j].nics : DOMAIN a = NicFields
    BY <2>3, <2>4 DEF Plugged, Nics
  <2>. QED
    BY <2>5, <2>6, <2>7 DEF Plugged, Nics
<1>12. CASE RenameVM(c)
  BY <1>0, <1>12 DEF RenameVM
<1>13. CASE ImportVM(c)
  <2>1. ASSUME NEW e \in exports, NEW i \in Ids,
               vms' = [vms EXCEPT ![i] = [NoVM EXCEPT !.state = "Off", !.name = e.name, !.gen = e.gen,
                          !.devs = e.devs, !.conf = e.conf, !.built = "whole", !.checked = FALSE]]
        PROVE  Plugged'
    BY <1>0, <2>1 DEF NoVM
  <2>. QED
    BY <1>0, <1>13, <2>1 DEF ImportVM
<1>. QED
  BY <1>1, <1>2, <1>3, <1>4, <1>5, <1>6, <1>7, <1>8, <1>9, <1>10, <1>11, <1>12, <1>13 DEF Script

\* The tools of settings and networks: an adapter is added only where none of the
\* name was seen, and a switch that goes leaves no adapter on it.
LEMMA OthersPlug ==
  ASSUME Shaped, MachinesFormed, Plugged, AddsUnseen, NEW c \in Callers,
         (Settings(c) /\ UNCHANGED switches) \/ Networking(c)
  PROVE  Plugged'
<1>. USE DEF storeVars, netVars, OnlyVMs
<1>0. ASSUME UNCHANGED switches, \A i \in Ids : vms'[i].nics \subseteq vms[i].nics
      PROVE  Plugged'
  BY <1>0, FewerNics
<1>1. CASE \/ CheckNewSwitch(c) \/ FindSwitch(c) \/ ClearHostAddress(c) \/ SetHostAddress(c)
            \/ RemoveNAT(c) \/ NewNAT(c) \/ FindAdapter(c)
  BY <1>0, <1>1 DEF CheckNewSwitch, FindSwitch, ClearHostAddress, SetHostAddress,
     RemoveNAT, NewNAT, FindAdapter
<1>2. CASE FindForSetting(c) /\ UNCHANGED switches
  BY <1>0, <1>2 DEF FindForSetting
<1>3. CASE ApplySetting(c) /\ UNCHANGED switches
  BY <1>0, <1>3 DEF ApplySetting, MachinesFormed, MachineFields
<1>4. CASE NewSwitch(c)
  <2>1. switches[Req(c).switch] = "none" /\ switches' = [switches EXCEPT ![Req(c).switch] = Req(c).type]
        /\ UNCHANGED vms
    BY <1>4 DEF NewSwitch
  <2>. QED
    BY <2>1 DEF Plugged, Connected, AdapterNamesAreUnique, Nics
<1>5. CASE DeleteSwitch(c)
  <2>. DEFINE s == Req(c).switch
              off(a) == IF a.switch = s THEN [a EXCEPT !.switch = "none"] ELSE a
  <2>1. /\ switches' = [switches EXCEPT ![s] = "none"]
        /\ vms' = [i \in Ids |-> [vms[i] EXCEPT !.nics = {off(a) : a \in @}]]
    BY <1>5 DEF DeleteSwitch
  <2>2. \A i \in Ids : vms'[i].nics = {off(a) : a \in vms[i].nics}
    BY <2>1 DEF MachinesFormed, MachineFields
  <2>3. \A i \in Ids : \A a \in vms[i].nics :
          /\ DOMAIN off(a) = NicFields /\ off(a).name = a.name /\ off(a).checked = a.checked
          /\ off(a).switch # "none" => off(a).switch = a.switch /\ a.switch # s
    BY DEF Plugged, Nics, NicFields
  <2>. HIDE DEF off
  <2>4. Connected'
    BY <2>1, <2>2, <2>3 DEF Plugged, Connected, Nics
  <2>5. AdapterNamesAreUnique'
    BY <2>2, <2>3 DEF Plugged, AdapterNamesAreUnique, Nics
  <2>6. DOMAIN switches' = Switches /\ \A i \in Ids : \A a \in vms'[i].nics : DOMAIN a = NicFields
    BY <2>1, <2>2, <2>3 DEF Plugged
  <2>. QED
    BY <2>4, <2>5, <2>6 DEF Plugged, Nics
<1>6. CASE AddAdapter(c)
  <2>. DEFINE i == Loc(c).on
  <2>1. PICK x \in NicIds : SetNics(i, Nics(i) \cup {NewNic(x, NameOf(Req(c)), "none", call[c].alone)})
    BY <1>6 DEF AddAdapter
  <2>. DEFINE new == NewNic(x, NameOf(Req(c)), "none", call[c].alone)
  <2>2. /\ DOMAIN new = NicFields /\ new.name = NameOf(Req(c)) /\ new.switch = "none"
        /\ new.checked = call[c].alone
    BY DEF NewNic, NicFields
  <2>. HIDE DEF new
  <2>3. \A j \in Ids : vms'[j].nics = IF j = i THEN Nics(i) \cup {new} ELSE vms[j].nics
    BY <2>1 DEF SetNics, MachinesFormed, MachineFields, new
  <2>4. (call[c].alone /\ i \in Ids) => \A a \in Nics(i) : a.name # new.name
    BY <1>6, <2>2 DEF AddAdapter, AddsUnseen, Adding
  <2>5. UNCHANGED switches
    BY <1>6 DEF AddAdapter
  <2>6. Connected'
    BY <2>2, <2>3, <2>5 DEF Plugged, Connected, Nics
  <2>7. AdapterNamesAreUnique'
    BY <2>2, <2>3, <2>4 DEF Plugged, AdapterNamesAreUnique, Nics
  <2>8. DOMAIN switches' = Switches /\ \A j \in Ids : \A a \in vms'[j].nics : DOMAIN a = NicFields
    BY <2>2, <2>3, <2>5 DEF Plugged, Nics
  <2>. QED
    BY <2>6, <2>7, <2>8 DEF Plugged, Nics
<1>7. HasNic(c) => TheNic(c) \in Nics(Loc(c).on)
  BY DEF HasNic, TheNic
<1>8. ASSUME HasNic(c), NEW b, Rewire(c, b), UNCHANGED switches,
             Loc(c).on \in Ids =>
               /\ DOMAIN b = NicFields /\ b.name = TheNic(c).name /\ b.checked = TheNic(c).checked
               /\ \/ b.switch = TheNic(c).switch \/ b.switch = "none"
                  \/ b.switch \in Switches /\ switches[b.switch] # "none"
      PROVE  Plugged'
  <2>1. CASE Loc(c).on \in Ids
    BY <1>7, <1>8, <2>1, SameNames DEF Rewire
  <2>2. CASE Loc(c).on \notin Ids
    BY <1>0, <1>8, <2>2 DEF Rewire, SetNics, MachinesFormed, MachineFields
  <2>. QED
    BY <2>1, <2>2
<1>9. (HasNic(c) /\ Loc(c).on \in Ids) => DOMAIN TheNic(c) = NicFields
  BY <1>7 DEF Plugged
<1>10. CASE ConnectAdapter(c)
  <2>1. HasNic(c) /\ UNCHANGED switches
    BY <1>10 DEF ConnectAdapter
  <2>2. CASE UNCHANGED vms
    BY <1>0, <2>1, <2>2
  <2>3. CASE ~UNCHANGED vms
    <3>. DEFINE s == Req(c).switch  to == IF s = "-" THEN "none" ELSE s
                b == [TheNic(c) EXCEPT !.switch = to]
    <3>1. (s = "-" \/ (s \in Switches /\ switches[s] # "none")) /\ Rewire(c, b)
      BY <1>10, <2>3 DEF ConnectAdapter
    <3>2. Loc(c).on \in Ids =>
            DOMAIN b = NicFields /\ b.name = TheNic(c).name /\ b.checked = TheNic(c).checked /\ b.switch = to
      BY <1>9, <2>1 DEF NicFields
    <3>3. to = "none" \/ (to \in Switches /\ switches[to] # "none")
      BY <3>1
    <3>. HIDE DEF b, to
    <3>. QED
      BY <1>8, <2>1, <3>1, <3>2, <3>3
  <2>. QED
    BY <2>2, <2>3
<1>11. CASE SetPort(c)
  <2>1. HasNic(c) /\ UNCHANGED switches
    BY <1>11 DEF SetPort
  <2>2. PICK mac, vlan : Rewire(c, [TheNic(c) EXCEPT !.mac = mac, !.vlan = vlan])
    BY <1>11 DEF SetPort
  <2>. DEFINE b == [TheNic(c) EXCEPT !.mac = mac, !.vlan = vlan]
  <2>3. Loc(c).on \in Ids =>
          /\ DOMAIN b = NicFields /\ b.name = TheNic(c).name /\ b.checked = TheNic(c).checked
          /\ b.switch = TheNic(c).switch
    BY <1>9, <2>1 DEF NicFields
  <2>. HIDE DEF b
  <2>. QED
    BY <1>8, <2>1, <2>2, <2>3 DEF b
<1>12. CASE RemoveAdapter(c)
  BY <1>0, <1>12 DEF RemoveAdapter, SetNics, Nics, MachinesFormed, MachineFields
<1>. QED
  BY <1>1, <1>2, <1>3, <1>4, <1>5, <1>6, <1>10, <1>11, <1>12 DEF Settings, Networking

\* Every step keeps adapters and switches together.
LEMMA PluggedNext ==
  ASSUME Shaped, MachinesFormed, Asked, Plugged, AddsUnseen, [Next]_vars
  PROVE  Plugged'
<1>1. (UNCHANGED switches /\ \A i \in Ids : vms'[i].nics \subseteq vms[i].nics) => Plugged'
  BY FewerNics
<1>2. ASSUME NEW c \in Callers, Ask(c) \/ GetsSlot(c) \/ GivesUp(c)
      PROVE  UNCHANGED <<vms, switches>>
  BY <1>2 DEF Ask, GetsSlot, GivesUp, OnlyTheCall, storeVars, netVars
<1>3. ASSUME NEW c \in Callers, Works(c)
      PROVE  Plugged'
  <2>1. CASE RunsScript(c)
    BY <1>3, <2>1, ScriptPlugs, OthersPlug DEF RunsScript, Asked, netVars
  <2>2. CASE RunsNetworkScript(c)
    BY <2>2, OthersPlug DEF RunsNetworkScript
  <2>3. CASE EndsRename(c) \/ MovesRecords(c) \/ Answers(c)
    BY <1>1, <2>3 DEF EndsRename, OnlyTheCall, MovesRecords, Answers, storeVars, netVars
  <2>. QED
    BY <1>3, <2>1, <2>2, <2>3 DEF Works
<1>4. CASE FilesRecord \/ UNCHANGED vars
  BY <1>1, <1>4 DEF FilesRecord, vars, storeVars, netVars
<1>5. ASSUME NEW i \in Ids, GuestShutsDown(i) \/ MergeEnds(i), UNCHANGED switches
      PROVE  Plugged'
  <2>1. \A j \in Ids : vms'[j].nics = vms[j].nics
    BY <1>5 DEF GuestShutsDown, MergeEnds, Become, MachinesFormed, MachineFields
  <2>. QED
    BY <1>1, <1>5, <2>1
<1>6. CASE Meanwhile
  BY <1>1, <1>5, <1>6 DEF Meanwhile, CableMoves, storeVars, netVars
<1>. QED
  BY <1>1, <1>2, <1>3, <1>4, <1>6 DEF Next

\* What brings set_vm_network to the addition of an adapter is its look.
LEMMA NetworkWorks ==
  ASSUME Shaped, NEW c \in Callers, Works(c), Req(c).op = "set_vm_network", Scripting(c)', call'[c].pc = "add"
  PROVE  FindAdapter(c)
<1>1. ~Throw(c)
  BY EndsLeave DEF Leaves, Scripting
<1>2. ASSUME NEW pc, NEW loc, Goto(c, pc, loc) \/ Effect(c, pc, loc)
      PROVE  pc = "add"
  BY <1>2, GotoLooks, EffectActs
<1>3. ~AddAdapter(c)
  BY <1>2 DEF AddAdapter
<1>4. ~ConnectAdapter(c) /\ ~SetPort(c)
  BY <1>1, <1>2 DEF ConnectAdapter, SetPort
<1>. QED
  BY <1>3, <1>4, ToolWorks

\* An addition that nobody overtook still sees no adapter of the name.
LEMMA UnseenNext ==
  ASSUME Shaped, QueueOK, MachinesFormed, AddsUnseen, [Next]_vars
  PROVE  AddsUnseen'
<1>. SUFFICES ASSUME NEW c \in Callers, Adding(c)', call'[c].loc.on \in Ids, NEW a \in vms'[call'[c].loc.on].nics
              PROVE  a.name # NameOf(call'[c].req)
  BY DEF AddsUnseen, Loc, Nics, Req
<1>1. Scripting(c)' /\ call'[c].pc = "add" /\ call'[c].alone /\ call'[c].req.op = "set_vm_network"
  BY DEF Adding, At, Req
<1>2. CASE Stands(c)
  <2>1. Adding(c) /\ Loc(c).on = call'[c].loc.on /\ Req(c) = call'[c].req
    BY <1>1, <1>2 DEF Stands, Adding, At, Req, Loc
  <2>2. UNCHANGED HostVars \/ HyperVMovesAlone
    BY <1>1, <1>2 DEF Stands
  <2>3. vms'[call'[c].loc.on].nics = vms[call'[c].loc.on].nics
    <3>1. CASE UNCHANGED HostVars
      BY <3>1 DEF HostVars
    <3>2. ASSUME NEW i \in Ids, MergeEnds(i) \/ GuestShutsDown(i)
          PROVE  \A j \in Ids : vms'[j].nics = vms[j].nics
      BY <3>2 DEF GuestShutsDown, MergeEnds, Become, MachinesFormed, MachineFields
    <3>. QED
      BY <2>2, <3>1, <3>2 DEF HyperVMovesAlone
  <2>. QED
    BY <2>1, <2>3 DEF AddsUnseen, Nics
<1>3. CASE GoesOnItself(c)
  <2>1. FindAdapter(c) /\ ~Throw(c)
    BY <1>1, <1>3, NetworkWorks, EndsLeave DEF GoesOnItself, Req, Leaves, Scripting
  <2>2. ASSUME NEW pc, NEW loc, Goto(c, pc, loc)
        PROVE  call'[c].pc = pc /\ call'[c].loc = loc
    BY <2>2 DEF Goto, Shaped, Fields
  <2>3. PICK i \in Ids : Meant(Req(c), Nics(i)) = {} /\ Goto(c, "add", [on |-> i, nic |-> 0])
    BY <1>1, <2>1, <2>2 DEF FindAdapter, Named
  <2>4. call'[c].loc.on = i /\ UNCHANGED vms
    BY <2>1, <2>2, <2>3 DEF FindAdapter, storeVars
  <2>5. call'[c].req = Req(c)
    BY <1>3 DEF GoesOnItself, Req
  <2>. QED
    BY <2>3, <2>4, <2>5 DEF Meant, NameOf, Nics
<1>. QED
  BY <1>1, <1>2, <1>3, ScriptMoves DEF Entries, Looking

AdaptersInv == NamesInv /\ Asked /\ Plugged /\ AddsUnseen

\* The adapters and switches of a scene, before anybody asks for more.
LEMMA InitAdapters == Init => AdaptersInv
<1>. SUFFICES ASSUME Init PROVE AdaptersInv
  OBVIOUS
<1>1. PICK s \in Scenes : vms = s.vms /\ switches = s.switches
  BY DEF Init
<1>2. Plugged
  BY <1>1, NicsAssumption DEF Plugged, Connected, AdapterNamesAreUnique, Nics, NicFields
<1>3. \A c \in Callers : call[c].st = "idle"
  BY DEF Init, RunnerInit, Idle
<1>4. AddsUnseen
  BY <1>3 DEF AddsUnseen, Adding, At, Scripting
<1>. QED
  BY <1>2, <1>4, InitNames, InitAsked DEF AdaptersInv

\* Every step keeps them.
LEMMA AdaptersNext ==
  ASSUME AdaptersInv, [Next]_vars
  PROVE  AdaptersInv'
BY NamesNext, AskedNext, PluggedNext, UnseenNext DEF AdaptersInv, NamesInv

(* However often and from wherever set_vm_network, create_vm and delete_switch
   are called at once, a machine has two adapters of a name only if one of them
   was added after a look somebody overtook, and none is on a switch that is gone
   (network.go:307, provision.go:136). *)
THEOREM AdaptersAlwaysSound == Spec => []AdaptersAreSound
<1>1. AdaptersInv => AdaptersAreSound
  BY DEF AdaptersInv, Plugged, Connected, AdaptersAreSound, AdaptersAreOnRealSwitches
<1>. QED
  BY <1>1, InitAdapters, AdaptersNext, PTL DEF Spec

(***************************************************************************)
(* What a call has achieved so far, as long as it is alone.                *)
(***************************************************************************)
AtLast(c) == call[c].pc \in {"end", "report", "stopped"}

\* The files of a merge aside, machines and disks are as they were.
Undisturbed ==
  /\ UNCHANGED <<exports, switches, bound, hostAddr, nats>>
  /\ \A j \in Ids :
       /\ vms'[j].name = vms[j].name /\ vms'[j].nics = vms[j].nics /\ vms'[j].conf = vms[j].conf
       /\ vms'[j].built = vms[j].built
       /\ \/ vms'[j].state = vms[j].state
          \/ vms[j].state \in {"Running", "Stopping"} /\ vms'[j].state = "Off"
       /\ vms'[j].merging => vms[j].merging
       /\ vms'[j].merging \/ ~vms[j].merging => vms'[j].snap = vms[j].snap /\ vms'[j].layers = vms[j].layers
       /\ vms[j].merging /\ ~vms'[j].merging => vms'[j].snap = {}
       /\ vms[j].disks \ vms[j].layers \subseteq vms'[j].disks \ vms'[j].layers
       /\ ~vms[j].merging => vms'[j].disks = vms[j].disks
  /\ \A p \in Paths : \/ files'[p] = files[p]
                      \/ files[p] \in Paths /\ \E j \in Ids : vms[j].merging /\ p \in vms[j].layers

\* A call enters its script, is left where it was, or goes on with it.
Enters(c) == Entry(call'[c].req, call'[c].pc)
Rests(c) ==
  /\ call'[c].req = call[c].req /\ call'[c].pc = call[c].pc /\ call'[c].loc = call[c].loc
  /\ Undisturbed
Goes(c) == Works(c) /\ call'[c].req = call[c].req
Comes(c) == Enters(c) \/ (Scripting(c) /\ (Rests(c) \/ Goes(c)))

\* Guests and merges disturb no more than that.
LEMMA MovesDisturbLittle ==
  ASSUME MachinesFormed, Stored, UNCHANGED HostVars \/ HyperVMovesAlone
  PROVE  Undisturbed
<1>. USE DEF MachinesFormed, MachineFields, Undisturbed
<1>1. CASE UNCHANGED HostVars
  BY <1>1 DEF HostVars
<1>2. ASSUME NEW i \in Ids, GuestShutsDown(i), UNCHANGED <<exports, switches, bound, hostAddr, nats>>
      PROVE  Undisturbed
  BY <1>2 DEF GuestShutsDown, Become, OnlyVMs
<1>3. ASSUME NEW i \in Ids, MergeEnds(i), UNCHANGED <<exports, switches, bound, hostAddr, nats>>
      PROVE  Undisturbed
  <2>1. /\ \A j \in Ids \ {i} : vms'[j] = vms[j]
        /\ vms[i].merging /\ ~vms'[i].merging /\ vms'[i].snap = {} /\ vms'[i].layers = {}
        /\ vms'[i].disks = (vms[i].disks \ vms[i].layers) \cup vms[i].snap
        /\ vms'[i].name = vms[i].name /\ vms'[i].nics = vms[i].nics /\ vms'[i].conf = vms[i].conf
        /\ vms'[i].built = vms[i].built /\ vms'[i].state = vms[i].state
    BY <1>3 DEF MergeEnds
  <2>2. \A p \in Paths : files'[p] = files[p] \/ (p \in vms[i].layers /\ files[p] \in Paths)
    BY <1>3 DEF MergeEnds, Stored
  <2>. QED
    BY <1>3, <2>1, <2>2
<1>. QED
  BY <1>1, <1>2, <1>3 DEF HyperVMovesAlone

\* How a call that is alone comes where it is.
LEMMA Comings ==
  ASSUME NamesInv, Stored, [Next]_vars, NEW c \in Callers, Scripting(c)', call'[c].alone
  PROVE  Enters(c) \/ (Scripting(c) /\ call[c].alone /\ (Rests(c) \/ Goes(c)))
<1>. USE DEF NamesInv
<1>1. CASE GoesOnItself(c)
  <2>1. Scripting(c)
    BY <1>1 DEF GoesOnItself, Outcome, Changes, Quiet, GoesOn, Passes, Ends, Scripting
  <2>. QED
    BY <1>1, <2>1 DEF GoesOnItself, Goes
<1>2. CASE Stands(c)
  BY <1>2, MovesDisturbLittle DEF Stands, Rests
<1>3. CASE TakeSlot(c)
  BY <1>3 DEF TakeSlot, QueueOK, Entry, Enters, Shaped, Fields, Req
<1>. QED
  BY <1>1, <1>2, <1>3, ScriptComes

\* Where a step of a script takes it.
LEMMA Places ==
  ASSUME Shaped, NEW c \in Callers, NEW pc, NEW loc, Goto(c, pc, loc) \/ Effect(c, pc, loc)
  PROVE  call'[c].pc = pc /\ call'[c].loc = loc
BY DEF Goto, Effect, Shaped, Fields

\* A call whose script goes on has not ended.
LEMMA NotEnded ==
  ASSUME Shaped, NEW c \in Callers, Scripting(c)'
  PROVE  ~Throw(c) /\ ~Fail(c) /\ ~Finish(c)
BY EndsLeave DEF Leaves, Scripting

PowerSoFar(c) ==
  /\ Req(c).op \in {"stop_vm", "restart_vm"} =>
       /\ call[c].pc \in {"stop", "poll"} => Loc(c) \subseteq Named(Req(c).name)
       /\ call[c].pc = "stopped" \/ (Req(c).op = "stop_vm" /\ AtLast(c)) =>
            Loc(c) \subseteq Ids /\ \A i \in Loc(c) : vms[i].state = "Off"
  /\ Req(c).op \in {"start_vm", "restart_vm", "resume_vm"} =>
       /\ call[c].pc = "starting" \/ (Req(c).op = "resume_vm" /\ call[c].pc = "act") => Loc(c) \subseteq Ids
       /\ AtLast(c) => Loc(c) \subseteq Ids /\ \A i \in Loc(c) : vms[i].state \in {"Running", "Off"}
  /\ Req(c).op = "suspend_vm" =>
       /\ call[c].pc = "act" => Loc(c) \subseteq Ids
       /\ AtLast(c) => Loc(c) \subseteq Ids /\ \A i \in Loc(c) : vms[i].state \in {"Paused", "Saved"}

\* The machines a power tool found are in the state it put them in, and stay so
\* but for a guest that shuts down.
LEMMA PowerKept ==
  ASSUME Shaped, MachinesFormed, NEW c \in Callers, Scripting(c)', Comes(c), Scripting(c) => PowerSoFar(c)
  PROVE  PowerSoFar(c)'
<1>. USE DEF PowerSoFar, AtLast, Req, Loc
<1>1. CASE Enters(c)
  BY <1>1 DEF Enters, Entry, Looking
<1>2. CASE Scripting(c) /\ Rests(c)
  BY <1>2 DEF Rests, Undisturbed, Named, Exists
<1>6. ASSUME Scripting(c), Goes(c), FindForStart(c) \/ StartVM(c)
      PROVE  PowerSoFar(c)'
  <2>. USE NotEnded, Places DEF MachinesFormed, MachineFields, Named, At
  <2>1. CASE FindForStart(c)
    BY <1>6, <2>1 DEF FindForStart, Goes
  <2>2. CASE StartVM(c)
    BY <1>6, <2>2 DEF StartVM, Goes, Become
  <2>. QED
    BY <1>6, <2>1, <2>2
<1>3. ASSUME Scripting(c), Goes(c), Req(c).op \in {"stop_vm", "restart_vm"}
      PROVE  PowerSoFar(c)'
  <2>. USE NotEnded, Places DEF MachinesFormed, MachineFields, Named, Exists, At
  <2>1. CASE LookUp(c, {"stop_vm", "restart_vm"}, Present, "stop")
    BY <1>3, <2>1 DEF LookUp, Goes, storeVars
  <2>2. CASE StopVM(c)
    <3>1. call[c].pc = "stop" /\ Loc(c) \subseteq Named(Req(c).name)
      BY <1>3, <2>2 DEF StopVM
    <3>2. ASSUME Goto(c, "stopped", Loc(c)), UNCHANGED vms, \A i \in Loc(c) : vms[i].state = "Off"
          PROVE  PowerSoFar(c)'
      BY <1>3, <3>1, <3>2 DEF Goes
    <3>3. ASSUME NEW on, on = {i \in Loc(c) : vms[i].state # "Off"}, Become(on, "Off"), Effect(c, "stopped", Loc(c))
          PROVE  PowerSoFar(c)'
      BY <1>3, <3>1, <3>3 DEF Goes, Become
    <3>4. ASSUME NEW on, on \subseteq Loc(c), Become(on, "Stopping"), Effect(c, "poll", Loc(c))
          PROVE  PowerSoFar(c)'
      BY <1>3, <3>1, <3>4 DEF Goes, Become
    <3>. QED
      BY <2>2, <3>2, <3>3, <3>4 DEF StopVM
  <2>3. CASE PollForOff(c)
    BY <1>3, <2>3 DEF PollForOff, Goes, storeVars
  <2>. QED
    BY <1>3, <1>6, <2>1, <2>2, <2>3, ToolWorks DEF Goes
<1>7. ASSUME Scripting(c), Goes(c), Req(c).op = "start_vm"
      PROVE  PowerSoFar(c)'
  BY <1>6, <1>7, ToolWorks DEF Goes
<1>8. ASSUME Scripting(c), Goes(c), Req(c).op = "resume_vm"
      PROVE  PowerSoFar(c)'
  <2>. USE NotEnded, Places DEF MachinesFormed, MachineFields, Named, At
  <2>1. CASE LookUp(c, {"resume_vm"}, {"Running", "Paused", "Saved"}, "act")
    BY <1>8, <2>1 DEF LookUp, Goes, storeVars
  <2>2. CASE Resume(c)
    BY <1>8, <2>2 DEF Resume, Goes, Become
  <2>. QED
    BY <1>8, <2>1, <2>2, ToolWorks DEF Goes
<1>4. ASSUME Scripting(c), Goes(c), Req(c).op = "suspend_vm"
      PROVE  PowerSoFar(c)'
  <2>. USE NotEnded, Places DEF MachinesFormed, MachineFields, Named, At
  <2>1. CASE LookUp(c, {"suspend_vm"}, {"Running"}, "act")
    BY <1>4, <2>1 DEF LookUp, Goes, storeVars
  <2>2. CASE Suspend(c)
    BY <1>4, <2>2 DEF Suspend, Goes, Become
  <2>. QED
    BY <1>4, <2>1, <2>2, ToolWorks DEF Goes
<1>5. CASE call'[c].req.op \notin {"start_vm", "stop_vm", "restart_vm", "suspend_vm", "resume_vm"}
  BY <1>5
<1>. QED
  BY <1>1, <1>2, <1>3, <1>4, <1>5, <1>7, <1>8 DEF Comes, Goes

CheckpointSoFar(c) ==
  /\ Req(c).op = "create_checkpoint" /\ AtLast(c) =>
       Loc(c) \subseteq Ids /\ \A i \in Loc(c) : HasCheckpoint(i)
  /\ Req(c).op = "apply_checkpoint" =>
       /\ call[c].pc \in {"turnoff", "restore"} => Loc(c) \subseteq Ids
       /\ AtLast(c) => Loc(c) \subseteq Ids /\ \A i \in Loc(c) : HasCheckpoint(i) /\ vms[i].state = "Off"
  /\ Req(c).op = "delete_checkpoint" =>
       /\ call[c].pc \in {"act", "merge"} => Loc(c) \subseteq Ids
       /\ call[c].pc = "merge" => \A i \in Loc(c) : vms[i].merging \/ vms[i].snap = {}
       /\ AtLast(c) => Loc(c) \subseteq Ids /\ \A i \in Loc(c) : vms[i].snap = {} /\ ~vms[i].merging

\* A checkpoint made or applied is there, one that is deleted is merging until it is gone.
LEMMA CheckpointKept ==
  ASSUME Shaped, MachinesFormed, NEW c \in Callers, Scripting(c)', Comes(c), Scripting(c) => CheckpointSoFar(c)
  PROVE  CheckpointSoFar(c)'
<1>. USE DEF CheckpointSoFar, AtLast, Req, Loc, HasCheckpoint
<1>1. CASE Enters(c)
  BY <1>1 DEF Enters, Entry, Looking
<1>2. CASE Scripting(c) /\ Rests(c)
  BY <1>2 DEF Rests, Undisturbed
<1>3. ASSUME Scripting(c), Goes(c), Req(c).op = "create_checkpoint"
      PROVE  CheckpointSoFar(c)'
  <2>. USE NotEnded, Places DEF MachinesFormed, MachineFields, Named, At
  <2>1. CASE LookUp(c, {"create_checkpoint", "attach_vhd", "export_vm"}, Present, "act")
    BY <1>3, <2>1 DEF LookUp, Goes
  <2>2. CASE CreateCheckpoint(c)
    <3>1. PICK i \in Ids : \E disks :
            /\ Loc(c) = {i} /\ ~vms[i].merging /\ vms[i].disks # {}
            /\ vms' = [vms EXCEPT ![i].snap = vms[i].disks, ![i].disks = disks, ![i].layers = disks]
      BY <2>2 DEF CreateCheckpoint
    <3>2. vms'[i].snap = vms[i].disks /\ vms'[i].merging = vms[i].merging
      BY <3>1
    <3>3. call'[c].loc = {i} /\ call'[c].req = call[c].req
      BY <1>3, <2>2, <3>1 DEF CreateCheckpoint, Goes
    <3>. QED
      BY <1>3, <3>1, <3>2, <3>3
  <2>. QED
    BY <1>3, <2>1, <2>2, ToolWorks DEF Goes
<1>4. ASSUME Scripting(c), Goes(c), Req(c).op = "delete_checkpoint"
      PROVE  CheckpointSoFar(c)'
  <2>. USE NotEnded, Places DEF MachinesFormed, MachineFields, Named, At
  <2>1. CASE FindCheckpoint(c)
    BY <1>4, <2>1 DEF FindCheckpoint, Goes
  <2>2. CASE DeleteCheckpoint(c)
    BY <1>4, <2>2 DEF DeleteCheckpoint, Goes
  <2>3. CASE AwaitMerge(c)
    BY <1>4, <2>3 DEF AwaitMerge, Goes, storeVars
  <2>. QED
    BY <1>4, <2>1, <2>2, <2>3, ToolWorks DEF Goes
<1>6. ASSUME Scripting(c), Goes(c), Req(c).op = "apply_checkpoint"
      PROVE  CheckpointSoFar(c)'
  <2>. USE NotEnded, Places DEF MachinesFormed, MachineFields, Named, At
  <2>1. CASE FindCheckpoint(c)
    BY <1>6, <2>1 DEF FindCheckpoint, Goes
  <2>2. CASE TurnOff(c)
    BY <1>6, <2>2 DEF TurnOff, Goes
  <2>3. CASE RestoreCheckpoint(c)
    BY <1>6, <2>3 DEF RestoreCheckpoint, Goes, storeVars
  <2>. QED
    BY <1>6, <2>1, <2>2, <2>3, ToolWorks DEF Goes
<1>5. CASE call'[c].req.op \notin {"create_checkpoint", "apply_checkpoint", "delete_checkpoint"}
  BY <1>5
<1>. QED
  BY <1>1, <1>2, <1>3, <1>4, <1>5, <1>6 DEF Comes, Goes

LifeSoFar(c) ==
  /\ Req(c).op \in Creations /\ (call[c].pc \in {"configure", "firmware"} \/ AtLast(c)) =>
       /\ Loc(c) \subseteq Ids /\ \A i \in Loc(c) : Req(c).disk \in vms[i].disks
       /\ ~Unused(Req(c).disk) /\ \A j \in Ids : vms[j].merging => Req(c).disk \notin vms[j].layers
       /\ AtLast(c) => \A i \in Loc(c) : vms[i].built = "whole"
  /\ Req(c).op = "delete_vm" =>
       /\ call[c].pc \in {"turnoff", "remove"} => Named(Req(c).name) \subseteq Loc(c)
       /\ call[c].pc \in {"survey", "sweep"} \/ AtLast(c) => Named(Req(c).name) = {}
  /\ Req(c).op = "import_vm" =>
       /\ call[c].pc = "rename" => Loc(c) \subseteq Ids
       /\ AtLast(c) => Loc(c) \subseteq Ids /\ \A i \in Loc(c) : vms[i].name = Req(c).new
  /\ Req(c).op = "export_vm" /\ AtLast(c) => \E e \in exports : e.id \in Loc(c)

\* A machine that is being made has its disk, and keeps it until it is whole; one
\* that is removed leaves none of its name; an import and an export are there.
LEMMA LifeKept ==
  ASSUME Shaped, MachinesFormed, Stored, Asked, NEW c \in Callers, Scripting(c)', Comes(c),
         Scripting(c) => LifeSoFar(c)
  PROVE  LifeSoFar(c)'
<1>. USE DEF LifeSoFar, AtLast, Req, Loc, Unused
<1>1. CASE Enters(c)
  BY <1>1 DEF Enters, Entry, Looking, Creations
<1>2. CASE Scripting(c) /\ Rests(c)
  <2>1. Req(c).op \in Creations => Req(c).disk \in Paths
    BY DEF Asked, WellFormed
  <2>2. \A j \in Ids : vms'[j].merging => vms[j].merging /\ vms'[j].layers = vms[j].layers
    BY <1>2 DEF Rests, Undisturbed
  <2>3. \A i \in Ids : (Req(c).disk \in vms[i].disks /\ (vms[i].merging => Req(c).disk \notin vms[i].layers))
          => Req(c).disk \in vms'[i].disks
    BY <1>2 DEF Rests, Undisturbed
  <2>4. (/\ Req(c).disk \in Paths /\ ~Unused(Req(c).disk)
         /\ \A j \in Ids : vms[j].merging => Req(c).disk \notin vms[j].layers)
           => files'[Req(c).disk] = files[Req(c).disk]
    BY <1>2 DEF Rests, Undisturbed
  <2>5. Named(Req(c).name)' = Named(Req(c).name)
    BY <1>2 DEF Rests, Undisturbed, Named, Exists
  <2>6. exports' = exports /\ \A i \in Ids : vms'[i].built = vms[i].built /\ vms'[i].name = vms[i].name
    BY <1>2 DEF Rests, Undisturbed
  <2>7. call'[c].req = call[c].req /\ call'[c].pc = call[c].pc /\ call'[c].loc = call[c].loc
    BY <1>2 DEF Rests
  <2>8. LifeSoFar(c)
    BY <1>2
  <2>. QED
    BY <2>1, <2>2, <2>3, <2>4, <2>5, <2>6, <2>7, <2>8
<1>3. ASSUME Scripting(c), Goes(c), Req(c).op \in Creations
      PROVE  LifeSoFar(c)'
  <2>. USE NotEnded, Places DEF MachinesFormed, MachineFields, At, storeVars
  <2>1. Req(c).disk \in Paths /\ call'[c].req = call[c].req
        /\ Req(c).op \notin {"delete_vm", "import_vm", "export_vm"}
    BY <1>3 DEF Asked, WellFormed, Goes, Creations
  <2>2. CASE ReadParent(c) \/ MakeChild(c) \/ ChildMade(c) \/ CheckNewName(c)
    <3>1. ~(ReadParent(c) \/ ChildMade(c))
      <4>1. \A pc \in Looking : ~ThenQueue(c, pc)
        BY <1>3, ThenLeaves DEF Leaves, Scripting
      <4>. QED
        BY <4>1 DEF ReadParent, ChildMade, Looking
    <3>2. call'[c].pc \in {"made", "new"}
      BY <2>2, <3>1 DEF MakeChild, CheckNewName
    <3>. QED
      BY <2>1, <3>2
  <2>3. CASE NewVM(c)
    <3>. DEFINE s == IF Req(c).switch = "" THEN "none" ELSE Req(c).switch
    <3>1. PICK i \in Ids, x \in NicIds :
            /\ vms' = [vms EXCEPT ![i] = [NoVM EXCEPT !.state = "Off", !.name = Req(c).name,
                         !.disks = {Req(c).disk}, !.nics = {NewNic(x, DefaultNic, s, TRUE)},
                         !.built = "bare", !.checked = call[c].alone]]
            /\ Effect(c, "configure", {i})
      BY <2>3 DEF NewVM
    <3>2. vms'[i].disks = {Req(c).disk} /\ vms'[i].merging = FALSE /\ \A j \in Ids \ {i} : vms'[j] = vms[j]
      BY <3>1 DEF NoVM
    <3>3. \A j \in Ids : vms[j].merging => Req(c).disk \notin vms[j].layers
      <4>1. ASSUME NEW j \in Ids, vms[j].merging
            PROVE  vms[j].layers \subseteq InMerge
        BY <4>1 DEF InMerge
      <4>. QED
        BY <2>3, <4>1 DEF NewVM
    <3>4. files'[Req(c).disk] # NoFile
      BY <2>1, <2>3, PathsAssumption DEF NewVM, Stored
    <3>5. call'[c].pc = "configure" /\ call'[c].loc = {i}
      BY <3>1
    <3>. QED
      BY <2>1, <3>2, <3>3, <3>4, <3>5
  <2>4. CASE Configure(c) \/ BootDevices(c)
    <3>1. \E b : vms' = [i \in Ids |-> IF i \in Loc(c) THEN [vms[i] EXCEPT !.built = b] ELSE vms[i]]
      BY <2>4 DEF Configure, BootDevices
    <3>2. \A i \in Ids : /\ vms'[i].disks = vms[i].disks /\ vms'[i].merging = vms[i].merging
                         /\ vms'[i].layers = vms[i].layers
      BY <3>1
    <3>3. call[c].pc \in {"configure", "firmware"} /\ call'[c].loc = Loc(c) /\ files' = files
      BY <2>4 DEF Configure, BootDevices, OnlyVMs
    <3>4. CASE Configure(c)
      <4>1. call'[c].pc = "firmware"
        BY <3>4 DEF Configure
      <4>. QED
        BY <1>3, <2>1, <3>2, <3>3, <4>1
    <3>5. CASE BootDevices(c)
      <4>1. \A i \in Loc(c) \cap Ids : vms'[i].built = "whole"
        BY <3>5 DEF BootDevices
      <4>. QED
        BY <1>3, <2>1, <3>2, <3>3, <4>1
    <3>. QED
      BY <2>4, <3>4, <3>5
  <2>. QED
    BY <1>3, <2>2, <2>3, <2>4, ToolWorks DEF Goes
<1>4. ASSUME Scripting(c), Goes(c), Req(c).op = "delete_vm"
      PROVE  LifeSoFar(c)'
  <2>. USE NotEnded, Places DEF MachinesFormed, MachineFields, At, storeVars, Named, Exists, StillThere
  <2>1. call'[c].req = call[c].req /\ Req(c).op = "delete_vm" /\ Req(c).op \notin Creations
    BY <1>4 DEF Goes, Creations
  <2>2. CASE FindForDelete(c)
    BY <2>1, <2>2 DEF FindForDelete
  <2>3. CASE TurnOff(c)
    BY <1>4, <2>1, <2>3 DEF TurnOff, Become
  <2>4. CASE RemoveVM(c)
    <3>1. Named(Req(c).name) \subseteq Loc(c)
      BY <1>4, <2>4 DEF RemoveVM
    <3>2. \A i \in Ids : vms'[i] = IF i \in Loc(c) THEN Gone(vms[i]) ELSE vms[i]
      BY <2>4 DEF RemoveVM
    <3>3. Named(Req(c).name)' = {}
      <4>1. \A i \in Ids : i \in Loc(c) => vms'[i].state = "none"
        <5>1. NoVM.state = "none"
          BY DEF NoVM
        <5>2. \A m : Gone(m).state = "none"
          BY <5>1 DEF Gone, NoVM
        <5>. QED
          BY <3>2, <5>2
      <4>2. \A i \in Ids : i \notin Loc(c) => vms'[i] = vms[i]
        BY <3>2
      <4>. QED
        BY <2>1, <3>1, <4>1, <4>2
    <3>4. call'[c].pc \in {"survey", "end"}
      BY <2>4 DEF RemoveVM
    <3>. QED
      BY <2>1, <3>3, <3>4
  <2>5. CASE Survey(c) \/ RemoveDisk(c)
    <3>1. call[c].pc \in {"survey", "sweep"} /\ UNCHANGED vms
      BY <2>5 DEF Survey, RemoveDisk
    <3>2. call'[c].pc \in {"sweep", "end"}
      BY <2>5 DEF Survey, RemoveDisk
    <3>. QED
      BY <1>4, <2>1, <3>1, <3>2
  <2>. QED
    BY <1>4, <2>2, <2>3, <2>4, <2>5, ToolWorks DEF Goes
<1>6. ASSUME Scripting(c), Goes(c), Req(c).op = "import_vm"
      PROVE  LifeSoFar(c)'
  <2>. USE NotEnded, Places DEF MachinesFormed, MachineFields, At
  <2>1. call'[c].req = call[c].req /\ Req(c).op = "import_vm" /\ Req(c).op \notin Creations
    BY <1>6 DEF Goes, Creations
  <2>2. CASE ImportVM(c)
    <3>1. PICK e \in exports, i \in Ids :
            /\ vms' = [vms EXCEPT ![i] = [NoVM EXCEPT !.state = "Off", !.name = e.name, !.gen = e.gen,
                          !.devs = e.devs, !.conf = e.conf, !.built = "whole", !.checked = FALSE]]
            /\ Effect(c, IF Req(c).new = e.name THEN "end" ELSE "rename", {i})
      BY <2>2 DEF ImportVM
    <3>2. vms'[i].name = e.name
      BY <3>1 DEF NoVM
    <3>3. /\ call'[c].pc = IF Req(c).new = e.name THEN "end" ELSE "rename"
          /\ call'[c].loc = {i}
      BY <3>1
    <3>. QED
      BY <2>1, <3>2, <3>3
  <2>3. CASE RenameVM(c)
    <3>1. ASSUME NEW i \in Ids, i \in Loc(c)
          PROVE  vms'[i].name = Req(c).new
      <4>1. vms'[i] = [vms[i] EXCEPT !.name = Req(c).new,
                         !.checked = Req(c).op = "rename_vm" /\ call[c].alone /\ Loc(c) = {i}]
        BY <2>3, <3>1 DEF RenameVM
      <4>2. DOMAIN vms[i] = MachineFields
        OBVIOUS
      <4>. HIDE DEF MachinesFormed
      <4>. QED
        BY <4>1, <4>2
    <3>2. call[c].pc = "rename" /\ call'[c].pc = "end" /\ call'[c].loc = Loc(c)
      BY <2>3 DEF RenameVM
    <3>. QED
      BY <1>6, <2>1, <3>1, <3>2
  <2>. QED
    BY <1>6, <2>2, <2>3, ToolWorks DEF Goes
<1>7. ASSUME Scripting(c), Goes(c), Req(c).op = "export_vm"
      PROVE  LifeSoFar(c)'
  <2>. USE NotEnded, Places DEF At
  <2>1. call'[c].req = call[c].req /\ Req(c).op = "export_vm" /\ Req(c).op \notin Creations
    BY <1>7 DEF Goes, Creations
  <2>2. CASE LookUp(c, {"create_checkpoint", "attach_vhd", "export_vm"}, Present, "act")
    BY <2>1, <2>2 DEF LookUp
  <2>3. CASE ExportVM(c)
    <3>1. PICK i \in Loc(c) : exports' = exports \cup {Exported(i, vms[i])}
      BY <2>3 DEF ExportVM
    <3>2. Exported(i, vms[i]).id = i
      BY DEF Exported
    <3>3. call'[c].loc = Loc(c)
      BY <2>3 DEF ExportVM
    <3>. QED
      BY <2>1, <3>1, <3>2, <3>3
  <2>. QED
    BY <1>7, <2>2, <2>3, ToolWorks DEF Goes
<1>5. CASE call'[c].req.op \notin Creations \cup {"delete_vm", "import_vm", "export_vm"}
  BY <1>5
<1>. QED
  BY <1>1, <1>2, <1>3, <1>4, <1>5, <1>6, <1>7 DEF Comes, Goes

DiskSoFar(c) ==
  /\ Req(c).op = "attach_vhd" =>
       /\ call[c].pc = "act" => Loc(c) \subseteq Ids
       /\ AtLast(c) => Loc(c) \subseteq Ids /\ \A i \in Loc(c) : Req(c).disk \in vms[i].disks \ vms[i].layers
  /\ Req(c).op = "create_seed_disk" =>
       (call[c].pc \in {"mount", "write"} \/ AtLast(c) => files[Req(c).disk] = Root)
  /\ Req(c).op = "convert_vhd" \/ (Req(c).op = "create_vhd" /\ Req(c).parent = Root) =>
       (AtLast(c) => files[Req(c).disk] = Root)

\* A disk attached stays with its machine, and a disk made of its own stays.
LEMMA DiskKept ==
  ASSUME Shaped, MachinesFormed, Stored, Asked, NEW c \in Callers, Scripting(c)', Comes(c),
         Scripting(c) => DiskSoFar(c)
  PROVE  DiskSoFar(c)'
<1>. USE DEF DiskSoFar, AtLast, Req, Loc
<1>1. CASE Enters(c)
  BY <1>1 DEF Enters, Entry, Looking
<1>2. CASE Scripting(c) /\ Rests(c)
  <2>1. Req(c).op \in {"create_seed_disk", "create_vhd", "convert_vhd"} => Req(c).disk \in Paths
    BY DEF Asked, WellFormed
  <2>2. Req(c).disk \in Paths /\ files[Req(c).disk] = Root => files'[Req(c).disk] = Root
    BY <1>2, PathsAssumption DEF Rests, Undisturbed
  <2>. QED
    BY <1>2, <2>1, <2>2 DEF Rests, Undisturbed
<1>3. ASSUME Scripting(c), Goes(c), Req(c).op = "attach_vhd"
      PROVE  DiskSoFar(c)'
  <2>. USE NotEnded, Places DEF MachinesFormed, MachineFields, Named, At
  <2>1. CASE LookUp(c, {"create_checkpoint", "attach_vhd", "export_vm"}, Present, "act")
    BY <1>3, <2>1 DEF LookUp, Goes
  <2>2. CASE AttachVHD(c)
    BY <1>3, <2>2 DEF AttachVHD, Goes, Stored
  <2>. QED
    BY <1>3, <2>1, <2>2, ToolWorks DEF Goes
<1>4. ASSUME Scripting(c), Goes(c), Req(c).op = "create_seed_disk"
      PROVE  DiskSoFar(c)'
  <2>. USE NotEnded, Places DEF At
  <2>1. Req(c).disk \in Paths /\ call'[c].req = call[c].req
    BY <1>4 DEF Asked, WellFormed, Goes
  <2>2. CASE ClearSeedPath(c)
    BY <1>4, <2>1, <2>2 DEF ClearSeedPath
  <2>3. CASE MakeSeedDisk(c)
    BY <1>4, <2>1, <2>3 DEF MakeSeedDisk, Stored
  <2>4. CASE MountSeedDisk(c)
    BY <1>4, <2>1, <2>4 DEF MountSeedDisk
  <2>5. CASE WriteSeedDisk(c)
    BY <1>4, <2>1, <2>5 DEF WriteSeedDisk
  <2>. QED
    BY <1>4, <2>2, <2>3, <2>4, <2>5, ToolWorks DEF Goes
<1>6. ASSUME Scripting(c), Goes(c), Req(c).op \in {"create_vhd", "convert_vhd"}
      PROVE  DiskSoFar(c)'
  <2>1. Req(c).disk \in Paths /\ call'[c].req = call[c].req
    BY <1>6 DEF Asked, WellFormed, Goes
  <2>2. \/ CreateVHD(c) /\ files' = [files EXCEPT ![Req(c).disk] = Req(c).parent] /\ Req(c).op = "create_vhd"
        \/ ConvertVHD(c) /\ files' = [files EXCEPT ![Req(c).disk] = Root] /\ Req(c).op = "convert_vhd"
    BY <1>6, ToolWorks DEF Goes, CreateVHD, ConvertVHD, At
  <2>. QED
    BY <2>1, <2>2 DEF Stored
<1>5. CASE call'[c].req.op \notin {"attach_vhd", "create_seed_disk", "create_vhd", "convert_vhd"}
  BY <1>5
<1>. QED
  BY <1>1, <1>2, <1>3, <1>4, <1>5, <1>6 DEF Comes, Goes

Filing == DOMAIN nats = Switches /\ DOMAIN switches = Switches

\* NATs and switches are filed by the names of switches.
LEMMA FilingNext ==
  ASSUME Filing, [Next]_vars
  PROVE  Filing'
<1>. USE DEF Filing, netVars
<1>1. ASSUME NEW c \in Callers, Networking(c)
      PROVE  Filing'
  BY <1>1 DEF Networking, CheckNewSwitch, NewSwitch, FindSwitch, DeleteSwitch,
     ClearHostAddress, SetHostAddress, RemoveNAT, NewNAT, FindAdapter, AddAdapter, ConnectAdapter,
     SetPort, RemoveAdapter
<1>2. ASSUME NEW c \in Callers, Ask(c) \/ GetsSlot(c) \/ GivesUp(c) \/ Works(c)
      PROVE  Filing'
  BY <1>1, <1>2 DEF Ask, GetsSlot, GivesUp, OnlyTheCall, Works, RunsScript, RunsNetworkScript,
     EndsRename, MovesRecords, Answers
<1>3. CASE FilesRecord \/ Meanwhile \/ UNCHANGED vars
  BY <1>3 DEF FilesRecord, Meanwhile, CableMoves, vars
<1>. QED
  BY <1>2, <1>3 DEF Next

Joins(c) == Req(c).op = "set_vm_network" /\ Req(c).switch \in Switches \ {"", "-"}
OnSwitch(s, i) == \E a \in Nics(i) : a.switch = s

NetworkSoFar(c) ==
  /\ Joins(c) =>
       /\ call[c].pc \in {"add", "connect", "port"} => DOMAIN Loc(c) = {"on", "nic"} /\ Loc(c).on \in Ids
       /\ call[c].pc = "port" => OnSwitch(Req(c).switch, Loc(c).on)
       /\ AtLast(c) => Loc(c) \subseteq Ids /\ \A i \in Loc(c) : OnSwitch(Req(c).switch, i)
  /\ Req(c).op = "create_switch" /\ AtLast(c) => switches[Req(c).switch] = Req(c).type
  /\ Req(c).op = "delete_switch" /\ AtLast(c) => switches[Req(c).switch] = "none"
  /\ Req(c).op = "set_switch_nat" =>
       /\ call[c].pc = "make" => Req(c).enable
       /\ AtLast(c) => nats[Req(c).switch] = IF Req(c).enable THEN {Req(c).prefix} ELSE {}
  /\ Req(c).op = "set_switch_host_address" =>
       /\ call[c].pc = "make" => ~Req(c).remove
       /\ AtLast(c) => (Req(c).switch \in hostAddr <=> ~Req(c).remove)

\* What the look at a machine's adapters passes on.
LEMMA TwoFields ==
  ASSUME NEW loc, NEW i, NEW x, loc = [on |-> i, nic |-> x]
  PROVE  DOMAIN loc = {"on", "nic"} /\ loc.on = i
OBVIOUS

\* An adapter that is rewired is the new one, among the others.
LEMMA Rewired ==
  ASSUME MachinesFormed, NEW c \in Callers, Loc(c).on \in Ids, HasNic(c), NEW b, Rewire(c, b)
  PROVE  /\ TheNic(c) \in Nics(Loc(c).on)
         /\ vms'[Loc(c).on].nics = (Nics(Loc(c).on) \ {TheNic(c)}) \cup {b}
BY DEF HasNic, TheNic, Rewire, SetNics, MachinesFormed, MachineFields

\* The adapter is on the switch asked for, the NAT and the address are as asked.
LEMMA NetworkKept ==
  ASSUME Shaped, MachinesFormed, Asked, Filing, Plugged, NEW c \in Callers, Scripting(c)', Comes(c),
         Scripting(c) => NetworkSoFar(c)
  PROVE  NetworkSoFar(c)'
<1>. USE DEF NetworkSoFar, Joins, OnSwitch, AtLast, Req, Loc, Nics
<1>1. CASE Enters(c)
  BY <1>1 DEF Enters, Entry, Looking
<1>2. CASE Scripting(c) /\ Rests(c)
  <2>1. /\ \A i \in Ids : vms'[i].nics = vms[i].nics
        /\ nats' = nats /\ hostAddr' = hostAddr /\ switches' = switches
    BY <1>2 DEF Rests, Undisturbed
  <2>2. call'[c].req = call[c].req /\ call'[c].pc = call[c].pc /\ call'[c].loc = call[c].loc
    BY <1>2 DEF Rests
  <2>3. NetworkSoFar(c)
    BY <1>2
  <2>4. Req(c)' = Req(c) /\ Loc(c)' = Loc(c) /\ AtLast(c)' = AtLast(c) /\ Joins(c)' = Joins(c)
    BY <2>2
  <2>5. \A i \in Ids : \A s : OnSwitch(s, i)' <=> OnSwitch(s, i)
    BY <2>1
  <2>. HIDE DEF Joins, OnSwitch, AtLast, Req, Loc, Nics
  <2>. QED
    BY <2>1, <2>2, <2>3, <2>4, <2>5
<1>3. ASSUME Scripting(c), Goes(c), Joins(c)
      PROVE  NetworkSoFar(c)'
  <2>. USE NotEnded, Places DEF At
  <2>1. call'[c].req = call[c].req /\ Req(c).op = "set_vm_network" /\ Req(c).switch \in Switches \ {"", "-"}
    BY <1>3 DEF Goes
  <2>2. CASE FindAdapter(c)
    <3>1. PICK i \in Ids : \/ Goto(c, "connect", [on |-> i, nic |-> Oldest(Meant(Req(c), Nics(i))).id])
                           \/ Goto(c, "add", [on |-> i, nic |-> 0])
      BY <2>2 DEF FindAdapter, Named
    <3>2. call'[c].pc \in {"connect", "add"} /\ DOMAIN call'[c].loc = {"on", "nic"} /\ call'[c].loc.on = i
      <4>1. PICK x : call'[c].loc = [on |-> i, nic |-> x]
        BY <3>1
      <4>2. call'[c].pc \in {"connect", "add"}
        BY <3>1
      <4>3. DOMAIN call'[c].loc = {"on", "nic"} /\ call'[c].loc.on = i
        <5>. DEFINE loc == call'[c].loc
        <5>1. loc = [on |-> i, nic |-> x]
          BY <4>1
        <5>. HIDE NotEnded, Places DEF loc, NetworkSoFar, Joins, OnSwitch, AtLast, Req, Loc, Nics, At
        <5>2. DOMAIN loc = {"on", "nic"} /\ loc.on = i
          BY <5>1, TwoFields
        <5>. QED
          BY <5>2 DEF loc
      <4>. QED
        BY <4>2, <4>3
    <3>3. call'[c].pc \notin {"port", "end", "report", "stopped"}
      BY <3>2
    <3>. HIDE NotEnded, Places DEF OnSwitch, Nics, At
    <3>. QED
      BY <2>1, <3>2, <3>3
  <2>3. CASE AddAdapter(c)
    <3>1. PICK x : Effect(c, "connect", [Loc(c) EXCEPT !.nic = x])
      BY <2>3 DEF AddAdapter
    <3>2. call[c].pc = "add"
      BY <2>3 DEF AddAdapter
    <3>4. DOMAIN call[c].loc = {"on", "nic"} /\ call[c].loc.on \in Ids
      BY <1>3, <3>2
    <3>5. call'[c].loc = [call[c].loc EXCEPT !.nic = x] /\ call'[c].pc = "connect"
      BY <3>1
    <3>3. DOMAIN call'[c].loc = {"on", "nic"} /\ call'[c].loc.on = call[c].loc.on
      <4>. HIDE NotEnded, Places DEF NetworkSoFar, Joins, OnSwitch, AtLast, Req, Loc, Nics, At
      <4>. QED
        BY <3>4, <3>5
    <3>. HIDE NotEnded, Places DEF OnSwitch, Nics, At
    <3>. QED
      BY <2>1, <3>3, <3>4, <3>5
  <2>4. CASE ConnectAdapter(c)
    <3>1. call[c].pc = "connect" /\ HasNic(c) /\ DOMAIN Loc(c) = {"on", "nic"} /\ Loc(c).on \in Ids
      BY <1>3, <2>4 DEF ConnectAdapter
    <3>. DEFINE b == [TheNic(c) EXCEPT !.switch = Req(c).switch]
    <3>2. Rewire(c, b) /\ Effect(c, "port", Loc(c))
      BY <2>1, <2>4 DEF ConnectAdapter
    <3>4. b.switch = Req(c).switch
      <4>1. DOMAIN TheNic(c) = NicFields
        BY <3>1, <3>2, Rewired DEF Plugged
      <4>. QED
        BY <4>1 DEF NicFields
    <3>5. call'[c].pc = "port" /\ call'[c].loc = Loc(c)
      BY <3>2
    <3>3. vms'[Loc(c).on].nics = (Nics(Loc(c).on) \ {TheNic(c)}) \cup {b}
      BY <3>1, <3>2, Rewired
    <3>6. Loc(c).on \in Ids /\ OnSwitch(Req(c).switch, Loc(c).on)'
      <4>. HIDE NotEnded, Places DEF b, NetworkSoFar, Joins, AtLast, At
      <4>. QED
        BY <2>1, <3>1, <3>3, <3>4, <3>5
    <3>. HIDE NotEnded, Places DEF b, OnSwitch, Nics, At
    <3>. QED
      BY <2>1, <3>1, <3>5, <3>6
  <2>5. CASE SetPort(c)
    <3>1. call[c].pc = "port" /\ HasNic(c) /\ Loc(c).on \in Ids /\ OnSwitch(Req(c).switch, Loc(c).on)
      BY <1>3, <2>5 DEF SetPort
    <3>2. PICK mac, vlan : /\ Rewire(c, [TheNic(c) EXCEPT !.mac = mac, !.vlan = vlan])
                           /\ Effect(c, "end", {Loc(c).on})
      BY <2>5 DEF SetPort
    <3>. DEFINE b == [TheNic(c) EXCEPT !.mac = mac, !.vlan = vlan]
    <3>3. TheNic(c) \in Nics(Loc(c).on) /\ vms'[Loc(c).on].nics = (Nics(Loc(c).on) \ {TheNic(c)}) \cup {b}
      BY <3>1, <3>2, Rewired
    <3>4. b.switch = TheNic(c).switch
      <4>1. DOMAIN TheNic(c) = NicFields
        BY <3>1, <3>3 DEF Plugged
      <4>. QED
        BY <4>1 DEF NicFields
    <3>5. call'[c].pc = "end" /\ call'[c].loc = {Loc(c).on}
      BY <3>2
    <3>. HIDE DEF b
    <3>6. \E a \in vms'[Loc(c).on].nics : a.switch = Req(c).switch
      BY <3>1, <3>3, <3>4
    <3>8. \A i \in call'[c].loc : i \in Ids /\ OnSwitch(Req(c).switch, i)'
      BY <2>1, <3>1, <3>5, <3>6
    <3>. HIDE NotEnded, Places DEF OnSwitch, Nics, At
    <3>. QED
      BY <2>1, <3>5, <3>8
  <2>. QED
    BY <1>3, <2>1, <2>2, <2>3, <2>4, <2>5, ToolWorks DEF Goes
<1>4. ASSUME Scripting(c), Goes(c), Req(c).op = "set_switch_nat"
      PROVE  NetworkSoFar(c)'
  <2>. USE NotEnded, Places DEF At
  <2>1. Req(c).switch \in Switches /\ call'[c].req = call[c].req
    BY <1>4 DEF Asked, WellFormed, Goes
  <2>2. CASE RemoveNAT(c)
    <3>. DEFINE to == IF Req(c).enable THEN "make" ELSE "end"
    <3>1. /\ Goto(c, to, {}) \/ Effect(c, to, {})
          /\ (UNCHANGED nats /\ nats[Req(c).switch] = {}) \/ nats' = [nats EXCEPT ![Req(c).switch] = {}]
      BY <2>2 DEF RemoveNAT
    <3>2. nats'[Req(c).switch] = {}
      BY <2>1, <3>1 DEF Filing
    <3>3. call'[c].pc = to
      BY <3>1
    <3>. QED
      BY <1>4, <2>1, <3>2, <3>3
  <2>3. CASE NewNAT(c)
    <3>1. call[c].pc = "make" /\ nats' = [nats EXCEPT ![Req(c).switch] = {Req(c).prefix}]
          /\ Effect(c, "end", {})
      BY <2>3 DEF NewNAT
    <3>2. Req(c).enable
      BY <1>4, <3>1
    <3>3. nats'[Req(c).switch] = {Req(c).prefix}
      BY <2>1, <3>1 DEF Filing
    <3>4. call'[c].pc = "end"
      BY <3>1
    <3>. HIDE NotEnded, Places DEF OnSwitch, Nics, At
    <3>. QED
      BY <1>4, <2>1, <3>2, <3>3, <3>4
  <2>. QED
    BY <1>4, <2>2, <2>3, ToolWorks DEF Goes
<1>5. ASSUME Scripting(c), Goes(c), Req(c).op = "set_switch_host_address"
      PROVE  NetworkSoFar(c)'
  <2>. USE NotEnded, Places DEF At
  <2>1. Req(c).remove \in BOOLEAN /\ call'[c].req = call[c].req
    BY <1>5 DEF Asked, WellFormed, Goes
  <2>2. CASE FindSwitch(c)
    <3>1. call'[c].pc = "clear"
      BY <2>2 DEF FindSwitch
    <3>. QED
      BY <1>5, <2>1, <3>1
  <2>3. CASE ClearHostAddress(c)
    <3>1. call'[c].pc = IF Req(c).remove THEN "end" ELSE "make"
      BY <2>3 DEF ClearHostAddress
    <3>2. Req(c).switch \notin hostAddr'
      BY <2>3 DEF ClearHostAddress
    <3>3. CASE Req(c).remove
      <4>1. call'[c].pc = "end"
        BY <3>1, <3>3
      <4>2. Req(c).switch \in hostAddr' <=> ~Req(c).remove
        BY <2>1, <3>2, <3>3
      <4>. QED
        BY <1>5, <2>1, <4>1, <4>2
    <3>4. CASE ~Req(c).remove
      BY <1>5, <2>1, <3>1, <3>4
    <3>. QED
      BY <3>3, <3>4
  <2>4. CASE SetHostAddress(c)
    BY <1>5, <2>1, <2>4 DEF SetHostAddress
  <2>. QED
    BY <1>5, <2>2, <2>3, <2>4, ToolWorks DEF Goes
<1>7. ASSUME Scripting(c), Goes(c), Req(c).op \in {"create_switch", "delete_switch"}
      PROVE  NetworkSoFar(c)'
  <2>. USE NotEnded, Places DEF At
  <2>1. Req(c).switch \in Switches /\ call'[c].req = call[c].req
    BY <1>7 DEF Asked, WellFormed, Goes
  <2>2. CASE CheckNewSwitch(c) \/ FindSwitch(c)
    <3>1. call'[c].pc \in {"make", "clear"}
      BY <2>2 DEF CheckNewSwitch, FindSwitch
    <3>. HIDE NotEnded, Places DEF OnSwitch, Nics, At
    <3>. QED
      BY <1>7, <2>1, <3>1
  <2>3. CASE NewSwitch(c)
    <3>1. switches'[Req(c).switch] = Req(c).type /\ Req(c).op = "create_switch"
      BY <2>1, <2>3 DEF NewSwitch, Filing
    <3>. QED
      BY <2>1, <3>1
  <2>4. CASE DeleteSwitch(c)
    <3>1. switches'[Req(c).switch] = "none" /\ Req(c).op = "delete_switch"
      BY <2>1, <2>4 DEF DeleteSwitch, Filing
    <3>. QED
      BY <2>1, <3>1
  <2>. QED
    BY <1>7, <2>2, <2>3, <2>4, ToolWorks DEF Goes
<1>6. CASE /\ ~Joins(c)'
           /\ call'[c].req.op \notin
                {"create_switch", "delete_switch", "set_switch_nat", "set_switch_host_address"}
  BY <1>6
<1>. QED
  BY <1>1, <1>2, <1>3, <1>4, <1>5, <1>6, <1>7 DEF Comes, Goes

(***************************************************************************)
(* A settings tool has written what it was given, or is about to: its      *)
(* cmdlets carry every setting given but the boot order, which is written  *)
(* as devices, and none of them with another value than given.             *)
(***************************************************************************)
Wanted(r) == DOMAIN r.set \ {"boot"}
AsGiven(r, one) == \A f \in DOMAIN one \cap Wanted(r) : one[f] = r.set[f]
Carries(r, s, F) ==
  /\ \E S : s \in Seq(S)
  /\ \A k \in 1..Len(s) : AsGiven(r, s[k])
  /\ \A f \in F : \E k \in 1..Len(s) : f \in DOMAIN s[k]

\* Nothing to carry is carried by any cmdlets.
LEMMA CarriesNone ==
  ASSUME NEW r
  PROVE  Carries(r, <<>>, {})
<1>1. <<>> \in Seq({})
  OBVIOUS
<1>. QED
  BY <1>1 DEF Carries

\* One cmdlet carries the fields it is called with.
LEMMA CarriesOne ==
  ASSUME NEW r, NEW one, AsGiven(r, one), NEW F, F \subseteq DOMAIN one
  PROVE  Carries(r, <<one>>, F)
<1>1. <<one>> \in Seq({one}) /\ <<one>>[1] = one
  OBVIOUS
<1>2. 1..Len(<<one>>) = {1}
  OBVIOUS
<1>. QED
  BY <1>1, <1>2, Zenon DEF Carries

\* Two lists of cmdlets carry together what each carries.
LEMMA CarriesBoth ==
  ASSUME NEW r, NEW s, NEW t, NEW F, NEW G, Carries(r, s, F), Carries(r, t, G)
  PROVE  Carries(r, s \o t, F \cup G)
<1>1. PICK S, T : s \in Seq(S) /\ t \in Seq(T)
  BY DEF Carries
<1>2. s \in Seq(S \cup T) /\ t \in Seq(S \cup T)
  BY <1>1
<1>3. /\ s \o t \in Seq(S \cup T) /\ Len(s \o t) = Len(s) + Len(t)
      /\ Len(s) \in Nat /\ Len(t) \in Nat
      /\ \A k \in 1..Len(s) : (s \o t)[k] = s[k]
      /\ \A k \in 1..Len(t) : (s \o t)[Len(s) + k] = t[k]
  BY <1>2
<1>4. ASSUME NEW k \in 1..Len(s \o t)
      PROVE  AsGiven(r, (s \o t)[k])
  <2>1. CASE k \in 1..Len(s)
    BY <1>3, <2>1 DEF Carries
  <2>2. CASE k \notin 1..Len(s)
    <3>1. k - Len(s) \in 1..Len(t) /\ k = Len(s) + (k - Len(s))
      BY <1>3, <2>2
    <3>. QED
      BY <1>3, <3>1 DEF Carries
  <2>. QED
    BY <2>1, <2>2
<1>5. ASSUME NEW f \in F \cup G
      PROVE  \E k \in 1..Len(s \o t) : f \in DOMAIN (s \o t)[k]
  <2>1. CASE f \in F
    <3>1. PICK k \in 1..Len(s) : f \in DOMAIN s[k]
      BY <2>1 DEF Carries
    <3>2. k \in 1..Len(s \o t)
      BY <1>3
    <3>. QED
      BY <1>3, <3>1, <3>2
  <2>2. CASE f \in G
    <3>1. PICK k \in 1..Len(t) : f \in DOMAIN t[k]
      BY <2>2 DEF Carries
    <3>2. Len(s) + k \in 1..Len(s \o t)
      BY <1>3
    <3>. QED
      BY <1>3, <3>1, <3>2
  <2>. QED
    BY <2>1, <2>2
<1>. QED
  BY <1>3, <1>4, <1>5 DEF Carries

\* What carries some fields carries fewer.
LEMMA CarriesFewer ==
  ASSUME NEW r, NEW s, NEW F, NEW G, Carries(r, s, F), G \subseteq F
  PROVE  Carries(r, s, G)
BY DEF Carries

\* A field that is carried is in one of the cmdlets.
LEMMA CarriesOneOf ==
  ASSUME NEW r, NEW f
  PROVE  Carries(r, OneOf(r, f), {f} \cap DOMAIN r.set)
<1>1. CASE Given(r, f)
  <2>1. DOMAIN [x \in {f} |-> r.set[f]] = {f} /\ AsGiven(r, [x \in {f} |-> r.set[f]])
    BY DEF AsGiven
  <2>. QED
    BY <1>1, <2>1, CarriesOne DEF OneOf
<1>2. CASE ~Given(r, f)
  BY <1>2, CarriesNone DEF OneOf, Given
<1>. QED
  BY <1>1, <1>2

\* What a tool is given is carried by its cmdlets.
LEMMA CmdletsCarry ==
  ASSUME NEW r, NEW i, r.op \in Setters, DOMAIN r.set \subseteq Offers[r.op]
  PROVE  Carries(r, Cmdlets(r, i), Wanted(r))
<1>. DEFINE D == DOMAIN r.set
<1>0. /\ r.op = "set_vm_nested_virtualization" => D \subseteq {"nested"}
      /\ r.op = "set_vm_security" => D \subseteq {"encrypt", "tpm"}
      /\ r.op = "set_vm_integration_services" => D \subseteq {"gsi", "kvp", "vss"}
      /\ r.op = "set_vm_firmware" => D \subseteq {"boot", "secure", "numlock"}
  BY DEF Offers
<1>1. Wanted(r) \subseteq D
  BY DEF Wanted
<1>. HIDE DEF D
<1>2. CASE r.op = "set_vm_nested_virtualization"
  <2>. DEFINE off == IF r.set.nested /\ vms[i].conf.dynamic THEN <<[dynamic |-> FALSE]>> ELSE <<>>
  <2>1. AsGiven(r, [dynamic |-> FALSE])
    BY <1>0, <1>1, <1>2 DEF AsGiven
  <2>2. Carries(r, off, {})
    BY <2>1, CarriesOne, CarriesNone
  <2>. HIDE DEF off
  <2>3. Carries(r, off \o OneOf(r, "nested"), {} \cup ({"nested"} \cap D))
    BY <2>2, CarriesOneOf, CarriesBoth DEF D
  <2>4. Wanted(r) \subseteq {} \cup ({"nested"} \cap D)
    BY <1>0, <1>1, <1>2
  <2>5. Cmdlets(r, i) = off \o OneOf(r, "nested")
    BY <1>2 DEF Cmdlets, NestedCmdlets, off
  <2>. QED
    BY <2>3, <2>4, <2>5, CarriesFewer
<1>3. CASE r.op = "set_vm_security"
  <2>. DEFINE key == IF (\E f \in DOMAIN r.set : r.set[f]) /\ ~vms[i].conf.protector
                     THEN <<[protector |-> TRUE]>> ELSE <<>>
  <2>1. AsGiven(r, [protector |-> TRUE])
    BY <1>0, <1>1, <1>3 DEF AsGiven
  <2>2. Carries(r, key, {})
    BY <2>1, CarriesOne, CarriesNone
  <2>. HIDE DEF key
  <2>3. Carries(r, key \o OneOf(r, "encrypt") \o OneOf(r, "tpm"),
                {} \cup ({"encrypt"} \cap D) \cup ({"tpm"} \cap D))
    BY <2>2, CarriesOneOf, CarriesBoth DEF D
  <2>4. Wanted(r) \subseteq {} \cup ({"encrypt"} \cap D) \cup ({"tpm"} \cap D)
    BY <1>0, <1>1, <1>3
  <2>5. Cmdlets(r, i) = key \o OneOf(r, "encrypt") \o OneOf(r, "tpm")
    BY <1>3 DEF Cmdlets, SecurityCmdlets, key
  <2>. QED
    BY <2>3, <2>4, <2>5, CarriesFewer
<1>4. CASE r.op = "set_vm_integration_services"
  <2>1. Carries(r, OneOf(r, "gsi") \o OneOf(r, "kvp") \o OneOf(r, "vss"),
                ({"gsi"} \cap D) \cup ({"kvp"} \cap D) \cup ({"vss"} \cap D))
    BY CarriesOneOf, CarriesBoth DEF D
  <2>2. Wanted(r) \subseteq ({"gsi"} \cap D) \cup ({"kvp"} \cap D) \cup ({"vss"} \cap D)
    BY <1>0, <1>1, <1>4
  <2>3. Cmdlets(r, i) = OneOf(r, "gsi") \o OneOf(r, "kvp") \o OneOf(r, "vss")
    BY <1>4 DEF Cmdlets, ServiceCmdlets
  <2>. QED
    BY <2>1, <2>2, <2>3, CarriesFewer
<1>5. CASE r.op = "set_vm_network_advanced"
  <2>. DEFINE bandwidth == IF D \ {"trunk"} = {} THEN <<>> ELSE <<Restrict(r.set, D \ {"trunk"})>>
  <2>1. DOMAIN Restrict(r.set, D \ {"trunk"}) = D \ {"trunk"} /\ AsGiven(r, Restrict(r.set, D \ {"trunk"}))
    BY DEF Restrict, AsGiven, D
  <2>2. Carries(r, bandwidth, D \ {"trunk"})
    <3>1. CASE D \ {"trunk"} = {}
      BY <3>1, CarriesNone
    <3>2. CASE D \ {"trunk"} # {}
      BY <2>1, <3>2, CarriesOne
    <3>. QED
      BY <3>1, <3>2
  <2>. HIDE DEF bandwidth
  <2>3. Carries(r, bandwidth \o OneOf(r, "trunk"), (D \ {"trunk"}) \cup ({"trunk"} \cap D))
    BY <2>2, CarriesOneOf, CarriesBoth DEF D
  <2>4. Wanted(r) \subseteq (D \ {"trunk"}) \cup ({"trunk"} \cap D)
    BY <1>1
  <2>5. Cmdlets(r, i) = bandwidth \o OneOf(r, "trunk")
    BY <1>5 DEF Cmdlets, AdapterCmdlets, bandwidth, D
  <2>. QED
    BY <2>3, <2>4, <2>5, CarriesFewer
<1>6. CASE r.op = "set_vm_firmware"
  <2>. DEFINE order == IF Given(r, "boot") THEN <<[boot |-> NewBoot(r, i)]>> ELSE <<>>
  <2>1. AsGiven(r, [boot |-> NewBoot(r, i)])
    BY DEF AsGiven, Wanted
  <2>2. Carries(r, order, {})
    BY <2>1, CarriesOne, CarriesNone
  <2>. HIDE DEF order
  <2>3. Carries(r, order \o OneOf(r, "secure") \o OneOf(r, "numlock"),
                {} \cup ({"secure"} \cap D) \cup ({"numlock"} \cap D))
    BY <2>2, CarriesOneOf, CarriesBoth DEF D
  <2>4. Wanted(r) \subseteq {} \cup ({"secure"} \cap D) \cup ({"numlock"} \cap D)
    BY <1>0, <1>1, <1>6 DEF Wanted
  <2>5. Cmdlets(r, i) = order \o OneOf(r, "secure") \o OneOf(r, "numlock")
    BY <1>6 DEF Cmdlets, FirmwareCmdlets, order
  <2>. QED
    BY <2>3, <2>4, <2>5, CarriesFewer
<1>7. CASE r.op = "set_vm_video"
  <2>. DEFINE one == Over([kind |-> VideoKind(r)], r.set)
  <2>1. DOMAIN one = {"kind"} \cup D /\ AsGiven(r, one)
    BY DEF Over, VideoKind, Given, AsGiven, Wanted, D
  <2>. HIDE DEF one
  <2>2. Carries(r, <<one>>, Wanted(r))
    BY <1>1, <2>1, CarriesOne
  <2>3. Cmdlets(r, i) = <<one>>
    BY <1>7 DEF Cmdlets, VideoCmdlets, one
  <2>. QED
    BY <2>2, <2>3
<1>8. CASE r.op \notin {"set_vm_nested_virtualization", "set_vm_security", "set_vm_integration_services",
                        "set_vm_network_advanced", "set_vm_firmware", "set_vm_video"}
  <2>1. AsGiven(r, r.set)
    BY DEF AsGiven
  <2>2. Cmdlets(r, i) = <<r.set>>
    BY <1>8 DEF Cmdlets, InOneCmdlet
  <2>. QED
    BY <1>1, <2>1, <2>2, CarriesOne DEF D
<1>. QED
  BY <1>2, <1>3, <1>4, <1>5, <1>6, <1>7, <1>8

\* The first cmdlet is carried out, and the rest carry what it does not.
LEMMA CarriesRest ==
  ASSUME NEW r, NEW s, NEW F, Carries(r, s, F), s # <<>>
  PROVE  AsGiven(r, Head(s)) /\ Carries(r, Tail(s), F \ DOMAIN Head(s))
<1>1. PICK S : s \in Seq(S)
  BY DEF Carries
<1>2. /\ Tail(s) \in Seq(S) /\ Len(s) \in Nat \ {0} /\ Len(Tail(s)) = Len(s) - 1 /\ Head(s) = s[1]
      /\ \A k \in 1..Len(Tail(s)) : Tail(s)[k] = s[k + 1]
  BY <1>1
<1>3. \A k \in 1..Len(Tail(s)) : k + 1 \in 1..Len(s)
  BY <1>2
<1>4. \A k \in 1..Len(Tail(s)) : AsGiven(r, Tail(s)[k])
  BY <1>2, <1>3 DEF Carries
<1>5. ASSUME NEW f \in F \ DOMAIN Head(s)
      PROVE  \E k \in 1..Len(Tail(s)) : f \in DOMAIN Tail(s)[k]
  <2>1. PICK k \in 1..Len(s) : f \in DOMAIN s[k]
    BY <1>5 DEF Carries
  <2>2. k # 1
    BY <1>2, <1>5, <2>1
  <2>3. k - 1 \in 1..Len(Tail(s)) /\ (k - 1) + 1 = k
    BY <1>2, <2>2
  <2>. QED
    BY <1>2, <2>1, <2>3
<1>6. 1 \in 1..Len(s)
  BY <1>2
<1>7. AsGiven(r, Head(s))
  BY <1>2, <1>6 DEF Carries
<1>. QED
  BY <1>2, <1>4, <1>5, <1>7 DEF Carries

\* No cmdlet is left only when there is nothing to carry.
LEMMA CarriesNothing ==
  ASSUME NEW r, NEW F, Carries(r, <<>>, F)
  PROVE  F = {}
<1>1. 1..Len(<<>>) = {}
  OBVIOUS
<1>. QED
  BY <1>1 DEF Carries

(* The settings not yet as given are carried by the cmdlets left; and where
   nested virtualization is to come, so is the end of dynamic memory. *)
Missing(r, conf) == {f \in Wanted(r) : ~(f \in DOMAIN conf /\ conf[f] = r.set[f])}
NoDynamic == [set |-> [dynamic |-> FALSE]]
Carried(r, m, s) ==
  /\ Carries(r, s, Missing(r, m.conf))
  /\ r.op = "set_vm_nested_virtualization" =>
       /\ m.state = "Off"
       /\ r.set.nested => Carries(NoDynamic, s, IF m.conf.dynamic THEN {"dynamic"} ELSE {})

\* What the look plans carries all of it.
LEMMA PlanCarries ==
  ASSUME NEW r, NEW i, r.op \in Setters, DOMAIN r.set \subseteq Offers[r.op], ~ScriptRefuses(r, i)
  PROVE  Carried(r, vms[i], Cmdlets(r, i))
<1>1. Carries(r, Cmdlets(r, i), Missing(r, vms[i].conf))
  BY CmdletsCarry, CarriesFewer DEF Missing
<1>2. ASSUME r.op = "set_vm_nested_virtualization", r.set.nested
      PROVE  Carries(NoDynamic, Cmdlets(r, i), IF vms[i].conf.dynamic THEN {"dynamic"} ELSE {})
  <2>. DEFINE off == IF r.set.nested /\ vms[i].conf.dynamic THEN <<[dynamic |-> FALSE]>> ELSE <<>>
              F == IF vms[i].conf.dynamic THEN {"dynamic"} ELSE {}
  <2>1. AsGiven(NoDynamic, [dynamic |-> FALSE]) /\ DOMAIN [dynamic |-> FALSE] = {"dynamic"}
    BY DEF AsGiven, NoDynamic
  <2>2. Carries(NoDynamic, off, F)
    BY <1>2, <2>1, CarriesOne, CarriesNone
  <2>3. Carries(NoDynamic, OneOf(r, "nested"), {})
    <3>1. AsGiven(NoDynamic, [x \in {"nested"} |-> r.set["nested"]])
      BY DEF AsGiven, NoDynamic, Wanted
    <3>. QED
      BY <3>1, CarriesOne, CarriesNone DEF OneOf
  <2>. HIDE DEF off, F
  <2>4. Carries(NoDynamic, off \o OneOf(r, "nested"), F \cup {})
    BY <2>2, <2>3, CarriesBoth
  <2>5. Cmdlets(r, i) = off \o OneOf(r, "nested") /\ F \cup {} = F
    BY <1>2 DEF Cmdlets, NestedCmdlets, off
  <2>. QED
    BY <2>4, <2>5 DEF F
<1>3. r.op = "set_vm_nested_virtualization" => vms[i].state = "Off"
  BY DEF ScriptRefuses
<1>. QED
  BY <1>1, <1>2, <1>3 DEF Carried

\* A cmdlet that is carried out leaves the rest to the others.
LEMMA CarriedOn ==
  ASSUME NEW r, NEW m, NEW n, NEW s, r.op \in Setters, DOMAIN r.set \subseteq Offers[r.op],
         "dynamic" \in DOMAIN m.conf, Carried(r, m, s), s # <<>>, n.state = m.state, n.conf = Taken(m.conf, Head(s), m.state = "Off")
  PROVE  Carried(r, n, Tail(s))
<1>1. AsGiven(r, Head(s)) /\ Carries(r, Tail(s), Missing(r, m.conf) \ DOMAIN Head(s))
  BY CarriesRest DEF Carried
<1>2. "nested" \in Wanted(r) => m.state = "Off"
  BY DEF Wanted, Offers, Setters, Carried
<1>3. \A f \in Wanted(r) : f \in DOMAIN Head(s) => f \in DOMAIN n.conf /\ n.conf[f] = r.set[f]
  BY <1>1, <1>2 DEF Taken, Over, AsGiven
<1>4. \A f \in Wanted(r) : f \notin DOMAIN Head(s) /\ f \in DOMAIN m.conf
        => f \in DOMAIN n.conf /\ n.conf[f] = m.conf[f]
  BY DEF Taken, Over
<1>5. Missing(r, n.conf) \subseteq Missing(r, m.conf) \ DOMAIN Head(s)
  BY <1>3, <1>4 DEF Missing
<1>6. Carries(r, Tail(s), Missing(r, n.conf))
  BY <1>1, <1>5, CarriesFewer
<1>7. ASSUME r.op = "set_vm_nested_virtualization", r.set.nested
      PROVE  Carries(NoDynamic, Tail(s), IF n.conf.dynamic THEN {"dynamic"} ELSE {})
  <2>. DEFINE F == IF m.conf.dynamic THEN {"dynamic"} ELSE {}
              G == IF n.conf.dynamic THEN {"dynamic"} ELSE {}
  <2>1. AsGiven(NoDynamic, Head(s)) /\ Carries(NoDynamic, Tail(s), F \ DOMAIN Head(s))
    BY <1>7, CarriesRest DEF Carried
  <2>2. G \subseteq F \ DOMAIN Head(s)
    <3>1. m.state = "Off"
      BY <1>7 DEF Carried
    <3>2. "dynamic" \in DOMAIN Head(s) => ~n.conf.dynamic
      <4>1. "dynamic" \in DOMAIN Head(s) => Head(s)["dynamic"] = FALSE
        BY <2>1 DEF AsGiven, Wanted, NoDynamic
      <4>. QED
        BY <3>1, <4>1 DEF Taken, Over
    <3>3. "dynamic" \notin DOMAIN Head(s) /\ "dynamic" \in DOMAIN m.conf => n.conf.dynamic = m.conf.dynamic
      BY <3>1 DEF Taken, Over
    <3>. QED
      BY <3>2, <3>3
  <2>. QED
    BY <2>1, <2>2, CarriesFewer
<1>. QED
  BY <1>6, <1>7 DEF Carried

SettingSoFar(c) ==
  Req(c).op \in Setters =>
    /\ call[c].pc = "apply" => Loc(c).on \in Ids /\ Carried(Req(c), vms[Loc(c).on], Loc(c).todo)
    /\ AtLast(c) => Loc(c) \subseteq Ids /\ SettingsDone(Req(c), Loc(c))

\* With no cmdlet left, everything is as it was given.
LEMMA CarriedOut ==
  ASSUME NEW r, NEW i, Carried(r, vms[i], <<>>)
  PROVE  SettingsDone(r, {i})
<1>1. Missing(r, vms[i].conf) = {}
  BY CarriesNothing DEF Carried
<1>2. ASSUME r.op = "set_vm_nested_virtualization", r.set.nested
      PROVE  ~vms[i].conf.dynamic
  BY <1>2, CarriesNothing DEF Carried
<1>. QED
  BY <1>1, <1>2 DEF SettingsDone, Missing, Wanted

\* A settings tool has set what it was given, or is about to.
LEMMA SettingKept ==
  ASSUME Shaped, MachinesFormed, Asked, Configured, NEW c \in Callers, Scripting(c)', Comes(c),
         Scripting(c) => SettingSoFar(c)
  PROVE  SettingSoFar(c)'
<1>. USE DEF SettingSoFar, AtLast, Req, Loc
<1>1. CASE Enters(c)
  BY <1>1 DEF Enters, Entry, Looking, Setters
<1>2. CASE Scripting(c) /\ Rests(c)
  <2>1. \A i \in Ids : vms'[i].conf = vms[i].conf /\ (vms[i].state = "Off" => vms'[i].state = "Off")
    BY <1>2 DEF Rests, Undisturbed
  <2>2. call'[c].req = call[c].req /\ call'[c].pc = call[c].pc /\ call'[c].loc = call[c].loc
    BY <1>2 DEF Rests
  <2>3. SettingSoFar(c)
    BY <1>2
  <2>. QED
    BY <2>1, <2>2, <2>3 DEF Carried, SettingsDone
<1>3. ASSUME Scripting(c), Goes(c), Req(c).op \in Setters
      PROVE  SettingSoFar(c)'
  <2>. DEFINE r == Req(c)
  <2>1. r.op \in Setters /\ DOMAIN r.set \subseteq Offers[r.op] /\ call'[c].req = r
    BY <1>3 DEF Asked, WellFormed, Goes
  <2>2. CASE FindForSetting(c)
    <3>1. PICK i \in Ids : ~ScriptRefuses(r, i) /\ Goto(c, "apply", [on |-> i, todo |-> Cmdlets(r, i)])
      BY <2>2, NotEnded DEF FindForSetting, Named
    <3>2. Carried(r, vms[i], Cmdlets(r, i))
      BY <2>1, <3>1, PlanCarries
    <3>3. call'[c].pc = "apply" /\ call'[c].loc = [on |-> i, todo |-> Cmdlets(r, i)] /\ UNCHANGED vms
      BY <2>2, <3>1, Places DEF FindForSetting, storeVars
    <3>. HIDE DEF r
    <3>. QED
      BY <2>1, <3>2, <3>3
  <2>3. CASE ApplySetting(c)
    <3>. DEFINE i == Loc(c).on  s == Loc(c).todo
    <3>1. call[c].pc = "apply" /\ i \in Ids /\ Carried(r, vms[i], s)
      BY <1>3, <2>3 DEF ApplySetting, At
    <3>2. CASE s = <<>>
      <4>1. Goto(c, "end", {i}) /\ UNCHANGED vms
        BY <2>3, <3>2 DEF ApplySetting
      <4>2. call'[c].pc = "end" /\ call'[c].loc = {i}
        BY <4>1, Places
      <4>3. SettingsDone(r, {i})
        BY <3>1, <3>2, CarriedOut
      <4>. QED
        BY <2>1, <3>1, <4>1, <4>2, <4>3 DEF SettingsDone
    <3>3. CASE s # <<>>
      <4>1. /\ vms' = [vms EXCEPT ![i].conf = Taken(vms[i].conf, Head(s), vms[i].state = "Off")]
            /\ Effect(c, "apply", [on |-> i, todo |-> Tail(s)])
        BY <2>3, <3>3, NotEnded DEF ApplySetting
      <4>2. /\ vms'[i].state = vms[i].state
            /\ vms'[i].conf = Taken(vms[i].conf, Head(s), vms[i].state = "Off")
        BY <3>1, <4>1 DEF MachinesFormed, MachineFields
      <4>3. "dynamic" \in DOMAIN vms[i].conf
        BY <3>1 DEF Configured, Settable, DefaultConf
      <4>4. Carried(r, vms'[i], Tail(s))
        BY <2>1, <3>1, <3>3, <4>2, <4>3, CarriedOn
      <4>5. call'[c].pc = "apply" /\ call'[c].loc = [on |-> i, todo |-> Tail(s)]
        BY <4>1, Places
      <4>. HIDE DEF r, i, s
      <4>. QED
        BY <2>1, <3>1, <4>4, <4>5
    <3>. QED
      BY <3>2, <3>3
  <2>. QED
    BY <1>3, <2>2, <2>3, ToolWorks DEF Goes
<1>4. CASE call'[c].req.op \notin Setters
  BY <1>4
<1>. QED
  BY <1>1, <1>2, <1>3, <1>4 DEF Comes, Goes

(***************************************************************************)
(* A call that ends well has done all of it.                               *)
(***************************************************************************)
SoFar(c) ==
  /\ PowerSoFar(c) /\ CheckpointSoFar(c) /\ LifeSoFar(c) /\ DiskSoFar(c)
  /\ NetworkSoFar(c) /\ SettingSoFar(c)
DoneInv == \A c \in Callers : Scripting(c) /\ call[c].alone => SoFar(c)
AchievedInv == TypesInv /\ AdaptersInv /\ Filing /\ DoneInv

\* No step loses what a call that is alone has achieved so far.
LEMMA DoneNext ==
  ASSUME AchievedInv, [Next]_vars
  PROVE  DoneInv'
<1>. SUFFICES ASSUME NEW c \in Callers, Scripting(c)', call'[c].alone
              PROVE  SoFar(c)'
  BY DEF DoneInv
<1>1. Shaped /\ MachinesFormed /\ NamesInv /\ Asked /\ Stored /\ Configured /\ Plugged /\ Filing
  BY DEF AchievedInv, TypesInv, AdaptersInv, NamesInv
<1>2. Comes(c) /\ (Enters(c) \/ (Scripting(c) /\ call[c].alone))
  BY <1>1, Comings DEF Comes
<1>3. CASE Scripting(c) => SoFar(c)
  BY <1>1, <1>2, <1>3, PowerKept, CheckpointKept, LifeKept, DiskKept, NetworkKept, SettingKept DEF SoFar
<1>4. CASE Enters(c)
  BY <1>4 DEF Enters, Entry, Looking, SoFar, PowerSoFar, CheckpointSoFar, LifeSoFar, DiskSoFar,
     NetworkSoFar,
     SettingSoFar, AtLast, Req, Loc, Setters, Creations, Joins
<1>. QED
  BY <1>2, <1>3, <1>4 DEF AchievedInv, DoneInv

\* No call has achieved anything, and none has to, when the host comes up.
LEMMA InitAchieved == Init => AchievedInv
<1>. SUFFICES ASSUME Init PROVE AchievedInv
  OBVIOUS
<1>1. \A c \in Callers : ~Scripting(c)
  BY DEF Init, RunnerInit, Idle, Scripting
<1>2. Filing
  BY NicsAssumption DEF Init, Filing
<1>. QED
  BY <1>1, <1>2, InitTypes, InitAdapters DEF AchievedInv, DoneInv

\* The invariant of the last theorem is inductive.
LEMMA AchievedNext ==
  ASSUME AchievedInv, [Next]_vars
  PROVE  AchievedInv'
BY TypesNext, AdaptersNext, FilingNext, DoneNext DEF AchievedInv

(* Whatever other calls, guests, merges and crashes do, a tool that reports
   success has done what StoreDone, SettingsDone and NetworkDone say of it,
   unless another script changed the host while it was at work: machines on,
   stopped, saved or gone, checkpoints, disks and settings as asked for, switches,
   adapters, NATs and addresses where they should be (the scripts of
   internal/hyperv, whose closing projections do not check). *)
THEOREM OkAlwaysMeansDone == Spec => OkMeansDone
<1>1. ASSUME AchievedInv, NEW c \in Callers, call[c].st = "running",
             call[c].pc \in {"end", "report", "stopped"}, call[c].alone
      PROVE  StoreDone(Req(c), Loc(c)) /\ SettingsDone(Req(c), Loc(c)) /\ NetworkDone(Req(c), Loc(c))
  <2>1. SoFar(c) /\ AtLast(c)
    BY <1>1 DEF AchievedInv, DoneInv, AtLast, Scripting
  <2>2. StoreDone(Req(c), Loc(c))
    <3>1. Root # NoFile /\ Creations = {"create_vm", "create_vm_from_template"}
      BY PathsAssumption DEF Creations
    <3>2. PowerSoFar(c) /\ CheckpointSoFar(c) /\ LifeSoFar(c) /\ DiskSoFar(c)
      BY <2>1 DEF SoFar
    <3>. QED
      BY <2>1, <3>1, <3>2 DEF StoreDone, PowerDone, CheckpointDone, LifeDone, DiskDone, PowerSoFar,
         CheckpointSoFar, LifeSoFar, DiskSoFar, Unused
  <2>3. SettingsDone(Req(c), Loc(c))
    <3>1. CASE Req(c).op \in Setters
      BY <2>1, <3>1 DEF SoFar, SettingSoFar
    <3>2. CASE Req(c).op \notin Setters
      BY <3>2 DEF SettingsDone
    <3>. QED
      BY <3>1, <3>2
  <2>4. NetworkDone(Req(c), Loc(c))
    BY <2>1 DEF NetworkDone, SoFar, NetworkSoFar, Joins, OnSwitch
  <2>. QED
    BY <2>2, <2>3, <2>4
<1>2. AchievedInv /\ [Next]_vars =>
        [\A c \in Callers :
           (/\ call[c].st = "running" /\ call[c].pc \in {"end", "report", "stopped"} /\ call[c].alone
            /\ call'[c].st = "idle" /\ call'[c].told = "ok")
             => /\ StoreDone(Req(c), Loc(c)) /\ SettingsDone(Req(c), Loc(c))
                /\ NetworkDone(Req(c), Loc(c))]_call
  BY <1>1
<1>. QED
  BY InitAchieved, AchievedNext, <1>2, PTL DEF Spec, OkMeansDone

(***************************************************************************)
(* Boot orders: what the operators on sequences give.                      *)
(***************************************************************************)

\* What is left of the first n elements, from what is left of those before.
Filters(f, s, S) ==
  /\ DOMAIN f = 0..Len(s) /\ f[0] = <<>>
  /\ \A n \in 1..Len(s) : f[n] = IF s[n] \in S THEN Append(f[n - 1], s[n]) ELSE f[n - 1]

\* What Only keeps comes about that way.
LEMMA OnlyFilters ==
  ASSUME NEW V, NEW s \in Seq(V), NEW S
  PROVE  \E f : Filters(f, s, S) /\ Only(s, S) = f[Len(s)]
<1>. DEFINE L == Len(s)
            step == [n \in 1..L |-> [v \in Seq(V) |-> IF s[n] \in S THEN Append(v, s[n]) ELSE v]]
<1>1. L \in Nat /\ DOMAIN s = 1..L /\ \A n \in 1..L : s[n] \in V
  OBVIOUS
<1>2. step \in [1..L -> [Seq(V) -> Seq(V)]] /\ <<>> \in Seq(V)
  <2>. HIDE DEF L
  <2>. QED
    BY <1>1
<1>3. PICK f : Recurs(f, L, Seq(V), <<>>, step)
  <2>. HIDE DEF L, step
  <2>. QED
    BY <1>1, <1>2, Recursion
<1>4. ASSUME NEW n \in 1..L
      PROVE  f[n] = IF s[n] \in S THEN Append(f[n - 1], s[n]) ELSE f[n - 1]
  <2>1. n - 1 \in 0..L
    BY <1>1
  <2>2. f[n] = step[n][f[n - 1]] /\ f[n - 1] \in Seq(V)
    BY <1>3, <2>1 DEF Recurs
  <2>. HIDE DEF L
  <2>. QED
    BY <2>2
<1>5. f = [n \in 0..Len(s) |->
             IF n = 0 THEN <<>> ELSE IF s[n] \in S THEN Append(f[n - 1], s[n]) ELSE f[n - 1]]
  <2>1. f \in [0..L -> Seq(V)] /\ f[0] = <<>>
    BY <1>3 DEF Recurs
  <2>2. \A n \in 0..L : n = 0 \/ n \in 1..L
    BY <1>1
  <2>3. \A n \in 0..L : f[n] = IF n = 0 THEN <<>>
                              ELSE IF s[n] \in S THEN Append(f[n - 1], s[n]) ELSE f[n - 1]
    <3>. HIDE DEF L
    <3>. QED
      BY <1>4, <2>1, <2>2
  <2>. QED
    BY <2>1, <2>3, Zenon
<1>. DEFINE upTo[n \in 0..Len(s)] ==
       IF n = 0 THEN <<>> ELSE IF s[n] \in S THEN Append(upTo[n - 1], s[n]) ELSE upTo[n - 1]
<1>6. upTo = [n \in 0..Len(s) |->
                IF n = 0 THEN <<>> ELSE IF s[n] \in S THEN Append(upTo[n - 1], s[n]) ELSE upTo[n - 1]]
  BY <1>5, Zenon DEF upTo
<1>7. Only(s, S) = upTo[Len(s)]
  BY Zenon DEF Only, upTo
<1>8. Filters(upTo, s, S)
  <2>1. 0 \in 0..Len(s) /\ \A n \in 1..Len(s) : n \in 0..Len(s) /\ n # 0
    BY <1>1
  <2>. HIDE DEF upTo
  <2>2. DOMAIN upTo = 0..Len(s) /\ upTo[0] = <<>>
    BY <1>6, <2>1
  <2>3. ASSUME NEW n \in 1..Len(s)
        PROVE  upTo[n] = IF s[n] \in S THEN Append(upTo[n - 1], s[n]) ELSE upTo[n - 1]
    <3>1. n \in 0..Len(s) /\ n # 0
      BY <2>1
    <3>. QED
      BY <1>6, <3>1, Zenon
  <2>. QED
    BY <2>2, <2>3 DEF Filters
<1>. QED
  BY <1>7, <1>8

Firsts(s, n) == {s[k] : k \in 1..n}

\* What is kept of a sequence: its elements of a set, each as often as it has them.
LEMMA OnlyKeeps ==
  ASSUME NEW V, NEW s \in Seq(V), NEW S
  PROVE  /\ Only(s, S) \in Seq(V \cap S) /\ Range(Only(s, S)) = Range(s) \cap S
         /\ IsInjective(s) => IsInjective(Only(s, S))
<1>. DEFINE L == Len(s)
<1>1. PICK f : Filters(f, s, S) /\ Only(s, S) = f[L]
  BY OnlyFilters
<1>. DEFINE Filtered(n) == /\ f[n] \in Seq(V \cap S)
                           /\ Range(f[n]) = Firsts(s, n) \cap S
                           /\ IsInjective(s) => IsInjective(f[n])
            T == {n \in 0..L : Filtered(n)}
<1>2. L \in Nat /\ DOMAIN s = 1..L /\ \A n \in 1..L : s[n] \in V
  OBVIOUS
<1>3. Filtered(0)
  <2>1. f[0] = <<>> /\ DOMAIN f[0] = {} /\ 1..0 = {}
    BY <1>1 DEF Filters
  <2>. QED
    BY <2>1 DEF Range, IsInjective, Firsts
<1>4. ASSUME NEW n \in 1..L, Filtered(n - 1)
      PROVE  Filtered(n)
  <2>. DEFINE g == f[n - 1]  x == s[n]
  <2>1. /\ g \in Seq(V \cap S) /\ Range(g) = Firsts(s, n - 1) \cap S
        /\ IsInjective(s) => IsInjective(g)
    BY <1>4
  <2>2. Firsts(s, n) = Firsts(s, n - 1) \cup {x}
    <3>1. \A k \in 1..n : k \in 1..(n - 1) \/ k = n
      BY <1>2
    <3>2. 1..(n - 1) \subseteq 1..n /\ n \in 1..n
      BY <1>2
    <3>. QED
      BY <3>1, <3>2 DEF Firsts
  <2>3. CASE x \notin S
    <3>1. f[n] = g
      BY <1>1, <2>3 DEF Filters
    <3>. QED
      BY <2>1, <2>2, <2>3, <3>1
  <2>4. CASE x \in S
    <3>1. f[n] = Append(g, x) /\ x \in V
      BY <1>1, <1>2, <2>4 DEF Filters
    <3>. HIDE DEF g, x
    <3>2. f[n] \in Seq(V \cap S)
      BY <2>1, <2>4, <3>1
    <3>3. /\ DOMAIN f[n] = 1..(Len(g) + 1) /\ Len(g) \in Nat /\ DOMAIN g = 1..Len(g)
          /\ f[n][Len(g) + 1] = x /\ \A k \in 1..Len(g) : f[n][k] = g[k]
      BY <2>1, <3>1
    <3>4. Range(f[n]) = Range(g) \cup {x}
      <4>1. \A k \in DOMAIN f[n] : k \in DOMAIN g \/ k = Len(g) + 1
        BY <3>3
      <4>2. DOMAIN g \subseteq DOMAIN f[n] /\ Len(g) + 1 \in DOMAIN f[n]
        BY <3>3
      <4>. QED
        BY <3>3, <4>1, <4>2 DEF Range
    <3>5. ASSUME IsInjective(s)
          PROVE  IsInjective(f[n])
      <4>1. \A k \in 1..(n - 1) : s[k] # x
        BY <1>2, <3>5 DEF IsInjective, x
      <4>2. \A j \in DOMAIN g : g[j] # x
        <5>1. x \notin Range(g)
          BY <2>1, <4>1 DEF Firsts
        <5>. QED
          BY <5>1 DEF Range
      <4>3. \A j \in DOMAIN f[n] : j \in DOMAIN g \/ j = Len(g) + 1
        BY <3>3
      <4>. QED
        BY <2>1, <3>3, <3>5, <4>2, <4>3 DEF IsInjective
    <3>. QED
      BY <2>1, <2>2, <2>4, <3>2, <3>4, <3>5
  <2>. QED
    BY <2>3, <2>4
<1>5. L \in T
  <2>1. 0 \in T /\ \A n \in 1..L : n - 1 \in T => n \in T
    <3>. HIDE DEF Filtered, L
    <3>. QED
      BY <1>2, <1>3, <1>4
  <2>2. 0..L \subseteq T
    <3>. HIDE DEF T, L
    <3>. QED
      BY <1>2, <2>1, Induction
  <2>. HIDE DEF T
  <2>. QED
    BY <1>2, <2>2
<1>6. Range(s) = Firsts(s, L)
  BY <1>2 DEF Range, Firsts
<1>. QED
  BY <1>1, <1>5, <1>6

\* Where one element alone is of the set, that one is kept.
LEMMA OnlyOne ==
  ASSUME NEW V, NEW s \in Seq(V), NEW S, NEW k \in DOMAIN s, s[k] \in S,
         \A l \in DOMAIN s : s[l] \in S => l = k
  PROVE  Only(s, S) = <<s[k]>>
<1>. DEFINE L == Len(s)
<1>1. PICK f : Filters(f, s, S) /\ Only(s, S) = f[L]
  BY OnlyFilters
<1>. DEFINE T == {n \in 0..L : f[n] = IF n < k THEN <<>> ELSE <<s[k]>>}
<1>2. L \in Nat /\ DOMAIN s = 1..L /\ k \in 1..L
  OBVIOUS
<1>. HIDE DEF L
<1>3. 0 \in T
  BY <1>1, <1>2 DEF Filters
<1>4. ASSUME NEW n \in 1..L, n - 1 \in T
      PROVE  n \in T
  <2>1. f[n] = IF n = k THEN Append(f[n - 1], s[n]) ELSE f[n - 1]
    BY <1>1, <1>2 DEF Filters, L
  <2>2. f[n - 1] = IF n - 1 < k THEN <<>> ELSE <<s[k]>>
    BY <1>4
  <2>3. Append(<<>>, s[k]) = <<s[k]>>
    OBVIOUS
  <2>4. CASE n < k
    <3>1. n # k /\ n - 1 < k
      BY <1>2, <2>4
    <3>. QED
      BY <2>1, <2>2, <2>4, <3>1
  <2>5. CASE n = k
    <3>1. n - 1 < k /\ ~(n < k)
      BY <1>2, <2>5
    <3>. QED
      BY <2>1, <2>2, <2>3, <2>5, <3>1
  <2>6. CASE k < n
    <3>1. n # k /\ ~(n - 1 < k) /\ ~(n < k)
      BY <1>2, <2>6
    <3>. QED
      BY <2>1, <2>2, <3>1
  <2>. QED
    BY <1>2, <2>4, <2>5, <2>6
<1>5. L \in T
  <2>1. 0..L \subseteq T
    <3>. HIDE DEF T
    <3>. QED
      BY <1>2, <1>3, <1>4, Induction
  <2>. QED
    BY <1>2, <2>1
<1>. QED
  BY <1>1, <1>2, <1>5 DEF L

\* An order of devices has the devices each token matches, one token after the other.
Lists(f, tokens, devices) ==
  /\ DOMAIN f = 0..Len(tokens) /\ f[0] = <<>>
  /\ \A n \in 1..Len(tokens) : f[n] = f[n - 1] \o MatchedBy(tokens[n], devices)

\* A token matches devices of the machine.
LEMMA MatchesDevices ==
  ASSUME NEW V, NEW devices \in Seq(V), NEW t
  PROVE  MatchedBy(t, devices) \in Seq(Range(devices))
<1>. DEFINE S == {d \in Range(devices) : Matches(t, d)}
<1>1. Only(devices, S) \in Seq(V \cap S)
  BY OnlyKeeps
<1>2. V \cap S \subseteq Range(devices)
  OBVIOUS
<1>3. Only(devices, S) \in Seq(Range(devices))
  <2>. HIDE DEF S
  <2>. QED
    BY <1>1, <1>2
<1>. QED
  BY <1>3, Zenon DEF MatchedBy

\* What Devices lists comes about that way.
LEMMA DevicesList ==
  ASSUME NEW V, NEW devices \in Seq(V), NEW W, NEW tokens \in Seq(W)
  PROVE  \E f \in [0..Len(tokens) -> Seq(Range(devices))] :
           Lists(f, tokens, devices) /\ Devices(tokens, devices) = f[Len(tokens)]
<1>. DEFINE L == Len(tokens)
            R == Seq(Range(devices))
            step == [n \in 1..L |-> [v \in R |-> v \o MatchedBy(tokens[n], devices)]]
<1>1. L \in Nat /\ DOMAIN tokens = 1..L
  OBVIOUS
<1>2. step \in [1..L -> [R -> R]] /\ <<>> \in R
  <2>1. \A n \in 1..L : MatchedBy(tokens[n], devices) \in R
    BY MatchesDevices
  <2>2. \A v \in R, w \in R : v \o w \in R
    OBVIOUS
  <2>. HIDE DEF L
  <2>. QED
    BY <2>1, <2>2
<1>3. PICK f : Recurs(f, L, R, <<>>, step)
  <2>. HIDE DEF L, R, step
  <2>. QED
    BY <1>1, <1>2, Recursion
<1>4. ASSUME NEW n \in 1..L
      PROVE  f[n] = f[n - 1] \o MatchedBy(tokens[n], devices)
  <2>1. n - 1 \in 0..L
    BY <1>1
  <2>2. f[n] = step[n][f[n - 1]] /\ f[n - 1] \in R
    BY <1>3, <2>1 DEF Recurs
  <2>. HIDE DEF L, R
  <2>. QED
    BY <2>2
<1>5. f = [n \in 0..Len(tokens) |-> IF n = 0 THEN <<>> ELSE f[n - 1] \o MatchedBy(tokens[n], devices)]
  <2>1. f \in [0..L -> R] /\ f[0] = <<>>
    BY <1>3 DEF Recurs
  <2>2. \A n \in 0..L : n = 0 \/ n \in 1..L
    BY <1>1
  <2>3. \A n \in 0..L : f[n] = IF n = 0 THEN <<>> ELSE f[n - 1] \o MatchedBy(tokens[n], devices)
    <3>. HIDE DEF L, R
    <3>. QED
      BY <1>4, <2>1, <2>2
  <2>. QED
    BY <2>1, <2>3, Zenon
<1>. DEFINE upTo[n \in 0..Len(tokens)] ==
       IF n = 0 THEN <<>> ELSE upTo[n - 1] \o MatchedBy(tokens[n], devices)
<1>6. upTo = [n \in 0..Len(tokens) |-> IF n = 0 THEN <<>> ELSE upTo[n - 1] \o MatchedBy(tokens[n], devices)]
  BY <1>5, Zenon DEF upTo
<1>7. Devices(tokens, devices) = upTo[Len(tokens)]
  BY Zenon DEF Devices, upTo
<1>8. Lists(upTo, tokens, devices)
  <2>1. 0 \in 0..Len(tokens) /\ \A n \in 1..Len(tokens) : n \in 0..Len(tokens) /\ n # 0
    BY <1>1
  <2>. HIDE DEF upTo
  <2>2. DOMAIN upTo = 0..Len(tokens) /\ upTo[0] = <<>>
    BY <1>6, <2>1
  <2>3. ASSUME NEW n \in 1..Len(tokens)
        PROVE  upTo[n] = upTo[n - 1] \o MatchedBy(tokens[n], devices)
    <3>1. n \in 0..Len(tokens) /\ n # 0
      BY <2>1
    <3>. QED
      BY <1>6, <3>1, Zenon
  <2>. QED
    BY <2>2, <2>3 DEF Lists
<1>9. upTo \in [0..L -> R]
  <2>. DEFINE T == {n \in 0..L : upTo[n] \in R}
  <2>. HIDE DEF upTo
  <2>1. 0 \in T
    <3>. HIDE DEF R, L
    <3>. QED
      BY <1>1, <1>2, <1>8 DEF Lists
  <2>2. ASSUME NEW n \in 1..L, n - 1 \in T
        PROVE  n \in T
    <3>1. upTo[n - 1] \in R /\ n \in 0..L
      BY <1>1, <2>2
    <3>2. MatchedBy(tokens[n], devices) \in R
      BY MatchesDevices
    <3>3. upTo[n - 1] \o MatchedBy(tokens[n], devices) \in R
      <4>. HIDE DEF L
      <4>. QED
        BY <3>1, <3>2
    <3>. QED
      BY <1>8, <3>1, <3>3 DEF Lists
  <2>3. 0..L \subseteq T
    <3>. HIDE DEF T, L, R
    <3>. QED
      BY <1>1, <2>1, <2>2, Induction
  <2>4. DOMAIN upTo = 0..L /\ upTo = [n \in DOMAIN upTo |-> upTo[n]]
    BY <1>6, <1>8 DEF Lists
  <2>. HIDE DEF L, R
  <2>. QED
    BY <2>3, <2>4
<1>. QED
  BY <1>7, <1>8, <1>9

\* Given back as it was read, an order stays, if each token matches one device.
LEMMA RoundTrip ==
  ASSUME NEW V, NEW devices \in Seq(V), NEW B, NEW order \in Seq(B), Range(order) \subseteq Range(devices),
         \A k, l \in DOMAIN devices : Matches(Token(devices[k]), devices[l]) => k = l
  PROVE  Devices([k \in DOMAIN order |-> Token(order[k])], devices) = order
<1>. DEFINE tokens == [k \in DOMAIN order |-> Token(order[k])]
            L == Len(order)
<1>1. L \in Nat /\ DOMAIN order = 1..L /\ \A n \in 1..L : order[n] \in B
  OBVIOUS
<1>2. tokens \in Seq({Token(d) : d \in B}) /\ Len(tokens) = L
  <2>. HIDE DEF L
  <2>1. tokens \in [1..L -> {Token(d) : d \in B}]
    BY <1>1
  <2>. HIDE DEF tokens
  <2>. QED
    BY <1>1, <2>1
<1>3. ASSUME NEW n \in 1..L
      PROVE  MatchedBy(tokens[n], devices) = <<order[n]>>
  <2>1. tokens[n] = Token(order[n]) /\ order[n] \in Range(order)
    BY <1>1 DEF Range
  <2>2. PICK k \in DOMAIN devices : devices[k] = order[n]
    BY <2>1 DEF Range
  <2>. DEFINE S == {d \in Range(devices) : Matches(tokens[n], d)}
  <2>3. devices[k] \in S
    <3>1. devices[k] \in Range(devices)
      BY DEF Range
    <3>2. Matches(Token(devices[k]), devices[k])
      BY DEF Matches, Token
    <3>. QED
      BY <2>1, <2>2, <3>1, <3>2
  <2>4. \A l \in DOMAIN devices : devices[l] \in S => l = k
    BY <2>1, <2>2
  <2>5. Only(devices, S) = <<devices[k]>>
    <3>. HIDE DEF S
    <3>. QED
      BY <2>3, <2>4, OnlyOne
  <2>. QED
    BY <2>2, <2>5, Zenon DEF MatchedBy
<1>4. PICK f \in [0..Len(tokens) -> Seq(Range(devices))] :
        Lists(f, tokens, devices) /\ Devices(tokens, devices) = f[Len(tokens)]
  <2>. HIDE DEF tokens
  <2>. QED
    BY <1>2, DevicesList
<1>. HIDE DEF tokens, L
<1>. DEFINE R == Range(devices)
            T == {n \in 0..L : Len(f[n]) = n /\ \A j \in 1..n : f[n][j] = order[j]}
<1>5. 0 \in T
  BY <1>1, <1>2, <1>4 DEF Lists
<1>6. ASSUME NEW n \in 1..L, n - 1 \in T
      PROVE  n \in T
  <2>. DEFINE g == f[n - 1]
  <2>1. g \in Seq(R) /\ Len(g) = n - 1 /\ \A j \in 1..(n - 1) : g[j] = order[j]
    BY <1>1, <1>2, <1>4, <1>6
  <2>2. f[n] = g \o <<order[n]>>
    BY <1>2, <1>3, <1>4 DEF Lists
  <2>. HIDE DEF g
  <2>3. Len(f[n]) = n /\ f[n][n] = order[n] /\ \A j \in 1..(n - 1) : f[n][j] = g[j]
    <3>. DEFINE x == order[n]
    <3>1. g \in Seq(R \cup B) /\ <<x>> \in Seq(R \cup B) /\ Len(<<x>>) = 1 /\ <<x>>[1] = x
      BY <1>1, <2>1
    <3>2. n \in Nat /\ (n - 1) + 1 = n
      BY <1>1
    <3>. HIDE DEF x, R
    <3>4. DOMAIN g = 1..(n - 1) /\ 1..(n - 1) \subseteq 1..n
      BY <2>1, <3>2
    <3>5. \A a, b \in Seq(R \cup B) : /\ Len(a \o b) = Len(a) + Len(b)
                                      /\ \A j \in 1..Len(a) : (a \o b)[j] = a[j]
                                      /\ \A j \in 1..Len(b) : (a \o b)[Len(a) + j] = b[j]
      OBVIOUS
    <3>6. Len(g) = n - 1 /\ 1 \in 1..Len(<<x>>)
      BY <2>1, <3>1
    <3>3. Len(g \o <<x>>) = n /\ (g \o <<x>>)[n] = x /\ \A j \in 1..(n - 1) : (g \o <<x>>)[j] = g[j]
      BY <3>1, <3>2, <3>5, <3>6
    <3>. QED
      BY <2>2, <3>3 DEF x
  <2>4. n \in 0..L /\ \A j \in 1..n : j = n \/ j \in 1..(n - 1)
    BY <1>1
  <2>5. \A j \in 1..n : f[n][j] = order[j]
    <3>. HIDE DEF T, R
    <3>. QED
      BY <2>1, <2>3, <2>4
  <2>6. Len(f[n]) = n
    BY <2>3
  <2>. DEFINE h == f[n]
  <2>. HIDE DEF h, R
  <2>. QED
    BY <2>4, <2>5, <2>6
<1>7. L \in T
  <2>1. 0..L \subseteq T
    <3>. HIDE DEF T
    <3>. QED
      BY <1>1, <1>5, <1>6, Induction
  <2>. QED
    BY <1>1, <2>1
<1>8. f[L] = order
  <2>1. f[L] \in Seq(R)
    BY <1>1, <1>2, <1>4
  <2>2. Len(f[L]) = Len(order) /\ \A j \in 1..Len(order) : f[L][j] = order[j]
    BY <1>7 DEF L
  <2>. DEFINE h == f[L]
  <2>3. h \in Seq(R) /\ Len(h) = Len(order) /\ \A j \in 1..Len(order) : h[j] = order[j]
    BY <2>1, <2>2
  <2>4. order \in Seq(B)
    OBVIOUS
  <2>. HIDE DEF h, R, T
  <2>5. h = order
    <3>1. DOMAIN h = DOMAIN order /\ h = [j \in DOMAIN h |-> h[j]] /\ order = [j \in DOMAIN order |-> order[j]]
      BY <2>3, <2>4
    <3>2. \A j \in DOMAIN h : h[j] = order[j]
      BY <2>3, <2>4
    <3>. QED
      BY <3>1, <3>2
  <2>. QED
    BY <2>5 DEF h
<1>. QED
  BY <1>2, <1>4, <1>8 DEF tokens

\* What two sequences have, one after the other.
LEMMA RangeBoth ==
  ASSUME NEW V, NEW s \in Seq(V), NEW t \in Seq(V)
  PROVE  /\ s \o t \in Seq(V) /\ Range(s \o t) = Range(s) \cup Range(t)
         /\ (IsInjective(s) /\ IsInjective(t) /\ Range(s) \cap Range(t) = {}) => IsInjective(s \o t)
<1>. DEFINE u == s \o t
<1>1. /\ u \in Seq(V) /\ Len(s) \in Nat /\ Len(t) \in Nat
      /\ DOMAIN s = 1..Len(s) /\ DOMAIN t = 1..Len(t) /\ DOMAIN u = 1..(Len(s) + Len(t))
      /\ \A k \in 1..Len(s) : u[k] = s[k]
      /\ \A k \in 1..Len(t) : u[Len(s) + k] = t[k]
  OBVIOUS
<1>. HIDE DEF u
<1>2. \A k \in DOMAIN u : k \in DOMAIN s \/ \E j \in DOMAIN t : k = Len(s) + j
  <2>. SUFFICES ASSUME NEW k \in 1..(Len(s) + Len(t)), k \notin 1..Len(s)
                PROVE  k - Len(s) \in 1..Len(t) /\ k = Len(s) + (k - Len(s))
    BY <1>1
  <2>. QED
    BY <1>1
<1>3. \A k \in DOMAIN s : k \in DOMAIN u
  BY <1>1
<1>4. \A k \in DOMAIN t : Len(s) + k \in DOMAIN u
  BY <1>1
<1>5. Range(u) = Range(s) \cup Range(t)
  <2>1. ASSUME NEW k \in DOMAIN u
        PROVE  u[k] \in Range(s) \cup Range(t)
    BY <1>1, <1>2 DEF Range
  <2>2. ASSUME NEW k \in DOMAIN s
        PROVE  s[k] \in Range(u)
    BY <1>1, <1>3 DEF Range
  <2>3. ASSUME NEW k \in DOMAIN t
        PROVE  t[k] \in Range(u)
    BY <1>1, <1>4 DEF Range
  <2>. QED
    BY <2>1, <2>2, <2>3 DEF Range
<1>6. ASSUME IsInjective(s), IsInjective(t), Range(s) \cap Range(t) = {}
      PROVE  IsInjective(u)
  <2>1. \A j \in DOMAIN s, k \in DOMAIN t : s[j] # t[k]
    BY <1>6 DEF Range
  <2>2. ASSUME NEW j \in DOMAIN u, NEW k \in DOMAIN u, u[j] = u[k]
        PROVE  j = k
    <3>1. CASE j \in DOMAIN s /\ k \in DOMAIN s
      BY <1>1, <1>6, <2>2, <3>1 DEF IsInjective
    <3>2. CASE j \in DOMAIN s /\ k \notin DOMAIN s
      BY <1>1, <1>2, <2>1, <2>2, <3>2
    <3>3. CASE j \notin DOMAIN s /\ k \in DOMAIN s
      BY <1>1, <1>2, <2>1, <2>2, <3>3
    <3>4. CASE j \notin DOMAIN s /\ k \notin DOMAIN s
      BY <1>1, <1>2, <1>6, <2>2, <3>4 DEF IsInjective
    <3>. QED
      BY <3>1, <3>2, <3>3, <3>4
  <2>. QED
    BY <2>2 DEF IsInjective
<1>. QED
  BY <1>1, <1>5, <1>6 DEF u

\* A sequence is one of any set that has its elements.
LEMMA OfItsRange == \A V, W : \A s \in Seq(V) : Range(s) \subseteq W => s \in Seq(W)
<1>. SUFFICES ASSUME NEW V, NEW W, NEW s \in Seq(V), Range(s) \subseteq W
              PROVE  s \in Seq(W)
  OBVIOUS
<1>1. Len(s) \in Nat /\ DOMAIN s = 1..Len(s)
  OBVIOUS
<1>2. \A k \in 1..Len(s) : s[k] \in W
  BY <1>1 DEF Range
<1>. QED
  BY <1>1, <1>2

\* The file entries of an order.
Files(order) == {d \in Range(order) : d.kind = "file"}

\* What a machine can boot from: its devices and the file entries of its order.
LEMMA CanBoot ==
  ASSUME NEW D, NEW devs \in Seq(D), NEW B, NEW order \in Seq(B)
  PROVE  /\ devs \o FileEntries(order) \in Seq(D \cup B)
         /\ Range(devs \o FileEntries(order)) = Range(devs) \cup Files(order)
<1>. DEFINE S == {d \in Range(order) : d.kind = "file"}
            kept == Only(order, S)
<1>1. kept \in Seq(B \cap S) /\ Range(kept) = Range(order) \cap S
  BY OnlyKeeps
<1>2. Range(kept) = S
  BY <1>1
<1>. HIDE DEF S, kept
<1>3. kept \in Seq(D \cup B) /\ devs \in Seq(D \cup B)
  BY <1>1
<1>4. devs \o kept \in Seq(D \cup B) /\ Range(devs \o kept) = Range(devs) \cup S
  BY <1>2, <1>3, RangeBoth
<1>5. FileEntries(order) = kept
  BY Zenon DEF FileEntries, kept, S
<1>6. /\ devs \o FileEntries(order) \in Seq(D \cup B)
      /\ Range(devs \o FileEntries(order)) = Range(devs) \cup S
  BY <1>4, <1>5, Zenon
<1>. QED
  BY <1>6, Zenon DEF S, Files

\* A Generation 2 order given in tokens is one of the devices there are.
LEMMA DevicesOrderly ==
  ASSUME NEW D, NEW devs \in Seq(D), NEW B, NEW order \in Seq(B), NEW W, NEW tokens \in Seq(W)
  PROVE  Orderly(Devices(tokens, devs \o FileEntries(order)), 2, devs)
<1>. DEFINE all == devs \o FileEntries(order)
            new == Devices(tokens, all)
            C == Range(devs) \cup {d \in Range(new) : d.kind = "file"}
<1>0. all \in Seq(D \cup B) /\ Range(all) = Range(devs) \cup Files(order)
  BY CanBoot
<1>1. all \in Seq(D \cup B) /\ Range(all) = Range(devs) \cup {d \in Range(order) : d.kind = "file"}
  BY <1>0, Zenon DEF Files
<1>2. new \in Seq(Range(all))
  <2>. HIDE DEF all
  <2>1. PICK f \in [0..Len(tokens) -> Seq(Range(all))] : new = f[Len(tokens)]
    BY <1>1, DevicesList
  <2>2. Len(tokens) \in 0..Len(tokens)
    OBVIOUS
  <2>. QED
    BY <2>1, <2>2
<1>3. Range(new) \subseteq Range(all)
  <2>. HIDE DEF all, new
  <2>. QED
    BY <1>2 DEF Range
<1>4. Range(new) \subseteq C
  <2>. HIDE DEF all, new
  <2>. QED
    BY <1>1, <1>3
<1>5. new \in Seq(C)
  <2>. HIDE DEF all, new, C
  <2>. QED
    BY <1>2, <1>4, OfItsRange
<1>. QED
  BY <1>5 DEF Orderly

\* A Generation 1 order given in tokens is one of the four classes.
LEMMA BiosOrderly ==
  ASSUME NEW W, NEW tokens \in Seq(W), \A t \in Range(tokens) : t.kind \in Classes,
         NEW gen, gen # 2, NEW devs, NEW current, Orderly(current, gen, devs)
  PROVE  Orderly(BiosOrder(tokens, current), gen, devs)
<1>. DEFINE L == Len(tokens)
            R == {v \in Seq(Classes) : IsInjective(v)}
            Once(v, k) == IF k \in Range(v) THEN v ELSE Append(v, k)
            step == [n \in 1..L |-> [v \in R |-> Once(v, tokens[n].kind)]]
<1>1. L \in Nat /\ DOMAIN tokens = 1..L /\ \A n \in 1..L : tokens[n].kind \in Classes
  BY DEF Range
<1>2. <<>> \in R
  BY DEF IsInjective
<1>3. ASSUME NEW v \in R, NEW k \in Classes
      PROVE  Once(v, k) \in R
  <2>1. CASE k \in Range(v)
    BY <2>1
  <2>2. CASE k \notin Range(v)
    <3>1. /\ Append(v, k) \in Seq(Classes) /\ DOMAIN Append(v, k) = 1..(Len(v) + 1) /\ Len(v) \in Nat
          /\ DOMAIN v = 1..Len(v) /\ Append(v, k)[Len(v) + 1] = k
          /\ \A j \in 1..Len(v) : Append(v, k)[j] = v[j]
      OBVIOUS
    <3>2. \A j \in DOMAIN v : v[j] # k
      BY <2>2 DEF Range
    <3>3. \A j \in DOMAIN Append(v, k) : j \in DOMAIN v \/ j = Len(v) + 1
      BY <3>1
    <3>4. IsInjective(Append(v, k))
      BY <3>1, <3>2, <3>3 DEF IsInjective
    <3>. QED
      BY <2>2, <3>1, <3>4
  <2>. QED
    BY <2>1, <2>2
<1>4. step \in [1..L -> [R -> R]]
  <2>. HIDE DEF L, R, Once
  <2>. QED
    BY <1>1, <1>3
<1>5. PICK f : Recurs(f, L, R, <<>>, step)
  <2>. HIDE DEF L, R, step
  <2>. QED
    BY <1>1, <1>2, <1>4, Recursion
<1>6. ASSUME NEW n \in 1..L
      PROVE  f[n] = Once(f[n - 1], tokens[n].kind)
  <2>1. n - 1 \in 0..L
    BY <1>1
  <2>2. f[n] = step[n][f[n - 1]] /\ f[n - 1] \in R
    BY <1>5, <2>1 DEF Recurs
  <2>. HIDE DEF L, R, Once
  <2>. QED
    BY <2>2
<1>7. f = [n \in 0..Len(tokens) |->
             IF n = 0 THEN <<>>
             ELSE IF tokens[n].kind \in Range(f[n - 1]) THEN f[n - 1]
             ELSE Append(f[n - 1], tokens[n].kind)]
  <2>1. f \in [0..L -> R] /\ f[0] = <<>>
    BY <1>5 DEF Recurs
  <2>2. \A n \in 0..L : n = 0 \/ n \in 1..L
    BY <1>1
  <2>3. \A n \in 0..L : f[n] = IF n = 0 THEN <<>>
                              ELSE IF tokens[n].kind \in Range(f[n - 1]) THEN f[n - 1]
                              ELSE Append(f[n - 1], tokens[n].kind)
    <3>. HIDE DEF L, R
    <3>. QED
      BY <1>6, <2>1, <2>2
  <2>. QED
    BY <2>1, <2>3, Zenon
<1>. DEFINE named[n \in 0..Len(tokens)] ==
       IF n = 0 THEN <<>>
       ELSE IF tokens[n].kind \in Range(named[n - 1]) THEN named[n - 1]
       ELSE Append(named[n - 1], tokens[n].kind)
            first == named[L]
<1>8. named = [n \in 0..Len(tokens) |->
                 IF n = 0 THEN <<>>
                 ELSE IF tokens[n].kind \in Range(named[n - 1]) THEN named[n - 1]
                 ELSE Append(named[n - 1], tokens[n].kind)]
  BY <1>7, Zenon DEF named
<1>9. BiosOrder(tokens, current) = first \o Only(current, Range(current) \ Range(first))
  BY Zenon DEF BiosOrder, named
<1>10. first \in R
  <2>. DEFINE T == {n \in 0..L : named[n] \in R}
  <2>0. 0 \in 0..L /\ L \in 0..L /\ \A n \in 1..L : n \in 0..L /\ n # 0
    BY <1>1
  <2>. HIDE DEF named
  <2>1. named[0] = <<>>
    BY <1>8, <2>0
  <2>2. ASSUME NEW n \in 1..L
        PROVE  named[n] = Once(named[n - 1], tokens[n].kind)
    <3>1. n \in 0..Len(tokens) /\ n # 0
      BY <2>0
    <3>. QED
      BY <1>8, <3>1, Zenon
  <2>3. 0 \in T /\ \A n \in 1..L : n - 1 \in T => n \in T
    <3>. HIDE DEF L, R, Once
    <3>. QED
      BY <1>1, <1>2, <1>3, <2>0, <2>1, <2>2
  <2>4. 0..L \subseteq T
    <3>. HIDE DEF T, L
    <3>. QED
      BY <1>1, <2>3, Induction
  <2>. HIDE DEF L, R
  <2>. QED
    BY <2>0, <2>4
<1>. HIDE DEF named, first
<1>. DEFINE S == Range(current) \ Range(first)
            rest == Only(current, S)
<1>11. current \in Seq(Classes) /\ IsInjective(current) /\ Classes \subseteq Range(current)
  BY DEF Orderly
<1>12. rest \in Seq(Classes \cap S) /\ Range(rest) = Range(current) \cap S /\ IsInjective(rest)
  <2>. HIDE DEF S
  <2>. QED
    BY <1>11, OnlyKeeps
<1>. HIDE DEF rest
<1>13. rest \in Seq(Classes) /\ first \in Seq(Classes) /\ IsInjective(first)
  <2>. HIDE DEF S
  <2>. QED
    BY <1>10, <1>12
<1>14. Range(first) \cap Range(rest) = {} /\ Classes \subseteq Range(first) \cup Range(rest)
  BY <1>11, <1>12
<1>15. /\ first \o rest \in Seq(Classes) /\ IsInjective(first \o rest)
       /\ Range(first \o rest) = Range(first) \cup Range(rest)
  BY <1>12, <1>13, <1>14, RangeBoth
<1>16. BiosOrder(tokens, current) = first \o rest
  BY <1>9 DEF rest, S
<1>. QED
  BY <1>14, <1>15, <1>16 DEF Orderly

\* Such an order names each class once.
LEMMA OrderlyPermutes ==
  ASSUME NEW order, NEW devs, Orderly(order, 1, devs)
  PROVE  Len(order) = Cardinality(Classes) /\ Range(order) = Classes
<1>1. order \in Seq(Classes) /\ IsInjective(order) /\ Classes \subseteq Range(order)
  BY DEF Orderly
<1>2. Range(order) = Classes
  BY <1>1 DEF Range
<1>3. Len(order) \in Nat /\ order \in [1..Len(order) -> Classes]
  BY <1>1
<1>4. order \in Injection(1..Len(order), Classes)
  BY <1>1, <1>3 DEF Injection, IsInjective
<1>5. order \in Bijection(1..Len(order), Classes)
  BY <1>2, <1>3, <1>4 DEF Bijection, Surjection, Range
<1>6. Cardinality(Classes) = Cardinality(1..Len(order)) /\ IsFiniteSet(1..Len(order))
  BY <1>3, <1>5, FS_Interval, FS_Bijection DEF ExistsBijection
<1>7. Cardinality(1..Len(order)) = Len(order)
  BY <1>3, FS_Interval
<1>. QED
  BY <1>2, <1>6, <1>7

(***************************************************************************)
(* The cmdlets of a settings tool: an order they write is one the machine  *)
(* can have.                                                               *)
(***************************************************************************)
Boots(set, gen, devs) == "boot" \in DOMAIN set => Orderly(set["boot"], gen, devs)
BootPlan(s, gen, devs) == \E Sets : s \in Seq(Sets) /\ \A set \in Sets : Boots(set, gen, devs)

\* Plans are put together from such cmdlets.
LEMMA BootsNone == ASSUME NEW gen, NEW devs PROVE BootPlan(<<>>, gen, devs)
<1>. DEFINE Sets == {}
<1>1. <<>> \in Seq(Sets) /\ \A set \in Sets : Boots(set, gen, devs)
  OBVIOUS
<1>. HIDE DEF Sets
<1>. QED
  BY <1>1, Zenon DEF BootPlan

LEMMA BootsOne ==
  ASSUME NEW gen, NEW devs, NEW set, Boots(set, gen, devs)
  PROVE  BootPlan(<<set>>, gen, devs)
<1>. DEFINE Sets == {set}
<1>1. <<set>> \in Seq(Sets) /\ \A one \in Sets : Boots(one, gen, devs)
  OBVIOUS
<1>. HIDE DEF Sets
<1>. QED
  BY <1>1, Zenon DEF BootPlan

LEMMA BootsBoth ==
  ASSUME NEW gen, NEW devs, NEW s, NEW t, BootPlan(s, gen, devs), BootPlan(t, gen, devs)
  PROVE  BootPlan(s \o t, gen, devs)
<1>1. PICK S : s \in Seq(S) /\ \A set \in S : Boots(set, gen, devs)
  BY DEF BootPlan
<1>2. PICK T : t \in Seq(T) /\ \A set \in T : Boots(set, gen, devs)
  BY DEF BootPlan
<1>3. s \in Seq(S \cup T) /\ t \in Seq(S \cup T)
  BY <1>1, <1>2
<1>4. s \o t \in Seq(S \cup T)
  BY <1>3
<1>. QED
  BY <1>1, <1>2, <1>4 DEF BootPlan

LEMMA BootsRest ==
  ASSUME NEW gen, NEW devs, NEW s, BootPlan(s, gen, devs), s # <<>>
  PROVE  Boots(Head(s), gen, devs) /\ BootPlan(Tail(s), gen, devs)
<1>1. PICK S : s \in Seq(S) /\ \A set \in S : Boots(set, gen, devs)
  BY DEF BootPlan
<1>2. Head(s) \in S /\ Tail(s) \in Seq(S)
  BY <1>1
<1>. QED
  BY <1>1, <1>2 DEF BootPlan

Device == [kind : STRING, qual : STRING]

\* What a machine that exists, or an export of one, starts from.
Bootful(m) == m.devs \in Seq(Device) /\ Orderly(m.conf["boot"], m.gen, m.devs)

\* The order a firmware call plans is one of the machine's.
LEMMA NewBootOrderly ==
  ASSUME NEW r, NEW i, Bootful(vms[i]), ~RefusesBoot(r, i), Given(r, "boot"), r.set.boot \in Seq(Device)
  PROVE  Orderly(NewBoot(r, i), vms[i].gen, vms[i].devs)
<1>1. CASE vms[i].gen = 2
  <2>1. vms[i].conf.boot \in Seq(Range(vms[i].devs) \cup {d \in Range(vms[i].conf.boot) : d.kind = "file"})
    BY <1>1 DEF Bootful, Orderly
  <2>2. Orderly(Devices(r.set.boot, vms[i].devs \o FileEntries(vms[i].conf.boot)), 2, vms[i].devs)
    BY <2>1, DevicesOrderly DEF Bootful
  <2>. QED
    BY <1>1, <2>2, Zenon DEF NewBoot, Bootable
<1>2. CASE vms[i].gen # 2
  <2>1. \A t \in Range(r.set.boot) : t.kind \in Classes
    BY <1>2 DEF RefusesBoot
  <2>2. Orderly(BiosOrder(r.set.boot, vms[i].conf.boot), vms[i].gen, vms[i].devs)
    BY <1>2, <2>1, BiosOrderly DEF Bootful
  <2>. QED
    BY <1>2, <2>2, Zenon DEF NewBoot
<1>. QED
  BY <1>1, <1>2

\* No other tool offers to set an order.
LEMMA CmdletsBoot ==
  ASSUME NEW r, NEW i, WellFormed(r), r.op \in Setters, Bootful(vms[i]), ~ScriptRefuses(r, i)
  PROVE  BootPlan(Cmdlets(r, i), vms[i].gen, vms[i].devs)
<1>. DEFINE P(s) == BootPlan(s, vms[i].gen, vms[i].devs)
<1>0. P(<<>>) /\ \A s, t : P(s) /\ P(t) => P(s \o t)
  BY BootsNone, BootsBoth
<1>1. \A set : "boot" \notin DOMAIN set => P(<<set>>)
  BY BootsOne DEF Boots
<1>2. DOMAIN r.set \subseteq Offers[r.op]
  BY DEF WellFormed
<1>3. r.op # "set_vm_firmware" => "boot" \notin DOMAIN r.set
  BY <1>2 DEF Offers, Setters
<1>. HIDE DEF P
<1>4. \A f \in {"nested", "encrypt", "tpm", "gsi", "kvp", "vss", "trunk", "secure", "numlock"} :
        P(OneOf(r, f))
  BY <1>0, <1>1 DEF OneOf
<1>5. r.op = "set_vm_nested_virtualization" => P(Cmdlets(r, i))
  <2>1. P(IF r.set.nested /\ vms[i].conf.dynamic THEN <<[dynamic |-> FALSE]>> ELSE <<>>)
    BY <1>0, <1>1
  <2>2. P(NestedCmdlets(r, i))
    BY <1>0, <1>4, <2>1 DEF NestedCmdlets
  <2>. QED
    BY <2>2 DEF Cmdlets
<1>6. r.op = "set_vm_security" => P(Cmdlets(r, i))
  <2>1. P(IF (\E f \in DOMAIN r.set : r.set[f]) /\ ~vms[i].conf.protector
          THEN <<[protector |-> TRUE]>> ELSE <<>>)
    BY <1>0, <1>1
  <2>2. P(SecurityCmdlets(r, i))
    BY <1>0, <1>4, <2>1 DEF SecurityCmdlets
  <2>. QED
    BY <2>2 DEF Cmdlets
<1>7. r.op = "set_vm_integration_services" => P(Cmdlets(r, i))
  <2>1. P(ServiceCmdlets(r))
    BY <1>0, <1>4 DEF ServiceCmdlets
  <2>. QED
    BY <2>1 DEF Cmdlets
<1>8. r.op = "set_vm_network_advanced" => P(Cmdlets(r, i))
  <2>1. r.op = "set_vm_network_advanced" =>
          P(IF DOMAIN r.set \ {"trunk"} = {} THEN <<>> ELSE <<Restrict(r.set, DOMAIN r.set \ {"trunk"})>>)
    BY <1>0, <1>1, <1>3 DEF Restrict
  <2>2. r.op = "set_vm_network_advanced" => P(AdapterCmdlets(r))
    BY <1>0, <1>4, <2>1 DEF AdapterCmdlets
  <2>. QED
    BY <2>2 DEF Cmdlets
<1>9. r.op = "set_vm_firmware" => P(Cmdlets(r, i))
  <2>. HAVE r.op = "set_vm_firmware"
  <2>1. P(IF Given(r, "boot") THEN <<[boot |-> NewBoot(r, i)]>> ELSE <<>>)
    <3>1. CASE Given(r, "boot")
      <4>1. r.set.boot \in Seq(Device) /\ ~RefusesBoot(r, i)
        BY <3>1 DEF WellFormed, ScriptRefuses, Device
      <4>2. Boots([boot |-> NewBoot(r, i)], vms[i].gen, vms[i].devs)
        BY <3>1, <4>1, NewBootOrderly DEF Boots
      <4>3. P(<<[boot |-> NewBoot(r, i)]>>)
        BY <4>2, BootsOne DEF P
      <4>. QED
        BY <3>1, <4>3
    <3>2. CASE ~Given(r, "boot")
      BY <1>0, <3>2
    <3>. QED
      BY <3>1, <3>2
  <2>2. P(FirmwareCmdlets(r, i))
    BY <1>0, <1>4, <2>1 DEF FirmwareCmdlets
  <2>. QED
    BY <2>2 DEF Cmdlets
<1>10. r.op = "set_vm_video" => P(Cmdlets(r, i))
  <2>1. r.op = "set_vm_video" => P(VideoCmdlets(r))
    BY <1>1, <1>3 DEF VideoCmdlets, Over
  <2>. QED
    BY <2>1 DEF Cmdlets
<1>11. r.op \notin {"set_vm_nested_virtualization", "set_vm_security", "set_vm_integration_services",
                    "set_vm_network_advanced", "set_vm_firmware", "set_vm_video"} => P(Cmdlets(r, i))
  <2>1. r.op # "set_vm_firmware" => P(InOneCmdlet(r))
    BY <1>1, <1>3 DEF InOneCmdlet
  <2>. QED
    BY <2>1 DEF Cmdlets
<1>. QED
  BY <1>5, <1>6, <1>7, <1>8, <1>9, <1>10, <1>11 DEF P

(***************************************************************************)
(* The orders of the machines, the exports and the calls under way.        *)
(***************************************************************************)
MachinesBootful == \A i \in Ids : Exists(i) => ~NeverUsed(i) /\ Bootful(vms[i])
ExportsBootful ==
  \A e \in exports :
    /\ Bootful(e)
    /\ e.id \in Ids => ~NeverUsed(e.id) /\ vms[e.id].gen = e.gen /\ vms[e.id].devs = e.devs
PlansBootful ==
  \A c \in Callers : At(c, Setters, "apply") =>
    LET i == Loc(c).on IN
    i \in Ids /\ ~NeverUsed(i) /\ BootPlan(Loc(c).todo, vms[i].gen, vms[i].devs)
BootsSound == MachinesBootful /\ ExportsBootful /\ PlansBootful

\* What most steps leave of a machine, if they do not remove it.
Stays(i) ==
  /\ vms'[i].gen = vms[i].gen /\ vms'[i].devs = vms[i].devs /\ (NeverUsed(i)' => NeverUsed(i))
  /\ Exists(i)' => Exists(i) /\ vms'[i].conf["boot"] = vms[i].conf["boot"]
AllStay == \A i \in Ids : Stays(i)

\* A script leaves it, unless it makes or imports a machine.
LEMMA ScriptStays ==
  ASSUME MachinesFormed, NEW c \in Callers, Script(c)
  PROVE  AllStay \/ NewVM(c) \/ ImportVM(c)
<1>. USE DEF MachinesFormed, MachineFields, AllStay, Stays, Exists, NeverUsed, storeVars, OnlyVMs,
   StillThere
<1>0. UNCHANGED vms => AllStay
  OBVIOUS
<1>1. CASE \/ LookUp(c, {"stop_vm", "restart_vm"}, Present, "stop")
            \/ LookUp(c, {"suspend_vm"}, {"Running"}, "act")
            \/ LookUp(c, {"resume_vm"}, {"Running", "Paused", "Saved"}, "act")
            \/ LookUp(c, {"create_checkpoint", "attach_vhd", "export_vm"}, Present, "act")
  BY <1>0, <1>1 DEF LookUp
<1>2. CASE \/ FindForStart(c) \/ PollForOff(c) \/ ReportByName(c) \/ FindCheckpoint(c) \/ RestoreCheckpoint(c)
            \/ AwaitMerge(c) \/ ReadParent(c) \/ MakeChild(c) \/ ChildMade(c) \/ CheckNewName(c)
            \/ FindForDelete(c) \/ Survey(c) \/ RemoveDisk(c) \/ FindForRename(c) \/ ExportVM(c)
            \/ CreateVHD(c) \/ ConvertVHD(c) \/ FindForResize(c) \/ ResizeVHD(c) \/ FindForDetach(c)
            \/ ClearSeedPath(c) \/ MakeSeedDisk(c) \/ MountSeedDisk(c) \/ WriteSeedDisk(c) \/ EndScript(c)
            \/ ScriptDies(c)
  BY <1>0, <1>2 DEF FindForStart, PollForOff, ReportByName, FindCheckpoint, RestoreCheckpoint,
     AwaitMerge, ReadParent, MakeChild, ChildMade, CheckNewName, FindForDelete, Survey,
     RemoveDisk, FindForRename, ExportVM, CreateVHD, ConvertVHD, FindForResize, ResizeVHD,
     FindForDetach, ClearSeedPath, MakeSeedDisk, MountSeedDisk, WriteSeedDisk, EndScript,
     ScriptDies
<1>3. CASE StartVM(c) \/ StopVM(c) \/ Suspend(c) \/ Resume(c) \/ TurnOff(c)
  <2>1. ASSUME NEW on, NEW s, Become(on, s), \A i \in on : Exists(i)
        PROVE  AllStay
    BY <2>1 DEF Become
  <2>2. CASE StartVM(c)
    BY <1>0, <2>1, <2>2 DEF StartVM
  <2>3. CASE StopVM(c)
    BY <1>0, <2>1, <2>3 DEF StopVM
  <2>4. CASE Suspend(c)
    BY <2>1, <2>4 DEF Suspend
  <2>5. CASE Resume(c)
    BY <1>0, <2>1, <2>5 DEF Resume
  <2>6. CASE TurnOff(c)
    BY <2>1, <2>6 DEF TurnOff
  <2>. QED
    BY <1>3, <2>2, <2>3, <2>4, <2>5, <2>6
<1>4. CASE CreateCheckpoint(c)
  BY <1>4 DEF CreateCheckpoint
<1>5. CASE DeleteCheckpoint(c)
  BY <1>5 DEF DeleteCheckpoint
<1>6. CASE Configure(c) \/ BootDevices(c)
  BY <1>6 DEF Configure, BootDevices
<1>7. CASE RemoveVM(c)
  <2>1. \A m : /\ Gone(m).gen = m.gen /\ Gone(m).devs = m.devs
               /\ Gone(m).state = "none" /\ Gone(m).built = "gone"
    BY DEF Gone, NoVM
  <2>. QED
    BY <1>7, <2>1 DEF RemoveVM
<1>8. CASE AttachVHD(c) \/ DetachVHD(c)
  <2>1. CASE AttachVHD(c)
    BY <2>1 DEF AttachVHD
  <2>2. CASE DetachVHD(c)
    BY <2>2 DEF DetachVHD
  <2>. QED
    BY <1>8, <2>1, <2>2
<1>9. CASE RenameVM(c)
  BY <1>9 DEF RenameVM
<1>. QED
  BY <1>1, <1>2, <1>3, <1>4, <1>5, <1>6, <1>7, <1>8, <1>9 DEF Script

\* The scripts of settings and networks leave it, unless a cmdlet sets it.
LEMMA OthersLeave ==
  ASSUME MachinesFormed, NEW c \in Callers, Settings(c) \/ Networking(c)
  PROVE  AllStay \/ ApplySetting(c)
<1>. USE DEF MachinesFormed, MachineFields, AllStay, Stays, Exists, NeverUsed, storeVars
<1>1. CASE \/ CheckNewSwitch(c) \/ NewSwitch(c) \/ FindSwitch(c) \/ ClearHostAddress(c) \/ SetHostAddress(c)
            \/ RemoveNAT(c) \/ NewNAT(c) \/ FindAdapter(c) \/ FindForSetting(c)
  BY <1>1 DEF CheckNewSwitch, NewSwitch, FindSwitch, ClearHostAddress, SetHostAddress,
     RemoveNAT, NewNAT, FindAdapter, FindForSetting
<1>2. CASE DeleteSwitch(c)
  BY <1>2 DEF DeleteSwitch
<1>3. ASSUME NEW i, NEW nics, SetNics(i, nics)
      PROVE  AllStay
  BY <1>3 DEF SetNics
<1>4. CASE AddAdapter(c) \/ SetPort(c) \/ RemoveAdapter(c)
  BY <1>3, <1>4 DEF AddAdapter, SetPort, RemoveAdapter, Rewire
<1>5. CASE ConnectAdapter(c)
  BY <1>3, <1>5 DEF ConnectAdapter, Rewire
<1>. QED
  BY <1>1, <1>2, <1>4, <1>5 DEF Settings, Networking

\* Every step leaves what the machines boot from, but for three.
LEMMA MachinesStay ==
  ASSUME MachinesFormed, [Next]_vars
  PROVE  AllStay \/ \E c \in Callers : Works(c) /\ (NewVM(c) \/ ImportVM(c) \/ ApplySetting(c))
<1>1. UNCHANGED vms => AllStay
  BY DEF AllStay, Stays, Exists, NeverUsed
<1>2. ASSUME NEW c \in Callers, Ask(c) \/ GetsSlot(c) \/ GivesUp(c)
      PROVE  UNCHANGED vms
  BY <1>2 DEF Ask, GetsSlot, GivesUp, OnlyTheCall, storeVars
<1>3. ASSUME NEW c \in Callers, Works(c)
      PROVE  AllStay \/ NewVM(c) \/ ImportVM(c) \/ ApplySetting(c)
  <2>1. CASE RunsScript(c) \/ RunsNetworkScript(c)
    BY <2>1, ScriptStays, OthersLeave DEF RunsScript, RunsNetworkScript
  <2>2. CASE EndsRename(c) \/ MovesRecords(c) \/ Answers(c)
    BY <1>1, <2>2 DEF EndsRename, OnlyTheCall, MovesRecords, Answers, storeVars
  <2>. QED
    BY <1>3, <2>1, <2>2 DEF Works
<1>4. CASE FilesRecord \/ UNCHANGED vars
  BY <1>1, <1>4 DEF FilesRecord, vars, storeVars
<1>5. ASSUME NEW i \in Ids, GuestShutsDown(i) \/ MergeEnds(i)
      PROVE  AllStay
  BY <1>5 DEF GuestShutsDown, MergeEnds, Become, AllStay, Stays, Exists, NeverUsed, MachinesFormed,
     MachineFields
<1>6. CASE Meanwhile
  BY <1>1, <1>5, <1>6 DEF Meanwhile, CableMoves, storeVars
<1>. QED
  BY <1>1, <1>2, <1>3, <1>4, <1>6 DEF Next

\* An identifier that has been used stays so, with the machine's kind and devices.
UsedStay ==
  \A i \in Ids : ~NeverUsed(i) =>
    ~NeverUsed(i)' /\ vms'[i].gen = vms[i].gen /\ vms'[i].devs = vms[i].devs

\* Every step keeps the orders of the machines.
LEMMA MachinesBoot ==
  ASSUME MachinesFormed, Configured, BootsSound, [Next]_vars
  PROVE  /\ UsedStay
         /\ \A i \in Ids : Exists(i)' => ~NeverUsed(i)' /\ Bootful(vms'[i])
<1>. DEFINE Goal == /\ UsedStay
                    /\ \A i \in Ids : Exists(i)' => ~NeverUsed(i)' /\ Bootful(vms'[i])
<1>1. CASE AllStay
  <2>1. UsedStay
    BY <1>1 DEF AllStay, Stays, UsedStay
  <2>2. ASSUME NEW i \in Ids, Exists(i)'
        PROVE  ~NeverUsed(i)' /\ Bootful(vms'[i])
    BY <1>1, <2>2 DEF AllStay, Stays, BootsSound, MachinesBootful, ExportsBootful, PlansBootful, Bootful
  <2>. QED
    BY <2>1, <2>2
\* One machine comes, or is set anew.
<1>2. ASSUME NEW i \in Ids, NEW m, vms' = [vms EXCEPT ![i] = m], m.built # "no",
             m.state # "none" => Bootful(m),
             ~NeverUsed(i) => m.gen = vms[i].gen /\ m.devs = vms[i].devs
      PROVE  Goal
  <2>1. vms'[i] = m /\ \A j \in Ids \ {i} : vms'[j] = vms[j]
    BY <1>2 DEF MachinesFormed
  <2>2. UsedStay
    BY <1>2, <2>1 DEF UsedStay, NeverUsed
  <2>3. ASSUME NEW j \in Ids, Exists(j)'
        PROVE  ~NeverUsed(j)' /\ Bootful(vms'[j])
    BY <1>2, <2>1, <2>3 DEF BootsSound, MachinesBootful, ExportsBootful, PlansBootful, NeverUsed, Exists
  <2>. QED
    BY <2>2, <2>3
<1>3. ASSUME NEW c \in Callers, NewVM(c)
      PROVE  Goal
  <2>0. PICK i \in Ids : /\ NeverUsed(i)
                          /\ \E nics :
                               vms' = [vms EXCEPT ![i] = [NoVM EXCEPT !.state = "Off", !.name = Req(c).name,
                                         !.disks = {Req(c).disk}, !.nics = nics, !.built = "bare",
                                         !.checked = call[c].alone]]
    BY <1>3 DEF NewVM
  <2>1. PICK nics :
          vms' = [vms EXCEPT ![i] = [NoVM EXCEPT !.state = "Off", !.name = Req(c).name,
                    !.disks = {Req(c).disk}, !.nics = nics, !.built = "bare", !.checked = call[c].alone]]
    BY <2>0
  <2>. DEFINE m == [NoVM EXCEPT !.state = "Off", !.name = Req(c).name,
                       !.disks = {Req(c).disk}, !.nics = nics, !.built = "bare", !.checked = call[c].alone]
  <2>2. m.built = "bare" /\ m.gen = 2 /\ m.devs = <<>> /\ m.conf = DefaultConf
    BY DEF NoVM
  <2>3. DefaultConf["boot"] = <<>>
    BY DEF DefaultConf
  <2>4. Orderly(<<>>, 2, <<>>)
    BY DEF Orderly
  <2>. HIDE DEF m
  <2>5. Bootful(m)
    <3>1. <<>> \in Seq(Device)
      OBVIOUS
    <3>. QED
      BY <2>2, <2>3, <2>4, <3>1 DEF Bootful
  <2>6. vms' = [vms EXCEPT ![i] = m] /\ m.built # "no"
    BY <2>1, <2>2 DEF m
  <2>. QED
    BY <1>2, <2>0, <2>5, <2>6
<1>4. ASSUME NEW c \in Callers, ImportVM(c)
      PROVE  Goal
  <2>1. CASE UNCHANGED vms
    BY <2>1 DEF UsedStay, BootsSound, MachinesBootful, ExportsBootful, PlansBootful, Exists, NeverUsed
  <2>2. CASE ~UNCHANGED vms
    <3>1. PICK e \in exports, i \in Ids :
            /\ NeverUsed(i) \/ i = e.id
            /\ vms' = [vms EXCEPT ![i] = [NoVM EXCEPT !.state = "Off", !.name = e.name, !.gen = e.gen,
                         !.devs = e.devs, !.conf = e.conf, !.built = "whole", !.checked = FALSE]]
      BY <1>4, <2>2 DEF ImportVM
    <3>. DEFINE m == [NoVM EXCEPT !.state = "Off", !.name = e.name, !.gen = e.gen,
                         !.devs = e.devs, !.conf = e.conf, !.built = "whole", !.checked = FALSE]
    <3>2. m.built = "whole" /\ m.gen = e.gen /\ m.devs = e.devs /\ m.conf = e.conf
      BY DEF NoVM
    <3>. HIDE DEF m
    <3>3. Bootful(m)
      BY <3>2 DEF BootsSound, MachinesBootful, ExportsBootful, PlansBootful, Bootful
    <3>4. ~NeverUsed(i) => m.gen = vms[i].gen /\ m.devs = vms[i].devs
      BY <3>1, <3>2 DEF BootsSound, MachinesBootful, ExportsBootful, PlansBootful
    <3>5. vms' = [vms EXCEPT ![i] = m] /\ m.built # "no"
      BY <3>1, <3>2 DEF m
    <3>. QED
      BY <1>2, <3>3, <3>4, <3>5
  <2>. QED
    BY <2>1, <2>2
<1>5. ASSUME NEW c \in Callers, ApplySetting(c)
      PROVE  Goal
  <2>1. CASE UNCHANGED vms
    BY <2>1 DEF UsedStay, BootsSound, MachinesBootful, ExportsBootful, PlansBootful, Exists, NeverUsed
  <2>2. CASE ~UNCHANGED vms
    <3>. DEFINE i == Loc(c).on  set == Head(Loc(c).todo)  off == vms[i].state = "Off"
                new == Taken(vms[i].conf, set, off)
                m == [vms[i] EXCEPT !.conf = new]
    <3>1. /\ At(c, Setters, "apply") /\ Loc(c).todo # <<>> /\ Exists(i)
          /\ vms' = [vms EXCEPT ![i].conf = new]
      BY <1>5, <2>2 DEF ApplySetting
    <3>2. i \in Ids /\ ~NeverUsed(i) /\ BootPlan(Loc(c).todo, vms[i].gen, vms[i].devs)
      BY <3>1 DEF BootsSound, MachinesBootful, ExportsBootful, PlansBootful
    <3>3. Boots(set, vms[i].gen, vms[i].devs) /\ Bootful(vms[i])
      BY <3>1, <3>2, BootsRest DEF BootsSound, MachinesBootful, ExportsBootful, PlansBootful
    <3>4. "boot" \in DOMAIN vms[i].conf
      BY <3>2 DEF Configured, Settable, DefaultConf
    <3>5. new["boot"] = IF "boot" \in DOMAIN set THEN set["boot"] ELSE vms[i].conf["boot"]
      BY <3>4 DEF Taken, Over
    <3>6. /\ m.gen = vms[i].gen /\ m.devs = vms[i].devs /\ m.built = vms[i].built
          /\ m.state = vms[i].state /\ m.conf = new
      BY <3>2 DEF MachinesFormed, MachineFields
    <3>. HIDE DEF new, set, i
    <3>7. vms' = [vms EXCEPT ![i] = m]
      BY <3>1, <3>2 DEF MachinesFormed
    <3>. HIDE DEF m
    <3>8. Bootful(m)
      BY <3>3, <3>5, <3>6 DEF Boots, Bootful
    <3>9. m.built # "no"
      BY <3>2, <3>6 DEF NeverUsed
    <3>. QED
      BY <1>2, <3>2, <3>6, <3>7, <3>8, <3>9
  <2>. QED
    BY <2>1, <2>2
<1>. QED
  BY <1>1, <1>3, <1>4, <1>5, MachinesStay

\* Every step keeps what exports have, and what settings calls are to write.
LEMMA BootsNext ==
  ASSUME TypesInv, BootsSound, [Next]_vars
  PROVE  BootsSound'
<1>0. Shaped /\ QueueOK /\ MachinesFormed /\ Configured /\ ExportsFormed /\ Asked
  BY DEF TypesInv, NamesInv, SlotsInv
<1>1. UsedStay /\ \A i \in Ids : Exists(i)' => ~NeverUsed(i)' /\ Bootful(vms'[i])
  BY <1>0, MachinesBoot
<1>2. ASSUME NEW e \in exports'
      PROVE  /\ Bootful(e)
             /\ e.id \in Ids => /\ ~NeverUsed(e.id)'
                                /\ vms'[e.id].gen = e.gen /\ vms'[e.id].devs = e.devs
  <2>1. CASE e \in exports
    BY <1>1, <2>1 DEF BootsSound, MachinesBootful, ExportsBootful, PlansBootful, UsedStay
  <2>2. CASE e \notin exports
    <3>1. PICK c \in Callers : ExportVM(c)
      BY <2>2, ExportsCome
    <3>2. PICK i \in Loc(c) : e = Exported(i, vms[i])
      BY <2>2, <3>1 DEF ExportVM
    <3>3. i \in Ids /\ Exists(i) /\ UNCHANGED vms
      BY <1>0, <3>1, <3>2 DEF ExportVM, StillThere, ExportsFormed
    <3>4. e.id = i /\ e.gen = vms[i].gen /\ e.devs = vms[i].devs /\ e.conf = vms[i].conf
      BY <3>2 DEF Exported
    <3>. QED
      BY <3>3, <3>4 DEF BootsSound, MachinesBootful, ExportsBootful, PlansBootful, Bootful, NeverUsed
  <2>. QED
    BY <2>1, <2>2
<1>3. ASSUME NEW c \in Callers, At(c, Setters, "apply")'
      PROVE  LET i == call'[c].loc.on IN
             i \in Ids /\ vms'[i].built # "no" /\ BootPlan(call'[c].loc.todo, vms'[i].gen, vms'[i].devs)
  <2>. DEFINE Sound(loc) == /\ loc.on \in Ids /\ ~NeverUsed(loc.on)
                            /\ BootPlan(loc.todo, vms[loc.on].gen, vms[loc.on].devs)
  <2>1. Scripting(c)' /\ call'[c].pc = "apply" /\ call'[c].req.op \in Setters
    BY <1>3 DEF At, Req
  <2>2. Sound(call'[c].loc)
    <3>1. CASE Stands(c)
      BY <2>1, <3>1 DEF Stands, BootsSound, MachinesBootful, ExportsBootful, PlansBootful, At, Req, Loc
    <3>2. CASE GoesOnItself(c)
      <4>1. Req(c).op \in Setters /\ (FindForSetting(c) \/ ApplySetting(c)) /\ ~Throw(c)
        BY <1>0, <2>1, <3>2, ToolWorks, EndsLeave DEF GoesOnItself, Req, Leaves, Scripting
      <4>2. ASSUME NEW pc, NEW loc, Goto(c, pc, loc) \/ Effect(c, pc, loc)
            PROVE  call'[c].pc = pc /\ call'[c].loc = loc
        BY <1>0, <4>2, Places
      <4>3. CASE FindForSetting(c)
        <5>1. PICK i \in Ids : /\ Exists(i) /\ ~ScriptRefuses(Req(c), i)
                               /\ Goto(c, "apply", [on |-> i, todo |-> Cmdlets(Req(c), i)])
          BY <4>1, <4>3 DEF FindForSetting, Named
        <5>2. call'[c].loc = [on |-> i, todo |-> Cmdlets(Req(c), i)]
          BY <4>2, <5>1
        <5>3. ~NeverUsed(i) /\ Bootful(vms[i]) /\ WellFormed(Req(c))
          BY <1>0, <5>1 DEF BootsSound, MachinesBootful, ExportsBootful, PlansBootful, Asked, Req
        <5>4. BootPlan(Cmdlets(Req(c), i), vms[i].gen, vms[i].devs)
          BY <4>1, <5>1, <5>3, CmdletsBoot
        <5>. QED
          BY <5>2, <5>3, <5>4
      <4>4. CASE ApplySetting(c)
        <5>1. At(c, Setters, "apply") /\ ~Goto(c, "end", {Loc(c).on})
          BY <2>1, <4>2, <4>4 DEF ApplySetting
        <5>2. Loc(c).todo # <<>> /\ Effect(c, "apply", [on |-> Loc(c).on, todo |-> Tail(Loc(c).todo)])
          BY <4>1, <4>4, <5>1 DEF ApplySetting
        <5>3. call'[c].loc = [on |-> Loc(c).on, todo |-> Tail(Loc(c).todo)]
          BY <4>2, <5>2
        <5>4. Sound(Loc(c))
          BY <5>1 DEF BootsSound, MachinesBootful, ExportsBootful, PlansBootful
        <5>5. BootPlan(Tail(Loc(c).todo), vms[Loc(c).on].gen, vms[Loc(c).on].devs)
          BY <5>2, <5>4, BootsRest
        <5>. QED
          BY <5>3, <5>4, <5>5
      <4>. QED
        BY <4>1, <4>3, <4>4
    <3>. QED
      BY <1>0, <2>1, <3>1, <3>2, ScriptMoves DEF Entries, Looking
  <2>. DEFINE i == call'[c].loc.on
  <2>3. i \in Ids /\ ~NeverUsed(i) /\ BootPlan(call'[c].loc.todo, vms[i].gen, vms[i].devs)
    BY <2>2
  <2>. HIDE DEF i
  <2>4. vms'[i].built # "no" /\ vms'[i].gen = vms[i].gen /\ vms'[i].devs = vms[i].devs
    BY <1>1, <2>3 DEF UsedStay, NeverUsed
  <2>5. i \in Ids /\ vms'[i].built # "no" /\ BootPlan(call'[c].loc.todo, vms'[i].gen, vms'[i].devs)
    BY <2>3, <2>4
  <2>. QED
    BY <2>5 DEF i
<1>4. MachinesBootful'
  BY <1>1 DEF MachinesBootful
<1>5. ExportsBootful'
  BY <1>2 DEF ExportsBootful
<1>6. PlansBootful'
  BY <1>3 DEF PlansBootful, Loc, NeverUsed
<1>. QED
  BY <1>4, <1>5, <1>6 DEF BootsSound

BootInv == TypesInv /\ BootsSound

\* Every host begins so.
LEMMA InitBoot == Init => BootInv
<1>. SUFFICES ASSUME Init PROVE BootsSound
  BY InitTypes DEF BootInv
<1>1. PICK s \in Scenes : vms = s.vms /\ exports = s.exports
  BY DEF Init
<1>2. \A c \in Callers : ~At(c, Setters, "apply")
  BY DEF Init, RunnerInit, Idle, At, Scripting
<1>3. ASSUME NEW i \in Ids, Exists(i)
      PROVE  ~NeverUsed(i) /\ Bootful(vms[i])
  <2>0. NoVM.state = "none"
    BY DEF NoVM
  <2>1. vms[i] # NoVM
    BY <1>3, <2>0 DEF Exists
  <2>2. s.vms[i].built # "no" /\ s.vms[i].state # "none"
    BY <1>1, <1>3, <2>1, BootAssumption DEF Exists
  <2>. QED
    BY <1>1, <2>2, BootAssumption DEF NeverUsed, Bootful, Device
<1>4. ASSUME NEW e \in exports
      PROVE  /\ Bootful(e)
             /\ e.id \in Ids => ~NeverUsed(e.id) /\ vms[e.id].gen = e.gen /\ vms[e.id].devs = e.devs
  BY <1>1, BootAssumption DEF NeverUsed, Bootful, Device
<1>. QED
  BY <1>2, <1>3, <1>4 DEF BootsSound, MachinesBootful, ExportsBootful, PlansBootful

\* Orders of that kind are what is asked of them.
LEMMA SoundBoots ==
  ASSUME BootsSound
  PROVE  BootOrdersAreSound
<1>1. ASSUME NEW i \in Ids, Exists(i), vms[i].gen = 2,
             \A k, l \in DOMAIN Bootable(i) : Matches(Token(Bootable(i)[k]), Bootable(i)[l]) => k = l
      PROVE  Devices([k \in DOMAIN vms[i].conf.boot |-> Token(vms[i].conf.boot[k])], Bootable(i))
               = vms[i].conf.boot
  <2>. DEFINE order == vms[i].conf.boot  devs == vms[i].devs  devices == Bootable(i)
              B == Range(devs) \cup {d \in Range(order) : d.kind = "file"}
  <2>1. devs \in Seq(Device) /\ order \in Seq(B)
    BY <1>1 DEF BootsSound, MachinesBootful, ExportsBootful, PlansBootful, Bootful, Orderly
  <2>. HIDE DEF B
  <2>2. /\ devices \in Seq(Device \cup B)
        /\ Range(devices) = Range(devs) \cup {d \in Range(order) : d.kind = "file"}
    <3>. DEFINE all == devs \o FileEntries(order)
    <3>1. all \in Seq(Device \cup B) /\ Range(all) = Range(devs) \cup {d \in Range(order) : d.kind = "file"}
      <4>. HIDE DEF devs, order
      <4>1. all \in Seq(Device \cup B) /\ Range(all) = Range(devs) \cup Files(order)
        BY <2>1, CanBoot
      <4>. QED
        BY <4>1, Zenon DEF Files
    <3>2. devices = all
      BY Zenon DEF Bootable
    <3>. HIDE DEF devs, order, devices, all
    <3>. QED
      BY <3>1, <3>2
  <2>3. Range(order) \subseteq B
    <3>. HIDE DEF order
    <3>. QED
      BY <2>1 DEF Range
  <2>4. Range(order) \subseteq Range(devices)
    BY <2>2, <2>3 DEF B
  <2>5. \A k, l \in DOMAIN devices : Matches(Token(devices[k]), devices[l]) => k = l
    BY <1>1
  <2>. HIDE DEF devices, order
  <2>6. Devices([k \in DOMAIN order |-> Token(order[k])], devices) = order
    BY <2>1, <2>2, <2>4, <2>5, RoundTrip
  <2>. QED
    BY <2>6 DEF devices, order
<1>2. BootOrderRoundTrips
  BY <1>1, Zenon DEF BootOrderRoundTrips
<1>3. BiosOrderIsAPermutation
  <2>. SUFFICES ASSUME NEW i \in Ids, Exists(i), vms[i].gen = 1
                PROVE  /\ Len(vms[i].conf.boot) = Cardinality(Classes)
                       /\ Range(vms[i].conf.boot) = Classes
    BY DEF BiosOrderIsAPermutation
  <2>1. Orderly(vms[i].conf.boot, 1, vms[i].devs)
    BY DEF BootsSound, MachinesBootful, ExportsBootful, PlansBootful, Bootful
  <2>. QED
    BY <2>1, OrderlyPermutes
<1>. QED
  BY <1>2, <1>3 DEF BootOrdersAreSound

(* Whatever calls are made of a machine, however they interleave, and through any
   export and import, its boot order stays one that can be read and given back
   unchanged (settings.go:405), and that of a Generation 1 machine the four classes
   once each (settings.go:564): for devices and orders of any length. *)
THEOREM BootOrdersAlwaysSound == Spec => []BootOrdersAreSound
<1>1. BootInv /\ [Next]_vars => BootInv'
  BY TypesNext, BootsNext DEF BootInv
<1>2. BootInv => BootOrdersAreSound
  BY SoundBoots DEF BootInv
<1>. QED
  BY InitBoot, <1>1, <1>2, PTL DEF Spec
=============================================================================
