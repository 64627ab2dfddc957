------------------------------ MODULE VmStore -------------------------------
(***************************************************************************)
(* internal/hyperv: virtual machines, their power, checkpoints and disks.  *)
(* vm.go, rename.go, checkpoint.go, provision.go and storage.go send one   *)
(* script per call; each action below is the stretch of a script up to and *)
(* including its next cmdlet that changes the host, so that two scripts,   *)
(* the guests and a kill interleave between any two of them.  Hyper-V      *)
(* addresses a machine by identifier and lets two share a name; the tools  *)
(* address it by name, so a script acts on every machine the name matched. *)
(***************************************************************************)
EXTENDS PsRunner, Functions

CONSTANTS Ids,      \* machines Hyper-V can hold
          Paths,    \* disk files
          NoFile,   \* a path with no file
          Root,     \* the parent of a disk that has none
          Switches, \* names of switches
          NicIds    \* adapters Hyper-V can make

ASSUME PathsAssumption == NoFile \notin Paths /\ Root \notin Paths /\ Root # NoFile

VARIABLES vms,      \* [Ids -> machine]
          files,    \* [Paths -> NoFile, Root or the parent's path]
          mounted,  \* disk files mounted on the host itself
          exports,  \* exported machines: see Exported
          switches  \* see VmNetwork: [Switches -> "none", "External", "Internal" or "Private"]

storeVars == <<vms, files, mounted, exports>>

DefaultConf ==
  [startup |-> 2, minimum |-> 1, maximum |-> 3, dynamic |-> FALSE,
   reserve |-> 0, ceiling |-> 3, nested |-> FALSE,
   protector |-> FALSE, encrypt |-> FALSE, tpm |-> FALSE,
   gsi |-> FALSE, kvp |-> TRUE, boot |-> <<>>, secure |-> "windows", numlock |-> FALSE,
   kind |-> "Default", size |-> 0, pipe |-> "none", debug |-> FALSE,
   min_iops |-> 0, max_iops |-> 0, min_bw |-> 0, max_bw |-> 0, weight |-> 0, trunk |-> {},
   stop |-> "Save", paging |-> "default"]

NoVM == [state |-> "none", name |-> "", disks |-> {}, snap |-> {}, layers |-> {}, merging |-> FALSE,
         built |-> "no", checked |-> TRUE, gen |-> 2, nics |-> {}, devs |-> <<>>, conf |-> DefaultConf]

(* No two machines ever have one identifier: who holds one that is gone finds
   nothing there, or the machine itself, imported again. *)
Gone(m) == [NoVM EXCEPT !.built = "gone", !.gen = m.gen, !.devs = m.devs]
NeverUsed(i) == vms[i].built = "no"
Exported(i, m) == [id |-> i, name |-> m.name, gen |-> m.gen, devs |-> m.devs, conf |-> m.conf]

Exists(i) == vms[i].state # "none"
Named(n) == {i \in Ids : Exists(i) /\ vms[i].name = n}
Unused(p) == files[p] = NoFile

Nics(i) == vms[i].nics
NicInUse(x) == \E i \in Ids : \E a \in Nics(i) : a.id = x
DefaultNic == "Network Adapter"
NewNic(x, name, switch, checked) ==
  [id |-> x, name |-> name, switch |-> switch, mac |-> "dynamic", vlan |-> 0, checked |-> checked]

(* A disk and everything it descends from. *)
Chain(p) ==
  LET up[n \in 0..Cardinality(Paths)] ==
        IF n = 0 THEN {p} ELSE up[n - 1] \cup {files[q] : q \in up[n - 1] \cap Paths}
  IN up[Cardinality(Paths)] \cap Paths
ChainOf(i) == UNION {Chain(p) : p \in vms[i].disks}

HasCheckpoint(i) == vms[i].snap # {} /\ ~vms[i].merging
Attached == UNION {vms[i].disks : i \in Ids}

(* The files Hyper-V is merging into one another, and the disks of the machines
   that run: other programs, and New-VM, cannot open them. *)
InMerge == UNION {vms[i].layers \cup vms[i].snap : i \in {j \in Ids : vms[j].merging}}
HeldOpen ==
  InMerge \cup UNION {ChainOf(i) : i \in {j \in Ids : vms[j].state \in {"Running", "Stopping", "Paused"}}}

(* What Hyper-V itself asks of a start: every file of the chain is there, and
   none of them is held exclusively by another running machine. *)
CanStart(i) ==
  /\ ~vms[i].merging
  /\ \A p \in ChainOf(i) : ~Unused(p)
  /\ \A j \in Ids \ {i} : vms[j].state \in {"Running", "Stopping", "Paused"} =>
       vms[j].disks \cap ChainOf(i) = {} /\ ChainOf(j) \cap vms[i].disks = {}

OnlyVMs == UNCHANGED <<files, mounted, exports>>
Become(on, s) == vms' = [i \in Ids |-> IF i \in on THEN [vms[i] EXCEPT !.state = s] ELSE vms[i]]

(***************************************************************************)
(* requireVM, and the state check most scripts open with: no such machine, *)
(* or one in a state the tool does not work on, refuses the call.          *)
(***************************************************************************)
LookUp(c, ops, states, to) ==
  /\ At(c, ops, "look")
  /\ LET on == Named(Req(c).name) IN
       \/ on = {} /\ Throw(c)
       \/ on # {} /\ (\E i \in on : vms[i].state \notin states) /\ Throw(c)
       \/ on # {} /\ (\A i \in on : vms[i].state \in states) /\ Goto(c, to, on)
  /\ UNCHANGED storeVars

Present == {"Off", "Running", "Stopping", "Paused", "Saved"}
StillThere(on) == \A i \in on : Exists(i)

(***************************************************************************)
(* Power: start, stop, restart, suspend, resume.                           *)
(***************************************************************************)
FindForStart(c) ==
  /\ At(c, {"start_vm", "restart_vm"}, "start")
  /\ LET on == Named(Req(c).name) IN IF on = {} THEN Throw(c) ELSE Goto(c, "starting", on)
  /\ UNCHANGED storeVars

StartVM(c) ==
  /\ At(c, {"start_vm", "restart_vm"}, "starting") /\ StillThere(Loc(c))
  /\ LET on == {i \in Loc(c) : vms[i].state # "Running"} IN
       IF on = {} THEN Goto(c, "report", Loc(c)) /\ UNCHANGED vms
       ELSE /\ \A i \in on : vms[i].state # "Stopping" /\ CanStart(i)
            /\ Become(on, "Running") /\ Effect(c, "report", Loc(c))
  /\ OnlyVMs

(* A graceful stop asks the guest and polls; force turns the machine off. *)
StopVM(c) ==
  /\ At(c, {"stop_vm", "restart_vm"}, "stop") /\ StillThere(Loc(c))
  /\ LET on == {i \in Loc(c) : vms[i].state # "Off"} IN
       \/ on = {} /\ Goto(c, "stopped", Loc(c)) /\ UNCHANGED vms
       \/ on # {} /\ Req(c).force /\ Become(on, "Off") /\ Effect(c, "stopped", Loc(c))
       \/ /\ on # {} /\ ~Req(c).force
          /\ \A i \in on : vms[i].state \in {"Running", "Stopping"}
          /\ Become(on, "Stopping") /\ Effect(c, "poll", Loc(c))
  /\ OnlyVMs

PollForOff(c) ==
  /\ At(c, {"stop_vm", "restart_vm"}, "poll")
  /\ LET on == Named(Req(c).name) IN
       \/ on = {} /\ Throw(c)
       \/ on # {} /\ (\A i \in on : vms[i].state = "Off") /\ Goto(c, "stopped", Loc(c))
       \/ on # {} /\ (\E i \in on : vms[i].state # "Off") /\ Fail(c)  \* the script's own deadline
  /\ UNCHANGED storeVars

SuspendAsAsked(c) ==
  /\ At(c, {"suspend_vm"}, "act") /\ Become(Loc(c), Req(c).mode)
  /\ Effect(c, "report", Loc(c)) /\ OnlyVMs

Suspend(c) ==
  /\ At(c, {"suspend_vm"}, "act") /\ StillThere(Loc(c))
  /\ \A i \in Loc(c) : vms[i].state = "Running"
  /\ Become(Loc(c), IF Req(c).mode = "save" THEN "Saved" ELSE "Paused")
  /\ Effect(c, "report", Loc(c)) /\ OnlyVMs

Resume(c) ==
  /\ At(c, {"resume_vm"}, "act") /\ StillThere(Loc(c))
  /\ LET on == {i \in Loc(c) : vms[i].state # "Running"} IN
       IF on = {} THEN Goto(c, "report", Loc(c)) /\ UNCHANGED vms
       ELSE /\ \A i \in on : vms[i].state \in {"Paused", "Saved"} /\ CanStart(i)
            /\ Become(on, "Running") /\ Effect(c, "report", Loc(c))
  /\ OnlyVMs

(* The power tools report by name, so a machine renamed or removed meanwhile is
   told as missing although the change was made, and two of the name as a
   result that does not decode.  A restart is a stop and then a start. *)
ReportByName(c) ==
  /\ At(c, {"start_vm", "stop_vm", "restart_vm", "suspend_vm", "resume_vm"}, "report")
     \/ At(c, {"stop_vm", "restart_vm"}, "stopped")
  /\ LET on == Named(Req(c).name) IN
       \/ on = {} /\ Throw(c)
       \/ Cardinality(on) > 1 /\ Fail(c)
       \/ /\ Cardinality(on) = 1
          /\ IF call[c].pc = "stopped" /\ Req(c).op = "restart_vm"
             THEN ThenQueue(c, "start") ELSE Finish(c)
  /\ UNCHANGED storeVars

(* The guest shuts down as it was asked, or of its own accord. *)
GuestShutsDown(i) ==
  /\ vms[i].state \in {"Running", "Stopping"}
  /\ Become({i}, "Off") /\ UNCHANGED <<call, held>> /\ OnlyVMs

(***************************************************************************)
(* Checkpoints.  A checkpoint freezes the machine's disks and has it write *)
(* to new ones on top of them; deleting it lets Hyper-V merge those back   *)
(* while the script waits.  One checkpoint of a machine at a time.         *)
(***************************************************************************)
FindCheckpoint(c) ==
  /\ At(c, {"apply_checkpoint", "delete_checkpoint"}, "look")
  /\ LET on == Named(Req(c).name) IN
       \/ (on = {} \/ \E i \in on : ~HasCheckpoint(i)) /\ Throw(c)
       \/ /\ on # {} /\ \A i \in on : HasCheckpoint(i)
          /\ IF Req(c).op = "delete_checkpoint" THEN Goto(c, "act", on)
             ELSE IF \A i \in on : vms[i].state = "Off" THEN Goto(c, "restore", on)
             ELSE IF Req(c).auto_stop THEN Goto(c, "turnoff", on)
             ELSE Throw(c)
  /\ UNCHANGED storeVars

CreateCheckpoint(c) ==
  /\ At(c, {"create_checkpoint"}, "act")
  /\ \E i \in Ids : \E new \in Injection(vms[i].disks, {p \in Paths : Unused(p)}) :
       /\ Loc(c) = {i} /\ Exists(i) /\ vms[i].snap = {} /\ ~vms[i].merging
       /\ vms[i].disks # {} /\ \A d \in vms[i].disks : ~Unused(d)
       /\ files' = [p \in Paths |-> IF \E d \in DOMAIN new : new[d] = p
                                   THEN CHOOSE d \in DOMAIN new : new[d] = p ELSE files[p]]
       /\ vms' = [vms EXCEPT ![i].snap = vms[i].disks, ![i].disks = Range(new), ![i].layers = Range(new)]
  /\ Effect(c, "end", Loc(c)) /\ UNCHANGED <<mounted, exports>>

(* Restoring needs the machine off; auto_stop turns it off first.  The contents
   of its disks go back, its files keep their places. *)
TurnOff(c) ==
  /\ At(c, {"apply_checkpoint", "delete_vm"}, "turnoff") /\ StillThere(Loc(c))
  /\ Become(Loc(c), "Off") /\ OnlyVMs
  /\ Effect(c, IF Req(c).op = "delete_vm" THEN "remove" ELSE "restore", Loc(c))

RestoreCheckpoint(c) ==
  /\ At(c, {"apply_checkpoint"}, "restore") /\ StillThere(Loc(c))
  /\ \A i \in Loc(c) : vms[i].state = "Off" /\ HasCheckpoint(i)
  /\ Effect(c, "end", Loc(c)) /\ UNCHANGED storeVars

DeleteCheckpoint(c) ==
  /\ At(c, {"delete_checkpoint"}, "act") /\ StillThere(Loc(c))
  /\ \A i \in Loc(c) : HasCheckpoint(i)
  /\ vms' = [i \in Ids |-> IF i \in Loc(c) THEN [vms[i] EXCEPT !.merging = TRUE] ELSE vms[i]]
  /\ Effect(c, "merge", Loc(c)) /\ OnlyVMs

AwaitMergeNever(c) ==
  /\ At(c, {"delete_checkpoint"}, "merge") /\ StillThere(Loc(c))
  /\ Goto(c, "end", Loc(c)) /\ UNCHANGED storeVars

(* The script waits for as long as the machine's status text speaks of a merge,
   up to its own deadline.  The text may not do so yet of a merge that Hyper-V
   has still to begin: then the script ends too, and answers for nothing. *)
AwaitMerge(c) ==
  /\ At(c, {"delete_checkpoint"}, "merge") /\ StillThere(Loc(c))
  /\ LET on == {i \in Loc(c) : vms[i].merging} IN
       \/ on = {} /\ Goto(c, "end", Loc(c))
       \/ on # {} /\ Goto(c, "end", {})
       \/ on # {} /\ Fail(c)
  /\ UNCHANGED storeVars

(* Hyper-V finishes a merge in its own time: the frozen disks are the
   machine's again and the layers written since are gone. *)
MergeEnds(i) ==
  /\ vms[i].merging
  /\ files' = [p \in Paths |-> IF p \in vms[i].layers /\ files[p] \in vms[i].snap THEN NoFile ELSE files[p]]
  /\ vms' = [vms EXCEPT ![i].merging = FALSE, ![i].snap = {}, ![i].layers = {},
                ![i].disks = (@ \ vms[i].layers) \cup vms[i].snap]
  /\ UNCHANGED <<call, held, mounted, exports>>

(***************************************************************************)
(* Creating a machine: New-VM, then its settings, then what it boots from. *)
(* Nothing is undone when a later cmdlet fails.  From a template, two      *)
(* scripts come first: read the parent, make the differencing disk.        *)
(***************************************************************************)
Creations == {"create_vm", "create_vm_from_template"}

ReadParent(c) ==
  /\ At(c, {"create_vm_from_template"}, "parent")
  /\ IF Unused(Req(c).parent) THEN Fail(c) ELSE ThenQueue(c, "child")
  /\ UNCHANGED storeVars

MakeChild(c) ==
  /\ At(c, {"create_vm_from_template"}, "child")
  /\ Unused(Req(c).disk) /\ ~Unused(Req(c).parent)
  /\ files' = [files EXCEPT ![Req(c).disk] = Req(c).parent]
  /\ Effect(c, "made", {}) /\ UNCHANGED <<vms, mounted, exports>>

ChildMade(c) ==
  /\ At(c, {"create_vm_from_template"}, "made") /\ ThenQueue(c, "look")
  /\ UNCHANGED storeVars

CheckNewNameNever(c) ==
  At(c, Creations, "look") /\ Goto(c, "new", {}) /\ UNCHANGED storeVars

CheckNewName(c) ==
  /\ At(c, Creations, "look")
  /\ IF Named(Req(c).name) # {} THEN Throw(c) ELSE Goto(c, "new", {})
  /\ UNCHANGED storeVars

(* New-VM gives the machine one adapter, on the switch asked for if any. *)
NewVM(c) ==
  /\ At(c, Creations, "new")
  /\ Req(c).switch # "" => switches[Req(c).switch] # "none"
  /\ Req(c).disk \notin InMerge
  /\ \E i \in Ids, x \in NicIds :
       /\ ~Exists(i) /\ NeverUsed(i) /\ ~NicInUse(x)
       /\ LET s == IF Req(c).switch = "" THEN "none" ELSE Req(c).switch IN
            vms' = [vms EXCEPT ![i] = [NoVM EXCEPT !.state = "Off", !.name = Req(c).name,
                      !.disks = {Req(c).disk}, !.nics = {NewNic(x, DefaultNic, s, TRUE)},
                      !.built = "bare", !.checked = call[c].alone]]
       /\ Effect(c, "configure", {i})
  /\ files' = [files EXCEPT ![Req(c).disk] = IF @ = NoFile THEN Root ELSE @]
  /\ UNCHANGED <<mounted, exports>>

(* Set-VMProcessor, Set-VMMemory and Set-VM; then the DVD drive and firmware. *)
Configure(c) ==
  /\ At(c, Creations, "configure") /\ StillThere(Loc(c))
  /\ \A i \in Loc(c) : vms[i].state = "Off"
  /\ vms' = [i \in Ids |-> IF i \in Loc(c) THEN [vms[i] EXCEPT !.built = "sized"] ELSE vms[i]]
  /\ Effect(c, "firmware", Loc(c)) /\ OnlyVMs

BootDevices(c) ==
  /\ At(c, Creations, "firmware") /\ StillThere(Loc(c))
  /\ \A i \in Loc(c) : vms[i].state = "Off"
  /\ vms' = [i \in Ids |-> IF i \in Loc(c) THEN [vms[i] EXCEPT !.built = "whole"] ELSE vms[i]]
  /\ Effect(c, "end", Loc(c)) /\ OnlyVMs

(***************************************************************************)
(* Deleting a machine: turn it off if forced to, remove it, and then, if   *)
(* its disks are to go too, look once at what every other machine uses and *)
(* at the parents of those disks, and remove the rest file by file.        *)
(***************************************************************************)
FindForDelete(c) ==
  /\ At(c, {"delete_vm"}, "look")
  /\ LET on == Named(Req(c).name) IN
       \/ on = {} /\ Throw(c)
       \/ /\ on # {}
          /\ IF \A i \in on : vms[i].state = "Off" THEN Goto(c, "remove", on)
             ELSE IF Req(c).force THEN Goto(c, "turnoff", on) ELSE Throw(c)
  /\ UNCHANGED storeVars

RemoveVM(c) ==
  /\ At(c, {"delete_vm"}, "remove") /\ StillThere(Loc(c))
  /\ \A i \in Loc(c) : vms[i].state = "Off"
  /\ vms' = [i \in Ids |-> IF i \in Loc(c) THEN Gone(vms[i]) ELSE vms[i]]
  /\ IF Req(c).delete_disks THEN Effect(c, "survey", UNION {vms[i].disks : i \in Loc(c)})
                              ELSE Effect(c, "end", {})
  /\ OnlyVMs

DeletableParents(disks, read) == {d \in disks : d \notin Attached}

(* Of the machine's disks, the ones no other machine uses and none of the
   disks in use has for its parent, as far as Get-VHD could tell. *)
Deletable(disks, read) ==
  {d \in disks : d \notin Attached /\ \A u \in read : files[u] # d}

(* Get-VHD fails without a word on a disk that is locked, merging or offline,
   and the parent of that disk is not known. *)
Survey(c) ==
  /\ At(c, {"delete_vm"}, "survey")
  /\ \E read \in SUBSET Attached :
       Goto(c, "sweep", [left |-> Deletable(Loc(c), read), used |-> Attached, read |-> read])
  /\ UNCHANGED storeVars

(* A file some running machine holds cannot be removed, and is kept. *)
RemoveDisk(c) ==
  /\ At(c, {"delete_vm"}, "sweep")
  /\ \/ \E d \in Loc(c).left :
            LET rest == [Loc(c) EXCEPT !.left = @ \ {d}] IN
            IF Unused(d) \/ d \in HeldOpen \cup mounted
            THEN Goto(c, "sweep", rest) /\ UNCHANGED files
            ELSE Effect(c, "sweep", rest) /\ files' = [files EXCEPT ![d] = NoFile]
     \/ Loc(c).left = {} /\ Goto(c, "end", {}) /\ UNCHANGED files
  /\ UNCHANGED <<vms, mounted, exports>>

(***************************************************************************)
(* Renaming, exporting and importing.                                      *)
(***************************************************************************)
FindForRename(c) ==
  /\ At(c, {"rename_vm"}, "look")
  /\ LET on == Named(Req(c).name) IN
       IF on = {} \/ Named(Req(c).new) # {} THEN Throw(c) ELSE Goto(c, "rename", on)
  /\ UNCHANGED storeVars

RenameVM(c) ==
  /\ At(c, {"rename_vm", "import_vm"}, "rename") /\ StillThere(Loc(c))
  /\ vms' = [i \in Ids |-> IF i \in Loc(c)
                THEN [vms[i] EXCEPT !.name = Req(c).new,
                                    !.checked = Req(c).op = "rename_vm" /\ call[c].alone /\ Loc(c) = {i}]
                ELSE vms[i]]
  /\ Effect(c, "end", Loc(c)) /\ OnlyVMs

ExportVM(c) ==
  /\ At(c, {"export_vm"}, "act") /\ StillThere(Loc(c))
  /\ \E i \in Loc(c) :
       /\ \A p \in ChainOf(i) : ~Unused(p)
       /\ exports' = exports \cup {Exported(i, vms[i])}
  /\ Effect(c, "end", Loc(c)) /\ UNCHANGED <<vms, files, mounted>>

(* Importing takes no notice of the names in use.  The machine keeps its
   identifier unless told to take a new one, and brings disks of its own. *)
ImportVM(c) ==
  /\ At(c, {"import_vm"}, "look")
  /\ \/ exports = {} /\ Throw(c) /\ UNCHANGED vms
     \/ \E e \in exports, i \in Ids :
          /\ ~Exists(i) /\ IF Req(c).new_id THEN NeverUsed(i) ELSE i = e.id
          /\ vms' = [vms EXCEPT ![i] = [NoVM EXCEPT !.state = "Off", !.name = e.name, !.gen = e.gen,
                        !.devs = e.devs, !.conf = e.conf, !.built = "whole", !.checked = FALSE]]
          /\ Effect(c, IF Req(c).new = e.name THEN "end" ELSE "rename", {i})
  /\ OnlyVMs

(***************************************************************************)
(* Disk files.                                                             *)
(***************************************************************************)
CreateVHD(c) ==
  /\ At(c, {"create_vhd"}, "act")
  /\ Unused(Req(c).disk) /\ (Req(c).parent # Root => ~Unused(Req(c).parent))
  /\ files' = [files EXCEPT ![Req(c).disk] = Req(c).parent]
  /\ Effect(c, "end", {}) /\ UNCHANGED <<vms, mounted, exports>>

ConvertVHD(c) ==
  /\ At(c, {"convert_vhd"}, "act")
  /\ Unused(Req(c).disk) /\ \A p \in Chain(Req(c).source) : ~Unused(p)
  /\ files' = [files EXCEPT ![Req(c).disk] = Root]
  /\ Effect(c, "end", {}) /\ UNCHANGED <<vms, mounted, exports>>

FindForResize(c) ==
  /\ At(c, {"resize_vhd"}, "look")
  /\ IF Unused(Req(c).disk) THEN Fail(c)
     ELSE IF Req(c).disk \in HeldOpen \cup mounted THEN Throw(c) ELSE Goto(c, "act", {})
  /\ UNCHANGED storeVars

ResizeVHD(c) ==
  /\ At(c, {"resize_vhd"}, "act")
  /\ ~Unused(Req(c).disk) /\ Req(c).disk \notin HeldOpen
  /\ Effect(c, "end", {}) /\ UNCHANGED storeVars

AttachVHD(c) ==
  /\ At(c, {"attach_vhd"}, "act") /\ StillThere(Loc(c)) /\ ~Unused(Req(c).disk)
  /\ \A i \in Loc(c) : Req(c).disk \notin vms[i].disks
  /\ (\E i \in Loc(c) : vms[i].state # "Off") => Req(c).disk \notin HeldOpen
  /\ vms' = [i \in Ids |-> IF i \in Loc(c) THEN [vms[i] EXCEPT !.disks = @ \cup {Req(c).disk}] ELSE vms[i]]
  /\ Effect(c, "end", Loc(c)) /\ OnlyVMs

FindForDetach(c) ==
  /\ At(c, {"detach_vhd"}, "look")
  /\ LET on == {i \in Named(Req(c).name) : Req(c).disk \in vms[i].disks} IN
       IF on = {} THEN Throw(c) ELSE \E i \in on : Goto(c, "act", {i})
  /\ UNCHANGED storeVars

DetachVHD(c) ==
  /\ At(c, {"detach_vhd"}, "act") /\ StillThere(Loc(c))
  /\ \A i \in Loc(c) : Req(c).disk \in vms[i].disks
  /\ vms' = [i \in Ids |-> IF i \in Loc(c)
                THEN [vms[i] EXCEPT !.disks = @ \ {Req(c).disk}, !.layers = @ \ {Req(c).disk}]
                ELSE vms[i]]
  /\ Effect(c, "end", Loc(c)) /\ OnlyVMs

ClearSeedPathFirst(c) ==
  /\ At(c, {"create_seed_disk"}, "look")
  /\ LET p == Req(c).disk  kept == call[c].touched /\ ~Req(c).overwrite IN
       IF Unused(p) THEN (IF kept THEN Throw(c) ELSE Goto(c, "make", {})) /\ UNCHANGED <<files, mounted>>
       ELSE /\ p \notin HeldOpen /\ Effect(c, "look", {})
            /\ files' = [files EXCEPT ![p] = NoFile] /\ mounted' = mounted \ {p}
  /\ UNCHANGED <<vms, exports>>

(* A seed disk is mounted on the host while its files are written.  A cmdlet
   that fails meanwhile leaves through finally, which dismounts it, or fails to
   without a word. *)
ClearSeedPath(c) ==
  /\ At(c, {"create_seed_disk"}, "look")
  /\ LET p == Req(c).disk IN
       \/ Unused(p) /\ Goto(c, "make", {}) /\ UNCHANGED <<files, mounted>>
       \/ ~Unused(p) /\ ~Req(c).overwrite /\ Throw(c) /\ UNCHANGED <<files, mounted>>
       \/ /\ ~Unused(p) /\ Req(c).overwrite /\ p \notin HeldOpen
          /\ files' = [files EXCEPT ![p] = NoFile] /\ mounted' = mounted \ {p}
          /\ Effect(c, "make", {})
  /\ UNCHANGED <<vms, exports>>

MakeSeedDisk(c) ==
  /\ At(c, {"create_seed_disk"}, "make") /\ Unused(Req(c).disk)
  /\ files' = [files EXCEPT ![Req(c).disk] = Root]
  /\ Effect(c, "mount", {}) /\ UNCHANGED <<vms, mounted, exports>>

MountSeedDisk(c) ==
  /\ At(c, {"create_seed_disk"}, "mount") /\ ~Unused(Req(c).disk)
  /\ Req(c).disk \notin HeldOpen \cup mounted
  /\ mounted' = mounted \cup {Req(c).disk}
  /\ Effect(c, "write", {}) /\ UNCHANGED <<vms, files, exports>>

WriteSeedDisk(c) ==
  /\ At(c, {"create_seed_disk"}, "write")
  /\ mounted' \in {mounted, mounted \ {Req(c).disk}}
  /\ Effect(c, "end", {}) \/ Fail(c)
  /\ UNCHANGED <<vms, files, exports>>

(***************************************************************************)
(* Making a call, and how its script ends.  The checks a tool makes before *)
(* it sends a script look at the request and at the files of this moment.  *)
(***************************************************************************)
StoreRefuses(r) ==
  \/ r.op = "create_vm_from_template" /\ Unused(r.parent)
  \/ r.op \in {"attach_vhd", "resize_vhd"} /\ Unused(r.disk)
  \/ r.op = "convert_vhd" /\ Unused(r.source)
  \/ r.op = "create_vhd" /\ r.parent # Root /\ Unused(r.parent)
  \/ r.op = "rename_vm" /\ r.name = r.new

FirstStep(op) ==
  CASE op = "start_vm" -> "start" [] op = "create_vm_from_template" -> "parent"
    [] op \in {"create_vhd", "convert_vhd"} -> "act" [] OTHER -> "look"

(* The closing projection reads the machine back by identifier: it fails when
   the machine is gone, and on two machines at once. *)
EndScript(c) ==
  /\ Scripting(c) /\ call[c].pc = "end" /\ Req(c).op # "rename_vm"
  /\ IF StillThere(Loc(c)) /\ Cardinality(Loc(c)) < 2 THEN Finish(c) ELSE Fail(c)
  /\ UNCHANGED storeVars

(* Killed, or stopped by a cmdlet that failed; while a seed disk is mounted
   only a kill skips the finally of WriteSeedDisk. *)
ScriptDies(c) == Kill(c) /\ UNCHANGED storeVars

Script(c) ==
  \/ LookUp(c, {"stop_vm", "restart_vm"}, Present, "stop")
  \/ LookUp(c, {"suspend_vm"}, {"Running"}, "act")
  \/ LookUp(c, {"resume_vm"}, {"Running", "Paused", "Saved"}, "act")
  \/ LookUp(c, {"create_checkpoint", "attach_vhd", "export_vm"}, Present, "act")
  \/ FindForStart(c) \/ StartVM(c) \/ StopVM(c) \/ PollForOff(c) \/ Suspend(c) \/ Resume(c)
  \/ ReportByName(c)
  \/ FindCheckpoint(c) \/ CreateCheckpoint(c) \/ TurnOff(c) \/ RestoreCheckpoint(c)
  \/ DeleteCheckpoint(c) \/ AwaitMerge(c)
  \/ ReadParent(c) \/ MakeChild(c) \/ ChildMade(c) \/ CheckNewName(c) \/ NewVM(c)
  \/ Configure(c) \/ BootDevices(c)
  \/ FindForDelete(c) \/ RemoveVM(c) \/ Survey(c) \/ RemoveDisk(c)
  \/ FindForRename(c) \/ RenameVM(c) \/ ExportVM(c) \/ ImportVM(c)
  \/ CreateVHD(c) \/ ConvertVHD(c) \/ FindForResize(c) \/ ResizeVHD(c) \/ AttachVHD(c)
  \/ FindForDetach(c) \/ DetachVHD(c)
  \/ ClearSeedPath(c) \/ MakeSeedDisk(c) \/ MountSeedDisk(c) \/ WriteSeedDisk(c)
  \/ EndScript(c) \/ ScriptDies(c)

HyperVMoves == \E i \in Ids : GuestShutsDown(i) \/ MergeEnds(i)

(***************************************************************************)
(* Properties.                                                             *)
(***************************************************************************)
StoreTypeOK ==
  /\ DOMAIN vms = Ids
  /\ \A i \in Ids : /\ DOMAIN vms[i] = DOMAIN NoVM /\ DOMAIN vms[i].conf = DOMAIN DefaultConf
                    /\ vms[i].state \in Present \cup {"none"}
                    /\ vms[i].disks \subseteq Paths /\ vms[i].snap \subseteq Paths
                    /\ vms[i].layers \subseteq vms[i].disks
  /\ files \in [Paths -> Paths \cup {NoFile, Root}]
  /\ mounted \subseteq Paths

(* create_vm and rename_vm look for the name first and act after, and Hyper-V
   takes any name: two machines share one only if one of them got it while
   another script overtook that check, or came in by import_vm, which makes no
   check at all (provision.go:126, rename.go:34, storage.go:328). *)
NamesAreUnique ==
  \A i, j \in Ids : i # j /\ Exists(i) /\ Exists(j) /\ vms[i].name = vms[j].name
    => ~vms[i].checked \/ ~vms[j].checked

(* delete_vm never removes a disk that another machine uses, or that a disk in
   use is a direct child of, unless another script changed the host after it
   began, whatever the guests did meanwhile.  What counts is the disks in use
   when it looked that still are: a merge may put others back into use between
   the look and the removal (provision.go:206).  A child whose Get-VHD failed
   protects nothing (provision.go:209). *)
RemovedBy(c, d) ==
  /\ At(c, {"delete_vm"}, "sweep") /\ call'[c] # call[c] /\ call[c].alone /\ call'[c].alone
  /\ ~Unused(d) /\ files'[d] = NoFile

DeleteSparesDisksInUse ==
  [][\A c \in Callers, d \in Paths : RemovedBy(c, d) =>
       \A u \in Attached \cap Loc(c).used : u # d /\ (u \in Loc(c).read => files[u] # d)]_files

(* What the script says it looks at, "what every surviving VM uses, and what
   their disks descend from" (provision.go:204), asked of the whole chain under
   each disk and not only of its direct parent. *)
AncestorsAreKept ==
  [][\A c \in Callers, d \in Paths : RemovedBy(c, d) => \A i \in Ids : d \notin ChainOf(i)]_files

(* What a tool that changes machines or disks has achieved when it reports
   success; the guest may since have shut down by itself.  A merge may give a
   machine back a disk detached from it, and remove a differencing disk made at
   the place of one of its layers, so detach_vhd and create_vhd with a parent
   promise nothing; the sizes resize_vhd sets are left out. *)
PowerDone(r, on) ==
  /\ r.op = "stop_vm" => \A i \in on : vms[i].state = "Off"
  /\ r.op \in {"start_vm", "restart_vm", "resume_vm"} => \A i \in on : vms[i].state \in {"Running", "Off"}
  /\ r.op = "suspend_vm" => \A i \in on : vms[i].state \in {"Paused", "Saved"}

CheckpointDone(r, on) ==
  /\ r.op = "create_checkpoint" => \A i \in on : HasCheckpoint(i)
  /\ r.op = "apply_checkpoint" => \A i \in on : HasCheckpoint(i) /\ vms[i].state = "Off"
  /\ r.op = "delete_checkpoint" => \A i \in on : vms[i].snap = {} /\ ~vms[i].merging

LifeDone(r, on) ==
  /\ r.op \in Creations => \A i \in on : vms[i].built = "whole" /\ r.disk \in vms[i].disks /\ ~Unused(r.disk)
  /\ r.op = "delete_vm" => Named(r.name) = {}
  /\ r.op = "import_vm" => \A i \in on : vms[i].name = r.new
  /\ r.op = "export_vm" => \E e \in exports : e.id \in on

DiskDone(r, on) ==
  /\ r.op = "attach_vhd" => \A i \in on : r.disk \in vms[i].disks
  /\ (r.op \in {"convert_vhd", "create_seed_disk"} \/ (r.op = "create_vhd" /\ r.parent = Root)) =>
       ~Unused(r.disk)

StoreDone(r, on) ==
  PowerDone(r, on) /\ CheckpointDone(r, on) /\ LifeDone(r, on) /\ DiskDone(r, on)
=============================================================================
