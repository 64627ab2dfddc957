----------------------------- MODULE HyperVHost -----------------------------
(***************************************************************************)
(* The Hyper-V host and the tools that manage it, together: clients call   *)
(* tools, each tool's scripts run beside the others' within the slots of   *)
(* psrun, the guests, Hyper-V and the cables move under them, a script is  *)
(* killed at its deadline, and the service dies with scripts under way.    *)
(*                                                                         *)
(* A scene is a host to begin with, the calls clients make of it, each one *)
(* once and in any order, and what else may happen meanwhile.              *)
(***************************************************************************)
EXTENDS VmRecords, VmSettings, VmNetwork, GuestAddress

CONSTANTS Scenes

(* A scene begins on a host whose machines have names of their own. *)
ASSUME ScenesAssumption ==
  \A s \in Scenes :
    /\ DOMAIN s.vms = Ids /\ \A i \in Ids : DOMAIN s.vms[i] = DOMAIN NoVM
    /\ \A i, j \in Ids : (/\ i # j /\ s.vms[i].state # "none" /\ s.vms[j].state # "none"
                           /\ s.vms[i].name = s.vms[j].name)
         => ~s.vms[i].checked \/ ~s.vms[j].checked

(* What calls name is there to be named: machines by Names, disks by Paths,
   switches by Switches; a settings tool is given what it offers. *)
WellFormed(r) ==
  /\ r.op = "rename_vm" => r.name \in Names /\ r.new \in Names
  /\ r.op \in Creations \cup {"create_vhd", "convert_vhd", "attach_vhd", "create_seed_disk"} => r.disk \in Paths
  /\ r.op \in Creations => r.switch \in Switches \cup {""}
  /\ r.op \in {"create_vm_from_template", "create_vhd"} => r.parent \in Paths \cup {Root}
  /\ r.op \in {"create_switch", "delete_switch", "set_switch_nat", "set_switch_host_address"} =>
       r.switch \in Switches
  /\ r.op = "set_switch_host_address" => r.remove \in BOOLEAN
  /\ r.op = "ssh_exec" => r.trust \in BOOLEAN
  /\ r.op \in Setters => DOMAIN r.set \subseteq Offers[r.op]
  /\ (r.op = "set_vm_firmware" /\ Given(r, "boot")) => r.set.boot \in Seq([kind : STRING, qual : STRING])

ASSUME RequestsAssumption == \A s \in Scenes : \A r \in s.calls : WellFormed(r)

(* Nothing is on record at first but what is its machine's. *)
ASSUME RecordsAssumption ==
  \A s \in Scenes :
    /\ DOMAIN s.filed = Names
    /\ \A n \in Names : \A i \in s.filed[n] :
         i \in Ids /\ s.vms[i].state # "none" /\ s.vms[i].name = n

ASSUME DisksAssumption ==
  \A s \in Scenes :
    /\ s.files \in [Paths -> Paths \cup {NoFile, Root}]
    /\ \A i \in Ids : /\ s.vms[i].state \in Present \cup {"none"}
                      /\ s.vms[i].disks \subseteq Paths /\ s.vms[i].snap \subseteq Paths
                      /\ s.vms[i].layers \subseteq s.vms[i].disks
                      /\ DOMAIN s.vms[i].conf = DOMAIN DefaultConf

ASSUME NicsAssumption ==
  \A s \in Scenes :
    /\ DOMAIN s.switches = Switches /\ DOMAIN s.nats = Switches
    /\ \A i \in Ids : \A a \in s.vms[i].nics :
         /\ DOMAIN a = {"id", "name", "switch", "mac", "vlan", "checked"}
         /\ a.switch # "none" => a.switch \in Switches /\ s.switches[a.switch] # "none"
         /\ \A b \in s.vms[i].nics : a # b /\ a.name = b.name => ~a.checked \/ ~b.checked

(* A boot order is one Hyper-V could have: of devices of the machine and entries
   for files, or the four classes in some order. *)
Orderly(order, gen, devs) ==
  IF gen = 2 THEN order \in Seq(Range(devs) \cup {d \in Range(order) : d.kind = "file"})
  ELSE order \in Seq(Classes) /\ IsInjective(order) /\ Classes \subseteq Range(order)

ASSUME BootAssumption ==
  \A s \in Scenes :
    /\ \A i \in Ids : /\ s.vms[i].built # "no" \/ s.vms[i] = NoVM
                      /\ s.vms[i].devs \in Seq([kind : STRING, qual : STRING])
                      /\ s.vms[i].state # "none" => Orderly(s.vms[i].conf.boot, s.vms[i].gen, s.vms[i].devs)
    /\ \A e \in s.exports :
         /\ DOMAIN e.conf = DOMAIN DefaultConf
         /\ e.devs \in Seq([kind : STRING, qual : STRING]) /\ Orderly(e.conf.boot, e.gen, e.devs)
         /\ e.id \in Ids => /\ s.vms[e.id].built # "no"
                            /\ s.vms[e.id].gen = e.gen /\ s.vms[e.id].devs = e.devs

VARIABLES clients, \* who makes them
          todo,    \* the calls nobody has made yet
          events   \* what may happen besides: see Meanwhile

sceneVars == <<clients, todo, events>>
vars == <<storeVars, recordVars, netVars, addressVars, runnerVars, sceneVars>>

Init ==
  /\ RunnerInit
  /\ \E s \in Scenes :
       /\ vms = s.vms /\ files = s.files /\ mounted = {} /\ exports = s.exports
       /\ creds = s.filed /\ pins = s.filed /\ pool = NoRecords /\ tunnels = NoRecords
       /\ switches = s.switches /\ bound = [x \in Switches |-> {}] /\ taken = {}
       /\ up = Adapters /\ hostAddr = {} /\ nats = s.nats
       /\ reported = [i \in Ids |-> <<>>] /\ answers = s.answers
       /\ clients = s.clients /\ todo = s.calls /\ events = s.events
  /\ due = {} /\ astray = {} /\ late = {}

(***************************************************************************)
(* The steps of a call, each leaving alone what its tool does not touch.   *)
(***************************************************************************)
OnlyTheCall == UNCHANGED <<storeVars, filed, netVars, addressVars, sceneVars>>

RefusedAtOnce(r) == StoreRefuses(r) \/ SettingsRefuses(r) \/ RefusesSwitch(r)

(* Clients are all alike: the next call is made by one that has none. *)
Ask(c) ==
  /\ \E d \in clients : call[d].st = "idle"
  /\ c = CHOOSE d \in clients : call[d].st = "idle"
  /\ \E r \in todo : /\ r.op \notin RecordCommands /\ todo' = todo \ {r}
                     /\ IF RefusedAtOnce(r) THEN Refuse(c) ELSE Submit(c, r, FirstStep(r.op))
  /\ UNCHANGED <<storeVars, filed, netVars, addressVars, clients, events>>

FilesRecord ==
  /\ \/ \E r \in todo : RecordCommand(r) /\ todo' = todo \ {r}
     \/ (\E f \in due : FilesOn(f)) /\ UNCHANGED todo
  /\ UNCHANGED <<runnerVars, storeVars, netVars, addressVars, clients, events>>

GetsSlot(c) == TakeSlot(c) /\ OnlyTheCall
GivesUp(c) == CancelQueued(c) /\ OnlyTheCall

RunsScript(c) ==
  /\ Script(c) \/ Settings(c)
  /\ UNCHANGED <<filed, netVars, addressVars, sceneVars>>

RunsNetworkScript(c) ==
  /\ Networking(c)
  /\ UNCHANGED <<filed, addressVars, sceneVars>>

EndsRename(c) == RenameDone(c) /\ OnlyTheCall

MovesRecords(c) ==
  /\ RecordsTail(c) /\ UNCHANGED <<storeVars, netVars, addressVars, sceneVars>>

Answers(c) ==
  /\ ReadAdapters(c) \/ Pick(c) \/ Diagnose(c)
  /\ UNCHANGED <<storeVars, filed, netVars, sceneVars>>

Works(c) ==
  \/ RunsScript(c) \/ RunsNetworkScript(c) \/ EndsRename(c) \/ MovesRecords(c) \/ Answers(c)

(***************************************************************************)
(* What happens meanwhile: the guests and Hyper-V, the cables, what guests *)
(* report, and the death of the service, once.  A merge ends in any scene, *)
(* since it is a script that begins it.                                    *)
(***************************************************************************)
Meanwhile ==
  \/ /\ \E i \in Ids : MergeEnds(i) \/ ("guests" \in events /\ GuestShutsDown(i))
     /\ UNCHANGED <<filed, netVars, addressVars, sceneVars>>
  \/ /\ "cables" \in events /\ CableMoves
     /\ UNCHANGED <<held, filed, addressVars, sceneVars>>
  \/ /\ "reports" \in events /\ \E i \in Ids : GuestReports(i)
     /\ UNCHANGED <<storeVars, filed, netVars, sceneVars>>
  \/ /\ "crash" \in events /\ ServiceDies /\ events' = events \ {"crash"}
     /\ pool' = NoRecords /\ due' = {}
     /\ UNCHANGED <<storeVars, creds, pins, tunnels, netVars, addressVars, clients, todo>>

Next ==
  /\ \/ \E c \in Callers : Ask(c) \/ GetsSlot(c) \/ GivesUp(c) \/ Works(c)
     \/ FilesRecord \/ Meanwhile
  /\ Recollect

(***************************************************************************)
(* Fairness.  A script whose service lives is killed at its deadline if it *)
(* has not ended; one whose service has died has nobody to kill it and may *)
(* run for ever.  The waiters of a Go channel are served in their order,   *)
(* so the one that keeps waiting gets a slot; what the service does on its *)
(* own after the script it does; and wait_for_guest_ip has a deadline,     *)
(* after which the next look at the addresses is the last.                 *)
(***************************************************************************)
Killed(c) == call[c].st = "running" /\ ScriptDies(c)
Concludes(c) == MovesRecords(c) \/ (Answers(c) /\ call'[c].st = "idle")

Spec == Init /\ [][Next]_vars
Stage(c) == <<call[c].st, call[c].pc>>
FairSpec == Spec /\ \A c \in Callers :
  WF_(Stage(c))(Killed(c)) /\ SF_(Stage(c))(TakeSlot(c)) /\ SF_(Stage(c))(Concludes(c))

(***************************************************************************)
(* Properties.                                                             *)
(***************************************************************************)

(* Types of the calls and the slots, and of the machines and files. *)
TypeOK ==
  /\ \A c \in Callers :
       /\ call[c].st \in {"idle", "queued", "running", "tail", "orphan"}
       /\ call[c].told \in {"none", "ok", "refused", "failed"}
       /\ call[c].touched \in BOOLEAN /\ call[c].alone \in BOOLEAN
  /\ held \in Nat
  /\ StoreTypeOK

(* What each machine's boot order must be, and its adapters, whatever calls were
   made of it and in whatever order; the parts are stated where they belong
   (settings.go:564, network.go:307). *)
BootOrdersAreSound == BootOrderRoundTrips /\ BiosOrderIsAPermutation

(* No second adapter of a name, and none on a switch that is gone, even where a
   machine is created or connected while its switch is deleted (network.go:307,
   provision.go:136). *)
AdaptersAreSound == AdapterNamesAreUnique /\ AdaptersAreOnRealSwitches

(* A tool that reports success has done what it is for, as StoreDone,
   SettingsDone and NetworkDone say tool by tool, whichever path its scripts
   took, unless another script changed the host while it was at work (the
   scripts of internal/hyperv; their closing projections do not check).
   Nothing is said of delete_checkpoint when the status text showed no merge
   (checkpoint.go:118), nor of detach_vhd, resize_vhd and
   remove_vm_network_adapter; rename_vm ends with the records, which have a
   property of their own. *)
OkMeansDone ==
  [][\A c \in Callers :
       (/\ call[c].st = "running" /\ call[c].pc \in {"end", "report", "stopped"} /\ call[c].alone
        /\ call'[c].st = "idle" /\ call'[c].told = "ok")
         => /\ StoreDone(Req(c), Loc(c)) /\ SettingsDone(Req(c), Loc(c))
            /\ NetworkDone(Req(c), Loc(c))]_call

(* Every call is answered: no slot, deadline or wait keeps a client for ever.
   One whose service died was answered by that; its script, which nobody kills,
   may go on.  The calls of a scene are finitely many, so this is to say that
   all of them have been answered again and again (psrun.go:110, guest.go:56). *)
EveryCallEnds == []<>(\A c \in Callers : call[c].st \in {"idle", "orphan"})

(***************************************************************************)
(* The host implements the contract of its calls.  What counts as changing *)
(* it is what only scripts change: not the power of machines, merges or    *)
(* cables.  A refusal is excused if another script came between, or if the *)
(* tool is one of the four that change something before their last check.  *)
(***************************************************************************)
ChecksLate == {"create_vm_from_template", "set_switch_nat", "set_vm_integration_services",
               "set_vm_network"}

Phase == [idle |-> "idle", queued |-> "waiting", running |-> "working",
          tail |-> "closing", orphan |-> "lost"]

Layer(p) == \E i \in Ids : p \in vms[i].layers /\ files[p] \in vms[i].snap

HostState ==
  <<[i \in Ids |-> <<vms[i].name, vms[i].conf, vms[i].nics, vms[i].built>>],
    {p \in Paths : ~Unused(p) /\ ~Layer(p)}, exports, switches, bound, hostAddr, nats>>

Contract == INSTANCE CallContract WITH
  Limit <- Slots,
  phase <- [c \in Callers |-> Phase[call[c].st]],
  changed <- [c \in Callers |-> call[c].touched],
  excused <- [c \in Callers |-> ~call[c].alone \/ Req(c).op \in ChecksLate],
  told <- [c \in Callers |-> call[c].told],
  host <- HostState

(* The refinement: whatever the tool and the moment, only a call that has its
   turn changes the host, at most Slots have it, and a refusal by the tool's
   own checks leaves the host as it was (psrun.go:110, errmap.go:80). *)
CallsKeepContract == Contract!ContractSpec
=============================================================================
