----------------------------- MODULE VmNetwork ------------------------------
(***************************************************************************)
(* internal/hyperv/network.go and switchnet.go: virtual switches, the      *)
(* host's address on them, NAT, and the network adapters of machines.      *)
(* An adapter is a NewNic and what became of it; two of a machine may      *)
(* share a name, and the tools take the first of it.                       *)
(***************************************************************************)
EXTENDS VmStore

CONSTANTS Subnets,  \* address prefixes a NAT can translate
          Adapters  \* physical adapters of the host

ASSUME AdaptersAssumption == IsFiniteSet(Adapters)

VARIABLES bound,    \* [Switches -> SUBSET Adapters]: the one an External switch is on
          taken,    \* adapters whose switch the host itself has no part in
          up,       \* adapters with a cable
          hostAddr, \* switches on whose host adapter an address is set
          nats      \* [Switches -> SUBSET Subnets]: the NAT filed under the switch

netVars == <<switches, bound, taken, up, hostAddr, nats>>

NameOf(r) == IF r.nic = "" THEN DefaultNic ELSE r.nic
Meant(r, nics) == IF r.nic = "" THEN nics ELSE {a \in nics : a.name = r.nic}
Oldest(nics) == CHOOSE a \in nics : \A b \in nics : a.id <= b.id
SetNics(i, nics) == vms' = [vms EXCEPT ![i].nics = nics]

(***************************************************************************)
(* Switches.  An External one is put on a physical adapter, which the host *)
(* goes on using only if the management OS is allowed on the switch.  What *)
(* is counted before are the adapters with a cable, taken or not.          *)
(***************************************************************************)
RefusesSwitch(r) ==
  /\ r.op = "create_switch" /\ r.type = "External" /\ ~r.confirm

TakesAdapter(r) == r.type = "External" /\ ~r.manage

CheckNewSwitchLate(c) ==
  /\ At(c, {"create_switch"}, "look")
  /\ IF switches[Req(c).switch] # "none" \/ (TakesAdapter(Req(c)) /\ Cardinality(up) < 1)
     THEN Throw(c) ELSE Goto(c, "make", {})
  /\ UNCHANGED <<storeVars, netVars>>

CheckNewSwitch(c) ==
  /\ At(c, {"create_switch"}, "look")
  /\ IF \/ switches[Req(c).switch] # "none"
        \/ TakesAdapter(Req(c)) /\ Cardinality(up) <= 1
     THEN Throw(c) ELSE Goto(c, "make", {})
  /\ UNCHANGED <<storeVars, netVars>>

NewSwitch(c) ==
  /\ At(c, {"create_switch"}, "make")
  /\ LET s == Req(c).switch
         on == IF Req(c).type = "External" THEN {Req(c).adapter} ELSE {} IN
       /\ switches[s] = "none" /\ \A t \in Switches : bound[t] \cap on = {}
       /\ switches' = [switches EXCEPT ![s] = Req(c).type]
       /\ bound' = [bound EXCEPT ![s] = on]
       /\ taken' = IF TakesAdapter(Req(c)) THEN taken \cup on ELSE taken
  /\ Effect(c, "end", {}) /\ UNCHANGED <<storeVars, up, hostAddr, nats>>

FindSwitch(c) ==
  /\ At(c, {"delete_switch", "set_switch_host_address"}, "look")
  /\ LET type == switches[Req(c).switch] IN
       IF \/ type = "none"
          \/ Req(c).op = "delete_switch" /\ type = "External" /\ ~Req(c).confirm
          \/ Req(c).op = "set_switch_host_address" /\ type = "Private"
       THEN Throw(c) ELSE Goto(c, "clear", {})
  /\ UNCHANGED <<storeVars, netVars>>

(* Hyper-V disconnects the adapters of the switch; the NAT stays. *)
DeleteSwitch(c) ==
  /\ At(c, {"delete_switch"}, "clear") /\ switches[Req(c).switch] # "none"
  /\ switches' = [switches EXCEPT ![Req(c).switch] = "none"]
  /\ hostAddr' = hostAddr \ {Req(c).switch}
  /\ taken' = taken \ bound[Req(c).switch] /\ bound' = [bound EXCEPT ![Req(c).switch] = {}]
  /\ vms' = [i \in Ids |-> [vms[i] EXCEPT !.nics =
       {IF a.switch = Req(c).switch THEN [a EXCEPT !.switch = "none"] ELSE a : a \in @}]]
  /\ Effect(c, "end", {}) /\ OnlyVMs /\ UNCHANGED <<up, nats>>

(* The old address and its routes go first, and then the new one comes. *)
ClearHostAddress(c) ==
  /\ At(c, {"set_switch_host_address"}, "clear") /\ switches[Req(c).switch] # "none"
  /\ hostAddr' = hostAddr \ {Req(c).switch}
  /\ Effect(c, IF Req(c).remove THEN "end" ELSE "make", {})
  /\ UNCHANGED <<storeVars, switches, bound, taken, up, nats>>

SetHostAddress(c) ==
  /\ At(c, {"set_switch_host_address"}, "make") /\ switches[Req(c).switch] # "none"
  /\ hostAddr' = hostAddr \cup {Req(c).switch}
  /\ Effect(c, "end", {}) /\ UNCHANGED <<storeVars, switches, bound, taken, up, nats>>

(***************************************************************************)
(* NAT.  The one of this name is removed before the checks of the new one, *)
(* which Windows refuses when another NAT has an overlapping prefix.       *)
(***************************************************************************)
RemoveNAT(c) ==
  /\ At(c, {"set_switch_nat"}, "look")
  /\ LET s == Req(c).switch  to == IF Req(c).enable THEN "make" ELSE "end" IN
       \/ switches[s] = "none" /\ Throw(c) /\ UNCHANGED nats
       \/ switches[s] # "none" /\ nats[s] = {} /\ Goto(c, to, {}) /\ UNCHANGED nats
       \/ /\ switches[s] # "none" /\ nats[s] # {}
          /\ nats' = [nats EXCEPT ![s] = {}] /\ Effect(c, to, {})
  /\ UNCHANGED <<storeVars, switches, bound, taken, up, hostAddr>>

NewNAT(c) ==
  /\ At(c, {"set_switch_nat"}, "make")
  /\ LET s == Req(c).switch IN
       IF \/ switches[s] \notin {"Internal", "External"} \/ s \notin hostAddr
          \/ \E t \in Switches : Req(c).prefix \in nats[t]
       THEN Throw(c) /\ UNCHANGED nats
       ELSE nats' = [nats EXCEPT ![s] = {Req(c).prefix}] /\ Effect(c, "end", {})
  /\ UNCHANGED <<storeVars, switches, bound, taken, up, hostAddr>>

(***************************************************************************)
(* Adapters.  set_vm_network finds the adapter or adds it, connects it,    *)
(* and then sets its address and VLAN.                                     *)
(***************************************************************************)
FindAdapterAnew(c) ==
  /\ At(c, {"set_vm_network", "remove_vm_network_adapter"}, "look")
  /\ \E i \in Named(Req(c).name) :
       IF Req(c).op = "set_vm_network" /\ Req(c).create THEN Goto(c, "add", [on |-> i, nic |-> 0])
       ELSE LET found == Meant(Req(c), Nics(i)) IN
              IF found # {} THEN Goto(c, "connect", [on |-> i, nic |-> Oldest(found).id]) ELSE Throw(c)
  /\ UNCHANGED <<storeVars, netVars>>

FindAdapter(c) ==
  /\ At(c, {"set_vm_network", "remove_vm_network_adapter"}, "look")
  /\ LET on == Named(Req(c).name) IN
       \/ on = {} /\ Throw(c)
       \/ \E i \in on :
            /\ on = {i}
            /\ LET found == Meant(Req(c), Nics(i)) IN
                 IF found # {} THEN Goto(c, "connect", [on |-> i, nic |-> Oldest(found).id])
                 ELSE IF Req(c).op = "set_vm_network" /\ Req(c).create
                      THEN Goto(c, "add", [on |-> i, nic |-> 0])
                 ELSE Throw(c)
  /\ UNCHANGED <<storeVars, netVars>>

(* The script goes on with the first adapter it now finds. *)
AddAdapter(c) ==
  /\ At(c, {"set_vm_network"}, "add") /\ Exists(Loc(c).on)
  /\ \E x \in NicIds :
       LET nics == Nics(Loc(c).on) \cup {NewNic(x, NameOf(Req(c)), "none", call[c].alone)} IN
         /\ ~NicInUse(x) /\ SetNics(Loc(c).on, nics)
         /\ Effect(c, "connect", [Loc(c) EXCEPT !.nic = Oldest(Meant(Req(c), nics)).id])
  /\ OnlyVMs /\ UNCHANGED netVars

TheNic(c) == CHOOSE a \in Nics(Loc(c).on) : a.id = Loc(c).nic
HasNic(c) == \E a \in Nics(Loc(c).on) : a.id = Loc(c).nic
Rewire(c, a) == SetNics(Loc(c).on, (Nics(Loc(c).on) \ {TheNic(c)}) \cup {a})

ConnectAdapter(c) ==
  /\ At(c, {"set_vm_network"}, "connect") /\ HasNic(c)
  /\ LET s == Req(c).switch IN
       \/ s = "" /\ Goto(c, "port", Loc(c)) /\ UNCHANGED vms
       \/ s \in Switches /\ switches[s] = "none" /\ Throw(c) /\ UNCHANGED vms
       \/ /\ s = "-" \/ (s \in Switches /\ switches[s] # "none")
          /\ Rewire(c, [TheNic(c) EXCEPT !.switch = IF s = "-" THEN "none" ELSE s])
          /\ Effect(c, "port", Loc(c))
  /\ OnlyVMs /\ UNCHANGED netVars

SetPort(c) ==
  /\ At(c, {"set_vm_network"}, "port") /\ HasNic(c)
  /\ Rewire(c, [TheNic(c) EXCEPT !.mac = IF Req(c).mac = "" THEN @ ELSE Req(c).mac,
                                 !.vlan = IF Req(c).vlan < 0 THEN @ ELSE Req(c).vlan])
  /\ Effect(c, "end", {Loc(c).on}) /\ OnlyVMs /\ UNCHANGED netVars

RemoveAdapter(c) ==
  /\ At(c, {"remove_vm_network_adapter"}, "connect") /\ HasNic(c)
  /\ SetNics(Loc(c).on, Nics(Loc(c).on) \ {TheNic(c)})
  /\ Effect(c, "end", {Loc(c).on}) /\ OnlyVMs /\ UNCHANGED netVars

Networking(c) ==
  \/ CheckNewSwitch(c) \/ NewSwitch(c) \/ FindSwitch(c) \/ DeleteSwitch(c)
  \/ ClearHostAddress(c) \/ SetHostAddress(c) \/ RemoveNAT(c) \/ NewNAT(c)
  \/ FindAdapter(c) \/ AddAdapter(c) \/ ConnectAdapter(c) \/ SetPort(c) \/ RemoveAdapter(c)

(* A cable is pulled out or put back, under any script. *)
CableMoves ==
  /\ \E a \in Adapters : up' = IF a \in up THEN up \ {a} ELSE up \cup {a}
  /\ up' # {} /\ Overtake
  /\ UNCHANGED <<storeVars, switches, bound, taken, hostAddr, nats>>

(***************************************************************************)
(* Properties.                                                             *)
(***************************************************************************)

(* create_switch never takes the host's last adapter with a cable, as long as
   none was taken before it and no cable and no other script moved after its
   count (network.go:197). *)
HostKeepsAnAdapter ==
  [][\A c \in Callers :
       (/\ At(c, {"create_switch"}, "make") /\ call[c].alone /\ call'[c].alone
        /\ taken = {} /\ ~(taken' \subseteq taken))
         => up \ taken' # {}]_taken

(* set_vm_network called again, or for an adapter that is there, adds none: a
   machine has two adapters of a name only if one of them was added while
   another script overtook the look at what the machine has (network.go:307). *)
AdapterNamesAreUnique ==
  \A i \in Ids : \A a, b \in Nics(i) : a # b /\ a.name = b.name => ~a.checked \/ ~b.checked

(* No adapter of a machine is left on a switch that is gone. *)
AdaptersAreOnRealSwitches ==
  \A i \in Ids : \A a \in Nics(i) : a.switch # "none" => switches[a.switch] # "none"

(* What the network tools have achieved when they report success; the switch
   given to set_vm_network may be none, to leave the adapter where it is, or
   "-", to disconnect it. *)
NetworkDone(r, on) ==
  /\ r.op = "create_switch" => switches[r.switch] = r.type
  /\ r.op = "delete_switch" => switches[r.switch] = "none"
  /\ r.op = "set_vm_network" /\ r.switch \in Switches \ {"", "-"} =>
       \A i \in on : \E a \in Nics(i) : a.switch = r.switch
  /\ r.op = "set_switch_nat" => nats[r.switch] = IF r.enable THEN {r.prefix} ELSE {}
  /\ r.op = "set_switch_host_address" => (r.switch \in hostAddr <=> ~r.remove)
=============================================================================
