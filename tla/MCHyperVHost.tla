---------------------------- MODULE MCHyperVHost ----------------------------
(***************************************************************************)
(* Small hosts and the calls made of them.  Each scene brings together the *)
(* tools that act on the same things.                                      *)
(***************************************************************************)
EXTENDS HyperVHost

CONSTANTS c1, c2, c3, gold, d1, d2, d3

MCCallers == {c1, c2, c3}
MCPaths == {gold, d1, d2, d3}
MCIds == 1..2
MCNicIds == 1..2
MCAdapters == {"eth", "wifi"}
MCSubnets == {"subnet"}
MCSwitches == {"lan", "nat"}
MCNames == {"web", "db", "app"}

V4 == Address(4, "routable", TRUE)
Elsewhere == Address(4, "routable", FALSE)
V6 == Address(6, "routable", TRUE)
LL4 == Address(4, "linklocal", FALSE)
LL6 == Address(6, "linklocal", FALSE)
Lo == Address(4, "unusable", TRUE)
MCReports == {<<>>, <<<<LL4, LL6>>>>, <<<<Lo>>, <<LL4, V6, Elsewhere, V4>>>>, <<<<V6>>, <<Elsewhere>>>>}

Machine(name, state, disks) ==
  [NoVM EXCEPT !.name = name, !.state = state, !.disks = disks, !.built = "whole"]
Host(a, b) == [i \in MCIds |-> IF i = 1 THEN a ELSE b]
Web(state) == Host(Machine("web", state, {d1}), NoVM)
BothRun == Host(Machine("web", "Running", {d1}), Machine("db", "Running", {d2}))
Both == Host(Machine("web", "Off", {d1}), Machine("db", "Off", {d2}))

Nic(x, sw) == NewNic(x, "eth0", sw, TRUE)
Disk(q) == [kind |-> "disk", qual |-> q]
Net == [kind |-> "network", qual |-> "eth0"]
File == [kind |-> "file", qual |-> "bootmgr"]
AnyOf(k) == [kind |-> k, qual |-> ""]

(* A host with two files, gold and d1, no switches and nothing on record. *)
Base == [files |-> [p \in MCPaths |-> IF p \in {gold, d1} THEN Root ELSE NoFile],
         exports |-> {}, filed |-> [n \in MCNames |-> {}], answers |-> {}, events |-> {},
         clients |-> {c1, c2},
         switches |-> [s \in MCSwitches |-> "none"], nats |-> [s \in MCSwitches |-> {}]]
Scene(calls, host, with) == with @@ [calls |-> calls, vms |-> host] @@ Base
Files(f) == [files |-> f @@ Base.files]
Events(e) == [events |-> e]

Call(op, n) == [op |-> op, name |-> n]
Create(n, disk) == Call("create_vm", n) @@ [disk |-> disk, switch |-> ""]
FromTemplate(n, parent, disk) ==
  Call("create_vm_from_template", n) @@ [parent |-> parent, disk |-> disk, switch |-> ""]
Delete(n, disks) == Call("delete_vm", n) @@ [delete_disks |-> disks, force |-> TRUE]
Rename(n, new) == Call("rename_vm", n) @@ [new |-> new]
Stop(n, force) == Call("stop_vm", n) @@ [force |-> force]
SetOf(op, n, set) == Call(op, n) @@ [set |-> set]

(* More clients than slots, and the service dying. *)
Crowded == Scene(
  {Create("web", d2), Delete("web", FALSE), Delete("db", FALSE)},
  Host(NoVM, Machine("db", "Off", {d1})), [clients |-> {c1, c2, c3}, events |-> {"crash"}])

(* One machine started and stopped, with a guest that stops by itself. *)
Stopping == Scene(
  {Stop("web", FALSE), Call("start_vm", "web"), Delete("web", FALSE)}, Web("Running"), Events({"guests"}))
Suspending == Scene(
  {Call("restart_vm", "web") @@ [force |-> TRUE], Call("resume_vm", "web"),
   Call("suspend_vm", "web") @@ [mode |-> "save"]}, Web("Running"), Events({"guests"}))

(* Machines created under one name, and a name wanted by a creation, a
   renaming and an import. *)
Creating == Scene(
  {Create("web", d2), FromTemplate("web", gold, d3), Delete("web", TRUE)},
  Host(NoVM, NoVM), Events({}))
Naming == Scene(
  {Create("web", d2), Rename("db", "web"), Call("import_vm", "web") @@ [new |-> "db", new_id |-> TRUE]},
  Host(Machine("db", "Off", {d1}), NoVM), [exports |-> {Exported(3, Machine("web", "Off", {}))}])

(* What is filed under names that change hands. *)
Filing == Scene(
  {Rename("web", "app"), Rename("db", "web"), Call("ssh_exec", "web") @@ [trust |-> FALSE],
   Call("cred.set", "web") @@ [complete |-> FALSE]},
  BothRun, [filed |-> [n \in MCNames |-> IF n = "web" THEN {1} ELSE {}]])
Leaving == Scene(
  {Rename("web", "app"), Delete("db", FALSE), Call("cred.delete", "db"),
   Call("cred.set", "web") @@ [complete |-> TRUE]},
  Both, [filed |-> [n \in MCNames |-> IF n = "db" THEN {2} ELSE {}]] @@ Events({"crash"}))

(* A name whose machine goes is taken by another, which the caller trusts. *)
Trusting == Scene(
  {Call("ssh_exec", "web") @@ [trust |-> TRUE], Delete("web", FALSE), Rename("db", "web")},
  BothRun, [filed |-> [n \in MCNames |-> IF n = "web" THEN {1} ELSE {}]])

(* One machine renamed twice at once; a name left by a deletion and taken by two
   renamings in turn; and an import that passes through another's name. *)
Renaming == Scene(
  {Rename("web", "app"), Rename("web", "db"), Call("open_tunnel", "web")},
  Web("Off"), [filed |-> [n \in MCNames |-> IF n = "web" THEN {1} ELSE {}]])
Inheriting == Scene(
  {Delete("db", FALSE), Rename("web", "db"), Rename("db", "app")},
  Both, [filed |-> [n \in MCNames |-> IF n = "db" THEN {2} ELSE {}]])
Passing == Scene(
  {Call("import_vm", "web") @@ [new |-> "db", new_id |-> TRUE],
   Call("cred.set", "web") @@ [complete |-> FALSE], Create("web", d2)},
  Host(NoVM, NoVM), [exports |-> {Exported(3, Machine("web", "Off", {}))}])

(* A chain of disks, deleted from both ends. *)
Chains == Scene(
  {Delete("web", TRUE), Delete("db", TRUE), Call("attach_vhd", "db") @@ [disk |-> d1],
   Call("start_vm", "db")},
  Both, Files([p \in {d1, d2} |-> IF p = d1 THEN gold ELSE d1]))

(* A checkpoint made, restored and merged away, under a machine that goes. *)
Restoring == Scene(
  {Call("apply_checkpoint", "web") @@ [auto_stop |-> TRUE], Call("delete_checkpoint", "web"),
   Call("start_vm", "web")},
  Host([Machine("web", "Running", {d2}) EXCEPT !.snap = {d1}, !.layers = {d2}], NoVM),
  Files([p \in {d2} |-> d1]))
Merging == Scene(
  {Call("create_checkpoint", "web"), Call("delete_checkpoint", "web"), Delete("web", TRUE)},
  Web("Running"), Events({}))

(* Disk files made, converted, attached, detached, resized; machines exported. *)
DiskFiles == Scene(
  {Call("create_vhd", "") @@ [disk |-> d2, parent |-> gold],
   Call("convert_vhd", "") @@ [source |-> d1, disk |-> d2],
   Call("attach_vhd", "web") @@ [disk |-> d2], Call("detach_vhd", "web") @@ [disk |-> d1]},
  Web("Running"), Events({}))
SeedDisks == Scene(
  {Call("create_seed_disk", "") @@ [disk |-> d1, overwrite |-> TRUE],
   Call("create_seed_disk", "") @@ [disk |-> d1, overwrite |-> FALSE],
   Call("resize_vhd", "") @@ [disk |-> d1], Call("start_vm", "web")},
  Web("Off"), Events({}))
Exporting == Scene(
  {Call("export_vm", "web"), Delete("web", FALSE),
   Call("import_vm", "") @@ [new |-> "web", new_id |-> FALSE]}, Web("Off"), Events({"crash"}))

(* Memory, nested virtualization and security, which bear on each other. *)
Sizing == Scene(
  {SetOf("set_vm_nested_virtualization", "web", [nested |-> TRUE]),
   SetOf("set_vm_memory", "web", [dynamic |-> TRUE, minimum |-> 2]), Call("start_vm", "web")},
  Host([Machine("web", "Off", {d1}) EXCEPT !.conf.dynamic = TRUE], NoVM), Events({}))
Securing == Scene(
  {SetOf("set_vm_memory", "web", [minimum |-> 3, maximum |-> 1]),
   SetOf("set_vm_security", "web", [tpm |-> TRUE]), SetOf("set_vm_security", "web", [encrypt |-> TRUE]),
   SetOf("set_vm_processor", "web", [reserve |-> 2, ceiling |-> 1])},
  Web("Off"), Events({}))

(* Boot orders of both generations. *)
Booting == Scene(
  {SetOf("set_vm_firmware", "web", [boot |-> <<AnyOf("network"), Disk("d1")>>, secure |-> "linux"]),
   SetOf("set_vm_firmware", "web", [boot |-> <<AnyOf("file"), AnyOf("disk")>>]),
   SetOf("set_vm_firmware", "web", [boot |-> <<AnyOf("dvd")>>])},
  Host([Machine("web", "Off", {d1}) EXCEPT !.devs = <<Disk("d1"), Disk("d2"), Net>>,
          !.conf.boot = <<File, Disk("d2"), Net, Disk("d1")>>], NoVM), Events({}))
BiosBooting == Scene(
  {SetOf("set_vm_firmware", "db", [boot |-> <<AnyOf("network"), AnyOf("dvd"), AnyOf("network")>>,
                                   numlock |-> TRUE]),
   SetOf("set_vm_firmware", "db", [boot |-> <<AnyOf("floppy")>>]),
   SetOf("set_vm_firmware", "db", [boot |-> <<AnyOf("file")>>]), Rename("db", "db")},
  Host(NoVM, [Machine("db", "Off", {d2}) EXCEPT !.gen = 1,
                !.conf.boot = <<"dvd", "disk", "network", "floppy">>]), Events({}))

(* The settings that stand alone. *)
WebWithNic == Host([Machine("web", "Running", {d1}) EXCEPT !.nics = {Nic(1, "none")}], NoVM)
Options == Scene(
  {SetOf("set_vm_options", "web", [stop |-> "ShutDown"]),
   SetOf("set_vm_integration_services", "web", [gsi |-> TRUE, vss |-> TRUE]),
   SetOf("set_vm_network_advanced", "web", [max_bw |-> 1, trunk |-> {2}])}, WebWithNic, Events({}))
Limits == Scene(
  {SetOf("set_vm_video", "web", [size |-> 1]), Stop("web", TRUE),
   SetOf("set_vm_com_port", "web", [pipe |-> "com1", debug |-> TRUE]),
   SetOf("set_vm_disk_settings", "web", [max_iops |-> 2]) @@ [disk |-> d1]}, WebWithNic, Events({}))

(* Switches under the machines, the host and its adapters. *)
External(s, a) == [op |-> "create_switch", switch |-> s, type |-> "External", adapter |-> a,
                   manage |-> FALSE, confirm |-> TRUE]
Cabling == Scene(
  {External("lan", "eth"), External("nat", "wifi"), [External("lan", "eth") EXCEPT !.confirm = FALSE],
   [op |-> "delete_switch", switch |-> "lan", confirm |-> TRUE]},
  Host(NoVM, NoVM), Events({"cables"}))

Translate(s, enable) == [op |-> "set_switch_nat", switch |-> s, enable |-> enable, prefix |-> "subnet"]
HostAddress(s, remove) == [op |-> "set_switch_host_address", switch |-> s, remove |-> remove]
Inside == [switches |-> [s \in MCSwitches |-> IF s = "nat" THEN "Internal" ELSE "Private"]]
Translating == Scene(
  {Translate("nat", TRUE), HostAddress("nat", FALSE), HostAddress("nat", TRUE),
   [op |-> "delete_switch", switch |-> "nat", confirm |-> FALSE]}, Host(NoVM, NoVM), Inside)
Retranslating == Scene(
  {Translate("nat", TRUE), Translate("nat", FALSE), Translate("lan", TRUE), HostAddress("lan", FALSE)},
  Host(NoVM, NoVM), [nats |-> [s \in MCSwitches |-> IF s = "nat" THEN MCSubnets ELSE {}]] @@ Inside)

Wire(nic, s, create) == Call("set_vm_network", "web") @@
  [nic |-> nic, switch |-> s, create |-> create, mac |-> "static", vlan |-> 7]
Wired == Host([Machine("web", "Off", {d1}) EXCEPT !.nics = {Nic(1, "nat")}], NoVM)
NatSwitch == [switches |-> [s \in MCSwitches |-> IF s = "nat" THEN "Internal" ELSE "none"]]
Wiring == Scene(
  {Wire("eth1", "nat", TRUE), Wire("eth1", "lan", TRUE),
   [op |-> "delete_switch", switch |-> "nat", confirm |-> TRUE]}, Wired, NatSwitch)
Rewiring == Scene(
  {Wire("", "", FALSE), Wire("eth0", "-", TRUE), Wire("eth1", "nat", FALSE),
   Call("remove_vm_network_adapter", "web") @@ [nic |-> "eth0"]}, Wired, NatSwitch)
Joining == Scene(
  {[Create("web", d2) EXCEPT !.switch = "nat"], Wire("", "nat", TRUE),
   [op |-> "delete_switch", switch |-> "nat", confirm |-> TRUE]}, Host(NoVM, NoVM), NatSwitch)

(* A guest whose addresses come and go while tools ask for one. *)
AddressOf(op, subnet, linkLocal) == Call(op, "web") @@ [subnet |-> subnet, linkLocal |-> linkLocal]
Addressing == Scene(
  {AddressOf("wait_for_guest_ip", TRUE, FALSE), AddressOf("ssh_info", FALSE, FALSE),
   Call("diagnose_vm_network", "web")},
  Wired, [answers |-> {V4}] @@ NatSwitch @@ Events({"reports", "crash"}))

(* A clone of an image with a checkpoint: it writes to a disk on top of a disk
   on top of the image, which is the disk of another machine. *)
ClonedImage == Scene(
  {Delete("web", TRUE)},
  Host(Machine("web", "Off", {gold}), [Machine("db", "Off", {d3}) EXCEPT !.snap = {d2}, !.layers = {d3}]),
  Files([p \in {d2, d3} |-> IF p = d2 THEN gold ELSE d2]))

MCCloned == {ClonedImage}

MCScenes ==
  {Crowded, Stopping, Suspending, Creating, Naming, Filing, Trusting, Leaving, Renaming,
   Inheriting, Passing, Chains, Restoring, Merging,
   DiskFiles, SeedDisks, Exporting, Sizing, Securing, Booting, BiosBooting, Options, Limits,
   Cabling, Translating, Retranslating, Wiring, Rewiring, Joining, Addressing}
=============================================================================
