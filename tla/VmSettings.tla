----------------------------- MODULE VmSettings -----------------------------
(***************************************************************************)
(* internal/hyperv/settings.go and the per-port features of network.go.    *)
(* A settings tool is given some settings and leaves the rest: r.set is a  *)
(* function on the names of the settings given.  The Go side checks what   *)
(* was given, the script the machine; then the cmdlets run one by one, and *)
(* each writes its settings at once or, when Hyper-V will not have the     *)
(* result, none of them.                                                   *)
(***************************************************************************)
EXTENDS VmStore

Setters == {"set_vm_memory", "set_vm_processor", "set_vm_nested_virtualization", "set_vm_firmware",
            "set_vm_options", "set_vm_integration_services", "set_vm_security", "set_vm_video",
            "set_vm_com_port", "set_vm_disk_settings", "set_vm_network_advanced"}

(* What a call of each tool can give: the fields of its options. *)
Offers ==
  [set_vm_memory |-> {"startup", "minimum", "maximum", "dynamic"},
   set_vm_processor |-> {"reserve", "ceiling"}, set_vm_nested_virtualization |-> {"nested"},
   set_vm_firmware |-> {"boot", "secure", "numlock"}, set_vm_options |-> {"stop", "paging"},
   set_vm_integration_services |-> {"gsi", "kvp", "vss"}, set_vm_security |-> {"encrypt", "tpm"},
   set_vm_video |-> {"kind", "size"}, set_vm_com_port |-> {"pipe", "debug"},
   set_vm_disk_settings |-> {"min_iops", "max_iops"},
   set_vm_network_advanced |-> {"min_bw", "max_bw", "weight", "trunk"}]

Given(r, f) == f \in DOMAIN r.set
Above(r, lo, hi) == Given(r, lo) /\ Given(r, hi) /\ r.set[lo] > r.set[hi]
Below(r, f, least) == Given(r, f) /\ r.set[f] < least

(* Both are given, neither is zero, and zero means no limit. *)
AboveLimit(r, lo, hi) == Above(r, lo, hi) /\ r.set[hi] > 0

(***************************************************************************)
(* What each tool refuses before it sends a script: a value out of range,  *)
(* two given values that contradict each other, or nothing given at all.   *)
(* Only what the request gives is compared, never what the machine has.    *)
(***************************************************************************)
RefusesMemory(r) ==
  \/ \E f \in {"startup", "minimum", "maximum"} : Below(r, f, 1)
  \/ Above(r, "minimum", "maximum") \/ Above(r, "startup", "maximum") \/ Above(r, "minimum", "startup")

Percent == 0..3  \* quarters of 100 stand for the percentages

RefusesProcessor(r) ==
  \/ \E f \in {"reserve", "ceiling"} : Given(r, f) /\ r.set[f] \notin Percent
  \/ Above(r, "reserve", "ceiling")

BootKinds == {"disk", "dvd", "network", "floppy", "file"}

RefusesFirmware(r) ==
  \/ DOMAIN r.set = {}
  \/ Given(r, "boot") /\ \E t \in Range(r.set.boot) : t.kind \notin BootKinds
  \/ Given(r, "secure") /\ r.set.secure \notin {"windows", "linux", "off"}

RefusesOptions(r) ==
  Given(r, "stop") /\ r.set.stop \notin {"TurnOff", "Save", "ShutDown"}

RefusesServices(r) == DOMAIN r.set = {}
RefusesSecurity(r) == DOMAIN r.set = {}

(* A size given alone means Single, and only Default stands without one. *)
VideoKind(r) == IF Given(r, "kind") THEN r.set.kind ELSE "Single"
RefusesVideo(r) ==
  \/ DOMAIN r.set = {}
  \/ Given(r, "kind") /\ r.set.kind \notin {"Default", "Single", "Maximum"}
  \/ VideoKind(r) # "Default" /\ ~Given(r, "size")

RefusesComPort(r) ==
  \/ DOMAIN r.set = {}
  \/ Given(r, "pipe") /\ r.set.pipe = "file"

RefusesDisk(r) ==
  \/ Below(r, "min_iops", 0) \/ Below(r, "max_iops", 0) \/ AboveLimit(r, "min_iops", "max_iops")

RefusesAdapter(r) ==
  \/ \E f \in {"min_bw", "max_bw", "weight"} : Below(r, f, 0)
  \/ Given(r, "min_bw") /\ Given(r, "weight") /\ r.set.min_bw > 0 /\ r.set.weight > 0
  \/ AboveLimit(r, "min_bw", "max_bw")

SettingsRefuses(r) ==
  \/ r.op = "set_vm_memory" /\ RefusesMemory(r)
  \/ r.op = "set_vm_processor" /\ RefusesProcessor(r)
  \/ r.op = "set_vm_firmware" /\ RefusesFirmware(r)
  \/ r.op = "set_vm_options" /\ RefusesOptions(r)
  \/ r.op = "set_vm_integration_services" /\ RefusesServices(r)
  \/ r.op = "set_vm_security" /\ RefusesSecurity(r)
  \/ r.op = "set_vm_video" /\ RefusesVideo(r)
  \/ r.op = "set_vm_com_port" /\ RefusesComPort(r)
  \/ r.op = "set_vm_disk_settings" /\ RefusesDisk(r)
  \/ r.op = "set_vm_network_advanced" /\ RefusesAdapter(r)

(***************************************************************************)
(* Boot orders.  A Generation 2 order lists devices; the settings report   *)
(* each as a token, kind and qualifier, and a token given back stands for  *)
(* every attached device it matches.  A Generation 1 order is one of four  *)
(* device classes, and the classes not given keep their places at the end. *)
(***************************************************************************)
Only(s, S) ==
  LET upTo[n \in 0..Len(s)] ==
        IF n = 0 THEN <<>> ELSE IF s[n] \in S THEN Append(upTo[n - 1], s[n]) ELSE upTo[n - 1]
  IN upTo[Len(s)]

Token(d) == [kind |-> d.kind, qual |-> d.qual]
Matches(t, d) == d.kind = t.kind /\ (t.qual = "" \/ d.qual = t.qual)
MatchedBy(t, devices) == Only(devices, {d \in Range(devices) : Matches(t, d)})

(* The devices an order of tokens stands for, in the order Hyper-V lists them. *)
Devices(tokens, devices) ==
  LET upTo[n \in 0..Len(tokens)] ==
        IF n = 0 THEN <<>> ELSE upTo[n - 1] \o MatchedBy(tokens[n], devices)
  IN upTo[Len(tokens)]

Classes == {"disk", "dvd", "network", "floppy"}

BiosOrderRepeating(tokens, current) ==
  LET first == [k \in DOMAIN tokens |-> tokens[k].kind]
  IN first \o Only(current, Range(current) \ Range(first))

(* The classes the tokens name, once each, and then the rest as they were. *)
BiosOrder(tokens, current) ==
  LET named[n \in 0..Len(tokens)] ==
        IF n = 0 THEN <<>>
        ELSE IF tokens[n].kind \in Range(named[n - 1]) THEN named[n - 1]
        ELSE Append(named[n - 1], tokens[n].kind)
      first == named[Len(tokens)]
  IN first \o Only(current, Range(current) \ Range(first))

(* A file entry is no device: it can only be carried over from the order. *)
FileEntries(order) == Only(order, {d \in Range(order) : d.kind = "file"})
Bootable(i) == vms[i].devs \o FileEntries(vms[i].conf.boot)

RefusesBoot(r, i) ==
  IF vms[i].gen = 2
  THEN \/ Given(r, "numlock")
       \/ Given(r, "boot") /\ \E t \in Range(r.set.boot) :
            t.kind = "floppy" \/ MatchedBy(t, Bootable(i)) = <<>>
  ELSE \/ Given(r, "secure")
       \/ Given(r, "boot") /\ \E t \in Range(r.set.boot) : t.kind \notin Classes

NewBoot(r, i) ==
  IF vms[i].gen = 2 THEN Devices(r.set.boot, Bootable(i)) ELSE BiosOrder(r.set.boot, vms[i].conf.boot)

(***************************************************************************)
(* What the script refuses once it has found the machine, and its cmdlets: *)
(* the settings each of them writes, in order.                             *)
(***************************************************************************)
Over(set, conf) == [f \in DOMAIN set \cup DOMAIN conf |-> IF f \in DOMAIN set THEN set[f] ELSE conf[f]]
OneOf(r, f) == IF Given(r, f) THEN <<[x \in {f} |-> r.set[f]]>> ELSE <<>>

NotSecurable(i) == vms[i].gen # 2 \/ vms[i].state # "Off"
NoSuchDisk(r, i) == r.disk \notin vms[i].disks
NoSuchAdapter(i) == vms[i].nics = {}

ScriptRefuses(r, i) ==
  \/ r.op = "set_vm_nested_virtualization" /\ vms[i].state # "Off"
  \/ r.op = "set_vm_security" /\ NotSecurable(i)
  \/ r.op = "set_vm_firmware" /\ RefusesBoot(r, i)
  \/ r.op = "set_vm_disk_settings" /\ NoSuchDisk(r, i)
  \/ r.op = "set_vm_network_advanced" /\ NoSuchAdapter(i)
  \/ DOMAIN r.set = {}

InOneCmdlet(r) == <<r.set>>

(* Dynamic memory goes before nested virtualization comes. *)
NestedCmdlets(r, i) ==
  (IF r.set.nested /\ vms[i].conf.dynamic THEN <<[dynamic |-> FALSE]>> ELSE <<>>)
  \o OneOf(r, "nested")

(* A key protector is made where one is wanted and there is none. *)
SecurityCmdlets(r, i) ==
  (IF (\E f \in DOMAIN r.set : r.set[f]) /\ ~vms[i].conf.protector
   THEN <<[protector |-> TRUE]>> ELSE <<>>)
  \o OneOf(r, "encrypt") \o OneOf(r, "tpm")

ServiceCmdlets(r) == OneOf(r, "gsi") \o OneOf(r, "kvp") \o OneOf(r, "vss")

(* The port features of a machine here are those of the one adapter named. *)
AdapterCmdlets(r) ==
  (IF DOMAIN r.set \ {"trunk"} = {} THEN <<>> ELSE <<Restrict(r.set, DOMAIN r.set \ {"trunk"})>>)
  \o OneOf(r, "trunk")

FirmwareCmdlets(r, i) ==
  (IF Given(r, "boot") THEN <<[boot |-> NewBoot(r, i)]>> ELSE <<>>)
  \o OneOf(r, "secure") \o OneOf(r, "numlock")

VideoCmdlets(r) == <<Over([kind |-> VideoKind(r)], r.set)>>

Cmdlets(r, i) ==
  CASE r.op = "set_vm_nested_virtualization" -> NestedCmdlets(r, i)
    [] r.op = "set_vm_security" -> SecurityCmdlets(r, i)
    [] r.op = "set_vm_integration_services" -> ServiceCmdlets(r)
    [] r.op = "set_vm_network_advanced" -> AdapterCmdlets(r)
    [] r.op = "set_vm_firmware" -> FirmwareCmdlets(r, i)
    [] r.op = "set_vm_video" -> VideoCmdlets(r)
    [] OTHER -> InOneCmdlet(r)

FindForSetting(c) ==
  /\ At(c, Setters, "look")
  /\ LET on == Named(Req(c).name) IN
       \/ on = {} /\ Throw(c)
       \/ \E i \in on : /\ on = {i}
                        /\ IF ScriptRefuses(Req(c), i) THEN Throw(c)
                           ELSE Goto(c, "apply", [on |-> i, todo |-> Cmdlets(Req(c), i)])
  /\ UNCHANGED storeVars

(* A service the machine does not offer (here "vss") is found missing when its
   turn comes, after the changes before it.  Hyper-V itself asks for memory and
   processor bounds in order and for a protector under a TPM, and a running
   machine does not take every setting: some it refuses, and nested
   virtualization it accepts without applying it. *)
Acceptable(conf) ==
  /\ conf.minimum <= conf.startup /\ conf.startup <= conf.maximum /\ conf.reserve <= conf.ceiling
  /\ (conf.tpm \/ conf.encrypt) => conf.protector
OffOnly == {"protector", "encrypt", "tpm", "dynamic", "boot", "kind", "size"}
Taken(conf, set, off) ==
  Over(IF off THEN set ELSE [f \in DOMAIN set \ {"nested"} |-> set[f]], conf)

NotOffered(r, set) ==
  r.op = "set_vm_integration_services" /\ DOMAIN set \ DOMAIN DefaultConf # {}

ApplySetting(c) ==
  /\ At(c, Setters, "apply")
  /\ LET i == Loc(c).on  todo == Loc(c).todo  off == vms[i].state = "Off" IN
       IF todo = <<>> THEN Goto(c, "end", {i}) /\ UNCHANGED vms
       ELSE IF NotOffered(Req(c), Head(todo)) THEN Throw(c) /\ UNCHANGED vms
       ELSE LET new == Taken(vms[i].conf, Head(todo), off) IN
         /\ Exists(i) /\ Acceptable(new) /\ (off \/ DOMAIN Head(todo) \cap OffOnly = {})
         /\ vms' = [vms EXCEPT ![i].conf = new]
         /\ Effect(c, "apply", [on |-> i, todo |-> Tail(todo)])
  /\ OnlyVMs

Settings(c) == FindForSetting(c) \/ ApplySetting(c)

(***************************************************************************)
(* Properties.                                                             *)
(***************************************************************************)

(* Reading a Generation 2 boot order and sending it back unchanged keeps it, as
   long as nothing answers to the token of another: no two adapters of a name,
   no file entry that an order named twice (settings.go:405). *)
BootOrderRoundTrips ==
  \A i \in Ids : LET boot == vms[i].conf.boot  devices == Bootable(i) IN
    (/\ Exists(i) /\ vms[i].gen = 2
     /\ \A k, l \in DOMAIN devices : Matches(Token(devices[k]), devices[l]) => k = l)
      => Devices([k \in DOMAIN boot |-> Token(boot[k])], devices) = boot

(* A Generation 1 order names each of the four classes once, whatever part of
   it callers gave and however often (settings.go:564). *)
BiosOrderIsAPermutation ==
  \A i \in Ids : (Exists(i) /\ vms[i].gen = 1) =>
    Len(vms[i].conf.boot) = Cardinality(Classes) /\ Range(vms[i].conf.boot) = Classes

(* A settings tool that reports success has set what it was given, and nested
   virtualization never beside dynamic memory (vm.go:245): set_vm_memory, which
   the comment there does not know of, may turn that on after. *)
SettingsDone(r, on) ==
  r.op \in Setters => \A i \in on :
    /\ \A f \in DOMAIN r.set \ {"boot"} : vms[i].conf[f] = r.set[f]
    /\ (r.op = "set_vm_nested_virtualization" /\ r.set.nested) => ~vms[i].conf.dynamic
=============================================================================
