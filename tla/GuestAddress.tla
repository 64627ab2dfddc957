---------------------------- MODULE GuestAddress ----------------------------
(***************************************************************************)
(* internal/hyperv/guest.go and the diagnosis in network.go: which of the  *)
(* addresses a guest reports the service dials, waiting for one, and what  *)
(* a caller is told of a guest's network.  An address is a record: family  *)
(* 4 or 6, kind "routable", "linklocal" or "unusable" (loopback,           *)
(* unspecified or no address at all), and inside, whether the subnet a     *)
(* caller asks for holds it.                                               *)
(***************************************************************************)
EXTENDS VmStore, SequencesExt

CONSTANTS Reports,  \* what a guest may report: a sequence of addresses per adapter
          NoAddress \* the empty string: no address picked

Addresses ==
  [family : {4, 6}, kind : {"routable", "linklocal", "unusable"}, inside : BOOLEAN]
ASSUME AddressesAssumption == Reports \subseteq Seq(Seq(Addresses)) /\ NoAddress \notin Addresses

VARIABLES reported, \* [Ids -> Reports]
          answers   \* addresses that answer a connection from the host

addressVars == <<reported, answers>>

Address(family, kind, inside) == [family |-> family, kind |-> kind, inside |-> inside]

(***************************************************************************)
(* pickGuestIP: one pass over every address of every adapter, keeping the  *)
(* first of each class, and then the best class.                           *)
(***************************************************************************)
Considered(a, subnet) == a.kind # "unusable" /\ (subnet => a.inside)

Class(a) == IF a.kind = "linklocal" THEN "linklocal" ELSE IF a.family = 4 THEN "v4" ELSE "v6"

FirstOf(best, a) == IF best = NoAddress THEN a ELSE best

KeepLast(best, a, subnet, linkLocal) ==
  IF ~Considered(a, subnet) THEN best
  ELSE IF Class(a) = "linklocal" /\ ~(linkLocal /\ a.family = 4) THEN best
  ELSE [best EXCEPT ![Class(a)] = a]

KeepFirst(best, a, subnet, linkLocal) ==
  IF ~Considered(a, subnet) THEN best
  ELSE IF Class(a) = "linklocal" /\ ~(linkLocal /\ a.family = 4) THEN best
  ELSE [best EXCEPT ![Class(a)] = FirstOf(@, a)]

(* The best of each class among the first n addresses. *)
BestOf(all, subnet, linkLocal) ==
  LET best[n \in 0..Len(all)] ==
        IF n = 0 THEN [k \in {"v4", "v6", "linklocal"} |-> NoAddress]
        ELSE KeepFirst(best[n - 1], all[n], subnet, linkLocal)
  IN best

PickGuestIP(adapters, subnet, linkLocal) ==
  LET all == FlattenSeq(adapters)
      best == BestOf(all, subnet, linkLocal)[Len(all)]
  IN IF best.v4 # NoAddress THEN best.v4
     ELSE IF best.v6 # NoAddress THEN best.v6 ELSE best.linklocal

(***************************************************************************)
(* wait_for_guest_ip reads the adapters again and again, each time with a  *)
(* script of its own, until there is an address or the time is up.  The    *)
(* other tools read once.                                                  *)
(***************************************************************************)
ReadAdapters(c) ==
  /\ At(c, {"wait_for_guest_ip", "ssh_info", "diagnose_vm_network"}, "look")
  /\ LET on == Named(Req(c).name) IN
       \/ on = {} /\ Throw(c)
       \/ on # {} /\ \E i \in on : IF call[c].st = "orphan" THEN Fail(c) ELSE
            /\ call' = [call EXCEPT ![c].st = "tail", ![c].pc = "pick",
                                    ![c].loc = [nics |-> vms[i].nics, adapters |-> reported[i]]]
            /\ Release(c)
  /\ UNCHANGED addressVars

PickPatiently(c) ==
  /\ call[c].st = "tail" /\ call[c].pc = "pick" /\ Req(c).op # "diagnose_vm_network"
  /\ LET a == PickGuestIP(Loc(c).adapters, Req(c).subnet, Req(c).linkLocal) IN
       IF a # NoAddress \/ Req(c).op # "wait_for_guest_ip" THEN Tell(c, "ok")
       ELSE call' = [call EXCEPT ![c].st = "queued", ![c].pc = "look", ![c].loc = {}]
  /\ UNCHANGED <<held, addressVars>>

Pick(c) ==
  /\ call[c].st = "tail" /\ call[c].pc = "pick" /\ Req(c).op # "diagnose_vm_network"
  /\ LET a == PickGuestIP(Loc(c).adapters, Req(c).subnet, Req(c).linkLocal) IN
       \/ a # NoAddress /\ Tell(c, "ok")
       \/ a = NoAddress /\ Tell(c, "refused")   \* read once, or the deadline
       \/ /\ a = NoAddress /\ Req(c).op = "wait_for_guest_ip"
          /\ call' = [call EXCEPT ![c].st = "queued", ![c].pc = "look", ![c].loc = {}]
  /\ UNCHANGED <<held, addressVars>>

(***************************************************************************)
(* DiagnoseVMNetwork tries every routable address reported; only when the  *)
(* guest reports none of any kind does it try the one the caller gave.     *)
(* recommend then leads with the first of these that holds.                *)
(***************************************************************************)
Dialled(adapters) == {a \in Range(FlattenSeq(adapters)) : a.kind = "routable"}
Tried(given, adapters, nics) ==
  IF FlattenSeq(adapters) = <<>> /\ nics # {} THEN given ELSE Dialled(adapters)

Verdict(onLan, reaches, adapters, nics) ==
  IF nics = {} THEN "no adapter"
  ELSE IF onLan THEN "on the LAN"
  ELSE IF reaches THEN "behind the host"
  ELSE IF FlattenSeq(adapters) = <<>> THEN "unknown" ELSE "no answer"

Diagnosis(adapters, nics, given, external) ==
  Verdict(\E a \in nics : a.switch \in external,
          Tried(given, adapters, nics) \cap answers # {}, adapters, nics)

Diagnose(c) ==
  /\ call[c].st = "tail" /\ call[c].pc = "pick" /\ Req(c).op = "diagnose_vm_network"
  /\ Tell(c, "ok") /\ UNCHANGED <<held, addressVars>>

(* Integration services report what the guest has; it comes up and goes. *)
GuestReports(i) ==
  /\ Exists(i) /\ reported' \in {[reported EXCEPT ![i] = r] : r \in Reports}
  /\ reported' # reported /\ UNCHANGED <<call, held, answers>>

(***************************************************************************)
(* Properties.                                                             *)
(***************************************************************************)

(* What "usable" means, of all addresses at once: a routable IPv4, or else a
   routable IPv6, or else, when it is allowed, a link-local IPv4; inside the
   subnet, if one is asked for. *)
Rank(a) == CASE a.kind = "routable" /\ a.family = 4 -> 3
             [] a.kind = "routable" /\ a.family = 6 -> 2
             [] a.kind = "linklocal" /\ a.family = 4 -> 1
             [] OTHER -> 0
Usable(a, subnet, linkLocal) ==
  Rank(a) > (IF linkLocal THEN 0 ELSE 1) /\ (subnet => a.inside)

(* Whatever the guest reports and the caller asks for, the address picked is
   a usable one that no other reported address outranks and that comes before
   those of its rank, and none is picked only when none is usable: a tunnel,
   ssh_exec and wait_for_guest_ip agree on it (guest.go:137). *)
PickIsBest ==
  \A i \in Ids, subnet \in BOOLEAN, linkLocal \in BOOLEAN :
    LET all == FlattenSeq(reported[i])
        good == {k \in DOMAIN all : Usable(all[k], subnet, linkLocal)}
        a == PickGuestIP(reported[i], subnet, linkLocal)
    IN IF good = {} THEN a = NoAddress
       ELSE \E k \in good : /\ a = all[k]
                            /\ \A j \in good : Rank(all[j]) <= Rank(all[k])
                            /\ \A j \in good : Rank(all[j]) = Rank(all[k]) => k <= j

(* What diagnose_vm_network leads with is true of the addresses: the host
   reaches the guest only at one that answers, reported or given; a silent
   guest is never called unreachable; and a guest is said not to answer only
   when none of its routable addresses does (network.go:692). *)
DiagnosisIsTrue ==
  \A i \in {j \in Ids : Exists(j)}, given \in SUBSET answers :
    LET v == Diagnosis(reported[i], vms[i].nics, given, {})
        all == Range(FlattenSeq(reported[i])) IN
      /\ v = "behind the host" => (all \cup given) \cap answers # {}
      /\ v = "no answer" => all # {} /\ \A a \in all \cap answers : a.kind # "routable"
      /\ v = "unknown" => all \cup given = {}

AddressesAreToldRight == PickIsBest /\ DiagnosisIsTrue
=============================================================================
