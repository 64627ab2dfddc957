------------------------------ MODULE VmRecords -----------------------------
(***************************************************************************)
(* What the service files under a machine's name: credentials              *)
(* (creds/store.go), the pinned host key (sshx/hostkeys.go), the pooled    *)
(* SSH connection and the tunnels.  rename_vm (mcpsrv/provisiontools.go)   *)
(* renames the machine in Hyper-V and then moves them one after the other; *)
(* delete_vm leaves them.  Each record is modelled by the machines it was  *)
(* made for, so that a record answering for another machine shows.         *)
(***************************************************************************)
EXTENDS VmStore

CONSTANTS Names  \* names of machines

VARIABLES creds,   \* [Names -> SUBSET Ids]: whose secrets the entry holds
          pins,    \* [Names -> SUBSET Ids]: whose key is pinned
          pool,    \* [Names -> SUBSET Ids]: where the pooled connection leads
          tunnels, \* [Names -> SUBSET Ids]: machines tunnels of the name were opened to
          due,     \* commands under way: [req, pc, on], on the machines they were asked for
          astray,  \* history: names whose records may be another machine's
          late     \* history: names a machine left while a command for it was under way

filed == <<creds, pins, pool, tunnels, due>>
recordVars == <<filed, astray, late>>

NoRecords == [n \in Names |-> {}]

(* Store.Set merges with the entry of the name: what the caller leaves out
   stays, whichever machine it was stored for.  Both commands drop the
   connection made with what was stored; SshPool has their steps apart. *)
SetCredentials(n, complete) ==
  /\ Cardinality(Named(n)) = 1
  /\ creds' = [creds EXCEPT ![n] = IF complete THEN Named(n) ELSE @ \cup Named(n)]
  /\ pool' = [pool EXCEPT ![n] = {}]
  /\ UNCHANGED <<pins, tunnels, due>>

DeleteCredentials(n) ==
  /\ creds' = [creds EXCEPT ![n] = {}] /\ pool' = [pool EXCEPT ![n] = {}]
  /\ UNCHANGED <<pins, tunnels, due>>

(***************************************************************************)
(* ssh_exec and open_tunnel look at the name first and file something      *)
(* under it later, with no lock that a renaming or a deletion would wait   *)
(* for.                                                                    *)
(***************************************************************************)
Begins(r, pc) == due' = due \cup {[req |-> r, pc |-> pc, on |-> Named(r.name)]}
GoesTo(f, pc) == due' = (due \ {f}) \cup {[f EXCEPT !.pc = pc]}
IsDone(f) == due' = due \ {f}

(* Dialer.Connect: the stored credential and the address of the one guest of
   the name, which reports one only while it runs. *)
FindGuest(r) ==
  /\ Cardinality(Named(r.name)) = 1 /\ creds[r.name] # {}
  /\ \A i \in Named(r.name) : vms[i].state = "Running"
  /\ Begins(r, "get") /\ UNCHANGED <<creds, pins, pool, tunnels>>

(* Pool.Get: the connection of the name if it is alive; a dead one is dropped. *)
GetPooled(f) ==
  /\ f.pc = "get"
  /\ \/ pool[f.req.name] # {} /\ IsDone(f) /\ UNCHANGED pool
     \/ pool' = [pool EXCEPT ![f.req.name] = {}] /\ GoesTo(f, "pin")
  /\ UNCHANGED <<creds, pins, tunnels>>

(* HostKeys.Check, from the handshake: a first connection pins the guest's key,
   a later one is refused unless the same guest answers or the caller trusts
   the new key. *)
Handshake(f) ==
  /\ f.pc = "pin" /\ (f.req.trust \/ pins[f.req.name] \in {{}, f.on})
  /\ pins' = [pins EXCEPT ![f.req.name] = f.on]
  /\ GoesTo(f, "pool") /\ UNCHANGED <<creds, pool, tunnels>>

(* The connection stays in the pool, unless another got there first and is
   alive. *)
Insert(f) ==
  /\ f.pc = "pool"
  /\ \/ pool[f.req.name] # {} /\ UNCHANGED pool
     \/ pool' = [pool EXCEPT ![f.req.name] = f.on]
  /\ IsDone(f) /\ UNCHANGED <<creds, pins, tunnels>>

(* Manager.Open resolves the addresses to listen on and listens before it puts
   the tunnel in the table.  It does not look for the machine: what it is asked
   for is the machine that has the name when it is called. *)
AskTunnel(r) ==
  /\ Begins(r, "register") /\ UNCHANGED <<creds, pins, pool, tunnels>>

Register(f) ==
  /\ f.pc = "register"
  /\ tunnels' = [tunnels EXCEPT ![f.req.name] = @ \cup f.on]
  /\ IsDone(f) /\ UNCHANGED <<creds, pins, pool>>

(* No address, no answer, no authentication, no port. *)
GivesUpFiling(f) == IsDone(f) /\ UNCHANGED <<creds, pins, pool, tunnels>>

FilesOn(f) == GetPooled(f) \/ Handshake(f) \/ Insert(f) \/ Register(f) \/ GivesUpFiling(f)

(* Store.Rename and HostKeys.Rename: the entry replaces whatever was filed
   under the new name. *)
Moved(f, old, new) ==
  IF f[old] = {} THEN f ELSE [f EXCEPT ![new] = f[old], ![old] = {}]

(* HostKeys and Store fail to load or save: a warning, and the tool goes on. *)
MoveCredentials(c) ==
  /\ call[c].st = "tail" /\ call[c].pc = "creds"
  /\ \/ creds' = Moved(creds, Req(c).name, Req(c).new)
     \/ UNCHANGED creds
  /\ Goto(c, "pins", {}) /\ UNCHANGED <<pins, pool, tunnels, due>>

MovePin(c) ==
  /\ call[c].st = "tail" /\ call[c].pc = "pins"
  /\ \/ pins' = Moved(pins, Req(c).name, Req(c).new)
     \/ UNCHANGED pins
  /\ Goto(c, "pool", Loc(c)) /\ UNCHANGED <<creds, pool, tunnels, due>>

DropConnectionOfNew(c) ==
  /\ call[c].st = "tail" /\ call[c].pc = "pool"
  /\ pool' = [pool EXCEPT ![Req(c).new] = {}]
  /\ Goto(c, "tunnels", Loc(c)) /\ UNCHANGED <<creds, pins, tunnels, due>>

DropConnection(c) ==
  /\ call[c].st = "tail" /\ call[c].pc = "pool"
  /\ pool' = [pool EXCEPT ![Req(c).name] = {}]
  /\ Goto(c, "tunnels", Loc(c)) /\ UNCHANGED <<creds, pins, tunnels, due>>

MoveTunnels(c) ==
  /\ call[c].st = "tail" /\ call[c].pc = "tunnels"
  /\ tunnels' = [tunnels EXCEPT ![Req(c).new] = @ \cup tunnels[Req(c).name], ![Req(c).name] = {}]
  /\ Tell(c, "ok") /\ UNCHANGED <<held, creds, pins, pool, due>>

RecordsTail(c) ==
  \/ MoveCredentials(c) \/ MovePin(c) \/ DropConnection(c) \/ MoveTunnels(c)

(* The script of rename_vm is over, and the records' turn has come. *)
RenameDone(c) ==
  /\ At(c, {"rename_vm"}, "end")
  /\ IF StillThere(Loc(c)) /\ Cardinality(Loc(c)) < 2 THEN ThenTail(c, "creds") ELSE Fail(c)

RecordCommands == {"cred.set", "cred.delete", "ssh_exec", "open_tunnel"}

(* The commands that file a record without a script that changes the host. *)
RecordCommand(r) ==
  \/ r.op = "cred.set" /\ SetCredentials(r.name, r.complete)
  \/ r.op = "cred.delete" /\ DeleteCredentials(r.name)
  \/ r.op = "ssh_exec" /\ FindGuest(r)
  \/ r.op = "open_tunnel" /\ AskTunnel(r)

(***************************************************************************)
(* The records of a name are its machine's.  A renaming is between names   *)
(* from the cmdlet that renames the machine until its last record is       *)
(* moved; meanwhile the old name should be nobody's and the new one the    *)
(* machine's alone.                                                        *)
(***************************************************************************)
Filed(n) == creds[n] \cup pins[n] \cup pool[n] \cup tunnels[n]
RenameOf(c) == {Req(c).name, Req(c).new}
BetweenNames(c) == Req(c).op = "rename_vm" /\ call[c].touched
Settled(c) == Named(Req(c).name) = {} /\ \E i \in Ids : Named(Req(c).new) = {i}

(* History: the names whose records may be another machine's.  A machine leaves
   its name other than by a renaming that takes the records along; a renaming
   fails, stops, does not move a record, or begins from such a name or from a
   late one; it finds its machine under another name by now, or another machine
   under one of its two names. *)
Left == {vms[i].name : i \in {j \in Ids :
  /\ Exists(j) /\ ~(Exists(j)' /\ vms'[j].name = vms[j].name)
  /\ \A c \in Callers : BetweenNames(c)' => Req(c)'.name # vms[j].name}}

NotMoved(c) ==
  /\ BetweenNames(c)
  /\ \/ call'[c].st = "idle" /\ call'[c].told # "ok"
     \/ call[c].pc = "creds" /\ call'[c].pc = "pins" /\ creds'[Req(c).name] # {}
     \/ call[c].pc = "pins" /\ call'[c].pc = "pool" /\ pins'[Req(c).name] # {}
     \/ Req(c).name \in astray

Confused(c) ==
  \/ ~Settled(c)'
  \/ /\ ~BetweenNames(c)
     /\ ~(Named(Req(c).new)' \subseteq Named(Req(c).name)) \/ Req(c).name \in late

Mislaid ==
  Left \cup (UNION {RenameOf(c) : c \in {d \in Callers : NotMoved(d)}})
       \cup (UNION {RenameOf(c)' : c \in {d \in Callers : BetweenNames(d)' /\ Confused(d)}})

(* History: a machine leaves its name while a command asked for it has yet to
   file what it made.  What it files lands under a name that is no longer the
   machine's. *)
Outrun == {f.req.name : f \in {g \in due : ~(g.on \subseteq Named(g.req.name)')}}

Recollect == astray' = astray \cup Mislaid /\ late' = late \cup Outrun

(* A name that stayed with its machine never answers with another machine's
   credentials, pin, connection or tunnel, and while a renaming is under way
   both of its names answer with those of the machine renamed
   (provisiontools.go:165).  Late names are the exception the code leaves:
   dialer.go:83-105, pool.go:60-90 and manager.go:163-195 look at the name and
   file under it later, and rename_vm does not wait for them. *)
RecordsFollowTheirMachine ==
  \A n \in Names :
    \/ n \in astray \cup late \/ Filed(n) \subseteq Named(n)
    \/ \E c \in Callers : /\ BetweenNames(c) /\ n \in RenameOf(c)
                          /\ Filed(n) \subseteq Named(Req(c).new)
=============================================================================
