------------------------------ MODULE SshPool ------------------------------
(***************************************************************************)
(* The pool of SSH connections of internal/sshx/pool.go: one connection per *)
(* VM, dialled by whoever needs it first, watched by a keepalive goroutine  *)
(* of its own, and dropped when a credential or a host key changes.         *)
(*                                                                          *)
(* A step is what a goroutine does between two points where another one can *)
(* get in: it takes the lock, waits for the network or returns.  The lock   *)
(* is a variable, because Get holds it while it waits for an answer.        *)
(***************************************************************************)
EXTENDS Naturals, FiniteSets

CONSTANTS
    Callers,    \* goroutines that need a connection: tool calls, tunnels
    Changers,   \* goroutines that change what a connection was made with
    Stopper,    \* the service control loop running Close
    Conns,      \* connections; each is also the keepalive goroutine of itself
    VMs,
    Logins,     \* credentials
    HostKeys,   \* what a guest may present
    None,
    Env         \* what the environment may do, see EnvEvents

Tasks == Callers \cup Changers \cup {Stopper} \cup Conns

\* hang: a guest is gone without closing its connections; rebuild: a guest gets
\* another host key; forget, trust: clients ask to accept one;
\* given: calls come with a credential; move: a VM gets another address or name;
\* stop: the service is stopped.
EnvEvents == {"hang", "rebuild", "forget", "trust", "given",
              "move", "stop"}

ASSUME PoolAssumption ==
    /\ Callers \cap Changers = {} /\ Conns \cap (Callers \cup Changers) = {}
    /\ Stopper \notin Callers \cup Changers \cup Conns
    /\ None \notin Tasks \cup Logins \cup HostKeys \cup VMs
    /\ Env \subseteq EnvEvents

VARIABLES
    clients,    \* Pool.clients, None where there is no entry
    mu,         \* who holds Pool.mu across a wait, or None
    stopped,    \* connections whose stop channel is closed
    link,       \* what has become of each connection
    about,      \* what each connection was made with
    pc, want,   \* where each task stands and what it was called with
    hold,       \* the connection it is looking at, has dialled or was given
    doomed,     \* the entries it took out of the pool and has yet to close
    stored,     \* the credential store
    pins,       \* known_hosts.json
    guest,      \* the host key each guest presents
    \* History, read by no action:
    late,       \* who was on the way when the credential changed
    accepted    \* VMs for which a client accepted another host key

pool    == <<clients, mu, stopped>>
wire    == <<link, about>>
local   == <<want, hold, doomed>>
files   == <<stored, pins>>
history == <<late, accepted>>
vars == <<clients, mu, stopped, link, about, pc, want, hold, doomed, stored,
          pins, guest, late, accepted>>

-----------------------------------------------------------------------------
\* given: the credential came with the call; trust: trust_new_key.
Wants  == [vm: VMs, login: Logins, given: BOOLEAN, trust: BOOLEAN]
NoWant == [vm |-> None, login |-> None, given |-> FALSE, trust |-> FALSE]

\* What a control request or ssh_forget_host_key is about.
Targets == [vm: VMs, login: {None}, given: {FALSE}, trust: {FALSE}]

Made    == [vm: VMs, login: Logins, given: BOOLEAN, key: HostKeys]
NotMade == [vm |-> None, login |-> None, given |-> FALSE, key |-> None]

Goto(t, l) == pc' = [pc EXCEPT ![t] = l]

\* The VM a task works on; a keepalive goroutine knows it by name, too.
VM(t) == IF t \in Conns THEN about[t].vm ELSE want[t].vm

\* A keepalive request was answered, or failed.  One that is sent to a guest
\* that is gone does neither until TCP gives up.
Alive(e) == link[e] = "open"
Dead(e)  == link[e] \in {"broken", "closed"}

\* Where a task goes on after Drop.
AfterDrop(t) ==
    CASE t \in Callers -> "dial" [] t \in Changers -> "idle" [] OTHER -> "ended"

InFlight(c) == pc[c] \in {"lookup", "probe", "drop", "close", "dial", "auth",
                          "insert", "compare"}

-----------------------------------------------------------------------------
(***************************************************************************)
(* Connect and Get.                                                         *)
(***************************************************************************)
\* Credential is resolved first; then the address is, which takes a while.  With
\* neither credential the call is refused, which is no step.
Connect(c, w) ==
    /\ pc[c] = "idle"
    /\ IF w.given THEN "given" \in Env ELSE w.login = stored[w.vm]
    /\ w.trust => "trust" \in Env
    /\ want' = [want EXCEPT ![c] = w]
    /\ Goto(c, "lookup")
    /\ UNCHANGED <<pool, wire, hold, doomed, files, guest, history>>

GetLookup(c) ==
    /\ pc[c] = "lookup"
    /\ mu = None
    /\ hold' = [hold EXCEPT ![c] = clients[VM(c)]]
    /\ Goto(c, IF clients[VM(c)] = None THEN "dial" ELSE "probe")
    /\ UNCHANGED <<pool, wire, want, doomed, files, guest, history>>

\* Whatever the call asks for, a live connection is what it gets.
GetHit(c) ==
    /\ c \in Callers
    /\ pc[c] = "probe"
    /\ Alive(hold[c])
    /\ late' = late \ {c}
    /\ Goto(c, "using")
    /\ UNCHANGED <<pool, wire, local, files, guest, accepted>>

GetDead(c) ==
    /\ c \in Callers
    /\ pc[c] = "probe"
    /\ Dead(hold[c])
    /\ hold' = [hold EXCEPT ![c] = None]
    /\ Goto(c, "drop")
    /\ UNCHANGED <<pool, wire, want, doomed, files, guest, history>>

\* Fault: any key is accepted once there is a pin.
CheckAnyKnown(w) == TRUE

\* HostKeys.Check: no pin, the pinned key, or a new one that is trusted.
Check(w) == pins[w.vm] \in {None, guest[w.vm]} \/ w.trust

\* The host key is pinned during the handshake, before the guest has accepted
\* the credential.
DialCheck(c, e) ==
    /\ pc[c] = "dial"
    /\ link[e] = "none"
    /\ Check(want[c])
    /\ pins' = [pins EXCEPT ![VM(c)] = guest[VM(c)]]
    /\ link' = [link EXCEPT ![e] = "handshake"]
    /\ about' = [about EXCEPT ![e] = [vm |-> VM(c), login |-> want[c].login,
                                      given |-> want[c].given, key |-> guest[VM(c)]]]
    /\ hold' = [hold EXCEPT ![c] = e]
    /\ accepted' = IF want[c].trust /\ pins[VM(c)] \notin {None, guest[VM(c)]}
                   THEN accepted \cup {VM(c)} ELSE accepted
    /\ Goto(c, "auth")
    /\ UNCHANGED <<pool, want, doomed, stored, guest, late>>

DialSucceeds(c) ==
    /\ pc[c] = "auth"
    /\ link' = [link EXCEPT ![hold[c]] = "open"]
    /\ late' = IF c \in late THEN (late \ {c}) \cup {hold[c]} ELSE late
    /\ Goto(c, "insert")
    /\ UNCHANGED <<pool, about, local, files, guest, accepted>>

Returns(c) ==
    /\ want' = [want EXCEPT ![c] = NoWant]
    /\ hold' = [hold EXCEPT ![c] = None]
    /\ late' = late \ {c}
    /\ Goto(c, "idle")

\* No usable credential, an unreachable guest, or a key that Check refuses.
DialFails(c) ==
    /\ pc[c] = "dial"
    /\ Returns(c)
    /\ UNCHANGED <<pool, wire, doomed, files, guest, accepted>>

\* The guest refuses the credential, or the handshake fails later.
DialRefused(c) ==
    /\ pc[c] = "auth"
    /\ link' = [link EXCEPT ![hold[c]] = "none"]
    /\ about' = [about EXCEPT ![hold[c]] = NotMade]
    /\ Returns(c)
    /\ UNCHANGED <<pool, doomed, files, guest, accepted>>

\* Fault: the entry is made, and its goroutine never started.
PutUnwatched(c) ==
    /\ clients' = [clients EXCEPT ![VM(c)] = hold[c]]
    /\ mu' = None
    /\ Goto(c, "using")
    /\ UNCHANGED <<stopped, wire, local, files, guest, history>>

\* The dialled connection becomes the entry and gets its keepalive goroutine.
Put(c) ==
    /\ clients' = [clients EXCEPT ![VM(c)] = hold[c]]
    /\ mu' = None
    /\ pc' = [pc EXCEPT ![c] = "using", ![hold[c]] = "waiting"]
    /\ UNCHANGED <<stopped, wire, local, files, guest, history>>

InsertFirst(c) ==
    /\ pc[c] = "insert"
    /\ mu = None
    /\ clients[VM(c)] = None
    /\ Put(c)

\* Somebody else was faster: alive is asked again, now with the lock held.
InsertLock(c) ==
    /\ pc[c] = "insert"
    /\ mu = None
    /\ clients[VM(c)] # None
    /\ mu' = c
    /\ Goto(c, "compare")
    /\ UNCHANGED <<clients, stopped, wire, local, files, guest, history>>

\* Fault: the loser returns without closing what it dialled.
InsertTheirsKeepingOurs(c) ==
    /\ pc[c] = "compare"
    /\ Alive(clients[VM(c)])
    /\ hold' = [hold EXCEPT ![c] = clients[VM(c)]]
    /\ mu' = None
    /\ Goto(c, "using")
    /\ UNCHANGED <<clients, stopped, wire, want, doomed, files, guest, history>>

\* Fault: the early return does not unlock.
InsertTheirsLocked(c) ==
    /\ pc[c] = "compare"
    /\ Alive(clients[VM(c)])
    /\ link' = [link EXCEPT ![hold[c]] = "closed"]
    /\ hold' = [hold EXCEPT ![c] = clients[VM(c)]]
    /\ Goto(c, "using")
    /\ UNCHANGED <<pool, about, want, doomed, files, guest, history>>

\* Theirs answers: keep it and close ours.
InsertTheirs(c) ==
    /\ pc[c] = "compare"
    /\ Alive(clients[VM(c)])
    /\ link' = [link EXCEPT ![hold[c]] = "closed"]
    /\ hold' = [hold EXCEPT ![c] = clients[VM(c)]]
    /\ mu' = None
    /\ Goto(c, "using")
    /\ UNCHANGED <<clients, stopped, about, want, doomed, files, guest, history>>

\* Theirs is dead: it is replaced, and neither stopped nor closed.
InsertOver(c) ==
    /\ pc[c] = "compare"
    /\ Dead(clients[VM(c)])
    /\ Put(c)

\* The caller is done with its session or its forwarded connection.
UseEnds(c) ==
    /\ pc[c] = "using"
    /\ Returns(c)
    /\ UNCHANGED <<pool, wire, doomed, files, guest, accepted>>

-----------------------------------------------------------------------------
(***************************************************************************)
(* Drop and Close.                                                          *)
(***************************************************************************)
\* What is left to close; with nothing left the task goes on.
Closing(t, rest) ==
    /\ doomed' = [doomed EXCEPT ![t] = rest]
    /\ Goto(t, IF rest # {} THEN "close" ELSE AfterDrop(t))
    /\ want' = IF rest = {} /\ t \in Changers THEN [want EXCEPT ![t] = NoWant]
               ELSE want

\* Fault: it is not checked that there is an entry.
DropTakeUnchecked(t) ==
    /\ pc[t] = "drop"
    /\ mu = None
    /\ Closing(t, {clients[VM(t)]})
    /\ clients' = [clients EXCEPT ![VM(t)] = None]
    /\ UNCHANGED <<mu, stopped, wire, hold, files, guest, history>>

\* Fault: the entry is closed, but not deleted under the lock.
DropTakeLater(t) ==
    /\ pc[t] = "drop"
    /\ mu = None
    /\ Closing(t, {clients[VM(t)]} \ {None})
    /\ UNCHANGED <<pool, wire, hold, files, guest, history>>

\* Under the lock the entry leaves the map, whichever it is by now.
DropTake(t) ==
    /\ pc[t] = "drop"
    /\ mu = None
    /\ Closing(t, {clients[VM(t)]} \ {None})
    /\ clients' = [clients EXCEPT ![VM(t)] = None]
    /\ UNCHANGED <<mu, stopped, wire, hold, files, guest, history>>

CloseTake ==
    /\ "stop" \in Env
    /\ pc[Stopper] = "idle"
    /\ mu = None
    /\ Closing(Stopper, {clients[v] : v \in VMs} \ {None})
    /\ clients' = [v \in VMs |-> None]
    /\ UNCHANGED <<mu, stopped, wire, hold, files, guest, history>>

\* close(entry.stop), which panics if it was closed before, and client.Close().
CloseEntry(t, e) ==
    /\ pc[t] = "close"
    /\ e \in doomed[t]
    /\ stopped' = stopped \cup {e}
    /\ link' = [link EXCEPT ![e] = "closed"]
    /\ Closing(t, doomed[t] \ {e})
    /\ late' = late \ {e}
    /\ UNCHANGED <<clients, mu, about, hold, files, guest, accepted>>

-----------------------------------------------------------------------------
(***************************************************************************)
(* keepalive: a tick may win the select although stop is closed.            *)
(***************************************************************************)
KeepaliveTick(e) ==
    /\ pc[e] = "waiting"
    /\ Goto(e, "probe")
    /\ UNCHANGED <<pool, wire, local, files, guest, history>>

KeepaliveStop(e) ==
    /\ pc[e] = "waiting"
    /\ e \in stopped
    /\ Goto(e, "ended")
    /\ UNCHANGED <<pool, wire, local, files, guest, history>>

KeepaliveAnswered(e) ==
    /\ pc[e] = "probe"
    /\ Alive(e)
    /\ Goto(e, "waiting")
    /\ UNCHANGED <<pool, wire, local, files, guest, history>>

\* Fault: the goroutine of a connection that died goes on ticking.
KeepaliveDeadWaits(e) ==
    /\ pc[e] = "probe"
    /\ Dead(e)
    /\ Goto(e, IF clients[VM(e)] = e THEN "drop" ELSE "waiting")
    /\ UNCHANGED <<pool, wire, local, files, guest, history>>

\* Drop is called with the name of the VM.
KeepaliveDead(e) ==
    /\ pc[e] = "probe"
    /\ Dead(e)
    /\ Goto(e, "drop")
    /\ UNCHANGED <<pool, wire, local, files, guest, history>>

-----------------------------------------------------------------------------
(***************************************************************************)
(* What the control requests and tools change; each of them calls Drop.     *)
(***************************************************************************)
Changes(k, v) ==
    /\ pc[k] = "idle"
    /\ want' = [want EXCEPT ![k] = [NoWant EXCEPT !.vm = v]]
    /\ Goto(k, "drop")
    /\ UNCHANGED <<pool, wire, hold, doomed, guest>>

\* History: who may still log in with the credential that is replaced.
Overtaken(v) ==
    LET onTheWay == {c \in Callers : InFlight(c) /\ want[c].vm = v}
    IN  onTheWay \cup {hold[c] : c \in {d \in onTheWay : pc[d] \in {"insert", "compare"}}}

\* Fault: the old connection is not dropped.
CredChangeQuietly(k, v, login) ==
    /\ pc[k] = "idle"
    /\ login # stored[v]
    /\ stored' = [stored EXCEPT ![v] = login]
    /\ late' = late \cup Overtaken(v)
    /\ UNCHANGED <<pool, wire, pc, local, pins, guest, accepted>>

\* cred.set; with None, cred.delete.
CredChange(k, v, login) ==
    /\ login # stored[v]
    /\ stored' = [stored EXCEPT ![v] = login]
    /\ late' = late \cup Overtaken(v)
    /\ Changes(k, v)
    /\ UNCHANGED <<pins, accepted>>

\* ssh_forget_host_key.
ForgetHostKey(k, v) ==
    /\ "forget" \in Env
    /\ pins[v] # None
    /\ pins' = [pins EXCEPT ![v] = None]
    /\ accepted' = accepted \cup {v}
    /\ Changes(k, v)
    /\ UNCHANGED <<stored, late>>

\* rename_vm, and set_guest_static_ip once the guest has a new address.
Move(k, v) ==
    /\ "move" \in Env
    /\ Changes(k, v)
    /\ UNCHANGED <<files, history>>

-----------------------------------------------------------------------------
\* What happens to guests and their connections.
Breaks(e) ==
    /\ link[e] \in {"open", "hung"}
    /\ link' = [link EXCEPT ![e] = "broken"]
    /\ UNCHANGED <<pool, about, pc, local, files, guest, history>>

Hangs(e) ==
    /\ "hang" \in Env
    /\ link[e] = "open"
    /\ link' = [link EXCEPT ![e] = "hung"]
    /\ UNCHANGED <<pool, about, pc, local, files, guest, history>>

Rebuilt(v, key) ==
    /\ "rebuild" \in Env
    /\ key # guest[v]
    /\ guest' = [guest EXCEPT ![v] = key]
    /\ UNCHANGED <<pool, wire, pc, local, files, history>>

-----------------------------------------------------------------------------
Init ==
    /\ clients = [v \in VMs |-> None]
    /\ mu = None
    /\ stopped = {}
    /\ link = [e \in Conns |-> "none"]
    /\ about = [e \in Conns |-> NotMade]
    /\ pc = [t \in Tasks |-> "idle"]
    /\ want = [t \in Tasks |-> NoWant]
    /\ hold = [t \in Tasks |-> None]
    /\ doomed = [t \in Tasks |-> {}]
    /\ stored \in [VMs -> Logins]
    /\ pins = [v \in VMs |-> None]
    /\ guest \in [VMs -> HostKeys]
    /\ late = {}
    /\ accepted = {}

GetStep(c) ==
    \/ GetLookup(c) \/ GetHit(c) \/ GetDead(c)
    \/ \E e \in Conns : DialCheck(c, e)
    \/ DialFails(c) \/ DialSucceeds(c) \/ DialRefused(c)
    \/ InsertFirst(c) \/ InsertLock(c) \/ InsertTheirs(c) \/ InsertOver(c)

DropStep(t) == DropTake(t) \/ \E e \in Conns : CloseEntry(t, e)

KeepaliveStep(e) ==
    \/ KeepaliveTick(e) \/ KeepaliveStop(e) \/ KeepaliveAnswered(e)
    \/ KeepaliveDead(e)

Next ==
    \/ \E c \in Callers : GetStep(c) \/ UseEnds(c) \/ \E w \in Wants : Connect(c, w)
    \/ \E t \in Tasks : DropStep(t)
    \/ \E e \in Conns : KeepaliveStep(e) \/ Breaks(e) \/ Hangs(e)
    \/ \E k \in Changers, v \in VMs :
          \/ \E login \in Logins \cup {None} : CredChange(k, v, login)
          \/ ForgetHostKey(k, v)
          \/ Move(k, v)
    \/ CloseTake
    \/ \E v \in VMs, key \in HostKeys : Rebuilt(v, key)

Spec == Init /\ [][Next]_vars

\* Goroutines are scheduled, the keepalive interval passes, and TCP gives up on
\* a guest that does not answer.
FairSpec ==
    /\ Spec
    /\ \A c \in Callers : WF_vars(GetStep(c))
    /\ \A t \in Tasks : WF_vars(DropStep(t))
    /\ \A e \in Conns : WF_vars(KeepaliveStep(e))
    /\ \A e \in Conns : WF_vars(link[e] = "hung" /\ Breaks(e))

-----------------------------------------------------------------------------
Places == {"idle", "lookup", "probe", "drop", "close", "dial", "auth", "insert",
           "compare", "using", "waiting", "ended"}

Links == {"none", "handshake", "open", "hung", "broken", "closed"}

\* Every variable keeps its type.
TypeOK ==
    /\ clients \in [VMs -> Conns \cup {None}]
    /\ mu \in Callers \cup {None}
    /\ stopped \subseteq Conns
    /\ link \in [Conns -> Links]
    /\ about \in [Conns -> Made \cup {NotMade}]
    /\ pc \in [Tasks -> Places]
    /\ want \in [Tasks -> Wants \cup Targets \cup {NoWant}]
    /\ hold \in [Tasks -> Conns \cup {None}]
    /\ doomed \in [Tasks -> SUBSET Conns]
    /\ stored \in [VMs -> Logins \cup {None}]
    /\ pins \in [VMs -> HostKeys \cup {None}]
    /\ guest \in [VMs -> HostKeys]
    /\ late \subseteq Callers \cup Conns
    /\ accepted \subseteq VMs

\* No stop channel is closed twice, which would panic: an entry to be closed has
\* left the map, belongs to one Drop or Close only and was never closed before.
ClosedOnce ==
    \A t \in Tasks : \A e \in doomed[t] :
        /\ e \notin stopped
        /\ \A v \in VMs : clients[v] # e
        /\ \A u \in Tasks \ {t} : e \notin doomed[u]

\* No connection is leaked: one that is open is in the pool, in the hands of the
\* Get that dialled it, or about to be closed.
OpenIsOwned ==
    \A e \in Conns : link[e] \in {"handshake", "open", "hung"} =>
        \/ \E v \in VMs : clients[v] = e
        \/ \E c \in Callers : hold[c] = e /\ pc[c] \in {"auth", "insert", "compare"}
        \/ \E t \in Tasks : e \in doomed[t]

\* Every pooled connection is filed under the VM it leads to and is watched: its
\* keepalive goroutine runs, was not told to stop, and will drop it if it dies.
PooledIsWatched ==
    \A v \in VMs : clients[v] # None =>
        /\ about[clients[v]].vm = v
        /\ clients[v] \notin stopped
        /\ pc[clients[v]] \in {"waiting", "probe", "drop"}

\* A pooled connection that logged in with a credential that is no longer
\* stored is one that cred.set or cred.delete is about to drop, or was still
\* being made, with the credential already read, when they ran.
StaleOnlyIfOvertaken ==
    \A v \in VMs :
        LET e == clients[v]
        IN  e # None /\ ~about[e].given /\ e \notin late =>
                \/ about[e].login = stored[v]
                \/ \E k \in Changers : pc[k] = "drop" /\ VM(k) = v

\* Unless a client accepts another key, by trust_new_key or by forgetting the
\* old one, all connections ever made to a VM were to the same host.
OneIdentity ==
    \A d, e \in Conns :
        /\ NotMade \notin {about[d], about[e]}
        /\ about[d].vm = about[e].vm
        /\ about[d].vm \notin accepted
        => about[d].key = about[e].key

\* Every Get returns, though the pool is locked while it waits for a guest.
GetReturns == \A c \in Callers : pc[c] = "lookup" ~> pc[c] \in {"idle", "using"}

\* The keepalive goroutine of a connection that is gone ends, also when the
\* connection was replaced in the pool without being stopped.
KeepaliveEnds ==
    \A e \in Conns :
        link[e] \in {"broken", "closed"} /\ pc[e] # "idle" ~> pc[e] = "ended"

-----------------------------------------------------------------------------
\* The tools' promise that credentials come from the call if given.
GivenIsUsed ==
    \A c \in Callers :
        pc[c] = "using" /\ want[c].given => about[hold[c]].login = want[c].login
=============================================================================
