---------------------------- MODULE TunnelConns ----------------------------
(***************************************************************************)
(* The data path of one tunnel of internal/tunnel/manager.go: connections   *)
(* accepted from its listener, each handled by a goroutine that dials the   *)
(* guest and copies both ways, while shutdown may close them all and the VM *)
(* may come back on another address.                                        *)
(***************************************************************************)
EXTENDS Integers, FiniteSets

CONSTANTS
    Conns,      \* connections that clients make
    Addrs,      \* addresses of guests
    None,
    Modes,      \* the modes of a tunnel that are looked at, see AllModes
    MaxMoves    \* bound: how often a VM changes its address

\* given: direct mode with a guest_host.  Given or over ssh the guest is dialled
\* once, and where it is does not matter.
AllModes == {"direct", "given", "ssh"}

ASSUME ConnsAssumption ==
    /\ IsFiniteSet(Conns)
    /\ None \notin Addrs \cup {"vm", "other"}
    /\ Modes \subseteq AllModes
    /\ MaxMoves \in Nat

VARIABLES
    mode,       \* how the tunnel reaches its guest
    listening,  \* the listener is open
    swept,      \* shutdown has gone through st.conns
    pc,         \* where the goroutine of a connection stands
    addr,       \* the address it dials
    open,       \* sockets of ours that are not closed
    conns,      \* state.conns
    fin,        \* sockets whose peer has ended its stream
    up, down,   \* connections whose two copies run
    stuck,      \* sockets a copy waits to write to: their peers do not read
    active,     \* state.active
    cachedIP,   \* state.cachedIP
    at,         \* the address the VM answers on, None while it is down
    other,      \* an address another VM answers on
    moves,
    \* History, read by no action:
    reached,    \* who answered the dial of a connection
    failed,     \* connections whose dial failed
    fresh,      \* connections that asked Hyper-V for the address
    excused,    \* connections that met a VM that was down, moved or refused
    was,        \* addresses the VM has had
    late        \* accepted, but unknown to shutdown when it swept

Client(c)  == <<c, "client">>
Backend(c) == <<c, "backend">>
Sockets    == Conns \X {"client", "backend"}

life    == <<listening, swept>>
copies  == <<up, down, stuck>>
world   == <<at, other, moves, was>>
answers == <<reached, failed, fresh>>
vars == <<mode, listening, swept, pc, addr, open, conns, fin, up, down, stuck,
          active, cachedIP, at, other, moves, reached, failed, fresh, excused, was, late>>

Goto(c, l) == pc' = [pc EXCEPT ![c] = l]

\* Who answers at an address.
Who(a) == IF a = None THEN None ELSE IF a = at THEN "vm"
          ELSE IF a = other THEN "other" ELSE None

\* A connection whose guest is still being looked for.
Dialling(c) == pc[c] \in {"track", "route", "cached", "resolve", "store", "dial"}

-----------------------------------------------------------------------------
(***************************************************************************)
(* serve and handle, up to the guest.                                       *)
(***************************************************************************)
Accept(c) ==
    /\ listening
    /\ pc[c] = "away"
    /\ open' = open \cup {Client(c)}
    /\ excused' = IF at = None THEN excused \cup {c} ELSE excused
    /\ Goto(c, "track")
    /\ UNCHANGED <<mode, life, addr, conns, fin, copies, active, cachedIP,
                   world, answers, late>>

TrackClient(c) ==
    /\ pc[c] = "track"
    /\ conns' = conns \cup {Client(c)}
    /\ Goto(c, "route")
    /\ UNCHANGED <<mode, life, addr, open, fin, copies, active, cachedIP, world,
                   answers, excused, late>>

\* Directly, the address used last time is tried first.
Route(c) ==
    /\ pc[c] = "route"
    /\ addr' = [addr EXCEPT ![c] = cachedIP]
    /\ Goto(c, CASE mode # "direct" -> "dial"
                 [] mode = "direct" /\ cachedIP = None -> "resolve"
                 [] OTHER -> "cached")
    /\ UNCHANGED <<mode, life, open, conns, fin, copies, active, cachedIP,
                   world, answers, excused, late>>

\* The dial of addr is answered by whoever is there.
Answered(c, who) ==
    /\ open' = open \cup {Backend(c)}
    /\ reached' = [reached EXCEPT ![c] = who]
    /\ Goto(c, "joined")
    /\ UNCHANGED <<mode, life, addr, conns, fin, copies, active, cachedIP,
                   world, failed, fresh, excused, late>>

\* dialBackend fails; the goroutine reports it and returns.
Fails(c) ==
    /\ failed' = failed \cup {c}
    /\ Goto(c, "offclient")
    /\ UNCHANGED <<mode, life, addr, open, conns, fin, copies, cachedIP, world,
                   reached, fresh, late>>

CachedAnswers(c) ==
    /\ pc[c] = "cached"
    /\ Who(addr[c]) # None
    /\ Answered(c, Who(addr[c]))

\* Fault: a stale address is an error.
CachedFailsForGood(c) ==
    /\ pc[c] = "cached"
    /\ Who(addr[c]) = None
    /\ Fails(c)
    /\ UNCHANGED <<active, excused>>

\* Nobody there, or not in time: ask Hyper-V once.
CachedFails(c) ==
    /\ pc[c] = "cached"
    /\ Goto(c, "resolve")
    /\ UNCHANGED <<mode, life, addr, open, conns, fin, copies, active, cachedIP,
                   world, answers, excused, late>>

Resolve(c) ==
    /\ pc[c] = "resolve"
    /\ at # None
    /\ addr' = [addr EXCEPT ![c] = at]
    /\ fresh' = fresh \cup {c}
    /\ Goto(c, "store")
    /\ UNCHANGED <<mode, life, open, conns, fin, copies, active, cachedIP,
                   world, reached, failed, excused, late>>

\* The VM reports no address, or the script fails.
ResolveFails(c) ==
    /\ pc[c] = "resolve"
    /\ excused' = excused \cup {c}
    /\ Fails(c)
    /\ UNCHANGED active

Store(c) ==
    /\ pc[c] = "store"
    /\ cachedIP' = addr[c]
    /\ Goto(c, "dial")
    /\ UNCHANGED <<mode, life, addr, open, conns, fin, copies, active, world,
                   answers, excused, late>>

\* Fault: the cached address is read again instead.
TargetCached(c) == cachedIP

\* What is dialled after all.
Target(c) == addr[c]

DialAnswers(c) ==
    /\ pc[c] = "dial"
    /\ \/ mode # "direct" /\ Answered(c, "vm")
       \/ mode = "direct" /\ Who(Target(c)) # None /\ Answered(c, Who(Target(c)))

\* The history notes a refusal by the VM itself.
Refused(c) == excused' = IF Target(c) = at THEN excused \cup {c} ELSE excused

\* Fault: the connection is uncounted although it was never counted.
DialFailsUncounted(c) ==
    /\ pc[c] = "dial"
    /\ Refused(c)
    /\ active' = active - 1
    /\ Fails(c)

\* No pooled SSH connection, nobody there, or whoever is there refuses.
DialFails(c) ==
    /\ pc[c] = "dial"
    /\ Refused(c)
    /\ Fails(c)
    /\ UNCHANGED active

-----------------------------------------------------------------------------
(***************************************************************************)
(* handle, from there on.                                                   *)
(***************************************************************************)
\* dialBackend has returned; what it and its history knew is forgotten.
Forget(c) ==
    /\ addr' = [addr EXCEPT ![c] = None]
    /\ reached' = [reached EXCEPT ![c] = None]
    /\ failed' = failed \ {c}
    /\ fresh' = fresh \ {c}
    /\ excused' = excused \ {c}

\* Backend tracked and counted, the copies start.
Join(c) ==
    /\ pc[c] = "joined"
    /\ conns' = conns \cup {Backend(c)}
    /\ active' = active + 1
    /\ up' = up \cup {c}
    /\ down' = down \cup {c}
    /\ Forget(c)
    /\ Goto(c, "copying")
    /\ UNCHANGED <<mode, life, open, fin, stuck, cachedIP, world, late>>

\* A Write waits.  Closing a TCP socket ends it; on an SSH channel it goes on until
\* the guest's sshd answers the close, which it does when it has got rid of the data.
Waits(c, s) == s \in stuck /\ (s \in open \/ (mode = "ssh" /\ s = Backend(c)))

\* A copy may end: a peer has ended its stream or is gone, or a socket is closed.
MayEnd(c) == {Client(c), Backend(c)} \cap fin # {} \/ ~({Client(c), Backend(c)} \subseteq open)

\* It has to notice: it waits in no Write, and its Read ends or its Write failed.
Notices(c, source, sink) ==
    /\ ~Waits(c, sink)
    /\ \/ source \in fin
       \/ (source \notin open /\ ~Waits(c, source))
       \/ sink \in stuck \ open

CopyUpEnds(c) ==
    /\ c \in up
    /\ MayEnd(c)
    /\ up' = up \ {c}
    /\ stuck' = stuck \ {Backend(c)}
    /\ UNCHANGED <<mode, life, pc, addr, open, conns, fin, down, active,
                   cachedIP, world, answers, excused, late>>

CopyDownEnds(c) ==
    /\ c \in down
    /\ MayEnd(c)
    /\ down' = down \ {c}
    /\ stuck' = stuck \ {Client(c)}
    /\ UNCHANGED <<mode, life, pc, addr, open, conns, fin, up, active, cachedIP,
                   world, answers, excused, late>>

\* Fault: only the side that ended is closed.
PartOneSide(c) ==
    /\ pc[c] = "copying"
    /\ c \notin up \cap down
    /\ Goto(c, "parting")
    /\ UNCHANGED <<mode, life, addr, open, conns, fin, copies, active, cachedIP,
                   world, answers, excused, late>>

\* One copy is done: both sockets are closed, for the other to end.
Part(c) ==
    /\ pc[c] = "copying"
    /\ c \notin up \cap down
    /\ open' = open \ {Client(c), Backend(c)}
    /\ fin' = fin \ {Client(c), Backend(c)}
    /\ Goto(c, "parting")
    /\ UNCHANGED <<mode, life, addr, conns, copies, active, cachedIP,
                   world, answers, excused, late>>

\* Fault: the backend stays in the set.
UncountTracked(c) ==
    /\ pc[c] = "parting"
    /\ c \notin up \cup down
    /\ active' = active - 1
    /\ Goto(c, "offclient")
    /\ UNCHANGED <<mode, life, addr, open, conns, fin, copies, cachedIP, world,
                   answers, excused, late>>

\* The deferred calls run in reverse order: the count, the backend, the client.
\* Closing a socket again does nothing.
Uncount(c) ==
    /\ pc[c] = "parting"
    /\ c \notin up \cup down
    /\ active' = active - 1
    /\ conns' = conns \ {Backend(c)}
    /\ Goto(c, "offclient")
    /\ UNCHANGED <<mode, life, addr, open, fin, copies, cachedIP, world,
                   answers, excused, late>>

OffClient(c) ==
    /\ pc[c] = "offclient"
    /\ conns' = conns \ {Client(c)}
    /\ Forget(c)
    /\ Goto(c, "shut")
    /\ UNCHANGED <<mode, life, open, fin, copies, active, cachedIP, world, late>>

ShutClient(c) ==
    /\ pc[c] = "shut"
    /\ open' = open \ {Client(c)}
    /\ Goto(c, "ended")
    /\ UNCHANGED <<mode, life, addr, conns, fin, copies, active, cachedIP,
                   world, answers, excused, late>>

-----------------------------------------------------------------------------
(***************************************************************************)
(* shutdown.                                                                *)
(***************************************************************************)
\* The listener closes before the connections do.
CloseListener ==
    /\ listening
    /\ listening' = FALSE
    /\ UNCHANGED <<mode, swept, pc, addr, open, conns, fin, copies, active,
                   cachedIP, world, answers, excused, late>>

\* Fault: the sweep does not wait for the listener to be closed.
MaySweepAtOnce == TRUE
MaySweep == ~listening

\* Under connMu every tracked socket is closed and forgotten.
Sweep ==
    /\ MaySweep
    /\ ~swept
    /\ swept' = TRUE
    /\ open' = open \ conns
    /\ conns' = {}
    /\ late' = {c \in Conns : pc[c] = "track"}
    /\ UNCHANGED <<mode, listening, pc, addr, fin, copies, active, cachedIP,
                   world, answers, excused>>

-----------------------------------------------------------------------------
(***************************************************************************)
(* Peers and VMs.                                                           *)
(***************************************************************************)
\* A stream that ended earlier is noticed when it is copied.
PeerEnds(c, s) ==
    /\ pc[c] = "copying"
    /\ s \in {Client(c), Backend(c)} \ fin
    /\ fin' = fin \cup {s}
    /\ UNCHANGED <<mode, life, pc, addr, open, conns, copies, active, cachedIP,
                   world, answers, excused, late>>

\* A peer stops reading and its window fills up, with a Write of ours waiting.
Stalls(c, s) ==
    /\ pc[c] = "copying"
    /\ {Client(c), Backend(c)} \subseteq open
    /\ s \notin stuck
    /\ (s = Backend(c) /\ c \in up) \/ (s = Client(c) /\ c \in down)
    /\ stuck' = stuck \cup {s}
    /\ UNCHANGED <<mode, life, pc, addr, open, conns, fin, up, down, active,
                   cachedIP, world, answers, excused, late>>

\* It reads again.
ReadsOn(s) ==
    /\ s \in stuck
    /\ stuck' = stuck \ {s}
    /\ UNCHANGED <<mode, life, pc, addr, open, conns, fin, up, down, active,
                   cachedIP, world, answers, excused, late>>

\* The VM stops, or comes back on an address that is free.
Moves(a) ==
    /\ mode = "direct"
    /\ moves < MaxMoves
    /\ a \notin {at} \cup ({other} \ {None})
    /\ at' = a
    /\ moves' = moves + 1
    /\ was' = was \cup ({a} \ {None})
    /\ excused' = excused \cup {c \in Conns : Dialling(c)}
    /\ UNCHANGED <<mode, life, pc, addr, open, conns, fin, copies, active,
                   cachedIP, other, answers, late>>

\* Another VM gets an address that is free now.
OtherMoves(a) ==
    /\ mode = "direct"
    /\ moves < MaxMoves
    /\ a \notin {at, other, None}
    /\ other' = a
    /\ moves' = moves + 1
    /\ UNCHANGED <<mode, life, pc, addr, open, conns, fin, copies, active,
                   cachedIP, at, was, answers, excused, late>>

-----------------------------------------------------------------------------
Init ==
    /\ mode \in Modes
    /\ listening = TRUE
    /\ swept = FALSE
    /\ pc = [c \in Conns |-> "away"]
    /\ addr = [c \in Conns |-> None]
    /\ open = {} /\ conns = {} /\ fin = {}
    /\ up = {} /\ down = {} /\ stuck = {}
    /\ active = 0
    /\ cachedIP = None
    /\ at \in Addrs
    /\ other = None
    /\ moves = 0
    /\ reached = [c \in Conns |-> None]
    /\ failed = {} /\ fresh = {} /\ excused = {} /\ late = {}
    /\ was = {at}

\* What the goroutines of a connection do by themselves.
Handle(c) ==
    \/ TrackClient(c) \/ Route(c)
    \/ CachedAnswers(c) \/ CachedFails(c)
    \/ Resolve(c) \/ ResolveFails(c) \/ Store(c)
    \/ DialAnswers(c) \/ DialFails(c)
    \/ Join(c) \/ Part(c) \/ Uncount(c)
    \/ OffClient(c) \/ ShutClient(c)

Copy(c) == CopyUpEnds(c) \/ CopyDownEnds(c)

Shutdown == CloseListener \/ Sweep

Next ==
    \/ \E c \in Conns : Accept(c) \/ Handle(c) \/ Copy(c)
    \/ Shutdown
    \/ \E c \in Conns, s \in Sockets : PeerEnds(c, s) \/ Stalls(c, s) \/ ReadsOn(s)
    \/ \E a \in Addrs \cup {None} : Moves(a) \/ OtherMoves(a)

Spec == Init /\ [][Next]_vars

\* Goroutines are scheduled, every TCP dial and script has a deadline, and a request
\* over a pooled SSH connection ends when TCP gives up.  A copy notices an end that
\* it can notice: no Read or Write has a deadline, and no peer has to read or to end.
FairSpec ==
    /\ Spec
    /\ \A c \in Conns :
           /\ WF_vars(Handle(c))
           /\ WF_vars(CopyUpEnds(c) /\ Notices(c, Client(c), Backend(c)))
           /\ WF_vars(CopyDownEnds(c) /\ Notices(c, Backend(c), Client(c)))

-----------------------------------------------------------------------------
Places == {"away", "track", "route", "cached", "resolve", "store", "dial",
           "joined", "copying", "parting", "offclient", "shut", "ended"}

\* Every variable keeps its type; the count of active connections is a count.
TypeOK ==
    /\ mode \in AllModes
    /\ listening \in BOOLEAN /\ swept \in BOOLEAN
    /\ pc \in [Conns -> Places]
    /\ addr \in [Conns -> Addrs \cup {None}]
    /\ open \subseteq Sockets /\ conns \subseteq Sockets /\ fin \subseteq Sockets
    /\ up \subseteq Conns /\ down \subseteq Conns /\ stuck \subseteq Sockets
    /\ active \in Nat
    /\ cachedIP \in Addrs \cup {None}
    /\ at \in Addrs \cup {None} /\ other \in Addrs \cup {None}
    /\ moves \in 0..MaxMoves
    /\ reached \in [Conns -> {None, "vm", "other"}]
    /\ failed \subseteq Conns /\ fresh \subseteq Conns /\ excused \subseteq Conns
    /\ late \subseteq Conns
    /\ was \subseteq Addrs

\* However a connection ends (refused, unreachable, cut by close_tunnel, ended
\* by either peer), nothing of it is left: no socket, no entry in conns, no copy
\* and no share in the active count that list_tunnels reports.
ReleasedAtEnd ==
    /\ \A c \in Conns : pc[c] = "ended" =>
           /\ {Client(c), Backend(c)} \cap (open \cup conns) = {}
           /\ c \notin up \cup down
    /\ active = Cardinality({c \in Conns : pc[c] \in {"copying", "parting"}})

\* close_tunnel cuts every connection at once, except one that was accepted and
\* not yet tracked when shutdown went through the set.
LateOnly ==
    swept => \A c \in Conns : Client(c) \in open => c \in late \/ pc[c] = "shut"

\* A client is never joined to another guest that has taken over the VM's
\* address, unless the address was the VM's once and came from the cache, or the
\* VM moved while the connection was being made.
RightGuest ==
    mode = "direct" =>
        \A c \in Conns : reached[c] = "other" =>
            addr[c] \in was /\ (c \in fresh => c \in excused)

\* A stale address is never the reason that a connection fails: it does only if
\* Hyper-V could not say where the VM is, the VM refused it at its own address,
\* or the VM was down or moved while the connection was being made.
RefusedOnlyIfAway == mode = "direct" => failed \subseteq excused

\* handle returns once a peer has ended its stream or shutdown has closed the
\* client's socket, unless a Write waits: no Read or Write has a deadline.
HandleEnds ==
    \A c \in Conns :
        pc[c] # "away" /\ (Client(c) \notin open \/ {Client(c), Backend(c)} \cap fin # {})
            ~> pc[c] = "ended" \/ Waits(c, Client(c)) \/ Waits(c, Backend(c))
=============================================================================
