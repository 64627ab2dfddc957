--------------------------- MODULE TunnelManager ---------------------------
(***************************************************************************)
(* The tunnel table of internal/tunnel/manager.go and the file it is kept   *)
(* in, at the grain of the code's lock regions.  Every call runs on its own *)
(* goroutine, so between two steps of one call any step of any other call,  *)
(* of the restore loop or of the service's stop handler may happen.         *)
(*                                                                          *)
(* Three things outlive the process: tunnels.json (file), the host's        *)
(* firewall rules (firewall), and the scripts that were making or removing  *)
(* a rule when it ended (orphans): an interpreter is killed by the context  *)
(* of its caller only.  All the rest is lost by a crash.                    *)
(***************************************************************************)
EXTENDS Naturals, FiniteSets, Functions

CONSTANTS
    Clients,    \* goroutines serving tool calls
    Restorer,   \* the goroutine running Restore
    Stopper,    \* the service control loop running CloseAll
    Keys,       \* one per open_tunnel call; stands for the port and label
    Names,      \* VM names
    Offers,     \* the tunnels the clients ask for
    Renames,    \* the renames they ask for, as <<old, new>>
    Env,        \* what the environment may do, see EnvEvents
    MaxID,      \* bound: ids issued in one run of the process
    MaxStarts   \* bound: starts of the process

Tasks == Clients \cup {Restorer, Stopper}
Ids   == 1..MaxID

\* vm: the VM it leads to; exposed: bind_scope is not loopback, so it has a
\* firewall rule; auto: auto_restore.
TunnelSpec == [key: Keys, vm: Names, exposed: BOOLEAN, auto: BOOLEAN]

\* A firewall script: what it does, and for which id.
ScriptKinds == [does: {"allow", "remove"}, id: Ids]

\* early: calls are served before Restore has finished; the others are
\* failures of the system or of one operation of a collaborator.
EnvEvents == {"early", "crash", "stop", "open_fails", "allow_fails",
              "remove_fails", "write_fails", "read_fails"}

ASSUME TunnelAssumption ==
    /\ Restorer \notin Clients /\ Stopper \notin Clients /\ Restorer # Stopper
    /\ Offers \subseteq TunnelSpec
    /\ Renames \subseteq Names \X Names
    /\ Env \subseteq EnvEvents
    /\ MaxID \in Nat \ {0}
    /\ MaxStarts \in Nat \ {0}

VARIABLES
    up,         \* the process runs
    starts,     \* how often it was started
    items,      \* Manager.items: id -> spec of the registered tunnels
    nextID,     \* Manager.nextID
    listening,  \* ids whose listeners are open
    fwRule,     \* ids whose state.fwRule is set
    stopIds,    \* the states CloseAll took out of items and has yet to shut down
    todo,       \* the specs Restore has yet to reopen
    pc,         \* where each task stands
    cur,        \* the id a task works on
    arg,        \* the spec an Open was called with
    snap,       \* what persist encoded and has yet to write; what Restore read
    file,       \* tunnels.json
    firewall,   \* ids that have a rule on the host
    orphans,    \* scripts of an ended process that still run
    \* History, read by no action:
    behind,     \* the file was last left with something else than the table
    stale,      \* tasks whose snapshot is older than the table
    excused,    \* rules the manager has no record of, and why is known
    life,       \* what the client that opened a tunnel has been told
    crossed,    \* ids whose rule an orphan has changed since it was made
    preempted   \* this process issued an id without next_id from the file

proc    == <<up, starts>>
table   == <<items, nextID>>
states  == <<listening, fwRule>>
loops   == <<stopIds, todo>>
local   == <<cur, arg>>
saved   == <<snap, file>>
history == <<behind, stale, excused, life>>
host    == <<firewall, orphans>>
marks   == <<crossed, preempted>>
vars == <<up, starts, items, nextID, listening, fwRule, stopIds, todo, pc, cur,
          arg, snap, file, firewall, orphans, behind, stale, excused, life, crossed,
          preempted>>

-----------------------------------------------------------------------------
\* A spec for the places that hold none.
NoSpec == [key |-> "none", vm |-> "none", exposed |-> FALSE, auto |-> FALSE]

NoTunnels == [i \in {} |-> NoSpec]

\* Fault: next_id read as the zero value when there is no file.
EmptyImageFromZero == [next |-> 0, tunnels |-> NoTunnels]

\* What loadSpecs returns when there is no file.
EmptyImage == [next |-> 1, tunnels |-> NoTunnels]

AutoIds == {i \in DOMAIN items : items[i].auto}

\* What persist collects under the lock: the tunnels worth reopening.
Image == [next |-> nextID, tunnels |-> Restrict(items, AutoIds)]

Goto(t, l) == pc' = [pc EXCEPT ![t] = l]

\* Open is called by Restore's loop or by a tool call.
Return(t) == IF t = Restorer THEN "loop" ELSE "idle"

\* A call may start.  Nothing in the code makes it wait for Restore.
MayCall(c) ==
    /\ up
    /\ pc[c] = "idle"
    /\ "early" \in Env \/ pc[Restorer] = "idle"

\* History: the table changed, so every snapshot on its way to disk is old.
TableChanged == stale' = {t \in Tasks : pc[t] = "write"}

\* History: an Open that has registered id is still busy with its rule.
Opening(id) == \E t \in Tasks : cur[t] = id /\ pc[t] \in {"allow", "record"}

\* Fault: ids derived from the size of the table.
NewIDFromSize == Cardinality(DOMAIN items) + 1

\* The id an Open takes under the lock.
NewID == nextID

-----------------------------------------------------------------------------
(***************************************************************************)
(* Open.  Refusals of the arguments change nothing, so a tool call that is  *)
(* refused is no step; Restore passes only specs that were accepted once.   *)
(***************************************************************************)
OpenCall(c, s) ==
    /\ MayCall(c)
    /\ life[s.key] = "new"
    /\ arg' = [arg EXCEPT ![c] = s]
    /\ life' = [life EXCEPT ![s.key] = "calling"]
    /\ Goto(c, "register")
    /\ UNCHANGED <<proc, table, states, loops, cur, saved, behind, stale, excused,
                   host, marks>>

\* resolveBind, the ssh check or listen fails; listen has closed what it bound.
OpenFails(t) ==
    /\ pc[t] = "register"
    /\ "open_fails" \in Env
    /\ arg' = [arg EXCEPT ![t] = NoSpec]
    /\ life' = [life EXCEPT ![arg[t].key] = "failed"]
    /\ behind' = (behind \/ t = Restorer)
    /\ Goto(t, Return(t))
    /\ UNCHANGED <<proc, table, states, loops, cur, saved, stale, excused, host,
                   marks>>

\* The listeners are open; under the lock the tunnel gets its id.
OpenRegister(t) ==
    /\ pc[t] = "register"
    /\ nextID \in Ids
    /\ items' = [i \in DOMAIN items \cup {NewID} |->
                    IF i = NewID THEN arg[t] ELSE items[i]]
    /\ nextID' = NewID + 1
    /\ listening' = listening \cup {NewID}
    /\ cur' = [cur EXCEPT ![t] = NewID]
    /\ arg' = [arg EXCEPT ![t] = NoSpec]
    /\ TableChanged
    /\ preempted' = (preempted \/ pc[Restorer] \in {"read", "raise"})
    /\ Goto(t, IF arg[t].exposed THEN "allow" ELSE "snapshot")
    /\ UNCHANGED <<proc, fwRule, loops, saved, behind, excused, life, host,
                   crossed>>

\* Firewall.Allow replaces any rule of that name.
OpenAllow(t) ==
    /\ pc[t] = "allow"
    /\ firewall' = firewall \cup {cur[t]}
    /\ excused' = IF cur[t] \in DOMAIN items THEN excused \ {cur[t]} ELSE excused
    /\ crossed' = crossed \ {cur[t]}
    /\ Goto(t, "record")
    /\ UNCHANGED <<proc, table, states, loops, local, saved, behind, stale, life,
                   orphans, preempted>>

\* The script failed or was killed at its deadline: before it removed the old
\* rule, between the two, or after it made the new one.
OpenAllowFails(t) ==
    /\ pc[t] = "allow"
    /\ "allow_fails" \in Env
    /\ \E left \in SUBSET {cur[t]} :
          /\ firewall' = (firewall \ {cur[t]}) \cup left
          /\ excused' = excused \cup left
    /\ Goto(t, "snapshot")
    /\ UNCHANGED <<proc, table, states, loops, local, saved, behind, stale, life,
                   orphans, marks>>

\* st.fwRule is assigned outside the lock.
OpenRecordRule(t) ==
    /\ pc[t] = "record"
    /\ fwRule' = fwRule \cup {cur[t]}
    /\ Goto(t, "snapshot")
    /\ UNCHANGED <<proc, table, listening, loops, local, saved, history, host,
                   marks>>

-----------------------------------------------------------------------------
\* Fault: Close still holds the lock when it saves the table.
PersistSnapshotInClose(t) ==
    /\ pc[t] = "snapshot"
    /\ arg[t] = NoSpec
    /\ snap' = [snap EXCEPT ![t] = Image]
    /\ Goto(t, "write")
    /\ UNCHANGED <<proc, table, states, loops, local, file, history, host, marks>>

\* persist, first half: encode under the read lock.
PersistSnapshot(t) ==
    /\ pc[t] = "snapshot"
    /\ snap' = [snap EXCEPT ![t] = Image]
    /\ Goto(t, "write")
    /\ UNCHANGED <<proc, table, states, loops, local, file, history, host, marks>>

\* What a finished Open or Close tells its client; Restore has none.
Told(t) ==
    [k \in Keys |->
        IF t \in Clients /\ cur[t] \in DOMAIN items /\ items[cur[t]].key = k
           /\ life[k] = "calling"
        THEN "open"
        ELSE IF t \in Clients /\ arg[t].key = k /\ life[k] = "closing"
        THEN "closed" ELSE life[k]]

PersistEnds(t) ==
    /\ pc[t] = "write"
    /\ snap' = [snap EXCEPT ![t] = EmptyImage]
    /\ cur' = [cur EXCEPT ![t] = 0]
    /\ arg' = [arg EXCEPT ![t] = NoSpec]
    /\ stale' = stale \ {t}
    /\ life' = Told(t)
    /\ Goto(t, Return(t))
    /\ UNCHANGED <<proc, table, states, loops, excused, host, marks>>

\* persist, second half: the lock is released, the file is replaced.
PersistWrite(t) ==
    /\ PersistEnds(t)
    /\ file' = snap[t]
    /\ behind' = (t \in stale)

\* A failed write is only logged.
PersistFails(t) ==
    /\ PersistEnds(t)
    /\ "write_fails" \in Env
    /\ file' = file
    /\ behind' = TRUE

-----------------------------------------------------------------------------
\* Close, first half: under the lock the tunnel leaves the table.  An unknown
\* id changes nothing and is no step.
CloseRemove(c, id) ==
    /\ MayCall(c)
    /\ id \in DOMAIN items
    /\ items' = Restrict(items, DOMAIN items \ {id})
    /\ cur' = [cur EXCEPT ![c] = id]
    /\ arg' = [arg EXCEPT ![c] = items[id]]
    /\ excused' = IF Opening(id) THEN excused \cup {id} ELSE excused
    /\ life' = [life EXCEPT ![items[id].key] = "closing"]
    /\ TableChanged
    /\ Goto(c, "listeners")
    /\ UNCHANGED <<proc, nextID, states, loops, saved, behind, host, marks>>

\* Fault: the listeners stay open, and close with the last connection.
ShutdownListenersLater(t) ==
    /\ pc[t] = "listeners"
    /\ Goto(t, "rule")
    /\ UNCHANGED <<proc, table, states, loops, local, saved, history, host, marks>>

\* shutdown, first half: the listeners are closed.
ShutdownListeners(t) ==
    /\ pc[t] = "listeners"
    /\ listening' = listening \ {cur[t]}
    /\ Goto(t, "rule")
    /\ UNCHANGED <<proc, table, fwRule, loops, local, saved, history, host, marks>>

\* Fault: the table is not saved after a Close.
AfterShutdownUnsaved(t) == IF t = Stopper THEN "loop" ELSE "idle"

\* Close goes on to save the table, CloseAll to the next tunnel.
AfterShutdown(t) == IF t = Stopper THEN "loop" ELSE "snapshot"

\* Fault: the rule is looked up in the table, which the tunnel has left.
HasRuleWhileListed(t) == cur[t] \in fwRule /\ cur[t] \in DOMAIN items

\* The state has recorded a rule by now.
HasRule(t) == cur[t] \in fwRule

\* shutdown, second half: the rule goes, if there is one.
ShutdownRule(t) ==
    /\ pc[t] = "rule"
    /\ firewall' = IF HasRule(t) THEN firewall \ {cur[t]} ELSE firewall
    /\ Goto(t, AfterShutdown(t))
    /\ UNCHANGED <<proc, table, states, loops, local, saved, history, orphans,
                   marks>>

\* A removal that fails is logged, or silenced by the script.
ShutdownRuleFails(t) ==
    /\ pc[t] = "rule"
    /\ "remove_fails" \in Env
    /\ HasRule(t)
    /\ excused' = excused \cup {cur[t]}
    /\ Goto(t, AfterShutdown(t))
    /\ UNCHANGED <<proc, table, states, loops, local, saved, behind, stale, life,
                   host, marks>>

\* RenameVM repoints every tunnel of the old name, and persists only then.
RenameVM(c, old, new) ==
    LET moved == {i \in DOMAIN items : items[i].vm = old}
    IN  /\ MayCall(c)
        /\ old # new
        /\ moved # {}
        /\ items' = [i \in DOMAIN items |->
                        IF i \in moved THEN [items[i] EXCEPT !.vm = new]
                        ELSE items[i]]
        /\ TableChanged
        /\ Goto(c, "snapshot")
        /\ UNCHANGED <<proc, nextID, states, loops, local, saved, behind, excused,
                       life, host, marks>>

-----------------------------------------------------------------------------
\* CloseAll takes the whole table and shuts its tunnels down one by one.  It
\* does not persist, so that the file still lists them for the next start.
StopBegin ==
    /\ up
    /\ "stop" \in Env
    /\ pc[Stopper] = "idle"
    /\ stopIds' = DOMAIN items
    /\ items' = NoTunnels
    /\ excused' = excused \cup {i \in DOMAIN items : Opening(i)}
    /\ TableChanged
    /\ Goto(Stopper, "loop")
    /\ UNCHANGED <<proc, nextID, states, todo, local, saved, behind, life, host,
                   marks>>

StopNext(id) ==
    /\ pc[Stopper] = "loop"
    /\ id \in stopIds
    /\ stopIds' = stopIds \ {id}
    /\ cur' = [cur EXCEPT ![Stopper] = id]
    /\ Goto(Stopper, "listeners")
    /\ UNCHANGED <<proc, table, states, todo, arg, saved, history, host, marks>>

\* The scripts that tasks are waiting for.
Scripts ==
    {[does |-> "allow", id |-> cur[t]] : t \in {u \in Tasks : pc[u] = "allow"}}
    \cup {[does |-> "remove", id |-> cur[t]] :
             t \in {u \in Tasks : pc[u] = "rule" /\ HasRule(u)}}

\* The end of the process, with whatever its goroutines were doing.  Nobody
\* kills the interpreters they were waiting for.
ProcessEnds ==
    /\ up' = FALSE
    /\ items' = NoTunnels
    /\ nextID' = 1
    /\ listening' = {}
    /\ fwRule' = {}
    /\ stopIds' = {}
    /\ todo' = NoTunnels
    /\ pc' = [t \in Tasks |-> "idle"]
    /\ cur' = [t \in Tasks |-> 0]
    /\ arg' = [t \in Tasks |-> NoSpec]
    /\ snap' = [t \in Tasks |-> EmptyImage]
    /\ stale' = {}
    /\ behind' = FALSE
    /\ life' = [k \in Keys |-> IF life[k] \in {"calling", "closing"} THEN "failed"
                               ELSE life[k]]
    /\ orphans' = orphans \cup Scripts
    /\ crossed' = {}
    /\ preempted' = FALSE
    /\ UNCHANGED <<starts, file, firewall>>

\* The ids that calls still in flight work on.
Busy == {cur[t] : t \in Clients \cup {Restorer}}

\* The control loop returns once CloseAll has, whether or not a session that is
\* still open has registered another tunnel or is in the middle of a call.
StopExit ==
    /\ pc[Stopper] = "loop"
    /\ stopIds = {}
    /\ ProcessEnds
    /\ excused' = excused \cup (firewall \cap (DOMAIN items \cup Busy))

Crash ==
    /\ up
    /\ "crash" \in Env
    /\ ProcessEnds
    /\ excused' = excused \cup firewall

\* A script of an ended process goes on: Remove takes the rule of that name,
\* Allow too, and then makes one unless it fails.  A script that does neither
\* any more is an orphan that takes no step.
OrphanActs(o) ==
    /\ o \in orphans
    /\ orphans' = orphans \ {o}
    /\ \E left \in SUBSET {o.id} :
          /\ o.does = "remove" => left = {}
          /\ firewall' = (firewall \ {o.id}) \cup left
          /\ excused' = excused \cup left
    /\ crossed' = crossed \cup {o.id}
    /\ UNCHANGED <<proc, table, states, loops, pc, local, saved, behind, stale,
                   life, preempted>>

Start ==
    /\ ~up
    /\ starts < MaxStarts
    /\ up' = TRUE
    /\ starts' = starts + 1
    /\ Goto(Restorer, "read")
    /\ UNCHANGED <<table, states, loops, local, saved, history, host, marks>>

-----------------------------------------------------------------------------
\* Restore: read the file, raise nextID under the lock, then Open one by one.
RestoreRead ==
    /\ pc[Restorer] = "read"
    /\ snap' = [snap EXCEPT ![Restorer] = file]
    /\ Goto(Restorer, "raise")
    /\ UNCHANGED <<proc, table, states, loops, local, file, history, host, marks>>

\* An unreadable file ends Restore.
RestoreReadFails ==
    /\ pc[Restorer] = "read"
    /\ "read_fails" \in Env
    /\ Goto(Restorer, "idle")
    /\ behind' = TRUE
    /\ preempted' = TRUE
    /\ UNCHANGED <<proc, table, states, loops, local, saved, stale, excused, life,
                   host, crossed>>

RestoreRaise ==
    /\ pc[Restorer] = "raise"
    /\ nextID' = IF snap[Restorer].next > nextID THEN snap[Restorer].next
                 ELSE nextID
    /\ todo' = snap[Restorer].tunnels
    /\ snap' = [snap EXCEPT ![Restorer] = EmptyImage]
    /\ Goto(Restorer, "loop")
    /\ UNCHANGED <<proc, items, states, stopIds, local, file, history, host, marks>>

\* The file is sorted, so the next one is the least id left.
RestoreNext(id) ==
    /\ pc[Restorer] = "loop"
    /\ id \in DOMAIN todo
    /\ \A j \in DOMAIN todo : id <= j
    /\ arg' = [arg EXCEPT ![Restorer] = todo[id]]
    /\ todo' = Restrict(todo, DOMAIN todo \ {id})
    /\ Goto(Restorer, "register")
    /\ UNCHANGED <<proc, table, states, stopIds, cur, saved, history, host, marks>>

RestoreDone ==
    /\ pc[Restorer] = "loop"
    /\ DOMAIN todo = {}
    /\ Goto(Restorer, "idle")
    /\ UNCHANGED <<proc, table, states, loops, local, saved, history, host, marks>>

-----------------------------------------------------------------------------
Init ==
    /\ up = FALSE
    /\ starts = 0
    /\ items = NoTunnels
    /\ nextID = 1
    /\ listening = {}
    /\ fwRule = {}
    /\ stopIds = {}
    /\ todo = NoTunnels
    /\ pc = [t \in Tasks |-> "idle"]
    /\ cur = [t \in Tasks |-> 0]
    /\ arg = [t \in Tasks |-> NoSpec]
    /\ snap = [t \in Tasks |-> EmptyImage]
    /\ file = EmptyImage
    /\ firewall = {}
    /\ orphans = {}
    /\ behind = FALSE
    /\ stale = {}
    /\ excused = {}
    /\ life = [k \in Keys |-> "new"]
    /\ crossed = {}
    /\ preempted = FALSE

Call(c) ==
    \/ \E s \in Offers : OpenCall(c, s)
    \/ \E id \in Ids : CloseRemove(c, id)
    \/ \E r \in Renames : RenameVM(c, r[1], r[2])

\* The steps a started call makes by itself.
Step(t) ==
    \/ OpenFails(t) \/ OpenRegister(t) \/ OpenAllow(t) \/ OpenAllowFails(t)
    \/ OpenRecordRule(t)
    \/ PersistSnapshot(t) \/ PersistWrite(t) \/ PersistFails(t)
    \/ ShutdownListeners(t) \/ ShutdownRule(t) \/ ShutdownRuleFails(t)

RestoreStep ==
    \/ RestoreRead \/ RestoreReadFails \/ RestoreRaise \/ RestoreDone
    \/ \E id \in Ids : RestoreNext(id)

StopStep ==
    \/ StopExit
    \/ \E id \in Ids : StopNext(id)

Next ==
    \/ \E c \in Clients : Call(c)
    \/ \E t \in Tasks : Step(t)
    \/ RestoreStep
    \/ StopBegin
    \/ StopStep
    \/ Crash
    \/ Start
    \/ \E o \in ScriptKinds : OrphanActs(o)

Spec == Init /\ [][Next]_vars

\* A goroutine is scheduled again and every call it makes has a deadline.
FairSpec ==
    /\ Spec
    /\ \A t \in Tasks : WF_vars(Step(t))
    /\ WF_vars(RestoreStep)
    /\ WF_vars(StopStep)

-----------------------------------------------------------------------------
TableOK(f) == DOMAIN f \subseteq Ids /\ f \in [DOMAIN f -> TunnelSpec]

ImageOK(m) ==
    /\ m = [next |-> m.next, tunnels |-> m.tunnels]
    /\ m.next \in 1..(MaxID + 1)
    /\ TableOK(m.tunnels)

Places == {"idle", "register", "allow", "record", "snapshot", "write",
           "listeners", "rule", "read", "raise", "loop"}

Fates == {"new", "calling", "open", "closing", "closed", "failed"}

\* Every variable keeps its type.
TypeOK ==
    /\ up \in BOOLEAN /\ behind \in BOOLEAN /\ preempted \in BOOLEAN
    /\ starts \in 0..MaxStarts
    /\ TableOK(items) /\ TableOK(todo)
    /\ nextID \in 1..(MaxID + 1)
    /\ listening \subseteq Ids /\ fwRule \subseteq Ids /\ stopIds \subseteq Ids
    /\ firewall \subseteq Ids /\ excused \subseteq Ids /\ crossed \subseteq Ids
    /\ orphans \subseteq ScriptKinds
    /\ pc \in [Tasks -> Places]
    /\ cur \in [Tasks -> Ids \cup {0}]
    /\ arg \in [Tasks -> TunnelSpec \cup {NoSpec}]
    /\ DOMAIN snap = Tasks /\ \A t \in Tasks : ImageOK(snap[t])
    /\ ImageOK(file)
    /\ stale \subseteq Tasks
    /\ life \in [Keys -> Fates]

\* No port is left bound by a tunnel nobody can find, and no listed tunnel is
\* deaf: a listener is open exactly while its tunnel is in the table, waits in
\* CloseAll, or is about to be shut down by the one call that removed it.
ListenersOwned ==
    listening = DOMAIN items \cup stopIds
                \cup {cur[t] : t \in {u \in Tasks : pc[u] = "listeners"}}

\* Whatever calls race for it, a tunnel is shut down by one of them only, and no
\* two Opens ever work under the same id.
OneOwner ==
    /\ DOMAIN items \cap stopIds = {}
    /\ \A t \in Tasks : pc[t] \in {"listeners", "rule"} =>
           /\ cur[t] \notin DOMAIN items \cup stopIds
           /\ \A u \in Tasks \ {t} :
                  pc[u] \in {"listeners", "rule"} => cur[u] # cur[t]
    /\ \A t, u \in Tasks :
           /\ t # u
           /\ {pc[t], pc[u]} \subseteq {"allow", "record"}
           => cur[t] # cur[u]

\* A process that took next_id from the file before its first Open got an id
\* never gives an id to one tunnel while the file, or a snapshot on its way
\* there, gives it to another: not after crashes, failed writes and writes that
\* land in the wrong order.  (An Open that Restore has not preceded, and every
\* Open after the file could not be read, may take an id the file still lists.)
IdsAreNotReused ==
    ~preempted =>
        \A m \in {file} \cup {snap[t] : t \in Tasks} :
            \A i \in DOMAIN items \cap DOMAIN m.tunnels :
                items[i].key = m.tunnels[i].key

\* list_tunnels reports a firewall rule only while the host has it: no other
\* call takes the rule of a live tunnel, and no leftover of an earlier run is
\* taken for it.  The exception is a script the earlier process left running,
\* for an id that was issued again: it may come late and remove or replace it.
ReportedRuleExists == fwRule \cap DOMAIN items \subseteq firewall \cup crossed

\* A rule on the host belongs to a listed tunnel that records it, to one
\* that CloseAll or a Close still has to shut down and whose rule is recorded,
\* or to an Open that is about to record it; else it
\* was left behind in one of the ways excused names: a crash, a script that
\* failed, a close that overtook the Open creating the rule, the end of the
\* process while a call was in flight or after it opened one more tunnel, or a
\* script making the rule after its process had ended.
RulesAccountedFor ==
    \A id \in firewall \ excused :
        \/ /\ id \in fwRule
           /\ \/ id \in DOMAIN items \cup stopIds
              \/ \E t \in Tasks : cur[t] = id /\ pc[t] \in {"listeners", "rule"}
        \/ \E t \in Tasks : cur[t] = id /\ pc[t] = "record"

Quiet == up /\ \A t \in Tasks : pc[t] = "idle"

\* When nothing is in flight the file lists exactly the tunnels to reopen,
\* unless the last write was of an old snapshot, failed, or a restore failed:
\* no sequence of calls changes the table and forgets to save it.
DurableWhenQuiet == Quiet /\ ~behind => file.tunnels = Image.tunnels

\* Every call returns, with a rule to create, one to remove or a file to write,
\* whatever the others do.
CallsReturn == \A c \in Clients : pc[c] # "idle" ~> pc[c] = "idle"

\* A tunnel that left the table stops listening, and a service told to stop
\* stops with no listener open.
CloseTakesEffect ==
    /\ \A id \in Ids : id \in listening /\ id \notin DOMAIN items
                           ~> id \notin listening
    /\ pc[Stopper] # "idle" ~> ~up /\ listening = {}

-----------------------------------------------------------------------------
\* manager.go says of CloseAll that no firewall rule outlives the listener it
\* was opened for.
NoRuleOutlivesItsListener == ~up => firewall = {}

\* close_tunnel promises to forget the tunnel so that it is not reopened.
ClosedStaysForgotten == \A i \in DOMAIN items : life[items[i].key] # "closed"

\* open_tunnel promises a tunnel that is reopened when the service restarts.
OpenedIsReopened ==
    Quiet => \A s \in Offers : s.auto /\ life[s.key] = "open" =>
                 \E i \in DOMAIN items : items[i].key = s.key
=============================================================================
