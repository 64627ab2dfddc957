------------------------ MODULE TunnelManagerProofs ------------------------
(***************************************************************************)
(* The safety properties of TunnelManager for any number of clients, keys,  *)
(* ids and restarts, and for every environment.                             *)
(***************************************************************************)
EXTENDS TunnelManager, TLAPS

Closing(t) == pc[t] \in {"listeners", "rule"}
Working(t) == pc[t] \in {"allow", "record", "listeners", "rule"}

\* Which places each kind of task can be in.
PlacesOK ==
    /\ pc[Stopper] \in {"idle", "loop", "listeners", "rule"}
    /\ pc[Restorer] \notin {"listeners", "rule"}
    /\ \A t \in Tasks : pc[t] = "loop" => t \in {Restorer, Stopper}
    /\ ~up => \A t \in Tasks : pc[t] = "idle"
    /\ pc[Stopper] = "idle" => stopIds = {}
    /\ \A t \in Tasks : Working(t) => cur[t] \in Ids
    /\ \A t \in Tasks : pc[t] = "register" => arg[t] \in TunnelSpec

\* Everything that names a tunnel names one that was given its id before.
Issued ==
    /\ \A i \in DOMAIN items \cup stopIds \cup fwRule : i < nextID
    /\ \A t \in Tasks : cur[t] < nextID

\* What an Open that is busy with its rule may rely on.
OpenOK ==
    \A t \in Tasks :
        /\ pc[t] = "allow" => cur[t] \notin fwRule
        /\ pc[t] = "record" /\ cur[t] \in DOMAIN items => cur[t] \in firewall \cup crossed
        /\ pc[t] \in {"allow", "record"} =>
               cur[t] \in DOMAIN items \/ cur[t] \in excused

\* next_id in the file, and in any snapshot on its way there, is above every id
\* stored beside it, as it is above every id in the table.
IdsBelowNext ==
    /\ \A i \in DOMAIN items : i < nextID
    /\ \A i \in DOMAIN file.tunnels : i < file.next
    /\ \A t \in Tasks : \A i \in DOMAIN snap[t].tunnels : i < snap[t].next

\* Until Restore has raised nextID the table is empty and nobody has touched
\* the file, unless a call came first; from then on every id the file or a
\* snapshot lists is below nextID and, if the table has it too, names the same
\* tunnel there.
Unraised == pc[Restorer] \in {"read", "raise"}
Images == {file} \cup {snap[t] : t \in Tasks}
Agrees(m) == \A i \in DOMAIN m.tunnels :
                 /\ i < nextID
                 /\ i \in DOMAIN items => items[i].key = m.tunnels[i].key
Untouched ==
    /\ DOMAIN items = {} /\ stopIds = {}
    /\ \A t \in Tasks \ {Restorer} : /\ pc[t] \in {"idle", "register", "loop"}
                                     /\ DOMAIN snap[t].tunnels = {}
    /\ pc[Restorer] = "read" => DOMAIN snap[Restorer].tunnels = {}
    /\ pc[Restorer] = "raise" => snap[Restorer] = file
ReuseOK ==
    /\ ~up => DOMAIN items = {} /\ \A t \in Tasks : DOMAIN snap[t].tunnels = {}
    /\ up /\ ~preempted /\ Unraised => Untouched
    /\ up /\ ~preempted /\ ~Unraised => \A m \in Images : Agrees(m)

TunnelInv ==
    /\ TypeOK /\ PlacesOK /\ Issued /\ OneOwner /\ OpenOK
    /\ ListenersOwned /\ IdsBelowNext /\ ReuseOK /\ ReportedRuleExists
    /\ RulesAccountedFor

-----------------------------------------------------------------------------
\* Removing entries from a table, or adding one, leaves a table.
LEMMA RestrictTable ==
    ASSUME NEW f, TableOK(f), NEW S \in SUBSET DOMAIN f
    PROVE  TableOK(Restrict(f, S)) /\ DOMAIN Restrict(f, S) = S
BY DEF TableOK, Restrict

LEMMA EmptyTable == TableOK(NoTunnels) /\ DOMAIN NoTunnels = {}
BY DEF TableOK, NoTunnels

LEMMA EmptyImageOK == ImageOK(EmptyImage)
BY TunnelAssumption, EmptyTable DEF EmptyImage, ImageOK

\* What persist collects is an image of the right type.
LEMMA SnapshotOK ==
    ASSUME TypeOK
    PROVE  ImageOK(Image) /\ DOMAIN Image.tunnels = AutoIds /\ Image.next = nextID
<1>1. AutoIds \in SUBSET DOMAIN items
    BY DEF AutoIds
<1>2. TableOK(items) /\ nextID \in 1..(MaxID + 1)
    BY DEF TypeOK
<1>3. TableOK(Restrict(items, AutoIds)) /\ DOMAIN Restrict(items, AutoIds) = AutoIds
    BY <1>1, <1>2, RestrictTable
<1>. QED
    BY <1>2, <1>3 DEF Image, ImageOK

LEMMA TypeInit == Init => TypeOK
<1>. SUFFICES ASSUME Init PROVE TypeOK
    OBVIOUS
<1>1. TableOK(items) /\ TableOK(todo) /\ ImageOK(file)
      /\ DOMAIN snap = Tasks /\ \A t \in Tasks : ImageOK(snap[t])
    BY EmptyTable, EmptyImageOK DEF Init
<1>2. pc \in [Tasks -> Places] /\ cur \in [Tasks -> Ids \cup {0}]
      /\ arg \in [Tasks -> TunnelSpec \cup {NoSpec}] /\ life \in [Keys -> Fates]
    BY DEF Init, Places, Fates
<1>3. starts \in 0..MaxStarts /\ nextID \in 1..(MaxID + 1)
    BY TunnelAssumption DEF Init
<1>4. up \in BOOLEAN /\ behind \in BOOLEAN
    BY DEF Init
<1>5. listening \subseteq Ids /\ fwRule \subseteq Ids /\ stopIds \subseteq Ids
      /\ firewall \subseteq Ids /\ excused \subseteq Ids /\ stale \subseteq Tasks
      /\ crossed \subseteq Ids /\ orphans \subseteq ScriptKinds /\ preempted \in BOOLEAN
    BY DEF Init
<1>. QED
    BY <1>1, <1>2, <1>3, <1>4, <1>5, Zenon DEF TypeOK

\* Every step keeps the types; a task's place says whether its id is set.
LEMMA TypeNext ==
    ASSUME TypeOK, PlacesOK, [Next]_vars
    PROVE  TypeOK'
<1>. USE TunnelAssumption
    DEF Goto, proc, table, states, loops, local, saved, history, host, marks
<1>1. ASSUME NEW c \in Clients, NEW s \in Offers, OpenCall(c, s) PROVE TypeOK'
  <2>1. pc' \in [Tasks -> Places]
    BY <1>1 DEF TypeOK, OpenCall, Tasks, Places
  <2>2. life' \in [Keys -> Fates]
    BY <1>1 DEF TypeOK, OpenCall, Fates
  <2>3. arg' \in [Tasks -> TunnelSpec \cup {NoSpec}]
    BY <1>1, TunnelAssumption DEF TypeOK, OpenCall, Tasks
  <2>. QED
    BY <1>1, <2>1, <2>2, <2>3 DEF TypeOK, OpenCall
<1>2. ASSUME NEW t \in Tasks, OpenFails(t) PROVE TypeOK'
  <2>1. pc' \in [Tasks -> Places]
    BY <1>2 DEF TypeOK, OpenFails, Places, Return
  <2>2. life' \in [Keys -> Fates]
    BY <1>2 DEF TypeOK, OpenFails, Fates
  <2>3. arg' \in [Tasks -> TunnelSpec \cup {NoSpec}]
    BY <1>2 DEF TypeOK, OpenFails
  <2>. QED
    BY <1>2, <2>1, <2>2, <2>3 DEF TypeOK, OpenFails
<1>3. ASSUME NEW t \in Tasks, OpenRegister(t) PROVE TypeOK'
  <2>1. pc' \in [Tasks -> Places]
    BY <1>3 DEF TypeOK, OpenRegister, Places
  <2>2. arg[t] \in TunnelSpec
    BY <1>3 DEF TypeOK, OpenRegister, PlacesOK
  <2>3. TableOK(items')
    BY <1>3, <2>2 DEF TypeOK, OpenRegister, TableOK, NewID
  <2>4. nextID' \in 1..(MaxID + 1)
    BY <1>3, TunnelAssumption DEF TypeOK, OpenRegister, NewID, Ids
  <2>5. cur' \in [Tasks -> Ids \cup {0}] /\ listening' \subseteq Ids
    BY <1>3 DEF TypeOK, OpenRegister, NewID
  <2>6. arg' \in [Tasks -> TunnelSpec \cup {NoSpec}]
    BY <1>3 DEF TypeOK, OpenRegister
  <2>7. stale' \subseteq Tasks
    BY <1>3 DEF TypeOK, OpenRegister, TableChanged
  <2>. QED
    BY <1>3, <2>1, <2>2, <2>3, <2>4, <2>5, <2>6, <2>7 DEF TypeOK, OpenRegister
<1>4. ASSUME NEW t \in Tasks, OpenAllow(t) PROVE TypeOK'
  <2>1. pc' \in [Tasks -> Places]
    BY <1>4 DEF TypeOK, OpenAllow, Places
  <2>2. cur[t] \in Ids
    BY <1>4 DEF TypeOK, OpenAllow, PlacesOK, Working
  <2>3. firewall' \subseteq Ids /\ excused' \subseteq Ids /\ crossed' \subseteq Ids
    BY <1>4, <2>2 DEF TypeOK, OpenAllow
  <2>. QED
    BY <1>4, <2>1, <2>2, <2>3 DEF TypeOK, OpenAllow
<1>5. ASSUME NEW t \in Tasks, OpenAllowFails(t) PROVE TypeOK'
  <2>1. pc' \in [Tasks -> Places]
    BY <1>5 DEF TypeOK, OpenAllowFails, Places
  <2>2. cur[t] \in Ids
    BY <1>5 DEF TypeOK, OpenAllowFails, PlacesOK, Working
  <2>3. firewall' \subseteq Ids /\ excused' \subseteq Ids
    BY <1>5, <2>2 DEF TypeOK, OpenAllowFails
  <2>. QED
    BY <1>5, <2>1, <2>2, <2>3 DEF TypeOK, OpenAllowFails
<1>6. ASSUME NEW t \in Tasks, OpenRecordRule(t) PROVE TypeOK'
  <2>1. pc' \in [Tasks -> Places]
    BY <1>6 DEF TypeOK, OpenRecordRule, Places
  <2>2. cur[t] \in Ids
    BY <1>6 DEF TypeOK, OpenRecordRule, PlacesOK, Working
  <2>3. fwRule' \subseteq Ids
    BY <1>6, <2>2 DEF TypeOK, OpenRecordRule
  <2>. QED
    BY <1>6, <2>1, <2>2, <2>3 DEF TypeOK, OpenRecordRule
<1>7. ASSUME NEW t \in Tasks, PersistSnapshot(t) PROVE TypeOK'
  <2>1. pc' \in [Tasks -> Places]
    BY <1>7 DEF TypeOK, PersistSnapshot, Places
  <2>2. DOMAIN snap' = Tasks /\ \A u \in Tasks : ImageOK(snap'[u])
    BY <1>7, SnapshotOK DEF TypeOK, PersistSnapshot
  <2>. QED
    BY <1>7, <2>1, <2>2 DEF TypeOK, PersistSnapshot
<1>8. ASSUME NEW t \in Tasks, PersistEnds(t)
      PROVE ImageOK(file') /\ behind' \in BOOLEAN => TypeOK'
  <2>1. pc' \in [Tasks -> Places]
    BY <1>8 DEF TypeOK, PersistEnds, Places, Return
  <2>2. DOMAIN snap' = Tasks /\ \A u \in Tasks : ImageOK(snap'[u])
    BY <1>8, EmptyImageOK DEF TypeOK, PersistEnds
  <2>3. cur' \in [Tasks -> Ids \cup {0}] /\ arg' \in [Tasks -> TunnelSpec \cup {NoSpec}]
    BY <1>8 DEF TypeOK, PersistEnds
  <2>4. life' \in [Keys -> Fates]
    BY <1>8 DEF TypeOK, PersistEnds, Told, Fates
  <2>. QED
    BY <1>8, <2>1, <2>2, <2>3, <2>4 DEF TypeOK, PersistEnds
<1>9. ASSUME NEW c \in Clients, NEW id \in Ids, CloseRemove(c, id) PROVE TypeOK'
  <2>1. pc' \in [Tasks -> Places]
    BY <1>9 DEF TypeOK, CloseRemove, Tasks, Places
  <2>2. TableOK(items) /\ DOMAIN items \ {id} \in SUBSET DOMAIN items
    BY <1>9 DEF TypeOK, CloseRemove
  <2>3. TableOK(items')
    BY <1>9, <2>2, RestrictTable DEF TypeOK, CloseRemove
  <2>4. cur' \in [Tasks -> Ids \cup {0}] /\ excused' \subseteq Ids
    BY <1>9 DEF TypeOK, CloseRemove
  <2>5. items[id] \in TunnelSpec
    BY <1>9 DEF TypeOK, CloseRemove, TableOK
  <2>6. arg' \in [Tasks -> TunnelSpec \cup {NoSpec}]
    BY <1>9, <2>5 DEF TypeOK, CloseRemove
  <2>7. life' \in [Keys -> Fates]
    BY <1>9 DEF TypeOK, CloseRemove, Fates
  <2>8. stale' \subseteq Tasks
    BY <1>9 DEF TypeOK, CloseRemove, TableChanged
  <2>. QED
    BY <1>9, <2>1, <2>2, <2>3, <2>4, <2>5, <2>6, <2>7, <2>8 DEF TypeOK,
       CloseRemove
<1>10. ASSUME NEW t \in Tasks, ShutdownListeners(t) PROVE TypeOK'
  <2>1. pc' \in [Tasks -> Places]
    BY <1>10 DEF TypeOK, ShutdownListeners, Places
  <2>. QED
    BY <1>10, <2>1 DEF TypeOK, ShutdownListeners
<1>11. ASSUME NEW t \in Tasks, ShutdownRule(t) PROVE TypeOK'
  <2>1. pc' \in [Tasks -> Places]
    BY <1>11 DEF TypeOK, ShutdownRule, Places, AfterShutdown
  <2>2. firewall' \subseteq Ids
    BY <1>11 DEF TypeOK, ShutdownRule
  <2>. QED
    BY <1>11, <2>1, <2>2 DEF TypeOK, ShutdownRule
<1>12. ASSUME NEW t \in Tasks, ShutdownRuleFails(t) PROVE TypeOK'
  <2>1. pc' \in [Tasks -> Places]
    BY <1>12 DEF TypeOK, ShutdownRuleFails, Places, AfterShutdown
  <2>2. excused' \subseteq Ids
    BY <1>12 DEF TypeOK, ShutdownRuleFails, PlacesOK, Working
  <2>. QED
    BY <1>12, <2>1, <2>2 DEF TypeOK, ShutdownRuleFails
<1>13. ASSUME NEW c \in Clients, NEW r \in Renames, RenameVM(c, r[1], r[2]) PROVE TypeOK'
  <2>1. pc' \in [Tasks -> Places]
    BY <1>13 DEF TypeOK, RenameVM, Tasks, Places
  <2>2. r[2] \in Names
    BY <1>13, TunnelAssumption DEF TypeOK, RenameVM
  <2>3. TableOK(items')
    BY <1>13, <2>2 DEF TypeOK, RenameVM, TableOK, TunnelSpec
  <2>4. stale' \subseteq Tasks
    BY <1>13 DEF TypeOK, RenameVM, TableChanged
  <2>. QED
    BY <1>13, <2>1, <2>2, <2>3, <2>4 DEF TypeOK, RenameVM
<1>14. ASSUME StopBegin PROVE TypeOK'
  <2>1. pc' \in [Tasks -> Places]
    BY <1>14 DEF TypeOK, StopBegin, Tasks, Places
  <2>2. TableOK(items')
    BY <1>14, EmptyTable DEF TypeOK, StopBegin
  <2>3. stopIds' \subseteq Ids /\ excused' \subseteq Ids
    BY <1>14 DEF TypeOK, StopBegin, TableOK
  <2>4. stale' \subseteq Tasks
    BY <1>14 DEF TypeOK, StopBegin, TableChanged
  <2>. QED
    BY <1>14, <2>1, <2>2, <2>3, <2>4 DEF TypeOK, StopBegin
<1>15. ASSUME NEW id \in Ids, StopNext(id) PROVE TypeOK'
  <2>1. pc' \in [Tasks -> Places]
    BY <1>15 DEF TypeOK, StopNext, Tasks, Places
  <2>2. stopIds' \subseteq Ids /\ cur' \in [Tasks -> Ids \cup {0}]
    BY <1>15 DEF TypeOK, StopNext
  <2>. QED
    BY <1>15, <2>1, <2>2 DEF TypeOK, StopNext
<1>16. ASSUME ProcessEnds, excused' \subseteq Ids PROVE TypeOK'
  <2>1. pc' \in [Tasks -> Places]
    BY <1>16 DEF TypeOK, ProcessEnds, Places
  <2>2. TableOK(items') /\ TableOK(todo')
    BY <1>16, EmptyTable DEF TypeOK, ProcessEnds
  <2>3. DOMAIN snap' = Tasks /\ \A u \in Tasks : ImageOK(snap'[u])
    BY <1>16, EmptyImageOK DEF TypeOK, ProcessEnds
  <2>4. nextID' \in 1..(MaxID + 1)
    BY <1>16, TunnelAssumption DEF TypeOK, ProcessEnds
  <2>5. cur' \in [Tasks -> Ids \cup {0}] /\ arg' \in [Tasks -> TunnelSpec \cup {NoSpec}]
    BY <1>16 DEF TypeOK, ProcessEnds
  <2>6. life' \in [Keys -> Fates]
    BY <1>16 DEF TypeOK, ProcessEnds, Fates
  <2>7. Scripts \subseteq ScriptKinds
    BY DEF Scripts, ScriptKinds, HasRule, TypeOK, PlacesOK, Working
  <2>8. orphans' \subseteq ScriptKinds /\ crossed' = {} /\ preempted' = FALSE
    BY <1>16, <2>7 DEF ProcessEnds, TypeOK
  <2>. QED
    BY <1>16, <2>1, <2>2, <2>3, <2>4, <2>5, <2>6, <2>8 DEF TypeOK, ProcessEnds
<1>17. ASSUME Start PROVE TypeOK'
  <2>1. pc' \in [Tasks -> Places]
    BY <1>17 DEF TypeOK, Start, Tasks, Places
  <2>2. starts' \in 0..MaxStarts
    BY <1>17, TunnelAssumption DEF TypeOK, Start
  <2>. QED
    BY <1>17, <2>1, <2>2 DEF TypeOK, Start
<1>18. ASSUME RestoreRead PROVE TypeOK'
  <2>1. pc' \in [Tasks -> Places]
    BY <1>18 DEF TypeOK, RestoreRead, Tasks, Places
  <2>2. DOMAIN snap' = Tasks /\ \A u \in Tasks : ImageOK(snap'[u])
    BY <1>18 DEF TypeOK, RestoreRead, Tasks
  <2>. QED
    BY <1>18, <2>1, <2>2 DEF TypeOK, RestoreRead
<1>19. ASSUME RestoreReadFails PROVE TypeOK'
  <2>1. pc' \in [Tasks -> Places]
    BY <1>19 DEF TypeOK, RestoreReadFails, Tasks, Places
  <2>. QED
    BY <1>19, <2>1 DEF TypeOK, RestoreReadFails
<1>20. ASSUME RestoreRaise PROVE TypeOK'
  <2>1. pc' \in [Tasks -> Places]
    BY <1>20 DEF TypeOK, RestoreRaise, Tasks, Places
  <2>2. ImageOK(snap[Restorer])
    BY <1>20 DEF TypeOK, RestoreRaise, Tasks
  <2>3. TableOK(todo') /\ nextID' \in 1..(MaxID + 1)
    BY <1>20, <2>2 DEF TypeOK, RestoreRaise, ImageOK
  <2>4. DOMAIN snap' = Tasks /\ \A u \in Tasks : ImageOK(snap'[u])
    BY <1>20, EmptyImageOK DEF TypeOK, RestoreRaise, Tasks
  <2>. QED
    BY <1>20, <2>1, <2>2, <2>3, <2>4 DEF TypeOK, RestoreRaise
<1>21. ASSUME NEW id \in Ids, RestoreNext(id) PROVE TypeOK'
  <2>1. pc' \in [Tasks -> Places]
    BY <1>21 DEF TypeOK, RestoreNext, Tasks, Places
  <2>2. TableOK(todo) /\ DOMAIN todo \ {id} \in SUBSET DOMAIN todo
    BY <1>21 DEF TypeOK, RestoreNext
  <2>3. TableOK(todo')
    BY <1>21, <2>2, RestrictTable DEF TypeOK, RestoreNext
  <2>4. arg' \in [Tasks -> TunnelSpec \cup {NoSpec}]
    BY <1>21 DEF TypeOK, RestoreNext, TableOK
  <2>. QED
    BY <1>21, <2>1, <2>2, <2>3, <2>4 DEF TypeOK, RestoreNext
<1>22. ASSUME RestoreDone PROVE TypeOK'
  <2>1. pc' \in [Tasks -> Places]
    BY <1>22 DEF TypeOK, RestoreDone, Tasks, Places
  <2>. QED
    BY <1>22, <2>1 DEF TypeOK, RestoreDone
<1>23. ASSUME NEW t \in Tasks, PersistWrite(t) PROVE TypeOK'
    BY <1>23, <1>8 DEF TypeOK, PersistWrite
<1>24. ASSUME NEW t \in Tasks, PersistFails(t) PROVE TypeOK'
    BY <1>24, <1>8 DEF TypeOK, PersistFails
<1>25. CASE StopExit \/ Crash
    BY <1>25, <1>16 DEF StopExit, Crash, TypeOK
<1>26. CASE UNCHANGED vars
    BY <1>26 DEF TypeOK, vars
<1>27. ASSUME NEW o \in ScriptKinds, OrphanActs(o) PROVE TypeOK'
  <2>1. o.id \in Ids
    BY DEF ScriptKinds
  <2>2. firewall' \subseteq Ids /\ excused' \subseteq Ids /\ crossed' \subseteq Ids
        /\ orphans' \subseteq ScriptKinds
    BY <1>27, <2>1 DEF OrphanActs, TypeOK
  <2>. QED
    BY <1>27, <2>2 DEF TypeOK, OrphanActs
<1>. QED
    BY <1>1, <1>2, <1>3, <1>4, <1>5, <1>6, <1>7, <1>8, <1>9, <1>10, <1>11,
       <1>12, <1>13, <1>14, <1>15, <1>16, <1>17, <1>18, <1>19, <1>20, <1>21,
       <1>22, <1>23, <1>24, <1>25, <1>26, <1>27 DEF Next, Call, Step, RestoreStep,
       StopStep

\* Every step leaves every task in a place it can be in.
LEMMA PlacesNext ==
    ASSUME TypeOK, PlacesOK, [Next]_vars
    PROVE  PlacesOK'
<1>. USE TunnelAssumption
    DEF Goto, Tasks, proc, table, states, loops, local, saved, history, host, marks
<1>p1. /\ pc \in [Tasks -> Places] /\ cur \in [Tasks -> Ids \cup {0}] /\ DOMAIN arg = Tasks
      /\ TableOK(todo) /\ stopIds \subseteq Ids /\ nextID \in 1..(MaxID + 1)
    BY DEF TypeOK
<1>1. ASSUME NEW c \in Clients, NEW s \in Offers, OpenCall(c, s) PROVE PlacesOK'
    BY <1>1, <1>p1 DEF OpenCall, MayCall, PlacesOK, Working
<1>2. ASSUME NEW t \in Tasks, OpenFails(t) PROVE PlacesOK'
    BY <1>2, <1>p1 DEF OpenFails, Return, PlacesOK, Working
<1>3. ASSUME NEW t \in Tasks, OpenRegister(t) PROVE PlacesOK'
    BY <1>3, <1>p1 DEF OpenRegister, NewID, TableChanged, PlacesOK, Working, Ids
<1>4. ASSUME NEW t \in Tasks, OpenAllow(t) PROVE PlacesOK'
    BY <1>4, <1>p1 DEF OpenAllow, PlacesOK, Working
<1>5. ASSUME NEW t \in Tasks, OpenAllowFails(t) PROVE PlacesOK'
    BY <1>5, <1>p1 DEF OpenAllowFails, PlacesOK, Working
<1>6. ASSUME NEW t \in Tasks, OpenRecordRule(t) PROVE PlacesOK'
    BY <1>6, <1>p1 DEF OpenRecordRule, PlacesOK, Working
<1>7. ASSUME NEW t \in Tasks, PersistSnapshot(t) PROVE PlacesOK'
    BY <1>7, <1>p1 DEF PersistSnapshot, PlacesOK, Working
<1>8. ASSUME NEW t \in Tasks, PersistEnds(t) PROVE PlacesOK'
    BY <1>8, <1>p1 DEF PersistEnds, Return, PlacesOK, Working
<1>9. ASSUME NEW c \in Clients, NEW id \in Ids, CloseRemove(c, id) PROVE PlacesOK'
    BY <1>9, <1>p1 DEF CloseRemove, MayCall, TableChanged, PlacesOK, Working
<1>10. ASSUME NEW t \in Tasks, ShutdownListeners(t) PROVE PlacesOK'
    BY <1>10, <1>p1 DEF ShutdownListeners, PlacesOK, Working
<1>11. ASSUME NEW t \in Tasks, ShutdownRule(t) PROVE PlacesOK'
    BY <1>11, <1>p1 DEF ShutdownRule, AfterShutdown, PlacesOK, Working
<1>12. ASSUME NEW t \in Tasks, ShutdownRuleFails(t) PROVE PlacesOK'
    BY <1>12, <1>p1 DEF ShutdownRuleFails, AfterShutdown, PlacesOK, Working
<1>13. ASSUME NEW c \in Clients, NEW r \in Renames, RenameVM(c, r[1], r[2])
      PROVE PlacesOK'
    BY <1>13, <1>p1 DEF RenameVM, MayCall, TableChanged, PlacesOK, Working
<1>14. ASSUME StopBegin PROVE PlacesOK'
    BY <1>14, <1>p1 DEF StopBegin, TableChanged, PlacesOK, Working
<1>15. ASSUME NEW id \in Ids, StopNext(id) PROVE PlacesOK'
    BY <1>15, <1>p1 DEF StopNext, PlacesOK, Working
<1>16. ASSUME ProcessEnds PROVE PlacesOK'
    BY <1>16, <1>p1 DEF ProcessEnds, PlacesOK, Working
<1>17. ASSUME Start PROVE PlacesOK'
    BY <1>17, <1>p1 DEF Start, PlacesOK, Working
<1>18. ASSUME RestoreRead PROVE PlacesOK'
    BY <1>18, <1>p1 DEF RestoreRead, PlacesOK, Working
<1>19. ASSUME RestoreReadFails PROVE PlacesOK'
    BY <1>19, <1>p1 DEF RestoreReadFails, PlacesOK, Working
<1>20. ASSUME RestoreRaise PROVE PlacesOK'
    BY <1>20, <1>p1 DEF RestoreRaise, PlacesOK, Working
<1>21. ASSUME NEW id \in Ids, RestoreNext(id) PROVE PlacesOK'
    BY <1>21, <1>p1 DEF RestoreNext, PlacesOK, Working, TableOK
<1>22. ASSUME RestoreDone PROVE PlacesOK'
    BY <1>22, <1>p1 DEF RestoreDone, PlacesOK, Working
<1>23. ASSUME NEW t \in Tasks, PersistWrite(t) \/ PersistFails(t) PROVE PlacesOK'
    BY <1>23, <1>8 DEF PersistWrite, PersistFails
<1>24. CASE StopExit \/ Crash
    BY <1>24, <1>16 DEF StopExit, Crash
<1>25. CASE UNCHANGED vars
    BY <1>25 DEF vars, PlacesOK, Working
<1>26. ASSUME NEW o \in ScriptKinds, OrphanActs(o) PROVE PlacesOK'
    BY <1>26, <1>p1 DEF OrphanActs, PlacesOK, Working
<1>. QED
    BY <1>1, <1>2, <1>3, <1>4, <1>5, <1>6, <1>7, <1>8, <1>9, <1>10, <1>11,
       <1>12, <1>13, <1>14, <1>15, <1>16, <1>17, <1>18, <1>19, <1>20, <1>21,
       <1>22, <1>23, <1>24, <1>25, <1>26 DEF Next, Call, Step, RestoreStep, StopStep

\* An id in use was handed out by this run of the process.
LEMMA IssuedNext ==
    ASSUME TypeOK, PlacesOK, Issued, [Next]_vars
    PROVE  Issued'
<1>. USE TunnelAssumption
    DEF Goto, Tasks, proc, table, states, loops, local, saved, history, host, marks
<1>p1. /\ pc \in [Tasks -> Places] /\ cur \in [Tasks -> Ids \cup {0}]
       /\ DOMAIN items \subseteq Ids /\ stopIds \subseteq Ids /\ fwRule \subseteq Ids
       /\ nextID \in 1..(MaxID + 1)
    BY DEF TypeOK, TableOK
<1>p2. nextID \in Nat /\ (\A i \in Ids : i \in Nat) /\ \A u \in Tasks : cur[u] \in Nat
    BY <1>p1 DEF Ids
<1>p3. DOMAIN NoTunnels = {}
    BY EmptyTable
<1>1. ASSUME NEW c \in Clients, NEW s \in Offers, OpenCall(c, s) PROVE Issued'
    BY <1>1, <1>p1, <1>p2, <1>p3 DEF OpenCall, MayCall, Issued
<1>2. ASSUME NEW t \in Tasks, OpenFails(t) PROVE Issued'
    BY <1>2, <1>p1, <1>p2, <1>p3 DEF OpenFails, Return, Issued
<1>3. ASSUME NEW t \in Tasks, OpenRegister(t) PROVE Issued'
  <2>1. nextID' = nextID + 1 /\ DOMAIN items' = DOMAIN items \cup {nextID}
    BY <1>3, <1>p1, <1>p2, <1>p3 DEF OpenRegister, NewID, TableChanged
  <2>2. \A u \in Tasks : cur'[u] = cur[u] \/ cur'[u] = nextID
    BY <1>3, <1>p1, <1>p2, <1>p3 DEF OpenRegister, NewID, TableChanged
  <2>3. \A i \in DOMAIN items' \cup stopIds \cup fwRule : i < nextID + 1
    BY <1>p1, <1>p2, <2>1 DEF Issued
  <2>4. \A u \in Tasks : cur'[u] < nextID + 1
    BY <1>p2, <2>2 DEF Issued
  <2>5. stopIds' = stopIds /\ fwRule' = fwRule /\ nextID' = nextID + 1
    BY <1>3, <1>p1, <1>p2, <1>p3 DEF OpenRegister, NewID, TableChanged
  <2>. QED
    BY <2>1, <2>2, <2>3, <2>4, <2>5 DEF Issued
<1>4. ASSUME NEW t \in Tasks, OpenAllow(t) PROVE Issued'
    BY <1>4, <1>p1, <1>p2, <1>p3 DEF OpenAllow, Issued
<1>5. ASSUME NEW t \in Tasks, OpenAllowFails(t) PROVE Issued'
    BY <1>5, <1>p1, <1>p2, <1>p3 DEF OpenAllowFails, Issued
<1>6. ASSUME NEW t \in Tasks, OpenRecordRule(t) PROVE Issued'
    BY <1>6, <1>p1, <1>p2, <1>p3 DEF OpenRecordRule, Issued
<1>7. ASSUME NEW t \in Tasks, PersistSnapshot(t) PROVE Issued'
    BY <1>7, <1>p1, <1>p2, <1>p3 DEF PersistSnapshot, Issued
<1>8. ASSUME NEW t \in Tasks, PersistEnds(t) PROVE Issued'
    BY <1>8, <1>p1, <1>p2, <1>p3 DEF PersistEnds, Return, Issued
<1>9. ASSUME NEW c \in Clients, NEW id \in Ids, CloseRemove(c, id) PROVE Issued'
    BY <1>9, <1>p1, <1>p2, <1>p3 DEF CloseRemove, MayCall, TableChanged,
       Issued, Restrict
<1>10. ASSUME NEW t \in Tasks, ShutdownListeners(t) PROVE Issued'
    BY <1>10, <1>p1, <1>p2, <1>p3 DEF ShutdownListeners, Issued
<1>11. ASSUME NEW t \in Tasks, ShutdownRule(t) PROVE Issued'
    BY <1>11, <1>p1, <1>p2, <1>p3 DEF ShutdownRule, AfterShutdown, Issued
<1>12. ASSUME NEW t \in Tasks, ShutdownRuleFails(t) PROVE Issued'
    BY <1>12, <1>p1, <1>p2, <1>p3 DEF ShutdownRuleFails, AfterShutdown, Issued
<1>13. ASSUME NEW c \in Clients, NEW r \in Renames, RenameVM(c, r[1], r[2])
      PROVE Issued'
    BY <1>13, <1>p1, <1>p2, <1>p3 DEF RenameVM, MayCall, TableChanged, Issued
<1>14. ASSUME StopBegin PROVE Issued'
    BY <1>14, <1>p1, <1>p2, <1>p3 DEF StopBegin, TableChanged, Issued
<1>15. ASSUME NEW id \in Ids, StopNext(id) PROVE Issued'
    BY <1>15, <1>p1, <1>p2, <1>p3 DEF StopNext, Issued
<1>16. ASSUME ProcessEnds PROVE Issued'
    BY <1>16, <1>p1, <1>p2, <1>p3 DEF ProcessEnds, Issued
<1>17. ASSUME Start PROVE Issued'
    BY <1>17, <1>p1, <1>p2, <1>p3 DEF Start, Issued
<1>18. ASSUME RestoreRead PROVE Issued'
    BY <1>18, <1>p1, <1>p2, <1>p3 DEF RestoreRead, Issued
<1>19. ASSUME RestoreReadFails PROVE Issued'
    BY <1>19, <1>p1, <1>p2, <1>p3 DEF RestoreReadFails, Issued
<1>20. ASSUME RestoreRaise PROVE Issued'
  <2>1. snap[Restorer].next \in 1..(MaxID + 1)
    BY <1>20, <1>p1, <1>p2, <1>p3 DEF RestoreRaise, TypeOK, ImageOK
  <2>2. nextID' \in Nat /\ nextID' >= nextID
    BY <1>20, <1>p1, <1>p2, <1>p3, <2>1 DEF RestoreRaise
  <2>3. items' = items /\ stopIds' = stopIds /\ fwRule' = fwRule /\ cur' = cur
    BY <1>20, <1>p1, <1>p2, <1>p3 DEF RestoreRaise
  <2>4. /\ \A i \in DOMAIN items \cup stopIds \cup fwRule : i < nextID'
        /\ \A u \in Tasks : cur[u] < nextID'
    BY <1>p1, <1>p2, <2>2 DEF Issued
  <2>5. \A i \in DOMAIN items' \cup stopIds' \cup fwRule' : i < nextID'
    BY <2>3, <2>4
  <2>6. \A u \in Tasks : cur'[u] < nextID'
    BY <2>3, <2>4
  <2>. QED
    BY <2>1, <2>2, <2>3, <2>4, <2>5, <2>6 DEF Issued
<1>21. ASSUME NEW id \in Ids, RestoreNext(id) PROVE Issued'
    BY <1>21, <1>p1, <1>p2, <1>p3 DEF RestoreNext, Issued
<1>22. ASSUME RestoreDone PROVE Issued'
    BY <1>22, <1>p1, <1>p2, <1>p3 DEF RestoreDone, Issued
<1>23. ASSUME NEW t \in Tasks, PersistWrite(t) \/ PersistFails(t) PROVE Issued'
    BY <1>23, <1>8 DEF PersistWrite, PersistFails
<1>24. CASE StopExit \/ Crash
    BY <1>24, <1>16 DEF StopExit, Crash
<1>25. CASE UNCHANGED vars
    BY <1>25 DEF vars, Issued
<1>26. ASSUME NEW o \in ScriptKinds, OrphanActs(o) PROVE Issued'
    BY <1>26, <1>p1, <1>p2, <1>p3 DEF OrphanActs, Issued
<1>. QED
    BY <1>1, <1>2, <1>3, <1>4, <1>5, <1>6, <1>7, <1>8, <1>9, <1>10, <1>11,
       <1>12, <1>13, <1>14, <1>15, <1>16, <1>17, <1>18, <1>19, <1>20, <1>21,
       <1>22, <1>23, <1>24, <1>25, <1>26 DEF Next, Call, Step, RestoreStep, StopStep

\* The next id is used nowhere in this run of the process.
LEMMA FreshID ==
    ASSUME TypeOK, Issued
    PROVE  /\ nextID \notin DOMAIN items \cup stopIds \cup fwRule
           /\ \A t \in Tasks : cur[t] # nextID
<1>1. nextID \in Nat
    BY TunnelAssumption DEF TypeOK
<1>. QED
    BY <1>1 DEF Issued

\* A tunnel moves from the table to the one call that shuts it down.
LEMMA OneOwnerNext ==
    ASSUME TypeOK, PlacesOK, Issued, OneOwner, [Next]_vars
    PROVE  OneOwner'
<1>. USE TunnelAssumption
    DEF Goto, Tasks, proc, table, states, loops, local, saved, history, host, marks
<1>p1. /\ pc \in [Tasks -> Places] /\ cur \in [Tasks -> Ids \cup {0}]
       /\ DOMAIN items \subseteq Ids /\ stopIds \subseteq Ids /\ fwRule \subseteq Ids
       /\ nextID \in 1..(MaxID + 1)
    BY DEF TypeOK, TableOK
<1>p2. nextID \in Nat /\ (\A i \in Ids : i \in Nat) /\ \A u \in Tasks : cur[u] \in Nat
    BY <1>p1 DEF Ids
<1>p3. DOMAIN NoTunnels = {}
    BY EmptyTable
<1>p4. /\ nextID \notin DOMAIN items \cup stopIds
       /\ \A t \in Tasks : cur[t] # nextID
       /\ pc[Stopper] = "idle" => stopIds = {}
    BY FreshID DEF PlacesOK
<1>1. ASSUME NEW c \in Clients, NEW s \in Offers, OpenCall(c, s) PROVE OneOwner'
    BY <1>1, <1>p1, <1>p2, <1>p3, <1>p4 DEF OpenCall, MayCall, OneOwner
<1>2. ASSUME NEW t \in Tasks, OpenFails(t) PROVE OneOwner'
    BY <1>2, <1>p1, <1>p2, <1>p3, <1>p4 DEF OpenFails, Return, OneOwner
<1>3. ASSUME NEW t \in Tasks, OpenRegister(t) PROVE OneOwner'
  <2>1. DOMAIN items' = DOMAIN items \cup {nextID} /\ stopIds' = stopIds
    BY <1>3, <1>p1, <1>p2, <1>p3, <1>p4 DEF OpenRegister, NewID, TableChanged
  <2>2. /\ \A u \in Tasks \ {t} : cur'[u] = cur[u] /\ pc'[u] = pc[u]
        /\ cur'[t] = nextID /\ pc'[t] \in {"allow", "snapshot"}
    BY <1>3, <1>p1, <1>p2, <1>p3, <1>p4 DEF OpenRegister, NewID, TableChanged
  <2>3. nextID \notin stopIds /\ \A u \in Tasks : cur[u] # nextID
    BY <1>p4
  <2>4. OneOwner
    BY <1>3, <1>p1, <1>p2, <1>p3, <1>p4 DEF OpenRegister, NewID, TableChanged,
       OneOwner
  <2>. QED
    BY <2>1, <2>2, <2>3, <2>4 DEF OneOwner
<1>4. ASSUME NEW t \in Tasks, OpenAllow(t) PROVE OneOwner'
    BY <1>4, <1>p1, <1>p2, <1>p3, <1>p4 DEF OpenAllow, OneOwner
<1>5. ASSUME NEW t \in Tasks, OpenAllowFails(t) PROVE OneOwner'
    BY <1>5, <1>p1, <1>p2, <1>p3, <1>p4 DEF OpenAllowFails, OneOwner
<1>6. ASSUME NEW t \in Tasks, OpenRecordRule(t) PROVE OneOwner'
    BY <1>6, <1>p1, <1>p2, <1>p3, <1>p4 DEF OpenRecordRule, OneOwner
<1>7. ASSUME NEW t \in Tasks, PersistSnapshot(t) PROVE OneOwner'
    BY <1>7, <1>p1, <1>p2, <1>p3, <1>p4 DEF PersistSnapshot, OneOwner
<1>8. ASSUME NEW t \in Tasks, PersistEnds(t) PROVE OneOwner'
    BY <1>8, <1>p1, <1>p2, <1>p3, <1>p4 DEF PersistEnds, Return, OneOwner
<1>9. ASSUME NEW c \in Clients, NEW id \in Ids, CloseRemove(c, id) PROVE OneOwner'
    BY <1>9, <1>p1, <1>p2, <1>p3, <1>p4 DEF CloseRemove, MayCall, TableChanged,
       OneOwner, Restrict
<1>10. ASSUME NEW t \in Tasks, ShutdownListeners(t) PROVE OneOwner'
    BY <1>10, <1>p1, <1>p2, <1>p3, <1>p4 DEF ShutdownListeners, OneOwner
<1>11. ASSUME NEW t \in Tasks, ShutdownRule(t) PROVE OneOwner'
    BY <1>11, <1>p1, <1>p2, <1>p3, <1>p4 DEF ShutdownRule, AfterShutdown,
       OneOwner
<1>12. ASSUME NEW t \in Tasks, ShutdownRuleFails(t) PROVE OneOwner'
    BY <1>12, <1>p1, <1>p2, <1>p3, <1>p4 DEF ShutdownRuleFails, AfterShutdown,
       OneOwner
<1>13. ASSUME NEW c \in Clients, NEW r \in Renames, RenameVM(c, r[1], r[2])
      PROVE OneOwner'
    BY <1>13, <1>p1, <1>p2, <1>p3, <1>p4 DEF RenameVM, MayCall, TableChanged,
       OneOwner
<1>14. ASSUME StopBegin PROVE OneOwner'
    BY <1>14, <1>p1, <1>p2, <1>p3, <1>p4 DEF StopBegin, TableChanged, OneOwner
<1>15. ASSUME NEW id \in Ids, StopNext(id) PROVE OneOwner'
    BY <1>15, <1>p1, <1>p2, <1>p3, <1>p4 DEF StopNext, OneOwner
<1>16. ASSUME ProcessEnds PROVE OneOwner'
    BY <1>16, <1>p1, <1>p2, <1>p3, <1>p4 DEF ProcessEnds, OneOwner
<1>17. ASSUME Start PROVE OneOwner'
    BY <1>17, <1>p1, <1>p2, <1>p3, <1>p4 DEF Start, OneOwner
<1>18. ASSUME RestoreRead PROVE OneOwner'
    BY <1>18, <1>p1, <1>p2, <1>p3, <1>p4 DEF RestoreRead, OneOwner
<1>19. ASSUME RestoreReadFails PROVE OneOwner'
    BY <1>19, <1>p1, <1>p2, <1>p3, <1>p4 DEF RestoreReadFails, OneOwner
<1>20. ASSUME RestoreRaise PROVE OneOwner'
    BY <1>20, <1>p1, <1>p2, <1>p3, <1>p4 DEF RestoreRaise, OneOwner
<1>21. ASSUME NEW id \in Ids, RestoreNext(id) PROVE OneOwner'
    BY <1>21, <1>p1, <1>p2, <1>p3, <1>p4 DEF RestoreNext, OneOwner
<1>22. ASSUME RestoreDone PROVE OneOwner'
    BY <1>22, <1>p1, <1>p2, <1>p3, <1>p4 DEF RestoreDone, OneOwner
<1>23. ASSUME NEW t \in Tasks, PersistWrite(t) \/ PersistFails(t) PROVE OneOwner'
    BY <1>23, <1>8 DEF PersistWrite, PersistFails
<1>24. CASE StopExit \/ Crash
    BY <1>24, <1>16 DEF StopExit, Crash
<1>25. CASE UNCHANGED vars
    BY <1>25 DEF vars, OneOwner
<1>26. ASSUME NEW o \in ScriptKinds, OrphanActs(o) PROVE OneOwner'
    BY <1>26, <1>p1, <1>p2, <1>p3, <1>p4 DEF OrphanActs, OneOwner
<1>. QED
    BY <1>1, <1>2, <1>3, <1>4, <1>5, <1>6, <1>7, <1>8, <1>9, <1>10, <1>11,
       <1>12, <1>13, <1>14, <1>15, <1>16, <1>17, <1>18, <1>19, <1>20, <1>21,
       <1>22, <1>23, <1>24, <1>25, <1>26 DEF Next, Call, Step, RestoreStep, StopStep

\* Listeners are opened with an entry in the table and closed by its owner.
LEMMA ListenersNext ==
    ASSUME TypeOK, PlacesOK, Issued, OneOwner, ListenersOwned, [Next]_vars
    PROVE  ListenersOwned'
<1>. USE TunnelAssumption
    DEF Goto, Tasks, proc, table, states, loops, local, saved, history, host, marks
<1>p1. /\ pc \in [Tasks -> Places] /\ cur \in [Tasks -> Ids \cup {0}]
       /\ DOMAIN items \subseteq Ids /\ stopIds \subseteq Ids /\ fwRule \subseteq Ids
       /\ nextID \in 1..(MaxID + 1)
    BY DEF TypeOK, TableOK
<1>p2. nextID \in Nat /\ (\A i \in Ids : i \in Nat) /\ \A u \in Tasks : cur[u] \in Nat
    BY <1>p1 DEF Ids
<1>p3. DOMAIN NoTunnels = {}
    BY EmptyTable
<1>p4. /\ \A t \in Tasks : cur[t] < nextID
       /\ pc[Stopper] = "idle" => stopIds = {}
    BY DEF Issued, PlacesOK
<1>1. ASSUME NEW c \in Clients, NEW s \in Offers, OpenCall(c, s)
      PROVE ListenersOwned'
    BY <1>1, <1>p1, <1>p2, <1>p3, <1>p4 DEF OpenCall, MayCall, ListenersOwned
<1>2. ASSUME NEW t \in Tasks, OpenFails(t) PROVE ListenersOwned'
    BY <1>2, <1>p1, <1>p2, <1>p3, <1>p4 DEF OpenFails, Return, ListenersOwned
<1>3. ASSUME NEW t \in Tasks, OpenRegister(t) PROVE ListenersOwned'
    BY <1>3, <1>p1, <1>p2, <1>p3, <1>p4 DEF OpenRegister, NewID, TableChanged,
       ListenersOwned, Ids
<1>4. ASSUME NEW t \in Tasks, OpenAllow(t) PROVE ListenersOwned'
    BY <1>4, <1>p1, <1>p2, <1>p3, <1>p4 DEF OpenAllow, ListenersOwned
<1>5. ASSUME NEW t \in Tasks, OpenAllowFails(t) PROVE ListenersOwned'
    BY <1>5, <1>p1, <1>p2, <1>p3, <1>p4 DEF OpenAllowFails, ListenersOwned
<1>6. ASSUME NEW t \in Tasks, OpenRecordRule(t) PROVE ListenersOwned'
    BY <1>6, <1>p1, <1>p2, <1>p3, <1>p4 DEF OpenRecordRule, ListenersOwned
<1>7. ASSUME NEW t \in Tasks, PersistSnapshot(t) PROVE ListenersOwned'
    BY <1>7, <1>p1, <1>p2, <1>p3, <1>p4 DEF PersistSnapshot, ListenersOwned
<1>8. ASSUME NEW t \in Tasks, PersistEnds(t) PROVE ListenersOwned'
    BY <1>8, <1>p1, <1>p2, <1>p3, <1>p4 DEF PersistEnds, Return, ListenersOwned
<1>9. ASSUME NEW c \in Clients, NEW id \in Ids, CloseRemove(c, id)
      PROVE ListenersOwned'
    BY <1>9, <1>p1, <1>p2, <1>p3, <1>p4 DEF CloseRemove, MayCall, TableChanged,
       ListenersOwned, Restrict, OneOwner
<1>10. ASSUME NEW t \in Tasks, ShutdownListeners(t) PROVE ListenersOwned'
    BY <1>10, <1>p1, <1>p2, <1>p3, <1>p4 DEF ShutdownListeners, ListenersOwned,
       OneOwner
<1>11. ASSUME NEW t \in Tasks, ShutdownRule(t) PROVE ListenersOwned'
    BY <1>11, <1>p1, <1>p2, <1>p3, <1>p4 DEF ShutdownRule, AfterShutdown,
       ListenersOwned
<1>12. ASSUME NEW t \in Tasks, ShutdownRuleFails(t) PROVE ListenersOwned'
    BY <1>12, <1>p1, <1>p2, <1>p3, <1>p4 DEF ShutdownRuleFails, AfterShutdown,
       ListenersOwned
<1>13. ASSUME NEW c \in Clients, NEW r \in Renames, RenameVM(c, r[1], r[2])
      PROVE ListenersOwned'
    BY <1>13, <1>p1, <1>p2, <1>p3, <1>p4 DEF RenameVM, MayCall, TableChanged,
       ListenersOwned
<1>14. ASSUME StopBegin PROVE ListenersOwned'
  <2>1. DOMAIN items' = {} /\ stopIds' = DOMAIN items /\ stopIds = {} /\ listening' = listening
    BY <1>14, <1>p3, <1>p4 DEF StopBegin, states
  <2>2. {u \in Tasks : pc'[u] = "listeners"} 
          = {u \in Tasks : pc[u] = "listeners"}
        /\ cur' = cur
    BY <1>14, <1>p1, <1>p2, <1>p3, <1>p4 DEF StopBegin, TableChanged
  <2>3. ListenersOwned
    BY <1>14, <1>p1, <1>p2, <1>p3, <1>p4 DEF StopBegin, TableChanged,
       ListenersOwned
  <2>. QED
    BY <2>1, <2>2, <2>3 DEF ListenersOwned
<1>15. ASSUME NEW id \in Ids, StopNext(id) PROVE ListenersOwned'
    BY <1>15, <1>p1, <1>p2, <1>p3, <1>p4 DEF StopNext, ListenersOwned, OneOwner
<1>16. ASSUME ProcessEnds PROVE ListenersOwned'
    BY <1>16, <1>p1, <1>p2, <1>p3, <1>p4 DEF ProcessEnds, ListenersOwned
<1>17. ASSUME Start PROVE ListenersOwned'
    BY <1>17, <1>p1, <1>p2, <1>p3, <1>p4 DEF Start, ListenersOwned, PlacesOK
<1>18. ASSUME RestoreRead PROVE ListenersOwned'
    BY <1>18, <1>p1, <1>p2, <1>p3, <1>p4 DEF RestoreRead, ListenersOwned
<1>19. ASSUME RestoreReadFails PROVE ListenersOwned'
    BY <1>19, <1>p1, <1>p2, <1>p3, <1>p4 DEF RestoreReadFails, ListenersOwned
<1>20. ASSUME RestoreRaise PROVE ListenersOwned'
    BY <1>20, <1>p1, <1>p2, <1>p3, <1>p4 DEF RestoreRaise, ListenersOwned
<1>21. ASSUME NEW id \in Ids, RestoreNext(id) PROVE ListenersOwned'
    BY <1>21, <1>p1, <1>p2, <1>p3, <1>p4 DEF RestoreNext, ListenersOwned
<1>22. ASSUME RestoreDone PROVE ListenersOwned'
    BY <1>22, <1>p1, <1>p2, <1>p3, <1>p4 DEF RestoreDone, ListenersOwned
<1>23. ASSUME NEW t \in Tasks, PersistWrite(t) \/ PersistFails(t) PROVE ListenersOwned'
    BY <1>23, <1>8 DEF PersistWrite, PersistFails
<1>24. CASE StopExit \/ Crash
    BY <1>24, <1>16 DEF StopExit, Crash
<1>25. CASE UNCHANGED vars
    BY <1>25 DEF vars, ListenersOwned
<1>26. ASSUME NEW o \in ScriptKinds, OrphanActs(o) PROVE ListenersOwned'
    BY <1>26, <1>p1, <1>p2, <1>p3, <1>p4 DEF OrphanActs, ListenersOwned
<1>. QED
    BY <1>1, <1>2, <1>3, <1>4, <1>5, <1>6, <1>7, <1>8, <1>9, <1>10, <1>11,
       <1>12, <1>13, <1>14, <1>15, <1>16, <1>17, <1>18, <1>19, <1>20, <1>21,
       <1>22, <1>23, <1>24, <1>25, <1>26 DEF Next, Call, Step, RestoreStep, StopStep

\* Saved images are taken from the table, and only empty ones replace them.
LEMMA IdsNext ==
    ASSUME TypeOK, PlacesOK, Issued, IdsBelowNext, [Next]_vars
    PROVE  IdsBelowNext'
<1>. USE TunnelAssumption
    DEF Goto, Tasks, proc, table, states, loops, local, saved, history, host, marks
<1>p1. /\ DOMAIN snap = Tasks /\ TableOK(items) /\ Restorer \in Tasks
    BY DEF TypeOK
<1>p2. /\ DOMAIN NoTunnels = {} /\ EmptyImage.tunnels = NoTunnels
       /\ DOMAIN Image.tunnels \subseteq DOMAIN items /\ Image.next = nextID
    BY EmptyTable, SnapshotOK DEF EmptyImage, AutoIds
<1>p3. \A i \in DOMAIN items' : i < nextID'
    BY IssuedNext DEF Issued
<1>1. ASSUME NEW c \in Clients, NEW s \in Offers, OpenCall(c, s)
      PROVE IdsBelowNext'
    BY <1>1, <1>p1, <1>p2, <1>p3 DEF OpenCall, MayCall, IdsBelowNext
<1>2. ASSUME NEW t \in Tasks, OpenFails(t) PROVE IdsBelowNext'
    BY <1>2, <1>p1, <1>p2, <1>p3 DEF OpenFails, Return, IdsBelowNext
<1>3. ASSUME NEW t \in Tasks, OpenRegister(t) PROVE IdsBelowNext'
    BY <1>3, <1>p1, <1>p2, <1>p3 DEF OpenRegister, NewID, TableChanged,
       IdsBelowNext
<1>4. ASSUME NEW t \in Tasks, OpenAllow(t) PROVE IdsBelowNext'
    BY <1>4, <1>p1, <1>p2, <1>p3 DEF OpenAllow, IdsBelowNext
<1>5. ASSUME NEW t \in Tasks, OpenAllowFails(t) PROVE IdsBelowNext'
    BY <1>5, <1>p1, <1>p2, <1>p3 DEF OpenAllowFails, IdsBelowNext
<1>6. ASSUME NEW t \in Tasks, OpenRecordRule(t) PROVE IdsBelowNext'
    BY <1>6, <1>p1, <1>p2, <1>p3 DEF OpenRecordRule, IdsBelowNext
<1>7. ASSUME NEW t \in Tasks, PersistSnapshot(t) PROVE IdsBelowNext'
    BY <1>7, <1>p1, <1>p2, <1>p3 DEF PersistSnapshot, IdsBelowNext
<1>8. ASSUME NEW t \in Tasks, PersistEnds(t), file' = snap[t] \/ file' = file
      PROVE IdsBelowNext'
    BY <1>8, <1>p1, <1>p2, <1>p3 DEF PersistEnds, Return, IdsBelowNext
<1>9. ASSUME NEW c \in Clients, NEW id \in Ids, CloseRemove(c, id)
      PROVE IdsBelowNext'
    BY <1>9, <1>p1, <1>p2, <1>p3 DEF CloseRemove, MayCall, TableChanged,
       IdsBelowNext
<1>10. ASSUME NEW t \in Tasks, ShutdownListeners(t) PROVE IdsBelowNext'
    BY <1>10, <1>p1, <1>p2, <1>p3 DEF ShutdownListeners, IdsBelowNext
<1>11. ASSUME NEW t \in Tasks, ShutdownRule(t) PROVE IdsBelowNext'
    BY <1>11, <1>p1, <1>p2, <1>p3 DEF ShutdownRule, AfterShutdown, IdsBelowNext
<1>12. ASSUME NEW t \in Tasks, ShutdownRuleFails(t) PROVE IdsBelowNext'
    BY <1>12, <1>p1, <1>p2, <1>p3 DEF ShutdownRuleFails, AfterShutdown,
       IdsBelowNext
<1>13. ASSUME NEW c \in Clients, NEW r \in Renames, RenameVM(c, r[1], r[2])
      PROVE IdsBelowNext'
    BY <1>13, <1>p1, <1>p2, <1>p3 DEF RenameVM, MayCall, TableChanged,
       IdsBelowNext
<1>14. ASSUME StopBegin PROVE IdsBelowNext'
    BY <1>14, <1>p1, <1>p2, <1>p3 DEF StopBegin, TableChanged, IdsBelowNext
<1>15. ASSUME NEW id \in Ids, StopNext(id) PROVE IdsBelowNext'
    BY <1>15, <1>p1, <1>p2, <1>p3 DEF StopNext, IdsBelowNext
<1>16. ASSUME ProcessEnds PROVE IdsBelowNext'
    BY <1>16, <1>p1, <1>p2, <1>p3 DEF ProcessEnds, IdsBelowNext
<1>17. ASSUME Start PROVE IdsBelowNext'
    BY <1>17, <1>p1, <1>p2, <1>p3 DEF Start, IdsBelowNext
<1>18. ASSUME RestoreRead PROVE IdsBelowNext'
    BY <1>18, <1>p1, <1>p2, <1>p3 DEF RestoreRead, IdsBelowNext
<1>19. ASSUME RestoreReadFails PROVE IdsBelowNext'
    BY <1>19, <1>p1, <1>p2, <1>p3 DEF RestoreReadFails, IdsBelowNext
<1>20. ASSUME RestoreRaise PROVE IdsBelowNext'
    BY <1>20, <1>p1, <1>p2, <1>p3 DEF RestoreRaise, IdsBelowNext
<1>21. ASSUME NEW id \in Ids, RestoreNext(id) PROVE IdsBelowNext'
    BY <1>21, <1>p1, <1>p2, <1>p3 DEF RestoreNext, IdsBelowNext
<1>22. ASSUME RestoreDone PROVE IdsBelowNext'
    BY <1>22, <1>p1, <1>p2, <1>p3 DEF RestoreDone, IdsBelowNext
<1>23. ASSUME NEW t \in Tasks, PersistWrite(t) \/ PersistFails(t) PROVE IdsBelowNext'
    BY <1>23, <1>8 DEF PersistWrite, PersistFails
<1>24. CASE StopExit \/ Crash
    BY <1>24, <1>16 DEF StopExit, Crash
<1>25. CASE UNCHANGED vars
    BY <1>25 DEF vars, IdsBelowNext
<1>26. ASSUME NEW o \in ScriptKinds, OrphanActs(o) PROVE IdsBelowNext'
    BY <1>26, <1>p1, <1>p2, <1>p3 DEF OrphanActs, IdsBelowNext
<1>. QED
    BY <1>1, <1>2, <1>3, <1>4, <1>5, <1>6, <1>7, <1>8, <1>9, <1>10, <1>11,
       <1>12, <1>13, <1>14, <1>15, <1>16, <1>17, <1>18, <1>19, <1>20, <1>21,
       <1>22, <1>23, <1>24, <1>25, <1>26 DEF Next, Call, Step, RestoreStep, StopStep

\* A table that is saved agrees with itself.
LEMMA ImageAgrees ==
    ASSUME TypeOK, \A i \in DOMAIN items : i < nextID
    PROVE  Agrees(Image)
<1>1. DOMAIN Image.tunnels = AutoIds /\ AutoIds \subseteq DOMAIN items
    BY SnapshotOK DEF AutoIds
<1>2. \A i \in AutoIds : Image.tunnels[i] = items[i]
    BY <1>1 DEF Image, Restrict
<1>. QED
    BY <1>1, <1>2 DEF Agrees

\* A step keeps ReuseOK if it leaves the file and what has been decided about
\* the start, removes ids from the table or renames what they lead to, and
\* takes its snapshots from the table.
LEMMA ReuseKept ==
    ASSUME ReuseOK, up, up', preempted' = preempted,
           Unraised' = Unraised, Unraised /\ ~preempted => Untouched',
           nextID' \in Int, nextID \in Int, nextID' >= nextID, TypeOK,
           DOMAIN items' \subseteq DOMAIN items,
           \A i \in DOMAIN items' : items'[i].key = items[i].key,
           ~Unraised => \A m \in Images' : m \in Images \/ Agrees(m)'
    PROVE  ReuseOK'
<1>1. ASSUME NEW m \in Images, Agrees(m), ImageOK(m) PROVE Agrees(m)'
  <2>1. \A i \in DOMAIN m.tunnels : i \in Int
    BY <1>1 DEF ImageOK, TableOK, Ids
  <2>. QED
    BY <1>1, <2>1 DEF Agrees
<1>2. \A m \in Images : ImageOK(m)
    BY DEF Images, TypeOK
<1>. QED
    BY <1>1, <1>2 DEF ReuseOK

\* An id that was used with the file's next_id in hand stays that tunnel's.
LEMMA ReuseNext ==
    ASSUME TypeOK, PlacesOK, IdsBelowNext, ReuseOK, [Next]_vars
    PROVE  ReuseOK'
<1>. USE TunnelAssumption
    DEF Goto, Tasks, proc, table, states, loops, local, saved, history, host, marks
<1>p1. /\ pc \in [Tasks -> Places] /\ DOMAIN snap = Tasks /\ nextID \in Int
       /\ DOMAIN items \subseteq Ids
    BY DEF TypeOK, TableOK
<1>p2. DOMAIN EmptyImage.tunnels = {} /\ DOMAIN NoTunnels = {}
    BY EmptyTable DEF EmptyImage
<1>p3. \A t \in Tasks : pc[t] # "idle" => up
    BY DEF PlacesOK
<1>p4. /\ pc[Stopper] \in {"idle", "loop", "listeners", "rule"}
       /\ \A t \in Tasks : pc[t] = "loop" => t \in {Restorer, Stopper}
       /\ pc[Restorer] \notin {"listeners", "rule"}
    BY DEF PlacesOK
<1>1. ASSUME UNCHANGED <<up, items, nextID, file, snap, preempted>>, up,
             Unraised' = Unraised, Unraised /\ ~preempted => Untouched'
      PROVE  ReuseOK'
  <2>1. Images' = Images
    BY <1>1 DEF Images
  <2>. QED
    BY <1>1, <1>p1, <2>1, ReuseKept
<1>2. ASSUME NEW c \in Clients, NEW s \in Offers, OpenCall(c, s) PROVE ReuseOK'
  <2>1. Unraised' = Unraised /\ up
    BY <1>2, <1>p1 DEF OpenCall, MayCall, Unraised
  <2>2. Unraised /\ ~preempted => Untouched'
    BY <1>2, <1>p1, <2>1 DEF OpenCall, ReuseOK, Untouched
  <2>. QED
    BY <1>1, <1>2, <2>1, <2>2 DEF OpenCall
<1>3. ASSUME NEW t \in Tasks, OpenFails(t) PROVE ReuseOK'
  <2>1. Unraised' = Unraised /\ up
    BY <1>3, <1>p1, <1>p3 DEF OpenFails, Return, Unraised
  <2>2. Unraised /\ ~preempted => Untouched'
    BY <1>3, <1>p1, <2>1 DEF OpenFails, Return, ReuseOK, Untouched, Unraised
  <2>. QED
    BY <1>1, <1>3, <2>1, <2>2 DEF OpenFails
<1>4. ASSUME NEW t \in Tasks,
             OpenAllow(t) \/ OpenAllowFails(t) \/ OpenRecordRule(t)
                 \/ ShutdownListeners(t) \/ ShutdownRule(t) \/ ShutdownRuleFails(t)
      PROVE  ReuseOK'
  <2>1. pc[t] \in {"allow", "record", "listeners", "rule"}
    BY <1>4 DEF OpenAllow, OpenAllowFails, OpenRecordRule, ShutdownListeners, ShutdownRule,
       ShutdownRuleFails
  <2>2. \A u \in Tasks \ {t} : pc'[u] = pc[u]
    BY <1>4, <1>p1 DEF OpenAllow, OpenAllowFails, OpenRecordRule, ShutdownListeners, ShutdownRule,
       ShutdownRuleFails
  <2>3. pc'[t] \in {"record", "snapshot", "rule", "loop"}
    BY <1>4, <1>p1 DEF OpenAllow, OpenAllowFails, OpenRecordRule, ShutdownListeners, ShutdownRule,
       ShutdownRuleFails, AfterShutdown
  <2>4. UNCHANGED <<up, items, nextID, file, snap, preempted>>
    BY <1>4 DEF OpenAllow, OpenAllowFails, OpenRecordRule, ShutdownListeners, ShutdownRule,
       ShutdownRuleFails
  <2>5. up /\ Unraised' = Unraised /\ ~(Unraised /\ ~preempted)
    BY <1>p3, <2>1, <2>2, <2>3 DEF Unraised, ReuseOK, Untouched
  <2>. QED
    BY <1>1, <2>4, <2>5
<1>5. ASSUME NEW t \in Tasks, OpenRegister(t) PROVE ReuseOK'
  <2>1. /\ UNCHANGED <<up, file, snap>> /\ up /\ nextID' = nextID + 1
        /\ preempted' = (preempted \/ Unraised)
        /\ pc'[t] \in {"allow", "snapshot"} /\ pc[t] = "register"
        /\ \A u \in Tasks \ {t} : pc'[u] = pc[u]
    BY <1>5, <1>p1, <1>p3 DEF OpenRegister, NewID, TableChanged, Unraised
  <2>2. \A i \in DOMAIN items' : i = nextID \/ (i \in DOMAIN items /\ items'[i] = items[i])
    BY <1>5 DEF OpenRegister, NewID
  <2>3. ASSUME ~preempted, ~Unraised, NEW m \in Images PROVE Agrees(m)'
    <3>1. Agrees(m)
      BY <2>1, <2>3 DEF ReuseOK
    <3>2. ImageOK(m)
      BY <2>3 DEF Images, TypeOK
    <3>3. \A i \in DOMAIN m.tunnels : i \in Int
      BY <3>2 DEF ImageOK, TableOK, Ids
    <3>. QED
      BY <1>p1, <2>1, <2>2, <3>1, <3>3 DEF Agrees
  <2>4. Images' = Images
    BY <2>1 DEF Images
  <2>. QED
    BY <2>1, <2>3, <2>4 DEF ReuseOK, Unraised
<1>6. ASSUME NEW t \in Tasks, PersistSnapshot(t) PROVE ReuseOK'
  <2>1. /\ UNCHANGED <<up, items, nextID, file, preempted>> /\ up
        /\ pc[t] = "snapshot" /\ Unraised' = Unraised
    BY <1>6, <1>p1, <1>p3 DEF PersistSnapshot, Unraised
  <2>2. ~(Unraised /\ ~preempted)
    BY <2>1 DEF ReuseOK, Untouched, Unraised
  <2>3. Agrees(Image)'
    <3>1. Agrees(Image)
      BY ImageAgrees DEF IdsBelowNext
    <3>2. Image' = Image
      BY <2>1 DEF Image, AutoIds
    <3>. QED
      BY <2>1, <3>1, <3>2 DEF Agrees
  <2>4. \A m \in Images' : m \in Images \/ Agrees(m)'
    <3>1. Image' = Image
      BY <2>1 DEF Image, AutoIds
    <3>2. \A u \in Tasks : snap'[u] = Image \/ snap'[u] = snap[u]
      BY <1>6, <1>p1 DEF PersistSnapshot
    <3>. QED
      BY <2>1, <2>3, <3>1, <3>2 DEF Images
  <2>. QED
    BY <1>p1, <2>1, <2>2, <2>4, ReuseKept
<1>7. ASSUME NEW t \in Tasks, PersistWrite(t) \/ PersistFails(t) PROVE ReuseOK'
  <2>1. /\ UNCHANGED <<up, items, nextID, preempted>> /\ up
        /\ pc[t] = "write" /\ Unraised' = Unraised
    BY <1>7, <1>p1, <1>p3 DEF PersistWrite, PersistFails, PersistEnds, Return, Unraised
  <2>2. ~(Unraised /\ ~preempted)
    BY <2>1 DEF ReuseOK, Untouched, Unraised
  <2>3. /\ file' \in {file, snap[t]}
        /\ \A u \in Tasks : snap'[u] = snap[u] \/ snap'[u] = EmptyImage
    BY <1>7, <1>p1 DEF PersistWrite, PersistFails, PersistEnds
  <2>4. \A m \in Images' : m \in Images \/ m = EmptyImage
    BY <2>3 DEF Images
  <2>5. \A m \in Images' : m \in Images \/ Agrees(m)'
    BY <1>p2, <2>4 DEF Agrees
  <2>. QED
    BY <1>p1, <2>1, <2>2, <2>5, ReuseKept
<1>8. ASSUME NEW c \in Clients, NEW id \in Ids, CloseRemove(c, id) PROVE ReuseOK'
  <2>1. /\ UNCHANGED <<up, nextID, file, snap, preempted>> /\ up /\ Unraised' = Unraised
        /\ id \in DOMAIN items
    BY <1>8, <1>p1 DEF CloseRemove, MayCall, Unraised
  <2>2. DOMAIN items' \subseteq DOMAIN items /\ \A i \in DOMAIN items' : items'[i] = items[i]
    BY <1>8 DEF CloseRemove, Restrict
  <2>3. Images' = Images /\ ~(Unraised /\ ~preempted)
    BY <2>1 DEF Images, ReuseOK, Untouched
  <2>. QED
    BY <1>p1, <2>1, <2>2, <2>3, ReuseKept
<1>9. ASSUME NEW c \in Clients, NEW r \in Renames, RenameVM(c, r[1], r[2]) PROVE ReuseOK'
  <2>1. /\ UNCHANGED <<up, nextID, file, snap, preempted>> /\ up /\ Unraised' = Unraised
        /\ DOMAIN items # {}
    BY <1>9, <1>p1 DEF RenameVM, MayCall, Unraised
  <2>2. DOMAIN items' = DOMAIN items /\ \A i \in DOMAIN items' : items'[i].key = items[i].key
    <3>1. \A i \in DOMAIN items : items[i] \in TunnelSpec
      BY DEF TypeOK, TableOK
    <3>. QED
      BY <1>9, <3>1 DEF RenameVM, TunnelSpec
  <2>3. Images' = Images /\ ~(Unraised /\ ~preempted)
    BY <2>1 DEF Images, ReuseOK, Untouched
  <2>. QED
    BY <1>p1, <2>1, <2>2, <2>3, ReuseKept
<1>10. ASSUME StopBegin PROVE ReuseOK'
  <2>1. /\ UNCHANGED <<up, nextID, file, snap, preempted>> /\ up /\ Unraised' = Unraised
        /\ DOMAIN items' = {} /\ stopIds' = DOMAIN items
        /\ pc'[Stopper] = "loop" /\ \A u \in Tasks \ {Stopper} : pc'[u] = pc[u]
    BY <1>10, <1>p1, <1>p2 DEF StopBegin, Unraised
  <2>2. Unraised /\ ~preempted => Untouched'
    BY <2>1 DEF ReuseOK, Untouched
  <2>3. Images' = Images
    BY <2>1 DEF Images
  <2>. QED
    BY <1>p1, <2>1, <2>2, <2>3, ReuseKept
<1>11. ASSUME NEW id \in Ids, StopNext(id) PROVE ReuseOK'
  <2>1. /\ UNCHANGED <<up, items, nextID, file, snap, preempted>> /\ up /\ Unraised' = Unraised
        /\ id \in stopIds
    BY <1>11, <1>p1, <1>p3 DEF StopNext, Unraised
  <2>2. ~(Unraised /\ ~preempted)
    BY <2>1 DEF ReuseOK, Untouched
  <2>. QED
    BY <1>1, <2>1, <2>2
<1>12. CASE StopExit \/ Crash
  <2>1. ~up' /\ DOMAIN items' = {} /\ \A u \in Tasks : snap'[u] = EmptyImage
    BY <1>12, <1>p2 DEF StopExit, Crash, ProcessEnds
  <2>. QED
    BY <1>p2, <2>1 DEF ReuseOK
<1>13. CASE Start
  <2>1. /\ UNCHANGED <<items, snap, stopIds, file>> /\ ~up /\ up' /\ pc'[Restorer] = "read"
        /\ \A u \in Tasks \ {Restorer} : pc'[u] = pc[u]
    BY <1>13, <1>p1 DEF Start
  <2>2. stopIds = {} /\ \A u \in Tasks : pc[u] = "idle"
    BY <2>1 DEF PlacesOK
  <2>3. Untouched'
    BY <2>1, <2>2 DEF Untouched, ReuseOK
  <2>. QED
    BY <2>1, <2>3 DEF ReuseOK, Unraised
<1>14. CASE RestoreRead
  <2>1. /\ UNCHANGED <<up, items, nextID, file, preempted, stopIds>> /\ up
        /\ Unraised /\ Unraised' /\ pc'[Restorer] = "raise" /\ snap'[Restorer] = file
        /\ \A u \in Tasks \ {Restorer} : pc'[u] = pc[u] /\ snap'[u] = snap[u]
    BY <1>14, <1>p1, <1>p3 DEF RestoreRead, Unraised
  <2>. QED
    BY <2>1 DEF ReuseOK, Untouched
<1>15. CASE RestoreReadFails
  <2>1. preempted' /\ up'
    BY <1>15, <1>p3 DEF RestoreReadFails
  <2>. QED
    BY <2>1 DEF ReuseOK
<1>16. CASE RestoreRaise
  <2>1. /\ UNCHANGED <<up, items, file, preempted>> /\ up /\ Unraised /\ ~Unraised'
        /\ nextID' >= snap[Restorer].next /\ snap'[Restorer] = EmptyImage
        /\ \A u \in Tasks \ {Restorer} : snap'[u] = snap[u]
    <3>1. ImageOK(snap[Restorer])
      BY DEF TypeOK
    <3>2. snap[Restorer].next \in Int
      BY <3>1 DEF ImageOK
    <3>. QED
      BY <1>16, <1>p1, <1>p3, <3>2 DEF RestoreRaise, Unraised
  <2>2. ASSUME ~preempted, NEW m \in Images' PROVE Agrees(m)'
    <3>1. Untouched /\ snap[Restorer] = file
      BY <1>16, <2>1, <2>2 DEF ReuseOK, Untouched, RestoreRaise
    <3>2. m = file \/ DOMAIN m.tunnels = {}
      BY <1>p2, <2>1, <3>1 DEF Images, Untouched
    <3>3. \A i \in DOMAIN file.tunnels : i < file.next
      BY DEF IdsBelowNext
    <3>4. nextID' \in Int /\ file.next \in Int /\ \A i \in DOMAIN file.tunnels : i \in Int
      BY <1>16, <1>p1, <3>1 DEF RestoreRaise, TypeOK, ImageOK, TableOK, Ids
    <3>5. DOMAIN items' = {}
      BY <2>1, <3>1 DEF Untouched
    <3>. QED
      BY <2>1, <3>1, <3>2, <3>3, <3>4, <3>5 DEF Agrees
  <2>. QED
    BY <2>1, <2>2 DEF ReuseOK
<1>17. ASSUME RestoreDone \/ \E id \in Ids : RestoreNext(id) PROVE ReuseOK'
  <2>1. UNCHANGED <<up, items, nextID, file, snap, preempted>>
    BY <1>17 DEF RestoreDone, RestoreNext
  <2>2. pc[Restorer] = "loop"
    BY <1>17 DEF RestoreDone, RestoreNext
  <2>3. pc'[Restorer] \in {"idle", "register"}
    BY <1>17, <1>p1 DEF RestoreDone, RestoreNext
  <2>4. up /\ ~Unraised /\ ~Unraised'
    BY <1>p3, <2>2, <2>3 DEF Unraised
  <2>. QED
    BY <1>1, <2>1, <2>4 DEF Unraised
<1>18. ASSUME NEW o \in ScriptKinds, OrphanActs(o) PROVE ReuseOK'
  <2>1. UNCHANGED <<up, items, nextID, file, snap, preempted, pc, stopIds>>
    BY <1>18 DEF OrphanActs
  <2>. QED
    BY <2>1 DEF ReuseOK, Untouched, Unraised, Images, Agrees
<1>19. CASE UNCHANGED vars
    BY <1>19 DEF vars, ReuseOK, Untouched, Unraised, Images, Agrees
<1>. QED
    BY <1>2, <1>3, <1>4, <1>5, <1>6, <1>7, <1>8, <1>9, <1>10, <1>11, <1>12, <1>13, <1>14, <1>15,
       <1>16, <1>17, <1>18, <1>19 DEF Next, Call, Step, RestoreStep, StopStep

\* An Open that is busy with its rule keeps what it relies on.
LEMMA OpenNext ==
    ASSUME TypeOK, PlacesOK, Issued, OneOwner, OpenOK, [Next]_vars
    PROVE  OpenOK'
<1>. USE TunnelAssumption
    DEF Goto, Tasks, proc, table, states, loops, local, saved, history, host, marks
<1>p1. /\ pc \in [Tasks -> Places] /\ cur \in [Tasks -> Ids \cup {0}]
       /\ DOMAIN items \subseteq Ids /\ stopIds \subseteq Ids /\ fwRule \subseteq Ids
       /\ firewall \subseteq Ids /\ excused \subseteq Ids
    BY DEF TypeOK, TableOK
<1>p2. DOMAIN NoTunnels = {}
    BY EmptyTable
<1>p3. /\ nextID \notin DOMAIN items \cup stopIds \cup fwRule
       /\ \A t \in Tasks : cur[t] # nextID
    BY FreshID
<1>1. ASSUME NEW c \in Clients, NEW s \in Offers, OpenCall(c, s) PROVE OpenOK'
    BY <1>1, <1>p1, <1>p2, <1>p3 DEF OpenCall, MayCall, OpenOK
<1>2. ASSUME NEW t \in Tasks, OpenFails(t) PROVE OpenOK'
    BY <1>2, <1>p1, <1>p2, <1>p3 DEF OpenFails, Return, OpenOK
<1>3. ASSUME NEW t \in Tasks, OpenRegister(t) PROVE OpenOK'
    BY <1>3, <1>p1, <1>p2, <1>p3 DEF OpenRegister, NewID, TableChanged, OpenOK
<1>4. ASSUME NEW t \in Tasks, OpenAllow(t) PROVE OpenOK'
    BY <1>4, <1>p1, <1>p2, <1>p3 DEF OpenAllow, OpenOK, OneOwner
<1>5. ASSUME NEW t \in Tasks, OpenAllowFails(t) PROVE OpenOK'
    BY <1>5, <1>p1, <1>p2, <1>p3 DEF OpenAllowFails, OpenOK, OneOwner
<1>6. ASSUME NEW t \in Tasks, OpenRecordRule(t) PROVE OpenOK'
    BY <1>6, <1>p1, <1>p2, <1>p3 DEF OpenRecordRule, OpenOK, OneOwner
<1>7. ASSUME NEW t \in Tasks, PersistSnapshot(t) PROVE OpenOK'
    BY <1>7, <1>p1, <1>p2, <1>p3 DEF PersistSnapshot, OpenOK
<1>8. ASSUME NEW t \in Tasks, PersistEnds(t) PROVE OpenOK'
    BY <1>8, <1>p1, <1>p2, <1>p3 DEF PersistEnds, Return, OpenOK
<1>9. ASSUME NEW c \in Clients, NEW id \in Ids, CloseRemove(c, id) PROVE OpenOK'
    BY <1>9, <1>p1, <1>p2, <1>p3 DEF CloseRemove, MayCall, TableChanged,
       OpenOK, Opening, Restrict
<1>10. ASSUME NEW t \in Tasks, ShutdownListeners(t) PROVE OpenOK'
    BY <1>10, <1>p1, <1>p2, <1>p3 DEF ShutdownListeners, OpenOK
<1>11. ASSUME NEW t \in Tasks, ShutdownRule(t) PROVE OpenOK'
    BY <1>11, <1>p1, <1>p2, <1>p3 DEF ShutdownRule, AfterShutdown, OpenOK,
       OneOwner, HasRule
<1>12. ASSUME NEW t \in Tasks, ShutdownRuleFails(t) PROVE OpenOK'
    BY <1>12, <1>p1, <1>p2, <1>p3 DEF ShutdownRuleFails, AfterShutdown, OpenOK,
       OneOwner, HasRule
<1>13. ASSUME NEW c \in Clients, NEW r \in Renames, RenameVM(c, r[1], r[2])
      PROVE OpenOK'
    BY <1>13, <1>p1, <1>p2, <1>p3 DEF RenameVM, MayCall, TableChanged, OpenOK
<1>14. ASSUME StopBegin PROVE OpenOK'
    BY <1>14, <1>p1, <1>p2, <1>p3 DEF StopBegin, TableChanged, OpenOK, Opening,
       PlacesOK
<1>15. ASSUME NEW id \in Ids, StopNext(id) PROVE OpenOK'
    BY <1>15, <1>p1, <1>p2, <1>p3 DEF StopNext, OpenOK
<1>16. ASSUME ProcessEnds PROVE OpenOK'
    BY <1>16, <1>p1, <1>p2, <1>p3 DEF ProcessEnds, OpenOK
<1>17. ASSUME Start PROVE OpenOK'
    BY <1>17, <1>p1, <1>p2, <1>p3 DEF Start, OpenOK
<1>18. ASSUME RestoreRead PROVE OpenOK'
    BY <1>18, <1>p1, <1>p2, <1>p3 DEF RestoreRead, OpenOK
<1>19. ASSUME RestoreReadFails PROVE OpenOK'
    BY <1>19, <1>p1, <1>p2, <1>p3 DEF RestoreReadFails, OpenOK
<1>20. ASSUME RestoreRaise PROVE OpenOK'
    BY <1>20, <1>p1, <1>p2, <1>p3 DEF RestoreRaise, OpenOK
<1>21. ASSUME NEW id \in Ids, RestoreNext(id) PROVE OpenOK'
    BY <1>21, <1>p1, <1>p2, <1>p3 DEF RestoreNext, OpenOK
<1>22. ASSUME RestoreDone PROVE OpenOK'
    BY <1>22, <1>p1, <1>p2, <1>p3 DEF RestoreDone, OpenOK
<1>23. ASSUME NEW t \in Tasks, PersistWrite(t) \/ PersistFails(t) PROVE OpenOK'
    BY <1>23, <1>8 DEF PersistWrite, PersistFails
<1>24. CASE StopExit \/ Crash
    BY <1>24, <1>16 DEF StopExit, Crash
<1>25. CASE UNCHANGED vars
    BY <1>25 DEF vars, OpenOK
<1>26. ASSUME NEW o \in ScriptKinds, OrphanActs(o) PROVE OpenOK'
    BY <1>26, <1>p1, <1>p2, <1>p3 DEF OrphanActs, OpenOK
<1>. QED
    BY <1>1, <1>2, <1>3, <1>4, <1>5, <1>6, <1>7, <1>8, <1>9, <1>10, <1>11,
       <1>12, <1>13, <1>14, <1>15, <1>16, <1>17, <1>18, <1>19, <1>20, <1>21,
       <1>22, <1>23, <1>24, <1>25, <1>26 DEF Next, Call, Step, RestoreStep, StopStep

\* A rule the table reports is on the host.
LEMMA ReportedNext ==
    ASSUME TypeOK, PlacesOK, Issued, OneOwner, OpenOK, ReportedRuleExists,
           [Next]_vars
    PROVE  ReportedRuleExists'
<1>. USE TunnelAssumption
    DEF Goto, Tasks, proc, table, states, loops, local, saved, history, host, marks
<1>p1. /\ pc \in [Tasks -> Places] /\ cur \in [Tasks -> Ids \cup {0}]
       /\ DOMAIN items \subseteq Ids /\ stopIds \subseteq Ids /\ fwRule \subseteq Ids
       /\ firewall \subseteq Ids /\ excused \subseteq Ids
    BY DEF TypeOK, TableOK
<1>p2. DOMAIN NoTunnels = {}
    BY EmptyTable
<1>p3. /\ nextID \notin DOMAIN items \cup stopIds \cup fwRule
       /\ \A t \in Tasks : cur[t] # nextID
    BY FreshID
<1>1. ASSUME NEW c \in Clients, NEW s \in Offers, OpenCall(c, s)
      PROVE ReportedRuleExists'
    BY <1>1, <1>p1, <1>p2, <1>p3 DEF OpenCall, MayCall, ReportedRuleExists
<1>2. ASSUME NEW t \in Tasks, OpenFails(t) PROVE ReportedRuleExists'
    BY <1>2, <1>p1, <1>p2, <1>p3 DEF OpenFails, Return, ReportedRuleExists
<1>3. ASSUME NEW t \in Tasks, OpenRegister(t) PROVE ReportedRuleExists'
    BY <1>3, <1>p1, <1>p2, <1>p3 DEF OpenRegister, NewID, TableChanged,
       ReportedRuleExists
<1>4. ASSUME NEW t \in Tasks, OpenAllow(t) PROVE ReportedRuleExists'
    BY <1>4, <1>p1, <1>p2, <1>p3 DEF OpenAllow, ReportedRuleExists
<1>5. ASSUME NEW t \in Tasks, OpenAllowFails(t) PROVE ReportedRuleExists'
    BY <1>5, <1>p1, <1>p2, <1>p3 DEF OpenAllowFails, ReportedRuleExists, OpenOK
<1>6. ASSUME NEW t \in Tasks, OpenRecordRule(t) PROVE ReportedRuleExists'
    BY <1>6, <1>p1, <1>p2, <1>p3 DEF OpenRecordRule, ReportedRuleExists, OpenOK
<1>7. ASSUME NEW t \in Tasks, PersistSnapshot(t) PROVE ReportedRuleExists'
    BY <1>7, <1>p1, <1>p2, <1>p3 DEF PersistSnapshot, ReportedRuleExists
<1>8. ASSUME NEW t \in Tasks, PersistEnds(t) PROVE ReportedRuleExists'
    BY <1>8, <1>p1, <1>p2, <1>p3 DEF PersistEnds, Return, ReportedRuleExists
<1>9. ASSUME NEW c \in Clients, NEW id \in Ids, CloseRemove(c, id)
      PROVE ReportedRuleExists'
    BY <1>9, <1>p1, <1>p2, <1>p3 DEF CloseRemove, MayCall, TableChanged,
       ReportedRuleExists, Restrict
<1>10. ASSUME NEW t \in Tasks, ShutdownListeners(t) PROVE ReportedRuleExists'
    BY <1>10, <1>p1, <1>p2, <1>p3 DEF ShutdownListeners, ReportedRuleExists
<1>11. ASSUME NEW t \in Tasks, ShutdownRule(t) PROVE ReportedRuleExists'
    BY <1>11, <1>p1, <1>p2, <1>p3 DEF ShutdownRule, AfterShutdown,
       ReportedRuleExists, OneOwner, HasRule
<1>12. ASSUME NEW t \in Tasks, ShutdownRuleFails(t) PROVE ReportedRuleExists'
    BY <1>12, <1>p1, <1>p2, <1>p3 DEF ShutdownRuleFails, AfterShutdown,
       ReportedRuleExists
<1>13. ASSUME NEW c \in Clients, NEW r \in Renames, RenameVM(c, r[1], r[2])
      PROVE ReportedRuleExists'
    BY <1>13, <1>p1, <1>p2, <1>p3 DEF RenameVM, MayCall, TableChanged,
       ReportedRuleExists
<1>14. ASSUME StopBegin PROVE ReportedRuleExists'
    BY <1>14, <1>p1, <1>p2, <1>p3 DEF StopBegin, TableChanged,
       ReportedRuleExists
<1>15. ASSUME NEW id \in Ids, StopNext(id) PROVE ReportedRuleExists'
    BY <1>15, <1>p1, <1>p2, <1>p3 DEF StopNext, ReportedRuleExists
<1>16. ASSUME ProcessEnds PROVE ReportedRuleExists'
    BY <1>16, <1>p1, <1>p2, <1>p3 DEF ProcessEnds, ReportedRuleExists
<1>17. ASSUME Start PROVE ReportedRuleExists'
    BY <1>17, <1>p1, <1>p2, <1>p3 DEF Start, ReportedRuleExists
<1>18. ASSUME RestoreRead PROVE ReportedRuleExists'
    BY <1>18, <1>p1, <1>p2, <1>p3 DEF RestoreRead, ReportedRuleExists
<1>19. ASSUME RestoreReadFails PROVE ReportedRuleExists'
    BY <1>19, <1>p1, <1>p2, <1>p3 DEF RestoreReadFails, ReportedRuleExists
<1>20. ASSUME RestoreRaise PROVE ReportedRuleExists'
    BY <1>20, <1>p1, <1>p2, <1>p3 DEF RestoreRaise, ReportedRuleExists
<1>21. ASSUME NEW id \in Ids, RestoreNext(id) PROVE ReportedRuleExists'
    BY <1>21, <1>p1, <1>p2, <1>p3 DEF RestoreNext, ReportedRuleExists
<1>22. ASSUME RestoreDone PROVE ReportedRuleExists'
    BY <1>22, <1>p1, <1>p2, <1>p3 DEF RestoreDone, ReportedRuleExists
<1>23. ASSUME NEW t \in Tasks, PersistWrite(t) \/ PersistFails(t) PROVE ReportedRuleExists'
    BY <1>23, <1>8 DEF PersistWrite, PersistFails
<1>24. CASE StopExit \/ Crash
    BY <1>24, <1>16 DEF StopExit, Crash
<1>25. CASE UNCHANGED vars
    BY <1>25 DEF vars, ReportedRuleExists
<1>26. ASSUME NEW o \in ScriptKinds, OrphanActs(o) PROVE ReportedRuleExists'
    BY <1>26, <1>p1, <1>p2, <1>p3 DEF OrphanActs, ReportedRuleExists
<1>. QED
    BY <1>1, <1>2, <1>3, <1>4, <1>5, <1>6, <1>7, <1>8, <1>9, <1>10, <1>11,
       <1>12, <1>13, <1>14, <1>15, <1>16, <1>17, <1>18, <1>19, <1>20, <1>21,
       <1>22, <1>23, <1>24, <1>25, <1>26 DEF Next, Call, Step, RestoreStep, StopStep

\* A rule on the host has an owner or an excuse.
LEMMA RulesNext ==
    ASSUME TypeOK, PlacesOK, Issued, OneOwner, OpenOK, RulesAccountedFor,
           [Next]_vars
    PROVE  RulesAccountedFor'
<1>. USE TunnelAssumption
    DEF Goto, Tasks, proc, table, states, loops, local, saved, history, host, marks
<1>p1. /\ pc \in [Tasks -> Places] /\ cur \in [Tasks -> Ids \cup {0}]
       /\ DOMAIN items \subseteq Ids /\ stopIds \subseteq Ids /\ fwRule \subseteq Ids
       /\ firewall \subseteq Ids /\ excused \subseteq Ids
    BY DEF TypeOK, TableOK
<1>p2. DOMAIN NoTunnels = {}
    BY EmptyTable
<1>1. ASSUME NEW c \in Clients, NEW s \in Offers, OpenCall(c, s)
      PROVE RulesAccountedFor'
    BY <1>1, <1>p1, <1>p2 DEF OpenCall, MayCall, RulesAccountedFor
<1>2. ASSUME NEW t \in Tasks, OpenFails(t) PROVE RulesAccountedFor'
    BY <1>2, <1>p1, <1>p2 DEF OpenFails, Return, RulesAccountedFor
<1>3. ASSUME NEW t \in Tasks, OpenRegister(t) PROVE RulesAccountedFor'
    BY <1>3, <1>p1, <1>p2 DEF OpenRegister, NewID, TableChanged,
       RulesAccountedFor
<1>4. ASSUME NEW t \in Tasks, OpenAllow(t) PROVE RulesAccountedFor'
    BY <1>4, <1>p1, <1>p2 DEF OpenAllow, RulesAccountedFor
<1>5. ASSUME NEW t \in Tasks, OpenAllowFails(t) PROVE RulesAccountedFor'
    BY <1>5, <1>p1, <1>p2 DEF OpenAllowFails, RulesAccountedFor
<1>6. ASSUME NEW t \in Tasks, OpenRecordRule(t) PROVE RulesAccountedFor'
    BY <1>6, <1>p1, <1>p2 DEF OpenRecordRule, RulesAccountedFor, OpenOK
<1>7. ASSUME NEW t \in Tasks, PersistSnapshot(t) PROVE RulesAccountedFor'
    BY <1>7, <1>p1, <1>p2 DEF PersistSnapshot, RulesAccountedFor
<1>8. ASSUME NEW t \in Tasks, PersistEnds(t) PROVE RulesAccountedFor'
    BY <1>8, <1>p1, <1>p2 DEF PersistEnds, Return, RulesAccountedFor
<1>9. ASSUME NEW c \in Clients, NEW id \in Ids, CloseRemove(c, id)
      PROVE RulesAccountedFor'
    BY <1>9, <1>p1, <1>p2 DEF CloseRemove, MayCall, TableChanged,
       RulesAccountedFor, Restrict
<1>10. ASSUME NEW t \in Tasks, ShutdownListeners(t) PROVE RulesAccountedFor'
    BY <1>10, <1>p1, <1>p2 DEF ShutdownListeners, RulesAccountedFor
<1>11. ASSUME NEW t \in Tasks, ShutdownRule(t) PROVE RulesAccountedFor'
    BY <1>11, <1>p1, <1>p2 DEF ShutdownRule, AfterShutdown, RulesAccountedFor,
       HasRule
<1>12. ASSUME NEW t \in Tasks, ShutdownRuleFails(t) PROVE RulesAccountedFor'
    BY <1>12, <1>p1, <1>p2 DEF ShutdownRuleFails, AfterShutdown,
       RulesAccountedFor
<1>13. ASSUME NEW c \in Clients, NEW r \in Renames, RenameVM(c, r[1], r[2])
      PROVE RulesAccountedFor'
    BY <1>13, <1>p1, <1>p2 DEF RenameVM, MayCall, TableChanged,
       RulesAccountedFor
<1>14. ASSUME StopBegin PROVE RulesAccountedFor'
    BY <1>14, <1>p1, <1>p2 DEF StopBegin, TableChanged, RulesAccountedFor,
       PlacesOK
<1>15. ASSUME NEW id \in Ids, StopNext(id) PROVE RulesAccountedFor'
    BY <1>15, <1>p1, <1>p2 DEF StopNext, RulesAccountedFor
<1>16. ASSUME Start PROVE RulesAccountedFor'
    BY <1>16, <1>p1, <1>p2 DEF Start, RulesAccountedFor, PlacesOK
<1>17. ASSUME RestoreRead PROVE RulesAccountedFor'
    BY <1>17, <1>p1, <1>p2 DEF RestoreRead, RulesAccountedFor
<1>18. ASSUME RestoreReadFails PROVE RulesAccountedFor'
    BY <1>18, <1>p1, <1>p2 DEF RestoreReadFails, RulesAccountedFor
<1>19. ASSUME RestoreRaise PROVE RulesAccountedFor'
    BY <1>19, <1>p1, <1>p2 DEF RestoreRaise, RulesAccountedFor
<1>20. ASSUME NEW id \in Ids, RestoreNext(id) PROVE RulesAccountedFor'
    BY <1>20, <1>p1, <1>p2 DEF RestoreNext, RulesAccountedFor
<1>21. ASSUME RestoreDone PROVE RulesAccountedFor'
    BY <1>21, <1>p1, <1>p2 DEF RestoreDone, RulesAccountedFor
<1>22. ASSUME StopExit PROVE RulesAccountedFor'
    BY <1>22, <1>p1, <1>p2 DEF StopExit, ProcessEnds, RulesAccountedFor, Busy,
       PlacesOK
<1>23. ASSUME Crash PROVE RulesAccountedFor'
    BY <1>23, <1>p1, <1>p2 DEF Crash, ProcessEnds, RulesAccountedFor
<1>24. ASSUME NEW t \in Tasks, PersistWrite(t) \/ PersistFails(t) PROVE RulesAccountedFor'
    BY <1>24, <1>8 DEF PersistWrite, PersistFails
<1>25. CASE UNCHANGED vars
    BY <1>25 DEF vars, RulesAccountedFor
<1>26. ASSUME NEW o \in ScriptKinds, OrphanActs(o) PROVE RulesAccountedFor'
    BY <1>26, <1>p1, <1>p2 DEF OrphanActs, RulesAccountedFor
<1>. QED
    BY <1>1, <1>2, <1>3, <1>4, <1>5, <1>6, <1>7, <1>8, <1>9, <1>10, <1>11,
       <1>12, <1>13, <1>14, <1>15, <1>16, <1>17, <1>18, <1>19, <1>20, <1>21,
       <1>22, <1>23, <1>24, <1>25, <1>26 DEF Next, Call, Step, RestoreStep, StopStep

-----------------------------------------------------------------------------
\* The invariant holds at first, and every step keeps it.
LEMMA InvInit == Init => TunnelInv
<1>. SUFFICES ASSUME Init PROVE TunnelInv
    OBVIOUS
<1>1. TypeOK
    BY TypeInit
<1>2. DOMAIN items = {} /\ DOMAIN file.tunnels = {}
      /\ \A t \in Tasks : cur[t] = 0 /\ pc[t] = "idle" /\ DOMAIN snap[t].tunnels = {}
    BY EmptyTable DEF Init, EmptyImage
<1>3. stopIds = {} /\ fwRule = {} /\ listening = {} /\ firewall = {} /\ nextID = 1 /\ ~up
    BY DEF Init
<1>4. PlacesOK /\ Issued
    BY <1>2, <1>3 DEF PlacesOK, Issued, Working, Tasks
<1>5. OneOwner /\ OpenOK /\ ListenersOwned
    BY <1>2, <1>3 DEF OneOwner, OpenOK, ListenersOwned
<1>6. IdsBelowNext /\ ReuseOK /\ ReportedRuleExists /\ RulesAccountedFor
    BY <1>2, <1>3 DEF IdsBelowNext, ReuseOK, ReportedRuleExists, RulesAccountedFor
<1>. QED
    BY <1>1, <1>4, <1>5, <1>6 DEF TunnelInv

LEMMA InvNext == TunnelInv /\ [Next]_vars => TunnelInv'
<1>. SUFFICES ASSUME TunnelInv, [Next]_vars PROVE TunnelInv'
    OBVIOUS
<1>. QED
    BY TypeNext, PlacesNext, IssuedNext, OneOwnerNext, ListenersNext, IdsNext,
       ReuseNext, OpenNext, ReportedNext, RulesNext DEF TunnelInv

\* The inductive invariant holds of every behaviour.
THEOREM TunnelSafe == Spec => []TunnelInv
BY InvInit, InvNext, PTL DEF Spec

\* Every variable keeps its type, in particular what is saved and what is read
\* back by the next process.
THEOREM TypeCorrect == Spec => []TypeOK
<1>1. TunnelInv => TypeOK
    BY DEF TunnelInv
<1>. QED
    BY <1>1, TunnelSafe, PTL

\* Open, Close, CloseAll and Restore may overlap in any way: a tunnel is shut
\* down by one of them, and no two Opens share an id.
THEOREM OneOwnerAlways == Spec => []OneOwner
<1>1. TunnelInv => OneOwner
    BY DEF TunnelInv
<1>. QED
    BY <1>1, TunnelSafe, PTL

\* A listener is open for exactly the tunnels in the table and those one call
\* is about to shut down: none is leaked, none closed under a listed tunnel.
THEOREM ListenersAlwaysOwned == Spec => []ListenersOwned
<1>1. TunnelInv => ListenersOwned
    BY DEF TunnelInv
<1>. QED
    BY <1>1, TunnelSafe, PTL

\* An id names one tunnel in the table, in the file and in every snapshot on
\* its way there, through crashes, failed writes and writes in any order, in a
\* process whose Restore came before its first Open.
THEOREM IdsNeverReused == Spec => []IdsAreNotReused
<1>1. TunnelInv => IdsAreNotReused
    BY DEF TunnelInv, ReuseOK, Untouched, Agrees, Images, IdsAreNotReused
<1>. QED
    BY <1>1, TunnelSafe, PTL

\* The rule list_tunnels reports is there, though a restarted process may issue
\* ids again and rules are replaced by name; only a script left running by an
\* earlier process can take it or put its own in its place.
THEOREM ReportedRuleAlwaysExists == Spec => []ReportedRuleExists
<1>1. TunnelInv => ReportedRuleExists
    BY DEF TunnelInv
<1>. QED
    BY <1>1, TunnelSafe, PTL

\* The only ways in which shutdown can leave a firewall rule behind are those
\* that excused records.
THEOREM RulesAlwaysAccountedFor == Spec => []RulesAccountedFor
<1>1. TunnelInv => RulesAccountedFor
    BY DEF TunnelInv
<1>. QED
    BY <1>1, TunnelSafe, PTL

-----------------------------------------------------------------------------
(***************************************************************************)
(* The file and the table.  A call that changed the table has yet to save   *)
(* it, or the snapshot it is about to write is the table's, or a later      *)
(* change made that snapshot stale; and a Restore has yet to reopen what    *)
(* the file lists.  Only when none of these is so must the two agree.       *)
(***************************************************************************)
Fresh == file.tunnels = Image.tunnels

ToSave(t) ==
    \/ pc[t] \in {"allow", "record", "snapshot", "listeners", "rule"}
    \/ pc[t] = "write" /\ t \notin stale

ToRestore ==
    \/ pc[Restorer] = "read" /\ DOMAIN file.tunnels # {}
    \/ pc[Restorer] = "raise" /\ DOMAIN snap[Restorer].tunnels # {}
    \/ pc[Restorer] = "loop" /\ DOMAIN todo # {}
    \/ pc[Restorer] = "register"

Due == pc[Stopper] # "idle" \/ ToRestore \/ \E t \in Tasks \ {Stopper} : ToSave(t)

Writers == {t \in Tasks : pc[t] = "write"}

SavedOK ==
    /\ stale \subseteq Writers
    /\ \A t \in Writers \ stale : snap[t].tunnels = Image.tunnels
    /\ ~up => DOMAIN items = {}
    /\ up /\ ~behind => Fresh \/ Due

\* What is worth saving is a matter of the table alone.
LEMMA ImageKept ==
    ASSUME UNCHANGED items
    PROVE  Image.tunnels' = Image.tunnels
BY DEF Image, AutoIds

\* A table with no entry is the empty one.
LEMMA EmptyTables ==
    ASSUME NEW f, NEW g, TableOK(f), TableOK(g), DOMAIN f = {}, DOMAIN g = {}
    PROVE  f = g
BY DEF TableOK

\* A call of a client or of Restore changes the table: it has yet to save it,
\* and every snapshot on its way to disk is old.
LEMMA ChangeSaved ==
    ASSUME TypeOK, SavedOK, up, up', NEW t \in Tasks \ {Stopper}, TableChanged,
           pc[t] # "write", pc' \in [Tasks -> Places],
           pc'[t] \in {"allow", "snapshot", "listeners"},
           \A u \in Tasks \ {t} : pc'[u] = pc[u]
    PROVE  SavedOK'
<1>1. stale' = Writers /\ Writers' \subseteq Writers
    BY DEF TableChanged, Writers
<1>2. Writers \subseteq Writers' /\ ToSave(t)'
    BY DEF Writers, ToSave
<1>. QED
    BY <1>1, <1>2 DEF SavedOK, Due

\* A step that leaves the table and the file, writes nothing and starts no
\* write, and after which there is still something due.
LEMMA StepSaved ==
    ASSUME SavedOK, UNCHANGED <<items, file, behind, stale, up>>,
           Writers' = Writers, \A u \in Writers : snap'[u] = snap[u],
           Due => Due' \/ Fresh
    PROVE  SavedOK'
<1>1. Image.tunnels' = Image.tunnels
    BY ImageKept
<1>2. Fresh' = Fresh
    BY <1>1 DEF Fresh
<1>3. \A u \in (Writers \ stale)' : snap'[u].tunnels = Image.tunnels'
    BY <1>1 DEF SavedOK
<1>. QED
    BY <1>2, <1>3 DEF SavedOK

\* A step after which its task has yet to save, or CloseAll is at work.
LEMMA DueStays ==
    ASSUME NEW t \in Tasks,
           \/ t = Stopper /\ pc'[t] # "idle"
           \/ t # Stopper /\ pc'[t] \in {"allow", "record", "snapshot", "listeners", "rule"}
    PROVE  Due'
BY DEF Due, ToSave

\* The file never falls behind the table without a call that has yet to save
\* it, a restore under way, or a known reason.
LEMMA SavedNext ==
    ASSUME TypeOK, PlacesOK, SavedOK, [Next]_vars
    PROVE  SavedOK'
<1>. USE TunnelAssumption
    DEF Goto, proc, table, states, loops, local, saved, history, host, marks
<1>p1. /\ pc \in [Tasks -> Places] /\ DOMAIN snap = Tasks /\ DOMAIN arg = Tasks
       /\ Restorer \in Tasks /\ Stopper \in Tasks /\ Clients \subseteq Tasks \ {Restorer, Stopper}
    BY DEF TypeOK, Tasks
<1>p2. \A t \in Tasks : pc[t] # "idle" => up
    BY DEF PlacesOK
<1>1. ASSUME NEW c \in Clients, NEW s \in Offers, OpenCall(c, s) PROVE SavedOK'
  <2>1. \A u \in Tasks \ {c} : pc'[u] = pc[u]
    BY <1>1, <1>p1 DEF OpenCall
  <2>2. pc[c] = "idle" /\ pc'[c] = "register" /\ c \in Tasks \ {Restorer, Stopper}
    BY <1>1, <1>p1 DEF OpenCall, MayCall
  <2>3. UNCHANGED <<items, file, behind, stale, up, snap, todo>>
    BY <1>1 DEF OpenCall
  <2>4. Writers' = Writers
    BY <2>1, <2>2 DEF Writers
  <2>5. Due => Due'
    BY <1>p1, <2>1, <2>2, <2>3 DEF Due, ToSave, ToRestore
  <2>. QED
    BY <2>3, <2>4, <2>5, StepSaved
<1>2. ASSUME NEW t \in Tasks, OpenFails(t) PROVE SavedOK'
  <2>1. \A u \in Tasks \ {t} : pc'[u] = pc[u]
    BY <1>2, <1>p1 DEF OpenFails
  <2>2. pc[t] = "register" /\ pc'[t] \in {"loop", "idle"} /\ (t # Restorer => pc'[t] = "idle") /\ t # Stopper
    BY <1>2, <1>p1 DEF OpenFails, Return, PlacesOK
  <2>3. UNCHANGED <<items, file, stale, up, snap, todo>> /\ behind' = (behind \/ t = Restorer)
    BY <1>2 DEF OpenFails
  <2>4. Writers' = Writers
    BY <2>1, <2>2 DEF Writers
  <2>5. CASE t = Restorer
    <3>1. Image.tunnels' = Image.tunnels
      BY <2>3, ImageKept
    <3>. QED
      BY <2>3, <2>4, <2>5, <3>1 DEF SavedOK
  <2>6. CASE t # Restorer
    <3>1. Due => Due'
      BY <1>p1, <2>1, <2>2, <2>3, <2>6 DEF Due, ToSave, ToRestore
    <3>2. behind' = behind
      BY <2>3, <2>6 DEF TypeOK
    <3>. QED
      BY <2>3, <2>4, <3>1, <3>2, StepSaved
  <2>. QED
    BY <2>5, <2>6
<1>3. ASSUME NEW t \in Tasks, OpenRegister(t) PROVE SavedOK'
    BY <1>3, <1>p1, <1>p2, ChangeSaved DEF OpenRegister, PlacesOK, Places
<1>4. ASSUME NEW t \in Tasks,
             OpenAllow(t) \/ OpenAllowFails(t) \/ OpenRecordRule(t)
                 \/ ShutdownListeners(t) \/ ShutdownRule(t) \/ ShutdownRuleFails(t)
      PROVE  SavedOK'
  <2>1. \A u \in Tasks \ {t} : pc'[u] = pc[u]
    BY <1>4, <1>p1 DEF OpenAllow, OpenAllowFails, OpenRecordRule, ShutdownListeners, ShutdownRule,
       ShutdownRuleFails
  <2>2. pc[t] \in {"allow", "record", "listeners", "rule"}
    BY <1>4 DEF OpenAllow, OpenAllowFails, OpenRecordRule, ShutdownListeners, ShutdownRule,
       ShutdownRuleFails
  <2>3. \/ t = Stopper /\ pc'[t] \in {"rule", "loop"}
        \/ t # Stopper /\ pc'[t] \in {"record", "snapshot", "rule"}
    BY <1>4, <1>p1 DEF OpenAllow, OpenAllowFails, OpenRecordRule, ShutdownListeners, ShutdownRule,
       ShutdownRuleFails, AfterShutdown, PlacesOK
  <2>4. UNCHANGED <<items, file, behind, stale, up, snap>>
    BY <1>4 DEF OpenAllow, OpenAllowFails, OpenRecordRule, ShutdownListeners, ShutdownRule,
       ShutdownRuleFails
  <2>5. Writers' = Writers
    BY <2>1, <2>2, <2>3 DEF Writers
  <2>. QED
    BY <2>3, <2>4, <2>5, DueStays, StepSaved
<1>5. ASSUME NEW t \in Tasks, PersistSnapshot(t) PROVE SavedOK'
  <2>1. pc[t] = "snapshot" /\ pc'[t] = "write" /\ snap'[t] = Image /\ t # Stopper
    BY <1>5, <1>p1 DEF PersistSnapshot, PlacesOK
  <2>2. \A u \in Tasks \ {t} : pc'[u] = pc[u] /\ snap'[u] = snap[u]
    BY <1>5, <1>p1 DEF PersistSnapshot
  <2>3. UNCHANGED <<items, file, behind, stale, up>>
    BY <1>5 DEF PersistSnapshot
  <2>4. Writers' = Writers \cup {t} /\ t \notin stale
    BY <2>1, <2>2 DEF Writers, SavedOK
  <2>5. ToSave(t)'
    BY <2>1, <2>3, <2>4 DEF ToSave
  <2>6. Image.tunnels' = Image.tunnels
    BY <2>3, ImageKept
  <2>7. \A u \in (Writers \ stale)' : snap'[u].tunnels = Image.tunnels'
    BY <2>1, <2>2, <2>3, <2>4, <2>6 DEF SavedOK, Writers
  <2>. QED
    BY <2>1, <2>3, <2>4, <2>5, <2>7 DEF SavedOK, Due
<1>6. ASSUME NEW t \in Tasks, PersistWrite(t) \/ PersistFails(t) PROVE SavedOK'
  <2>1. /\ pc[t] = "write" /\ pc'[t] # "write"
        /\ \A u \in Tasks \ {t} : pc'[u] = pc[u] /\ snap'[u] = snap[u]
    BY <1>6, <1>p1 DEF PersistWrite, PersistFails, PersistEnds, Return
  <2>2. UNCHANGED <<items, up>> /\ stale' = stale \ {t}
    BY <1>6 DEF PersistWrite, PersistFails, PersistEnds
  <2>3. Writers' = Writers \ {t} /\ t \in Writers
    BY <2>1 DEF Writers
  <2>4. Image.tunnels' = Image.tunnels
    BY <2>2, ImageKept
  <2>5. \A u \in (Writers \ stale)' : snap'[u].tunnels = Image.tunnels'
    BY <2>1, <2>2, <2>3, <2>4 DEF SavedOK, Writers
  <2>6. behind' \/ (t \notin stale /\ file' = snap[t])
    BY <1>6 DEF PersistWrite, PersistFails
  <2>7. behind' \/ Fresh'
    BY <2>3, <2>4, <2>6 DEF SavedOK, Fresh
  <2>. QED
    BY <2>2, <2>3, <2>5, <2>7 DEF SavedOK
<1>7. ASSUME NEW c \in Clients, NEW id \in Ids, CloseRemove(c, id) PROVE SavedOK'
    BY <1>7, <1>p1, ChangeSaved DEF CloseRemove, MayCall, Places
<1>8. ASSUME NEW c \in Clients, NEW r \in Renames, RenameVM(c, r[1], r[2]) PROVE SavedOK'
    BY <1>8, <1>p1, ChangeSaved DEF RenameVM, MayCall, Places
<1>9. ASSUME StopBegin PROVE SavedOK'
  <2>1. stale' = Writers /\ up' /\ Writers' = Writers
    BY <1>9, <1>p1 DEF StopBegin, TableChanged, Writers
  <2>2. Due'
    BY <1>9, <1>p1 DEF StopBegin, Due
  <2>. QED
    BY <2>1, <2>2 DEF SavedOK
<1>10. ASSUME NEW id \in Ids, StopNext(id) PROVE SavedOK'
  <2>1. UNCHANGED <<items, file, behind, stale, up, snap>> /\ Writers' = Writers
    BY <1>10, <1>p1 DEF StopNext, Writers
  <2>2. Due'
    BY <1>10, <1>p1 DEF StopNext, Due
  <2>. QED
    BY <2>1, <2>2, StepSaved
<1>11. ASSUME StopExit \/ Crash PROVE SavedOK'
    BY <1>11, <1>p1, EmptyTable DEF StopExit, Crash, ProcessEnds, SavedOK, Writers
<1>12. ASSUME Start PROVE SavedOK'
  <2>1. Writers' = {} /\ stale' = {}
    BY <1>12, <1>p1 DEF Start, PlacesOK, Writers, SavedOK
  <2>2. DOMAIN items = {} /\ UNCHANGED <<items, file>> /\ up'
    BY <1>12 DEF Start, SavedOK
  <2>3. CASE DOMAIN file.tunnels = {}
    <3>1. DOMAIN Image.tunnels = {} /\ TableOK(Image.tunnels) /\ TableOK(file.tunnels)
      BY <2>2, SnapshotOK DEF AutoIds, TypeOK, ImageOK
    <3>2. Fresh
      BY <2>3, <3>1, EmptyTables DEF Fresh
    <3>. QED
      BY <2>1, <2>2, <3>2, ImageKept DEF SavedOK, Fresh
  <2>4. CASE DOMAIN file.tunnels # {}
    <3>1. Due'
      BY <1>12, <1>p1, <2>2, <2>4 DEF Start, Due, ToRestore
    <3>. QED
      BY <2>1, <2>2, <3>1 DEF SavedOK
  <2>. QED
    BY <2>3, <2>4
<1>13. ASSUME \/ RestoreRead \/ RestoreRaise \/ RestoreDone
              \/ \E id \in Ids : RestoreNext(id)
       PROVE  SavedOK'
  <2>1. \A u \in Tasks \ {Restorer} : pc'[u] = pc[u] /\ snap'[u] = snap[u]
    BY <1>13, <1>p1 DEF RestoreRead, RestoreRaise, RestoreDone, RestoreNext
  <2>2. UNCHANGED <<items, file, behind, stale, up>>
    BY <1>13 DEF RestoreRead, RestoreRaise, RestoreDone, RestoreNext
  <2>3. pc[Restorer] \in {"read", "raise", "loop"} /\ pc'[Restorer] \in {"raise", "loop", "register", "idle"}
    BY <1>13, <1>p1 DEF RestoreRead, RestoreRaise, RestoreDone, RestoreNext
  <2>4. Writers' = Writers /\ Restorer \notin Writers
    BY <2>1, <2>3 DEF Writers
  <2>5. ToRestore => ToRestore'
    BY <1>13, <1>p1, <2>2 DEF RestoreRead, RestoreRaise, RestoreDone, RestoreNext, ToRestore
  <2>6. Due => Due'
    BY <1>p1, <2>1, <2>2, <2>3, <2>5 DEF Due, ToSave
  <2>. QED
    BY <2>1, <2>2, <2>4, <2>6, StepSaved DEF Writers
<1>14. ASSUME RestoreReadFails PROVE SavedOK'
  <2>1. Writers' = Writers /\ behind'
    BY <1>14, <1>p1 DEF RestoreReadFails, Writers
  <2>2. UNCHANGED <<items, file, stale, up, snap>>
    BY <1>14 DEF RestoreReadFails
  <2>. QED
    BY <2>1, <2>2, ImageKept DEF SavedOK
<1>15. CASE UNCHANGED vars
  <2>1. UNCHANGED <<items, file, behind, stale, up, snap>> /\ Writers' = Writers
    BY <1>15 DEF vars, Writers
  <2>2. Due => Due'
    BY <1>15 DEF vars, Due, ToSave, ToRestore
  <2>. QED
    BY <2>1, <2>2, StepSaved
<1>16. ASSUME NEW o \in ScriptKinds, OrphanActs(o) PROVE SavedOK'
  <2>1. UNCHANGED <<items, file, behind, stale, up, snap>> /\ Writers' = Writers
    BY <1>16 DEF OrphanActs, Writers
  <2>2. Due => Due'
    BY <1>16 DEF OrphanActs, Due, ToSave, ToRestore
  <2>. QED
    BY <2>1, <2>2, StepSaved
<1>. QED
    BY <1>1, <1>2, <1>3, <1>4, <1>5, <1>6, <1>7, <1>8, <1>9, <1>10, <1>11, <1>12, <1>13, <1>14,
       <1>15, <1>16 DEF Next, Call, Step, RestoreStep, StopStep

\* When nothing is in flight, nothing is due: whatever calls, restores and
\* shutdowns overlapped, the file lists the tunnels to reopen, unless a write
\* of an old snapshot, a failed write or a failed restore came last.
THEOREM DurableAlwaysWhenQuiet == Spec => []DurableWhenQuiet
<1>1. Init => SavedOK
  <2>. SUFFICES ASSUME Init PROVE SavedOK
    OBVIOUS
  <2>1. ~up /\ stale = {} /\ Writers = {} /\ DOMAIN items = {}
    BY EmptyTable DEF Init, Writers
  <2>. QED
    BY <2>1 DEF SavedOK
<1>2. TunnelInv /\ SavedOK /\ [Next]_vars => SavedOK'
    BY SavedNext DEF TunnelInv
<1>3. TunnelInv /\ SavedOK => DurableWhenQuiet
  <2>. SUFFICES ASSUME TunnelInv, SavedOK, Quiet, ~behind
                PROVE  file.tunnels = Image.tunnels
    BY DEF DurableWhenQuiet
  <2>1. \A t \in Tasks : pc[t] = "idle"
    BY DEF Quiet
  <2>2. Restorer \in Tasks /\ Stopper \in Tasks
    BY DEF Tasks
  <2>3. ~Due
    BY <2>1, <2>2 DEF Due, ToSave, ToRestore
  <2>. QED
    BY <2>3 DEF SavedOK, Fresh, Quiet
<1>. QED
    BY <1>1, <1>2, <1>3, TunnelSafe, PTL DEF Spec
=============================================================================
