--------------------------- MODULE SshPoolProofs ---------------------------
(***************************************************************************)
(* The safety properties of SshPool for any number of callers, VMs,         *)
(* connections, credentials and host keys, and for every environment.       *)
(***************************************************************************)
EXTENDS SshPool, TLAPS

\* A Get that has dialled and not yet returned.
Dialled(c) == pc[c] \in {"auth", "insert", "compare"}

\* Which places each kind of task can be in.
PlacesOK ==
    /\ \A c \in Callers : pc[c] \in {"idle", "lookup", "probe", "drop", "close",
                                     "dial", "auth", "insert", "compare", "using"}
    /\ \A k \in Changers : pc[k] \in {"idle", "drop", "close"}
    /\ \A e \in Conns : pc[e] \in {"idle", "waiting", "probe", "drop", "close", "ended"}
    /\ pc[Stopper] \in {"idle", "close", "ended"}

\* What a task has at hand where it stands.
HandOK ==
    /\ \A c \in Callers : InFlight(c) => want[c] \in Wants
    /\ \A c \in Callers : Dialled(c) \/ pc[c] = "probe" => hold[c] \in Conns
    /\ \A c \in Callers :
           pc[c] = "compare" => mu = c /\ clients[want[c].vm] # None
    /\ \A k \in Changers : pc[k] = "drop" => want[k].vm \in VMs
    /\ \A e \in Conns : pc[e] # "idle" => about[e] \in Made
    /\ \A t \in Tasks : doomed[t] # {} => pc[t] = "close"

\* A dialled connection belongs to one Get until its keepalive goroutine runs.
OwnOK ==
    /\ \A c \in Callers : Dialled(c) =>
           /\ pc[hold[c]] = "idle"
           /\ link[hold[c]] # "none"
           /\ about[hold[c]] \in Made
           /\ about[hold[c]].vm = want[c].vm
           /\ \A d \in Callers \ {c} : Dialled(d) => hold[d] # hold[c]
    /\ \A e \in Conns : link[e] = "none" => pc[e] = "idle" /\ about[e] = NotMade
    /\ \A e \in stopped : pc[e] # "idle"
    /\ \A t \in Tasks : \A e \in doomed[t] : pc[e] # "idle"

\* The pin is the key of every connection, while none was accepted instead.
PinOK ==
    \A e \in Conns : about[e] # NotMade /\ about[e].vm \notin accepted =>
        pins[about[e].vm] = about[e].key

\* A Get that no change has overtaken works with the stored credential.
FreshOK ==
    \A c \in Callers :
        /\ pc[c] \notin {"insert", "compare"} /\ InFlight(c)
           /\ ~want[c].given /\ c \notin late
               => want[c].login = stored[want[c].vm]
        /\ Dialled(c) => /\ about[hold[c]].login = want[c].login
                         /\ about[hold[c]].given = want[c].given
        /\ pc[c] \in {"insert", "compare"} /\ ~want[c].given /\ hold[c] \notin late
               => want[c].login = stored[want[c].vm]

PoolInv ==
    /\ TypeOK /\ PlacesOK /\ HandOK /\ OwnOK /\ ClosedOnce /\ PooledIsWatched
    /\ OpenIsOwned /\ PinOK /\ FreshOK /\ StaleOnlyIfOvertaken

-----------------------------------------------------------------------------
\* Every step leaves every task in a place it can be in.
LEMMA PlacesNext ==
    ASSUME TypeOK, PlacesOK, HandOK, [Next]_vars
    PROVE  PlacesOK'
<1>. USE PoolAssumption DEF Goto, Tasks, pool, wire, local, files, history
<1>p1.
      /\ DOMAIN pc = Callers \cup Changers \cup {Stopper} \cup Conns
      /\ \A c \in Callers : Dialled(c) => hold[c] \in Conns
    BY DEF TypeOK, HandOK
<1>1. ASSUME NEW c \in Callers, NEW w \in Wants, Connect(c, w) PROVE PlacesOK'
    BY <1>1, <1>p1 DEF Connect, PlacesOK
<1>2. ASSUME NEW c \in Callers, GetLookup(c) PROVE PlacesOK'
    BY <1>2, <1>p1 DEF GetLookup, VM, PlacesOK
<1>3. ASSUME NEW c \in Callers, GetHit(c) PROVE PlacesOK'
    BY <1>3, <1>p1 DEF GetHit, PlacesOK
<1>4. ASSUME NEW c \in Callers, GetDead(c) PROVE PlacesOK'
    BY <1>4, <1>p1 DEF GetDead, PlacesOK
<1>5. ASSUME NEW c \in Callers, NEW e \in Conns, DialCheck(c, e) PROVE PlacesOK'
    BY <1>5, <1>p1 DEF DialCheck, VM, PlacesOK
<1>6. ASSUME NEW c \in Callers, DialSucceeds(c) PROVE PlacesOK'
    BY <1>6, <1>p1 DEF DialSucceeds, PlacesOK
<1>7. ASSUME NEW c \in Callers, DialFails(c) PROVE PlacesOK'
    BY <1>7, <1>p1 DEF DialFails, Returns, PlacesOK
<1>8. ASSUME NEW c \in Callers, DialRefused(c) PROVE PlacesOK'
    BY <1>8, <1>p1 DEF DialRefused, Returns, PlacesOK
<1>9. ASSUME NEW c \in Callers, InsertFirst(c) PROVE PlacesOK'
    BY <1>9, <1>p1 DEF InsertFirst, Put, VM, PlacesOK, Dialled
<1>10. ASSUME NEW c \in Callers, InsertLock(c) PROVE PlacesOK'
    BY <1>10, <1>p1 DEF InsertLock, VM, PlacesOK
<1>11. ASSUME NEW c \in Callers, InsertTheirs(c) PROVE PlacesOK'
    BY <1>11, <1>p1 DEF InsertTheirs, VM, Alive, PlacesOK
<1>12. ASSUME NEW c \in Callers, InsertOver(c) PROVE PlacesOK'
    BY <1>12, <1>p1 DEF InsertOver, Put, VM, Dead, PlacesOK, Dialled
<1>13. ASSUME NEW c \in Callers, UseEnds(c) PROVE PlacesOK'
    BY <1>13, <1>p1 DEF UseEnds, Returns, PlacesOK
<1>14. ASSUME NEW t \in Tasks, DropTake(t) PROVE PlacesOK'
    BY <1>14, <1>p1 DEF DropTake, Closing, AfterDrop, PlacesOK
<1>15. ASSUME CloseTake PROVE PlacesOK'
    BY <1>15, <1>p1 DEF CloseTake, Closing, AfterDrop, PlacesOK
<1>16. ASSUME NEW t \in Tasks, NEW e \in Conns, CloseEntry(t, e) PROVE PlacesOK'
    BY <1>16, <1>p1 DEF CloseEntry, Closing, AfterDrop, PlacesOK
<1>17. ASSUME NEW e \in Conns, KeepaliveTick(e) PROVE PlacesOK'
    BY <1>17, <1>p1 DEF KeepaliveTick, PlacesOK
<1>18. ASSUME NEW e \in Conns, KeepaliveStop(e) PROVE PlacesOK'
    BY <1>18, <1>p1 DEF KeepaliveStop, PlacesOK
<1>19. ASSUME NEW e \in Conns, KeepaliveAnswered(e) PROVE PlacesOK'
    BY <1>19, <1>p1 DEF KeepaliveAnswered, PlacesOK
<1>20. ASSUME NEW e \in Conns, KeepaliveDead(e) PROVE PlacesOK'
    BY <1>20, <1>p1 DEF KeepaliveDead, PlacesOK
<1>21. ASSUME NEW k \in Changers, NEW v \in VMs,
      NEW login \in Logins \cup {None}, CredChange(k, v, login)
      PROVE PlacesOK'
    BY <1>21, <1>p1 DEF CredChange, Changes, NoWant, PlacesOK
<1>22. ASSUME NEW k \in Changers, NEW v \in VMs, ForgetHostKey(k, v) PROVE PlacesOK'
    BY <1>22, <1>p1 DEF ForgetHostKey, Changes, NoWant, PlacesOK
<1>23. ASSUME NEW k \in Changers, NEW v \in VMs, Move(k, v) PROVE PlacesOK'
    BY <1>23, <1>p1 DEF Move, Changes, NoWant, PlacesOK
<1>24. ASSUME NEW e \in Conns, Breaks(e) PROVE PlacesOK'
    BY <1>24, <1>p1 DEF Breaks, PlacesOK
<1>25. ASSUME NEW e \in Conns, Hangs(e) PROVE PlacesOK'
    BY <1>25, <1>p1 DEF Hangs, PlacesOK
<1>26. ASSUME NEW v \in VMs, NEW key \in HostKeys, Rebuilt(v, key) PROVE PlacesOK'
    BY <1>26, <1>p1 DEF Rebuilt, PlacesOK
<1>27. CASE UNCHANGED vars
    BY <1>27 DEF vars, PlacesOK
<1>. QED
    BY <1>1, <1>2, <1>3, <1>4, <1>5, <1>6, <1>7, <1>8, <1>9, <1>10, <1>11,
       <1>12, <1>13, <1>14, <1>15, <1>16, <1>17, <1>18, <1>19, <1>20, <1>21,
       <1>22, <1>23, <1>24, <1>25, <1>26, <1>27 DEF Next, GetStep, DropStep,
       KeepaliveStep

\* A task that is about to drop a connection knows for which VM.
LEMMA DropVM ==
    ASSUME TypeOK, PlacesOK, HandOK, NEW t \in Tasks, pc[t] = "drop"
    PROVE  VM(t) \in VMs
<1>1. CASE t \in Callers
    BY <1>1, PoolAssumption DEF HandOK, InFlight, VM, Wants
<1>2. CASE t \in Changers
    BY <1>2, PoolAssumption DEF HandOK, VM
<1>3. CASE t \in Conns
    BY <1>3 DEF HandOK, VM, Made
<1>4. t # Stopper
    BY DEF PlacesOK
<1>. QED
    BY <1>1, <1>2, <1>3, <1>4 DEF Tasks

\* Every step keeps the types.
LEMMA TypeNext ==
    ASSUME TypeOK, PlacesOK, HandOK, [Next]_vars
    PROVE  TypeOK'
<1>. USE PoolAssumption DEF Goto, Tasks, pool, wire, local, files, history
<1>1. ASSUME NEW c \in Callers, NEW w \in Wants, Connect(c, w) PROVE TypeOK'
  <2>1. pc' \in [Tasks -> Places]
    BY <1>1 DEF Connect, TypeOK, Places
  <2>2. want' \in [Tasks -> Wants \cup Targets \cup {NoWant}]
    BY <1>1 DEF Connect, TypeOK
  <2>. QED
    BY <1>1, <2>1, <2>2 DEF Connect, TypeOK
<1>2. ASSUME NEW c \in Callers, GetLookup(c) PROVE TypeOK'
  <2>1. pc' \in [Tasks -> Places]
    BY <1>2 DEF GetLookup, VM, TypeOK, Places
  <2>2. want[c] \in Wants /\ want[c].vm \in VMs
    BY <1>2 DEF GetLookup, VM, TypeOK, HandOK, InFlight, Wants
  <2>3. hold' \in [Tasks -> Conns \cup {None}]
    BY <1>2, <2>2 DEF GetLookup, VM, TypeOK
  <2>. QED
    BY <1>2, <2>1, <2>2, <2>3 DEF GetLookup, VM, TypeOK
<1>3. ASSUME NEW c \in Callers, GetHit(c) PROVE TypeOK'
  <2>1. pc' \in [Tasks -> Places]
    BY <1>3 DEF GetHit, TypeOK, Places
  <2>2. late' \subseteq Callers \cup Conns
    BY <1>3 DEF GetHit, TypeOK
  <2>. QED
    BY <1>3, <2>1, <2>2 DEF GetHit, TypeOK
<1>4. ASSUME NEW c \in Callers, GetDead(c) PROVE TypeOK'
  <2>1. pc' \in [Tasks -> Places]
    BY <1>4 DEF GetDead, TypeOK, Places
  <2>2. hold' \in [Tasks -> Conns \cup {None}]
    BY <1>4 DEF GetDead, TypeOK
  <2>. QED
    BY <1>4, <2>1, <2>2 DEF GetDead, TypeOK
<1>5. ASSUME NEW c \in Callers, NEW e \in Conns, DialCheck(c, e) PROVE TypeOK'
  <2>1. pc' \in [Tasks -> Places]
    BY <1>5 DEF DialCheck, VM, TypeOK, Places
  <2>2. want[c] \in Wants /\ want[c].vm \in VMs
    BY <1>5 DEF DialCheck, VM, TypeOK, HandOK, InFlight, Wants
  <2>3. pins' \in [VMs -> HostKeys \cup {None}]
    BY <1>5, <2>2 DEF DialCheck, VM, TypeOK
  <2>4. link' \in [Conns -> Links]
    BY <1>5 DEF DialCheck, VM, TypeOK, Links
  <2>5. about' \in [Conns -> Made \cup {NotMade}]
    BY <1>5, <2>2 DEF DialCheck, VM, TypeOK, Made, Wants
  <2>6. hold' \in [Tasks -> Conns \cup {None}]
    BY <1>5 DEF DialCheck, VM, TypeOK
  <2>7. accepted' \subseteq VMs
    BY <1>5, <2>2 DEF DialCheck, VM, TypeOK
  <2>. QED
    BY <1>5, <2>1, <2>2, <2>3, <2>4, <2>5, <2>6, <2>7 DEF DialCheck, VM, TypeOK
<1>6. ASSUME NEW c \in Callers, DialSucceeds(c) PROVE TypeOK'
  <2>1. pc' \in [Tasks -> Places]
    BY <1>6 DEF DialSucceeds, TypeOK, Places
  <2>2. hold[c] \in Conns
    BY <1>6 DEF DialSucceeds, TypeOK, HandOK, Dialled
  <2>3. link' \in [Conns -> Links]
    BY <1>6 DEF DialSucceeds, TypeOK, Links
  <2>4. late' \subseteq Callers \cup Conns
    BY <1>6, <2>2 DEF DialSucceeds, TypeOK
  <2>. QED
    BY <1>6, <2>1, <2>2, <2>3, <2>4 DEF DialSucceeds, TypeOK
<1>7. ASSUME NEW c \in Callers, DialFails(c) PROVE TypeOK'
  <2>1. pc' \in [Tasks -> Places]
    BY <1>7 DEF DialFails, Returns, TypeOK, Places
  <2>2. want' \in [Tasks -> Wants \cup Targets \cup {NoWant}]
    BY <1>7 DEF DialFails, Returns, TypeOK
  <2>3. hold' \in [Tasks -> Conns \cup {None}]
    BY <1>7 DEF DialFails, Returns, TypeOK
  <2>4. late' \subseteq Callers \cup Conns
    BY <1>7 DEF DialFails, Returns, TypeOK
  <2>. QED
    BY <1>7, <2>1, <2>2, <2>3, <2>4 DEF DialFails, Returns, TypeOK
<1>8. ASSUME NEW c \in Callers, DialRefused(c) PROVE TypeOK'
  <2>1. pc' \in [Tasks -> Places]
    BY <1>8 DEF DialRefused, Returns, TypeOK, Places
  <2>2. want' \in [Tasks -> Wants \cup Targets \cup {NoWant}]
    BY <1>8 DEF DialRefused, Returns, TypeOK
  <2>3. hold' \in [Tasks -> Conns \cup {None}]
    BY <1>8 DEF DialRefused, Returns, TypeOK
  <2>4. late' \subseteq Callers \cup Conns
    BY <1>8 DEF DialRefused, Returns, TypeOK
  <2>5. link' \in [Conns -> Links]
    BY <1>8 DEF DialRefused, Returns, TypeOK, Links
  <2>6. about' \in [Conns -> Made \cup {NotMade}]
    BY <1>8 DEF DialRefused, Returns, TypeOK
  <2>. QED
    BY <1>8, <2>1, <2>2, <2>3, <2>4, <2>5, <2>6 DEF DialRefused, Returns, TypeOK
<1>9. ASSUME NEW c \in Callers, InsertFirst(c) PROVE TypeOK'
  <2>1. hold[c] \in Conns
    BY <1>9 DEF InsertFirst, Put, VM, TypeOK, HandOK, Dialled
  <2>2. pc' \in [Tasks -> Places]
    BY <1>9, <2>1 DEF InsertFirst, Put, VM, TypeOK, Places
  <2>3. clients' \in [VMs -> Conns \cup {None}]
    BY <1>9, <2>1 DEF InsertFirst, Put, VM, TypeOK
  <2>4. mu' \in Callers \cup {None}
    BY <1>9 DEF InsertFirst, Put, VM, TypeOK
  <2>. QED
    BY <1>9, <2>1, <2>2, <2>3, <2>4 DEF InsertFirst, Put, TypeOK
<1>10. ASSUME NEW c \in Callers, InsertLock(c) PROVE TypeOK'
  <2>1. pc' \in [Tasks -> Places]
    BY <1>10 DEF InsertLock, VM, TypeOK, Places
  <2>2. mu' \in Callers \cup {None}
    BY <1>10 DEF InsertLock, VM, TypeOK
  <2>. QED
    BY <1>10, <2>1, <2>2 DEF InsertLock, VM, TypeOK
<1>11. ASSUME NEW c \in Callers, InsertTheirs(c) PROVE TypeOK'
  <2>1. pc' \in [Tasks -> Places]
    BY <1>11 DEF InsertTheirs, VM, Alive, TypeOK, Places
  <2>2. want[c] \in Wants /\ want[c].vm \in VMs
    BY <1>11 DEF InsertTheirs, VM, Alive, TypeOK, HandOK, InFlight, Wants
  <2>3. link' \in [Conns -> Links]
    BY <1>11 DEF InsertTheirs, VM, Alive, TypeOK, Links
  <2>4. hold' \in [Tasks -> Conns \cup {None}]
    BY <1>11, <2>2 DEF InsertTheirs, VM, Alive, TypeOK
  <2>5. mu' \in Callers \cup {None}
    BY <1>11 DEF InsertTheirs, VM, Alive, TypeOK
  <2>. QED
    BY <1>11, <2>1, <2>2, <2>3, <2>4, <2>5 DEF InsertTheirs, Alive, TypeOK
<1>12. ASSUME NEW c \in Callers, InsertOver(c) PROVE TypeOK'
  <2>1. hold[c] \in Conns
    BY <1>12 DEF InsertOver, Put, VM, Dead, TypeOK, HandOK, Dialled
  <2>2. pc' \in [Tasks -> Places]
    BY <1>12, <2>1 DEF InsertOver, Put, VM, Dead, TypeOK, Places
  <2>3. clients' \in [VMs -> Conns \cup {None}]
    BY <1>12, <2>1 DEF InsertOver, Put, VM, Dead, TypeOK
  <2>4. mu' \in Callers \cup {None}
    BY <1>12 DEF InsertOver, Put, VM, Dead, TypeOK
  <2>. QED
    BY <1>12, <2>1, <2>2, <2>3, <2>4 DEF InsertOver, Put, Dead, TypeOK
<1>13. ASSUME NEW c \in Callers, UseEnds(c) PROVE TypeOK'
  <2>1. pc' \in [Tasks -> Places]
    BY <1>13 DEF UseEnds, Returns, TypeOK, Places
  <2>2. want' \in [Tasks -> Wants \cup Targets \cup {NoWant}]
    BY <1>13 DEF UseEnds, Returns, TypeOK
  <2>3. hold' \in [Tasks -> Conns \cup {None}]
    BY <1>13 DEF UseEnds, Returns, TypeOK
  <2>4. late' \subseteq Callers \cup Conns
    BY <1>13 DEF UseEnds, Returns, TypeOK
  <2>. QED
    BY <1>13, <2>1, <2>2, <2>3, <2>4 DEF UseEnds, Returns, TypeOK
<1>14. ASSUME NEW t \in Tasks, DropTake(t) PROVE TypeOK'
  <2>1. pc' \in [Tasks -> Places]
    BY <1>14 DEF DropTake, Closing, AfterDrop, TypeOK, Places
  <2>2. VM(t) \in VMs
    BY <1>14, DropVM DEF DropTake, Closing, AfterDrop, TypeOK
  <2>3. doomed' \in [Tasks -> SUBSET Conns]
    BY <1>14, <2>2 DEF DropTake, Closing, AfterDrop, TypeOK
  <2>4. want' \in [Tasks -> Wants \cup Targets \cup {NoWant}]
    BY <1>14 DEF DropTake, Closing, AfterDrop, TypeOK
  <2>5. clients' \in [VMs -> Conns \cup {None}]
    BY <1>14 DEF DropTake, Closing, AfterDrop, TypeOK
  <2>. QED
    BY <1>14, <2>1, <2>2, <2>3, <2>4, <2>5 DEF DropTake, Closing, TypeOK
<1>15. ASSUME CloseTake PROVE TypeOK'
  <2>1. pc' \in [Tasks -> Places]
    BY <1>15 DEF CloseTake, Closing, AfterDrop, TypeOK, Places
  <2>2. doomed' \in [Tasks -> SUBSET Conns]
    BY <1>15 DEF CloseTake, Closing, AfterDrop, TypeOK
  <2>3. want' \in [Tasks -> Wants \cup Targets \cup {NoWant}]
    BY <1>15 DEF CloseTake, Closing, AfterDrop, TypeOK
  <2>4. clients' \in [VMs -> Conns \cup {None}]
    BY <1>15 DEF CloseTake, Closing, AfterDrop, TypeOK
  <2>. QED
    BY <1>15, <2>1, <2>2, <2>3, <2>4 DEF CloseTake, Closing, TypeOK
<1>16. ASSUME NEW t \in Tasks, NEW e \in Conns, CloseEntry(t, e) PROVE TypeOK'
  <2>1. pc' \in [Tasks -> Places]
    BY <1>16 DEF CloseEntry, Closing, AfterDrop, TypeOK, Places
  <2>2. link' \in [Conns -> Links]
    BY <1>16 DEF CloseEntry, Closing, AfterDrop, TypeOK, Links
  <2>3. doomed' \in [Tasks -> SUBSET Conns]
    BY <1>16 DEF CloseEntry, Closing, AfterDrop, TypeOK
  <2>4. want' \in [Tasks -> Wants \cup Targets \cup {NoWant}]
    BY <1>16 DEF CloseEntry, Closing, AfterDrop, TypeOK
  <2>5. stopped' \subseteq Conns
    BY <1>16 DEF CloseEntry, Closing, AfterDrop, TypeOK
  <2>6. late' \subseteq Callers \cup Conns
    BY <1>16 DEF CloseEntry, Closing, AfterDrop, TypeOK
  <2>. QED
    BY <1>16, <2>1, <2>2, <2>3, <2>4, <2>5, <2>6 DEF CloseEntry, Closing, TypeOK
<1>17. ASSUME NEW e \in Conns, KeepaliveTick(e) PROVE TypeOK'
  <2>1. pc' \in [Tasks -> Places]
    BY <1>17 DEF KeepaliveTick, TypeOK, Places
  <2>. QED
    BY <1>17, <2>1 DEF KeepaliveTick, TypeOK
<1>18. ASSUME NEW e \in Conns, KeepaliveStop(e) PROVE TypeOK'
  <2>1. pc' \in [Tasks -> Places]
    BY <1>18 DEF KeepaliveStop, TypeOK, Places
  <2>. QED
    BY <1>18, <2>1 DEF KeepaliveStop, TypeOK
<1>19. ASSUME NEW e \in Conns, KeepaliveAnswered(e) PROVE TypeOK'
  <2>1. pc' \in [Tasks -> Places]
    BY <1>19 DEF KeepaliveAnswered, TypeOK, Places
  <2>. QED
    BY <1>19, <2>1 DEF KeepaliveAnswered, TypeOK
<1>20. ASSUME NEW e \in Conns, KeepaliveDead(e) PROVE TypeOK'
  <2>1. pc' \in [Tasks -> Places]
    BY <1>20 DEF KeepaliveDead, TypeOK, Places
  <2>. QED
    BY <1>20, <2>1 DEF KeepaliveDead, TypeOK
<1>21. ASSUME NEW k \in Changers, NEW v \in VMs,
      NEW login \in Logins \cup {None}, CredChange(k, v, login)
      PROVE TypeOK'
  <2>1. pc' \in [Tasks -> Places]
    BY <1>21 DEF CredChange, Changes, NoWant, TypeOK, Places
  <2>2. want' \in [Tasks -> Wants \cup Targets \cup {NoWant}]
    BY <1>21 DEF CredChange, Changes, NoWant, TypeOK, Targets
  <2>3. stored' \in [VMs -> Logins \cup {None}]
    BY <1>21 DEF CredChange, Changes, NoWant, TypeOK
  <2>4. Overtaken(v) \subseteq Callers \cup Conns
    BY <1>21 DEF CredChange, Changes, NoWant, TypeOK, Overtaken, HandOK, Dialled
  <2>5. late' \subseteq Callers \cup Conns
    BY <1>21, <2>4 DEF CredChange, Changes, NoWant, TypeOK
  <2>. QED
    BY <1>21, <2>1, <2>2, <2>3, <2>4, <2>5 DEF CredChange, Changes, NoWant,
       TypeOK
<1>22. ASSUME NEW k \in Changers, NEW v \in VMs, ForgetHostKey(k, v) PROVE TypeOK'
  <2>1. pc' \in [Tasks -> Places]
    BY <1>22 DEF ForgetHostKey, Changes, NoWant, TypeOK, Places
  <2>2. want' \in [Tasks -> Wants \cup Targets \cup {NoWant}]
    BY <1>22 DEF ForgetHostKey, Changes, NoWant, TypeOK, Targets
  <2>3. pins' \in [VMs -> HostKeys \cup {None}]
    BY <1>22 DEF ForgetHostKey, Changes, NoWant, TypeOK
  <2>4. accepted' \subseteq VMs
    BY <1>22 DEF ForgetHostKey, Changes, NoWant, TypeOK
  <2>. QED
    BY <1>22, <2>1, <2>2, <2>3, <2>4 DEF ForgetHostKey, Changes, NoWant, TypeOK
<1>23. ASSUME NEW k \in Changers, NEW v \in VMs, Move(k, v) PROVE TypeOK'
  <2>1. pc' \in [Tasks -> Places]
    BY <1>23 DEF Move, Changes, NoWant, TypeOK, Places
  <2>2. want' \in [Tasks -> Wants \cup Targets \cup {NoWant}]
    BY <1>23 DEF Move, Changes, NoWant, TypeOK, Targets
  <2>. QED
    BY <1>23, <2>1, <2>2 DEF Move, Changes, NoWant, TypeOK
<1>24. ASSUME NEW e \in Conns, Breaks(e) PROVE TypeOK'
  <2>1. link' \in [Conns -> Links]
    BY <1>24 DEF Breaks, TypeOK, Links
  <2>. QED
    BY <1>24, <2>1 DEF Breaks, TypeOK
<1>25. ASSUME NEW e \in Conns, Hangs(e) PROVE TypeOK'
  <2>1. link' \in [Conns -> Links]
    BY <1>25 DEF Hangs, TypeOK, Links
  <2>. QED
    BY <1>25, <2>1 DEF Hangs, TypeOK
<1>26. ASSUME NEW v \in VMs, NEW key \in HostKeys, Rebuilt(v, key) PROVE TypeOK'
  <2>1. guest' \in [VMs -> HostKeys]
    BY <1>26 DEF Rebuilt, TypeOK
  <2>. QED
    BY <1>26, <2>1 DEF Rebuilt, TypeOK
<1>27. CASE UNCHANGED vars
    BY <1>27 DEF vars, TypeOK
<1>. QED
    BY <1>1, <1>2, <1>3, <1>4, <1>5, <1>6, <1>7, <1>8, <1>9, <1>10, <1>11,
       <1>12, <1>13, <1>14, <1>15, <1>16, <1>17, <1>18, <1>19, <1>20, <1>21,
       <1>22, <1>23, <1>24, <1>25, <1>26, <1>27 DEF Next, GetStep, DropStep,
       KeepaliveStep

\* Every step leaves a task with what it needs for the next one.
LEMMA HandNext ==
    ASSUME TypeOK, PlacesOK, HandOK, OwnOK, [Next]_vars
    PROVE  HandOK'
<1>. USE PoolAssumption DEF Goto, Tasks, pool, wire, local, files, history
<1>p1.
      /\ pc \in [Tasks -> Places] /\ hold \in [Tasks -> Conns \cup {None}]
      /\ want \in [Tasks -> Wants \cup Targets \cup {NoWant}]
      /\ doomed \in [Tasks -> SUBSET Conns] /\ clients \in [VMs -> Conns \cup {None}]
      /\ about \in [Conns -> Made \cup {NotMade}] /\ link \in [Conns -> Links]
    BY DEF TypeOK
<1>1. ASSUME NEW c \in Callers, NEW w \in Wants, Connect(c, w) PROVE HandOK'
    BY <1>1, <1>p1 DEF Connect, HandOK, InFlight, Dialled
<1>2. ASSUME NEW c \in Callers, GetLookup(c) PROVE HandOK'
    BY <1>2, <1>p1 DEF GetLookup, VM, HandOK, InFlight, Dialled, Wants
<1>3. ASSUME NEW c \in Callers, GetHit(c) PROVE HandOK'
    BY <1>3, <1>p1 DEF GetHit, HandOK, InFlight, Dialled
<1>4. ASSUME NEW c \in Callers, GetDead(c) PROVE HandOK'
    BY <1>4, <1>p1 DEF GetDead, HandOK, InFlight, Dialled
<1>5. ASSUME NEW c \in Callers, NEW e \in Conns, DialCheck(c, e) PROVE HandOK'
    BY <1>5, <1>p1 DEF DialCheck, VM, HandOK, InFlight, Dialled, OwnOK
<1>6. ASSUME NEW c \in Callers, DialSucceeds(c) PROVE HandOK'
    BY <1>6, <1>p1 DEF DialSucceeds, HandOK, InFlight, Dialled
<1>7. ASSUME NEW c \in Callers, DialFails(c) PROVE HandOK'
    BY <1>7, <1>p1 DEF DialFails, Returns, HandOK, InFlight, Dialled
<1>8. ASSUME NEW c \in Callers, DialRefused(c) PROVE HandOK'
    BY <1>8, <1>p1 DEF DialRefused, Returns, HandOK, InFlight, Dialled, OwnOK,
       Wants
<1>9. ASSUME NEW c \in Callers, InsertFirst(c) PROVE HandOK'
    BY <1>9, <1>p1 DEF InsertFirst, Put, VM, HandOK, InFlight, Dialled, OwnOK
<1>10. ASSUME NEW c \in Callers, InsertLock(c) PROVE HandOK'
    BY <1>10, <1>p1 DEF InsertLock, VM, HandOK, InFlight, Dialled
<1>11. ASSUME NEW c \in Callers, InsertTheirs(c) PROVE HandOK'
    BY <1>11, <1>p1 DEF InsertTheirs, VM, Alive, HandOK, InFlight, Dialled
<1>12. ASSUME NEW c \in Callers, InsertOver(c) PROVE HandOK'
    BY <1>12, <1>p1 DEF InsertOver, Put, VM, Dead, HandOK, InFlight, Dialled,
       OwnOK
<1>13. ASSUME NEW c \in Callers, UseEnds(c) PROVE HandOK'
    BY <1>13, <1>p1 DEF UseEnds, Returns, HandOK, InFlight, Dialled
<1>14. ASSUME NEW t \in Tasks, DropTake(t) PROVE HandOK'
    BY <1>14, <1>p1 DEF DropTake, Closing, AfterDrop, HandOK, InFlight,
       Dialled, PlacesOK
<1>15. ASSUME CloseTake PROVE HandOK'
    BY <1>15, <1>p1 DEF CloseTake, Closing, AfterDrop, HandOK, InFlight, Dialled
<1>16. ASSUME NEW t \in Tasks, NEW e \in Conns, CloseEntry(t, e) PROVE HandOK'
    BY <1>16, <1>p1 DEF CloseEntry, Closing, AfterDrop, HandOK, InFlight,
       Dialled
<1>17. ASSUME NEW e \in Conns, KeepaliveTick(e) PROVE HandOK'
    BY <1>17, <1>p1 DEF KeepaliveTick, HandOK, InFlight, Dialled
<1>18. ASSUME NEW e \in Conns, KeepaliveStop(e) PROVE HandOK'
    BY <1>18, <1>p1 DEF KeepaliveStop, HandOK, InFlight, Dialled
<1>19. ASSUME NEW e \in Conns, KeepaliveAnswered(e) PROVE HandOK'
    BY <1>19, <1>p1 DEF KeepaliveAnswered, HandOK, InFlight, Dialled
<1>20. ASSUME NEW e \in Conns, KeepaliveDead(e) PROVE HandOK'
    BY <1>20, <1>p1 DEF KeepaliveDead, HandOK, InFlight, Dialled
<1>21. ASSUME NEW k \in Changers, NEW v \in VMs,
      NEW login \in Logins \cup {None}, CredChange(k, v, login)
      PROVE HandOK'
    BY <1>21, <1>p1 DEF CredChange, Changes, NoWant, HandOK, InFlight, Dialled,
       PlacesOK
<1>22. ASSUME NEW k \in Changers, NEW v \in VMs, ForgetHostKey(k, v) PROVE HandOK'
    BY <1>22, <1>p1 DEF ForgetHostKey, Changes, NoWant, HandOK, InFlight,
       Dialled
<1>23. ASSUME NEW k \in Changers, NEW v \in VMs, Move(k, v) PROVE HandOK'
    BY <1>23, <1>p1 DEF Move, Changes, NoWant, HandOK, InFlight, Dialled
<1>24. ASSUME NEW e \in Conns, Breaks(e) PROVE HandOK'
    BY <1>24, <1>p1 DEF Breaks, HandOK, InFlight, Dialled
<1>25. ASSUME NEW e \in Conns, Hangs(e) PROVE HandOK'
    BY <1>25, <1>p1 DEF Hangs, HandOK, InFlight, Dialled
<1>26. ASSUME NEW v \in VMs, NEW key \in HostKeys, Rebuilt(v, key) PROVE HandOK'
    BY <1>26, <1>p1 DEF Rebuilt, HandOK, InFlight, Dialled
<1>27. CASE UNCHANGED vars
    BY <1>27 DEF vars, HandOK, InFlight, Dialled
<1>. QED
    BY <1>1, <1>2, <1>3, <1>4, <1>5, <1>6, <1>7, <1>8, <1>9, <1>10, <1>11,
       <1>12, <1>13, <1>14, <1>15, <1>16, <1>17, <1>18, <1>19, <1>20, <1>21,
       <1>22, <1>23, <1>24, <1>25, <1>26, <1>27 DEF Next, GetStep, DropStep,
       KeepaliveStep

\* A dialled connection stays with the Get that dialled it.
LEMMA OwnNext ==
    ASSUME TypeOK, PlacesOK, HandOK, OwnOK, PooledIsWatched, [Next]_vars
    PROVE  OwnOK'
<1>. USE PoolAssumption DEF Goto, Tasks, pool, wire, local, files, history
<1>p1.
      /\ pc \in [Tasks -> Places] /\ hold \in [Tasks -> Conns \cup {None}]
      /\ want \in [Tasks -> Wants \cup Targets \cup {NoWant}]
      /\ doomed \in [Tasks -> SUBSET Conns] /\ clients \in [VMs -> Conns \cup {None}]
      /\ about \in [Conns -> Made \cup {NotMade}] /\ link \in [Conns -> Links]
      /\ stopped \subseteq Conns
    BY DEF TypeOK
<1>p2.
      /\ \A c \in Callers : Dialled(c) \/ pc[c] = "probe" => hold[c] \in Conns
      /\ \A c \in Callers : InFlight(c) => want[c] \in Wants /\ want[c].vm \in VMs
      /\ \A t \in Tasks : doomed[t] # {} => pc[t] = "close"
    BY DEF HandOK, Wants
<1>1. ASSUME NEW c \in Callers, NEW w \in Wants, Connect(c, w) PROVE OwnOK'
    BY <1>1, <1>p1, <1>p2 DEF Connect, OwnOK, Dialled
<1>2. ASSUME NEW c \in Callers, GetLookup(c) PROVE OwnOK'
    BY <1>2, <1>p1, <1>p2 DEF GetLookup, VM, OwnOK, Dialled
<1>3. ASSUME NEW c \in Callers, GetHit(c) PROVE OwnOK'
    BY <1>3, <1>p1, <1>p2 DEF GetHit, OwnOK, Dialled
<1>4. ASSUME NEW c \in Callers, GetDead(c) PROVE OwnOK'
    BY <1>4, <1>p1, <1>p2 DEF GetDead, OwnOK, Dialled
<1>5. ASSUME NEW c \in Callers, NEW e \in Conns, DialCheck(c, e) PROVE OwnOK'
  <2>1.
        /\ hold' = [hold EXCEPT ![c] = e] /\ pc' = [pc EXCEPT ![c] = "auth"]
        /\ link' = [link EXCEPT ![e] = "handshake"] /\ want' = want
        /\ stopped' = stopped /\ doomed' = doomed /\ link[e] = "none"
        /\ \A d \in Conns \ {e} : about'[d] = about[d]
    BY <1>5, <1>p1, <1>p2 DEF DialCheck, VM
  <2>2. about'[e] \in Made /\ about'[e].vm = want[c].vm
    BY <1>5, <1>p1, <1>p2, TypeNext DEF DialCheck, VM, HandOK, InFlight, Wants,
       TypeOK, Made
  <2>3.
        /\ pc[e] = "idle" /\ e \notin stopped
        /\ \A d \in Callers : Dialled(d) => hold[d] # e
    BY <1>5, <1>p1, <1>p2 DEF DialCheck, VM, OwnOK, Dialled
  <2>4. \A d \in Callers : Dialled(d)' => d = c \/ Dialled(d)
    BY <1>5, <1>p1, <1>p2, <2>1 DEF DialCheck, VM, Dialled
  <2>5. Dialled(c)' /\ hold'[c] = e /\ pc'[e] = "idle"
    BY <2>1, <2>3, <1>p1 DEF Dialled
  <2>6. \A d \in Callers \ {c} : pc'[d] = pc[d] /\ hold'[d] = hold[d]
    BY <2>1, <1>p1
  <2>7. \A d \in Conns : pc'[d] = pc[d]
    BY <2>1, <1>p1
  <2>8.
        /\ \A d \in Conns \ {e} : link'[d] = link[d]
        /\ link'[e] = "handshake"
    BY <2>1, <1>p1
  <2>9. OwnOK
    BY <1>5, <1>p1, <1>p2 DEF DialCheck, VM, OwnOK
  <2>10. \A d \in Callers : Dialled(d) => hold[d] \in Conns
    BY <1>p2
  <2>. QED
    BY <2>1, <2>2, <2>3, <2>4, <2>5, <2>6, <2>7, <2>8, <2>9, <2>10 DEF OwnOK,
       Dialled
<1>6. ASSUME NEW c \in Callers, DialSucceeds(c) PROVE OwnOK'
    BY <1>6, <1>p1, <1>p2 DEF DialSucceeds, OwnOK, Dialled
<1>7. ASSUME NEW c \in Callers, DialFails(c) PROVE OwnOK'
    BY <1>7, <1>p1, <1>p2 DEF DialFails, Returns, OwnOK, Dialled
<1>8. ASSUME NEW c \in Callers, DialRefused(c) PROVE OwnOK'
    BY <1>8, <1>p1, <1>p2 DEF DialRefused, Returns, OwnOK, Dialled
<1>9. ASSUME NEW c \in Callers, InsertFirst(c) PROVE OwnOK'
    BY <1>9, <1>p1, <1>p2 DEF InsertFirst, Put, VM, OwnOK, Dialled
<1>10. ASSUME NEW c \in Callers, InsertLock(c) PROVE OwnOK'
    BY <1>10, <1>p1, <1>p2 DEF InsertLock, VM, OwnOK, Dialled
<1>11. ASSUME NEW c \in Callers, InsertTheirs(c) PROVE OwnOK'
    BY <1>11, <1>p1, <1>p2 DEF InsertTheirs, VM, Alive, OwnOK, Dialled
<1>12. ASSUME NEW c \in Callers, InsertOver(c) PROVE OwnOK'
    BY <1>12, <1>p1, <1>p2 DEF InsertOver, Put, VM, Dead, OwnOK, Dialled
<1>13. ASSUME NEW c \in Callers, UseEnds(c) PROVE OwnOK'
    BY <1>13, <1>p1, <1>p2 DEF UseEnds, Returns, OwnOK, Dialled
<1>14. ASSUME NEW t \in Tasks, DropTake(t) PROVE OwnOK'
    BY <1>14, <1>p1, <1>p2, DropVM DEF DropTake, Closing, AfterDrop, OwnOK,
       Dialled, PooledIsWatched, PlacesOK
<1>15. ASSUME CloseTake PROVE OwnOK'
    BY <1>15, <1>p1, <1>p2 DEF CloseTake, Closing, AfterDrop, OwnOK, Dialled,
       PooledIsWatched
<1>16. ASSUME NEW t \in Tasks, NEW e \in Conns, CloseEntry(t, e) PROVE OwnOK'
    BY <1>16, <1>p1, <1>p2 DEF CloseEntry, Closing, AfterDrop, OwnOK, Dialled
<1>17. ASSUME NEW e \in Conns, KeepaliveTick(e) PROVE OwnOK'
    BY <1>17, <1>p1, <1>p2 DEF KeepaliveTick, OwnOK, Dialled
<1>18. ASSUME NEW e \in Conns, KeepaliveStop(e) PROVE OwnOK'
    BY <1>18, <1>p1, <1>p2 DEF KeepaliveStop, OwnOK, Dialled
<1>19. ASSUME NEW e \in Conns, KeepaliveAnswered(e) PROVE OwnOK'
    BY <1>19, <1>p1, <1>p2 DEF KeepaliveAnswered, OwnOK, Dialled
<1>20. ASSUME NEW e \in Conns, KeepaliveDead(e) PROVE OwnOK'
    BY <1>20, <1>p1, <1>p2 DEF KeepaliveDead, OwnOK, Dialled
<1>21. ASSUME NEW k \in Changers, NEW v \in VMs,
      NEW login \in Logins \cup {None}, CredChange(k, v, login)
      PROVE OwnOK'
    BY <1>21, <1>p1, <1>p2 DEF CredChange, Changes, NoWant, OwnOK, Dialled
<1>22. ASSUME NEW k \in Changers, NEW v \in VMs, ForgetHostKey(k, v) PROVE OwnOK'
    BY <1>22, <1>p1, <1>p2 DEF ForgetHostKey, Changes, NoWant, OwnOK, Dialled
<1>23. ASSUME NEW k \in Changers, NEW v \in VMs, Move(k, v) PROVE OwnOK'
    BY <1>23, <1>p1, <1>p2 DEF Move, Changes, NoWant, OwnOK, Dialled
<1>24. ASSUME NEW e \in Conns, Breaks(e) PROVE OwnOK'
    BY <1>24, <1>p1, <1>p2 DEF Breaks, OwnOK, Dialled
<1>25. ASSUME NEW e \in Conns, Hangs(e) PROVE OwnOK'
    BY <1>25, <1>p1, <1>p2 DEF Hangs, OwnOK, Dialled
<1>26. ASSUME NEW v \in VMs, NEW key \in HostKeys, Rebuilt(v, key) PROVE OwnOK'
    BY <1>26, <1>p1, <1>p2 DEF Rebuilt, OwnOK, Dialled
<1>27. CASE UNCHANGED vars
    BY <1>27 DEF vars, OwnOK, Dialled
<1>. QED
    BY <1>1, <1>2, <1>3, <1>4, <1>5, <1>6, <1>7, <1>8, <1>9, <1>10, <1>11,
       <1>12, <1>13, <1>14, <1>15, <1>16, <1>17, <1>18, <1>19, <1>20, <1>21,
       <1>22, <1>23, <1>24, <1>25, <1>26, <1>27 DEF Next, GetStep, DropStep,
       KeepaliveStep

\* An entry leaves the map with the one task that closes it.
LEMMA ClosedNext ==
    ASSUME TypeOK, PlacesOK, HandOK, OwnOK, PooledIsWatched, ClosedOnce,
           [Next]_vars
    PROVE  ClosedOnce'
<1>. USE PoolAssumption DEF Goto, Tasks, pool, wire, local, files, history
<1>p1.
      /\ pc \in [Tasks -> Places] /\ hold \in [Tasks -> Conns \cup {None}]
      /\ want \in [Tasks -> Wants \cup Targets \cup {NoWant}]
      /\ doomed \in [Tasks -> SUBSET Conns] /\ clients \in [VMs -> Conns \cup {None}]
      /\ about \in [Conns -> Made \cup {NotMade}] /\ link \in [Conns -> Links]
      /\ stopped \subseteq Conns
    BY DEF TypeOK
<1>p2.
      /\ \A c \in Callers : Dialled(c) \/ pc[c] = "probe" => hold[c] \in Conns
      /\ \A c \in Callers : InFlight(c) => want[c] \in Wants /\ want[c].vm \in VMs
      /\ \A t \in Tasks : doomed[t] # {} => pc[t] = "close"
    BY DEF HandOK, Wants
<1>1. ASSUME NEW c \in Callers, NEW w \in Wants, Connect(c, w) PROVE ClosedOnce'
    BY <1>1, <1>p1, <1>p2 DEF Connect, ClosedOnce
<1>2. ASSUME NEW c \in Callers, GetLookup(c) PROVE ClosedOnce'
    BY <1>2, <1>p1, <1>p2 DEF GetLookup, VM, ClosedOnce
<1>3. ASSUME NEW c \in Callers, GetHit(c) PROVE ClosedOnce'
    BY <1>3, <1>p1, <1>p2 DEF GetHit, ClosedOnce
<1>4. ASSUME NEW c \in Callers, GetDead(c) PROVE ClosedOnce'
    BY <1>4, <1>p1, <1>p2 DEF GetDead, ClosedOnce
<1>5. ASSUME NEW c \in Callers, NEW e \in Conns, DialCheck(c, e) PROVE ClosedOnce'
    BY <1>5, <1>p1, <1>p2 DEF DialCheck, VM, ClosedOnce
<1>6. ASSUME NEW c \in Callers, DialSucceeds(c) PROVE ClosedOnce'
    BY <1>6, <1>p1, <1>p2 DEF DialSucceeds, ClosedOnce
<1>7. ASSUME NEW c \in Callers, DialFails(c) PROVE ClosedOnce'
    BY <1>7, <1>p1, <1>p2 DEF DialFails, Returns, ClosedOnce
<1>8. ASSUME NEW c \in Callers, DialRefused(c) PROVE ClosedOnce'
    BY <1>8, <1>p1, <1>p2 DEF DialRefused, Returns, ClosedOnce
<1>9. ASSUME NEW c \in Callers, InsertFirst(c) PROVE ClosedOnce'
    BY <1>9, <1>p1, <1>p2 DEF InsertFirst, Put, VM, ClosedOnce, OwnOK, Dialled
<1>10. ASSUME NEW c \in Callers, InsertLock(c) PROVE ClosedOnce'
    BY <1>10, <1>p1, <1>p2 DEF InsertLock, VM, ClosedOnce
<1>11. ASSUME NEW c \in Callers, InsertTheirs(c) PROVE ClosedOnce'
    BY <1>11, <1>p1, <1>p2 DEF InsertTheirs, VM, Alive, ClosedOnce
<1>12. ASSUME NEW c \in Callers, InsertOver(c) PROVE ClosedOnce'
    BY <1>12, <1>p1, <1>p2 DEF InsertOver, Put, VM, Dead, ClosedOnce, OwnOK,
       Dialled
<1>13. ASSUME NEW c \in Callers, UseEnds(c) PROVE ClosedOnce'
    BY <1>13, <1>p1, <1>p2 DEF UseEnds, Returns, ClosedOnce
<1>14. ASSUME NEW t \in Tasks, DropTake(t) PROVE ClosedOnce'
    BY <1>14, <1>p1, <1>p2, DropVM DEF DropTake, Closing, AfterDrop,
       ClosedOnce, PooledIsWatched
<1>15. ASSUME CloseTake PROVE ClosedOnce'
    BY <1>15, <1>p1, <1>p2 DEF CloseTake, Closing, AfterDrop, ClosedOnce,
       PooledIsWatched
<1>16. ASSUME NEW t \in Tasks, NEW e \in Conns, CloseEntry(t, e) PROVE ClosedOnce'
    BY <1>16, <1>p1, <1>p2 DEF CloseEntry, Closing, AfterDrop, ClosedOnce
<1>17. ASSUME NEW e \in Conns, KeepaliveTick(e) PROVE ClosedOnce'
    BY <1>17, <1>p1, <1>p2 DEF KeepaliveTick, ClosedOnce
<1>18. ASSUME NEW e \in Conns, KeepaliveStop(e) PROVE ClosedOnce'
    BY <1>18, <1>p1, <1>p2 DEF KeepaliveStop, ClosedOnce
<1>19. ASSUME NEW e \in Conns, KeepaliveAnswered(e) PROVE ClosedOnce'
    BY <1>19, <1>p1, <1>p2 DEF KeepaliveAnswered, ClosedOnce
<1>20. ASSUME NEW e \in Conns, KeepaliveDead(e) PROVE ClosedOnce'
    BY <1>20, <1>p1, <1>p2 DEF KeepaliveDead, ClosedOnce
<1>21. ASSUME NEW k \in Changers, NEW v \in VMs,
      NEW login \in Logins \cup {None}, CredChange(k, v, login)
      PROVE ClosedOnce'
    BY <1>21, <1>p1, <1>p2 DEF CredChange, Changes, NoWant, ClosedOnce
<1>22. ASSUME NEW k \in Changers, NEW v \in VMs, ForgetHostKey(k, v)
      PROVE ClosedOnce'
    BY <1>22, <1>p1, <1>p2 DEF ForgetHostKey, Changes, NoWant, ClosedOnce
<1>23. ASSUME NEW k \in Changers, NEW v \in VMs, Move(k, v) PROVE ClosedOnce'
    BY <1>23, <1>p1, <1>p2 DEF Move, Changes, NoWant, ClosedOnce
<1>24. ASSUME NEW e \in Conns, Breaks(e) PROVE ClosedOnce'
    BY <1>24, <1>p1, <1>p2 DEF Breaks, ClosedOnce
<1>25. ASSUME NEW e \in Conns, Hangs(e) PROVE ClosedOnce'
    BY <1>25, <1>p1, <1>p2 DEF Hangs, ClosedOnce
<1>26. ASSUME NEW v \in VMs, NEW key \in HostKeys, Rebuilt(v, key) PROVE ClosedOnce'
    BY <1>26, <1>p1, <1>p2 DEF Rebuilt, ClosedOnce
<1>27. CASE UNCHANGED vars
    BY <1>27 DEF vars, ClosedOnce
<1>. QED
    BY <1>1, <1>2, <1>3, <1>4, <1>5, <1>6, <1>7, <1>8, <1>9, <1>10, <1>11,
       <1>12, <1>13, <1>14, <1>15, <1>16, <1>17, <1>18, <1>19, <1>20, <1>21,
       <1>22, <1>23, <1>24, <1>25, <1>26, <1>27 DEF Next, GetStep, DropStep,
       KeepaliveStep

\* Only a goroutine that has dropped its connection, or was told to, ends.
LEMMA WatchedNext ==
    ASSUME TypeOK, PlacesOK, HandOK, OwnOK, ClosedOnce, PooledIsWatched,
           [Next]_vars
    PROVE  PooledIsWatched'
<1>. USE PoolAssumption DEF Goto, Tasks, pool, wire, local, files, history
<1>p1.
      /\ pc \in [Tasks -> Places] /\ hold \in [Tasks -> Conns \cup {None}]
      /\ want \in [Tasks -> Wants \cup Targets \cup {NoWant}]
      /\ doomed \in [Tasks -> SUBSET Conns] /\ clients \in [VMs -> Conns \cup {None}]
      /\ about \in [Conns -> Made \cup {NotMade}] /\ link \in [Conns -> Links]
      /\ stopped \subseteq Conns
    BY DEF TypeOK
<1>p2.
      /\ \A c \in Callers : Dialled(c) \/ pc[c] = "probe" => hold[c] \in Conns
      /\ \A c \in Callers : InFlight(c) => want[c] \in Wants /\ want[c].vm \in VMs
      /\ \A t \in Tasks : doomed[t] # {} => pc[t] = "close"
    BY DEF HandOK, Wants
<1>1. ASSUME NEW c \in Callers, NEW w \in Wants, Connect(c, w)
      PROVE PooledIsWatched'
    BY <1>1, <1>p1, <1>p2 DEF Connect, PooledIsWatched
<1>2. ASSUME NEW c \in Callers, GetLookup(c) PROVE PooledIsWatched'
    BY <1>2, <1>p1, <1>p2 DEF GetLookup, VM, PooledIsWatched
<1>3. ASSUME NEW c \in Callers, GetHit(c) PROVE PooledIsWatched'
    BY <1>3, <1>p1, <1>p2 DEF GetHit, PooledIsWatched
<1>4. ASSUME NEW c \in Callers, GetDead(c) PROVE PooledIsWatched'
    BY <1>4, <1>p1, <1>p2 DEF GetDead, PooledIsWatched
<1>5. ASSUME NEW c \in Callers, NEW e \in Conns, DialCheck(c, e)
      PROVE PooledIsWatched'
    BY <1>5, <1>p1, <1>p2 DEF DialCheck, VM, PooledIsWatched, OwnOK
<1>6. ASSUME NEW c \in Callers, DialSucceeds(c) PROVE PooledIsWatched'
    BY <1>6, <1>p1, <1>p2 DEF DialSucceeds, PooledIsWatched
<1>7. ASSUME NEW c \in Callers, DialFails(c) PROVE PooledIsWatched'
    BY <1>7, <1>p1, <1>p2 DEF DialFails, Returns, PooledIsWatched
<1>8. ASSUME NEW c \in Callers, DialRefused(c) PROVE PooledIsWatched'
    BY <1>8, <1>p1, <1>p2 DEF DialRefused, Returns, PooledIsWatched, OwnOK,
       Dialled
<1>9. ASSUME NEW c \in Callers, InsertFirst(c) PROVE PooledIsWatched'
    BY <1>9, <1>p1, <1>p2 DEF InsertFirst, Put, VM, PooledIsWatched, OwnOK,
       Dialled, InFlight
<1>10. ASSUME NEW c \in Callers, InsertLock(c) PROVE PooledIsWatched'
    BY <1>10, <1>p1, <1>p2 DEF InsertLock, VM, PooledIsWatched
<1>11. ASSUME NEW c \in Callers, InsertTheirs(c) PROVE PooledIsWatched'
    BY <1>11, <1>p1, <1>p2 DEF InsertTheirs, VM, Alive, PooledIsWatched
<1>12. ASSUME NEW c \in Callers, InsertOver(c) PROVE PooledIsWatched'
    BY <1>12, <1>p1, <1>p2 DEF InsertOver, Put, VM, Dead, PooledIsWatched,
       OwnOK, Dialled, InFlight
<1>13. ASSUME NEW c \in Callers, UseEnds(c) PROVE PooledIsWatched'
    BY <1>13, <1>p1, <1>p2 DEF UseEnds, Returns, PooledIsWatched
<1>14. ASSUME NEW t \in Tasks, DropTake(t) PROVE PooledIsWatched'
    BY <1>14, <1>p1, <1>p2, DropVM DEF DropTake, Closing, AfterDrop,
       PooledIsWatched, VM, HandOK
<1>15. ASSUME CloseTake PROVE PooledIsWatched'
    BY <1>15, <1>p1, <1>p2 DEF CloseTake, Closing, AfterDrop, PooledIsWatched
<1>16. ASSUME NEW t \in Tasks, NEW e \in Conns, CloseEntry(t, e)
      PROVE PooledIsWatched'
    BY <1>16, <1>p1, <1>p2 DEF CloseEntry, Closing, AfterDrop, PooledIsWatched,
       ClosedOnce, HandOK
<1>17. ASSUME NEW e \in Conns, KeepaliveTick(e) PROVE PooledIsWatched'
    BY <1>17, <1>p1, <1>p2 DEF KeepaliveTick, PooledIsWatched
<1>18. ASSUME NEW e \in Conns, KeepaliveStop(e) PROVE PooledIsWatched'
    BY <1>18, <1>p1, <1>p2 DEF KeepaliveStop, PooledIsWatched
<1>19. ASSUME NEW e \in Conns, KeepaliveAnswered(e) PROVE PooledIsWatched'
    BY <1>19, <1>p1, <1>p2 DEF KeepaliveAnswered, PooledIsWatched
<1>20. ASSUME NEW e \in Conns, KeepaliveDead(e) PROVE PooledIsWatched'
    BY <1>20, <1>p1, <1>p2 DEF KeepaliveDead, PooledIsWatched
<1>21. ASSUME NEW k \in Changers, NEW v \in VMs,
      NEW login \in Logins \cup {None}, CredChange(k, v, login)
      PROVE PooledIsWatched'
    BY <1>21, <1>p1, <1>p2 DEF CredChange, Changes, NoWant, PooledIsWatched
<1>22. ASSUME NEW k \in Changers, NEW v \in VMs, ForgetHostKey(k, v)
      PROVE PooledIsWatched'
    BY <1>22, <1>p1, <1>p2 DEF ForgetHostKey, Changes, NoWant, PooledIsWatched
<1>23. ASSUME NEW k \in Changers, NEW v \in VMs, Move(k, v) PROVE PooledIsWatched'
    BY <1>23, <1>p1, <1>p2 DEF Move, Changes, NoWant, PooledIsWatched
<1>24. ASSUME NEW e \in Conns, Breaks(e) PROVE PooledIsWatched'
    BY <1>24, <1>p1, <1>p2 DEF Breaks, PooledIsWatched
<1>25. ASSUME NEW e \in Conns, Hangs(e) PROVE PooledIsWatched'
    BY <1>25, <1>p1, <1>p2 DEF Hangs, PooledIsWatched
<1>26. ASSUME NEW v \in VMs, NEW key \in HostKeys, Rebuilt(v, key)
      PROVE PooledIsWatched'
    BY <1>26, <1>p1, <1>p2 DEF Rebuilt, PooledIsWatched
<1>27. CASE UNCHANGED vars
    BY <1>27 DEF vars, PooledIsWatched
<1>. QED
    BY <1>1, <1>2, <1>3, <1>4, <1>5, <1>6, <1>7, <1>8, <1>9, <1>10, <1>11,
       <1>12, <1>13, <1>14, <1>15, <1>16, <1>17, <1>18, <1>19, <1>20, <1>21,
       <1>22, <1>23, <1>24, <1>25, <1>26, <1>27 DEF Next, GetStep, DropStep,
       KeepaliveStep

\* A connection is closed by the task that takes it from its owner.
LEMMA OpenNext ==
    ASSUME TypeOK, PlacesOK, HandOK, OwnOK, OpenIsOwned, [Next]_vars
    PROVE  OpenIsOwned'
<1>. USE PoolAssumption DEF Goto, Tasks, pool, wire, local, files, history
<1>p1.
      /\ pc \in [Tasks -> Places] /\ hold \in [Tasks -> Conns \cup {None}]
      /\ want \in [Tasks -> Wants \cup Targets \cup {NoWant}]
      /\ doomed \in [Tasks -> SUBSET Conns] /\ clients \in [VMs -> Conns \cup {None}]
      /\ about \in [Conns -> Made \cup {NotMade}] /\ link \in [Conns -> Links]
      /\ stopped \subseteq Conns
    BY DEF TypeOK
<1>p2.
      /\ \A c \in Callers : Dialled(c) \/ pc[c] = "probe" => hold[c] \in Conns
      /\ \A c \in Callers : InFlight(c) => want[c] \in Wants /\ want[c].vm \in VMs
      /\ \A t \in Tasks : doomed[t] # {} => pc[t] = "close"
    BY DEF HandOK, Wants
<1>1. ASSUME NEW c \in Callers, NEW w \in Wants, Connect(c, w) PROVE OpenIsOwned'
    BY <1>1, <1>p1, <1>p2 DEF Connect, OpenIsOwned
<1>2. ASSUME NEW c \in Callers, GetLookup(c) PROVE OpenIsOwned'
    BY <1>2, <1>p1, <1>p2 DEF GetLookup, VM, OpenIsOwned, OwnOK
<1>3. ASSUME NEW c \in Callers, GetHit(c) PROVE OpenIsOwned'
    BY <1>3, <1>p1, <1>p2 DEF GetHit, OpenIsOwned
<1>4. ASSUME NEW c \in Callers, GetDead(c) PROVE OpenIsOwned'
    BY <1>4, <1>p1, <1>p2 DEF GetDead, OpenIsOwned
<1>5. ASSUME NEW c \in Callers, NEW e \in Conns, DialCheck(c, e) PROVE OpenIsOwned'
    BY <1>5, <1>p1, <1>p2 DEF DialCheck, VM, OpenIsOwned
<1>6. ASSUME NEW c \in Callers, DialSucceeds(c) PROVE OpenIsOwned'
    BY <1>6, <1>p1, <1>p2 DEF DialSucceeds, OpenIsOwned, Dialled
<1>7. ASSUME NEW c \in Callers, DialFails(c) PROVE OpenIsOwned'
    BY <1>7, <1>p1, <1>p2 DEF DialFails, Returns, OpenIsOwned
<1>8. ASSUME NEW c \in Callers, DialRefused(c) PROVE OpenIsOwned'
    BY <1>8, <1>p1, <1>p2 DEF DialRefused, Returns, OpenIsOwned, Dialled
<1>9. ASSUME NEW c \in Callers, InsertFirst(c) PROVE OpenIsOwned'
    BY <1>9, <1>p1, <1>p2 DEF InsertFirst, Put, VM, OpenIsOwned, InFlight
<1>10. ASSUME NEW c \in Callers, InsertLock(c) PROVE OpenIsOwned'
    BY <1>10, <1>p1, <1>p2 DEF InsertLock, VM, OpenIsOwned
<1>11. ASSUME NEW c \in Callers, InsertTheirs(c) PROVE OpenIsOwned'
    BY <1>11, <1>p1, <1>p2 DEF InsertTheirs, VM, Alive, OpenIsOwned, OwnOK,
       Dialled, InFlight
<1>12. ASSUME NEW c \in Callers, InsertOver(c) PROVE OpenIsOwned'
    BY <1>12, <1>p1, <1>p2 DEF InsertOver, Put, VM, Dead, OpenIsOwned, OwnOK,
       Dialled, InFlight
<1>13. ASSUME NEW c \in Callers, UseEnds(c) PROVE OpenIsOwned'
    BY <1>13, <1>p1, <1>p2 DEF UseEnds, Returns, OpenIsOwned
<1>14. ASSUME NEW t \in Tasks, DropTake(t) PROVE OpenIsOwned'
    BY <1>14, <1>p1, <1>p2, DropVM DEF DropTake, Closing, AfterDrop,
       OpenIsOwned, PlacesOK
<1>15. ASSUME CloseTake PROVE OpenIsOwned'
    BY <1>15, <1>p1, <1>p2 DEF CloseTake, Closing, AfterDrop, OpenIsOwned
<1>16. ASSUME NEW t \in Tasks, NEW e \in Conns, CloseEntry(t, e) PROVE OpenIsOwned'
    BY <1>16, <1>p1, <1>p2 DEF CloseEntry, Closing, AfterDrop, OpenIsOwned
<1>17. ASSUME NEW e \in Conns, KeepaliveTick(e) PROVE OpenIsOwned'
    BY <1>17, <1>p1, <1>p2 DEF KeepaliveTick, OpenIsOwned
<1>18. ASSUME NEW e \in Conns, KeepaliveStop(e) PROVE OpenIsOwned'
    BY <1>18, <1>p1, <1>p2 DEF KeepaliveStop, OpenIsOwned
<1>19. ASSUME NEW e \in Conns, KeepaliveAnswered(e) PROVE OpenIsOwned'
    BY <1>19, <1>p1, <1>p2 DEF KeepaliveAnswered, OpenIsOwned
<1>20. ASSUME NEW e \in Conns, KeepaliveDead(e) PROVE OpenIsOwned'
    BY <1>20, <1>p1, <1>p2 DEF KeepaliveDead, OpenIsOwned
<1>21. ASSUME NEW k \in Changers, NEW v \in VMs,
      NEW login \in Logins \cup {None}, CredChange(k, v, login)
      PROVE OpenIsOwned'
    BY <1>21, <1>p1, <1>p2 DEF CredChange, Changes, NoWant, OpenIsOwned
<1>22. ASSUME NEW k \in Changers, NEW v \in VMs, ForgetHostKey(k, v)
      PROVE OpenIsOwned'
    BY <1>22, <1>p1, <1>p2 DEF ForgetHostKey, Changes, NoWant, OpenIsOwned
<1>23. ASSUME NEW k \in Changers, NEW v \in VMs, Move(k, v) PROVE OpenIsOwned'
    BY <1>23, <1>p1, <1>p2 DEF Move, Changes, NoWant, OpenIsOwned
<1>24. ASSUME NEW e \in Conns, Breaks(e) PROVE OpenIsOwned'
    BY <1>24, <1>p1, <1>p2 DEF Breaks, OpenIsOwned
<1>25. ASSUME NEW e \in Conns, Hangs(e) PROVE OpenIsOwned'
    BY <1>25, <1>p1, <1>p2 DEF Hangs, OpenIsOwned
<1>26. ASSUME NEW v \in VMs, NEW key \in HostKeys, Rebuilt(v, key)
      PROVE OpenIsOwned'
    BY <1>26, <1>p1, <1>p2 DEF Rebuilt, OpenIsOwned
<1>27. CASE UNCHANGED vars
    BY <1>27 DEF vars, OpenIsOwned
<1>. QED
    BY <1>1, <1>2, <1>3, <1>4, <1>5, <1>6, <1>7, <1>8, <1>9, <1>10, <1>11,
       <1>12, <1>13, <1>14, <1>15, <1>16, <1>17, <1>18, <1>19, <1>20, <1>21,
       <1>22, <1>23, <1>24, <1>25, <1>26, <1>27 DEF Next, GetStep, DropStep,
       KeepaliveStep

\* A connection is made only to a host that presents the pin.
LEMMA PinNext ==
    ASSUME TypeOK, HandOK, OwnOK, PinOK, [Next]_vars
    PROVE  PinOK'
<1>. USE PoolAssumption DEF Goto, Tasks, pool, wire, local, files, history
<1>p1.
      /\ pc \in [Tasks -> Places] /\ hold \in [Tasks -> Conns \cup {None}]
      /\ want \in [Tasks -> Wants \cup Targets \cup {NoWant}]
      /\ doomed \in [Tasks -> SUBSET Conns] /\ clients \in [VMs -> Conns \cup {None}]
      /\ about \in [Conns -> Made \cup {NotMade}] /\ link \in [Conns -> Links]
      /\ stopped \subseteq Conns
    BY DEF TypeOK
<1>p2. \A c \in Callers : Dialled(c) => hold[c] \in Conns
    BY DEF HandOK
<1>p3. \A e \in Conns : about[e] # NotMade => about[e] \in Made /\ about[e].key # None
    BY <1>p1 DEF Made
<1>p4. DOMAIN pins = VMs
    BY DEF TypeOK
<1>1. ASSUME NEW c \in Callers, NEW w \in Wants, Connect(c, w) PROVE PinOK'
    BY <1>1, <1>p1, <1>p2, <1>p3, <1>p4 DEF Connect, PinOK
<1>2. ASSUME NEW c \in Callers, GetLookup(c) PROVE PinOK'
    BY <1>2, <1>p1, <1>p2, <1>p3, <1>p4 DEF GetLookup, VM, PinOK
<1>3. ASSUME NEW c \in Callers, GetHit(c) PROVE PinOK'
    BY <1>3, <1>p1, <1>p2, <1>p3, <1>p4 DEF GetHit, PinOK
<1>4. ASSUME NEW c \in Callers, GetDead(c) PROVE PinOK'
    BY <1>4, <1>p1, <1>p2, <1>p3, <1>p4 DEF GetDead, PinOK
<1>5. ASSUME NEW c \in Callers, NEW e \in Conns, DialCheck(c, e) PROVE PinOK'
    BY <1>5, <1>p1, <1>p2, <1>p3, <1>p4 DEF DialCheck, VM, PinOK, HandOK,
       InFlight, Wants, Check
<1>6. ASSUME NEW c \in Callers, DialSucceeds(c) PROVE PinOK'
    BY <1>6, <1>p1, <1>p2, <1>p3, <1>p4 DEF DialSucceeds, PinOK
<1>7. ASSUME NEW c \in Callers, DialFails(c) PROVE PinOK'
    BY <1>7, <1>p1, <1>p2, <1>p3, <1>p4 DEF DialFails, Returns, PinOK
<1>8. ASSUME NEW c \in Callers, DialRefused(c) PROVE PinOK'
    BY <1>8, <1>p1, <1>p2, <1>p3, <1>p4 DEF DialRefused, Returns, PinOK, Dialled
<1>9. ASSUME NEW c \in Callers, InsertFirst(c) PROVE PinOK'
    BY <1>9, <1>p1, <1>p2, <1>p3, <1>p4 DEF InsertFirst, Put, VM, PinOK
<1>10. ASSUME NEW c \in Callers, InsertLock(c) PROVE PinOK'
    BY <1>10, <1>p1, <1>p2, <1>p3, <1>p4 DEF InsertLock, VM, PinOK
<1>11. ASSUME NEW c \in Callers, InsertTheirs(c) PROVE PinOK'
    BY <1>11, <1>p1, <1>p2, <1>p3, <1>p4 DEF InsertTheirs, VM, Alive, PinOK
<1>12. ASSUME NEW c \in Callers, InsertOver(c) PROVE PinOK'
    BY <1>12, <1>p1, <1>p2, <1>p3, <1>p4 DEF InsertOver, Put, VM, Dead, PinOK
<1>13. ASSUME NEW c \in Callers, UseEnds(c) PROVE PinOK'
    BY <1>13, <1>p1, <1>p2, <1>p3, <1>p4 DEF UseEnds, Returns, PinOK
<1>14. ASSUME NEW t \in Tasks, DropTake(t) PROVE PinOK'
    BY <1>14, <1>p1, <1>p2, <1>p3, <1>p4 DEF DropTake, Closing, AfterDrop, PinOK
<1>15. ASSUME CloseTake PROVE PinOK'
    BY <1>15, <1>p1, <1>p2, <1>p3, <1>p4 DEF CloseTake, Closing, AfterDrop,
       PinOK
<1>16. ASSUME NEW t \in Tasks, NEW e \in Conns, CloseEntry(t, e) PROVE PinOK'
    BY <1>16, <1>p1, <1>p2, <1>p3, <1>p4 DEF CloseEntry, Closing, AfterDrop,
       PinOK
<1>17. ASSUME NEW e \in Conns, KeepaliveTick(e) PROVE PinOK'
    BY <1>17, <1>p1, <1>p2, <1>p3, <1>p4 DEF KeepaliveTick, PinOK
<1>18. ASSUME NEW e \in Conns, KeepaliveStop(e) PROVE PinOK'
    BY <1>18, <1>p1, <1>p2, <1>p3, <1>p4 DEF KeepaliveStop, PinOK
<1>19. ASSUME NEW e \in Conns, KeepaliveAnswered(e) PROVE PinOK'
    BY <1>19, <1>p1, <1>p2, <1>p3, <1>p4 DEF KeepaliveAnswered, PinOK
<1>20. ASSUME NEW e \in Conns, KeepaliveDead(e) PROVE PinOK'
    BY <1>20, <1>p1, <1>p2, <1>p3, <1>p4 DEF KeepaliveDead, PinOK
<1>21. ASSUME NEW k \in Changers, NEW v \in VMs,
      NEW login \in Logins \cup {None}, CredChange(k, v, login)
      PROVE PinOK'
    BY <1>21, <1>p1, <1>p2, <1>p3, <1>p4 DEF CredChange, Changes, NoWant, PinOK
<1>22. ASSUME NEW k \in Changers, NEW v \in VMs, ForgetHostKey(k, v) PROVE PinOK'
    BY <1>22, <1>p1, <1>p2, <1>p3, <1>p4 DEF ForgetHostKey, Changes, NoWant,
       PinOK
<1>23. ASSUME NEW k \in Changers, NEW v \in VMs, Move(k, v) PROVE PinOK'
    BY <1>23, <1>p1, <1>p2, <1>p3, <1>p4 DEF Move, Changes, NoWant, PinOK
<1>24. ASSUME NEW e \in Conns, Breaks(e) PROVE PinOK'
    BY <1>24, <1>p1, <1>p2, <1>p3, <1>p4 DEF Breaks, PinOK
<1>25. ASSUME NEW e \in Conns, Hangs(e) PROVE PinOK'
    BY <1>25, <1>p1, <1>p2, <1>p3, <1>p4 DEF Hangs, PinOK
<1>26. ASSUME NEW v \in VMs, NEW key \in HostKeys, Rebuilt(v, key) PROVE PinOK'
    BY <1>26, <1>p1, <1>p2, <1>p3, <1>p4 DEF Rebuilt, PinOK
<1>27. CASE UNCHANGED vars
    BY <1>27 DEF vars, PinOK
<1>. QED
    BY <1>1, <1>2, <1>3, <1>4, <1>5, <1>6, <1>7, <1>8, <1>9, <1>10, <1>11,
       <1>12, <1>13, <1>14, <1>15, <1>16, <1>17, <1>18, <1>19, <1>20, <1>21,
       <1>22, <1>23, <1>24, <1>25, <1>26, <1>27 DEF Next, GetStep, DropStep,
       KeepaliveStep

\* A change marks whoever is on the way with the old credential.
LEMMA FreshNext ==
    ASSUME TypeOK, PlacesOK, HandOK, OwnOK, FreshOK, [Next]_vars
    PROVE  FreshOK'
<1>. USE PoolAssumption DEF Goto, Tasks, pool, wire, local, files, history
<1>p1.
      /\ pc \in [Tasks -> Places] /\ hold \in [Tasks -> Conns \cup {None}]
      /\ want \in [Tasks -> Wants \cup Targets \cup {NoWant}]
      /\ doomed \in [Tasks -> SUBSET Conns] /\ clients \in [VMs -> Conns \cup {None}]
      /\ about \in [Conns -> Made \cup {NotMade}] /\ link \in [Conns -> Links]
      /\ stopped \subseteq Conns
    BY DEF TypeOK
<1>p2.
      /\ \A c \in Callers : Dialled(c) \/ pc[c] = "probe" => hold[c] \in Conns
      /\ \A c \in Callers : InFlight(c) => want[c] \in Wants /\ want[c].vm \in VMs
      /\ \A t \in Tasks : doomed[t] # {} => pc[t] = "close"
    BY DEF HandOK, Wants
<1>p3. DOMAIN stored = VMs /\ late \subseteq Callers \cup Conns
    BY DEF TypeOK
<1>1. ASSUME NEW c \in Callers, NEW w \in Wants, Connect(c, w) PROVE FreshOK'
    BY <1>1, <1>p1, <1>p2, <1>p3 DEF Connect, FreshOK, InFlight, Dialled
<1>2. ASSUME NEW c \in Callers, GetLookup(c) PROVE FreshOK'
    BY <1>2, <1>p1, <1>p2, <1>p3 DEF GetLookup, VM, FreshOK, InFlight, Dialled
<1>3. ASSUME NEW c \in Callers, GetHit(c) PROVE FreshOK'
    BY <1>3, <1>p1, <1>p2, <1>p3 DEF GetHit, FreshOK, InFlight, Dialled
<1>4. ASSUME NEW c \in Callers, GetDead(c) PROVE FreshOK'
    BY <1>4, <1>p1, <1>p2, <1>p3 DEF GetDead, FreshOK, InFlight, Dialled
<1>5. ASSUME NEW c \in Callers, NEW e \in Conns, DialCheck(c, e) PROVE FreshOK'
    BY <1>5, <1>p1, <1>p2, <1>p3 DEF DialCheck, VM, FreshOK, InFlight, Dialled,
       OwnOK
<1>6. ASSUME NEW c \in Callers, DialSucceeds(c) PROVE FreshOK'
    BY <1>6, <1>p1, <1>p2, <1>p3 DEF DialSucceeds, FreshOK, InFlight, Dialled
<1>7. ASSUME NEW c \in Callers, DialFails(c) PROVE FreshOK'
    BY <1>7, <1>p1, <1>p2, <1>p3 DEF DialFails, Returns, FreshOK, InFlight,
       Dialled
<1>8. ASSUME NEW c \in Callers, DialRefused(c) PROVE FreshOK'
    BY <1>8, <1>p1, <1>p2, <1>p3 DEF DialRefused, Returns, FreshOK, InFlight,
       Dialled, OwnOK
<1>9. ASSUME NEW c \in Callers, InsertFirst(c) PROVE FreshOK'
    BY <1>9, <1>p1, <1>p2, <1>p3 DEF InsertFirst, Put, VM, FreshOK, InFlight,
       Dialled
<1>10. ASSUME NEW c \in Callers, InsertLock(c) PROVE FreshOK'
    BY <1>10, <1>p1, <1>p2, <1>p3 DEF InsertLock, VM, FreshOK, InFlight, Dialled
<1>11. ASSUME NEW c \in Callers, InsertTheirs(c) PROVE FreshOK'
    BY <1>11, <1>p1, <1>p2, <1>p3 DEF InsertTheirs, VM, Alive, FreshOK,
       InFlight, Dialled
<1>12. ASSUME NEW c \in Callers, InsertOver(c) PROVE FreshOK'
    BY <1>12, <1>p1, <1>p2, <1>p3 DEF InsertOver, Put, VM, Dead, FreshOK,
       InFlight, Dialled
<1>13. ASSUME NEW c \in Callers, UseEnds(c) PROVE FreshOK'
    BY <1>13, <1>p1, <1>p2, <1>p3 DEF UseEnds, Returns, FreshOK, InFlight,
       Dialled
<1>14. ASSUME NEW t \in Tasks, DropTake(t) PROVE FreshOK'
    BY <1>14, <1>p1, <1>p2, <1>p3 DEF DropTake, Closing, AfterDrop, FreshOK,
       InFlight, Dialled
<1>15. ASSUME CloseTake PROVE FreshOK'
    BY <1>15, <1>p1, <1>p2, <1>p3 DEF CloseTake, Closing, AfterDrop, FreshOK,
       InFlight, Dialled
<1>16. ASSUME NEW t \in Tasks, NEW e \in Conns, CloseEntry(t, e) PROVE FreshOK'
    BY <1>16, <1>p1, <1>p2, <1>p3 DEF CloseEntry, Closing, AfterDrop, FreshOK,
       InFlight, Dialled, OwnOK
<1>17. ASSUME NEW e \in Conns, KeepaliveTick(e) PROVE FreshOK'
    BY <1>17, <1>p1, <1>p2, <1>p3 DEF KeepaliveTick, FreshOK, InFlight, Dialled
<1>18. ASSUME NEW e \in Conns, KeepaliveStop(e) PROVE FreshOK'
    BY <1>18, <1>p1, <1>p2, <1>p3 DEF KeepaliveStop, FreshOK, InFlight, Dialled
<1>19. ASSUME NEW e \in Conns, KeepaliveAnswered(e) PROVE FreshOK'
    BY <1>19, <1>p1, <1>p2, <1>p3 DEF KeepaliveAnswered, FreshOK, InFlight,
       Dialled
<1>20. ASSUME NEW e \in Conns, KeepaliveDead(e) PROVE FreshOK'
    BY <1>20, <1>p1, <1>p2, <1>p3 DEF KeepaliveDead, FreshOK, InFlight, Dialled
<1>21. ASSUME NEW k \in Changers, NEW v \in VMs,
      NEW login \in Logins \cup {None}, CredChange(k, v, login)
      PROVE FreshOK'
    BY <1>21, <1>p1, <1>p2, <1>p3 DEF CredChange, Changes, NoWant, FreshOK,
       InFlight, Dialled, Overtaken
<1>22. ASSUME NEW k \in Changers, NEW v \in VMs, ForgetHostKey(k, v) PROVE FreshOK'
    BY <1>22, <1>p1, <1>p2, <1>p3 DEF ForgetHostKey, Changes, NoWant, FreshOK,
       InFlight, Dialled
<1>23. ASSUME NEW k \in Changers, NEW v \in VMs, Move(k, v) PROVE FreshOK'
    BY <1>23, <1>p1, <1>p2, <1>p3 DEF Move, Changes, NoWant, FreshOK, InFlight,
       Dialled
<1>24. ASSUME NEW e \in Conns, Breaks(e) PROVE FreshOK'
    BY <1>24, <1>p1, <1>p2, <1>p3 DEF Breaks, FreshOK, InFlight, Dialled
<1>25. ASSUME NEW e \in Conns, Hangs(e) PROVE FreshOK'
    BY <1>25, <1>p1, <1>p2, <1>p3 DEF Hangs, FreshOK, InFlight, Dialled
<1>26. ASSUME NEW v \in VMs, NEW key \in HostKeys, Rebuilt(v, key) PROVE FreshOK'
    BY <1>26, <1>p1, <1>p2, <1>p3 DEF Rebuilt, FreshOK, InFlight, Dialled
<1>27. CASE UNCHANGED vars
    BY <1>27 DEF vars, FreshOK, InFlight, Dialled
<1>. QED
    BY <1>1, <1>2, <1>3, <1>4, <1>5, <1>6, <1>7, <1>8, <1>9, <1>10, <1>11,
       <1>12, <1>13, <1>14, <1>15, <1>16, <1>17, <1>18, <1>19, <1>20, <1>21,
       <1>22, <1>23, <1>24, <1>25, <1>26, <1>27 DEF Next, GetStep, DropStep,
       KeepaliveStep

\* What a change overtakes is all that can outlive it.
LEMMA StaleNext ==
    ASSUME TypeOK, PlacesOK, HandOK, OwnOK, PooledIsWatched, ClosedOnce,
           FreshOK, StaleOnlyIfOvertaken, [Next]_vars
    PROVE  StaleOnlyIfOvertaken'
<1>. USE PoolAssumption DEF Goto, Tasks, pool, wire, local, files, history
<1>p1.
      /\ pc \in [Tasks -> Places] /\ hold \in [Tasks -> Conns \cup {None}]
      /\ want \in [Tasks -> Wants \cup Targets \cup {NoWant}]
      /\ doomed \in [Tasks -> SUBSET Conns] /\ clients \in [VMs -> Conns \cup {None}]
      /\ about \in [Conns -> Made \cup {NotMade}] /\ link \in [Conns -> Links]
      /\ stopped \subseteq Conns
    BY DEF TypeOK
<1>p2.
      /\ \A c \in Callers : Dialled(c) \/ pc[c] = "probe" => hold[c] \in Conns
      /\ \A c \in Callers : InFlight(c) => want[c] \in Wants /\ want[c].vm \in VMs
      /\ \A t \in Tasks : doomed[t] # {} => pc[t] = "close"
    BY DEF HandOK, Wants
<1>p3. DOMAIN stored = VMs /\ late \subseteq Callers \cup Conns
    BY DEF TypeOK
<1>1. ASSUME NEW c \in Callers, NEW w \in Wants, Connect(c, w)
      PROVE StaleOnlyIfOvertaken'
    BY <1>1, <1>p1, <1>p2, <1>p3 DEF Connect, StaleOnlyIfOvertaken, VM
<1>2. ASSUME NEW c \in Callers, GetLookup(c) PROVE StaleOnlyIfOvertaken'
    BY <1>2, <1>p1, <1>p2, <1>p3 DEF GetLookup, VM, StaleOnlyIfOvertaken, VM
<1>3. ASSUME NEW c \in Callers, GetHit(c) PROVE StaleOnlyIfOvertaken'
    BY <1>3, <1>p1, <1>p2, <1>p3 DEF GetHit, StaleOnlyIfOvertaken, VM
<1>4. ASSUME NEW c \in Callers, GetDead(c) PROVE StaleOnlyIfOvertaken'
    BY <1>4, <1>p1, <1>p2, <1>p3 DEF GetDead, StaleOnlyIfOvertaken, VM
<1>5. ASSUME NEW c \in Callers, NEW e \in Conns, DialCheck(c, e)
      PROVE StaleOnlyIfOvertaken'
    BY <1>5, <1>p1, <1>p2, <1>p3 DEF DialCheck, VM, StaleOnlyIfOvertaken, VM,
       PooledIsWatched, OwnOK
<1>6. ASSUME NEW c \in Callers, DialSucceeds(c) PROVE StaleOnlyIfOvertaken'
    BY <1>6, <1>p1, <1>p2, <1>p3 DEF DialSucceeds, StaleOnlyIfOvertaken, VM,
       PooledIsWatched
<1>7. ASSUME NEW c \in Callers, DialFails(c) PROVE StaleOnlyIfOvertaken'
    BY <1>7, <1>p1, <1>p2, <1>p3 DEF DialFails, Returns, StaleOnlyIfOvertaken,
       VM
<1>8. ASSUME NEW c \in Callers, DialRefused(c) PROVE StaleOnlyIfOvertaken'
    BY <1>8, <1>p1, <1>p2, <1>p3 DEF DialRefused, Returns,
       StaleOnlyIfOvertaken, VM, PooledIsWatched, OwnOK, Dialled
<1>9. ASSUME NEW c \in Callers, InsertFirst(c) PROVE StaleOnlyIfOvertaken'
    BY <1>9, <1>p1, <1>p2, <1>p3 DEF InsertFirst, Put, VM,
       StaleOnlyIfOvertaken, VM, FreshOK, InFlight, Dialled
<1>10. ASSUME NEW c \in Callers, InsertLock(c) PROVE StaleOnlyIfOvertaken'
    BY <1>10, <1>p1, <1>p2, <1>p3 DEF InsertLock, VM, StaleOnlyIfOvertaken, VM
<1>11. ASSUME NEW c \in Callers, InsertTheirs(c) PROVE StaleOnlyIfOvertaken'
    BY <1>11, <1>p1, <1>p2, <1>p3 DEF InsertTheirs, VM, Alive,
       StaleOnlyIfOvertaken, VM
<1>12. ASSUME NEW c \in Callers, InsertOver(c) PROVE StaleOnlyIfOvertaken'
    BY <1>12, <1>p1, <1>p2, <1>p3 DEF InsertOver, Put, VM, Dead,
       StaleOnlyIfOvertaken, VM, FreshOK, InFlight, Dialled
<1>13. ASSUME NEW c \in Callers, UseEnds(c) PROVE StaleOnlyIfOvertaken'
    BY <1>13, <1>p1, <1>p2, <1>p3 DEF UseEnds, Returns, StaleOnlyIfOvertaken, VM
<1>14. ASSUME NEW t \in Tasks, DropTake(t) PROVE StaleOnlyIfOvertaken'
    BY <1>14, <1>p1, <1>p2, <1>p3, DropVM DEF DropTake, Closing, AfterDrop,
       StaleOnlyIfOvertaken, VM
<1>15. ASSUME CloseTake PROVE StaleOnlyIfOvertaken'
    BY <1>15, <1>p1, <1>p2, <1>p3 DEF CloseTake, Closing, AfterDrop,
       StaleOnlyIfOvertaken, VM
<1>16. ASSUME NEW t \in Tasks, NEW e \in Conns, CloseEntry(t, e)
      PROVE StaleOnlyIfOvertaken'
    BY <1>16, <1>p1, <1>p2, <1>p3 DEF CloseEntry, Closing, AfterDrop,
       StaleOnlyIfOvertaken, VM, ClosedOnce, HandOK
<1>17. ASSUME NEW e \in Conns, KeepaliveTick(e) PROVE StaleOnlyIfOvertaken'
    BY <1>17, <1>p1, <1>p2, <1>p3 DEF KeepaliveTick, StaleOnlyIfOvertaken, VM
<1>18. ASSUME NEW e \in Conns, KeepaliveStop(e) PROVE StaleOnlyIfOvertaken'
    BY <1>18, <1>p1, <1>p2, <1>p3 DEF KeepaliveStop, StaleOnlyIfOvertaken, VM
<1>19. ASSUME NEW e \in Conns, KeepaliveAnswered(e) PROVE StaleOnlyIfOvertaken'
    BY <1>19, <1>p1, <1>p2, <1>p3 DEF KeepaliveAnswered, StaleOnlyIfOvertaken,
       VM
<1>20. ASSUME NEW e \in Conns, KeepaliveDead(e) PROVE StaleOnlyIfOvertaken'
    BY <1>20, <1>p1, <1>p2, <1>p3 DEF KeepaliveDead, StaleOnlyIfOvertaken, VM
<1>21. ASSUME NEW k \in Changers, NEW v \in VMs,
      NEW login \in Logins \cup {None}, CredChange(k, v, login)
      PROVE StaleOnlyIfOvertaken'
    BY <1>21, <1>p1, <1>p2, <1>p3 DEF CredChange, Changes, NoWant,
       StaleOnlyIfOvertaken, VM, PlacesOK
<1>22. ASSUME NEW k \in Changers, NEW v \in VMs, ForgetHostKey(k, v)
      PROVE StaleOnlyIfOvertaken'
    BY <1>22, <1>p1, <1>p2, <1>p3 DEF ForgetHostKey, Changes, NoWant,
       StaleOnlyIfOvertaken, VM
<1>23. ASSUME NEW k \in Changers, NEW v \in VMs, Move(k, v)
      PROVE StaleOnlyIfOvertaken'
    BY <1>23, <1>p1, <1>p2, <1>p3 DEF Move, Changes, NoWant,
       StaleOnlyIfOvertaken, VM
<1>24. ASSUME NEW e \in Conns, Breaks(e) PROVE StaleOnlyIfOvertaken'
    BY <1>24, <1>p1, <1>p2, <1>p3 DEF Breaks, StaleOnlyIfOvertaken, VM
<1>25. ASSUME NEW e \in Conns, Hangs(e) PROVE StaleOnlyIfOvertaken'
    BY <1>25, <1>p1, <1>p2, <1>p3 DEF Hangs, StaleOnlyIfOvertaken, VM
<1>26. ASSUME NEW v \in VMs, NEW key \in HostKeys, Rebuilt(v, key)
      PROVE StaleOnlyIfOvertaken'
    BY <1>26, <1>p1, <1>p2, <1>p3 DEF Rebuilt, StaleOnlyIfOvertaken, VM
<1>27. CASE UNCHANGED vars
    BY <1>27 DEF vars, StaleOnlyIfOvertaken, VM
<1>. QED
    BY <1>1, <1>2, <1>3, <1>4, <1>5, <1>6, <1>7, <1>8, <1>9, <1>10, <1>11,
       <1>12, <1>13, <1>14, <1>15, <1>16, <1>17, <1>18, <1>19, <1>20, <1>21,
       <1>22, <1>23, <1>24, <1>25, <1>26, <1>27 DEF Next, GetStep, DropStep,
       KeepaliveStep

-----------------------------------------------------------------------------
\* The invariant holds at first, and every step keeps it.
LEMMA InvInit == Init => PoolInv
<1>. SUFFICES ASSUME Init PROVE PoolInv
    OBVIOUS
<1>. USE PoolAssumption
<1>1. TypeOK
    BY DEF Init, TypeOK, Places, Links, Tasks
<1>2. /\ \A t \in Tasks : pc[t] = "idle" /\ doomed[t] = {}
      /\ \A e \in Conns : link[e] = "none" /\ about[e] = NotMade
      /\ \A v \in VMs : clients[v] = None
      /\ stopped = {}
    BY DEF Init
<1>3. PlacesOK /\ HandOK /\ OwnOK
    BY <1>2 DEF PlacesOK, HandOK, OwnOK, InFlight, Dialled, Tasks
<1>4. ClosedOnce /\ PooledIsWatched /\ OpenIsOwned /\ StaleOnlyIfOvertaken
    BY <1>2 DEF ClosedOnce, PooledIsWatched, OpenIsOwned, StaleOnlyIfOvertaken
<1>5. PinOK /\ FreshOK
    BY <1>2 DEF PinOK, FreshOK, InFlight, Dialled, Tasks
<1>. QED
    BY <1>1, <1>3, <1>4, <1>5 DEF PoolInv

LEMMA InvNext == PoolInv /\ [Next]_vars => PoolInv'
<1>. SUFFICES ASSUME PoolInv, [Next]_vars PROVE PoolInv'
    OBVIOUS
<1>. QED
    BY TypeNext, PlacesNext, HandNext, OwnNext, ClosedNext, WatchedNext,
       OpenNext, PinNext, FreshNext, StaleNext DEF PoolInv

\* The inductive invariant holds of every behaviour.
THEOREM PoolSafe == Spec => []PoolInv
BY InvInit, InvNext, PTL DEF Spec

\* Every variable keeps its type; in particular, Drop never closes an entry
\* that is not there.
THEOREM PoolTypeCorrect == Spec => []TypeOK
<1>1. PoolInv => TypeOK
    BY DEF PoolInv
<1>. QED
    BY <1>1, PoolSafe, PTL

\* However Get, Drop, Close and the keepalive goroutines overlap, no stop channel
\* is closed twice.
THEOREM ClosedAtMostOnce == Spec => []ClosedOnce
<1>1. PoolInv => ClosedOnce
    BY DEF PoolInv
<1>. QED
    BY <1>1, PoolSafe, PTL

\* A connection that is open can always be reached by what will close it.
THEOREM NoConnectionLeaks == Spec => []OpenIsOwned
<1>1. PoolInv => OpenIsOwned
    BY DEF PoolInv
<1>. QED
    BY <1>1, PoolSafe, PTL

\* A pooled connection never stays in the pool unwatched.
THEOREM PooledAlwaysWatched == Spec => []PooledIsWatched
<1>1. PoolInv => PooledIsWatched
    BY DEF PoolInv
<1>. QED
    BY <1>1, PoolSafe, PTL

\* A change of credential leaves no connection behind except those it overtook.
THEOREM ChangeDropsTheRest == Spec => []StaleOnlyIfOvertaken
<1>1. PoolInv => StaleOnlyIfOvertaken
    BY DEF PoolInv
<1>. QED
    BY <1>1, PoolSafe, PTL

\* Without a client's consent no VM is ever reached under two host keys.
THEOREM IdentityKept == Spec => []OneIdentity
<1>1. PoolInv => OneIdentity
    BY DEF PoolInv, PinOK, OneIdentity
<1>. QED
    BY <1>1, PoolSafe, PTL
=============================================================================
