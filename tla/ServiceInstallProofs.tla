------------------------ MODULE ServiceInstallProofs ------------------------
(***************************************************************************)
(* The safety properties of ServiceInstall for any images, any names to    *)
(* move an image in use to and any number of edits.                        *)
(***************************************************************************)
EXTENDS ServiceInstall, TLAPS

(* What each kind of process does.  Only an install has an image, and it is a
   published one.  One that took an error for the absence of the service stops
   and deletes none. *)
KindOK ==
  /\ proc.pc \in {"load", "save"} => proc.kind = "install"
  /\ proc.pc = "open" => proc.kind # "upgrade"
  /\ proc.pc \in Stages \cup {"placed", "start", "starting"} => proc.kind \in {"install", "upgrade"}
  /\ proc.pc \in {"stop", "stopping", "delete", "purge"} => proc.kind # "install"
  /\ proc.pc \in {"delete", "purge"} => proc.kind \in {"uninstall", "purge"}
  /\ proc.pc # "idle" /\ proc.kind \in {"install", "upgrade"} => proc.image \in Images
  /\ ~proc.staged => proc.kind = "upgrade" /\ proc.pc \in {"start", "starting"}
  /\ proc.blind =>
       proc.kind # "upgrade" /\ proc.pc \notin {"load", "save", "open", "stop", "stopping", "delete"}

(* Where the image is while it is staged. *)
StageOK ==
  /\ proc.pc \in {"swap", "aside", "place"} => file["new"] = proc.image
  /\ proc.pc \in {"place", "putback"} => proc.stray \in Strays /\ file["binary"] = "none"
  /\ (proc.pc \in {"place", "putback"} /\ service # "absent" /\ ~marked) =>
       file[proc.stray] \in Images \/ gone
  /\ (proc.pc \in {"placed", "start", "starting"} /\ proc.staged) => file["binary"] = proc.image

(* The service control manager and its process.  Once the service is stopped
   and nobody else is at it, it stays so until the installer starts it. *)
AfterStop == Stages \cup {"placed", "start", "delete"}

ServiceOK ==
  /\ Started <=> image # "none"
  /\ marked => Started
  /\ (proc.pc = "purge" /\ ~proc.blind) => service = "absent" \/ marked
  /\ (proc.pc \in AfterStop /\ proc.alone /\ (proc.blind => proc.pc = "start")) =>
       service \in {"absent", "Stopped"}
  /\ (proc.pc = "purge" /\ proc.alone /\ ~proc.blind) => service = "absent"
  /\ (proc.pc = "starting" /\ proc.alone /\ Started) => image = file["binary"]

(* Where the last edit of config.json is. *)
ConfigOK ==
  /\ config.state = "missing" => bak = edits
  /\ config.state = "unusable" => config.edits = edits
  /\ (proc.pc = "save" /\ proc.alone) =>
       config.state # "unusable" /\ (config.state = "good" => proc.read = Settings)

InstallInv == TypeOK /\ KindOK /\ StageOK /\ ServiceOK /\ ConfigOK /\ BinaryIsWhole

-----------------------------------------------------------------------------
(* What the helpers that write proc leave in it. *)
Same == /\ proc'.kind = proc.kind /\ proc'.image = proc.image /\ proc'.read = proc.read
        /\ proc'.stray = proc.stray /\ proc'.blind = proc.blind

\* A process that has not begun has done nothing yet.
LEMMA IdleType == Idle \in ProcType
BY DEF Idle, ProcType, Pcs, Kinds, NewSettings, Paths

\* A process that goes on changes its place only.
LEMMA ToSets ==
  ASSUME TypeOK, NEW pc \in Pcs, To(pc)
  PROVE  proc' \in ProcType /\ proc'.pc = pc /\ Same /\ proc'.staged = proc.staged /\ proc'.alone = proc.alone
BY DEF TypeOK, ProcType, Same, To, Become

\* A process that ends is idle again.
LEMMA EndSets ==
  ASSUME NEW what \in {"none", "ok", "failed", "stranded"}, End(what)
  PROVE  proc' \in ProcType /\ proc'.pc = "idle" /\ proc'.told = what /\ proc'.staged /\ ~proc'.blind
BY DEF ProcType, End, Become, Idle, Pcs, Kinds, NewSettings, Paths

\* A process begins with an image, or with none to remove the service.
LEMMA BeginSets ==
  ASSUME NEW kind \in Kinds, NEW i \in Images \cup {"none"}, Begin(kind, i)
  PROVE  /\ proc' \in ProcType /\ proc'.kind = kind /\ proc'.image = i /\ proc'.staged /\ ~proc'.blind
         /\ proc'.pc = IF kind = "install" THEN "load" ELSE "open"
         /\ proc.pc = "idle" /\ UNCHANGED <<scmVars, fileVars, confVars>>
BY DEF ProcType, Begin, Become, Idle, Pcs, Kinds, NewSettings, Paths, At

\* A process that was overtaken is where it was.
LEMMA OvertakenSets ==
  ASSUME TypeOK, Overtaken
  PROVE  /\ proc' \in ProcType /\ proc'.pc = proc.pc /\ Same /\ proc'.staged = proc.staged
         /\ proc.pc # "idle" => ~proc'.alone
BY DEF TypeOK, ProcType, Same, Overtaken, At

\* What reading the configuration leaves.
LEMMA LoadSets ==
  ASSUME TypeOK, NEW has \in [edits : Nat, path : Paths], Read(has)
  PROVE  /\ proc' \in ProcType /\ proc'.pc = "save" /\ proc'.read = has /\ proc'.kind = proc.kind
         /\ proc'.image = proc.image /\ proc'.staged = proc.staged /\ proc'.alone = proc.alone
         /\ proc'.blind = proc.blind
BY DEF TypeOK, ProcType, Read, Become, Pcs

\* What has been written is not needed any more.
LEMMA SavedSets ==
  ASSUME TypeOK, Become([proc EXCEPT !.pc = "open", !.read = NewSettings])
  PROVE  /\ proc' \in ProcType /\ proc'.pc = "open" /\ proc'.kind = proc.kind
         /\ proc'.image = proc.image /\ proc'.staged = proc.staged /\ proc'.alone = proc.alone
         /\ proc'.blind = proc.blind
BY DEF TypeOK, ProcType, Become, Pcs, NewSettings, Paths

\* What config.json holds is settings, and so is what a new one holds.
LEMMA SettingsTypes ==
  ASSUME TypeOK
  PROVE  {Settings, NewSettings} \subseteq [edits : Nat, path : Paths]
BY DEF TypeOK, ConfigType, Settings, NewSettings, Paths

\* What moving the image in use aside leaves.
LEMMA AsideSets ==
  ASSUME TypeOK, NEW s \in Strays, Become([proc EXCEPT !.pc = "place", !.stray = s])
  PROVE  /\ proc' \in ProcType /\ proc'.pc = "place" /\ proc'.stray = s /\ proc'.kind = proc.kind
         /\ proc'.image = proc.image /\ proc'.staged = proc.staged /\ proc'.alone = proc.alone
         /\ proc'.blind = proc.blind
BY DEF TypeOK, ProcType, Become, Pcs, Stages

\* A failed staging starts the previous version again, or ends.
LEMMA UnstagedSets ==
  ASSUME TypeOK, Unstaged
  PROVE  /\ proc' \in ProcType
         /\ proc.kind = "upgrade" => /\ proc'.pc = "start" /\ Same /\ ~proc'.staged
                                     /\ proc'.alone = proc.alone
         /\ proc.kind # "upgrade" => proc'.pc = "idle" /\ proc'.staged /\ proc'.told = "failed"
                                     /\ ~proc'.blind
<1>1. CASE proc.kind = "upgrade"
  <2>1. proc \in ProcType /\ proc' = [proc EXCEPT !.pc = "start", !.staged = FALSE]
    BY <1>1 DEF Unstaged, Become, TypeOK, ProcType
  <2>2. "start" \in Pcs
    BY DEF Pcs
  <2>. QED
    BY <1>1, <2>1, <2>2 DEF ProcType, Same
<1>2. CASE proc.kind # "upgrade"
  BY <1>2, EndSets DEF Unstaged
<1>. QED
  BY <1>1, <1>2

\* Whether the service was found decides between a first installation, an
\* upgrade and a removal.
LEMMA OpenSets ==
  ASSUME TypeOK, OpenService
  PROVE  /\ proc' \in ProcType /\ proc'.image = proc.image /\ proc'.staged = proc.staged
         /\ proc'.alone = proc.alone
         /\ \/ /\ service # "absent" /\ proc'.pc = "stop" /\ proc'.blind = proc.blind
               /\ proc'.kind = IF proc.kind = "install" THEN "upgrade" ELSE proc.kind
            \/ /\ proc'.pc = IF proc.kind = "install" THEN "sweep" ELSE "purge"
               /\ proc'.kind = proc.kind /\ proc'.blind = (service # "absent")
<1>. DEFINE kind == IF proc.kind = "install" THEN "upgrade" ELSE proc.kind
            pc == IF proc.kind = "install" THEN "sweep" ELSE "purge"
<1>1. proc \in ProcType
  BY DEF TypeOK, ProcType
<1>2. pc \in Pcs /\ "stop" \in Pcs /\ kind \in Kinds /\ (service # "absent") \in BOOLEAN
  BY DEF Pcs, Stages, Kinds, TypeOK, ProcType
<1>3. \/ service # "absent" /\ proc' = [proc EXCEPT !.kind = kind, !.pc = "stop"]
      \/ proc' = [proc EXCEPT !.pc = pc, !.blind = service # "absent"]
  BY DEF OpenService, Become
<1>. HIDE DEF kind, pc
<1>4. CASE service # "absent" /\ proc' = [proc EXCEPT !.kind = kind, !.pc = "stop"]
  BY <1>1, <1>2, <1>4 DEF ProcType, kind
<1>5. CASE proc' = [proc EXCEPT !.pc = pc, !.blind = service # "absent"]
  BY <1>1, <1>2, <1>5 DEF ProcType, pc
<1>. QED
  BY <1>3, <1>4, <1>5

\* Those who run a file, and one more, or those who ran another file.
LEMMA HeldTypes ==
  ASSUME TypeOK, NEW x \in Places
  PROVE  /\ \A who \in {"service", "bridge"} : [held EXCEPT ![x] = @ \cup {who}] \in HeldType
         /\ \A y \in Places : [held EXCEPT ![x] = held[y], ![y] = {}] \in HeldType
BY DEF TypeOK, HeldType

\* Renaming and removing files leave files.
LEMMA FileTypes ==
  ASSUME TypeOK
  PROVE  /\ \A x, y \in Places : Move(x, y) \in FileType /\ Without(Move(x, y)) \in FileType
         /\ Without(file) \in FileType
BY DEF TypeOK, FileType, Move, Without

\* What a renaming moves is on the disk or not, as it was.
LEMMA RenamesTypes ==
  ASSUME TypeOK, NEW x \in Places, NEW y \in Places, Renames(x, y)
  PROVE  unsynced' \subseteq Places
BY DEF TypeOK, Renames, OfFiles

-----------------------------------------------------------------------------
\* Every action keeps the types.
LEMMA TypeNext ==
  ASSUME TypeOK, KindOK, StageOK, [Next]_vars
  PROVE  TypeOK'
<1>. USE ImagesAssumption, StraysAssumption DEF TypeOK, At, scmVars, fileVars, confVars, vars
<1>1. CASE StartInstall
  BY <1>1, BeginSets DEF StartInstall, Pcs, Stages, Kinds, States, Places
<1>2. CASE StartUninstall
  BY <1>2, BeginSets DEF StartUninstall, Pcs, Stages, Kinds, States, Places
<1>3. CASE StartUpdate
  BY <1>3, BeginSets DEF StartUpdate, Download, Whole, Pcs, Stages, Kinds, States, Places
<1>4. CASE LoadConfig
  <2>1. proc' \in ProcType
    BY <1>4, LoadSets, SettingsTypes, EndSets DEF LoadConfig, Settings, NewSettings
  <2>2. config' \in ConfigType /\ bak' \in Nat
    BY <1>4 DEF LoadConfig, ConfigType
  <2>. QED
    BY <1>4, <2>1, <2>2 DEF LoadConfig
<1>5. CASE SaveConfig
  <2>1. proc' \in ProcType
    BY <1>5, SavedSets, EndSets DEF SaveConfig, Pcs
  <2>2. config' \in ConfigType
    BY <1>5 DEF SaveConfig, ProcType, ConfigType, Paths
  <2>. QED
    BY <1>5, <2>1, <2>2 DEF SaveConfig
<1>6. CASE OpenService
  BY <1>6, OpenSets DEF OpenService, Pcs, Stages, Kinds, States, Places
<1>7. CASE StopService
  BY <1>7, ToSets, EndSets DEF StopService, Stopped, Pcs, Stages, Kinds, States, Places
<1>8. CASE AwaitStopped
  BY <1>8, ToSets, EndSets DEF AwaitStopped, Stopped, Pcs, Stages, Kinds, States, Places
<1>9. CASE Sweep
  <2>1. proc' \in ProcType
    BY <1>9, ToSets DEF Sweep, Pcs, Stages
  <2>2. file' \in FileType
    BY <1>9 DEF Sweep, FileType
  <2>3. unsynced' \subseteq Places
    BY <1>9 DEF Sweep, OfFiles
  <2>. QED
    BY <1>9, <2>1, <2>2, <2>3 DEF Sweep
<1>10. CASE Write
  <2>1. proc' \in ProcType
    BY <1>10, ToSets, UnstagedSets DEF Write, Pcs, Stages
  <2>2. file' \in FileType
    BY <1>10 DEF Write, FileType, Places
  <2>. QED
    BY <1>10, <2>1, <2>2 DEF Write
<1>11. CASE Written
  <2>1. proc' \in ProcType
    BY <1>11, ToSets, UnstagedSets DEF Written, Pcs, Stages
  <2>2. file' \in FileType /\ unsynced' \subseteq Places
    BY <1>11 DEF Written, KindOK, Stages, ProcType, FileType, Places
  <2>. QED
    BY <1>11, <2>1, <2>2 DEF Written
<1>12. CASE Swap
  <2>1. proc' \in ProcType
    BY <1>12, ToSets DEF Swap, Pcs, Stages
  <2>2. file' \in FileType
    BY <1>12, FileTypes DEF Swap, Places
  <2>3. unsynced' \subseteq Places
    BY <1>12, RenamesTypes DEF Swap, Places
  <2>. QED
    BY <1>12, <2>1, <2>2, <2>3 DEF Swap
<1>13. CASE RenameAside
  <2>1. proc' \in ProcType
    BY <1>13, AsideSets, UnstagedSets DEF RenameAside
  <2>2. "binary" \in Places /\ (\/ \E s \in Places : file' = Move("binary", s)
                                 \/ file' = Without(file))
    BY <1>13 DEF RenameAside, Places
  <2>3. file' \in FileType
    BY <1>13, <2>2, FileTypes
  <2>4. held' \in HeldType
    <3>1. UNCHANGED held \/ \E s \in Places : held' = [held EXCEPT ![s] = held["binary"], !["binary"] = {}]
      BY <1>13 DEF RenameAside, Places
    <3>. QED
      BY <2>2, <3>1, HeldTypes DEF HeldType
  <2>5. unsynced' \subseteq Places
    BY <1>13, RenamesTypes DEF RenameAside, OfFiles, Places
  <2>. QED
    BY <1>13, <2>1, <2>3, <2>4, <2>5 DEF RenameAside
<1>14. CASE Place
  <2>1. proc' \in ProcType
    BY <1>14, ToSets DEF Place, Pcs, Stages
  <2>2. file' \in FileType
    BY <1>14, FileTypes DEF Place, FileType, Places
  <2>3. doomed' \subseteq Strays
    BY <1>14 DEF Place, StageOK
  <2>4. unsynced' \subseteq Places
    BY <1>14, RenamesTypes DEF Place, Places
  <2>. QED
    BY <1>14, <2>1, <2>2, <2>3, <2>4 DEF Place
<1>15. CASE PutBack
  <2>1. proc' \in ProcType
    BY <1>15, UnstagedSets DEF PutBack
  <2>2. "binary" \in Places /\ proc.stray \in Places
    BY <1>15 DEF PutBack, StageOK, Places
  <2>3. file' = Without(Move(proc.stray, "binary")) \/ file' = Without(file)
    BY <1>15 DEF PutBack
  <2>4. file' \in FileType
    BY <1>15, <2>2, <2>3, FileTypes
  <2>5. held' \in HeldType
    BY <1>15, <2>2, HeldTypes DEF PutBack, HeldType
  <2>6. unsynced' \subseteq Places
    BY <1>15, <2>2, RenamesTypes DEF PutBack, OfFiles
  <2>. QED
    BY <1>15, <2>1, <2>4, <2>5, <2>6 DEF PutBack, Whole
<1>16. CASE Register
  BY <1>16, ToSets, EndSets DEF Register, Pcs, Stages, Kinds, States, Places
<1>17. CASE StartService
  <2>1. proc' \in ProcType
    BY <1>17, ToSets, EndSets DEF StartService, Pcs
  <2>2. "binary" \in Places /\ (UNCHANGED held \/ held' = [held EXCEPT !["binary"] = held["binary"] \cup {"service"}])
    BY <1>17 DEF StartService, Launch, Places
  <2>3. held' \in HeldType
    BY <1>17, <2>2, HeldTypes DEF HeldType
  <2>4. ASSUME Launch
        PROVE  /\ service' \in States /\ image' \in Images \cup {"none"}
               /\ recover' \in BOOLEAN /\ marked' \in BOOLEAN
    <3>1. file["binary"] \in Images
      BY <2>2, <2>4 DEF Launch, Whole, FileType
    <3>. QED
      BY <2>4, <3>1 DEF Launch, States
  <2>5. service' \in States /\ image' \in Images \cup {"none"} /\ recover' \in BOOLEAN /\ marked' \in BOOLEAN
    BY <1>17, <2>4 DEF StartService
  <2>. QED
    BY <1>17, <2>1, <2>3, <2>5 DEF StartService
<1>18. CASE AwaitRunning
  BY <1>18, EndSets DEF AwaitRunning, Pcs, Stages, Kinds, States, Places
<1>19. CASE Deregister
  <2>1. proc' \in ProcType
    BY <1>19, ToSets, EndSets DEF Deregister, Pcs
  <2>2. service' \in States /\ recover' \in BOOLEAN
    BY <1>19 DEF Deregister, States
  <2>3. Started \in BOOLEAN /\ (marked' = Started \/ UNCHANGED marked)
    BY <1>19 DEF Deregister, Started
  <2>4. marked' \in BOOLEAN
    BY <1>19, <2>3
  <2>. QED
    BY <1>19, <2>1, <2>2, <2>3, <2>4 DEF Deregister
<1>20. CASE Purge
  <2>1. proc' \in ProcType
    BY <1>20, EndSets DEF Purge
  <2>2. file' \in FileType
    BY <1>20 DEF Purge, FileType
  <2>3. held' \in HeldType
    BY <1>20 DEF Purge, HeldType
  <2>4. [state |-> "missing", edits |-> 0, path |-> "none"] \in ConfigType
    BY DEF ConfigType, Paths
  <2>5. config' \in ConfigType /\ bak' \in Nat /\ edits' \in Nat
    BY <1>20, <2>4 DEF Purge
  <2>6. gone' \in BOOLEAN
    BY <1>20 DEF Purge
  <2>7. unsynced' \subseteq Places
    BY <1>20 DEF Purge, OfFiles
  <2>. QED
    BY <1>20, <2>1, <2>2, <2>3, <2>5, <2>6, <2>7 DEF Purge
<1>21. CASE ProcessDies
  BY <1>21, IdleType DEF ProcessDies, Whole, Between, Become
<1>22. CASE ServiceStarts
  BY <1>22 DEF ServiceStarts, Pcs, Stages, Kinds, States, Places
<1>23. CASE ServiceExits
  <2>1. proc' \in ProcType
    BY <1>23 DEF ServiceExits, ProcType
  <2>2. held' \in HeldType
    BY <1>23 DEF ServiceExits, LetGo, HeldType
  <2>3. service' \in States /\ recover' \in BOOLEAN /\ marked' \in BOOLEAN /\ image' = "none"
    BY <1>23 DEF ServiceExits, States
  <2>. QED
    BY <1>23, <2>1, <2>2, <2>3 DEF ServiceExits
<1>24. CASE ManagerRestarts
  <2>1. proc' \in ProcType
    BY <1>24, OvertakenSets DEF ManagerRestarts
  <2>2. held' \in HeldType
    BY <1>24, HeldTypes DEF ManagerRestarts, Launch, Places
  <2>3. image' \in Images /\ service' \in States /\ recover' \in BOOLEAN
    BY <1>24 DEF ManagerRestarts, Launch, Whole, FileType, Places, States
  <2>. QED
    BY <1>24, <2>1, <2>2, <2>3 DEF ManagerRestarts, Launch
<1>25. CASE BridgeOpens
  <2>1. held' \in HeldType
    BY <1>25, HeldTypes DEF BridgeOpens, Places
  <2>. QED
    BY <1>25, <2>1 DEF BridgeOpens
<1>26. CASE BridgeEnds
  BY <1>26 DEF BridgeEnds, LetGo, HeldType
<1>27. CASE EditConfig
  <2>1. proc' \in ProcType
    BY <1>27, OvertakenSets DEF EditConfig
  <2>2. config' \in ConfigType
    BY <1>27 DEF EditConfig, ConfigType, Paths
  <2>. QED
    BY <1>27, <2>1, <2>2 DEF EditConfig
<1>28. CASE MachineRestarts
  <2>1. proc' \in ProcType
    BY <1>28, IdleType DEF MachineRestarts
  <2>2. file' \in FileType
    BY <1>28 DEF MachineRestarts, FileType
  <2>3. held' \in HeldType
    BY <1>28 DEF MachineRestarts, HeldType
  <2>4. service' \in States /\ recover' \in BOOLEAN /\ marked' \in BOOLEAN
    BY <1>28 DEF MachineRestarts, States
  <2>5. image' \in Images \cup {"none"}
    BY <1>28, <2>2 DEF MachineRestarts, FileType, Places
  <2>6. gone' \in BOOLEAN
    BY <1>28 DEF MachineRestarts
  <2>. QED
    BY <1>28, <2>1, <2>2, <2>3, <2>4, <2>5, <2>6 DEF MachineRestarts
<1>29. CASE WritesOut
  BY <1>29 DEF WritesOut
<1>30. CASE UNCHANGED vars
  BY <1>30 DEF vars
<1>. QED
  BY <1>1, <1>2, <1>3, <1>4, <1>5, <1>6, <1>7, <1>8, <1>9, <1>10, <1>11, <1>12, <1>13, <1>14, <1>15,
     <1>16, <1>17, <1>18, <1>19, <1>20, <1>21, <1>22, <1>23, <1>24, <1>25, <1>26, <1>27, <1>28, <1>29, <1>30 DEF Next, Step

\* A process does what its kind does, with a published image.
LEMMA KindNext ==
  ASSUME TypeOK, KindOK, [Next]_vars
  PROVE  KindOK'
<1>. USE ImagesAssumption DEF TypeOK, ProcType, FileType, ConfigType, KindOK, Same, Pcs, Stages,
   Kinds, At, scmVars, fileVars, confVars, vars
<1>1. CASE StartInstall
  BY <1>1, BeginSets DEF StartInstall
<1>2. CASE StartUninstall
  BY <1>2, BeginSets DEF StartUninstall
<1>3. CASE StartUpdate
  BY <1>3, BeginSets DEF StartUpdate, Download, Whole
<1>4. CASE LoadConfig
  BY <1>4, LoadSets, SettingsTypes, EndSets DEF LoadConfig, Settings, NewSettings
<1>5. CASE SaveConfig
  BY <1>5, SavedSets, EndSets DEF SaveConfig
<1>6. CASE OpenService
  <2>1. proc.pc = "open" /\ proc.kind \in Kinds
    BY <1>6 DEF OpenService
  <2>2. CASE service = "absent"
    BY <1>6, <2>1, <2>2, OpenSets
  <2>3. CASE service # "absent"
    BY <1>6, <2>1, <2>3, OpenSets
  <2>. QED
    BY <2>2, <2>3
<1>7. CASE StopService
  BY <1>7, ToSets, EndSets DEF StopService, Stopped
<1>8. CASE AwaitStopped
  BY <1>8, ToSets, EndSets DEF AwaitStopped, Stopped
<1>9. CASE Sweep
  BY <1>9, ToSets DEF Sweep
<1>10. CASE Write
  BY <1>10, ToSets, UnstagedSets DEF Write
<1>11. CASE Written
  BY <1>11, ToSets, UnstagedSets DEF Written
<1>12. CASE Swap
  BY <1>12, ToSets DEF Swap, Move
<1>13. CASE RenameAside
  BY <1>13, AsideSets, UnstagedSets DEF RenameAside, Move, Without
<1>14. CASE Place
  BY <1>14, ToSets DEF Place, Move
<1>15. CASE PutBack
  BY <1>15, UnstagedSets DEF PutBack, Move, Without, Whole
<1>16. CASE Register
  BY <1>16, ToSets, EndSets DEF Register
<1>17. CASE StartService
  BY <1>17, ToSets, EndSets DEF StartService, Launch, Whole
<1>18. CASE AwaitRunning
  BY <1>18, EndSets DEF AwaitRunning
<1>19. CASE Deregister
  BY <1>19, ToSets, EndSets DEF Deregister, Started
<1>20. CASE Purge
  BY <1>20, ToSets, EndSets DEF Purge, Whole
<1>21. CASE ProcessDies
  BY <1>21 DEF ProcessDies, Whole, Between, Become, Idle
<1>22. CASE ServiceStarts
  BY <1>22 DEF ServiceStarts
<1>23. CASE ServiceExits
  BY <1>23 DEF ServiceExits, LetGo, Started
<1>24. CASE ManagerRestarts
  BY <1>24, OvertakenSets DEF ManagerRestarts, Launch, Whole
<1>25. CASE BridgeOpens
  BY <1>25 DEF BridgeOpens, Whole
<1>26. CASE BridgeEnds
  BY <1>26 DEF BridgeEnds, LetGo
<1>27. CASE EditConfig
  BY <1>27, OvertakenSets DEF EditConfig
<1>28. CASE MachineRestarts
  BY <1>28 DEF MachineRestarts, Whole, Between, Idle
<1>29. CASE WritesOut
  BY <1>29 DEF WritesOut
<1>30. CASE UNCHANGED vars
  BY <1>30 DEF vars
<1>. QED
  BY <1>1, <1>2, <1>3, <1>4, <1>5, <1>6, <1>7, <1>8, <1>9, <1>10, <1>11, <1>12, <1>13, <1>14, <1>15,
     <1>16, <1>17, <1>18, <1>19, <1>20, <1>21, <1>22, <1>23, <1>24, <1>25, <1>26, <1>27, <1>28, <1>29, <1>30 DEF Next, Step

\* The image is where its stage says it is, and the previous one is put back whole.
LEMMA StageNext ==
  ASSUME TypeOK, KindOK, StageOK, BinaryIsWhole, ServiceOK, [Next]_vars
  PROVE  StageOK'
<1>. USE ImagesAssumption, StraysAssumption DEF TypeOK, ProcType, FileType, HeldType, ConfigType,
   KindOK, StageOK, ServiceOK, BinaryIsWhole, Between, Started, Same, Pcs, Stages, Kinds, States,
   Places,
       At, scmVars, fileVars, confVars, vars
<1>1. CASE StartInstall
  BY <1>1, BeginSets DEF StartInstall
<1>2. CASE StartUninstall
  BY <1>2, BeginSets DEF StartUninstall
<1>3. CASE StartUpdate
  BY <1>3, BeginSets DEF StartUpdate, Download, Whole
<1>4. CASE LoadConfig
  BY <1>4, LoadSets, SettingsTypes, EndSets DEF LoadConfig, Settings, NewSettings
<1>5. CASE SaveConfig
  BY <1>5, SavedSets, EndSets DEF SaveConfig
<1>6. CASE OpenService
  BY <1>6, OpenSets DEF OpenService
<1>7. CASE StopService
  BY <1>7, ToSets, EndSets DEF StopService, Stopped
<1>8. CASE AwaitStopped
  BY <1>8, ToSets, EndSets DEF AwaitStopped, Stopped
<1>9. CASE Sweep
  BY <1>9, ToSets DEF Sweep
<1>10. CASE Write
  BY <1>10, ToSets, UnstagedSets DEF Write
<1>11. CASE Written
  BY <1>11, ToSets, UnstagedSets DEF Written
<1>12. CASE Swap
  BY <1>12, ToSets DEF Swap, Move
<1>13. CASE RenameAside
  <2>1. CASE Unstaged
    BY <1>13, <2>1, UnstagedSets DEF RenameAside
  <2>2. ASSUME NEW s \in Strays,
               file["binary"] # "none", file[s] = "none", file' = Move("binary", s),
               Become([proc EXCEPT !.pc = "place", !.stray = s])
        PROVE  StageOK'
    <3>1. s # "binary" /\ s # "new" /\ s \in Places /\ {"binary", "new"} \subseteq Places
      BY DEF Places
    <3>2. /\ file'["new"] = file["new"] /\ file'["binary"] = "none" /\ file'[s] = file["binary"]
      BY <2>2, <3>1 DEF Move, TypeOK
    <3>3. /\ proc'.pc = "place" /\ proc'.stray = s /\ proc'.image = proc.image
      BY <2>2, AsideSets
    <3>4. file["new"] = proc.image /\ ~Between /\ UNCHANGED <<service, marked, gone>>
      BY <1>13 DEF RenameAside, StageOK, Between
    <3>. QED
      BY <3>2, <3>3, <3>4, <2>2 DEF StageOK, BinaryIsWhole
  <2>. QED
    BY <1>13, <2>1, <2>2 DEF RenameAside
<1>14. CASE Place
  BY <1>14, ToSets DEF Place, Move
<1>15. CASE PutBack
  BY <1>15, UnstagedSets DEF PutBack, Move, Without, Whole
<1>16. CASE Register
  BY <1>16, ToSets, EndSets DEF Register
<1>17. CASE StartService
  BY <1>17, ToSets, EndSets DEF StartService, Launch, Whole
<1>18. CASE AwaitRunning
  BY <1>18, EndSets DEF AwaitRunning
<1>19. CASE Deregister
  BY <1>19, ToSets, EndSets DEF Deregister, Started
<1>20. CASE Purge
  BY <1>20, ToSets, EndSets DEF Purge, Whole
<1>21. CASE ProcessDies
  BY <1>21 DEF ProcessDies, Whole, Between, Become, Idle
<1>22. CASE ServiceStarts
  BY <1>22 DEF ServiceStarts
<1>23. CASE ServiceExits
  BY <1>23 DEF ServiceExits, LetGo, Started
<1>24. CASE ManagerRestarts
  BY <1>24, OvertakenSets DEF ManagerRestarts, Launch, Whole
<1>25. CASE BridgeOpens
  BY <1>25 DEF BridgeOpens, Whole
<1>26. CASE BridgeEnds
  BY <1>26 DEF BridgeEnds, LetGo
<1>27. CASE EditConfig
  BY <1>27, OvertakenSets DEF EditConfig
<1>28. CASE MachineRestarts
  BY <1>28 DEF MachineRestarts, Whole, Between, Idle
<1>29. CASE WritesOut
  BY <1>29 DEF WritesOut
<1>30. CASE UNCHANGED vars
  BY <1>30 DEF vars
<1>. QED
  BY <1>1, <1>2, <1>3, <1>4, <1>5, <1>6, <1>7, <1>8, <1>9, <1>10, <1>11, <1>12, <1>13, <1>14, <1>15,
     <1>16, <1>17, <1>18, <1>19, <1>20, <1>21, <1>22, <1>23, <1>24, <1>25, <1>26, <1>27, <1>28, <1>29, <1>30 DEF Next, Step

\* A service that was stopped stays stopped under an installer that is alone.
LEMMA ServiceNext ==
  ASSUME TypeOK, KindOK, StageOK, ServiceOK, [Next]_vars
  PROVE  ServiceOK'
<1>. USE ImagesAssumption, StraysAssumption DEF TypeOK, ProcType, FileType, HeldType, ConfigType,
   KindOK, StageOK, ServiceOK, AfterStop, Started, Same, Pcs, Stages, Kinds, States, Places,
       At, scmVars, fileVars, confVars, vars
<1>1. CASE StartInstall
  BY <1>1, BeginSets DEF StartInstall
<1>2. CASE StartUninstall
  BY <1>2, BeginSets DEF StartUninstall
<1>3. CASE StartUpdate
  BY <1>3, BeginSets DEF StartUpdate, Download, Whole
<1>4. CASE LoadConfig
  BY <1>4, LoadSets, SettingsTypes, EndSets DEF LoadConfig, Settings, NewSettings
<1>5. CASE SaveConfig
  BY <1>5, SavedSets, EndSets DEF SaveConfig
<1>6. CASE OpenService
  BY <1>6, OpenSets DEF OpenService
<1>7. CASE StopService
  BY <1>7, ToSets, EndSets DEF StopService, Stopped
<1>8. CASE AwaitStopped
  BY <1>8, ToSets, EndSets DEF AwaitStopped, Stopped
<1>9. CASE Sweep
  BY <1>9, ToSets DEF Sweep
<1>10. CASE Write
  BY <1>10, ToSets, UnstagedSets DEF Write
<1>11. CASE Written
  BY <1>11, ToSets, UnstagedSets DEF Written
<1>12. CASE Swap
  BY <1>12, ToSets DEF Swap, Move
<1>13. CASE RenameAside
  BY <1>13, AsideSets, UnstagedSets DEF RenameAside, Move, Without
<1>14. CASE Place
  BY <1>14, ToSets DEF Place, Move
<1>15. CASE PutBack
  BY <1>15, UnstagedSets DEF PutBack, Move, Without, Whole
<1>16. CASE Register
  BY <1>16, ToSets, EndSets DEF Register
<1>17. CASE StartService
  BY <1>17, ToSets, EndSets DEF StartService, Launch, Whole
<1>18. CASE AwaitRunning
  BY <1>18, EndSets DEF AwaitRunning
<1>19. CASE Deregister
  BY <1>19, ToSets, EndSets DEF Deregister, Started
<1>20. CASE Purge
  BY <1>20, ToSets, EndSets DEF Purge, Whole
<1>21. CASE ProcessDies
  BY <1>21 DEF ProcessDies, Whole, Between, Become, Idle
<1>22. CASE ServiceStarts
  BY <1>22 DEF ServiceStarts
<1>23. CASE ServiceExits
  BY <1>23 DEF ServiceExits, LetGo, Started
<1>24. CASE ManagerRestarts
  BY <1>24, OvertakenSets DEF ManagerRestarts, Launch, Whole
<1>25. CASE BridgeOpens
  BY <1>25 DEF BridgeOpens, Whole
<1>26. CASE BridgeEnds
  BY <1>26 DEF BridgeEnds, LetGo
<1>27. CASE EditConfig
  BY <1>27, OvertakenSets DEF EditConfig
<1>28. CASE MachineRestarts
  BY <1>28 DEF MachineRestarts, Whole, Between, Idle
<1>29. CASE WritesOut
  BY <1>29 DEF WritesOut
<1>30. CASE UNCHANGED vars
  BY <1>30 DEF vars
<1>. QED
  BY <1>1, <1>2, <1>3, <1>4, <1>5, <1>6, <1>7, <1>8, <1>9, <1>10, <1>11, <1>12, <1>13, <1>14, <1>15,
     <1>16, <1>17, <1>18, <1>19, <1>20, <1>21, <1>22, <1>23, <1>24, <1>25, <1>26, <1>27, <1>28, <1>29, <1>30 DEF Next, Step

\* The last edit stays in config.json or its backup.
LEMMA ConfigNext ==
  ASSUME TypeOK, KindOK, ConfigOK, [Next]_vars
  PROVE  ConfigOK'
<1>. USE DEF TypeOK, ProcType, ConfigType, KindOK, ConfigOK, Settings, Same, Pcs, Stages, Kinds, At, scmVars,
   fileVars, confVars, vars
<1>1. CASE StartInstall
  BY <1>1, BeginSets DEF StartInstall
<1>2. CASE StartUninstall
  BY <1>2, BeginSets DEF StartUninstall
<1>3. CASE StartUpdate
  BY <1>3, BeginSets DEF StartUpdate, Download, Whole
<1>4. CASE LoadConfig
  BY <1>4, LoadSets, SettingsTypes, EndSets DEF LoadConfig, Settings, NewSettings
<1>5. CASE SaveConfig
  BY <1>5, SavedSets, EndSets DEF SaveConfig
<1>6. CASE OpenService
  BY <1>6, OpenSets DEF OpenService
<1>7. CASE StopService
  BY <1>7, ToSets, EndSets DEF StopService, Stopped
<1>8. CASE AwaitStopped
  BY <1>8, ToSets, EndSets DEF AwaitStopped, Stopped
<1>9. CASE Sweep
  BY <1>9, ToSets DEF Sweep
<1>10. CASE Write
  BY <1>10, ToSets, UnstagedSets DEF Write
<1>11. CASE Written
  BY <1>11, ToSets, UnstagedSets DEF Written
<1>12. CASE Swap
  BY <1>12, ToSets DEF Swap, Move
<1>13. CASE RenameAside
  BY <1>13, AsideSets, UnstagedSets DEF RenameAside, Move, Without
<1>14. CASE Place
  BY <1>14, ToSets DEF Place, Move
<1>15. CASE PutBack
  BY <1>15, UnstagedSets DEF PutBack, Move, Without, Whole
<1>16. CASE Register
  BY <1>16, ToSets, EndSets DEF Register
<1>17. CASE StartService
  BY <1>17, ToSets, EndSets DEF StartService, Launch, Whole
<1>18. CASE AwaitRunning
  BY <1>18, EndSets DEF AwaitRunning
<1>19. CASE Deregister
  BY <1>19, ToSets, EndSets DEF Deregister, Started
<1>20. CASE Purge
  BY <1>20, ToSets, EndSets DEF Purge, Whole
<1>21. CASE ProcessDies
  BY <1>21 DEF ProcessDies, Whole, Between, Become, Idle
<1>22. CASE ServiceStarts
  BY <1>22 DEF ServiceStarts
<1>23. CASE ServiceExits
  BY <1>23 DEF ServiceExits, LetGo, Started
<1>24. CASE ManagerRestarts
  BY <1>24, OvertakenSets DEF ManagerRestarts, Launch, Whole
<1>25. CASE BridgeOpens
  BY <1>25 DEF BridgeOpens, Whole
<1>26. CASE BridgeEnds
  BY <1>26 DEF BridgeEnds, LetGo
<1>27. CASE EditConfig
  BY <1>27, OvertakenSets DEF EditConfig
<1>28. CASE MachineRestarts
  BY <1>28 DEF MachineRestarts, Whole, Between, Idle
<1>29. CASE WritesOut
  BY <1>29 DEF WritesOut
<1>30. CASE UNCHANGED vars
  BY <1>30 DEF vars
<1>. QED
  BY <1>1, <1>2, <1>3, <1>4, <1>5, <1>6, <1>7, <1>8, <1>9, <1>10, <1>11, <1>12, <1>13, <1>14, <1>15,
     <1>16, <1>17, <1>18, <1>19, <1>20, <1>21, <1>22, <1>23, <1>24, <1>25, <1>26, <1>27, <1>28, <1>29, <1>30 DEF Next, Step

\* The image at the service's path stays whole.
LEMMA BinaryNext ==
  ASSUME TypeOK, KindOK, StageOK, ServiceOK, BinaryIsWhole, [Next]_vars
  PROVE  BinaryIsWhole'
<1>. USE ImagesAssumption, StraysAssumption DEF TypeOK, ProcType, FileType, HeldType, ConfigType,
   KindOK, StageOK, ServiceOK, BinaryIsWhole, Between, Started, Same, Pcs, Stages, Kinds, States,
   Places,
       At, scmVars, fileVars, confVars, vars
<1>1. CASE StartInstall
  BY <1>1, BeginSets DEF StartInstall
<1>2. CASE StartUninstall
  BY <1>2, BeginSets DEF StartUninstall
<1>3. CASE StartUpdate
  BY <1>3, BeginSets DEF StartUpdate, Download, Whole
<1>4. CASE LoadConfig
  BY <1>4, LoadSets, SettingsTypes, EndSets DEF LoadConfig, Settings, NewSettings
<1>5. CASE SaveConfig
  BY <1>5, SavedSets, EndSets DEF SaveConfig
<1>6. CASE OpenService
  BY <1>6, OpenSets DEF OpenService
<1>7. CASE StopService
  BY <1>7, ToSets, EndSets DEF StopService, Stopped
<1>8. CASE AwaitStopped
  BY <1>8, ToSets, EndSets DEF AwaitStopped, Stopped
<1>9. CASE Sweep
  BY <1>9, ToSets DEF Sweep
<1>10. CASE Write
  BY <1>10, ToSets, UnstagedSets DEF Write
<1>11. CASE Written
  BY <1>11, ToSets, UnstagedSets DEF Written
<1>12. CASE Swap
  BY <1>12, ToSets DEF Swap, Move
<1>13. CASE RenameAside
  BY <1>13, AsideSets, UnstagedSets DEF RenameAside, Move, Without
<1>14. CASE Place
  BY <1>14, ToSets DEF Place, Move
<1>15. CASE PutBack
  BY <1>15, UnstagedSets DEF PutBack, Move, Without, Whole
<1>16. CASE Register
  BY <1>16, ToSets, EndSets DEF Register
<1>17. CASE StartService
  BY <1>17, ToSets, EndSets DEF StartService, Launch, Whole
<1>18. CASE AwaitRunning
  BY <1>18, EndSets DEF AwaitRunning
<1>19. CASE Deregister
  BY <1>19, ToSets, EndSets DEF Deregister, Started
<1>20. CASE Purge
  BY <1>20, ToSets, EndSets DEF Purge, Whole
<1>21. CASE ProcessDies
  BY <1>21 DEF ProcessDies, Whole, Between, Become, Idle
<1>22. CASE ServiceStarts
  BY <1>22 DEF ServiceStarts
<1>23. CASE ServiceExits
  BY <1>23 DEF ServiceExits, LetGo, Started
<1>24. CASE ManagerRestarts
  BY <1>24, OvertakenSets DEF ManagerRestarts, Launch, Whole
<1>25. CASE BridgeOpens
  BY <1>25 DEF BridgeOpens, Whole
<1>26. CASE BridgeEnds
  BY <1>26 DEF BridgeEnds, LetGo
<1>27. CASE EditConfig
  BY <1>27, OvertakenSets DEF EditConfig
<1>28. CASE MachineRestarts
  BY <1>28 DEF MachineRestarts, Whole, Between, Idle
<1>29. CASE WritesOut
  BY <1>29 DEF WritesOut
<1>30. CASE UNCHANGED vars
  BY <1>30 DEF vars
<1>. QED
  BY <1>1, <1>2, <1>3, <1>4, <1>5, <1>6, <1>7, <1>8, <1>9, <1>10, <1>11, <1>12, <1>13, <1>14, <1>15,
     <1>16, <1>17, <1>18, <1>19, <1>20, <1>21, <1>22, <1>23, <1>24, <1>25, <1>26, <1>27, <1>28, <1>29, <1>30 DEF Next, Step

\* The invariant holds at first.
LEMMA InitInv == Init => InstallInv
<1>. SUFFICES ASSUME Init PROVE InstallInv
  OBVIOUS
<1>1. PICK i \in Images \cup {"none"} :
        /\ file = [x \in Places |-> IF x = "binary" THEN i ELSE "none"]
        /\ service = IF i = "none" THEN "absent" ELSE "Running"
        /\ image = i
        /\ held = [x \in Places |-> IF x = "binary" /\ i # "none" THEN {"service"} ELSE {}]
        /\ config = [state |-> IF i = "none" THEN "missing" ELSE "good", edits |-> 0, path |-> "none"]
  BY DEF Init
<1>2. TypeOK
  <2>1. proc \in ProcType
    BY IdleType DEF Init
  <2>2. file \in FileType
    BY <1>1 DEF FileType
  <2>3. held \in HeldType
    BY <1>1 DEF HeldType
  <2>4. config \in ConfigType
    BY <1>1 DEF Paths, ConfigType
  <2>5. service \in States
    BY <1>1 DEF States
  <2>. QED
    BY <1>1, <2>1, <2>2, <2>3, <2>4, <2>5 DEF Init, TypeOK
<1>3. proc.pc = "idle" /\ proc.staged /\ ~proc.blind
  BY DEF Init, Idle
<1>4. KindOK /\ StageOK
  BY <1>3 DEF KindOK, StageOK, Stages
<1>5. ServiceOK
  BY <1>1, <1>3, ImagesAssumption DEF Init, ServiceOK, Started, AfterStop, Stages
<1>6. ConfigOK
  BY <1>1, <1>3 DEF Init, ConfigOK
<1>7. BinaryIsWhole
  BY <1>1 DEF Init, BinaryIsWhole, Places
<1>. QED
  BY <1>2, <1>4, <1>5, <1>6, <1>7 DEF InstallInv

\* Every step keeps the invariant.
LEMMA InvNext == InstallInv /\ [Next]_vars => InstallInv'
BY TypeNext, KindNext, StageNext, ServiceNext, ConfigNext, BinaryNext DEF InstallInv

-----------------------------------------------------------------------------
(* The invariant from which the properties follow: types, what a process of
   each kind does, where the image is at each stage, that a stopped service
   stays stopped under an installer that is alone, and where the last edit of
   the configuration is. *)
THEOREM InstallSafe == Spec => []InstallInv
<1>1. Init => InstallInv
  BY InitInv
<1>2. InstallInv /\ [Next]_vars => InstallInv'
  BY InvNext
<1>. QED
  BY <1>1, <1>2, PTL DEF Spec

(* Whatever the installer writes, renames or removes, there is a complete,
   published image at the path of a service that stays registered
   (install.go:436-437), but between the two renamings and after one given up
   there, after a purge that took an error for the absence of the service, and
   after the machine stopped with the image not yet on its disk. *)
THEOREM BinaryAlwaysWhole == Spec => []BinaryIsWhole
<1>1. InstallInv => BinaryIsWhole
  BY DEF InstallInv
<1>. QED
  BY <1>1, InstallSafe, PTL

(* Only SaveConfig writes config.json with what the installer read, and the
   last edit is then in it or in config.json.bak (install.go:388-391), and
   tailscale_path as it was or as it was found. *)
LEMMA SaveKeepsEdits ==
  ASSUME InstallInv, [Next]_vars, At("save"), proc.alone, edits' = edits,
         edits \in {config.edits, bak}, config' # config
  PROVE  /\ edits \in {config'.edits, bak}
         /\ config.state = "good" => config'.path \in {config.path, "found"}
<1>. USE DEF InstallInv, At, scmVars, fileVars, confVars, vars
<1>1. CASE SaveConfig
  <2>1. config'.edits = proc.read.edits /\ config'.path \in {proc.read.path, "found"}
    BY <1>1 DEF SaveConfig
  <2>2. CASE config.state = "missing"
    BY <2>2 DEF ConfigOK
  <2>3. CASE config.state = "good"
    BY <2>1, <2>3 DEF ConfigOK, Settings
  <2>. QED
    BY <2>2, <2>3 DEF ConfigOK, TypeOK, ConfigType
<1>2. CASE EditConfig
  BY <1>2 DEF EditConfig, TypeOK
<1>3. CASE MachineRestarts \/ ProcessDies
  BY <1>3 DEF MachineRestarts, ProcessDies
<1>4. CASE Step /\ ~SaveConfig
  BY <1>4 DEF Step, StartInstall, StartUninstall, StartUpdate, Begin, LoadConfig, OpenService,
     StopService,
     AwaitStopped, Sweep, Write, Written, Swap, RenameAside, Place, PutBack, Register, StartService,
     AwaitRunning, Deregister, Purge
<1>5. CASE ServiceStarts \/ ServiceExits \/ ManagerRestarts \/ BridgeOpens \/ BridgeEnds \/ WritesOut
  BY <1>5 DEF ServiceStarts, ServiceExits, ManagerRestarts, BridgeOpens, BridgeEnds, WritesOut
<1>. QED
  BY <1>1, <1>2, <1>3, <1>4, <1>5 DEF Next

\* Which steps end a process, and what they say of it.
LEMMA EndingKeepsWord ==
  ASSUME InstallInv, [Next]_vars, ~At("idle"), proc'.pc = "idle", proc.alone
  PROVE  LET told == proc'.told IN
         /\ (told = "ok" /\ proc.kind \in {"install", "upgrade"}) =>
              service = "Running" /\ image = proc.image /\ file["binary"] = image
         /\ (told = "failed" /\ proc.kind = "upgrade" /\ (~proc.staged \/ proc.pc \in Stages)) =>
              service = "Running" /\ image \in Images /\ image = file["binary"]
         /\ (told = "ok" /\ proc.kind \in {"uninstall", "purge"} /\ ~proc.blind) =>
              /\ service' = "absent" /\ image' = "none"
              /\ proc.kind = "purge" => \A x \in Places : file'[x] = "none"
<1>. USE DEF InstallInv, At, Pcs, scmVars, fileVars, confVars, vars
<1>1. CASE StartInstall \/ StartUninstall \/ StartUpdate
  BY <1>1 DEF StartInstall, StartUninstall, StartUpdate, Begin
<1>2. CASE LoadConfig
  BY <1>2, LoadSets, SettingsTypes, EndSets DEF LoadConfig, Settings, NewSettings, TypeOK, KindOK,
     Stages
<1>3. CASE SaveConfig
  BY <1>3, SavedSets, EndSets DEF SaveConfig, KindOK, Stages
<1>4. CASE OpenService
  BY <1>4, OpenSets DEF OpenService
<1>5. CASE StopService
  BY <1>5, ToSets, EndSets DEF StopService, Stopped, KindOK, Stages
<1>6. CASE AwaitStopped
  BY <1>6, ToSets, EndSets DEF AwaitStopped, Stopped, KindOK, Stages
<1>7. CASE Sweep \/ Swap \/ Place
  BY <1>7, ToSets DEF Sweep, Swap, Place, Stages
<1>8. CASE Write \/ Written \/ RenameAside \/ PutBack
  <2>1. proc.kind \in {"install", "upgrade"}
    BY <1>8 DEF Write, Written, RenameAside, PutBack, KindOK, Stages
  <2>2. TypeOK /\ proc'.pc = "idle"
    OBVIOUS
  <2>3. ~To("writing") /\ ~To("swap")
    BY <2>2, ToSets DEF Stages
  <2>4. \A s \in Strays : ~Become([proc EXCEPT !.pc = "place", !.stray = s])
    BY <2>2, AsideSets
  <2>5. Unstaged
    BY <1>8, <2>3, <2>4 DEF Write, Written, RenameAside, PutBack
  <2>6. proc.kind # "upgrade" /\ proc'.told = "failed"
    BY <2>2, <2>5, UnstagedSets
  <2>. QED
    BY <2>1, <2>6
<1>9. CASE Register
  BY <1>9, ToSets, EndSets DEF Register, KindOK, Stages
<1>10. CASE StartService
  BY <1>10, ToSets, EndSets DEF StartService, Launch, KindOK, ServiceOK, AfterStop, Stages
<1>11. CASE AwaitRunning
  BY <1>11, EndSets, ImagesAssumption DEF AwaitRunning, KindOK, StageOK, ServiceOK, TypeOK,
     Started, Stages
<1>12. CASE Deregister
  BY <1>12, ToSets, EndSets DEF Deregister, KindOK, ServiceOK, AfterStop, Started, Stages
<1>13. CASE Purge
  BY <1>13, EndSets DEF Purge, KindOK, ServiceOK, Started, TypeOK, Stages
<1>14. CASE ProcessDies
  BY <1>14 DEF ProcessDies, Become, Idle
<1>15. CASE MachineRestarts
  BY <1>15 DEF MachineRestarts, Idle
<1>16. CASE ServiceStarts \/ ServiceExits \/ BridgeOpens \/ BridgeEnds \/ WritesOut \/ UNCHANGED vars
  BY <1>16 DEF ServiceStarts, ServiceExits, BridgeOpens, BridgeEnds, WritesOut
<1>17. CASE ManagerRestarts \/ EditConfig
  BY <1>17, OvertakenSets DEF ManagerRestarts, EditConfig
<1>. QED
  BY <1>1, <1>2, <1>3, <1>4, <1>5, <1>6, <1>7, <1>8, <1>9, <1>10, <1>11, <1>12, <1>13, <1>14, <1>15,
     <1>16, <1>17 DEF Next, Step

(* Installing again loses the last edit of no setting of config.json but
   tailscale_path: what it writes holds it, or config.json.bak does
   (install.go:388-391).  That path is kept unless one is found
   (install.go:62-64). *)
THEOREM SettingsAlwaysSurvive == Spec => SettingsSurvive
<1>1. InstallInv /\ [Next]_vars =>
        [(At("save") /\ proc.alone /\ edits' = edits /\ edits \in {config.edits, bak}) =>
           /\ edits \in {config'.edits, bak}
           /\ config.state = "good" => config'.path \in {config.path, "found"}]_config
  BY SaveKeepsEdits
<1>. QED
  BY <1>1, InstallSafe, PTL DEF Spec, SettingsSurvive

(* An installer that nothing overtook tells the truth: after a success the
   service runs the image of the installer, after an upgrade that could not
   stage its image it runs the previous one (install.go:87-95), and a removal
   that found the service and succeeded left none. *)
THEOREM InstallAlwaysKeepsItsWord == Spec => InstallKeepsItsWord
<1>1. InstallInv /\ [Next]_vars =>
        [(~At("idle") /\ proc'.pc = "idle" /\ proc.alone) =>
           LET told == proc'.told IN
           /\ (told = "ok" /\ proc.kind \in {"install", "upgrade"}) =>
                service = "Running" /\ image = proc.image /\ file["binary"] = image
           /\ (told = "failed" /\ proc.kind = "upgrade" /\ (~proc.staged \/ proc.pc \in Stages)) =>
                service = "Running" /\ image \in Images /\ image = file["binary"]
           /\ (told = "ok" /\ proc.kind \in {"uninstall", "purge"} /\ ~proc.blind) =>
                /\ service' = "absent" /\ image' = "none"
                /\ proc.kind = "purge" => \A x \in Places : file'[x] = "none"]_proc
  BY EndingKeepsWord
<1>. QED
  BY <1>1, InstallSafe, PTL DEF Spec, InstallKeepsItsWord
=============================================================================
