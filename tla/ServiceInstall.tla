--------------------------- MODULE ServiceInstall ---------------------------
(***************************************************************************)
(* internal/svcmgr/install.go and cmd/hypervm-mcp/update.go: installing,   *)
(* upgrading and removing the Windows service.  An elevated process writes *)
(* config.json, stops the service, puts its own image where the service's  *)
(* was and starts the service again.  Any of those steps may fail, the     *)
(* process may be closed and another one run, the machine may restart, the *)
(* service control manager may bring a crashed service back meanwhile, and *)
(* bridges of MCP clients hold the image they run.  One such process runs  *)
(* at a time, which nothing in the code enforces.                          *)
(***************************************************************************)
EXTENDS Naturals

CONSTANTS Images,   \* complete images of the program, published ones
          Altered,  \* an image that is not what a release published
          Strays,   \* free names .old-<i> in the program's directory
          MaxEdits  \* how often somebody edits config.json

ASSUME ImagesAssumption == Altered \notin Images /\ {"torn", "none"} \cap (Images \cup {Altered}) = {}
ASSUME StraysAssumption == Strays \cap {"binary", "new", "none"} = {}
ASSUME EditsAssumption == MaxEdits \in Nat

VARIABLES proc,     \* the elevated process: what it does, how it ended
          service,  \* "absent" or its state in the service control manager
          image,    \* the image the service's process runs, or "none"
          marked,   \* deleted while it ran: the entry goes when it ends
          recover,  \* the service crashed: the manager will start it again
          file,     \* [Places -> image, "torn" or "none"]
          held,     \* [Places -> who runs the file: "service", "bridge"]
          doomed,   \* names Windows will delete at the next restart
          unsynced, \* files Windows has yet to write to the disk
          config,   \* [state, edits, path]: config.json and its tailscale_path
          bak,      \* the edits config.json.bak holds
          edits,    \* the edits made since config.json was written anew
          gone      \* history: the service's image was given up, purged or torn

vars == <<proc, service, image, marked, recover, file, held, doomed, unsynced, config, bak, edits, gone>>
scmVars == <<service, image, marked, recover>>
fileVars == <<file, held, doomed, gone, unsynced>>
confVars == <<config, bak, edits>>

Places == {"binary", "new"} \cup Strays
States == {"absent", "Stopped", "StartPending", "Running", "StopPending"}
Kinds == {"install", "upgrade", "uninstall", "purge"}

(* Where tailscale.exe is said to be: nowhere yet, where somebody wrote it is, or
   where the installer found it. *)
Paths == {"none", "own", "found"}

NewSettings == [edits |-> 0, path |-> "none"]

Idle == [pc |-> "idle", kind |-> "install", image |-> "none", read |-> NewSettings,
         stray |-> "none", told |-> "none", staged |-> TRUE, alone |-> TRUE, blind |-> FALSE]

Init ==
  /\ proc = Idle
  /\ \E i \in Images \cup {"none"} :
       /\ file = [x \in Places |-> IF x = "binary" THEN i ELSE "none"]
       /\ service = IF i = "none" THEN "absent" ELSE "Running"
       /\ image = i
       /\ held = [x \in Places |-> IF x = "binary" /\ i # "none" THEN {"service"} ELSE {}]
       /\ config = [state |-> IF i = "none" THEN "missing" ELSE "good", edits |-> 0, path |-> "none"]
  /\ marked = FALSE /\ recover = FALSE /\ doomed = {} /\ unsynced = {}
  /\ bak = 0 /\ edits = 0 /\ gone = FALSE

At(pc) == proc.pc = pc
Whole(x) == file[x] \in Images \cup {Altered}
Started == service \in {"StartPending", "Running", "StopPending"}
Become(new) == proc' = new
To(pc) == Become([proc EXCEPT !.pc = pc])
End(what) == Become([Idle EXCEPT !.told = what])
Overtaken == proc' = IF At("idle") THEN proc ELSE [proc EXCEPT !.alone = FALSE]

(***************************************************************************)
(* cmdUpdate downloads a release and installs by running it.  download     *)
(* keeps only a file whose digest is the published one, so an altered body *)
(* never gets to run; a user may also run install from an image at hand.   *)
(***************************************************************************)
Download(body, sum) == IF sum = body THEN body ELSE "none"

Begin(kind, i) ==
  /\ At("idle")
  /\ Become([Idle EXCEPT !.kind = kind, !.image = i, !.told = "none",
                            !.pc = IF kind = "install" THEN "load" ELSE "open"])
  /\ UNCHANGED <<scmVars, fileVars, confVars>>

StartInstall == \E i \in Images : Begin("install", i)
StartUninstall == \E kind \in {"uninstall", "purge"} : Begin(kind, "none")
StartUpdate ==
  /\ Whole("binary")
  /\ \E body \in Images \cup {Altered}, sum \in Images :
       Download(body, sum) \notin {"none", file["binary"]} /\ Begin("install", Download(body, sum))

(***************************************************************************)
(* The configuration: read it, keep what was edited in it; what cannot be  *)
(* read is moved aside; then write it.                                     *)
(***************************************************************************)
Settings == [edits |-> config.edits, path |-> config.path]
Read(settings) == Become([proc EXCEPT !.pc = "save", !.read = settings])

LoadConfigOrNew ==
  /\ At("load") /\ Read(IF config.state = "good" THEN Settings ELSE NewSettings)
  /\ UNCHANGED <<scmVars, fileVars, confVars>>

LoadConfig ==
  /\ At("load")
  /\ \/ config.state = "good" /\ Read(Settings) /\ UNCHANGED <<config, bak>>
     \/ config.state = "missing" /\ Read(NewSettings) /\ UNCHANGED <<config, bak>>
     \/ /\ config.state = "unusable" /\ Read(NewSettings)
        /\ bak' = config.edits /\ config' = [config EXCEPT !.state = "missing"]
     \/ config.state = "unusable" /\ End("failed") /\ UNCHANGED <<config, bak>>
  /\ UNCHANGED <<scmVars, fileVars, edits>>

(* A tailscale.exe found under Program Files replaces the path read, whoever
   wrote that. *)
SaveConfig ==
  /\ At("save")
  /\ \/ /\ \E path \in {proc.read.path, "found"} :
             config' = [state |-> "good", edits |-> proc.read.edits, path |-> path]
        /\ Become([proc EXCEPT !.pc = "open", !.read = NewSettings])
     \/ UNCHANGED config /\ End("failed")
  /\ UNCHANGED <<scmVars, fileVars, bak, edits>>

(***************************************************************************)
(* The service: is there one, stop it and wait, start it and wait.  The    *)
(* waits have a deadline, after which the service may still get there.     *)
(***************************************************************************)
(* Any error is taken for the absence of the service, and blind says that the
   service is there all the same. *)
OpenService ==
  /\ At("open")
  /\ \/ /\ service # "absent"
        /\ Become([proc EXCEPT !.kind = IF @ = "install" THEN "upgrade" ELSE @, !.pc = "stop"])
     \/ Become([proc EXCEPT !.pc = IF proc.kind = "install" THEN "sweep" ELSE "purge",
                             !.blind = service # "absent"])
  /\ UNCHANGED <<scmVars, fileVars, confVars>>

Stopped == IF proc.kind = "upgrade" THEN "sweep" ELSE "delete"

StopService ==
  /\ At("stop")
  /\ \/ service = "Stopped" /\ To(Stopped) /\ UNCHANGED service
     \/ service = "Running" /\ To("stopping") /\ service' = "StopPending"
     \/ service \notin {"Stopped", "Running"} /\ End("failed") /\ UNCHANGED service
  /\ UNCHANGED <<image, marked, recover, fileVars, confVars>>

AwaitStopped ==
  /\ At("stopping")
  /\ IF service = "Stopped" THEN To(Stopped) ELSE End("failed")
  /\ UNCHANGED <<scmVars, fileVars, confVars>>

(* The manager starts the image that is there now. *)
Launch ==
  /\ service = "Stopped" /\ Whole("binary")
  /\ service' = "StartPending" /\ image' = file["binary"] /\ recover' = FALSE
  /\ UNCHANGED marked
  /\ held' = [held EXCEPT !["binary"] = @ \cup {"service"}]

(* After a failed staging it is the previous version that is started. *)
StartService ==
  /\ At("start")
  /\ \/ /\ service = "Running" /\ End(IF proc.staged THEN "ok" ELSE "failed")
        /\ UNCHANGED <<scmVars, held>>
     \/ Launch /\ To("starting")
     \/ /\ service # "Running" /\ End(IF proc.staged THEN "failed" ELSE "stranded")
        /\ UNCHANGED <<scmVars, held>>
  /\ UNCHANGED <<file, doomed, gone, unsynced, confVars>>

AwaitRunningBriefly ==
  /\ At("starting") /\ End(IF proc.staged THEN "ok" ELSE "failed")
  /\ UNCHANGED <<scmVars, fileVars, confVars>>

AwaitRunning ==
  /\ At("starting")
  /\ End(IF service = "Running" THEN IF proc.staged THEN "ok" ELSE "failed"
            ELSE IF proc.staged THEN "failed" ELSE "stranded")
  /\ UNCHANGED <<scmVars, fileVars, confVars>>

(***************************************************************************)
(* Staging the image.  It is written beside the target and renamed over    *)
(* it, which Windows refuses while somebody runs the target: that one can  *)
(* be renamed away, the new one put in its place, and it is put back if    *)
(* the second renaming fails.  An image that is the staged one itself has  *)
(* nothing to copy.                                                        *)
(***************************************************************************)
(* A file that is gone need not be written out. *)
OfFiles(names) == unsynced' = {x \in names : file'[x] # "none"}

Sweep ==
  /\ At("sweep")
  /\ \/ file["binary"] = proc.image /\ To("placed") /\ UNCHANGED file
     \/ /\ To("write")
        /\ file' = [x \in Places |-> IF x \in Strays /\ held[x] = {} THEN "none" ELSE file[x]]
  /\ OfFiles(unsynced) /\ UNCHANGED <<held, doomed, gone, scmVars, confVars>>

(* What a failed staging leads to: the previous version of an upgrade is
   started again, a first installation just ends. *)
Unstaged ==
  IF proc.kind = "upgrade" THEN Become([proc EXCEPT !.pc = "start", !.staged = FALSE])
  ELSE End("failed")

WriteInPlace ==
  /\ At("write") /\ held["binary"] = {}
  /\ To("writing") /\ file' = [file EXCEPT !["binary"] = "torn"]
  /\ UNCHANGED <<held, doomed, gone, unsynced, scmVars, confVars>>

Write ==
  /\ At("write")
  /\ \/ To("writing") /\ file' = [file EXCEPT !["new"] = "torn"]
     \/ Unstaged /\ UNCHANGED file
  /\ UNCHANGED <<held, doomed, gone, unsynced, scmVars, confVars>>

(* os.WriteFile leaves the image in memory, for Windows to write out when it
   does; nothing waits for that. *)
Written ==
  /\ At("writing")
  /\ \/ /\ To("swap") /\ file' = [file EXCEPT !["new"] = proc.image]
        /\ unsynced' = unsynced \cup {"new"}
     \/ Unstaged /\ UNCHANGED <<file, unsynced>>
  /\ UNCHANGED <<held, doomed, gone, scmVars, confVars>>

Move(x, y) == [file EXCEPT ![y] = file[x], ![x] = "none"]

(* A file moves as it is, on the disk or not. *)
Renames(x, y) ==
  OfFiles(IF x \in unsynced THEN unsynced \cup {y} ELSE unsynced \ {y})

Swap ==
  /\ At("swap")
  /\ \/ /\ file["new"] # "none" /\ held["binary"] = {}
        /\ file' = Move("new", "binary") /\ Renames("new", "binary")
        /\ gone' = FALSE /\ To("placed")
     \/ To("aside") /\ UNCHANGED <<file, gone, unsynced>>
  /\ UNCHANGED <<held, doomed, scmVars, confVars>>

(* The deferred removal of the file written. *)
Without(f) == [f EXCEPT !["new"] = "none"]

RenameAside ==
  /\ At("aside")
  /\ \/ \E s \in Strays :
          /\ file["binary"] # "none" /\ file[s] = "none"
          /\ file' = Move("binary", s) /\ Renames("binary", s)
          /\ held' = [held EXCEPT ![s] = held["binary"], !["binary"] = {}]
          /\ Become([proc EXCEPT !.pc = "place", !.stray = s])
     \/ file' = Without(file) /\ OfFiles(unsynced) /\ Unstaged /\ UNCHANGED held
  /\ UNCHANGED <<doomed, gone, scmVars, confVars>>

Place ==
  /\ At("place")
  /\ \/ /\ file["new"] # "none" /\ held["binary"] = {}
        /\ file' = Move("new", "binary") /\ Renames("new", "binary") /\ gone' = FALSE
        /\ doomed' = doomed \cup {proc.stray} /\ To("placed")
     \/ To("putback") /\ UNCHANGED <<file, doomed, gone, unsynced>>
  /\ UNCHANGED <<held, scmVars, confVars>>

PutBack ==
  /\ At("putback")
  /\ LET s == proc.stray IN
       \/ /\ file[s] # "none" /\ held["binary"] = {}
          /\ file' = Without(Move(s, "binary")) /\ Renames(s, "binary")
          /\ held' = [held EXCEPT !["binary"] = held[s], ![s] = {}] /\ UNCHANGED gone
       \/ /\ file' = Without(file) /\ OfFiles(unsynced)
          /\ gone' = (gone \/ ~Whole("binary")) /\ UNCHANGED held
  /\ Unstaged /\ UNCHANGED <<doomed, scmVars, confVars>>

(***************************************************************************)
(* Registering: updateExisting or CreateService, and the recovery actions, *)
(* without which a service just created stays registered and stopped.      *)
(***************************************************************************)
Register ==
  /\ At("placed")
  /\ \/ /\ proc.kind = "install" /\ service = "absent" /\ service' = "Stopped"
        /\ (To("start") \/ End("failed"))
     \/ proc.kind = "upgrade" /\ ~marked /\ To("start") /\ UNCHANGED service
     \/ End("failed") /\ UNCHANGED service
  /\ UNCHANGED <<image, marked, recover, fileVars, confVars>>

(* A service the manager has restarted meanwhile goes on until it ends. *)
Deregister ==
  /\ At("delete")
  /\ \/ /\ ~marked /\ marked' = Started /\ service' = (IF Started THEN service ELSE "absent")
        /\ recover' = FALSE
        /\ IF proc.kind = "purge" THEN To("purge") ELSE End("ok")
     \/ End("failed") /\ UNCHANGED <<service, marked, recover>>
  /\ UNCHANGED <<image, fileVars, confVars>>

(* Removing the directory takes whatever is not held, even when it fails.  The
   installed program purging itself, own, moves its file out and tries again.
   A service that was not found keeps running from what is left, or has no image
   any more. *)
Purge ==
  /\ At("purge")
  /\ IF proc.kind = "purge"
     THEN \E own \in {FALSE, Whole("binary")} :
            LET left == {x \in Places : held[x] # {}} \ (IF own THEN {"binary"} ELSE {})
                keep == IF own /\ left # {} THEN left \cup {"binary"} ELSE left IN
            /\ file' = [x \in Places |-> IF x \in keep THEN file[x] ELSE "none"]
            /\ held' = [x \in Places |-> IF x \in keep THEN held[x] ELSE {}]
            /\ gone' = (gone \/ (proc.blind /\ "binary" \notin keep))
            /\ config' = [state |-> "missing", edits |-> 0, path |-> "none"]
            /\ bak' = 0 /\ edits' = 0
            /\ End(IF left = {} THEN "ok" ELSE "failed")
     ELSE End("ok") /\ UNCHANGED <<file, held, gone, confVars>>
  /\ OfFiles(unsynced) /\ UNCHANGED <<doomed, scmVars>>

Step ==
  \/ StartInstall \/ StartUninstall \/ StartUpdate
  \/ LoadConfig \/ SaveConfig \/ OpenService \/ StopService \/ AwaitStopped
  \/ Sweep \/ Write \/ Written \/ Swap \/ RenameAside \/ Place \/ PutBack
  \/ Register \/ StartService \/ AwaitRunning \/ Deregister \/ Purge

(***************************************************************************)
(* What happens meanwhile.                                                 *)
(***************************************************************************)
LetGo(who) == [x \in Places |-> held[x] \ {who}]

ServiceStarts ==
  /\ service = "StartPending" /\ service' = "Running"
  /\ UNCHANGED <<proc, image, marked, recover, fileVars, confVars>>

ServiceExits ==
  /\ Started
  /\ \/ service = "StopPending" /\ recover' = FALSE
     \/ recover' = ~marked                               \* it crashed
  /\ service' = (IF marked THEN "absent" ELSE "Stopped") /\ marked' = FALSE
  /\ image' = "none" /\ held' = LetGo("service")
  /\ UNCHANGED <<proc, file, doomed, gone, unsynced, confVars>>

(* The recovery actions: 5, 10 and then 60 seconds after a crash. *)
ManagerRestarts ==
  /\ recover /\ Launch /\ Overtaken
  /\ UNCHANGED <<file, doomed, gone, unsynced, confVars>>

BridgeOpens ==
  /\ Whole("binary") /\ held' = [held EXCEPT !["binary"] = @ \cup {"bridge"}] /\ held' # held
  /\ UNCHANGED <<proc, scmVars, file, doomed, gone, unsynced, confVars>>

BridgeEnds ==
  /\ held' = LetGo("bridge") /\ held' # held
  /\ UNCHANGED <<proc, scmVars, file, doomed, gone, unsynced, confVars>>

EditConfig ==
  /\ config.state # "missing" /\ edits < MaxEdits
  /\ edits' = edits + 1
  /\ \E state \in {"good", "unusable"}, path \in {config.path, "own"} :
       config' = [state |-> state, edits |-> edits', path |-> path]
  /\ Overtaken /\ UNCHANGED <<scmVars, fileVars, bak>>

Between == proc.pc \in {"place", "putback"}

ProcessDies ==
  /\ ~At("idle") /\ Become(Idle) /\ gone' = (gone \/ (Between /\ ~Whole("binary")))
  /\ UNCHANGED <<scmVars, file, held, doomed, unsynced, confVars>>

WritesOut ==
  /\ unsynced # {} /\ unsynced' = {}
  /\ UNCHANGED <<proc, scmVars, file, held, doomed, gone, confVars>>

(* The machine may also stop without notice, and what was not on the disk is
   torn. *)
MachineRestarts ==
  /\ proc' = Idle
  /\ \E torn \in SUBSET unsynced :
       file' = [x \in Places |-> IF x \in doomed \/ file[x] = "none" THEN "none"
                                ELSE IF x \in torn THEN "torn" ELSE file[x]]
  /\ doomed' = {} /\ unsynced' = {}
  /\ gone' = (gone \/ (Between /\ ~Whole("binary")) \/ file'["binary"] # file["binary"])
  /\ recover' = FALSE /\ marked' = FALSE
  /\ IF service # "absent" /\ ~marked /\ file'["binary"] \in Images \cup {Altered}
     THEN /\ service' = "StartPending" /\ image' = file'["binary"]
          /\ held' = [x \in Places |-> IF x = "binary" THEN {"service"} ELSE {}]
     ELSE /\ service' = (IF service = "absent" \/ marked THEN "absent" ELSE "Stopped")
          /\ image' = "none"
          /\ held' = [x \in Places |-> {}]
  /\ UNCHANGED confVars

Next ==
  \/ Step \/ ProcessDies
  \/ ServiceStarts \/ ServiceExits \/ ManagerRestarts
  \/ BridgeOpens \/ BridgeEnds \/ EditConfig \/ WritesOut \/ MachineRestarts

Spec == Init /\ [][Next]_vars

(***************************************************************************)
(* Properties.                                                             *)
(***************************************************************************)
Stages == {"sweep", "write", "writing", "swap", "aside", "place", "putback"}
Pcs == {"idle", "load", "save", "open", "stop", "stopping", "placed", "start", "starting",
        "delete", "purge"} \cup Stages

ProcType == [pc : Pcs, kind : Kinds, image : Images \cup {"none"},
             read : [edits : Nat, path : Paths], stray : Strays \cup {"none"},
             told : {"none", "ok", "failed", "stranded"},
             staged : BOOLEAN, alone : BOOLEAN, blind : BOOLEAN]
FileType == [Places -> Images \cup {"torn", "none"}]
HeldType == [Places -> SUBSET {"service", "bridge"}]
ConfigType == [state : {"missing", "good", "unusable"}, edits : Nat, path : Paths]

TypeOK ==
  /\ proc \in ProcType /\ file \in FileType /\ held \in HeldType /\ config \in ConfigType
  /\ service \in States /\ image \in Images \cup {"none"}
  /\ marked \in BOOLEAN /\ recover \in BOOLEAN /\ gone \in BOOLEAN
  /\ doomed \subseteq Strays /\ unsynced \subseteq Places
  /\ bak \in Nat /\ edits \in Nat

(* A service that stays registered has a complete, published image at its path, whatever
   fails or runs beside the installer: a write that stops halfway leaves a
   working service behind (install.go:436-437).  It has none between the two
   renamings and after one that was given up there, after a purge that took an
   error for the absence of the service (install.go:137-151), and when the
   machine stops without notice before Windows has written the image out, for
   which nothing waits (install.go:439-444). *)
BinaryIsWhole ==
  (service # "absent" /\ ~marked) => file["binary"] \in Images \/ gone \/ Between

(* Installing again keeps what was last edited in config.json, there or in
   config.json.bak, unless it was edited after this installer began
   (install.go:388-391); tailscale_path, which whoever has edited it is not kept
   if the installer finds a tailscale.exe itself, is then what it found and
   nothing else (install.go:62-64). *)
SettingsSurvive ==
  [][(At("save") /\ proc.alone /\ edits' = edits /\ edits \in {config.edits, bak}) =>
       /\ edits \in {config'.edits, bak}
       /\ config.state = "good" => config'.path \in {config.path, "found"}]_config

(* An install that says it succeeded has the service running its own image; an
   upgrade that could not stage its image has put the previous one back in
   service, or says it could not (install.go:87-95); an uninstall has left no
   service, and a purge no file, unless it took an error for the absence of the
   service (install.go:137-151).  All unless something else was at the service meanwhile: the manager that restarts a crashed service can
   bring the old image back before the new one is in place, and the install
   then takes it for its own. *)
InstallKeepsItsWord ==
  [][(~At("idle") /\ proc'.pc = "idle" /\ proc.alone) =>
       LET told == proc'.told IN
       /\ (told = "ok" /\ proc.kind \in {"install", "upgrade"}) =>
            service = "Running" /\ image = proc.image /\ file["binary"] = image
       /\ (told = "failed" /\ proc.kind = "upgrade" /\ (~proc.staged \/ proc.pc \in Stages)) =>
            service = "Running" /\ image \in Images /\ image = file["binary"]
       /\ (told = "ok" /\ proc.kind \in {"uninstall", "purge"} /\ ~proc.blind) =>
            /\ service' = "absent" /\ image' = "none"
            /\ proc.kind = "purge" => \A x \in Places : file'[x] = "none"]_proc
=============================================================================
