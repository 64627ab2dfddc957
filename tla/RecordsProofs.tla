--------------------------- MODULE RecordsProofs ----------------------------
(***************************************************************************)
(* The records of a name stay its machine's, for any clients, machines,    *)
(* names and calls, kills and crashes.                                     *)
(***************************************************************************)
EXTENDS HostContractProofs

(***************************************************************************)
(* Where a renaming stands.                                                *)
(***************************************************************************)
TailPlaces == {"creds", "pins", "pool", "tunnels"}

RenamePlaces ==
  \A c \in Callers :
    /\ call[c].st = "idle" => Req(c).op = "none"
    /\ call[c].st = "tail" => call[c].pc = "pick" \/ Req(c).op = "rename_vm"
    /\ Req(c).op = "rename_vm" =>
         /\ Req(c).name \in Names /\ Req(c).new \in Names
         /\ call[c].st = "queued" => call[c].pc = "look" /\ ~call[c].touched
         /\ Scripting(c) => /\ call[c].pc \in {"look", "rename", "end"}
                            /\ call[c].touched <=> call[c].pc = "end"
         /\ call[c].st = "tail" => call[c].pc \in TailPlaces /\ call[c].touched

TodoNamed == \A r \in todo : r.op = "rename_vm" => r.name \in Names /\ r.new \in Names

\* What is done for a renaming is one of these.
LEMMA RenameWorks ==
  ASSUME NEW c \in Callers, Works(c), Req(c).op = "rename_vm", RenamePlaces
  PROVE  \/ FindForRename(c) \/ RenameVM(c) \/ ScriptDies(c) \/ RenameDone(c)
         \/ MovesRecords(c) /\ RecordsTail(c)
<1>. USE DEF At, Req
<1>1. Script(c) => FindForRename(c) \/ RenameVM(c) \/ ScriptDies(c)
  <2>1. ~\E s, t : \/ LookUp(c, {"stop_vm", "restart_vm"}, s, t) \/ LookUp(c, {"suspend_vm"}, s, t)
                   \/ LookUp(c, {"resume_vm"}, s, t)
                   \/ LookUp(c, {"create_checkpoint", "attach_vhd", "export_vm"}, s, t)
    BY DEF LookUp
  <2>2. ~(\/ FindForStart(c) \/ StartVM(c) \/ StopVM(c) \/ PollForOff(c) \/ Suspend(c) \/ Resume(c)
          \/ ReportByName(c) \/ FindCheckpoint(c) \/ CreateCheckpoint(c) \/ TurnOff(c)
          \/ RestoreCheckpoint(c) \/ DeleteCheckpoint(c) \/ AwaitMerge(c))
    BY DEF FindForStart, StartVM, StopVM, PollForOff, Suspend, Resume, ReportByName,
       FindCheckpoint, CreateCheckpoint, TurnOff, RestoreCheckpoint, DeleteCheckpoint, AwaitMerge
  <2>3. ~(\/ ReadParent(c) \/ MakeChild(c) \/ ChildMade(c) \/ CheckNewName(c) \/ NewVM(c)
          \/ Configure(c) \/ BootDevices(c) \/ FindForDelete(c) \/ RemoveVM(c) \/ Survey(c)
          \/ RemoveDisk(c) \/ ExportVM(c) \/ ImportVM(c))
    BY DEF ReadParent, MakeChild, ChildMade, CheckNewName, NewVM, Configure, BootDevices,
       FindForDelete, RemoveVM, Survey, RemoveDisk, ExportVM, ImportVM, Creations
  <2>4. ~(\/ CreateVHD(c) \/ ConvertVHD(c) \/ FindForResize(c) \/ ResizeVHD(c) \/ AttachVHD(c)
          \/ FindForDetach(c) \/ DetachVHD(c) \/ ClearSeedPath(c) \/ MakeSeedDisk(c)
          \/ MountSeedDisk(c) \/ WriteSeedDisk(c) \/ EndScript(c))
    BY DEF CreateVHD, ConvertVHD, FindForResize, ResizeVHD, AttachVHD, FindForDetach, DetachVHD,
       ClearSeedPath, MakeSeedDisk, MountSeedDisk, WriteSeedDisk, EndScript
  <2>. QED
    BY <2>1, <2>2, <2>3, <2>4 DEF Script
<1>2. ~Settings(c)
  BY DEF Settings, FindForSetting, ApplySetting, Setters
<1>3. ~Networking(c)
  BY DEF Networking, CheckNewSwitch, NewSwitch, FindSwitch, DeleteSwitch, ClearHostAddress,
     SetHostAddress, RemoveNAT, NewNAT, FindAdapter, AddAdapter, ConnectAdapter, SetPort, RemoveAdapter
<1>4. ~Answers(c)
  BY DEF Answers, ReadAdapters, Pick, Diagnose, RenamePlaces, TailPlaces
<1>. QED
  BY <1>1, <1>2, <1>3, <1>4 DEF Works, RunsScript, RunsNetworkScript, EndsRename, MovesRecords

(***************************************************************************)
(* What a step does to a call, as far as a renaming goes.                  *)
(***************************************************************************)
Untouched(d) ==
  /\ call'[d].st = call[d].st /\ call'[d].req = call[d].req /\ call'[d].pc = call[d].pc
  /\ call'[d].touched = call[d].touched

Arrives(d) ==
  /\ call[d].st = "idle" /\ call'[d].st = "queued" /\ ~call'[d].touched
  /\ \E r \in todo : call'[d].req = r /\ call'[d].pc = FirstStep(r.op)

Lasts(d) ==
  /\ \/ call[d].st = "queued" /\ call'[d].st = "running"
     \/ Scripting(d) /\ call'[d].st = "orphan"
  /\ call'[d].req = call[d].req /\ call'[d].pc = call[d].pc /\ call'[d].touched = call[d].touched

IsOver(d) ==
  /\ call[d].st # "idle" /\ call'[d].st = "idle" /\ ~call'[d].touched /\ call'[d].req = [op |-> "none"]
  /\ BetweenNames(d) /\ call'[d].told = "ok" => MovesRecords(d)

IsAnother(d) ==
  /\ call[d].st # "idle" /\ Req(d).op # "rename_vm" /\ call'[d].req = call[d].req
  /\ call'[d].st # "idle" /\ (call'[d].st = "tail" => call'[d].pc = "pick")

RenamesOn(d) ==
  /\ Req(d).op = "rename_vm" /\ call'[d].req = call[d].req
  /\ \/ /\ Scripting(d) /\ call'[d].st = call[d].st
        /\ \/ call[d].pc = "look" /\ call'[d].pc = "rename" /\ call'[d].touched = call[d].touched
           \/ RenameVM(d) /\ call'[d].pc = "end" /\ call'[d].touched
     \/ /\ Scripting(d) /\ call[d].pc = "end" /\ call'[d].st = "tail" /\ call'[d].pc = "creds"
        /\ call'[d].touched = call[d].touched
     \/ /\ MovesRecords(d) /\ call[d].st = "tail" /\ call'[d].st = "tail" /\ call'[d].pc \in TailPlaces
        /\ call'[d].touched = call[d].touched

CallMoves(d) == Untouched(d) \/ Arrives(d) \/ Lasts(d) \/ IsOver(d) \/ IsAnother(d) \/ RenamesOn(d)

\* What is done for one call is nothing to the others.
LEMMA OthersUntouched ==
  ASSUME Shaped, NEW c \in Callers, Outcome(c), NEW d \in Callers \ {c}
  PROVE  Untouched(d)
<1>1. CASE Changes(c)
  BY <1>1, OvertakenKeeps, OvertakenShows DEF Changes, Acts, OthersOvertaken, Untouched
<1>2. CASE Quiet(c)
  BY <1>2 DEF Quiet, OthersStay, Untouched
<1>. QED
  BY <1>1, <1>2 DEF Outcome

\* What a step of a script shows of its call.
LEMMA GotoShows ==
  ASSUME Shaped, NEW c \in Callers, NEW pc, NEW loc, Goto(c, pc, loc)
  PROVE  /\ call'[c].st = call[c].st /\ call'[c].req = call[c].req /\ call'[c].pc = pc
         /\ call'[c].touched = call[c].touched
BY DEF Shaped, Fields, Goto

LEMMA EffectShows ==
  ASSUME Shaped, NEW c \in Callers, NEW pc, NEW loc, Effect(c, pc, loc)
  PROVE  /\ call'[c].st = call[c].st /\ call'[c].req = call[c].req /\ call'[c].pc = pc
         /\ call'[c].touched
BY DEF Shaped, Fields, Effect

LEMMA TellShows ==
  ASSUME Shaped, NEW c \in Callers, NEW what, Tell(c, what)
  PROVE  /\ call'[c].st = "idle" /\ ~call'[c].touched /\ call'[c].req = [op |-> "none"]
         /\ call'[c].told = IF call[c].st = "orphan" THEN "failed" ELSE what
BY DEF Shaped, Tell, Idle

\* What is done for a renaming.
LEMMA RenameMoves ==
  ASSUME Shaped, RenamePlaces, NEW c \in Callers, Works(c), Req(c).op = "rename_vm"
  PROVE  IsOver(c) \/ RenamesOn(c)
<1>. USE GotoShows, EffectShows, TellShows
<1>1. Throw(c) \/ Fail(c) => IsOver(c)
  BY DEF Throw, Fail, IsOver, Scripting
<1>2. CASE FindForRename(c)
  <2>1. Scripting(c) /\ call[c].pc = "look" /\ (Throw(c) \/ Goto(c, "rename", Named(Req(c).name)))
    BY <1>2 DEF FindForRename, At
  <2>. QED
    BY <1>1, <2>1 DEF RenamesOn
<1>3. CASE RenameVM(c)
  <2>1. Scripting(c) /\ Effect(c, "end", Loc(c))
    BY <1>3 DEF RenameVM, At
  <2>. QED
    BY <1>3, <2>1 DEF RenamesOn
<1>4. CASE ScriptDies(c)
  BY <1>1, <1>4 DEF ScriptDies, Kill
<1>5. CASE RenameDone(c)
  <2>1. Scripting(c) /\ call[c].pc = "end" /\ (ThenTail(c, "creds") \/ Fail(c))
    BY <1>5 DEF RenameDone, At
  <2>2. CASE ThenTail(c, "creds") /\ call[c].st = "orphan"
    BY <2>1, <2>2 DEF ThenTail, IsOver
  <2>3. CASE ThenTail(c, "creds") /\ call[c].st # "orphan"
    <3>1. call' = [call EXCEPT ![c].st = "tail", ![c].pc = "creds"]
      BY <2>3 DEF ThenTail
    <3>2. /\ call'[c].st = "tail" /\ call'[c].pc = "creds" /\ call'[c].req = call[c].req
          /\ call'[c].touched = call[c].touched
      BY <3>1 DEF Shaped, Fields
    <3>. QED
      BY <2>1, <3>2 DEF RenamesOn
  <2>. QED
    BY <1>1, <2>1, <2>2, <2>3
<1>6. CASE MovesRecords(c) /\ RecordsTail(c)
  <2>1. CASE MoveTunnels(c)
    <3>1. Tell(c, "ok") /\ call[c].st # "idle"
      BY <2>1 DEF MoveTunnels
    <3>. QED
      BY <1>6, <3>1 DEF IsOver
  <2>2. CASE MoveCredentials(c) \/ MovePin(c) \/ DropConnection(c)
    <3>1. call[c].st = "tail" /\ \E pc \in TailPlaces : \E loc : Goto(c, pc, loc)
      BY <2>2 DEF MoveCredentials, MovePin, DropConnection, TailPlaces
    <3>. QED
      BY <1>6, <3>1 DEF RenamesOn
  <2>. QED
    BY <1>6, <2>1, <2>2 DEF RecordsTail
<1>. QED
  BY <1>2, <1>3, <1>4, <1>5, <1>6, RenameWorks

\* The service has done with the addresses of a guest in one step.
LEMMA PickLeaves ==
  ASSUME Shaped, NEW c \in Callers, Works(c), call[c].st = "tail", call[c].pc = "pick"
  PROVE  call'[c].st # "tail"
<1>1. ~RunsScript(c) /\ ~RunsNetworkScript(c) /\ ~EndsRename(c) /\ ~ReadAdapters(c)
  BY StoreSteps, OtherSteps, NetworkSteps DEF ScriptStep, Scripting, RunsScript, RunsNetworkScript, EndsRename
<1>2. ~MovesRecords(c)
  BY DEF MovesRecords, RecordsTail, MoveCredentials, MovePin, DropConnection, MoveTunnels
<1>3. CASE Pick(c)
  <2>1. \/ Tell(c, "ok") \/ Tell(c, "refused")
        \/ call' = [call EXCEPT ![c].st = "queued", ![c].pc = "look", ![c].loc = {}]
    BY <1>3 DEF Pick
  <2>2. CASE call' = [call EXCEPT ![c].st = "queued", ![c].pc = "look", ![c].loc = {}]
    BY <2>2 DEF Shaped, Fields
  <2>. QED
    BY <2>1, <2>2, TellShows
<1>4. CASE Diagnose(c)
  BY <1>4, TellShows DEF Diagnose
<1>. QED
  BY <1>1, <1>2, <1>3, <1>4 DEF Works, Answers

\* Every step, seen from any call.
LEMMA CallSteps ==
  ASSUME Shaped, Clean, RenamePlaces, [Next]_vars, NEW d \in Callers
  PROVE  CallMoves(d)
<1>. USE DEF CallMoves
<1>1. CASE Nothing \/ HyperVMovesAlone
  BY <1>1 DEF Nothing, HyperVMovesAlone, MergeEnds, GuestShutsDown, Untouched
<1>2. CASE Overtake
  BY <1>2, OvertakenKeeps, OvertakenShows DEF Overtake, Untouched
<1>3. CASE ServiceDies
  BY <1>3, DeathLeaves DEF Lasts, IsOver, Untouched
<1>4. ASSUME NEW c \in Callers, TakeSlot(c) \/ Refuse(c)
      PROVE  CallMoves(d)
  BY <1>4 DEF TakeSlot, Refuse, Shaped, Fields, Lasts, Untouched
<1>5. ASSUME NEW c \in Callers, NEW r \in todo, Submit(c, r, FirstStep(r.op))
      PROVE  CallMoves(d)
  <2>1. CASE d = c
    BY <1>5, <2>1 DEF Submit, Shaped, Idle, Arrives
  <2>2. CASE d # c
    BY <1>5, <2>2 DEF Submit, Shaped, Untouched
  <2>. QED
    BY <2>1, <2>2
<1>6. ASSUME NEW c \in Callers, Outcome(c), Works(c) \/ CancelQueued(c)
      PROVE  CallMoves(d)
  <2>1. CASE d # c
    BY <1>6, <2>1, OthersUntouched
  <2>2. CASE d = c /\ CancelQueued(c)
    BY <1>6, <2>2 DEF CancelQueued, Shaped, Idle, IsOver, BetweenNames, RenamePlaces
  <2>3. CASE d = c /\ Works(c) /\ Req(c).op = "rename_vm"
    BY <2>3, RenameMoves
  <2>4. CASE d = c /\ Works(c) /\ Req(c).op # "rename_vm"
    <3>1. CASE Changes(c)
      BY <2>4, <3>1 DEF Changes, Acts, Same, Scripting, IsAnother
    <3>2. CASE GoesOn(c)
      BY <2>4, <3>2, PickLeaves DEF GoesOn, SameSoFar, IsAnother, RenamePlaces
    <3>3. CASE Passes(c)
      BY <2>4, <3>3 DEF Passes, SameSoFar, IsAnother
    <3>4. CASE Ends(c)
      BY <2>4, <3>4 DEF Ends, IsOver, BetweenNames
    <3>. QED
      BY <1>6, <3>1, <3>2, <3>3, <3>4 DEF Outcome, Quiet
  <2>. QED
    BY <1>6, <2>1, <2>2, <2>3, <2>4
<1>. QED
  BY <1>1, <1>2, <1>3, <1>4, <1>5, <1>6, Steps DEF StepOf

\* The calls nobody has made yet are among those of the scene.
LEMMA TodoNext ==
  ASSUME TodoNamed, [Next]_vars
  PROVE  TodoNamed'
<1>1. todo' \subseteq todo
  <2>1. ASSUME NEW c \in Callers, Ask(c) \/ GetsSlot(c) \/ GivesUp(c) \/ Works(c)
        PROVE  todo' \subseteq todo
    BY <2>1 DEF Ask, GetsSlot, GivesUp, OnlyTheCall, Works, RunsScript, RunsNetworkScript,
       EndsRename, MovesRecords, Answers, sceneVars
  <2>2. CASE FilesRecord \/ Meanwhile \/ UNCHANGED vars
    BY <2>2 DEF FilesRecord, Meanwhile, sceneVars, vars
  <2>. QED
    BY <2>1, <2>2 DEF Next
<1>. QED
  BY <1>1 DEF TodoNamed

\* A renaming goes through its places in their order.
LEMMA PlacesNext ==
  ASSUME Shaped, Clean, RenamePlaces, TodoNamed, [Next]_vars
  PROVE  RenamePlaces'
<1>. SUFFICES ASSUME NEW d \in Callers
              PROVE  /\ call'[d].st = "idle" => Req(d).op' = "none"
                     /\ call'[d].st = "tail" => call'[d].pc = "pick" \/ Req(d).op' = "rename_vm"
                     /\ Req(d).op' = "rename_vm" =>
                          /\ Req(d).name' \in Names /\ Req(d).new' \in Names
                          /\ call'[d].st = "queued" => call'[d].pc = "look" /\ ~call'[d].touched
                          /\ Scripting(d)' => /\ call'[d].pc \in {"look", "rename", "end"}
                                              /\ call'[d].touched <=> call'[d].pc = "end"
                          /\ call'[d].st = "tail" => call'[d].pc \in TailPlaces /\ call'[d].touched
  BY DEF RenamePlaces
<1>. USE DEF RenamePlaces, Req, Scripting, TailPlaces
<1>1. CASE Untouched(d)
  BY <1>1 DEF Untouched
<1>2. CASE Arrives(d)
  BY <1>2 DEF Arrives, TodoNamed, FirstStep
<1>3. CASE Lasts(d)
  BY <1>3 DEF Lasts
<1>4. CASE IsOver(d)
  BY <1>4 DEF IsOver
<1>5. CASE IsAnother(d)
  BY <1>5 DEF IsAnother
<1>6. CASE RenamesOn(d)
  BY <1>6 DEF RenamesOn
<1>. QED
  BY <1>1, <1>2, <1>3, <1>4, <1>5, <1>6, CallSteps DEF CallMoves

\* How a call comes between names, stays there and leaves.
LEMMA BetweenSteps ==
  ASSUME Shaped, Clean, RenamePlaces, [Next]_vars, NEW d \in Callers
  PROVE  /\ BetweenNames(d) \/ BetweenNames(d)' => Req(d).op = "rename_vm"
         /\ BetweenNames(d)' => call'[d].req = call[d].req /\ (BetweenNames(d) \/ RenameVM(d))
         /\ BetweenNames(d)' /\ call'[d].st = "tail" =>
              \/ call[d].st = "tail" /\ call'[d].pc = call[d].pc
              \/ MovesRecords(d)
              \/ call'[d].pc = "creds"
         /\ BetweenNames(d) /\ ~BetweenNames(d)' =>
              call'[d].st = "idle" /\ (call'[d].told = "ok" => MovesRecords(d))
<1>. USE DEF RenamePlaces, Req, Scripting, BetweenNames
<1>1. CASE Untouched(d)
  BY <1>1 DEF Untouched
<1>2. CASE Arrives(d)
  BY <1>2 DEF Arrives, Clean
<1>3. CASE Lasts(d)
  BY <1>3 DEF Lasts
<1>4. CASE IsOver(d)
  BY <1>4 DEF IsOver
<1>5. CASE IsAnother(d)
  BY <1>5 DEF IsAnother
<1>6. CASE RenamesOn(d)
  BY <1>6 DEF RenamesOn
<1>. QED
  BY <1>1, <1>2, <1>3, <1>4, <1>5, <1>6, CallSteps DEF CallMoves

(***************************************************************************)
(* What a step does to the records and to the machines of a name.          *)
(***************************************************************************)
DueFormed == \A f \in due : DOMAIN f = {"req", "pc", "on"} /\ f.on \subseteq Ids

RecordsFormed ==
  /\ DOMAIN creds = Names /\ DOMAIN pins = Names /\ DOMAIN pool = Names /\ DOMAIN tunnels = Names
  /\ DueFormed

RecordsStay == UNCHANGED filed

(* The machines that commands under way are about to file something of under a
   name. *)
DueFor(n) == {i \in Ids : \E f \in due : f.req.name = n /\ i \in f.on}

(* The service dies, and the pooled connections with it. *)
PoolDies == ServiceDies /\ pool' = NoRecords /\ due' = {} /\ UNCHANGED <<vms, creds, pins, tunnels>>

\* Records are moved, filed, lost with the service, or left alone.
LEMMA RecordSteps ==
  ASSUME [Next]_vars
  PROVE  \/ \E c \in Callers : MovesRecords(c)
         \/ FilesRecord \/ PoolDies \/ RecordsStay
<1>. USE DEF RecordsStay, filed
<1>1. ASSUME NEW c \in Callers, Ask(c) \/ GetsSlot(c) \/ GivesUp(c)
      PROVE  RecordsStay
  BY <1>1 DEF Ask, GetsSlot, GivesUp, OnlyTheCall
<1>2. ASSUME NEW c \in Callers, Works(c)
      PROVE  MovesRecords(c) \/ RecordsStay
  BY <1>2 DEF Works, RunsScript, RunsNetworkScript, EndsRename, OnlyTheCall, Answers
<1>3. CASE Meanwhile
  BY <1>3 DEF Meanwhile, PoolDies, storeVars
<1>4. CASE UNCHANGED vars
  BY <1>4 DEF vars, recordVars
<1>. QED
  BY <1>1, <1>2, <1>3, <1>4 DEF Next

(* What g may file under a name beside what f did: from the old name of a
   renaming, or for the machines of the name, of now or of when a command under
   way was asked for. *)
Moves(f, g, old, new) ==
  \A m \in Names : g[m] \subseteq f[m] \/ (m = new /\ g[m] \subseteq f[m] \cup f[old])
Gains(f, g) == \A m \in Names : g[m] \subseteq f[m] \cup Named(m) \cup DueFor(m)
DueGains == \A m \in Names : DueFor(m)' \subseteq DueFor(m) \cup Named(m)

\* A renaming moves records from its old name to its new one, and nothing else.
LEMMA MovesOnly ==
  ASSUME Shaped, RecordsFormed, NEW c \in Callers, MovesRecords(c),
         NEW old \in Names, NEW new \in Names, Req(c).name = old, Req(c).new = new
  PROVE  /\ RecordsFormed' /\ UNCHANGED <<vms, due>> /\ OthersStay(c)
         /\ Moves(creds, creds', old, new) /\ Moves(pins, pins', old, new)
         /\ Moves(pool, pool', old, new) /\ Moves(tunnels, tunnels', old, new)
<1>. USE DEF RecordsFormed, DueFormed, Moves
<1>0. UNCHANGED <<vms, due>>
  BY DEF MovesRecords, storeVars, RecordsTail, MoveCredentials, MovePin, DropConnection, MoveTunnels
<1>1. ASSUME NEW pc, NEW loc, Goto(c, pc, loc)
      PROVE  OthersStay(c)
  BY <1>1 DEF Goto, OthersStay, Shaped
<1>2. CASE MoveCredentials(c)
  BY <1>0, <1>1, <1>2 DEF MoveCredentials, Moved
<1>3. CASE MovePin(c)
  BY <1>0, <1>1, <1>3 DEF MovePin, Moved
<1>4. CASE DropConnection(c)
  BY <1>0, <1>1, <1>4 DEF DropConnection
<1>5. CASE MoveTunnels(c)
  <2>1. OthersStay(c)
    BY <1>5 DEF MoveTunnels, Tell, OthersStay, Shaped
  <2>. QED
    BY <1>0, <1>5, <2>1 DEF MoveTunnels
<1>. QED
  BY <1>2, <1>3, <1>4, <1>5 DEF MovesRecords, RecordsTail

\* A command files under a name only what is of its machine, or was when it began.
LEMMA FilesOnly ==
  ASSUME RecordsFormed, FilesRecord
  PROVE  /\ RecordsFormed' /\ UNCHANGED <<vms, call>> /\ DueGains
         /\ Gains(creds, creds') /\ Gains(pins, pins') /\ Gains(pool, pool') /\ Gains(tunnels, tunnels')
<1>. DEFINE DueKept == DueFormed' /\ DueGains
            Goal == /\ RecordsFormed' /\ DueGains /\ Gains(creds, creds') /\ Gains(pins, pins')
                    /\ Gains(pool, pool') /\ Gains(tunnels, tunnels')
<1>0. UNCHANGED <<vms, call>>
  BY DEF FilesRecord, storeVars, runnerVars
<1>1. UNCHANGED due => DueKept
  BY <1>0 DEF RecordsFormed, DueFormed, DueGains, DueFor
<1>2. ASSUME NEW r, NEW pc, Begins(r, pc)
      PROVE  DueKept
  <2>. DEFINE f == [req |-> r, pc |-> pc, on |-> Named(r.name)]
  <2>1. DOMAIN f = {"req", "pc", "on"} /\ f.req = r /\ f.on = Named(r.name) /\ f.on \subseteq Ids
    BY DEF Named
  <2>2. due' = due \cup {f}
    BY <1>2 DEF Begins
  <2>. HIDE DEF f
  <2>. QED
    BY <2>1, <2>2 DEF RecordsFormed, DueFormed, DueGains, DueFor
<1>3. ASSUME NEW f \in due, NEW pc, GoesTo(f, pc)
      PROVE  DueKept
  <2>. DEFINE g == [f EXCEPT !.pc = pc]
  <2>1. DOMAIN f = {"req", "pc", "on"} /\ f.on \subseteq Ids
    BY DEF RecordsFormed, DueFormed
  <2>2. DOMAIN g = {"req", "pc", "on"} /\ g.req = f.req /\ g.on = f.on
    BY <2>1
  <2>3. due' = (due \ {f}) \cup {g}
    BY <1>3 DEF GoesTo
  <2>. HIDE DEF g
  <2>. QED
    BY <2>1, <2>2, <2>3 DEF RecordsFormed, DueFormed, DueGains, DueFor
<1>4. ASSUME NEW f, IsDone(f)
      PROVE  DueKept
  BY <1>4 DEF IsDone, RecordsFormed, DueFormed, DueGains, DueFor
<1>. HIDE DEF DueKept
<1>5. ASSUME NEW n, \/ \E b : SetCredentials(n, b)
                    \/ DeleteCredentials(n)
      PROVE  Goal
  BY <1>1, <1>5 DEF SetCredentials, DeleteCredentials, RecordsFormed, Gains, DueKept
<1>6. ASSUME NEW r, FindGuest(r) \/ AskTunnel(r)
      PROVE  Goal
  BY <1>2, <1>6 DEF FindGuest, AskTunnel, RecordsFormed, Gains, DueKept
<1>7. ASSUME NEW f \in due, FilesOn(f)
      PROVE  Goal
  <2>0. f.on \subseteq DueFor(f.req.name)
    BY DEF RecordsFormed, DueFormed, DueFor
  <2>1. CASE GetPooled(f)
    BY <1>3, <1>4, <2>1 DEF GetPooled, RecordsFormed, Gains, DueKept
  <2>2. CASE Handshake(f)
    BY <1>3, <2>0, <2>2 DEF Handshake, RecordsFormed, Gains, DueKept
  <2>3. CASE Insert(f)
    BY <1>4, <2>0, <2>3 DEF Insert, RecordsFormed, Gains, DueKept
  <2>4. CASE Register(f)
    BY <1>4, <2>0, <2>4 DEF Register, RecordsFormed, Gains, DueKept
  <2>5. CASE GivesUpFiling(f)
    BY <1>4, <2>5 DEF GivesUpFiling, RecordsFormed, Gains, DueKept
  <2>. QED
    BY <1>7, <2>1, <2>2, <2>3, <2>4, <2>5 DEF FilesOn
<1>. QED
  BY <1>0, <1>5, <1>6, <1>7 DEF FilesRecord, RecordCommand

\* No step takes one machine from a name and gives the name to another.
LEMMA NoSwap ==
  ASSUME MachinesFormed, [Next]_vars, NEW n, NEW i \in Named(n), i \notin Named(n)'
  PROVE  Named(n)' \subseteq Named(n)
<1>. USE DEF MachinesFormed, MachineFields, Named, Exists
<1>1. CASE Kept
  BY <1>1 DEF Kept
<1>2. ASSUME NEW c \in Callers, NewVM(c)
      PROVE  FALSE
  <2>1. PICK j \in Ids : ~Exists(j) /\ \A k \in Ids \ {j} : vms'[k] = vms[k]
    BY <1>2 DEF NewVM
  <2>. QED
    BY <2>1
<1>3. ASSUME NEW c \in Callers, ImportVM(c)
      PROVE  FALSE
  <2>1. CASE UNCHANGED vms
    BY <2>1
  <2>2. ASSUME NEW j \in Ids, ~Exists(j), \A k \in Ids \ {j} : vms'[k] = vms[k]
        PROVE  FALSE
    BY <2>2
  <2>. QED
    BY <1>3, <2>1, <2>2 DEF ImportVM
<1>4. ASSUME NEW c \in Callers, RenameVM(c)
      PROVE  Named(n)' \subseteq Named(n)
  <2>1. /\ \A k \in Ids : vms'[k].name = IF k \in Loc(c) THEN Req(c).new ELSE vms[k].name
        /\ \A k \in Ids : vms'[k].state = vms[k].state
    BY <1>4 DEF RenameVM
  <2>. QED
    BY <2>1
<1>. QED
  BY <1>1, <1>2, <1>3, <1>4, NamesStep

(***************************************************************************)
(* What holds while machines are renamed.  A renaming under way that has   *)
(* kept a name in order has made its names what they should be (Steady),   *)
(* both answer with the machine renamed (Carried) and so will the old name *)
(* when the commands under way have filed theirs (DueCarried); a record it *)
(* has moved is gone from the old name (Emptied); every other name answers *)
(* with its own machine (Followed), for which its commands were (DueOwned).*)
(***************************************************************************)
SettledFor(old, new) == Named(old) = {} /\ \E i \in Ids : Named(new) = {i}
Between(c, old, new) == BetweenNames(c) /\ Req(c).name = old /\ Req(c).new = new

Steady ==
  \A c \in Callers, old, new \in Names :
    Between(c, old, new) /\ ~({old, new} \subseteq astray) => SettledFor(old, new)

Carried ==
  \A c \in Callers, old, new \in Names : Between(c, old, new) =>
    /\ old \in astray \/ Filed(old) \subseteq Named(new)
    /\ new \in astray \cup late \/ Filed(new) \subseteq Named(new)

DueOwned == \A n \in Names : n \in late \/ DueFor(n) \subseteq Named(n)

DueCarried ==
  \A c \in Callers, old, new \in Names :
    Between(c, old, new) /\ ~({old, new} \subseteq astray) => DueFor(old) \subseteq Named(new)

Emptied ==
  \A c \in Callers, old, new \in Names :
    Between(c, old, new) /\ call[c].st = "tail" /\ old \notin astray \cup late =>
      /\ call[c].pc \in {"pins", "pool", "tunnels"} => creds[old] = {}
      /\ call[c].pc \in {"pool", "tunnels"} => pins[old] = {}
      /\ call[c].pc = "tunnels" => pool[old] = {}

Followed ==
  \A n \in Names :
    \/ n \in astray \cup late \/ Filed(n) \subseteq Named(n)
    \/ \E c \in Callers, old, new \in Names : Between(c, old, new) /\ n \in {old, new}

CallsFormed == Shaped /\ Clean /\ RenamePlaces /\ TodoNamed /\ MachinesFormed
Filing == RecordsFormed /\ Steady /\ Carried /\ DueOwned /\ DueCarried /\ Emptied /\ Followed

\* A name in order has not been made astray before, nor late.
LEMMA AstrayStays ==
  ASSUME Next, NEW n
  PROVE  (n \notin astray' => n \notin astray) /\ (n \notin late' => n \notin late)
BY DEF Next, Recollect

\* A renaming that goes on in order has its names settled, and gave away one name only.
LEMMA NotConfused ==
  ASSUME CallsFormed, Next, NEW c \in Callers, NEW old \in Names, NEW new \in Names,
         Between(c, old, new)', ~({old, new} \subseteq astray')
  PROVE  /\ SettledFor(old, new)'
         /\ ~BetweenNames(c) => Named(new)' \subseteq Named(old) /\ old \notin late
<1>1. call'[c].req = call[c].req /\ BetweenNames(c)'
  BY BetweenSteps DEF CallsFormed, Between
<1>2. Req(c).name = old /\ Req(c).new = new /\ Req(c).name' = old /\ Req(c).new' = new
  BY <1>1 DEF Between, Req
<1>3. RenameOf(c)' = {old, new}
  BY <1>2 DEF RenameOf
<1>4. ~Confused(c)
  BY <1>1, <1>3 DEF Next, Recollect, Mislaid
<1>. QED
  BY <1>2, <1>4 DEF Confused, Settled, SettledFor

\* A renaming that keeps a name in order fails at nothing and moves every record.
LEMMA AllMoved ==
  ASSUME Next, NEW c \in Callers, NEW old \in Names, NEW new \in Names,
         Between(c, old, new), ~({old, new} \subseteq astray')
  PROVE  /\ old \notin astray
         /\ call'[c].st = "idle" => call'[c].told = "ok"
         /\ call[c].pc = "creds" /\ call'[c].pc = "pins" => creds'[old] = {}
         /\ call[c].pc = "pins" /\ call'[c].pc = "pool" => pins'[old] = {}
<1>1. RenameOf(c) = {old, new} /\ BetweenNames(c) /\ Req(c).name = old
  BY DEF Between, RenameOf
<1>2. ~NotMoved(c)
  BY <1>1 DEF Next, Recollect, Mislaid
<1>. QED
  BY <1>1, <1>2 DEF NotMoved

\* A machine leaves a name in order only by a renaming under way.
LEMMA LeftByRenaming ==
  ASSUME CallsFormed, TodoNamed', RenamePlaces', Next,
         NEW n \in Names, n \notin astray', NEW i \in Named(n), i \notin Named(n)'
  PROVE  \E c \in Callers, new \in Names : Between(c, n, new)'
<1>1. i \in Ids /\ Exists(i) /\ vms[i].name = n /\ ~(Exists(i)' /\ vms'[i].name = n)
  BY DEF Named
<1>2. vms[i].name \notin Left
  BY <1>1 DEF Next, Recollect, Mislaid
<1>3. PICK c \in Callers : BetweenNames(c)' /\ Req(c).name' = n
  BY <1>1, <1>2 DEF Left
<1>4. Req(c).new' \in Names
  BY <1>3 DEF RenamePlaces, BetweenNames
<1>. QED
  BY <1>3, <1>4 DEF Between

\* A renaming under way goes on, ends well or leaves its names astray.
LEMMA GoesOnBetween ==
  ASSUME CallsFormed, Next, NEW c \in Callers, NEW old \in Names, NEW new \in Names,
         Between(c, old, new), ~({old, new} \subseteq astray'), ~MovesRecords(c)
  PROVE  Between(c, old, new)'
<1>1. BetweenNames(c)'
  BY AllMoved, BetweenSteps DEF CallsFormed, Between
<1>2. call'[c].req = call[c].req
  BY <1>1, BetweenSteps DEF CallsFormed
<1>. QED
  BY <1>1, <1>2 DEF Between, Req

(***************************************************************************)
(* The three ways records change, each named by what it does to them all.  *)
(***************************************************************************)
MovesAll(old, new) ==
  \A m \in Names :
    \/ Filed(m)' \subseteq Filed(m)
    \/ m = new /\ Filed(m)' \subseteq Filed(m) \cup Filed(old)

Shrinks(f, g) == \A m \in Names : g[m] \subseteq f[m]
AllShrink ==
  /\ RecordsFormed'
  /\ Shrinks(creds, creds') /\ Shrinks(pins, pins') /\ Shrinks(pool, pool') /\ Shrinks(tunnels, tunnels')
  /\ due' \subseteq due

\* A tail that moves records is a renaming under way.
LEMMA MoverIsBetween ==
  ASSUME RenamePlaces, NEW d \in Callers, MovesRecords(d)
  PROVE  \E old, new \in Names : Between(d, old, new)
<1>1. call[d].st = "tail" /\ call[d].pc # "pick"
  BY DEF MovesRecords, RecordsTail, MoveCredentials, MovePin, DropConnection, MoveTunnels
<1>2. BetweenNames(d) /\ Req(d).name \in Names /\ Req(d).new \in Names
  BY <1>1 DEF RenamePlaces, BetweenNames
<1>. QED
  BY <1>2 DEF Between

\* Moving records, filed by filed, is moving all that is filed.
LEMMA MovedTogether ==
  ASSUME NEW old, NEW new, Moves(creds, creds', old, new), Moves(pins, pins', old, new),
         Moves(pool, pool', old, new), Moves(tunnels, tunnels', old, new)
  PROVE  MovesAll(old, new)
BY DEF Moves, MovesAll, Filed

\* A step that neither moves nor files records takes none anywhere.
LEMMA ElseShrink ==
  ASSUME RecordsFormed, [Next]_vars
  PROVE  \/ \E c \in Callers : MovesRecords(c)
         \/ FilesRecord \/ AllShrink
<1>1. PoolDies => AllShrink
  BY DEF PoolDies, AllShrink, Shrinks, RecordsFormed, DueFormed, NoRecords
<1>2. RecordsStay => AllShrink
  BY DEF RecordsStay, filed, AllShrink, Shrinks, RecordsFormed, DueFormed
<1>. QED
  BY <1>1, <1>2, RecordSteps

\* Only commands change what they are about to file.
LEMMA DueStays ==
  ASSUME CallsFormed, Filing, Next, ~FilesRecord
  PROVE  \A n : DueFor(n)' \subseteq DueFor(n)
<1>1. ASSUME NEW c \in Callers, MovesRecords(c)
      PROVE  due' \subseteq due
  BY <1>1, MoverIsBetween, MovesOnly DEF Between, CallsFormed, Filing
<1>2. due' \subseteq due
  BY <1>1, ElseShrink DEF Filing, AllShrink
<1>. QED
  BY <1>2 DEF DueFor

\* The machines of a settled name are the same one as long as it stays settled.
LEMMA SettledStays ==
  ASSUME MachinesFormed, [Next]_vars, NEW old, NEW new,
         SettledFor(old, new), SettledFor(old, new)'
  PROVE  Named(new) = Named(new)'
<1>1. PICK i \in Ids : Named(new) = {i}
  BY DEF SettledFor
<1>2. PICK j \in Ids : Named(new)' = {j}
  BY DEF SettledFor
<1>3. CASE i \notin Named(new)'
  <2>1. Named(new)' \subseteq Named(new)
    BY <1>1, <1>3, NoSwap
  <2>. QED
    BY <1>1, <1>2, <1>3, <2>1
<1>. QED
  BY <1>1, <1>2, <1>3

\* RenameVM gives its machine the new name and leaves the others theirs.
LEMMA RenameNames ==
  ASSUME MachinesFormed, NEW c \in Callers, RenameVM(c), NEW old, NEW new,
         Req(c).name = old, Req(c).new = new, Named(old)' = {}
  PROVE  /\ Named(old) \subseteq Named(new)' /\ Named(new) \subseteq Named(new)'
         /\ old = new => Named(new) = {}
<1>1. /\ \A k \in Ids : vms'[k].name = IF k \in Loc(c) THEN new ELSE vms[k].name
      /\ \A k \in Ids : vms'[k].state = vms[k].state
  BY DEF RenameVM, MachinesFormed, MachineFields
<1>. QED
  BY <1>1 DEF Named, Exists

\* A renaming under way keeps its names settled, or leaves them both astray.
LEMMA SteadyNext ==
  ASSUME CallsFormed, Next
  PROVE  Steady'
<1>. SUFFICES ASSUME NEW c \in Callers, NEW old \in Names, NEW new \in Names,
                     Between(c, old, new)', ~({old, new} \subseteq astray')
              PROVE  SettledFor(old, new)'
  BY DEF Steady
<1>. QED
  BY NotConfused

\* Moving records between the names of one renaming leaves those of the others alone.
LEMMA CarriedMoves ==
  ASSUME CallsFormed, Filing, Next, NEW d \in Callers, MovesRecords(d)
  PROVE  Carried'
<1>0. PICK from \in Names, to \in Names : Between(d, from, to)
  BY MoverIsBetween DEF CallsFormed
<1>1. UNCHANGED <<vms, due>> /\ OthersStay(d) /\ MovesAll(from, to)
  BY <1>0, MovesOnly, MovedTogether DEF Between, CallsFormed, Filing
<1>. SUFFICES ASSUME NEW c \in Callers, NEW old \in Names, NEW new \in Names, Between(c, old, new)',
                     NEW n \in {old, new}, n \notin astray', n = old \/ n \notin late'
              PROVE  Filed(n)' \subseteq Named(new)'
  BY DEF Carried
<1>2. n \in Names /\ n \notin astray /\ (n = old \/ n \notin late)
      /\ Named(new)' = Named(new) /\ Named(old)' = Named(old)
  BY <1>1, AstrayStays DEF Named, Exists
<1>3. Between(c, old, new)
  <2>1. ~RenameVM(c) \/ c # d
    BY DEF RenameVM, At, Scripting, MovesRecords, RecordsTail, MoveCredentials, MovePin,
       DropConnection, MoveTunnels
  <2>2. CASE c # d
    BY <1>1, <2>2 DEF OthersStay, Between, BetweenNames, Req
  <2>3. CASE ~RenameVM(c)
    BY <2>3, BetweenSteps DEF CallsFormed, Between, BetweenNames, Req
  <2>. QED
    BY <2>1, <2>2, <2>3
<1>4. SettledFor(old, new) /\ Filed(n) \subseteq Named(new)
  BY <1>2, <1>3 DEF Filing, Steady, Carried
<1>5. CASE Filed(n)' \subseteq Filed(n)
  BY <1>2, <1>4, <1>5
<1>6. CASE n = to /\ Filed(n)' \subseteq Filed(n) \cup Filed(from)
  <2>1. from \notin astray
    BY <1>0, <1>6, AllMoved
  <2>2. SettledFor(from, to) /\ Filed(from) \subseteq Named(to)
    BY <1>0, <2>1 DEF Filing, Steady, Carried
  <2>3. n = new
    BY <1>4, <1>6, <2>2 DEF SettledFor
  <2>. QED
    BY <1>2, <1>4, <1>6, <2>2, <2>3
<1>. QED
  BY <1>1, <1>2, <1>5, <1>6 DEF MovesAll

\* What is filed is of the machine of the name.
LEMMA CarriedFiles ==
  ASSUME CallsFormed, Filing, Next, FilesRecord
  PROVE  Carried'
<1>1. UNCHANGED <<vms, call>> /\ \A m \in Names : Filed(m)' \subseteq Filed(m) \cup Named(m) \cup DueFor(m)
  BY FilesOnly DEF Filing, Gains, Filed
<1>. SUFFICES ASSUME NEW c \in Callers, NEW old \in Names, NEW new \in Names, Between(c, old, new)',
                     NEW n \in {old, new}, n \notin astray', n = old \/ n \notin late'
              PROVE  Filed(n)' \subseteq Named(new)'
  BY DEF Carried
<1>2. n \in Names /\ n \notin astray /\ (n = old \/ n \notin late)
      /\ Named(new)' = Named(new) /\ Between(c, old, new)
  BY <1>1, AstrayStays DEF Named, Exists, Between, BetweenNames, Req
<1>3. SettledFor(old, new) /\ Filed(n) \subseteq Named(new)
  BY <1>2 DEF Filing, Steady, Carried
<1>4. DueFor(n) \subseteq Named(new)
  BY <1>2 DEF Filing, DueOwned, DueCarried
<1>. QED
  BY <1>1, <1>2, <1>3, <1>4 DEF SettledFor

\* While records stay where they are, machines do too, but for the one renamed.
LEMMA CarriedElse ==
  ASSUME CallsFormed, Filing, Next, AllShrink, \A d \in Callers : ~MovesRecords(d)
  PROVE  Carried'
<1>1. \A m \in Names : Filed(m)' \subseteq Filed(m)
  BY DEF AllShrink, Shrinks, Filed
<1>. SUFFICES ASSUME NEW c \in Callers, NEW old \in Names, NEW new \in Names, Between(c, old, new)',
                     NEW n \in {old, new}, n \notin astray', n = old \/ n \notin late'
              PROVE  Filed(n) \subseteq Named(new)'
  BY <1>1 DEF Carried
<1>2. n \in Names /\ n \notin astray /\ (n = old \/ n \notin late)
  BY AstrayStays
<1>3. SettledFor(old, new)' /\ (~BetweenNames(c) => Named(new)' \subseteq Named(old) /\ old \notin late)
  BY NotConfused
<1>4. CASE BetweenNames(c)
  <2>1. Between(c, old, new)
    BY <1>4, BetweenSteps DEF CallsFormed, Between, BetweenNames, Req
  <2>2. SettledFor(old, new) /\ Filed(n) \subseteq Named(new)
    BY <1>2, <2>1 DEF Filing, Steady, Carried
  <2>. QED
    BY <1>3, <2>2, SettledStays DEF CallsFormed
<1>5. CASE ~BetweenNames(c)
  <2>1. RenameVM(c) /\ Req(c).name = old /\ Req(c).new = new
    BY <1>5, BetweenSteps DEF CallsFormed, Between, BetweenNames, Req
  <2>2. PICK j \in Ids : Named(new)' = {j} /\ j \in Named(old)
    BY <1>3, <1>5 DEF SettledFor
  <2>3. /\ Named(old) \subseteq Named(new)' /\ Named(new) \subseteq Named(new)'
        /\ old = new => Named(new) = {}
    BY <1>3, <2>1, RenameNames DEF CallsFormed, SettledFor
  <2>4. CASE Filed(n) \subseteq Named(n)
    BY <2>3, <2>4
  <2>5. ASSUME NEW d \in Callers, NEW from \in Names, NEW to \in Names,
               Between(d, from, to), n \in {from, to}
        PROVE  FALSE
    <3>1. SettledFor(from, to)
      BY <1>2, <2>5 DEF Filing, Steady
    <3>2. SettledFor(from, to)'
      BY <1>2, <2>5, GoesOnBetween, NotConfused
    <3>3. n # from
      <4>1. n = from => Named(n) = {} /\ Named(n)' = {}
        BY <3>1, <3>2 DEF SettledFor
      <4>. QED
        BY <2>2, <4>1
    <3>4. n = to /\ Named(n) # {} /\ Named(n)' # {}
      BY <2>5, <3>1, <3>2, <3>3 DEF SettledFor
    <3>5. n = new /\ n # old
      BY <1>3, <3>4 DEF SettledFor
    <3>6. j \in Named(old) /\ j \in Named(new)
      BY <2>2, <2>3, <3>4, <3>5
    <3>. QED
      BY <3>5, <3>6 DEF Named
  <2>. QED
    BY <1>2, <1>3, <1>5, <2>4, <2>5 DEF Filing, Followed
<1>. QED
  BY <1>4, <1>5

\* What commands under way were asked for stays where they file it, or the name is late.
LEMMA DueOwnedNext ==
  ASSUME CallsFormed, Filing, Next
  PROVE  DueOwned'
<1>. SUFFICES ASSUME NEW n \in Names, n \notin late'
              PROVE  DueFor(n)' \subseteq Named(n)'
  BY DEF DueOwned
<1>1. DueFor(n) \subseteq Named(n)'
  <2>1. \A f \in due : f.req.name = n => f.on \subseteq Named(n)'
    BY DEF Next, Recollect, Outrun
  <2>. QED
    BY <2>1 DEF DueFor
<1>2. CASE FilesRecord
  <2>1. Named(n)' = Named(n) /\ DueFor(n)' \subseteq DueFor(n) \cup Named(n)
    BY <1>2, FilesOnly DEF Filing, DueGains, Named, Exists
  <2>. QED
    BY <1>1, <2>1
<1>3. CASE ~FilesRecord
  BY <1>1, <1>3, DueStays
<1>. QED
  BY <1>2, <1>3

\* And of a machine that is renamed, it is filed under the name it had or has.
LEMMA DueCarriedNext ==
  ASSUME CallsFormed, Filing, Next
  PROVE  DueCarried'
<1>. SUFFICES ASSUME NEW c \in Callers, NEW old \in Names, NEW new \in Names, Between(c, old, new)',
                     ~({old, new} \subseteq astray')
              PROVE  DueFor(old)' \subseteq Named(new)'
  BY DEF DueCarried
<1>1. SettledFor(old, new)' /\ (~BetweenNames(c) => Named(new)' \subseteq Named(old) /\ old \notin late)
  BY NotConfused
<1>2. CASE BetweenNames(c)
  <2>1. Between(c, old, new)
    BY <1>2, BetweenSteps DEF CallsFormed, Between, BetweenNames, Req
  <2>2. ~({old, new} \subseteq astray)
    BY AstrayStays
  <2>3. SettledFor(old, new) /\ DueFor(old) \subseteq Named(new)
    BY <2>1, <2>2 DEF Filing, Steady, DueCarried
  <2>4. Named(new)' = Named(new)
    BY <1>1, <2>3, SettledStays DEF CallsFormed
  <2>5. DueFor(old)' \subseteq DueFor(old) \cup Named(old)
    BY FilesOnly, DueStays DEF Filing, DueGains
  <2>. QED
    BY <2>3, <2>4, <2>5 DEF SettledFor
<1>3. CASE ~BetweenNames(c)
  <2>1. RenameVM(c) /\ Req(c).name = old /\ Req(c).new = new
    BY <1>3, BetweenSteps DEF CallsFormed, Between, BetweenNames, Req
  <2>2. Named(old) \subseteq Named(new)'
    BY <1>1, <2>1, RenameNames DEF CallsFormed, SettledFor
  <2>3. DueFor(old) \subseteq Named(old)
    BY <1>1, <1>3 DEF Filing, DueOwned
  <2>4. ~FilesRecord
    <3>1. call[c].pc = "rename" /\ Effect(c, "end", Loc(c))
      BY <2>1 DEF RenameVM, At
    <3>2. call'[c].pc # call[c].pc
      BY <3>1, EffectShows DEF CallsFormed
    <3>. QED
      BY <3>2, FilesOnly DEF Filing
  <2>. QED
    BY <2>2, <2>3, <2>4, DueStays DEF Filing
<1>. QED
  BY <1>2, <1>3

\* A record that has been moved stays gone from the old name.
LEMMA EmptiedMoves ==
  ASSUME CallsFormed, Filing, Next, NEW d \in Callers, MovesRecords(d)
  PROVE  Emptied'
<1>0. PICK from \in Names, to \in Names : Between(d, from, to)
  BY MoverIsBetween DEF CallsFormed
<1>1. /\ UNCHANGED vms /\ OthersStay(d) /\ RecordsFormed'
      /\ Moves(creds, creds', from, to) /\ Moves(pins, pins', from, to) /\ Moves(pool, pool', from, to)
  BY <1>0, MovesOnly DEF Between, CallsFormed, Filing
<1>. SUFFICES ASSUME NEW c \in Callers, NEW old \in Names, NEW new \in Names, Between(c, old, new)',
                     call'[c].st = "tail", old \notin astray' \cup late'
              PROVE  /\ call'[c].pc \in {"pins", "pool", "tunnels"} => creds'[old] = {}
                     /\ call'[c].pc \in {"pool", "tunnels"} => pins'[old] = {}
                     /\ call'[c].pc = "tunnels" => pool'[old] = {}
  BY DEF Emptied
<1>2. old \notin astray \cup late
  BY AstrayStays
<1>3. CASE c # d
  <2>1. call'[c] = call[c] /\ Between(c, old, new)
    BY <1>1, <1>3 DEF OthersStay, Between, BetweenNames, Req
  <2>2. old # to
    <3>1. SettledFor(old, new)
      BY <1>2, <2>1 DEF Filing, Steady
    <3>2. old = to => SettledFor(from, to)
      BY <1>0, <1>2 DEF Filing, Steady
    <3>. QED
      BY <3>1, <3>2 DEF SettledFor
  <2>3. creds'[old] \subseteq creds[old] /\ pins'[old] \subseteq pins[old] /\ pool'[old] \subseteq pool[old]
    BY <1>1, <2>2 DEF Moves
  <2>4. /\ call[c].pc \in {"pins", "pool", "tunnels"} => creds[old] = {}
        /\ call[c].pc \in {"pool", "tunnels"} => pins[old] = {}
        /\ call[c].pc = "tunnels" => pool[old] = {}
    BY <1>2, <2>1 DEF Filing, Emptied
  <2>. QED
    BY <2>1, <2>3, <2>4
<1>4. CASE c = d
  <2>1. call[c].st = "tail" /\ call'[c].req = call[c].req
    BY <1>4, BetweenSteps DEF CallsFormed, Between, MovesRecords, RecordsTail, MoveCredentials,
       MovePin, DropConnection, MoveTunnels
  <2>2. Between(c, old, new)
    BY <1>0, <1>4, <2>1 DEF Between, Req
  <2>3. /\ call[c].pc \in {"pins", "pool", "tunnels"} => creds[old] = {}
        /\ call[c].pc \in {"pool", "tunnels"} => pins[old] = {}
        /\ call[c].pc = "tunnels" => pool[old] = {}
    BY <1>2, <2>1, <2>2 DEF Filing, Emptied
  <2>4. /\ call[c].pc = "creds" /\ call'[c].pc = "pins" => creds'[old] = {}
        /\ call[c].pc = "pins" /\ call'[c].pc = "pool" => pins'[old] = {}
    BY <2>2, AllMoved
  <2>5. CASE MoveCredentials(c)
    BY <2>4, <2>5, GotoShows DEF MoveCredentials, CallsFormed
  <2>6. CASE MovePin(c)
    BY <2>3, <2>4, <2>6, GotoShows DEF MovePin, CallsFormed
  <2>7. CASE DropConnection(c)
    BY <2>2, <2>3, <2>7, GotoShows DEF DropConnection, CallsFormed, Between, Filing, RecordsFormed
  <2>8. CASE MoveTunnels(c)
    BY <2>8, TellShows DEF MoveTunnels, CallsFormed
  <2>. QED
    BY <1>4, <2>5, <2>6, <2>7, <2>8 DEF MovesRecords, RecordsTail
<1>. QED
  BY <1>3, <1>4

LEMMA EmptiedElse ==
  ASSUME CallsFormed, Filing, Next, FilesRecord \/ AllShrink, \A d \in Callers : ~MovesRecords(d)
  PROVE  Emptied'
<1>. SUFFICES ASSUME NEW c \in Callers, NEW old \in Names, NEW new \in Names, Between(c, old, new)',
                     call'[c].st = "tail", old \notin astray' \cup late', call'[c].pc # "creds"
              PROVE  /\ call'[c].pc \in {"pins", "pool", "tunnels"} => creds'[old] = {}
                     /\ call'[c].pc \in {"pool", "tunnels"} => pins'[old] = {}
                     /\ call'[c].pc = "tunnels" => pool'[old] = {}
  BY DEF Emptied
<1>1. old \notin astray \cup late
  BY AstrayStays
<1>2. call[c].st = "tail" /\ call'[c].pc = call[c].pc /\ call'[c].req = call[c].req
  BY BetweenSteps DEF CallsFormed, Between
<1>3. Between(c, old, new)
  BY <1>2, BetweenSteps DEF CallsFormed, Between, BetweenNames, Req, RenameVM, At, Scripting
<1>4. SettledFor(old, new)
  BY <1>1, <1>3 DEF Filing, Steady
<1>5. creds'[old] \subseteq creds[old] /\ pins'[old] \subseteq pins[old] /\ pool'[old] \subseteq pool[old]
  <2>1. CASE FilesRecord
    BY <1>1, <1>4, <2>1, FilesOnly DEF Filing, Gains, SettledFor, DueOwned
  <2>2. CASE AllShrink
    BY <2>2 DEF AllShrink, Shrinks
  <2>. QED
    BY <2>1, <2>2
<1>6. /\ call[c].pc \in {"pins", "pool", "tunnels"} => creds[old] = {}
      /\ call[c].pc \in {"pool", "tunnels"} => pins[old] = {}
      /\ call[c].pc = "tunnels" => pool[old] = {}
  BY <1>1, <1>2, <1>3 DEF Filing, Emptied
<1>. QED
  BY <1>2, <1>5, <1>6

\* When its last record is moved, a renaming leaves both names in order.
LEMMA FollowedMoves ==
  ASSUME CallsFormed, RenamePlaces', Filing, Next, NEW d \in Callers, MovesRecords(d)
  PROVE  Followed'
<1>0. PICK from \in Names, to \in Names : Between(d, from, to)
  BY MoverIsBetween DEF CallsFormed
<1>1. UNCHANGED <<vms, due>> /\ OthersStay(d) /\ MovesAll(from, to)
  BY <1>0, MovesOnly, MovedTogether DEF Between, CallsFormed, Filing
<1>. SUFFICES ASSUME NEW n \in Names, n \notin astray' \cup late',
                     ~\E c \in Callers, old, new \in Names : Between(c, old, new)' /\ n \in {old, new}
              PROVE  Filed(n)' \subseteq Named(n)'
  BY DEF Followed
<1>2. n \notin astray \cup late /\ Named(n)' = Named(n)
  BY <1>1, AstrayStays DEF Named, Exists
<1>3. ASSUME NEW c \in Callers, NEW old \in Names, NEW new \in Names, Between(c, old, new), n \in {old, new}
      PROVE  c = d /\ old = from /\ new = to
  <2>1. CASE c # d
    BY <1>1, <1>3, <2>1 DEF OthersStay, Between, BetweenNames, Req
  <2>2. CASE c = d
    BY <1>0, <1>3, <2>2 DEF Between
  <2>. QED
    BY <2>1, <2>2
<1>4. CASE n \notin {from, to}
  <2>1. Filed(n) \subseteq Named(n)
    BY <1>2, <1>3, <1>4 DEF Filing, Followed
  <2>. QED
    BY <1>1, <1>2, <1>4, <2>1 DEF MovesAll
<1>5. CASE n \in {from, to}
  <2>1. from \notin astray /\ ~Between(d, from, to)'
    BY <1>0, <1>5, AllMoved
  <2>2. MoveTunnels(d)
    <3>1. ASSUME NEW pc, NEW loc, Goto(d, pc, loc)
          PROVE  FALSE
      BY <1>0, <2>1, <3>1, GotoShows DEF CallsFormed, Between, BetweenNames, Req
    <3>. QED
      BY <3>1 DEF MovesRecords, RecordsTail, MoveCredentials, MovePin, DropConnection
  <2>3. SettledFor(from, to) /\ Filed(from) \subseteq Named(to)
    BY <1>0, <2>1 DEF Filing, Steady, Carried
  <2>4. CASE n = to
    <3>1. Filed(to) \subseteq Named(to)
      BY <1>0, <1>2, <2>4 DEF Filing, Carried
    <3>. QED
      BY <1>1, <1>2, <2>3, <2>4, <3>1 DEF MovesAll
  <2>5. CASE n = from /\ n # to
    <3>1. creds[from] = {} /\ pins[from] = {} /\ pool[from] = {}
      BY <1>0, <1>2, <2>2, <2>5 DEF Filing, Emptied, MoveTunnels
    <3>2. UNCHANGED <<creds, pins, pool>> /\ tunnels'[from] = {}
      BY <1>0, <2>2, <2>5 DEF MoveTunnels, Between, Filing, RecordsFormed
    <3>. QED
      BY <2>5, <3>1, <3>2 DEF Filed
  <2>. QED
    BY <1>5, <2>4, <2>5
<1>. QED
  BY <1>4, <1>5

\* A name that loses its machine is one of a renaming, or astray.
LEMMA FollowedElse ==
  ASSUME CallsFormed, TodoNamed', RenamePlaces', Filing, Next, FilesRecord \/ AllShrink,
         \A d \in Callers : ~MovesRecords(d)
  PROVE  Followed'
<1>. SUFFICES ASSUME NEW n \in Names, n \notin astray' \cup late',
                     ~\E c \in Callers, old, new \in Names : Between(c, old, new)' /\ n \in {old, new}
              PROVE  Filed(n)' \subseteq Named(n)'
  BY DEF Followed
<1>1. n \notin astray \cup late
  BY AstrayStays
<1>2. Filed(n) \subseteq Named(n)
  BY <1>1, GoesOnBetween DEF Filing, Followed
<1>3. Named(n) \subseteq Named(n)'
  BY LeftByRenaming
<1>4. Filed(n)' \subseteq Filed(n) \cup Named(n)
  <2>1. CASE FilesRecord
    BY <1>1, <2>1, FilesOnly DEF Filing, Gains, Filed, DueOwned
  <2>2. CASE AllShrink
    BY <2>2 DEF AllShrink, Shrinks, Filed
  <2>. QED
    BY <2>1, <2>2
<1>. QED
  BY <1>2, <1>3, <1>4

\* Every step keeps the calls in order.
LEMMA CallsFormedNext ==
  ASSUME NamesInv, CallsFormed, [Next]_vars
  PROVE  CallsFormed'
BY NamesNext, CleanNext, PlacesNext, TodoNext DEF CallsFormed, NamesInv

\* Every step keeps the records in order.
LEMMA FilingNext ==
  ASSUME CallsFormed, CallsFormed', Filing, [Next]_vars
  PROVE  Filing'
<1>1. CASE UNCHANGED vars
  <2>1. UNCHANGED <<call, vms, creds, pins, pool, tunnels, due, astray, late>>
    BY <1>1 DEF vars, storeVars, recordVars, filed, runnerVars
  <2>2. /\ \A n : Named(n)' = Named(n) /\ Filed(n)' = Filed(n) /\ DueFor(n)' = DueFor(n)
        /\ \A c, old, new : Between(c, old, new)' <=> Between(c, old, new)
        /\ \A old, new : SettledFor(old, new)' <=> SettledFor(old, new)
    BY <2>1 DEF Named, Exists, Filed, DueFor, Between, BetweenNames, Req, SettledFor
  <2>3. RecordsFormed' /\ Emptied'
    BY <2>1, <2>2 DEF Filing, RecordsFormed, DueFormed, Emptied
  <2>4. Steady' /\ Carried' /\ Followed' /\ DueOwned' /\ DueCarried'
    BY <2>1, <2>2 DEF Filing, Steady, Carried, Followed, DueOwned, DueCarried
  <2>. QED
    BY <2>3, <2>4 DEF Filing
<1>2. CASE Next
  <2>1. RecordsFormed'
    <3>1. ASSUME NEW d \in Callers, MovesRecords(d)
          PROVE  RecordsFormed'
      BY <3>1, MoverIsBetween, MovesOnly DEF Between, CallsFormed, Filing
    <3>. QED
      BY <3>1, ElseShrink, FilesOnly DEF Filing, AllShrink
  <2>2. Steady'
    BY <1>2, SteadyNext
  <2>3. Carried'
    BY <1>2, CarriedMoves, CarriedFiles, CarriedElse, ElseShrink DEF Filing
  <2>4. Emptied'
    BY <1>2, EmptiedMoves, EmptiedElse, ElseShrink DEF Filing
  <2>5. Followed'
    BY <1>2, FollowedMoves, FollowedElse, ElseShrink DEF Filing, CallsFormed
  <2>6. DueOwned' /\ DueCarried'
    BY <1>2, DueOwnedNext, DueCarriedNext
  <2>. QED
    BY <2>1, <2>2, <2>3, <2>4, <2>5, <2>6 DEF Filing
<1>. QED
  BY <1>1, <1>2

\* At first nobody renames, and what is on record is of its machine.
LEMMA InitFiling == Init => CallsFormed /\ Filing
<1>. SUFFICES ASSUME Init PROVE CallsFormed /\ Filing
  OBVIOUS
<1>1. PICK s \in Scenes : /\ vms = s.vms /\ creds = s.filed /\ pins = s.filed
                          /\ pool = NoRecords /\ tunnels = NoRecords /\ todo = s.calls /\ due = {}
  BY DEF Init
<1>2. \A c \in Callers : /\ call[c].st = "idle" /\ call[c].touched = FALSE /\ Req(c).op = "none"
                         /\ ~Scripting(c)
  BY DEF Init, RunnerInit, Idle, Req, Scripting
<1>3. CallsFormed
  <2>1. Clean /\ RenamePlaces
    BY <1>2 DEF Clean, Stages, RenamePlaces
  <2>2. TodoNamed
    BY <1>1, RequestsAssumption DEF TodoNamed, WellFormed
  <2>. QED
    BY <2>1, <2>2, InitNames DEF CallsFormed, NamesInv
<1>4. RecordsFormed
  BY <1>1, RecordsAssumption DEF RecordsFormed, DueFormed, NoRecords
<1>5. Steady /\ Carried /\ DueOwned /\ DueCarried /\ Emptied
  BY <1>1, <1>2 DEF Steady, Carried, DueOwned, DueCarried, DueFor, Emptied, Between, BetweenNames
<1>6. Followed
  <2>1. \A n \in Names : Filed(n) = s.filed[n]
    BY <1>1 DEF Filed, NoRecords
  <2>. QED
    BY <1>1, <2>1, RecordsAssumption DEF Followed, Named, Exists
<1>. QED
  BY <1>3, <1>4, <1>5, <1>6 DEF Filing

(* A name that stayed with its machine, and that no machine left while an
   ssh_exec or an open_tunnel for it was under way, never answers with another
   machine's credentials, pin, connection or tunnel, and while a renaming is
   under way both of its names answer with those of the machine renamed: any
   clients, machines, names and calls, any kills and crashes
   (provisiontools.go:165). *)
THEOREM RecordsAlwaysFollow == Spec => []RecordsFollowTheirMachine
<1>1. Init => NamesInv /\ CallsFormed /\ Filing
  BY InitNames, InitFiling
<1>2. NamesInv /\ CallsFormed /\ Filing /\ [Next]_vars => (NamesInv /\ CallsFormed /\ Filing)'
  BY NamesNext, CallsFormedNext, FilingNext
<1>3. CallsFormed /\ Filing => RecordsFollowTheirMachine
  <2>. SUFFICES ASSUME Filing, NEW n \in Names, n \notin astray \cup late, ~(Filed(n) \subseteq Named(n))
                PROVE  \E c \in Callers : /\ BetweenNames(c) /\ n \in RenameOf(c)
                                          /\ Filed(n) \subseteq Named(Req(c).new)
    BY DEF RecordsFollowTheirMachine
  <2>1. PICK c \in Callers, old \in Names, new \in Names : Between(c, old, new) /\ n \in {old, new}
    BY DEF Filing, Followed
  <2>2. Filed(n) \subseteq Named(new)
    BY <2>1 DEF Filing, Carried
  <2>. QED
    BY <2>1, <2>2 DEF Between, RenameOf
<1>. QED
  BY <1>1, <1>2, <1>3, PTL DEF Spec
=============================================================================
