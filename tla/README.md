# A TLA+ verification of hypervm-mcp

hypervm-mcp lets an MCP client work with Hyper-V virtual machines. An unprivileged
bridge process (`hypervm-mcp bridge`) copies bytes between a client's stdio and a named
pipe; at the other end a Windows service running as LocalSystem serves the MCP session,
runs PowerShell scripts against Hyper-V, and keeps what outlives a session: tunnels into
guests with their firewall rules, pooled SSH connections, pinned host keys and stored
credentials.

Everything the service keeps is shared by all sessions. Each session, each tool call,
each tunnelled connection, each pooled SSH connection and the restore loop at start is a
goroutine of its own; only short regions are protected by locks, and the slow parts
(scripts, dials, files) run between them. That is where this project looks: what those
goroutines can do to each other, what a crash or a failing collaborator leaves behind,
and what the code promises nevertheless.

## Inventory

| Component | State | Operations | What is hard | What makes it correct |
|---|---|---|---|---|
| Tunnel table (`internal/tunnel/manager.go`) | `items`, `nextID`, listeners and `fwRule` of each tunnel; `tunnels.json` | `Open`, `Close`, `CloseAll`, `RenameVM`, `Restore`, `persist` | every operation is several lock regions with scripts and file writes between; restart | one owner per tunnel, no port left bound, ids unique, file and table agree |
| Firewall rules (`internal/netfw`) | the host's rules | `Allow`, `Remove` | scripts that fail or are killed half-way; outlives the process | every rule has a tunnel that will remove it |
| Tunnel data path (`manager.go`: `serve`, `handle`, `dialBackend`) | `conns`, `active`, `cachedIP` of each tunnel | accept, dial the guest, copy both ways | races with `shutdown`; address cache | closing cuts every connection; counters return to zero |
| SSH pool (`internal/sshx/pool.go`) | `clients` by VM name, a `stop` channel and a keepalive goroutine per connection | `Get`, `dial`, `Drop`, `Close`, `keepalive` | concurrent dials, drops by name, waiting for the guest under the lock | no leak, no double close, every pooled connection watched |
| Host-key pins (`internal/sshx/hostkeys.go`) | `known_hosts.json` | `Check`, `Forget`, `Rename` | checked during concurrent handshakes; follows the VM's name | a changed host is not trusted silently |
| Credentials (`internal/creds`) | encrypted file of entries by VM name | `Get`, `Set`, `Delete`, `Rename`, `List` | read-modify-write of a file; connections made with an old one | entries merge, none is lost, old connections go |
| Guest dialer (`internal/guest/dialer.go`) | none | `Credential`, `Connect` | reads the credential long before it is used | the call's credential wins |
| Static address (`internal/guest/staticip.go`) | checkpoint, guest's address | probe, checkpoint, apply, wait | the change cuts the connection that makes it | verified only by the new address |
| Service host (`internal/svcmgr/run.go`) | sessions | accept, control requests, stop | accepts before `Restore` ends; sessions live through the stop | stop leaves nothing bound |
| VM records by name (`mcpsrv/provisiontools.go`, `hyperv/rename.go`) | credentials, pins, pooled connection, tunnels of one name | `rename_vm`, `delete_vm` | four stores changed one after the other | records follow the VM |
| Installer and update (`svcmgr/install.go`, `cmd/.../update.go`) | service registration, binaries, data directory | install, upgrade, uninstall, status | crash between two renames; running binary cannot be replaced | a working service before and after |
| PowerShell runner (`internal/psrun`) | slots, running scripts | `Run`, `RunTimeout` | deadline, cancellation, killed scripts | every slot is given back |
| VM lifecycle and checkpoints (`hyperv/vm.go`, `checkpoint.go`) | VM states | start, stop, suspend, resume, checkpoint | states change under the check | legal transitions only |
| Creation, templates, export, import, deletion (`hyperv/provision.go`, `storage.go`, `disks.go`) | VMs, disks | multi-step scripts | a step fails after others took effect | nothing of others deleted, nothing of its own left |
| Settings (`hyperv/settings.go`) | firmware, security, memory, processors | set with preconditions | which setting needs which VM state | refused before anything changed |
| Networks (`hyperv/network.go`, `switchnet.go`) | switches, adapters, NAT | create, delete, set, diagnose | remove before create | connectivity not lost on failure |
| Guest addresses and sessions (`hyperv/guest.go`, `guestexec.go`, `guestsession.go`) | none | wait for an address, run in a guest | polling with a deadline | right address chosen |
| Console (`keyboard.go`, `mouse.go`, `screen.go`), Tailscale, pipe and bridge, MCP registration, config, logging, errors, paths, command line | little or none | conversions, byte copying, parsing | | |

How they interact. A session's tool calls call the tunnel table, the pool and Hyper-V
operations directly. A tunnel in ssh mode, `ssh_exec` and `set_guest_static_ip` get
their connection from the pool through the dialer, which reads the credential first and
resolves the address after. `cred set` and `cred delete` reach the service as control
requests, change the store and then drop the pooled connection. `rename_vm` changes
Hyper-V, the store, the pins, the pool and the table in this order. The service's stop
handler closes all tunnels, then the pool, and ends the process; sessions still open are
not waited for.

`PROJECT.json` lists the components with what is modelled of each, and under `hazards`
the places where this code can go wrong in ways a test hardly reaches.

## Modules

| Module | Models |
|---|---|
| `TunnelManager` | the tunnel table, its file, the firewall and the service's start and stop |
| `TunnelManagerProofs` | its inductive invariant and theorems |
| `MCTunnelManager` | the instances TLC checks |
| `SshPool` | the SSH pool, host-key checks, and the requests that drop connections |
| `SshPoolProofs` | its inductive invariant and theorems |
| `MCSshPool` | the instances TLC checks |
| `TunnelConns` | the data path of one tunnel: accept, dial, copy, close |
| `TunnelConnsProofs` | its inductive invariant and theorems |
| `MCTunnelConns` | the instance TLC checks |
| `PsRunner` | the PowerShell runner: slots, deadline, cancellation, the death of the service |
| `VmStore` | machines, power, checkpoints, creation, deletion, import and export, disk files |
| `VmRecords` | what the service files under a machine's name, and `rename_vm` moving it |
| `VmSettings` | the setting tools and what refuses them |
| `VmNetwork` | switches, the host's address, NAT, machines' adapters |
| `GuestAddress` | the choice among a guest's addresses, the wait for one, the diagnosis |
| `CallContract` | abstract: what any tool call promises its client |
| `HyperVHost` | the composition of these, the refinement of `CallContract`, fairness |
| `HyperVHostProofs` | theorems about the slots, machines' names, the host's adapters and guests' addresses |
| `HostContractProofs` | the host implements `CallContract` |
| `RecordsProofs` | the theorem about what is filed under names |
| `StoreProofs` | theorems about deleted disks, machines' adapters, what a success means, boot orders, and types |
| `MCHyperVHost` | the small hosts ("scenes") TLC checks |
| `ServiceInstall` | install, upgrade, update, uninstall and purge of the Windows service |
| `ServiceInstallProofs` | its inductive invariant and theorems |
| `MCServiceInstall` | the instance TLC checks |

`HyperVHost` extends `VmRecords`, `VmSettings`, `VmNetwork` and `GuestAddress`, which
extend `VmStore`, which extends `PsRunner`. The three modules of the service's own
tables and `ServiceInstall` stand by themselves: what they share with the rest is one
value (a name, an address that answers, a binary).

### TunnelManager

One action per lock region or effect. `Open` is `OpenCall` (arguments accepted),
`OpenFails` (`resolveBind`, the ssh probe or `listen` failed; `listen` rolls back what
it bound), `OpenRegister` (the lock region that assigns the id and makes the entry),
`OpenAllow` or `OpenAllowFails` (the script), `OpenRecordRule` (`st.fwRule = rule`,
outside the lock) and the two halves of `persist`: `PersistSnapshot` under the read lock
and `PersistWrite` (or `PersistFails`) with no lock at all. `Close` is `CloseRemove`,
`ShutdownListeners`, `ShutdownRule` and `persist`; `CloseAll` is `StopBegin`, then the
same shutdown once per tunnel (`StopNext`), then `StopExit`, the end of the process.
`Restore` is `RestoreRead`, `RestoreRaise` and one `Open` per saved tunnel. `Start` is
the start of the service; `Crash` ends it anywhere.

`file`, `firewall` and `orphans` outlive the process. An id stands for the rule's name
too, because the rule is named after the id. A leftover rule of an earlier run may
therefore be replaced by a new tunnel with the same id, as in the code. `orphans` are
the firewall scripts a call was waiting for when the process ended: each is a process of
its own that only its caller's context kills (`psrun.go:135`), so it may still do its
work at any later moment (`OrphanActs`), beside the next start, or never.

Six history variables say what the code does not record: `stale` (tasks whose snapshot
is older than the table), `behind` (the file was last left with another content than the
table had, or a restore failed), `excused` (rules that were left behind, and in which
way), `life` (what the client that opened a tunnel was told), `crossed` (ids whose rule
an orphan has touched since it was made), `preempted` (this process issued an id before
it had `next_id` from the file). No action reads them except to update them.

Abstractions. Ports, labels and times are one value per `open_tunnel` call (`key`); a
port that is taken is one of the reasons of `OpenFails`. Calls that are refused change
nothing and are no step. Two calls to `open_tunnel` with the same arguments are two
keys. The file is sorted by id as a string; with fewer than ten ids that is the numeric
order, and the order only decides which tunnel is reopened first. `st.fwRule`,
`st.warnings` and `spec.VMName` are read by other goroutines without the lock that
protects them; the model treats each as a word that is read whole, so a torn read of a
string header is not covered. Connections through a tunnel are `TunnelConns`.

### SshPool

A step is what a goroutine does up to the next point where another can get in. `Get` is
`GetLookup` (lock), `GetHit` or `GetDead` (the answer to `alive`, without the lock), the
dial (`DialCheck` pins or refuses the host key during the handshake, then `DialSucceeds`
or `DialRefused`), and the insertion. The second `alive` is asked with the lock held, so
the lock is a variable: `InsertLock` takes it, `InsertTheirs` and `InsertOver` release
it. `Drop` is `DropTake` (lock) and `CloseEntry` (no lock); a keepalive goroutine that
finds its connection dead calls `Drop` with the *name* of its VM, as the code does, and
takes whichever entry is there by then. The reply to a request on a hung connection
never comes; it ends when the connection breaks.

Every connection of `Conns` is also the task of its keepalive goroutine. A connection
that was refused during the handshake returns to the set of unused ones; `Conns` bounds
how many connections succeed in a behaviour.

`CredChange`, `ForgetHostKey` and `Move` are `cred.set` and `cred.delete`,
`ssh_forget_host_key`, and the drops of `rename_vm` and `set_guest_static_ip`. `late`
remembers who had read the old credential when it changed, `accepted` for which VMs a
client accepted another host key; no action reads them except to update them.

Abstractions. A credential is one value and the merge of a partial one with the stored
one is left out. Addresses and the `host` override are left out: every dial reaches the
VM's guest. What happens through a connection is only the time the caller holds it. The
end of the process after `Close` is not modelled, so callers may go on after it, as
goroutines do until the process is gone.

### TunnelConns

One tunnel, from `Accept` in `serve` to the return of `handle`. `pc` is where the
goroutine of a connection stands; its two copying goroutines are `up` and `down`.
`TrackClient` is separate from `Accept` because `track` runs in the new goroutine.
`dialBackend` is `Route`, then `CachedAnswers` or `CachedFails`, `Resolve`, `Store`
(`cachedIP` is written without looking whether it changed), and `DialAnswers` or
`DialFails`. `Join` tracks and counts the connection and starts the copies; `Part`
closes both sockets when the first of them is done; `Uncount`, `OffClient` and
`ShutClient` are the deferred calls in their order. `CloseListener` and `Sweep` are the
two steps of `shutdown`, the second under `connMu`.

The other side of the network is external: `PeerEnds`, the VM that stops or returns on
another address (`Moves`), and a second VM that takes an address (`OtherMoves`).

`reached`, `failed`, `fresh`, `excused`, `was` and `late` are history: who answered,
whose dial failed, who asked Hyper-V, who met a VM that was down, moved or refused,
which addresses the VM has had, and who was not yet tracked at the sweep.

Nothing in the data path has a deadline once it copies. A copy that waits in `Write` for
a peer that does not read is `stuck` (`Stalls`, and `ReadsOn` when the peer reads
again); it ends when its socket is closed. On an SSH channel not even that suffices: the
library (external) sends the close, and the write returns when the guest's sshd answers
it. `MayEnd` says when a copy may end, `Notices` when it cannot help it, and only the
latter is fair.

Abstractions. The modes `given` (direct with a pinned `guest_host`) and `ssh` have one
dial whose outcome does not depend on where the VM is. What Hyper-V reports is the VM's
address at that moment. `halfClose` has no action because both sockets are closed right
after it. A stream that ends before the copies start is noticed when they do. Byte
counters, the total and the text of the last error are left out.

### The host: PsRunner, VmStore, VmRecords, VmSettings, VmNetwork, GuestAddress

Every tool that touches Hyper-V sends one PowerShell script, sometimes two or three, to
a process that `psrun` starts under a semaphore and kills at a deadline. There is no
lock between scripts. `call[c]` is the tool call of a client: the request, the place its
script has reached (`pc`), and what the script has read so far (`loc`). A step is the
stretch of a script up to and with its next cmdlet that changes the host, so any other
script, guest, merge or cable gets in between two of them, and `ScriptDies` can follow
any. A script's `throw "HVERR:…"` is `Throw` (the client is told "refused"); a cmdlet
that fails, the deadline and the cancellation are `Fail`. Which of a failed cmdlet's
messages `errmap` turns into which code is left out: they are all "failed". A call whose
Go code goes on after the script (`rename_vm`, the address tools) is a "tail"; a script
whose service died is an "orphan", which runs on beside the scripts of the next service,
with nobody to tell and nobody to kill it.

`touched` (the script has changed the host) and `alone` (no other script has, since it
began to look) are history. `alone` is the honest part of every check-then-act tool: the
code checks, and nothing keeps the check true, so a property of such a tool is
conditioned on `alone`, which the model takes away as soon as any other script acts at
all.

Hyper-V addresses a machine by identifier and lets two share a name; the tools address
it by name and act on every machine `Get-VM -Name` returns, and so do the actions. What
Hyper-V itself asks (a start needs every file of the disk chain, a TPM needs a
protector, memory bounds must be in order, some settings need the machine off, a file
held open cannot be removed) is external, and modelled where a tool depends on it.

- `VmStore`: `LookUp` is `requireVM` with the state check a script opens with. A machine
  has its disks, the disks its checkpoint froze, and how far `create_vm` got with it
  (`built`). `checked` is history: the name was given after a look that nobody overtook.
  Deleting a checkpoint starts a merge that Hyper-V finishes in its own time while the
  script polls the machine's status text, which may not show a merge that has yet to
  begin; `AwaitMerge` may then end too early, and promises nothing. `delete_vm` looks
  once at the disks in use and at those of their parents that a `Get-VHD` with its
  errors silenced could read (`Survey`, `read`), keeps what it saw, and removes files
  one by one (`RemoveDisk`); a merge may put a disk back into use between the two. A
  seed disk may stay mounted after a success, since its dismount is silenced as well
  (`WriteSeedDisk`). `New-VM` gives a machine one adapter, on the switch asked for. A
  machine has one checkpoint at a time. Its `layers` are the disks it writes to since
  the checkpoint; while they are merged Hyper-V holds them (`InMerge`), and no machine
  can be made on one of them. A machine that is removed stays behind as `Gone`: Hyper-V
  gives each machine an identifier of its own (`NeverUsed`), and one comes back only
  when `import_vm` registers the very machine that had it, with the devices, generation
  and settings it was `Exported` with. A script that still holds the identifier
  therefore never finds another machine under it.
- `VmRecords`: credentials, pin, pooled connection and tunnels of a name, each as the
  set of machines they were made for. `ssh_exec` and `open_tunnel` look at the name
  first and file something under it later: `due` holds those on their way, with the
  machines the name stood for when they began. `ssh_exec` is `FindGuest`, `GetPooled`,
  `Handshake`, `Insert`, `open_tunnel` is `AskTunnel` and `Register`; both may give up
  anywhere, and a renaming or a deletion gets in between any two. An address given with
  the call (`host`) is left out, and a tunnel stands for the machine that had the name
  when it was asked for. `late` is history: names a machine left while one of these had
  yet to file. `rename_vm` moves them one after the other after the script is done, each
  with a possible failure that the tool only warns of. `astray` is history: names whose
  machine left them other than by a renaming (it was deleted, or renamed by an import),
  or by a renaming that failed, stopped half way, did not move a record, began from a
  name that was astray already, or found another machine under the name it came from or
  went to.
- `VmSettings`: a request is a function on the settings given, since a setting not given
  is left alone. `Refuses…` are the checks of the Go side, `ScriptRefuses` those of the
  scripts, `Cmdlets` what each tool then writes and in which order. Values are small
  representatives: 0..3 for sizes and percentages. `Offers` says which settings each
  tool takes. A boot order given is a sequence of tokens; `Devices` and `BiosOrder` are
  the loops that turn it into devices or into the four classes, written as functions on
  how many tokens were read.
- `VmNetwork`: `create_switch` counts the adapters with a cable, then makes the switch;
  `set_switch_nat` removes the NAT before it makes its checks; `set_vm_network` finds or
  adds the adapter, connects it and sets its port, the last three cmdlets in one step;
  after an addition it goes on with the first adapter of the name. An adapter's
  `checked` is history, like a machine's: nobody overtook the look that found none of
  its name.
- `GuestAddress`: `BestOf` is the one pass of `pickGuestIP`, a function on how many
  addresses it has seen, and `PickGuestIP` the choice at its end; `wait_for_guest_ip` is
  a loop of scripts, each with a slot of its own, with the pick between them.

`HyperVHost` adds the clients. A scene gives the machines, the files, the calls to be
made and what may happen meanwhile; each call of a scene is made once, by any client
that is free.

`CallContract` is what a client may rely on whatever the tool: a call waits, works when
it has its turn, at most `Limit` work at a time, only a working call (or an orphan)
changes the host, a call that its own checks refuse has changed nothing, and an answer
ends it. `HyperVHost` implements it under the mapping `Contract`. A refusal is excused
when another script came between, and for the four tools that change something before
their last check (`ChecksLate`): `create_vm_from_template` leaves the differencing disk,
`set_switch_nat` has removed the old NAT, `set_vm_integration_services` and
`set_vm_network` have made the changes that came first.

### ServiceInstall

An elevated process, step by step: `LoadConfig` and `SaveConfig`, `OpenService`,
`StopService` and `AwaitStopped`, `Sweep`, `Write`, `Written`, `Swap`, `RenameAside`,
`Place` and `PutBack` (all of `stageBinary`), `Register`, `StartService`,
`AwaitRunning`, and for the way out `Deregister` and `Purge`. Each file operation may
fail, and so may `OpenService` for a service that is there: the code takes any error for
its absence (`install.go:82`, `137`), and `blind` remembers that it did. `SaveConfig`
writes what `LoadConfig` read, with the path of `tailscale.exe` replaced when one was
found; of the settings in `config.json` the model keeps that path and, for all others,
the number of the edit they come from. Around it: the service that starts, stops or
crashes, the manager that restarts it after a crash (`ManagerRestarts`), bridges that
hold the file they run, somebody editing `config.json`, the installer being closed and
the machine restarting anywhere. A file being written is "torn" until `Written`, and
`unsynced` until Windows has put it on the disk (`WritesOut`): `stageBinary` waits for
no sync, so a machine that stops without notice may come back with a torn image
(`MachineRestarts`). The renamings themselves are taken to be on the disk in their
order. `held` says who runs a file: Windows refuses to replace such a file and lets it
be renamed.

`alone` and `gone` are history: the service or the configuration was touched by others
since this installer began; the service's image was given up between the two
renamings (the installer died there, or could not put it back), removed by a purge that
did not find the service, or torn by a restart. One installer runs at a time,
which nothing in the code enforces: two would share the `.new` file.

## Runs

| Run | Instance | Shows |
|---|---|---|
| `tunnel_table` | two clients, an exposed and a loopback tunnel, a rename, a stop, failing rule scripts; 2 ids, 1 start | `ListenersOwned`, `OneOwner`, `RulesAccountedFor`, `DurableWhenQuiet`, and that calls return and closing takes effect |
| `tunnel_recovery` | one client active during the restore, crash, stop, and failures of removal, read and write, scripts that outlive the service; 3 ids, 2 starts | `IdsAreNotReused`, `ReportedRuleExists`, `RulesAccountedFor`, `DurableWhenQuiet` |
| `tunnel_rule_leak` | two clients and a stop | a rule outlives its listener |
| `tunnel_resurrected` | two clients, a crash, 2 starts | a closed tunnel is reopened |
| `tunnel_lost` | one client, crashes, 3 starts | an open tunnel is not reopened |
| `ssh_pool` | two callers, one changer of credential, host key and address, one VM, two connections, two host keys | `ClosedOnce`, `OpenIsOwned`, `PooledIsWatched`, `StaleOnlyIfOvertaken`, `OneIdentity` |
| `ssh_pool_liveness` | two callers, two connections, hung guests, a stop | `GetReturns`, `KeepaliveEnds` |
| `ssh_given` | one caller, two credentials | a call's own credential is ignored |
| `host` | 30 scenes, two or three clients, 2 slots, 2 machines, 4 files, 3 names, 2 switches, 2 adapters | the properties below |
| `service_install` | two published images and an altered one, one name to move a held image to, one edit of `config.json` | `BinaryIsWhole`, `SettingsSurvive`, `InstallKeepsItsWord` |
| `cloned_image` | one client, an image under a clone with a checkpoint | an image two disks below is removed |
| `tunnel_conns` | two connections, two addresses, two moves, directly and over ssh, a close, peers that end or do not read | `ReleasedAtEnd`, `LateOnly`, `RightGuest`, `RefusedOnlyIfAway`, `HandleEnds` |

What `host` checks, besides types:

- `SlotsAreGivenBack`: the semaphore is exactly as full as scripts are running.
- `NamesAreUnique`: two machines share a name only through an overtaken check or
  `import_vm`.
- `RecordsFollowTheirMachine`: a name that stayed with its machine never answers with
  another one's credentials, pin, connection or tunnel; while a renaming is under way,
  both its names answer with those of the machine renamed. Late names are excepted: what
  an `ssh_exec` or `open_tunnel` still had to file when the machine left is filed there.
- `BootOrdersAreSound`: a Generation 2 boot order read and sent back is unchanged,
  unless two of its devices answer to the same token (two adapters of a name, or a file
  entry an order named twice); a Generation 1 order stays a permutation.
- `AdaptersAreSound`: `set_vm_network` adds no second adapter of a name unless its look
  was overtaken, and no adapter is on a switch that is gone, not even that of a machine
  created while the switch is deleted.
- `AddressesAreToldRight`: the address picked is the first of the best kind among all
  reported, and the diagnosis is true of the addresses.
- `DeleteSparesDisksInUse`: a disk that is in use, and was when `delete_vm` looked, is
  not removed, nor is its direct parent if that could be read, unless another script came
  between.
- `HostKeepsAnAdapter`: the host keeps an adapter unless another script or a cable came
  between.
- `OkMeansDone`: a success means what `StoreDone`, `SettingsDone` and `NetworkDone` say
  of the tool, along every path of its scripts, with guests and merges going on. They say
  nothing of `detach_vhd`, `resize_vhd`, `create_vhd` with a parent and
  `remove_vm_network_adapter`, nothing of `delete_checkpoint` when the status text showed
  no merge, and of `restart_vm`, `start_vm` and `resume_vm` only that the machine runs or
  has since stopped by itself; `rename_vm` ends with the records.
- `CallsKeepContract`: the refinement of `CallContract`.
- `EveryCallEnds`: again and again every call has been answered. A call whose service
  died was answered by that, and its script may run for ever.

Bounds. Every race in these components is between two goroutines about one id or one VM
name, with the restore loop or the stop handler as a third; two clients and these two
reach them all. `MaxID = 2` lets an id be issued while another tunnel is being closed;
`MaxID = 3` with two starts lets a restored table issue ids above the saved ones, beside
an orphan of the first start; `MaxStarts = 3` reopens a file that a restore wrote. Two
connections and one VM are enough for one to be dropped in the place of the other; VMs
share nothing in the pool but the lock. A third connection multiplies the states without
a new kind of step. Accepting a changed key by `trust_new_key` is in the model and in
the proofs, and switched off in the passing runs to keep them small; accepting it by
forgetting the old one is in. In `ssh_pool` callers and connections are symmetric; the
liveness run uses no symmetry. In `tunnel_conns` one connection fills the cache and the
other finds it stale or overwrites it, which needs two connections; two moves let the VM
leave an address and another VM take it, or the VM leave and come back. A tunnel that is
given its guest's address dials and ends like one over ssh, but for the channel that may
wait; it is left to the proofs. The run uses no symmetry.

In `host` a scene brings together the tools that act on the same things; the state of
one scene does not depend on what other scenes are about, so their union checks more
calls than any single instance could. Two calls beside each other show every race of a
check with a change; `Crowded` has three clients for two slots and lets the service die,
so that orphans run beside the next service's scripts. Two machines are enough for one
to take the name, the disk or the switch of the other; four files make a chain of three
and a free path. The numbers 0..3 have a value below, at and above each bound the tools
compare with. In `service_install` two images, which are alike (`SYMMETRY`), tell old
from new, the altered one must be refused by the digest, and one name to move to means a
second held image finds none. The configuration is read by no step that concerns service
or image; one edit may come before, between or after its reading and its writing, and
leave a file that cannot be read.

`CHECK_DEADLOCK FALSE` is set because a behaviour may really end: the starts, ids and
connections are used up, or nobody calls any more.

Fairness. `FairSpec` of `TunnelManager` gives weak fairness to the steps that a started
call, the restore loop or the stop handler makes by itself: goroutines are scheduled,
and every script runs under a deadline (`RunTimeout`). Starting a call, a crash and a
start are never forced. `FairSpec` of `SshPool` gives weak fairness to the steps of a
`Get` (bounded by the dial timeout), to drops, to keepalive goroutines (the ticker
ticks) and to TCP giving up on a hung guest; that last one is the operating system's,
and without it the code, which asks `alive` without a deadline, would wait for ever.
Callers need not stop using a connection. `FairSpec` of `TunnelConns` gives weak
fairness to each connection's goroutine (a TCP dial ends after ten seconds, a script at
its deadline, and a request over a hung SSH connection when TCP gives up) and to a copy
for as long as it notices an end: it waits in no `Write`, and its source has ended or is
closed, or its `Write` has failed. Peers need never end a stream nor read one, and a
tunnel need never be closed. `HandleEnds` says accordingly that `handle` returns once a
peer has ended its stream or the client's socket is closed, unless a `Write` waits: on a
socket that is open for a peer that does not read, or on an SSH channel whose guest does
not, closed or not. `FairSpec` of `HyperVHost` has three parts. A running script is
killed if it does not end (`Killed`, weak): every call goes through `RunTimeout`, whose
context has a deadline. An orphan is not: that context died with the service. A call
that waits for a slot gets one if slots come free again and again (`TakeSlot`, strong):
Go serves the senders waiting on a channel in their order. What the service does after a
script it does, and the wait for an address ends (`Concludes`, strong): `WaitForGuestIP`
compares the time with its deadline after every look; strong, because the call leaves
and re-enters that place with each look. None of them makes a script succeed, a guest
report an address or a merge end. Fairness is on changes of the call's stage, which each
of these steps makes.

## What the checks found

1. **A firewall rule may outlive its listener after an ordinary stop**
   (`tunnel_rule_leak`). `CloseAll` says it is called so that none does. An `Open` that
   has made its entry but not yet recorded its rule loses the rule: shutdown sees no
   `fwRule`, or `CloseAll` has already taken the table.
2. **A closed tunnel may come back** (`tunnel_resurrected`). `persist` collects under
   the lock and writes after it. An `Open`'s older list can be written after a `Close`'s
   newer one; the next start reopens the tunnel that `close_tunnel` said is forgotten.
3. **A crash during the restore loses tunnels** (`tunnel_lost`). Each reopened tunnel
   rewrites the file with the table as it is, without those still to come.
4. **A credential given with a call may be ignored** (`ssh_given`). `Pool.Get` returns
   the live connection of the VM whatever it was made with.
5. **An image two disks below may be deleted** (`cloned_image`). "What their disks
   descend from" (`provision.go:204`) is read one parent deep, and only from disks that
   are attached at that moment. A clone with a checkpoint writes to a disk on its own
   disk on the image; the image goes with its own machine. A
   child that is detached, or was kept when its machine was deleted, does not protect its
   parent either.

Worth knowing, though no run stands for it; each was met while modelling:

- Installing again reverts an edited `tailscale_path` to the one it detects
  (`install.go:62-64`), although "only the allowed SID is taken from the install itself"
  (`388-390`). `SettingsSurvive` says what the path may become.
- Every error of `OpenService` is taken for the absence of the service (`install.go:82`,
  `137`): an uninstall then reports success with the service registered and, with
  `--purge`, its image removed. `InstallKeepsItsWord` (`blind`) and `BinaryIsWhole`
  (`gone`) name it.
- `CloseAll` empties the table and does not save it. A `persist` of another call that is
  still on its way then writes the empty table, and the next start reopens nothing.
- Sessions are accepted (`run.go:127`) before `Restore` has read the file (`134`). An
  `Open` that comes first takes an id of a recorded tunnel and writes a file with its own
  tunnel only: the recorded ones are lost. `IdsAreNotReused` speaks of processes that
  took `next_id` from the file first.
- `Pool.Get` inserts under the name it was called with, after a lookup and a dial, when
  `rename_vm` may have dropped the name's connection already; the same window leaves a
  pin or a tunnel there. `RecordsFollowTheirMachine` names it (`late`).
- Two External switches without the management OS, made one after the other, take both
  of two connected adapters: the guard of `create_switch` (`network.go:197`) counts
  adapters with a cable, not those the host still has. `HostKeepsAnAdapter` therefore
  asks that none was taken before.
- An upgrade that begins in the seconds before the manager restarts a crashed service
  finds it stopped; the manager then starts the old image, and the upgrade reports
  success when it sees the service running. `InstallKeepsItsWord` names it.
- "An upgrade that could not go ahead must not leave Hyper-V unreachable"
  (`install.go:89`) holds for a failed staging, not when the stop times out,
  `updateExisting` fails, or the image could not be put back.
- `purgeDataDir` puts its own file back "rather than leave the install half-dismantled",
  but the first `RemoveAll` has removed everything that was not held already.
- A staged image is not synced before it is renamed to the service's path, as
  `config.writeFileAtomic` does with its files; `BinaryIsWhole` names what a machine that
  stops without notice may leave.
- A firewall script that outlives the service may remove or replace the rule of a tunnel
  to which the next start gave the same id. `ReportedRuleExists` names it (`crossed`).
- A parent disk is protected only if `Get-VHD`, with its errors silenced, could read the
  child (`provision.go:209-210`); a seed disk whose dismount fails stays mounted on the
  host (`460`); and the wait for a merge ends at once if the status text does not speak
  of it yet (`checkpoint.go:118`).
- A guest that neither reads nor lets its sshd answer keeps a connection of a tunnel in
  ssh mode, with its goroutines, after `close_tunnel`.
- A service the manager restarts between the stop and the delete of an uninstall is only
  marked for deletion, and runs on.
- `delete_vm` leaves credentials, pin and tunnels; the next machine of that name gets
  them, and a partial `cred set` merges with them.
- A merge that ends while `delete_vm` removes files may give a machine back a disk that
  was frozen when it looked, and so not seen in use. `DeleteSparesDisksInUse` is about
  disks the look did see.
- Renaming a name that two machines share renames both.
- Power tools report by name after the change: a machine renamed meanwhile is reported
  as missing although it was started or stopped.
- Bandwidth weight and minimum bandwidth exclude each other within one request only, as
  do a minimum and a maximum of IOPS.
- `vm.go:247-248` says that this server has no tool for memory, so that dynamic memory
  cannot come back under nested virtualization; `set_vm_memory` can turn it on again.
- `get_vm_settings` reports boot entries of kind "other", which `set_vm_firmware` does
  not take back.
- `diagnose_vm_network` says that no address was supplied although a `guest_host` was
  given and did not answer.

`close_tunnel` says it drops in-flight connections immediately. `LateOnly` names the one
exception, a connection that was accepted and not yet tracked when `shutdown` went
through the set; it is then served until one of its peers ends it. `RightGuest` names
another: as long as the cached address is answered by anyone, the tunnel does not ask
Hyper-V whose it is.

## Proofs

The proofs hold for every value of the constants that the modules' named assumptions
allow (tasks are distinct, bounds are positive): any number of clients, tunnels, VMs,
connections, starts and any combination of failures.

`TunnelManagerProofs` proves `Spec => []TunnelInv` (`TunnelSafe`) and from it `TypeOK`,
`OneOwner`, `ListenersOwned`, `IdsAreNotReused`, `ReportedRuleExists` and
`RulesAccountedFor`. None of these is inductive alone. `TunnelInv` adds: what a task at
each place has in hand (`PlacesOK`); that every id in use anywhere was issued, that is,
lies below `nextID` (`Issued`), which makes a new id fresh; that next_id in the file and
in any snapshot lies above the ids beside it (`IdsBelowNext`), and that a process which
has taken it over has every id of the file below its own `nextID`, and the same tunnel
under an id that file and table share (`ReuseOK`); and what is known of an id while its
`Open` is still creating the rule (`OpenOK`). `ListenersOwned` needs `OneOwner`: closing
the listeners of one id must not close those of a tunnel that another task owns.
`RulesAccountedFor` needs both, because removing a rule is right only if no other tunnel
goes by that id. `DurableAlwaysWhenQuiet` (a second invariant, `SavedOK`, beside
`TunnelInv`) follows whoever is about to write the file: a call whose snapshot is not
`stale` holds exactly the table's tunnels, so its write leaves file and table equal; and
as long as they differ somebody is on the way to write, or the difference is `behind`.

`SshPoolProofs` proves `Spec => []PoolInv` (`PoolSafe`) and from it `TypeOK`,
`ClosedOnce`, `OpenIsOwned`, `PooledIsWatched`, `StaleOnlyIfOvertaken` and
`OneIdentity`. `PoolInv` adds that a connection that is being dialled or inserted is in
one caller's hands and in nobody's pool (`PlacesOK`, `HandOK`, `OwnOK`), that the pin of
a VM equals the key of every connection made to it unless another was accepted
(`PinOK`), and that a connection on its way into the pool carries the stored credential
or is `late` (`FreshOK`).

`TunnelConnsProofs` proves `Spec => []ConnsInv` (`ConnsSafe`) and from it `TypeOK`,
`ReleasedAtEnd`, `LateOnly`, `RightGuest` and `RefusedOnlyIfAway`. `ConnsInv` adds which
sockets a connection can have at each place (`SocketsOK`), that before the sweep an open
client socket is tracked except at two places (`TrackedOK`), that `active` is the number
of joined connections (`CountOK`, by cardinality), and that an address on its way to be
dialled is the VM's or its connection is excused (`AddrOK`).

`HyperVHostProofs` is about any clients, machines, names, calls and scenes. A call has
one form (`Shaped`), and every step of a script does one of three things to it: it looks
and goes on, it acts and overtakes all others, or it leaves (`ScriptStep`). From this
`SlotsAlwaysGivenBack` follows by counting. `NamesAlwaysUnique` and
`HostAlwaysKeepsAnAdapter` rest on one argument (`Arrivals`, `ActsOvertake`): a call
that is past its look and still alone has either just looked, or stood there while
nobody else acted, so what it saw still holds; the invariants `NamesLooked` and
`Counted` say so of the free name and the count of adapters. `NamesAlwaysUnique` needs
also that only three actions give a machine a name (`NamesStep`).

`AddressesAlwaysToldRight` is about an algorithm rather than about interleaving.
`FirstKept` is what the pass of `pickGuestIP` knows after `n` addresses: for each class
it has either met none, or holds the first one met. It holds for every list by induction
on `n`, and at the end it makes the address picked the first of the best rank. The state
only has to report lists of addresses (`Reporting`).

The prover cannot use induction theorems that take an operator, so `HyperVHostProofs`
states the two facts needed with sets in the place of operators. `Induction` says that a
set with 0 and the successor of each member holds all of `0..L`; it comes from the least
element of the rest. `Recursion` says that a base and one function per step determine a
function on `0..L`. With these two, what the definitions written as recursive functions
compute is proved for sequences of any length, here and in `StoreProofs`.

`HostContractProofs` proves the refinement, `Spec => CallsKeepContract`. Lemma `Steps`
puts every step of the host into one of a few classes, by what it does to the calls: a
call is submitted, refused, given a slot, or has an `Outcome` (it changes the host and
overtakes the others, only goes on, or ends); the service dies; Hyper-V moves by itself;
nothing. Each class maps to a step of the contract or to a stutter (the lemmas ending in
`Maps`). The invariants it needs say that a call that is idle or at its first look has
changed nothing unless its tool is one that checks late (`Clean`), and that a power tool
alone past its look still has a machine to report (`PowerLooked`): its last step may
refuse, and must not after a change.

`RecordsProofs` proves `RecordsAlwaysFollow`. A renaming passes through the places of
`RenamePlaces`, and what is under its two names changes at each: outside of renamings a
name has its own machine's records (`Steady`), the record being moved is still under the
old name or under the new one (`Carried`), and what was moved left nothing behind
(`Emptied`); together they are `Followed`. What is `due` is for the machine of its name
(`DueOwned`), or of a renaming's new name while one is under way (`DueCarried`), unless
the name is late. That two renamings under way do not get into each other's names is
`NotConfused`; it holds because a machine that two renamings want, or a name both pass
through, is `astray` by the time the second begins. `AllMoved`, `LeftByRenaming` and
`NoSwap` say when a name may be given up again.

`StoreProofs` rests on one lemma (`ScriptMoves`): in any step, a script past its first
look either makes the step itself, or stands where it stood with all it has read; and if
nobody overtook it, no other script changed the host in that step. `DisksInUseAreSpared`
follows with `Surveyed`: what a deletion nobody overtook has left to remove is disjoint
from the disks that were in use when it looked and from the parents it could read, and
since nobody else changes the host, no such disk gets a new parent.
`AdaptersAlwaysSound` follows with `AddsUnseen` (a script about to add an adapter, not
overtaken, still faces a machine without one of the name) and `Connected` (every switch
an adapter is on exists), which a creation, a connection and a deletion of the switch
keep in any order. `TypeAlwaysOK` needs that what is asked is `WellFormed` (`Asked`),
that disk files and machines' disks are paths (`Stored`), and that what a settings tool
has yet to write are settings machines have (`Planned`, `Configured`).

`OkAlwaysMeansDone` needs an invariant on every script at each of its places
(`DoneInv`): as long as no other script has changed the host since it began, what it has
done `SoFar` is still so. `SoFar` has one part for each family of tools: power,
checkpoints, creation and deletion, disk files, settings, switches and adapters. At the
last place of a tool its part says what success promises. For each tool one lemma
follows its own steps; the other half is one lemma for all of them, that guests, merges
and cables disturb little (`MovesDisturbLittle`, `Undisturbed`): names, adapters and
settings stay, a running machine may stop, and a merge touches only the disks it merges.
Here it matters that no identifier is used again, or a script would set another machine
than the one it looked up, and that no machine is made on a disk in merge, or the merge
would take its disk away while it is created.

`BootOrdersAlwaysSound` needs `BootsSound`. A machine's order is never looked at when it
is imported or when a setting is applied, only when the cmdlets are made up; so the
invariant says that orders are `Orderly` (`MachinesBootful`), that those of exported
machines are (`ExportsBootful`), and that those a settings tool has yet to write are,
for the devices of the machine it looked at (`PlansBootful`). The last two hold across
steps of others because a machine keeps its generation and devices as long as its
identifier means anything. Under these, `BiosOrderly` (with `OrderlyPermutes`) proves of
`BiosOrder`, and `RoundTrip` of `Devices`, what the property asks, for orders of any
length.

The assumptions these proofs make of a scene are named in `HyperVHost`, and the checked
scenes satisfy them: machines of a scene have distinct names (`ScenesAssumption`), what
is asked names machines, disks and switches there could be (`RequestsAssumption`), what
is filed at first belongs to the machine of the name (`RecordsAssumption`), files, disks
and settings have their types (`DisksAssumption`), adapters start with distinct names on
switches that exist (`NicsAssumption`), and boot orders, of machines and of exports, are
orders Hyper-V could have (`BootAssumption`). `PathsAssumption` keeps the two marks
`NoFile` and `Root` apart from paths and from each other, and `AddressesAssumption` says
that guests report lists of addresses.

`ServiceInstallProofs` proves `Spec => []InstallInv` (`InstallSafe`) and from it
`BinaryIsWhole`, `SettingsSurvive` and `InstallKeepsItsWord`. `InstallInv` adds what the
installer knows at each of its places: what kind of run it is, that only an install
has an image, a published one, and that one that did not find the service stops and
deletes none (`KindOK`); where that image is while it is staged, and
that the old one waits under its other name (`StageOK`); that the service has a process
exactly while it runs an image, and that, once stopped and left alone, it stays
stopped until the installer starts what is in place, unless the installer is `blind`
(`ServiceOK`); and where the last edit of
`config.json` is (`ConfigOK`). `BinaryIsWhole` alone is not inductive: that a swap puts
a whole image in place needs to know that `.new` was written to its end.

Each proof is by one lemma per action or group of actions, one step per conjunct it can
disturb.

Only model-checked: the liveness properties `CallsReturn`, `CloseTakesEffect`,
`GetReturns`, `KeepaliveEnds`, `HandleEnds` and `EveryCallEnds`, because liveness under
fairness is outside what the prover handles. Every invariant and every other action
property of the passing runs is a theorem, and so is the refinement. The five findings
are counterexamples and need no proof.

## What is left

1. An abstract tunnel (open, closing, closed, with the connections it may still have)
   that `TunnelManager` and `TunnelConns` both implement.
2. The static-address procedure of a guest with the pool and its `waitForAddress`.
3. Two installers at once, and the commands `service start` and `service stop`.

## Not modelled

- Keyboard, mouse and screen operations, guest sessions and commands (PowerShell
  Direct): conversions and scripts that change nothing the program keeps. Their use of
  slots is that of any script.
- The tools that only read (`list_*`, `get_*`, the preflight of a switch), except where
  their answer has a property of its own.
- The host's default storage paths, ISO images and SCSI controllers: one assignment
  each, on which no other tool depends.
- The pipe, the bridge and the MCP protocol library; Tailscale (an external program);
  the event log; DPAPI; argument parsing, elevation, path checks, logging, and the text
  of errors.
- Several checkpoints of a machine, disk contents, and Hyper-V's own limits on names and
  paths.
- The static-address procedure of a guest beyond its drops of the pooled connection.
- Torn reads of strings that are read without their lock (see `TunnelManager`).

The end-to-end tests and the PowerShell installer script are not part of the program.
