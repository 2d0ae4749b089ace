# A TLA+ model of the SA-02m gateway

The SA-02m is a DIN-rail gateway: a small Linux board with RS-485 lines, relays and a
web panel. This repository builds what runs on it: a Modbus-to-MQTT bridge, a coordinator
for the RS-485 ports, a flasher for the modules on the bus, a transactional updater, a rules
engine, and clients of several clouds. This directory holds TLA+ modules of the parts
where processes, crashes and locks meet, the TLC configurations that check them on small
instances, and TLAPS proofs of their safety properties for every instance.

Paths are relative to the repository root, under `src/` in `PROJECT.json`.

## Contents

| module | what it is |
|---|---|
| `PortBroker` | the RS-485 port coordinator with its clients, services, helpers and the updater's gate |
| `UartOwner` | what the coordinator promises of a UART; `PortBroker` and `Flasher` implement it |
| `MCPortBroker` | boards for TLC: ports, aliases, scopes; cfgs `MCPortBroker`, `MCScopeOk`, `MCLive`, `MCScope`, `MCStuck` |
| `PortBrokerProofs` | inductive invariant, safety theorems and the refinement of `PortBroker` |
| `BridgePause` | how the bridge pauses and resumes one polled line |
| `MCBridgePause` | two handles, two workers; cfgs `MCPauseOne`, `MCPauseTwo`, `MCPauseOverlap`, `MCPauseStuck` |
| `BridgePauseProofs` | invariants and safety theorems of `BridgePause` |
| `UpdateTransaction` | an update from the operator's request to its end, through power losses |
| `AtomicBoard` | what the updater promises of the installed files; `UpdateTransaction` implements it |
| `MCUpdateTransaction` | a package of five files; cfgs `MCUpdate`, `MCUpdateLost`, `MCUpdateWiden`, `MCUpdateGuard` |
| `UpdateTransactionProofs` | inductive invariant, safety theorems and the refinement of `UpdateTransaction` |
| `CloudAgent` | pairing with the fleet cloud, evidence of a refusal, stand-down; `MCCloudAgent`, `MCCloud` |
| `CloudAgentProofs` | inductive invariant and safety theorems of `CloudAgent` |
| `AliceBinding` | the Alice client's binding: callback thread, main loop and panel; `MCAliceBinding`, `MCAlice`, `MCAliceRebind` |
| `AliceBindingProofs` | inductive invariant and safety theorem of `AliceBinding` |
| `Flasher` | jobs, reserved ports, configuration sessions, the flash gate; `MCFlasher`, `MCFlasherCancel`, `MCFlasherHole` |
| `FlasherProofs` | inductive invariant, safety theorems and the refinement of `Flasher` |
| `RulesEngine` | scenarios, timers, runs and the document they come from; `MCRulesEngine`, `MCRules`, `MCRulesAutoOff`, `MCRulesStale`, `MCRulesLost`, `MCRulesTorn` |
| `RulesEngineProofs` | inductive invariant and safety theorems of `RulesEngine` |
| `SerialGateway` | the gateway daemon: its ports, their TCP clients, executor threads and signals; `MCSerialGateway`, `MCGateway`, `MCGatewayTwo`, `MCGatewayStop`, `MCGatewayStart` |
| `SerialGatewayProofs` | inductive invariant and safety theorems of `SerialGateway` |

`tlc -config MCUpdate.cfg MCUpdateTransaction` runs one configuration, `tlapm
UpdateTransactionProofs.tla` checks one module of proofs.

## Inventory

State, operations, interactions and the behaviours that are hard to test, part by part.

**Port coordinator** (`opt/sa02m-port-coordinator`). A root broker hands out one exclusive
lease per physical UART. Durable state: the journal of leases (phase, port, scope) and of
services it stopped and owes a start. Memory: connections, its copies of the device locks,
open pause connections to the bridge. Operations: acquire (journal, pause the bridge, stop the
scope's units, sweep for occupants, lock, confirm, pass the lock by SCM_RIGHTS), release,
recover (every 5 s and at the start), service mutation guard, idle check for updates, poll.
Every other user of a UART talks to it: flasher, serial gateway, bus scan, service
helpers, updater. Hard: the broker's death between any two steps, clients that time out or are
killed, systemctl timeouts, two names of one device, scopes that overlap. Correct means: one
managed opener per leased UART; no stopped service is forgotten; nothing is started that
was off; changes of a unit, leases and updates exclude each other.

**Bridge scan lease and transports** (`opt/sa02m-modbus-mqtt`: `bridge_scan_lease.py`,
`bridge_serial.py`, `bridge_rtu_tcp.py`). State: reference count per line, held marks, one
event and lock per pooled handle, the scheduler's hold. Operations: pause and resume by
connection, `get_port`, transact. Called by the broker and by scans. Hard: the scheduler,
the writeback thread and several holders interleave. Correct means: an acknowledged pause is a
silent, closed line until the holder leaves, and afterwards the line polls again.

**Update runner and controller** (`etc/sa02m-update-runner.sh`, `opt/sa02m-update/lib`).
Durable state under `/var/lib/sa02m-update`: `transaction.json`, the maintenance marker, the
cancel file, staging with the rollback journal and its backups, the rollback archive; and the
installed files. Operations: upload, apply, cancel, online (controller); apply, recover, reclaim,
verify (runner). Interacts with the coordinator (gate, idle check), systemd (stop, start, boot
guards), the panel. Hard: power loss anywhere, failed steps with `errexit` off, a rollback that
is itself interrupted, cancellation against the point of no return, services stopped across
a reboot. Correct means: the tree ends old or new and the stage says which; a mixed tree
is always known and marked; an accepted cancellation is kept; services end as they were.

**Factory reset** (`etc/sa02m-factory-reset-runner.sh`). Shares lock, transaction file and
controller with the updater. Stages of its own. Hard: interruption between backup and wipe.

**Flasher** (`opt/sa02m-flasher`). Per port the job registered last, a cancel event per job, the
irreversible mark of a job and of its flash gate, manual leases with user counts
(`mplc_lease.py`), lock files, configuration locks, a firmware cache. Jobs (scan, flash, batch)
and configuration sessions hold a lease of the coordinator. Hard: cancellation against the
irreversible part of a flash, release and restore under a running job, a late cleanup against the
next job, one module of a batch that fails. Correct means: one talker per UART; a module without
application is never hidden; every job ends; past the point of no return nobody cancels.

**Serial gateway** (`opt/sa02m-serial-gateway`). Per port a lease, an open UART, a TCP listener with a
handler task per client, the lock of the exchange and, in transparent mode, a reader that sends
what comes to all clients. UART calls run on threads that no cancellation stops. Operations: start,
reload (SIGHUP), stop (SIGTERM). Hard: stopping, timing out or losing a client while a thread is at the
UART, a start that fails after the lease, a cleanup that fails, clients that do not read. Correct
means: no thread without descriptor, no descriptor without lease, one exchange at a time, `running` is
true when published, a request gets its turn, a stop ends.

**Rules engine** (`opt/sa02m-rules`). Document, run journal, logic state on disk; a heap of
timers with cancel-by-key, running scenarios, write-rate window. The cloud channel and a CGI rewrite
the document in processes of their own. Hard: a reload while timers of the old document are pending, a
run that starts another inside itself, re-triggers, restarts. Correct means: a periodic row has one
timer; what a scenario turned on its end turns off; the engine runs the document on disk.

**Bindings** (`binding_core.py` in `opt/sa02m-cloud-agent`, copied in `opt/sa02m-alice`). A counter of
refusals by class, a stand-down that may be owed, the identity files, a durable marker, the card. The
cloud agent counts refusals of heartbeats and of the tunnel; the Alice client gets one event, or the
panel unlinks. Hard: a crash between verdict and wipe, a file that cannot be removed, old journal
lines, three writers of one INI, a new binding beside an old verdict. Correct means: never unbound by
doubt, always unbound by a verdict, and a card that says so only when it is done.

**Home Connect** (`opt/sa02m-homeconnect`). Daily call budget charged before each call and
persisted; token refresh with two locks. Hard: crash between charge and call, day roll-over,
refresh by two threads, revocation.

**Audio, agent API, HomeKit, Alice registry, devices and history, telemetry, device libraries,
protocol bridges, roster, network scripts, web panel.** Recording sessions with rate limit and
retention; token store and rate limiter; projections of MQTT values; SQLite history; wire
formats; shell loops over kernel interfaces; presentation. Candidates for later modules are the
recorder's session and the token store; the rest has little control state of its own.

`PROJECT.json` lists every part with what is modelled of it, and under `hazards` the places
where this code is hard to test with the properties that watch them.

## Plan

Done: `PortBroker`, on which everything that touches a UART depends; `BridgePause`, the
acknowledgement the broker waits for; `UpdateTransaction`; the abstract `UartOwner`, implemented by
`PortBroker` and by `Flasher` through refinement mappings; the abstract `AtomicBoard`, implemented by
`UpdateTransaction`; `CloudAgent` and `AliceBinding`, the two doors of one binding core; `Flasher`;
`RulesEngine`; `SerialGateway`.

Left, in this order: 1. factory
reset over the updater's lock and transaction file; 2. Home Connect's budget and token refresh; 3. the
saved state of the rules engine's logic templates; 4. recorder session and token store. Theorems
still worth proving: a gateway whose port use implements `UartOwner`, as the flasher's does, and the
types and the queue of the exchange lock in `SerialGateway`.

## PortBroker

State. `phase` and `obl` are the journal's leases and obligations, `conn`, `brokerFd` and `holds`
the broker's memory, `pc, cur, curU, todo, todoS, gateSH` the thread that owns `Broker.mutex`,
`cl`, `clientFd`, `sUart` the clients and what they have open, `poll` the bridge's handles, `unit`
and `vUart` systemd's states and what services have open, `guard` the helpers' locks, `upd` and
`marker` the updater. `owed` is history: what the broker stopped and has not run since.

Actions. One per statement of `_acquire`, `release` and `recover` that changes something another
process can see: `AcquireStart` journals the lease, `PauseAck`/`PauseFail` ask the bridge,
`StopJournal`, `StopIssue`, `StopDone` stop a unit, `Sweep*` look for occupants and lock,
`ConfirmOwner` makes the lease active, `Reply` passes the lock, `AcquireAbort` undoes;
`RecoverTick` to `RecoverEnd` are a recovery pass. Clients, pollers, helpers, units, an unmanaged
opener and the updater are their own actions. A lock of the kernel belongs to the open file
description: it is held while the broker's or the client's copy is open.

Abstractions. One mutex means one program counter. A journal change and its fsync are one step,
because a failed save ends the process (`os._exit`), which is `BrokerCrash`. The port-to-device
mapping is fixed. Units are visited in any order. A poller may retry at any time. Gate and mutex
are taken in one step. A client that timed out (`left`) may still be served. A child tool
(`ChildTool`) keeps the UART open after its parent dies; an intruder opens it unasked.

Refinement. `UartOwner` knows neither broker, journal nor lock: a UART has a holder, tools the holder
left or uses, and bridge handles. It grants a UART only when nobody has it open; the holder opens it;
handles open it only without a holder; anybody may leave. `PortBroker!OwnsUart` maps the holders to the
sessions whose transferred lock is alive, tools and handles to what clients and pollers have open, and
says that every behaviour of the detailed module, deaths and timeouts included, is one of
`UartOwner`. TLC checks it in `broker`, `PortBrokerProofs!Implements` proves it. That a holder has its
UART to itself (`Exclusive`) is proved of `UartOwner` and so holds of the coordinator.

## BridgePause

One line with its pooled handles. `count` is `_holds[key]`, `held` the line's mark, `hold[h]` and
`lock[h]` the handle's event and lock, `parked` the scheduler's hold, `hpc` and `wpc` the holders'
and the workers' positions. A `with` block is one step, an access to an event outside one is
a step of its own. The serial and the TCP pool run the same code.

## UpdateTransaction

State. `stage ... port_restore_pending` are keys of `transaction.json`; `marker` and
`markerDisk` the maintenance file as processes see it and as a power loss leaves it; `journal[f]` the
content the backup of `f` holds, `None` without a line; `tree[f]` the installed file: 0 absent, 1 as
delivered, t + 1 as transaction t writes it. `cmd`, `pc`, `todo`, `cur`, `failed` are the runner,
`ctl` the controller, `queued`, `booting`, `svc`, `guard` systemd. `base`, `accepted` and `unguarded` (the
units whose guard this boot failed to set) are history.

Actions. `Ctl*` are the controller's requests. `ApplyBegin` to `Applying` lead to the point of no
return: `HonourCancel` may stop each of these steps, and `Border` runs under `control.lock`. Then
`Snapshot`, `StopUnit`, `StopDone`; `SkipFile`, `journal_append`, `atomic_install_file` for the deploy
list, the stamp and the deletions; `Verifying`, `RestoreUnit`, `HealthPasses`, `commit_markers`,
`Done`, `Unmark`. `RollbackBegin` to `RolledBack` are `rollback_from_journal` in its three
contexts. `Recover*` and `schedule_boot_verify` are `recover_transaction` at boot and at run time,
`Verify*` is `cmd_verify`. `PowerLoss`, `RunnerKilled` and the failing variants share one budget.

Abstractions. `update.lock` leaves one runner at a time. A queued apply starts at once and so has
the lock before the controller asks for it. Deploy, stamp and delete lists are disjoint, so the
order in which the journal is replayed does not matter. The torn last line the replay skips
describes no rename and is left out. A journal without lines and an archive of an untouched
tree restore the same. `txn_patch` syncs the directory, so an earlier unlink of the marker is
durable from then on; the unlink after `done` is not synced. Deletions are taken as durable.
`die` in the subshell of `stop_before_apply` records `error` before the parent rolls back
(`StopBeforeApplyDies`, `DyingRollsBack`). The stamp is soft (`StampUnchanged`). Boot recovery
is not killed before it has set its guards (its unit has 300 s), but any of them may fail to be written or
loaded, or the ports be busy after it: recovery ends there and the boot goes on (`RecoverBlocked`). Reclaim may run at any time the
lock is free. A progress patch in the deploy loop changes nothing a property sees.

Refinement. `AtomicBoard` knows neither runner, journal, archive nor power loss: a board has a release, its
files, the package accepted last and a maintenance flag. `UpdateTransaction!AtomicUpdate` maps the
release to `base`, or to the tree from `done` on, the package to what each file shall become, the flag to
`marker`. A request of the controller is `Accept`, setting the marker `Enter`, an install, a deletion or a
restored file `Write`, the stage `done` `Commit`, removing the marker `Leave`; a power loss after an unlink that
was not synced may bring the marker back (`Enter`). The rest changes nothing `AtomicBoard` sees. So a board
without the marker has one release, whole.

## CloudAgent

State. `conf`, `secret`, `toml`, `pairReq`, `token` are the agent's files, by the number of the identity
they belong to; `frpc`, `frpcOn`, `lines` the tunnel unit and its journal; `cursor`, `cursorFile`, `since`
the read position; `hb` and `fr` the two refusal counters; `status` the card. `cloud`, `cgen`,
`code` are the cloud's side. `ref` is history: how often the identity issued last was refused.

Actions. Pairing by code or token; `finalize_enrollment` in its four writes; a watchdog tick with
each outcome of the journal read (`TickNoCursor`, `TickStaleCursor`, `TickUnsaved`, `TickRead`);
`Heartbeat`; the stand-down file by file; `AgentDies` (which may tear agent.conf, or be a
reboot) and `AgentStarts`.

Abstractions. A line of the tunnel's journal is its class and the identity that dialled. The cloud
answers a heartbeat by its record and the secret's identity. A heartbeat that gets no answer changes
nothing and is left out. `Grace` and `StopMayFail` are switched off in the run; see the observations.

## AliceBinding

State. `file` holds the identity each binding file belongs to, `ini` the client INI, `pc` and `back` the
main loop, `unlinked` and `pend` the process's `_unlinked` and `PENDING_STAND_DOWN`, `wipe` the step of
each of the three wipers (callback, main loop, CGI) and whose verdict it carries, `snap` the INI each
writer has read, `cgi` the link or enable request. `confirmed` is history.

Actions. `OnUnlink` to `SetUnlinked` on the callback thread; `Outer`, `Reconcile`, `Await`, `Dial`,
`Session`, `SessionEnds` of the main loop, each retrying what is owed; `start_link`, `complete_link`,
`unlink_controller` and the enable switch. Every read and save of the INI is a step of its own. A marker that
cannot be saved after the erase (`FinishFails`) ends the callback, the request, the session or the process,
whichever the error leaves.
Abstractions. Every card that is neither "unlinked" nor "unlink_failed" is "plain". The key stands with
the certificate, the CA with the claim. The panel serves one request at a time.

## Flasher

State. `job` is the Job with its worker's step, `evt` the cancel events, `portJob` is `_port_jobs`,
`manual` and `users` the reservations, `lease` the coordinator's lease, `flock` the lock files, `client`
the handler threads, `lock` is `_LEASE_LOCK` across calls. A module runs its application, sits in the
bootloader, is erased, or has the new firmware, whole or without some blocks (`dev`).

Actions. `Submit` to `Free` are JobManager, `TakeLease` to `DropLease` port_lease and _port_flock,
`Scan` to `Jump` run_fn with the attempts of a block; `CancelCheck` and `CancelSet` are the two
halves of cancel; `EnterLoop`, `Reserve`, `GiveBack` the buttons, `Config*` a session, `Probe*` the lock
file test of /status, `Other` another client of the coordinator.

Refinement. `TakesUart` maps `Flasher` to `UartOwner` too: an operation is a thread on a UART, or another
client's lease of it; a thread holds the UART with a lease of its own or as the user counted in the
reservation, and has it open while it is on the line. TLC confirms it in 18 s with `PROPERTY TakesUart` in
`MCFlasher.cfg`; `FlasherProofs!Implements` proves it.

Abstractions. All data blocks are one; the by-serial, the bootloader and the .wbfw sequences have the same
gate and attempts. They part where a block fails for good (`Skips` is the .wbfw's, `Fails` the others') and
in whether an error of the jump counts (`Jump`); which sequence a module takes is left open. One mishap
loses one attempt at a block or all of them. A handler thread serves `MaxRequest` requests; the runs may so come to rest, which
is why they do not check for deadlock; `JobEnds` would show a thread that waits for ever.

## RulesEngine

State. `disk` is scenarios.json and `doc` the engine's copy, `seen` says whether the stamped mtime is the
file's, `adopted` the mode in the fingerprint, `every` and `heap` the live timers, `stack` what the one
thread is in the middle of (dispatches, runs, commands), `cloud` what apply_command has loaded. `owes`
is history: which loads the latest and the earlier runs of a scenario with an end switched on, and which of
them an exception left without a carrier ("torn").

Actions. `Tick`, `Message`, `SceneCommand` reload first; `DispatchTo`, `DoSet`, `DoDelay`, `DoMode`, `DoCall`,
`RunAborts`, `Finish` are steps of the thread; `FireEvery`, `FireCont`, `FireEnd`, `Clock`, `RunNow` its
timers; `EngineLoads` and `EngineStamps` the start; `CommandLoads` and `CommandSaves` the other
process. A run is not interleaved with another, but a mode change pushes a dispatch on the stack.

Abstractions. A stale heap entry is skipped when it is popped and is left out. Conditions may hold or not,
a write may be refused or not. A called scenario's actions are put before the rest of the caller's. A save of
the home mode may raise, with the mode changed in memory: the whole stack unwinds to service.py
(`Unwinds`), as it does for a run inside a run. Code and logic rows are left out; a code run catches its own
exceptions and finishes.

## SerialGateway

State. `daemon` is where `GatewayDaemon.run` is, `todo` the ports `_start_ports` has not come to, `known` the
keys of `_ports`, `signal` the two flags and a cancelled main task. `port[p]` is a PortGateway with its
gateway: the await of its start, stop or cleanup (`at`), `_gw`, lease, descriptor, listener,
`_stopping`, what `_stop_task` keeps, and the reader of transparent mode (`rx`). `queue[p]` are the waiters of the
exchange lock, `conn[c]` where a client's handler is, `cancelled` and `late` the cancellations
and timeouts on their way, `ops` the executor threads at a UART, `unread` the clients that do not read.

Actions. `StartPort`, `Acquire`, `Open`, `Bind` are a start; `Drained`, `Close`, `Release` the cleanup that
a failed start and a stop share, and `Ends` what becomes of its outcome; `Boot`, `Ready`, `Signal`, `Reload`, `Reloaded`, `Stop`,
`Exit` the daemon; `Killed` its death at any step. `Accept` to `End` are the handlers of the three
modes, `Poll` to `ReaderEnds` the reader. `ThreadEnds` ends a UART call; only then does the await over
it end (`AwaitOver`), whatever cancelled it.

Abstractions. A request is whole or it is not; framing, access lists and counters are left out. Each
start picks a mode, and an unreadable or changed configuration any set of ports. A refused lease
is a fault. A client connects again at will. A connection whose data nobody reads outlives
its handler (`linger`), and `Server.wait_closed` waits for it, as since Python 3.12.1. A SIGINT cancels the
main task during the boot only; later it is a SIGTERM.

## What the runs check

| run | expects | what it shows |
|---|---|---|
| `broker` | pass | 1.3 million states: three sessions, two devices, one of them with two names, a shared runtime that may start slowly, a poller, a child tool, guarded changes, updates, one broker death; and the refinement of `UartOwner` |
| `scope_ok` | pass | 1.2 million states: no broker death and no slow start, but an intruder, a flash tool that outlives its client and changes of the bridge itself: scoped services stay stopped, the next lease waits for the tool |
| `live` | pass | leases of clients that are gone are dropped and stopped services run again |
| `pause_one` | pass | one holder: acknowledged means silent and closed; every holder is answered |
| `pause_two` | pass | two holders: nothing stays counted, marked or parked |
| `update` | pass | 226 thousand states: two transactions, three mishaps; and the refinement of `AtomicBoard` |
| `cloud` | pass | 1 million states: two identities, a death, reboot or failed write, three lines of journal |
| `alice` | pass | 693 thousand states: a failed removal or write, the marker of a finished erase too, a death of the client or a switch of the flag, a new link |
| `flasher` | pass | 440 thousand states: two jobs on a port, in the order of their ids, one handler thread, a disturbance of the line or another client |
| `gateway` | pass | 26 thousand states: one port, two clients, two faults, a reload, any mode: no UART call without descriptor and lease, no overlapping exchanges, `running` is true, requests get their turn, SIGTERM ends the daemon |
| `rules` | pass | 3.6 million states: two scenarios out of six rows, an edit, a restart, saves of the home mode that fail |
| `rules_autooff` | violation | a re-trigger whose write is refused leaves the load on |

Further configurations show disagreements between the code and what the repository says of it, one each
and in seconds; `findings` in `PROJECT.json` quotes both sides:

| configuration | module | violated | what it shows |
|---|---|---|---|
| `MCScope` | `MCPortBroker` | `ScopedServiceStopped` | a unit whose slow restart succeeds late runs under the next lease |
| `MCStuck` | `MCPortBroker` | `LeaseDropped` | an aborted acquire leaves a reservation that recovery never drops |
| `MCPauseOverlap` | `MCBridgePause` | `StaysPaused` | a new first holder loses its pause to the last one's resume |
| `MCPauseStuck` | `MCBridgePause` | `PollsAgain` | a handle stays held with no holder |
| `MCUpdateLost` | `MCUpdateTransaction` | `RollbackExact` | rollback by archive is not exact when staging is lost |
| `MCUpdateWiden` | `MCUpdateTransaction` | `ServicesAsBefore` | a rollback starts a UART service that was off |
| `MCFlasherCancel` | `MCFlasher` | `CancelOnlyBlocked` | a cancel checked before the point of no return and set after it leaves a module erased |
| `MCGatewayStop` | `MCSerialGateway` | `StopWaitsForUart` | a client that does not read keeps a stop waiting |
| `MCGatewayStart` | `MCSerialGateway` | `OthersTried` | a failed cleanup of one port leaves the later ones unstarted |
| `MCAliceRebind` | `MCAliceBinding` | `NewBindingKept` | the retry of an old stand-down erases a new certificate |
| `MCRulesStale` | `MCRulesEngine` | `NeverStale` | a save between load and stamp is never read |
| `MCRulesLost` | `MCRulesEngine` | `NoEditLost` | an edit is replaced by the engine's older copy |
| `MCRulesTorn` | `MCRulesEngine` | `NothingTorn` | a failed save of the home mode leaves a load on without an end timer |

`MCUpdateGuard` and `MCFlasherHole` show two things the code does knowingly or no text denies; see the observations.

`MCGatewayTwo` checks the invariants of `SerialGateway`, `TypeOK` and `NothingLeaked` too, with a second port (479 thousand states).

Properties of `PortBroker`: `LeaseHolderExclusive` (a client with the lock is the only managed
opener), `ManagedExclusive` (the same for every managed descriptor, a left tool's included), `NoLostObligation` (stopped
and not run since means journalled), `ScopedServiceStopped`, `MutationExclusive`,
`MaintenanceExclusive`, `HoldsCovered`, `StartsOnlyWhatItStopped` (action property), `OwnsUart`,
`ServiceRestored`, `LeaseDroppedWhenFree`, `LeaseDropped`. Of `BridgePause`: `PausedLine`,
`StaysPaused`, `NothingLeftHeld`, `PollsAgain`, `Answered`. Of `UpdateTransaction`:
`RollbackExact`, `CommitExact`, `UndoKnown`, `MixedMarked`, `CancelHonoured`, `CancelNotStale`,
`ServicesBack` and `ServicesAsBefore` (action properties), `BootSettles`, `AtomicUpdate`. Of `CloudAgent`:
`NeverByDoubt`, `CardTrue`, `RefusalActedOn` (liveness). Of `AliceBinding`: `EraseBeforeCard` and
`NewBindingKept` (action properties), `OwedIsPaid`, `UnlinkedLifts` (liveness). Of `Flasher`: `OneTalker`,
`ActiveRegistered`, `Reported`, `WholeFirmware`, `JobEnds` (liveness), `TakesUart`, `CancelOnlyBlocked` (action property). Of
`RulesEngine`: `EveryOnce`, `LatestRunEnds`, `NothingTorn`, `AutoOffLands`, `NeverStale`, `NoEditLost`. Of `SerialGateway`:
`UartCovered`, `OneExchange`, `PublishedTrue`, `NothingLeaked`, `Served` and `StopEnds` (liveness), `StopWaitsForUart`, `OthersTried`. Each property of a passing run
has a mutant of the code in the module (`\* Mutant:`) that breaks it.

### Bounds

`MaxCrash = 1`: the one death may come at every step, and what a second one could add is a
journal left by an interrupted recovery pass, which the theorems, without any bound, cover
for the safety properties. Three sessions allow two on one device and a
third that shares only the service. Two handles and two workers distinguish "my handle" from
"another one", two holders are the first and the last. `MaxTxn = 2` lets a second transaction meet
what the first left; `MaxMishap = 3` lets an apply be interrupted, its rollback be interrupted and
the verification fail. The five files are one of each kind: the VERSION file, added, unchanged,
stamp, deleted. Of the two units one starts at boot and one is on the restart list.
`CloudAgent`: with `Threshold = 2` a verdict needs two refusals of one class, so that two classes, two
identities and two sources can be mixed; three lines hold one more than a verdict; two mishaps are one
in the stand-down and one after it. `AliceBinding`: the second identity is the new binding beside the old
verdict; one fault makes a stand-down owed and one halt loses the memory of it. The main thread's own failed
marker takes two faults, the first of which made it owe: with `MaxFault = 2` the
three properties hold as well (2.6 million states, 5 minutes). `Flasher`: two jobs
are the running one and the next, two modules the failed one and the one after it, `MaxTry = 2` a
block that is repeated once; two requests of one thread are a release and a restore, or a cancel
between them; the constraint `j1First` fixes which of the two job ids is the first, as ids are made when a job
is submitted. `RulesEngine`: two scenarios suffice for a call, for re-entry through a mode change and
for an edit of the other one; the six rows of `MCRulesEngine` are each there for one branch of the code
(periodic with delay, disabled, bad, mode, call with an unknown mode, scene). `SerialGateway`: two clients
are the holder of the lock and the one behind it; two faults let the cleanup of a failed start
fail, or a reload meet what a failed stop kept; one reload is the stop and start that SIGTERM
does not have.

### Fairness

`PortBroker!FairSpec`: the broker's thread is scheduled and systemd restarts it
(`Restart=`), a connected client is served once the mutex is free again and again (strong, since
others take it in between), systemd finishes its jobs, an operation ends. A poller is not obliged
to close its UART: the bridge polls for as long as it is not paused. `BridgePause!FairSpec`: handler
threads are scheduled, a transaction ends by its serial timeout, and a handle's lock is not refused
to a waiting holder for ever. `UpdateTransaction!Spec`: a started runner goes on (weak), systemd
boots the board and a queued runner gets `update.lock` between others (strong: `acquire_lock` waits
15 or 60 s), the controller finishes a request it began. Nobody is obliged to ask for an update,
to cancel or to reclaim. `CloudAgent`: the agent's thread is scheduled and systemd restarts it (weak);
heartbeats get through again and again (strong: they are sent only in the active loop). `AliceBinding`:
main loop, callback and a request run on, systemd restarts the client; a session may last for ever
unless the loop's own test ends it. `Flasher`: worker and handler threads run (weak); a lock file probe and
another client owe nothing, since nobody waits for them. `RulesEngine` states no liveness. `SerialGateway`:
the loop schedules every task that can go on, and a UART call ends by its own timeouts (weak).
Nothing is asked of clients, signals or systemd, but `StopEnds` supposes that clients read again and
again what they are sent, or go away.

## What is proved

`PortBrokerProofs`, for every set of sessions, ports, devices, services, pollers, any scopes and
aliases, any number of crashes, from `ConfigAssumption` (the constants are functions between
these sets, the bridge is in no scope). The inductive invariant is `TypeOK` with `ThreadOK` (where
the mutex owner is and what it has done so far), `LocksOK` (who can hold a device's lock: two
copies of one lock, never two locks), `CleanOK` (what a session without a lease has not), `DutyOK`
(an obligation exists before a stop is issued and until the unit was seen running) and the
properties themselves. Exclusivity alone is not inductive: after a broker death only the
client's copy of the lock protects the UART, and it takes `LocksOK` and the order scan, lock,
recheck of the pollers to carry it over the restart. Theorems: `TypeCorrect`, `UartExclusive`,
`ObligationsKept`, `MutationsApart`, `UpdateAlone`, `PausesCovered`, `StartsJustified`, all from
`InvHolds`.

`UpdateTransactionProofs`, for every package (any deploy, delete and unchanged sets), any
services, any number of transactions and mishaps, on boards whose staging directory survives
(`~StagingVanishes`; `update_lost` shows why). The invariant adds `ThreadOK` and `StageOK` (which
stage the file shows at each label), `CleanOK` (nothing is touched before the border and
nothing is left after a clean rollback), `JournalOK` (journal and archive hold old content only,
and what differs is journalled), `LoopOK` (what the loops have done: deploy, restore),
`CancelOK`, `MarkerOK`, `UnitsOK`. `RollbackExact` needs all of them: a rollback may be started from
any stage and context, over a tree that an earlier one partly restored. Theorems:
`RollbackRestores`, `CommitComplete`, `UndoAlwaysKnown`, `MixedTreeMarked`, `CancelKept`,
`CancelFresh`, `ServicesKept`, `TypeCorrect`, from `InvHolds`. There is one lemma per part of the
invariant, with one case per action or group of actions.

`PortBrokerProofs!Implements`: `Spec => OwnsUart`. Every step maps to a grant, an opening (`Begin`),
a poll or a leaving of `UartOwner`; it takes `LocksOK`, `CleanOK` and `OpenOK` to show that a grant
finds nobody on the UART. `OwnerSound` proves `Exclusive` of the abstract module alone, `HoldersAlone`
carries it over.

Two properties of `PortBroker` hold under conditions, and the theorems state them. `ScopeKeptStopped`
(`ScopedServiceStopped`) holds until the broker dies and where no start outlasts systemctl's timeout;
`FastScopeStopped` says of any board the same for the units whose start does not (`MCScope` shows that the
others may run). Its invariant `ScopeOK` says that, until a death, an obligation is a stopped unit or the one
whose stop or start is being issued, that a restart is issued only for a unit no lease covers, and which units of
its scope an acquire has behind it. After a death an obligation may stand for a stop that was never issued.
`ManagedApart` (`ManagedExclusive`) holds until the broker dies, and through its deaths where no operation works
through a child tool that outlives the client's lock. Until a death a lease outlives the tool (`OrphanOK`): a
recovery pass looks only at leases whose clients are gone, so nothing opens the UART after its scan; `DirectExclusive` says of any board the same for a UART that the client itself has open, through
every crash. Its invariant `KeptLock` says that such a client still has its copy of the lock.

`UpdateTransactionProofs!Implements`: `Spec => AtomicUpdate` on boards whose staging directory survives. A
`Write` needs `MarkerOK` and `RestoredOld` (a restored file has its old content, by `JournalOK`); `Accept`,
and a power loss that drops the marker, need `MixedMarked`; `Leave` needs `CleanOK` and `LoopOK`, by which a
rollback that reports success has restored everything; `Commit` needs `CommitExact` and the one part that is
new, `UnderWayMarked` (from `applying` to `committing` the marker is there and durable). `BoardSound` proves of `AtomicBoard` that a board
that is not busy has its release, whole (`Whole`), and that a file has old or new content (`OldOrNew`);
`WholeUnlessMarked` and `NoThirdContent` carry that over to the files of the updater.

`BridgePauseProofs`, for any workers and handles. The count is the cardinality of the holders that
are counted (`CountOK`), whence `LeavesNothing` (`NothingLeftHeld` for any number of holders, when
handles close without an error). For one holder `Silent` (`PausedLine`) and `StaysSilent` (`StaysPaused`),
also when a handle fails to close.

`FlasherProofs`, for any ports, jobs, modules and handler threads. `SoundOK` says that a worker's step
determines its job's state and what it holds, `ClientOK` the same of the handler threads, `LeaseOK` that
a holder has its lease or is the one user counted in the reservation, `ToldOK` that the modules a batch
is through with were sent their firmware or are named and the later ones untouched. `TalksAlone` needs `LeaseOK`,
`NothingHidden` needs `ToldOK`; `StaysRegistered` is inductive with the positions of the workers.
`Implements` (`TakesUart`) has one case per action that takes, opens or gives up a UART: `HoldAlone`, out of
`LeaseOK`, says that nobody else has a hold on it, and a worker begins to talk only when it gets the
lock file (`WorkerTalksLater`).

`RulesEngineProofs`, for every document. `EveryInv` (the documents and their periodic timers) carries
`OneTimerEach` alone. `NothingForgotten` needs `Ends`: what a run switched on is carried by a run on the
stack, by its continuation or by its end timer (`Carried`), each of them knows the end of its row
(`EndsKnown`), and a document is adopted only while the stack is empty (`RestsUnlessUp`). An unwound stack
tears what nothing in the heap carries; an edit of the row or a restart writes a debt off too.

`CloudAgentProofs`, for any threshold and any number of identities, lines and mishaps. `CardIsTrue` follows
from where the agent may be with an enrolled agent.conf and where without (`EnrolledOK`, `CardOK`).
`NoDoubt` needs three parts more: the tunnel runs with the identity issued last (`TunnelOK`), the journal
behind each read position holds lines of that identity only (`FreshOK`), and the counters stand for
different refusals of it (`CountOK`, by the cardinality of the refused lines). It assumes
`~StopMayFail`; the observations show why.

`AliceBindingProofs`, for any number of identities, faults and halts. Of an identity the gateway has just
issued no file, session or verdict speaks before its certificate is saved (`Unspoken`), so a wiper past
its first removal never has a certificate of its verdict beside it (`ErasedOK`), whence `ErasedFirst`.

`SerialGatewayProofs`, for any ports, clients, faults and reloads. `PortsSound` says what a port has at each
await of its start and cleanup, `Connected` that a handler or a thread of a client supposes a gateway not yet
drained, `Awaited` and `LockHeld` that a thread has an await over it and the await the lock,
`Owned` that a port the daemon does not know has nothing, a lease least of all, `Alone` that one port is
started at a time. `UartIsCovered` and `OneAtATime`
both rest on `Awaited`: the await ends with its thread, so lock, descriptor and lease are given away after
it. `PublishedIsTrue` is part of `PortsSound`. `LeasesReturned` needs both parts: a stop that ended well has
given the lease back (`PortsSound`), and a reload forgets its ports only when each of them has (`Owned`); a
failed one ends the daemon with the port still known, and the kernel frees the UART.

`TypeOK` of `PortBroker`, `UpdateTransaction`, `CloudAgent`, `AliceBinding`, `Flasher` and `RulesEngine` is proved
and not checked by a run.

Only model-checked: every liveness property (the prover does not reason about fairness). Every invariant and
action property of a passing run is proved for all values of the constants.

## Observations without a run

* `broker.py:480`: a recovery pass scans for occupants, then tries the lock, and does not scan again;
  a child tool that opens the UART in between keeps it after its lease is dropped. It takes a death of the
  broker, after which a client without a connection may still start a tool and then die itself: with
  `MaxCrash = 1` in `MCScopeOk.cfg` `ManagedExclusive` fails.
* `bridge_scan_lease.py:211`: a second holder is answered while the first is still closing handles.
  With two holders `PausedLine` fails in five steps. The broker alone never has two holders of
  one line; a bus scan beside it can be the second.
* `bridge_scan_lease.py:215`: when closing a handle raises, the count is undone and the marks are
  not. With `CloseFails = TRUE` and two holders `NothingLeftHeld` fails.
* On COM lines the poller's own lock keeps the UART exclusive even when a pause is lost; the
  RTU-over-TCP lines have no second protection.
* `sa02m-update-runner.sh:2641`: a crash between `commit_markers` and `stage=done` followed by a
  failed verification rolls the files back while `deployed_version` and `deployed_commit` stay new.
* `cmd_apply` accepts stage `uploaded`. Should a runner start so late that the controller has
  accepted another upload in between, it would install a package nobody confirmed; systemd
  starts the queued unit at once, so the model does not take this path.
* A `cancelled` transaction becomes `error` (E_POWER) at the next boot (`recover_transaction`, 3024).

* With `Grace = TRUE` `RefusalActedOn` fails: an agent that dies between the removal of the secret and the
  marker comes back without a secret, which the cloud in grace mode does not refuse
  (`sa02m-cloud-agent.py:613` expects it to restate the refusal).
* With `StopMayFail = TRUE` `NeverByDoubt` fails: a tunnel that could not be stopped goes on with the old
  identity, and its refusals count against the next one (`binding_core.py:44`).
* `sa02m-cloud-agent.py:846`: in strict mode a board whose secret could not be saved does not stay
  "Offline with a live tunnel"; its heartbeats are refused and it stands down.
* `config/api.py`: `start_link` clears the unlink marker, and with it a pending stand-down the client
  has not yet adopted. `client/main.py:227` calls a callback "in flight" at `_reconcile_unlink_state`
  unreachable; `disconnect` does not wait for it.
* `sa02m-update-runner.sh:3016`: when a guard cannot be set at boot, recovery ends and systemd starts the unit all
  the same; one that was off before the update still runs after `rolled_back`. `ServicesBack` allows those units,
  `ServicesAsBefore` fails by it without any restart list (`MCUpdateGuard.cfg`).
* `flash_protocol.py:2213`: a .wbfw block that failed three times is skipped and the job still ends `done`, which
  the function's own comment says; line 125 says of the other images that a skipped block spoils them.
  `WholeFirmware` fails by it (`MCFlasherHole.cfg`); `Reported` counts such a module as written.
* `/status` and `/health` of the flasher take the lock file for a moment; a job that asks in that moment
  fails as if the port were in use. A cancelled single flash ends `error`, not `cancelled`. `irreversible`
  stays set for the rest of a batch, so the pause between two modules cannot be cut short
  (`runner.py:1344` says it can).
* `store.take_notify` and `Journal.flush` read, change and save the journal without a lock, so drained
  notifications may come back (`cloud-scenarios.md:127`).
* Two scenarios that set each other's mode on the presence event of the other recurse without a bound
  (`engine.py:649`); the error is swallowed with the runs' end timers.
* A run that re-enters its own scenario through a mode change leaves two continuations or end timers,
  although "a re-trigger supersedes" (`engine.py:1187`).

* `serial_gateway.py:1249`: a reload in which one port fails to stop ends the daemon (the `try` starts
  after `_stop_ports`); systemd starts it again after 10 s.
* `serial_gateway.py:1019`: a transparent client that does not read holds `_cli_lock` in `drain`; other clients get
  nothing and none can join. `write_raw` (620) discards what has arrived and was not yet read.
* `serial_gateway.py:1224`: the watchdog is not fed during `_start_ports` and `_stop_ports`; a coordinator that
  does not answer costs each port ten retries.

## Not modelled

Modbus framing and timing, register maps, package validation and signatures, migrations, the
imaging lock and the hardware watchdog, the hand-over of the runner between cgroups, the health
probes (they pass or fail), the online download, peer credentials and inode checks of the broker's
socket; the death of the flasher daemon, register writes of a configuration session, the firmware
cache; logic templates, the code sandbox, ramps, toggles, hold times, the button classifier and the
journal of the rules engine; framing, access lists, statistics and status file of the serial gateway; the Alice device registry and the conversion of its values; and the
components the plan has not reached. Clocks appear only as timeouts that may
happen at any time.
