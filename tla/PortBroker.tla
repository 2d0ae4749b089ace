----------------------------- MODULE PortBroker -----------------------------
(***************************************************************************)
(* The RS-485 port coordinator (opt/sa02m-port-coordinator): the broker    *)
(* that hands out one exclusive lease per physical UART, its durable       *)
(* journal, the clients that hold a lease, the bridge pollers that open    *)
(* the UART without one, the services it stops and restores, the guards    *)
(* it issues to service helpers, and the updater's maintenance gate.       *)
(*                                                                         *)
(* One broker mutex serialises acquire, release and recover, so the        *)
(* broker's thread of control is one program counter (pc, cur, curU and    *)
(* the sets still to be visited).  `phase' and `obl' are the journal: each *)
(* change is saved with fsync before the next statement, and a failed save *)
(* ends the process, so a change and its save are one step.  The rest of   *)
(* the broker's memory is lost by BrokerCrash.                             *)
(***************************************************************************)
EXTENDS Naturals, FiniteSets

CONSTANTS
    Session,      \* lease connections; one connection is one token
    Port,         \* configured port names, /dev/COM1 ... /dev/COM5
    Device,       \* character devices (major-minor keys)
    Service,      \* units of the pause allowlist
    Mqtt,         \* sa02m-modbus-mqtt.service, never part of a scope
    Poller,       \* handles of the bridge pool
    None,         \* no session or unit
    Key,          \* Key[p]: the device behind a port name (aliases share it)
    Scope,        \* Scope[p]: the units configured for the port
    Target,       \* Target[s]: the port a session asks for
    Line,         \* Line[q]: the port a pooled handle polls
    ChildTool,    \* sessions that drive the UART through an external child
    SlowUnit,     \* units whose start may outlast systemctl's 25 s timeout
    Intruder,     \* devices an unmanaged process may open
    MutableUnit,  \* units a service helper may ask to change
    Updates,      \* whether updates are installed
    MaxCrash      \* how often the broker may die

Unit == Service \cup {Mqtt}

ASSUME ConfigAssumption ==
    /\ Key \in [Port -> Device]
    /\ Scope \in [Port -> SUBSET Service]
    /\ Target \in [Session -> Port]
    /\ Line \in [Poller -> Port]
    /\ Mqtt \notin Service
    /\ None \notin Session /\ None \notin Service
    /\ ChildTool \subseteq Session
    /\ SlowUnit \subseteq Service
    /\ Intruder \subseteq Device
    /\ MutableUnit \subseteq Unit
    /\ Updates \in BOOLEAN
    /\ MaxCrash \in Nat

VARIABLES
    phase,     \* journal: phase of each lease, "none" when there is none
    obl,       \* journal: restoration obligation of each service
    up,        \* the broker process runs
    conn,      \* Broker.connected
    brokerFd,  \* Broker.fds: the broker's copy of the device lock
    holds,     \* Broker.holds: open bridge-pause connections
    pc, cur, curU, todo, todoS,  \* the thread that owns Broker.mutex
    gateSH,    \* an acquire holds maintenance.lock shared
    cl,        \* each client: new, wait, left, held, closing, gone
    clientFd,  \* sessions whose client holds a copy of the device lock
    sUart,     \* sessions on whose behalf the UART is open
    poll,      \* each handle of the bridge: off, asked, locked, verified, open
    unit,      \* systemd ActiveState
    vUart,     \* <<unit, device>>: descriptors a service has open
    foreign,   \* devices an unmanaged process has open
    guard,     \* units whose exclusive service lock a helper holds
    upd,       \* the updater: idle, gated, granted, marked
    marker,    \* /var/lib/sa02m-update/maintenance exists
    crashes,   \* broker deaths so far
    owed       \* history: units the broker stopped and that have not run since

journal == <<phase, obl>>
memory  == <<conn, brokerFd, holds>>
thread  == <<pc, cur, curU, todo, todoS, gateSH>>
clients == <<cl, clientFd, sUart>>
units   == <<unit, vUart, owed>>
others  == <<guard, upd, marker>>
world   == <<poll, foreign>>
vars == <<journal, up, memory, thread, clients, units, others, world, crashes>>

Dev(s) == Key[Target[s]]
ScopeOf(s) == Scope[Target[s]]

Leased(s)     == phase[s] # "none"
LeasedDev(d)  == \E s \in Session : Leased(s) /\ Dev(s) = d
Covered(u)    == \E s \in Session : Leased(s) /\ u \in ScopeOf(s)

\* Mutant: the lock lives only as long as the broker's own descriptor.
SessionLockBrokerOnly(s) == s \in brokerFd

\* A kernel flock belongs to the open file description: the broker's copy and
\* the client's copy of a transferred descriptor hold one and the same lock.
SessionLock(s) == s \in brokerFd \/ s \in clientFd
PollerLock(q)  == poll[q] \in {"locked", "verified", "open"}
LockFree(d) ==
    /\ \A s \in Session : Dev(s) = d => ~SessionLock(s)
    /\ \A q \in Poller : Key[Line[q]] = d => ~PollerLock(q)

\* occupants(device): somebody has the character device open.
Occupied(d) ==
    \/ \E s \in sUart : Dev(s) = d
    \/ \E q \in Poller : poll[q] = "open" /\ Key[Line[q]] = d
    \/ \E u \in Service : <<u, d>> \in vUart
    \/ d \in foreign

Init ==
    /\ phase = [s \in Session |-> "none"]
    /\ obl = [u \in Service |-> "none"]
    /\ up = TRUE
    /\ conn = {} /\ brokerFd = {} /\ holds = {}
    /\ pc = "idle" /\ cur = None /\ curU = None /\ todo = {} /\ todoS = {}
    /\ gateSH = FALSE
    /\ cl = [s \in Session |-> "new"] /\ clientFd = {} /\ sUart = {}
    /\ poll = [q \in Poller |-> "off"]
    /\ unit \in [Unit -> {"active", "inactive"}]
    /\ vUart = {} /\ foreign = {} /\ guard = {}
    /\ upd = "idle" /\ marker = FALSE
    /\ crashes = 0 /\ owed = {}

-----------------------------------------------------------------------------
(* The broker: acquire *)

MutexFree == up /\ pc = "idle"

\* The request is read but not served: its handler thread waits for the mutex.
\* It is served even when the client has stopped waiting.
Pending(s) == cl[s] \in {"wait", "left"} /\ phase[s] = "none"

\* Mutant: the guard of a helper is not tried.
AdmissibleUnguarded(s) ==
    upd = "idle" /\ ~marker /\ ~LeasedDev(Dev(s))

\* Mutant: the marker of an unfinished update is not looked at.
AdmissibleUnmarked(s) ==
    upd = "idle" /\ (ScopeOf(s) \cup {Mqtt}) \cap guard = {} /\ ~LeasedDev(Dev(s))

Admissible(s) ==
    /\ upd = "idle"                                 \* gate taken shared
    /\ (ScopeOf(s) \cup {Mqtt}) \cap guard = {}     \* service locks, shared
    /\ ~marker
    /\ ~LeasedDev(Dev(s))

\* The lease is journalled before anything is paused or stopped.
AcquireStart(s) ==
    /\ MutexFree /\ Pending(s) /\ Admissible(s)
    /\ phase' = [phase EXCEPT ![s] = "preparing"]
    /\ conn' = conn \cup {s}
    /\ gateSH' = TRUE
    /\ pc' = "pause" /\ cur' = s /\ todo' = ScopeOf(s)
    /\ UNCHANGED <<obl, up, brokerFd, holds, curU, todoS, clients, units, others,
                   world, crashes>>

AcquireRefuse(s) ==
    /\ up /\ Pending(s)
    /\ upd # "idle" \/ (pc = "idle" /\ ~Admissible(s))
    /\ cl' = [cl EXCEPT ![s] = "gone"]
    /\ UNCHANGED <<journal, up, memory, thread, clientFd, sUart, units, others,
                   world, crashes>>

\* mqtt_pause: an inactive bridge needs no pause.
PauseSkip ==
    /\ up /\ pc = "pause" /\ unit[Mqtt] = "inactive"
    /\ pc' = "stop"
    /\ UNCHANGED <<journal, up, memory, cur, curU, todo, todoS, gateSH, clients, units,
                   others, world, crashes>>

\* The acknowledged pause: every handle on the line is closed, which waits for
\* a handle whose PollLock.acquire is under way.
PauseAck ==
    /\ up /\ pc = "pause" /\ unit[Mqtt] = "active"
    /\ \A q \in Poller : Line[q] = Target[cur] => poll[q] \in {"off", "open"}
    /\ holds' = holds \cup {cur}
    /\ poll' = [q \in Poller |-> IF Line[q] = Target[cur] THEN "off" ELSE poll[q]]
    /\ pc' = "stop"
    /\ UNCHANGED <<journal, up, conn, brokerFd, cur, curU, todo, todoS, gateSH, clients,
                   units, others, foreign, crashes>>

\* The socket is not ready, the unit is changing, or the answer is not ok.
PauseFail ==
    /\ up /\ pc = "pause" /\ unit[Mqtt] # "inactive"
    /\ pc' = "abort"
    /\ UNCHANGED <<journal, up, memory, cur, curU, todo, todoS, gateSH, clients, units,
                   others, world, crashes>>

\* Mutant: a unit that does not run gets a restoration entry as well.
StopSkipJournals(u) ==
    /\ up /\ pc = "stop" /\ u \in todo
    /\ obl[u] # "none" \/ unit[u] = "inactive"
    /\ todo' = todo \ {u}
    /\ obl' = [obl EXCEPT ![u] = IF @ = "none" THEN "paused" ELSE @]
    /\ UNCHANGED <<phase, up, memory, pc, cur, curU, todoS, gateSH, clients, units,
                   others, world, crashes>>

\* A unit that already has an obligation, or does not run, is passed over.
StopSkip(u) ==
    /\ up /\ pc = "stop" /\ u \in todo
    /\ obl[u] # "none" \/ unit[u] = "inactive"
    /\ todo' = todo \ {u}
    /\ UNCHANGED <<journal, up, memory, pc, cur, curU, todoS, gateSH, clients, units,
                   others, world, crashes>>

\* Mutant: the obligation is written only after the stop.
StopJournalLate(u) ==
    /\ up /\ pc = "stop" /\ u \in todo
    /\ obl[u] = "none" /\ unit[u] = "active"
    /\ pc' = "stopissue" /\ curU' = u /\ todo' = todo \ {u}
    /\ UNCHANGED <<journal, up, memory, cur, todoS, gateSH, clients, units, others,
                   world, crashes>>

StopJournal(u) ==
    /\ up /\ pc = "stop" /\ u \in todo
    /\ obl[u] = "none" /\ unit[u] = "active"
    /\ obl' = [obl EXCEPT ![u] = "stopping"]
    /\ pc' = "stopissue" /\ curU' = u /\ todo' = todo \ {u}
    /\ UNCHANGED <<phase, up, memory, cur, todoS, gateSH, clients, units, others,
                   world, crashes>>

\* active() raises for a unit that is neither active nor inactive.
StopChanging(u) ==
    /\ up /\ pc = "stop" /\ u \in todo
    /\ obl[u] = "none" /\ unit[u] \notin {"active", "inactive"}
    /\ pc' = "abort"
    /\ UNCHANGED <<journal, up, memory, cur, curU, todo, todoS, gateSH, clients, units,
                   others, world, crashes>>

StopIssue ==
    /\ up /\ pc = "stopissue"
    /\ unit' = [unit EXCEPT ![curU] = "deactivating"]
    /\ owed' = owed \cup {curU}
    /\ pc' = "stopwait"
    /\ UNCHANGED <<journal, up, memory, cur, curU, todo, todoS, gateSH, clients, vUart,
                   others, world, crashes>>

StopDone ==
    /\ up /\ pc = "stopwait" /\ unit[curU] = "inactive"
    /\ obl' = [obl EXCEPT ![curU] = "paused"]
    /\ pc' = "stop" /\ curU' = None
    /\ UNCHANGED <<phase, up, memory, cur, todo, todoS, gateSH, clients, units, others,
                   world, crashes>>

\* systemctl stop ran into its timeout.
StopTimeout ==
    /\ up /\ pc = "stopwait" /\ unit[curU] = "deactivating"
    /\ pc' = "abort" /\ curU' = None
    /\ UNCHANGED <<journal, up, memory, cur, todo, todoS, gateSH, clients, units, others,
                   world, crashes>>

StopsDone ==
    /\ up /\ pc = "stop" /\ todo = {}
    /\ pc' = "sweep"
    /\ UNCHANGED <<journal, up, memory, cur, curU, todo, todoS, gateSH, clients, units,
                   others, world, crashes>>

\* One round of the 5 s owner sweep: the scan, then the lock.
SweepClear ==
    /\ up /\ pc = "sweep" /\ ~Occupied(Dev(cur))
    /\ pc' = "lock"
    /\ UNCHANGED <<journal, up, memory, cur, curU, todo, todoS, gateSH, clients, units,
                   others, world, crashes>>

\* Mutant: a device lock somebody else holds does not stop the grant.
SweepLockUnchecked ==
    /\ up /\ pc = "lock"
    /\ brokerFd' = brokerFd \cup {cur}
    /\ pc' = "confirm"
    /\ UNCHANGED <<journal, up, conn, holds, cur, curU, todo, todoS, gateSH, clients,
                   units, others, world, crashes>>

SweepLock ==
    /\ up /\ pc = "lock" /\ LockFree(Dev(cur))
    /\ brokerFd' = brokerFd \cup {cur}
    /\ pc' = "confirm"
    /\ UNCHANGED <<journal, up, conn, holds, cur, curU, todo, todoS, gateSH, clients,
                   units, others, world, crashes>>

SweepRetry ==
    /\ up /\ pc = "lock" /\ ~LockFree(Dev(cur))
    /\ pc' = "sweep"
    /\ UNCHANGED <<journal, up, memory, cur, curU, todo, todoS, gateSH, clients, units,
                   others, world, crashes>>

SweepTimeout ==
    /\ up
    /\ \/ pc = "sweep" /\ Occupied(Dev(cur))
       \/ pc = "lock" /\ ~LockFree(Dev(cur))
    /\ pc' = "abort"
    /\ UNCHANGED <<journal, up, memory, cur, curU, todo, todoS, gateSH, clients, units,
                   others, world, crashes>>

\* The second scan, under the lock.
ConfirmOwner ==
    /\ up /\ pc = "confirm" /\ ~Occupied(Dev(cur))
    /\ phase' = [phase EXCEPT ![cur] = "owned"]
    /\ pc' = "idle" /\ cur' = None /\ gateSH' = FALSE
    /\ UNCHANGED <<obl, up, memory, curU, todo, todoS, clients, units, others, world,
                   crashes>>

ConfirmFail ==
    /\ up /\ pc = "confirm" /\ Occupied(Dev(cur))
    /\ pc' = "abort"
    /\ UNCHANGED <<journal, up, memory, cur, curU, todo, todoS, gateSH, clients, units,
                   others, world, crashes>>

\* The reply carries the broker's descriptor to a client that still listens.
Reply(s) ==
    /\ up /\ s \in conn /\ phase[s] = "owned" /\ cl[s] = "wait" /\ s \in brokerFd
    /\ cl' = [cl EXCEPT ![s] = "held"]
    /\ clientFd' = clientFd \cup {s}
    /\ UNCHANGED <<journal, up, memory, thread, sUart, units, others, world, crashes>>

-----------------------------------------------------------------------------
(* The broker: release and recover *)

\* release(token) up to its forced recovery pass, which follows at once.
ReleaseToken(s) ==
    /\ conn' = conn \ {s}
    /\ brokerFd' = brokerFd \ {s}
    /\ phase' = [phase EXCEPT ![s] = "recovering"]
    /\ cl' = [cl EXCEPT ![s] = "gone"]
    /\ pc' = "rlease" /\ cur' = None /\ todo' = {}
    /\ todoS' = {t \in Session : phase'[t] # "none" /\ t \notin conn'}
    /\ UNCHANGED <<obl, up, holds, curU, clientFd, sUart, units, others, world, crashes>>

AcquireAbort ==
    /\ up /\ pc = "abort"
    /\ ReleaseToken(cur)
    /\ UNCHANGED gateSH

\* The connection of a granted lease ended, by a release request or by EOF.
Release(s) ==
    /\ MutexFree /\ s \in conn /\ phase[s] = "owned"
    /\ cl[s] \in {"left", "closing", "gone"}
    /\ ReleaseToken(s)
    /\ UNCHANGED gateSH

\* Mutant: the periodic pass runs only while a service waits for its restart.
RecoverTickServicesOnly ==
    /\ MutexFree /\ \E u \in Service : obl[u] # "none"
    /\ pc' = "rlease"
    /\ todoS' = {s \in Session : Leased(s) /\ s \notin conn}
    /\ UNCHANGED <<journal, up, memory, cur, curU, todo, gateSH, clients, units, others,
                   world, crashes>>

\* The recovery thread; a pass with nothing to do is left out.
RecoverTick ==
    /\ MutexFree
    /\ \/ \E s \in Session : Leased(s) /\ s \notin conn
       \/ \E u \in Service : obl[u] # "none"
    /\ pc' = "rlease"
    /\ todoS' = {s \in Session : Leased(s) /\ s \notin conn}
    /\ UNCHANGED <<journal, up, memory, cur, curU, todo, gateSH, clients, units, others,
                   world, crashes>>

\* Mutant: the pass trusts the lock alone and does not look for descriptors.
RecoverScanBlind(s) ==
    /\ up /\ pc = "rlease" /\ s \in todoS
    /\ todoS' = todoS \ {s} /\ pc' = "rlock" /\ cur' = s
    /\ UNCHANGED <<journal, up, memory, curU, todo, gateSH, clients, units, others,
                   world, crashes>>

RecoverScan(s) ==
    /\ up /\ pc = "rlease" /\ s \in todoS
    /\ todoS' = todoS \ {s}
    /\ IF Occupied(Dev(s)) THEN UNCHANGED <<pc, cur>>
                           ELSE pc' = "rlock" /\ cur' = s
    /\ UNCHANGED <<journal, up, memory, curU, todo, gateSH, clients, units, others,
                   world, crashes>>

RecoverDelete ==
    /\ up /\ pc = "rlock" /\ LockFree(Dev(cur))
    /\ phase' = [phase EXCEPT ![cur] = "none"]
    /\ holds' = holds \ {cur}
    /\ pc' = "rlease" /\ cur' = None
    /\ UNCHANGED <<obl, up, conn, brokerFd, curU, todo, todoS, gateSH, clients, units,
                   others, world, crashes>>

RecoverKeep ==
    /\ up /\ pc = "rlock" /\ ~LockFree(Dev(cur))
    /\ pc' = "rlease" /\ cur' = None
    /\ UNCHANGED <<journal, up, memory, curU, todo, todoS, gateSH, clients, units,
                   others, world, crashes>>

\* Mutant: an obligation is taken up only after a completed stop.
RecoverServicesPausedOnly ==
    /\ up /\ pc = "rlease" /\ todoS = {}
    /\ pc' = "rservice" /\ todo' = {u \in Service : obl[u] = "paused"}
    /\ UNCHANGED <<journal, up, memory, cur, curU, todoS, gateSH, clients, units, others,
                   world, crashes>>

RecoverServices ==
    /\ up /\ pc = "rlease" /\ todoS = {}
    /\ pc' = "rservice" /\ todo' = {u \in Service : obl[u] # "none"}
    /\ UNCHANGED <<journal, up, memory, cur, curU, todoS, gateSH, clients, units, others,
                   world, crashes>>

\* A unit some lease still depends on waits for the last of them.
RestoreSkip(u) ==
    /\ up /\ pc = "rservice" /\ u \in todo /\ Covered(u)
    /\ todo' = todo \ {u}
    /\ UNCHANGED <<journal, up, memory, pc, cur, curU, todoS, gateSH, clients, units,
                   others, world, crashes>>

\* No start is needed (the unit runs), or active() raises (it is changing).
RestoreNoStart(u) ==
    /\ up /\ pc = "rservice" /\ u \in todo /\ ~Covered(u) /\ unit[u] # "inactive"
    /\ obl' = [obl EXCEPT ![u] = IF unit[u] = "active" THEN "none" ELSE "restore_failed"]
    /\ todo' = todo \ {u}
    /\ UNCHANGED <<phase, up, memory, pc, cur, curU, todoS, gateSH, clients, units, others,
                   world, crashes>>

\* Mutant: the end of one operation starts a unit another still depends on.
RestoreStartCovered(u) ==
    /\ up /\ pc = "rservice" /\ u \in todo /\ unit[u] = "inactive"
    /\ unit' = [unit EXCEPT ![u] = "activating"]
    /\ pc' = "rstart" /\ curU' = u /\ todo' = todo \ {u}
    /\ UNCHANGED <<journal, up, memory, cur, todoS, gateSH, clients, vUart, owed, others,
                   world, crashes>>

RestoreStart(u) ==
    /\ up /\ pc = "rservice" /\ u \in todo /\ ~Covered(u) /\ unit[u] = "inactive"
    /\ unit' = [unit EXCEPT ![u] = "activating"]
    /\ pc' = "rstart" /\ curU' = u /\ todo' = todo \ {u}
    /\ UNCHANGED <<journal, up, memory, cur, todoS, gateSH, clients, vUart, owed, others,
                   world, crashes>>

RestoreDone ==
    /\ up /\ pc = "rstart" /\ unit[curU] = "active"
    /\ obl' = [obl EXCEPT ![curU] = "none"]
    /\ pc' = "rservice" /\ curU' = None
    /\ UNCHANGED <<phase, up, memory, cur, todo, todoS, gateSH, clients, units, others,
                   world, crashes>>

\* The unit failed to start, or is still activating when systemctl times out.
RestoreFail ==
    /\ up /\ pc = "rstart"
    /\ unit[curU] = "inactive" \/ (unit[curU] = "activating" /\ curU \in SlowUnit)
    /\ obl' = [obl EXCEPT ![curU] = "restore_failed"]
    /\ pc' = "rservice" /\ curU' = None
    /\ UNCHANGED <<phase, up, memory, cur, todo, todoS, gateSH, clients, units, others,
                   world, crashes>>

RecoverEnd ==
    /\ up /\ pc = "rservice" /\ todo = {}
    /\ pc' = "idle" /\ gateSH' = FALSE
    /\ UNCHANGED <<journal, up, memory, cur, curU, todo, todoS, clients, units, others,
                   world, crashes>>

-----------------------------------------------------------------------------
(* The broker dies (a failed save included) and systemd starts it again.   *)

BrokerCrash ==
    /\ up /\ crashes < MaxCrash
    /\ up' = FALSE /\ crashes' = crashes + 1
    /\ conn' = {} /\ brokerFd' = {} /\ holds' = {}
    /\ pc' = "idle" /\ cur' = None /\ curU' = None /\ todo' = {} /\ todoS' = {}
    /\ gateSH' = FALSE
    /\ cl' = [s \in Session |-> IF cl[s] \in {"wait", "left", "closing"} THEN "gone" ELSE cl[s]]
    /\ UNCHANGED <<journal, clientFd, sUart, units, others, world>>

BrokerRestart ==
    /\ ~up
    /\ up' = TRUE
    /\ UNCHANGED <<journal, memory, thread, clients, units, others, world, crashes>>

-----------------------------------------------------------------------------
(* Lease clients *)

ClientRequest(s) ==
    /\ cl[s] = "new"
    /\ cl' = [cl EXCEPT ![s] = IF up THEN "wait" ELSE "gone"]
    /\ UNCHANGED <<journal, up, memory, thread, clientFd, sUart, units, others, world,
                   crashes>>

\* The 45 s reply timeout, or the death of the waiting client.
ClientTimeout(s) ==
    /\ cl[s] = "wait"
    /\ cl' = [cl EXCEPT ![s] = "left"]
    /\ UNCHANGED <<journal, up, memory, thread, clientFd, sUart, units, others, world,
                   crashes>>

ClientOpen(s) ==
    /\ cl[s] = "held" /\ s \notin sUart
    /\ sUart' = sUart \cup {s}
    /\ UNCHANGED <<journal, up, memory, thread, cl, clientFd, units, others, world, crashes>>

ClientShut(s) ==
    /\ cl[s] = "held" /\ s \in sUart
    /\ sUart' = sUart \ {s}
    /\ UNCHANGED <<journal, up, memory, thread, cl, clientFd, units, others, world, crashes>>

\* Lease.close: the descriptor first, then the release request.
ClientClose(s) ==
    /\ cl[s] = "held" /\ s \notin sUart
    /\ clientFd' = clientFd \ {s}
    /\ cl' = [cl EXCEPT ![s] = IF s \in conn THEN "closing" ELSE "gone"]
    /\ UNCHANGED <<journal, up, memory, thread, sUart, units, others, world, crashes>>

\* SIGKILL; an external child keeps the UART it has open, but not the lock.
ClientDie(s) ==
    /\ cl[s] = "held"
    /\ cl' = [cl EXCEPT ![s] = "gone"]
    /\ clientFd' = clientFd \ {s}
    /\ sUart' = IF s \in ChildTool THEN sUart ELSE sUart \ {s}
    /\ UNCHANGED <<journal, up, memory, thread, units, others, world, crashes>>

OrphanExit(s) ==
    /\ cl[s] = "gone" /\ s \in sUart
    /\ sUart' = sUart \ {s}
    /\ UNCHANGED <<journal, up, memory, thread, cl, clientFd, units, others, world, crashes>>

-----------------------------------------------------------------------------
(* Bridge pollers: PollLock.acquire, then serial.Serial, in _ensure_open.  *)

PollAsk(q) ==
    /\ unit[Mqtt] = "active" /\ poll[q] = "off"
    /\ up /\ ~LeasedDev(Key[Line[q]])
    /\ poll' = [poll EXCEPT ![q] = "asked"]
    /\ UNCHANGED <<journal, up, memory, thread, clients, units, others, foreign, crashes>>

PollLock(q) ==
    /\ poll[q] = "asked"
    /\ poll' = [poll EXCEPT ![q] = IF LockFree(Key[Line[q]]) THEN "locked" ELSE "off"]
    /\ UNCHANGED <<journal, up, memory, thread, clients, units, others, foreign, crashes>>

PollRecheck(q) ==
    /\ poll[q] = "locked"
    /\ poll' = [poll EXCEPT ![q] =
                  IF up /\ ~LeasedDev(Key[Line[q]]) THEN "verified" ELSE "off"]
    /\ UNCHANGED <<journal, up, memory, thread, clients, units, others, foreign, crashes>>

PollOpen(q) ==
    /\ poll[q] = "verified"
    /\ poll' = [poll EXCEPT ![q] = "open"]
    /\ UNCHANGED <<journal, up, memory, thread, clients, units, others, foreign, crashes>>

\* A failed open, or close(): the UART first, then the lock.
PollClose(q) ==
    /\ poll[q] \in {"verified", "open"}
    /\ poll' = [poll EXCEPT ![q] = "off"]
    /\ UNCHANGED <<journal, up, memory, thread, clients, units, others, foreign, crashes>>

\* The bridge process is replaced; what it paused for the broker is forgotten.
BridgeRestart ==
    /\ unit[Mqtt] = "active"
    /\ poll' = [q \in Poller |-> "off"]
    /\ UNCHANGED <<journal, up, memory, thread, clients, units, others, foreign, crashes>>

-----------------------------------------------------------------------------
(* systemd, the services, unmanaged processes *)

UnitStarted(u) ==
    /\ unit[u] = "activating"
    /\ unit' = [unit EXCEPT ![u] = "active"]
    /\ owed' = owed \ {u}
    /\ UNCHANGED <<journal, up, memory, thread, clients, vUart, others, world, crashes>>

UnitStartFailed(u) ==
    /\ unit[u] = "activating"
    /\ unit' = [unit EXCEPT ![u] = "inactive"]
    /\ UNCHANGED <<journal, up, memory, thread, clients, vUart, owed, others, world,
                   crashes>>

UnitStopped(u) ==
    /\ unit[u] = "deactivating"
    /\ unit' = [unit EXCEPT ![u] = "inactive"]
    /\ vUart' = {x \in vUart : x[1] # u}
    /\ poll' = IF u = Mqtt THEN [q \in Poller |-> "off"] ELSE poll
    /\ UNCHANGED <<journal, up, memory, thread, clients, owed, others, foreign, crashes>>

\* A PLC runtime opens the ports it is configured for, and asks nobody.
ServiceOpen(u, p) ==
    /\ u \in Scope[p] /\ unit[u] = "active" /\ <<u, Key[p]>> \notin vUart
    /\ vUart' = vUart \cup {<<u, Key[p]>>}
    /\ UNCHANGED <<journal, up, memory, thread, clients, unit, owed, others, world, crashes>>

IntruderOpen(d) ==
    /\ d \in Intruder \ foreign
    /\ foreign' = foreign \cup {d}
    /\ UNCHANGED <<journal, up, memory, thread, clients, units, others, poll, crashes>>

IntruderClose(d) ==
    /\ d \in foreign
    /\ foreign' = foreign \ {d}
    /\ UNCHANGED <<journal, up, memory, thread, clients, units, others, poll, crashes>>

-----------------------------------------------------------------------------
(* Service helpers: the guard is the exclusive service lock.               *)

MutationGrant(g) ==
    /\ MutexFree /\ g \in MutableUnit \ guard
    /\ upd = "idle" /\ ~marker
    /\ IF g = Mqtt THEN \A s \in Session : ~Leased(s)
                   ELSE obl[g] = "none" /\ ~Covered(g)
    /\ guard' = guard \cup {g}
    /\ UNCHANGED <<journal, up, memory, thread, clients, units, upd, marker, world, crashes>>

MutationStart(g) ==
    /\ g \in guard /\ unit[g] = "inactive"
    /\ unit' = [unit EXCEPT ![g] = "activating"]
    /\ UNCHANGED <<journal, up, memory, thread, clients, vUart, owed, others, world, crashes>>

MutationStop(g) ==
    /\ g \in guard /\ unit[g] = "active"
    /\ unit' = [unit EXCEPT ![g] = "deactivating"]
    /\ UNCHANGED <<journal, up, memory, thread, clients, vUart, owed, others, world, crashes>>

\* The helper and its children end; a systemd job they queued may go on.
MutationEnd(g) ==
    /\ g \in guard
    /\ guard' = guard \ {g}
    /\ UNCHANGED <<journal, up, memory, thread, clients, units, upd, marker, world, crashes>>

-----------------------------------------------------------------------------
(* The updater: acquire_port_maintenance, the durable marker, the end.     *)

UpdateGate ==
    /\ Updates /\ upd = "idle" /\ ~gateSH /\ ~marker
    /\ upd' = "gated"
    /\ UNCHANGED <<journal, up, memory, thread, clients, units, guard, marker, world, crashes>>

\* assert_idle under the mutex, with every service lock tried shared.
Quiet ==
    /\ \A s \in Session : ~Leased(s)
    /\ \A u \in Service : obl[u] = "none"
    /\ guard = {}

UpdateGrant ==
    /\ MutexFree /\ upd = "gated"
    /\ upd' = IF Quiet THEN "granted" ELSE "idle"
    /\ UNCHANGED <<journal, up, memory, thread, clients, units, guard, marker, world, crashes>>

UpdateMark ==
    /\ upd = "granted"
    /\ upd' = "marked" /\ marker' = TRUE
    /\ UNCHANGED <<journal, up, memory, thread, clients, units, guard, world, crashes>>

UpdateEnd ==
    /\ upd = "marked"
    /\ upd' = "idle" /\ marker' = FALSE
    /\ UNCHANGED <<journal, up, memory, thread, clients, units, guard, world, crashes>>

\* The runner dies: the kernel drops the gate, the marker stays.
UpdateDie ==
    /\ upd # "idle"
    /\ upd' = "idle"
    /\ UNCHANGED <<journal, up, memory, thread, clients, units, guard, marker, world, crashes>>

\* Recovery takes the gate again; at boot it does not ask the broker.
UpdateRecover ==
    /\ upd = "idle" /\ marker /\ ~gateSH
    /\ upd' = "marked"
    /\ UNCHANGED <<journal, up, memory, thread, clients, units, guard, marker, world, crashes>>

-----------------------------------------------------------------------------
Acquire ==
    \/ \E s \in Session : AcquireStart(s) \/ AcquireRefuse(s) \/ Reply(s)
    \/ PauseSkip \/ PauseAck \/ PauseFail
    \/ \E u \in Service : StopSkip(u) \/ StopJournal(u) \/ StopChanging(u)
    \/ StopIssue \/ StopDone \/ StopTimeout \/ StopsDone
    \/ SweepClear \/ SweepLock \/ SweepRetry \/ SweepTimeout
    \/ ConfirmOwner \/ ConfirmFail \/ AcquireAbort

Recover ==
    \/ \E s \in Session : Release(s) \/ RecoverScan(s)
    \/ RecoverTick \/ RecoverDelete \/ RecoverKeep \/ RecoverServices
    \/ \E u \in Service : RestoreSkip(u) \/ RestoreNoStart(u) \/ RestoreStart(u)
    \/ RestoreDone \/ RestoreFail \/ RecoverEnd

Client ==
    \E s \in Session :
        \/ ClientRequest(s) \/ ClientTimeout(s) \/ ClientOpen(s) \/ ClientShut(s)
        \/ ClientClose(s) \/ ClientDie(s) \/ OrphanExit(s)

Bridge ==
    \/ \E q \in Poller : PollAsk(q) \/ PollLock(q) \/ PollRecheck(q)
                         \/ PollOpen(q) \/ PollClose(q)
    \/ BridgeRestart

Systemd ==
    \/ \E u \in Unit : UnitStarted(u) \/ UnitStartFailed(u) \/ UnitStopped(u)
    \/ \E u \in Service, p \in Port : ServiceOpen(u, p)
    \/ \E d \in Device : IntruderOpen(d) \/ IntruderClose(d)

Mutation == \E g \in Unit : MutationGrant(g) \/ MutationStart(g)
                            \/ MutationStop(g) \/ MutationEnd(g)

Update == UpdateGate \/ UpdateGrant \/ UpdateMark \/ UpdateEnd \/ UpdateDie
          \/ UpdateRecover

Next == Acquire \/ Recover \/ BrokerCrash \/ BrokerRestart \/ Client \/ Bridge
        \/ Systemd \/ Mutation \/ Update

Spec == Init /\ [][Next]_vars

-----------------------------------------------------------------------------
(* Fairness.  systemd restarts the broker; its threads run; a client ends   *)
(* its operation, a child tool and an unmanaged process exit; a stop job    *)
(* ends; a unit that is started again and again comes up at last.           *)

Fairness ==
    /\ WF_vars(BrokerRestart)
    /\ WF_vars(Acquire)
    /\ WF_vars(Recover)
    /\ \A s \in Session :
        /\ WF_vars(Reply(s)) /\ SF_vars(Release(s))
        /\ SF_vars(ClientClose(s)) /\ WF_vars(ClientShut(s)) /\ WF_vars(OrphanExit(s))
    /\ \A q \in Poller : WF_vars(PollLock(q) \/ PollRecheck(q) \/ PollOpen(q))
    /\ \A u \in Unit : WF_vars(UnitStopped(u)) /\ SF_vars(UnitStarted(u))
    /\ \A d \in Device : WF_vars(IntruderClose(d))

FairSpec == Spec /\ Fairness

-----------------------------------------------------------------------------
(* Properties *)

Phase == {"none", "preparing", "owned", "recovering"}
Obligation == {"none", "stopping", "paused", "restore_failed"}
UnitState == {"active", "inactive", "activating", "deactivating"}
PC == {"idle", "pause", "stop", "stopissue", "stopwait", "sweep", "lock", "confirm",
       "abort", "rlease", "rlock", "rservice", "rstart"}

\* Every variable has its type: the journal holds only the phases that reload
\* and recover know, for leases of configured ports and allowlisted services.
TypeOK ==
    /\ phase \in [Session -> Phase] /\ obl \in [Service -> Obligation]
    /\ up \in BOOLEAN /\ gateSH \in BOOLEAN /\ marker \in BOOLEAN
    /\ conn \subseteq Session /\ brokerFd \subseteq Session /\ holds \subseteq Session
    /\ clientFd \subseteq Session /\ sUart \subseteq Session
    /\ pc \in PC /\ cur \in Session \cup {None} /\ curU \in Service \cup {None}
    /\ todo \subseteq Service /\ todoS \subseteq Session
    /\ cl \in [Session -> {"new", "wait", "left", "held", "closing", "gone"}]
    /\ poll \in [Poller -> {"off", "asked", "locked", "verified", "open"}]
    /\ unit \in [Unit -> UnitState]
    /\ vUart \subseteq Service \X Device /\ foreign \subseteq Device
    /\ guard \subseteq Unit /\ upd \in {"idle", "gated", "granted", "marked"}
    /\ crashes \in Nat /\ owed \subseteq Service

\* The UART of a client that holds the transferred lock is open to nobody else
\* the coordinator manages: no other operation, no leftover child of an earlier
\* one and no bridge poller, whatever died or restarted before.
LeaseHolderExclusive ==
    \A s \in clientFd :
        /\ \A t \in sUart : Dev(t) = Dev(s) => t = s
        /\ \A q \in Poller : Key[Line[q]] = Dev(s) => poll[q] # "open"

\* The same for every open UART, the ones left to an orphaned child tool
\* included: a lease is dropped only when nothing it started has the UART open
\* (the comment at the recovery check promises this of external flash tools).
\* With such a tool it holds until the broker dies: the tool may then open the
\* UART between the scan of a recovery pass and the lock nobody else holds.
ManagedExclusive ==
    \A s \in sUart :
        /\ \A t \in sUart : Dev(t) = Dev(s) => t = s
        /\ \A q \in Poller : Key[Line[q]] = Dev(s) => poll[q] # "open"

\* No service the broker stopped is forgotten: until it runs again the journal
\* holds its obligation, through every abort, crash and restart.
NoLostObligation == \A u \in owed : obl[u] # "none"

\* A helper that holds a service guard changes a unit no lease depends on and
\* no restoration is due for; the bridge only while there is no lease at all.
MutationExclusive ==
    /\ \A u \in guard \cap Service : obl[u] = "none" /\ ~Covered(u)
    /\ Mqtt \in guard => \A s \in Session : ~Leased(s)

\* From the idle check to the removal of the marker an update sees no lease, no
\* obligation and no guarded mutation, also across the death of the runner.
MaintenanceExclusive == (upd \in {"granted", "marked"} \/ marker) => Quiet

\* The broker keeps a bridge line paused only for a lease that still exists.
HoldsCovered == \A s \in holds : Leased(s)

\* The units configured for a port do not run while an operation owns it.
ScopedServiceStopped ==
    \A s \in Session : phase[s] = "owned" =>
        \A u \in ScopeOf(s) : unit[u] # "active"

\* A unit is started only by the helper that guards it or because the broker
\* stopped it; a service that was not running is never started.
StartsOnlyWhatItStopped ==
    [][\A u \in Service : unit[u] = "inactive" /\ unit'[u] = "activating"
                          => u \in owed \/ u \in guard]_vars

\* A service or the bridge has the device open for as long as it likes.
KeptOpen(d) ==
    \/ \E u \in Service : <<u, d>> \in vUart
    \/ \E q \in Poller : poll[q] = "open" /\ Key[Line[q]] = d

\* A lease whose client is gone is dropped, unless a service or the bridge has
\* the UART open, which makes recovery keep the reservation.
LeaseDroppedWhenFree ==
    \A s \in Session : (cl[s] = "gone" /\ Leased(s)) ~> (~Leased(s) \/ KeptOpen(Dev(s)))

\* Every service the broker stopped runs again, unless such a kept reservation
\* depends on it.
ServiceRestored ==
    \A u \in Service : (u \in owed) ~>
        \/ unit[u] = "active"
        \/ \E s \in Session : Leased(s) /\ u \in ScopeOf(s) /\ KeptOpen(Dev(s))

\* A lease whose connection ended is dropped, as the client library counts on.
LeaseDropped == \A s \in Session : (cl[s] = "gone" /\ Leased(s)) ~> ~Leased(s)

\* The coordinator implements UartOwner: the holder of a UART is the client with
\* the transferred lock, the rest of the broker is the way to it.
Owner == INSTANCE UartOwner WITH
    Operation <- Session, Uart <- [s \in Session |-> Dev(s)],
    Handle <- Poller, Wire <- [q \in Poller |-> Key[Line[q]]],
    holders <- clientFd, tools <- sUart, polls <- {q \in Poller : poll[q] = "open"}

\* A UART is granted only when nobody the coordinator manages has it open, opened
\* by the holder alone, and polled only while it has none: every step of broker,
\* clients, bridge and systemd is a step of UartOwner.
OwnsUart == Owner!Spec
=============================================================================
