------------------------------- MODULE Flasher -------------------------------
(***************************************************************************)
(* The flasher daemon: JobManager and its worker threads, the handlers     *)
(* that cancel a job, reserve and give back the ports or open a            *)
(* configuration session, and the bootloader exchange by which a worker    *)
(* rewrites one module after another.  A UART is taken through the port    *)
(* coordinator (external here, PortBroker is its model), directly or       *)
(* through the reservation the "release ports" button holds.               *)
(***************************************************************************)
EXTENDS Integers

CONSTANTS
  Port, Job, Client,  \* UARTs, job ids, HTTP handler threads
  None,
  MaxTarget,          \* bound: modules of a batch
  MaxTry,             \* INFO_MAX_ATTEMPTS, APP_MAX_ERROR_COUNT, WB_MAX_ERROR_COUNT
  MaxMishap,          \* bound: lost exchanges, lock files probed, leases of other clients
  MaxRequest          \* bound: requests each handler thread serves

ASSUME FlasherAssumption ==
  /\ {MaxMishap, MaxRequest} \subseteq Nat /\ {MaxTarget, MaxTry} \subseteq Nat \ {0}
  /\ Job \cap Client = {} /\ {None, "manual", "other", "probe"} \cap (Job \cup Client) = {}
  /\ None \notin {"manual", "other", "probe"}

VARIABLES
  job,      \* each Job with what its worker keeps: see Jobs
  evt,      \* the jobs whose cancel event is set
  portJob,  \* _port_jobs
  manual,   \* the keys of _MANUAL_LEASES
  users,    \* _MANUAL_USERS
  lease,    \* the coordinator's lease of each UART
  flock,    \* the holder of each sa02m-flasher-<port>.lock
  client,   \* each handler thread
  lock,     \* the handler thread inside _LEASE_LOCK across coordinator calls
  cfgLock,  \* _config_port_locks
  mishaps   \* how many of them so far

ports == <<manual, users, lease>>
handlers == <<client, lock, cfgLock>>
vars == <<job, evt, portJob, ports, flock, handlers, mishaps>>

Target == 1 .. MaxTarget
Thread == Job \cup Client
Active == {"pending", "running"}
Ended == {"done", "cancelled", "error"}
Kinds == {"scan", "flash", "batch"}   \* the MS/TP jobs use the line as a scan does
OnLine == {"scan", "next", "enter", "info", "infoSend", "infoReply", "gate", "mark", "data", "jump"}
Inside == OnLine \cup {"unflock"}

\* kind, port, state, irreversible: the Job.  at: the worker's step; hold: how it
\* has the UART; raised: run_fn raised; n, try, gate: the current module, its
\* failed attempts, its FlashCancelGate; errs: the modules reported as failed;
\* dev: the firmware of each module, holed when a block of it is missing.
Jobs == [kind : Kinds, port : Port \cup {None}, state : {"none"} \cup Active \cup Ended,
         irreversible : BOOLEAN, at : {"idle", "start", "lease", "broker", "flock", "unlease",
         "finish", "free", "end"} \cup Inside, hold : {"no", "manual", "own"}, raised : BOOLEAN,
         n : 0 .. MaxTarget, try : 0 .. MaxTry, gate : BOOLEAN, errs : SUBSET Target,
         dev : [Target -> {"app", "boot", "erased", "new", "holed"}]]
Clients == [at : {"idle", "set", "release", "restore", "giving", "taking", "config", "port",
            "broker", "talk"}, job : Job \cup {None}, port : Port \cup {None}, todo : SUBSET Port,
            hold : {"no", "manual", "own"}, served : 0 .. MaxRequest]

TypeOK ==
  /\ job \in [Job -> Jobs] /\ evt \subseteq Job /\ portJob \in [Port -> Job \cup {None}]
  /\ manual \subseteq Port /\ users \in [Port -> 0 .. 1]
  /\ lease \in [Port -> Thread \cup {None, "manual", "other"}]
  /\ flock \in [Port -> Job \cup {None, "probe"}]
  /\ client \in [Client -> Clients] /\ lock \in Client \cup {None}
  /\ cfgLock \in [Port -> Client \cup {None}] /\ mishaps \in 0 .. MaxMishap

Init ==
  /\ job = [j \in Job |-> [kind |-> "scan", port |-> None, state |-> "none", irreversible |-> FALSE,
                           at |-> "idle", hold |-> "no", raised |-> FALSE, n |-> 0, try |-> 0,
                           gate |-> FALSE, errs |-> {}, dev |-> [t \in Target |-> "app"]]]
  /\ evt = {} /\ portJob = [p \in Port |-> None]
  /\ manual = {} /\ users = [p \in Port |-> 0] /\ lease = [p \in Port |-> None]
  /\ flock = [p \in Port |-> None] /\ lock = None /\ cfgLock = [p \in Port |-> None] /\ mishaps = 0
  /\ client = [c \in Client |-> [at |-> "idle", job |-> None, port |-> None, todo |-> {},
                                 hold |-> "no", served |-> 0]]

\* The worker of j moves on to step s.
Goes(j, s) == job' = [job EXCEPT ![j].at = s]
Mishap == mishaps < MaxMishap /\ mishaps' = mishaps + 1

-----------------------------------------------------------------------------
(* JobManager. *)

IsActive(j) == job[j].state \in Active

\* submit, from the scan, flash, batch and MS/TP handlers.
Submit(j, k, p) ==
  /\ job[j].state = "none"
  /\ portJob[p] # None => ~IsActive(portJob[p])
  /\ job' = [job EXCEPT ![j].kind = k, ![j].port = p, ![j].state = "pending", ![j].at = "start"]
  /\ portJob' = [portJob EXCEPT ![p] = j]
  /\ UNCHANGED <<evt, ports, flock, handlers, mishaps>>

\* _worker, to the call of run_fn.
Starts(j) ==
  /\ job[j].at = "start"
  /\ job' = [job EXCEPT ![j].state = "running", ![j].at = "lease"]
  /\ UNCHANGED <<evt, portJob, ports, flock, handlers, mishaps>>

\* run_fn returned or raised.
Finish(j) ==
  /\ job[j].at = "finish"
  /\ job' = [job EXCEPT ![j].at = "free",
                        ![j].state = IF job[j].raised THEN "error"
                                     ELSE IF j \in evt THEN "cancelled" ELSE "done"]
  /\ UNCHANGED <<evt, portJob, ports, flock, handlers, mishaps>>

\* Mutant: the port is freed whoever has it by now.
FreeAnyone(j) ==
  /\ job[j].at = "free" /\ Goes(j, "end")
  /\ portJob' = [portJob EXCEPT ![job[j].port] = None]
  /\ UNCHANGED <<evt, ports, flock, handlers, mishaps>>

\* The worker's finally; a job submitted since the state changed keeps the port.
Free(j) ==
  /\ job[j].at = "free" /\ Goes(j, "end")
  /\ portJob' = [portJob EXCEPT ![job[j].port] = IF @ = j THEN None ELSE @]
  /\ UNCHANGED <<evt, ports, flock, handlers, mishaps>>

-----------------------------------------------------------------------------
(* The UART: port_lease and _port_flock around run_fn. *)

\* port_lease on a reserved UART: one operation at a time.
TakeManual(p, ok, busy) ==
  \/ users[p] = 0 /\ ok /\ users' = [users EXCEPT ![p] = 1]
  \/ users[p] # 0 /\ busy /\ UNCHANGED users

\* The first half of port_lease, under _LEASE_LOCK.
TakeLease(j) ==
  LET p == job[j].port
  IN  /\ job[j].at = "lease" /\ lock = None
      /\ \/ p \in manual /\ TakeManual(p, job' = [job EXCEPT ![j].at = "flock", ![j].hold = "manual"],
                                          job' = [job EXCEPT ![j].at = "finish", ![j].raised = TRUE])
         \/ p \notin manual /\ Goes(j, "broker") /\ UNCHANGED users
      /\ UNCHANGED <<evt, portJob, manual, lease, flock, handlers, mishaps>>

\* Lease.__enter__: the coordinator gives the UART, or refuses it.
AskBroker(j) ==
  LET p == job[j].port
  IN  /\ job[j].at = "broker"
      /\ \/ /\ lease[p] = None /\ lease' = [lease EXCEPT ![p] = j]
            /\ job' = [job EXCEPT ![j].at = "flock", ![j].hold = "own"]
         \/ /\ lease[p] # None /\ UNCHANGED lease
            /\ job' = [job EXCEPT ![j].at = "finish", ![j].raised = TRUE]
      /\ UNCHANGED <<evt, portJob, manual, users, flock, handlers, mishaps>>

\* _port_flock does not wait: whoever has the file makes the job fail.
TakeFlock(j) ==
  LET p == job[j].port
  IN  /\ job[j].at = "flock"
      /\ \/ /\ flock[p] = None /\ flock' = [flock EXCEPT ![p] = j]
            /\ Goes(j, IF job[j].kind = "scan" THEN "scan" ELSE "next")
         \/ /\ flock[p] # None /\ UNCHANGED flock
            /\ job' = [job EXCEPT ![j].at = "unlease", ![j].raised = TRUE]
      /\ UNCHANGED <<evt, portJob, ports, handlers, mishaps>>

DropFlock(j) ==
  /\ job[j].at = "unflock" /\ Goes(j, "unlease")
  /\ flock' = [flock EXCEPT ![job[j].port] = None]
  /\ UNCHANGED <<evt, portJob, ports, handlers, mishaps>>

\* The end of port_lease; the count of a reservation changes under _LEASE_LOCK.
DropLease(j) ==
  LET p == job[j].port
  IN  /\ job[j].at = "unlease"
      /\ job' = [job EXCEPT ![j].at = "finish", ![j].hold = "no"]
      /\ \/ job[j].hold = "manual" /\ lock = None /\ users' = [users EXCEPT ![p] = 0] /\ UNCHANGED lease
         \/ job[j].hold = "own" /\ lease' = [lease EXCEPT ![p] = None] /\ UNCHANGED users
      /\ UNCHANGED <<evt, portJob, manual, flock, handlers, mishaps>>

-----------------------------------------------------------------------------
(* run_fn: the scan, and the bootloader session of one module after another. *)

lineOnly == <<evt, portJob, ports, flock, handlers>>

\* run_scan_job and the MS/TP jobs: the cancel event only ends scan_all sooner.
Scan(j) ==
  /\ job[j].at = "scan"
  /\ job' = [job EXCEPT ![j].at = "unflock"]
  /\ UNCHANGED <<lineOnly, mishaps>>

\* Mutant: a module whose session failed is skipped without a report.
FailsSilently(r) == [r EXCEPT !.at = IF r.kind = "batch" THEN "next" ELSE "unflock",
                              !.raised = r.kind # "batch", !.gate = FALSE, !.try = 0]

\* The session of the current module returned an error.
Fails(r) == [r EXCEPT !.at = IF r.kind = "batch" THEN "next" ELSE "unflock",
                      !.raised = r.kind # "batch", !.gate = FALSE, !.try = 0,
                      !.errs = IF r.kind = "batch" THEN @ \cup {r.n} ELSE @]

\* Mutant: a failed attempt is not counted.
AgainForever(r, s) == [r EXCEPT !.at = s]

\* One more attempt at step s, or the session fails.
Again(r, s) == IF r.try + 1 < MaxTry THEN [r EXCEPT !.try = @ + 1, !.at = s] ELSE Fails(r)

\* FlashCancelGate.should_abort
ShouldAbort(j) == j \in evt /\ ~job[j].gate

\* A single flash has one module and does not look at the event before it.
Last(j) == IF job[j].kind = "batch" THEN MaxTarget ELSE 1
Stopped(j) == job[j].kind = "batch" /\ j \in evt

\* The head of the batch loop, the settle between two modules included.
NextModule(j) ==
  /\ job[j].at = "next"
  /\ \/ (job[j].n = Last(j) \/ Stopped(j)) /\ Goes(j, "unflock")
     \/ /\ job[j].n < Last(j) /\ ~ Stopped(j)
        /\ job' = [job EXCEPT ![j].n = @ + 1, ![j].at = "enter"]
  /\ UNCHANGED <<lineOnly, mishaps>>

\* Register 129: a timeout is taken for the reset, an exception ends the session.
Enter(j) ==
  /\ job[j].at = "enter"
  /\ \/ /\ j \notin evt /\ UNCHANGED mishaps
        /\ job' = [job EXCEPT ![j].at = "info", ![j].dev[job[j].n] = "boot"]
     \/ j \in evt /\ Goes(j, "info") /\ UNCHANGED mishaps
     \/ Mishap /\ job' \in {[job EXCEPT ![j].at = "info"], [job EXCEPT ![j] = Fails(@)]}
  /\ UNCHANGED lineOnly

\* The head of an attempt at the info block.
InfoCheck(j) ==
  /\ job[j].at = "info"
  /\ job' = [job EXCEPT ![j] = IF ShouldAbort(j) THEN Fails(@) ELSE [@ EXCEPT !.at = "infoSend"]]
  /\ UNCHANGED <<lineOnly, mishaps>>

\* The request leaves, unless the event is set; a bootloader that gets it erases.
InfoSend(j) ==
  /\ job[j].at = "infoSend"
  /\ \/ /\ j \notin evt /\ UNCHANGED mishaps
        /\ job' = [job EXCEPT ![j].at = "infoReply",
                              ![j].dev[job[j].n] = IF @ = "app" THEN @ ELSE "erased"]
     \/ j \in evt /\ job' = [job EXCEPT ![j] = Again(@, "info")] /\ UNCHANGED mishaps
     \/ Mishap /\ job' = [job EXCEPT ![j] = Again(@, "info")]
  /\ UNCHANGED lineOnly

\* The reply; waiting for it ends when the event is set.
InfoReply(j) ==
  /\ job[j].at = "infoReply"
  /\ \/ /\ j \notin evt /\ job[j].dev[job[j].n] = "erased" /\ UNCHANGED mishaps
        /\ job' = [job EXCEPT ![j].at = "gate", ![j].try = 0]
     \/ /\ j \in evt \/ job[j].dev[job[j].n] = "app"
        /\ job' = [job EXCEPT ![j] = Again(@, "info")] /\ UNCHANGED mishaps
     \/ Mishap /\ job' = [job EXCEPT ![j] = Again(@, "info")]
  /\ UNCHANGED lineOnly

\* mark_irreversible of the gate ...
MarkGate(j) ==
  /\ job[j].at = "gate" /\ job' = [job EXCEPT ![j].at = "mark", ![j].gate = TRUE]
  /\ UNCHANGED <<lineOnly, mishaps>>

\* ... and of the JobManager, which its callback reaches.
MarkJob(j) ==
  /\ job[j].at = "mark" /\ job' = [job EXCEPT ![j].at = "data", ![j].irreversible = TRUE]
  /\ UNCHANGED <<lineOnly, mishaps>>

\* run_flash_sequence_wb goes on without the block.
Skips(r) == [r EXCEPT !.at = "jump", !.try = 0, !.dev[r.n] = "holed"]

\* One attempt at a block is lost, or all of them: then a .wbfw skips the block, or
\* fails after six errors in a row, and any other image fails.
BlockFails(r) == {Again(r, "data"), Fails(r), Skips(r)}

\* The wait for the erase and the data blocks: the transport drops every frame
\* once the event is set.
Data(j) ==
  /\ job[j].at = "data"
  /\ \/ /\ j \notin evt /\ UNCHANGED mishaps
        /\ job' = [job EXCEPT ![j].at = "jump", ![j].try = 0, ![j].dev[job[j].n] = "new"]
     \/ /\ j \in evt /\ UNCHANGED mishaps
        /\ \E r \in IF ShouldAbort(j) THEN {Fails(job[j])} ELSE BlockFails(job[j]) :
              job' = [job EXCEPT ![j] = r]
     \/ Mishap /\ \E r \in BlockFails(job[j]) : job' = [job EXCEPT ![j] = r]
  /\ UNCHANGED lineOnly

\* The jump to the application: its error counts by address and for a .wbfw, not
\* by serial number; a bootloader needs none.
Jump(j) ==
  /\ job[j].at = "jump"
  /\ \/ /\ j \notin evt \/ job[j].dev[job[j].n] # "holed"
        /\ job' = [job EXCEPT ![j].at = "next", ![j].gate = FALSE] /\ UNCHANGED mishaps
     \/ j \in evt /\ job' = [job EXCEPT ![j] = Fails(@)] /\ UNCHANGED mishaps
     \/ Mishap /\ job' = [job EXCEPT ![j] = Fails(@)]
  /\ UNCHANGED lineOnly

Worker(j) ==
  \/ Starts(j) \/ TakeLease(j) \/ AskBroker(j) \/ TakeFlock(j)
  \/ Scan(j) \/ NextModule(j) \/ Enter(j) \/ InfoCheck(j) \/ InfoSend(j) \/ InfoReply(j)
  \/ MarkGate(j) \/ MarkJob(j) \/ Data(j) \/ Jump(j)
  \/ DropFlock(j) \/ DropLease(j) \/ Finish(j) \/ Free(j)

-----------------------------------------------------------------------------
(* The handlers. *)

Serves(c) == client[c].at = "idle" /\ client[c].served < MaxRequest
Begins(c, s, p, j) ==
  client' = [client EXCEPT ![c].at = s, ![c].port = p, ![c].job = j, ![c].served = @ + 1]
Answered(r) == [r EXCEPT !.at = "idle", !.port = None, !.job = None, !.todo = {}, !.hold = "no"]
Answers(c) == client' = [client EXCEPT ![c] = Answered(@)]

\* _handle_cancel and the half of cancel that is under the lock ...
CancelCheck(c, j) ==
  /\ Serves(c) /\ job[j].state # "none" /\ ~job[j].irreversible
  /\ Begins(c, "set", None, j)
  /\ UNCHANGED <<job, evt, portJob, ports, flock, lock, cfgLock, mishaps>>

\* ... and evt.set(), after it.
CancelSet(c) ==
  /\ client[c].at = "set" /\ evt' = evt \cup {client[c].job} /\ Answers(c)
  /\ UNCHANGED <<job, portJob, ports, flock, lock, cfgLock, mishaps>>

\* _guard_no_active_flasher_job
NoActiveJob(p) ==
  /\ \A q \in Port : portJob[q] # None => ~IsActive(portJob[q])
  /\ portJob[p] = None

\* The handlers that release or restore the ports, or configure a module, pass the guard.
Request(c, s, p) ==
  /\ Serves(c) /\ NoActiveJob(p) /\ Begins(c, s, p, None)
  /\ UNCHANGED <<job, evt, portJob, ports, flock, lock, cfgLock, mishaps>>

\* The lock is let go of when the loop has no port left.
Loops(c, s, rest) ==
  /\ client' = [client EXCEPT ![c] = IF rest = {} THEN Answered(@) ELSE [@ EXCEPT !.at = s, !.todo = rest]]
  /\ lock' = IF rest = {} THEN None ELSE c

\* release_pollers and restore_pollers take _LEASE_LOCK for the whole loop.
EnterLoop(c) ==
  /\ lock = None
  /\ \/ client[c].at = "release" /\ Loops(c, "taking", Port \ manual)
     \/ client[c].at = "restore" /\ Loops(c, "giving", manual)
  /\ UNCHANGED <<job, evt, portJob, ports, flock, cfgLock, mishaps>>

\* release_pollers: one UART is reserved, or cannot be.
Reserve(c, p) ==
  /\ client[c].at = "taking" /\ p \in client[c].todo /\ Loops(c, "taking", client[c].todo \ {p})
  /\ \/ /\ lease[p] = None
        /\ lease' = [lease EXCEPT ![p] = "manual"] /\ manual' = manual \cup {p}
     \/ lease[p] # None /\ UNCHANGED <<lease, manual>>
  /\ UNCHANGED <<job, evt, portJob, users, flock, cfgLock, mishaps>>

\* Mutant: the reservation is given back under the operation that uses it.
GiveBackUsed(c, p) ==
  /\ client[c].at = "giving" /\ p \in client[c].todo /\ Loops(c, "giving", client[c].todo \ {p})
  /\ lease' = [lease EXCEPT ![p] = None] /\ manual' = manual \ {p}
  /\ UNCHANGED <<job, evt, portJob, users, flock, cfgLock, mishaps>>

\* restore_pollers: a UART in use stays reserved.
GiveBack(c, p) ==
  /\ client[c].at = "giving" /\ p \in client[c].todo /\ Loops(c, "giving", client[c].todo \ {p})
  /\ \/ users[p] # 0 /\ UNCHANGED <<lease, manual>>
     \/ users[p] = 0 /\ lease' = [lease EXCEPT ![p] = None] /\ manual' = manual \ {p}
  /\ UNCHANGED <<job, evt, portJob, users, flock, cfgLock, mishaps>>

\* _run_device_config_modbus: the lock of its port ...
ConfigLock(c) ==
  LET p == client[c].port
  IN  /\ client[c].at = "config" /\ cfgLock[p] = None
      /\ cfgLock' = [cfgLock EXCEPT ![p] = c] /\ client' = [client EXCEPT ![c].at = "port"]
      /\ UNCHANGED <<job, evt, portJob, ports, flock, lock, mishaps>>

\* ... then the same port_lease as a job's ...
ConfigLease(c) ==
  LET p == client[c].port
  IN  /\ client[c].at = "port" /\ lock = None
      /\ \/ p \in manual /\ TakeManual(p,
              client' = [client EXCEPT ![c].at = "talk", ![c].hold = "manual"] /\ UNCHANGED cfgLock,
              Answers(c) /\ cfgLock' = [cfgLock EXCEPT ![p] = None])
         \/ p \notin manual /\ client' = [client EXCEPT ![c].at = "broker"] /\ UNCHANGED <<users, cfgLock>>
      /\ UNCHANGED <<job, evt, portJob, manual, lease, flock, lock, mishaps>>

ConfigBroker(c) ==
  LET p == client[c].port
  IN  /\ client[c].at = "broker"
      /\ \/ /\ lease[p] = None /\ lease' = [lease EXCEPT ![p] = c] /\ UNCHANGED cfgLock
            /\ client' = [client EXCEPT ![c].at = "talk", ![c].hold = "own"]
         \/ lease[p] # None /\ Answers(c) /\ cfgLock' = [cfgLock EXCEPT ![p] = None] /\ UNCHANGED lease
      /\ UNCHANGED <<job, evt, portJob, manual, users, flock, lock, mishaps>>

\* ... and its end, with or without an error of the module.
ConfigEnds(c) ==
  LET p == client[c].port
  IN  /\ client[c].at = "talk" /\ Answers(c) /\ cfgLock' = [cfgLock EXCEPT ![p] = None]
      /\ \/ client[c].hold = "manual" /\ lock = None /\ users' = [users EXCEPT ![p] = 0] /\ UNCHANGED lease
         \/ client[c].hold = "own" /\ lease' = [lease EXCEPT ![p] = None] /\ UNCHANGED users
      /\ UNCHANGED <<job, evt, portJob, manual, flock, lock, mishaps>>

Handler(c) ==
  \/ CancelSet(c) \/ EnterLoop(c) \/ ConfigLock(c) \/ ConfigLease(c) \/ ConfigBroker(c) \/ ConfigEnds(c)
  \/ \E p \in Port : Reserve(c, p) \/ GiveBack(c, p)

\* _poll_lock_held, behind /status and /health, tries each lock file and lets go.
ProbeTakes(p) ==
  /\ flock[p] = None /\ flock' = [flock EXCEPT ![p] = "probe"] /\ Mishap
  /\ UNCHANGED <<job, evt, portJob, ports, handlers>>
ProbeLeaves(p) ==
  /\ flock[p] = "probe" /\ flock' = [flock EXCEPT ![p] = None]
  /\ UNCHANGED <<job, evt, portJob, ports, handlers, mishaps>>

\* Another client of the coordinator has the UART for a while (external).
Other(p) ==
  /\ \/ lease[p] = None /\ lease' = [lease EXCEPT ![p] = "other"] /\ Mishap
     \/ lease[p] = "other" /\ lease' = [lease EXCEPT ![p] = None] /\ UNCHANGED mishaps
  /\ UNCHANGED <<job, evt, portJob, manual, users, flock, handlers>>

Next ==
  \/ \E j \in Job : Worker(j) \/ \E k \in Kinds, p \in Port : Submit(j, k, p)
  \/ \E c \in Client : \/ Handler(c)
                       \/ \E j \in Job : CancelCheck(c, j)
                       \/ \E s \in {"release", "restore", "config"}, p \in Port : Request(c, s, p)
  \/ \E p \in Port : ProbeTakes(p) \/ ProbeLeaves(p) \/ Other(p)

\* Worker and handler threads run; nobody has to send a request.
Fairness ==
  /\ \A j \in Job : WF_vars(Worker(j))
  /\ \A c \in Client : WF_vars(Handler(c))

Spec == Init /\ [][Next]_vars /\ Fairness

-----------------------------------------------------------------------------
(* Properties. *)

Talks(t, p) ==
  IF t \in Job THEN job[t].port = p /\ job[t].at \in OnLine
  ELSE client[t].port = p /\ client[t].at = "talk"

\* However jobs, configuration sessions and the release and restore buttons
\* meet, a UART has at most one talker of the flasher, and while it has one the
\* coordinator keeps the pollers off it: the lease is the talker's own, or the
\* reservation it is counted in (port_lease, restore_pollers).
OneTalker ==
  \A p \in Port : \A t \in Thread :
    Talks(t, p) =>
      /\ \A u \in Thread : Talks(u, p) => u = t
      /\ lease[p] = t \/ (lease[p] = "manual" /\ p \in manual /\ users[p] = 1)

\* any_active_job and submit see every job that is not over: a worker's late
\* cleanup never takes the port from the job submitted after it.
ActiveRegistered == \A j \in Job : IsActive(j) => portJob[job[j].port] = j

\* A job never hides a module without its application: the job is an error, or
\* it names the module among its failures.  It is done only if every module it
\* does not name was sent the new firmware to its end, a .wbfw with the blocks
\* left out that run_flash_sequence_wb skips.
Reported ==
  \A j \in Job : job[j].state \in Ended =>
    \A t \in 1 .. Last(j) :
      /\ job[j].dev[t] = "erased" => job[j].state = "error" \/ t \in job[j].errs
      /\ job[j].state = "done" /\ job[j].kind # "scan" => job[j].dev[t] \in {"new", "holed"} \/ t \in job[j].errs

\* The same with the whole firmware: a module that misses a block is named.
WholeFirmware ==
  \A j \in Job : job[j].state = "done" =>
    \A t \in 1 .. Last(j) : job[j].dev[t] = "holed" => t \in job[j].errs

\* Every job comes to an end and gives its port back to the next one.
JobEnds == \A j \in Job : job[j].state = "pending" ~> (job[j].at = "end" /\ job[j].state \in Ended)

\* FlashCancelGate: after mark_irreversible a cancel request is only blocked.  On
\* a line that loses nothing, a module past that point gets its firmware.
CancelOnlyBlocked ==
  [][\A j \in Job : job[j].gate /\ ~job'[j].gate /\ mishaps = 0 => job[j].dev[job[j].n] = "new"]_vars

Hold(t) == IF t \in Job THEN job[t].hold ELSE client[t].hold
PortOf(t) == IF t \in Job THEN job[t].port ELSE client[t].port

\* The flasher implements UartOwner for its threads: an operation is one thread, or
\* another client of the coordinator, on one UART.
User == (Thread \cup {"other"}) \X Port
Owner == INSTANCE UartOwner WITH
  Operation <- User, Uart <- [x \in User |-> x[2]], Handle <- {}, Wire <- <<>>, polls <- {},
  holders <- {x \in User : IF x[1] = "other" THEN lease[x[2]] = "other"
                           ELSE PortOf(x[1]) = x[2] /\ Hold(x[1]) # "no"},
  tools <- {x \in User : x[1] # "other" /\ Talks(x[1], x[2])}

\* Through port_lease, the reservation and the lock file a UART changes hands as
\* the coordinator promises: every step of the flasher is a step of UartOwner.
TakesUart == Owner!Spec
=============================================================================
