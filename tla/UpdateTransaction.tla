--------------------------- MODULE UpdateTransaction ---------------------------
(***************************************************************************)
(* One web update of the board: the privileged controller that accepts the *)
(* operator's requests (opt/sa02m-update/lib/control.py), the runner that  *)
(* carries the transaction out (etc/sa02m-update-runner.sh: apply, recover *)
(* at boot, reclaim at run time, verify after boot) and the state they     *)
(* share on disk: transaction.json, the maintenance marker, the cancel     *)
(* file, the staging directory with its rollback journal, the rollback     *)
(* archive and the installed files themselves.                             *)
(*                                                                         *)
(* update.lock lets one runner work at a time, so one command (cmd) and    *)
(* one program counter (pc) describe it.  The controller runs beside it:   *)
(* only control.lock orders the two.  At any step the power may go, the    *)
(* runner may be killed, or a step may fail; the three share one budget,   *)
(* MaxMishap.  The content of a file is a number: 0 when it does not       *)
(* exist, 1 as the board was delivered, t + 1 as transaction t writes it.  *)
(***************************************************************************)
EXTENDS Naturals

CONSTANTS
    Deploy,       \* manifest deploy[]: files the package installs
    Stamp,        \* the runner's version stamp, written after the deploy list
    Delete,       \* manifest delete[]: files the package removes
    Same,         \* deployed files the package ships unchanged
    Present,      \* files on the board before the first update
    VersionFile,  \* the VERSION file, one of Deploy
    Unit,         \* the coordinator and the three UART services
    Enabled,      \* those of them systemd starts at boot
    Restart,      \* those of them in the manifest's services.restart
    None,         \* a key that is not there
    MaxTxn,       \* bound: transactions of one behaviour
    MaxMishap,    \* bound: power losses, kills and failed steps together
    StagingVanishes  \* whether a power loss may take the staging directory

File == Deploy \cup Stamp \cup Delete

ASSUME FileAssumption ==
    /\ Same \subseteq Deploy \cap Present
    /\ Present \subseteq File
    /\ VersionFile \in Deploy
    /\ Deploy \cap Delete = {} /\ Stamp \cap (Deploy \cup Delete) = {}
ASSUME UnitAssumption == Enabled \subseteq Unit /\ Restart \subseteq Unit
ASSUME NoneAssumption == None \notin File \cup Nat
ASSUME BoundAssumption == MaxTxn \in Nat /\ MaxMishap \in Nat /\ StagingVanishes \in BOOLEAN

VARIABLES
    \* transaction.json
    stage, txn,
    counted,                \* files_done = files_total, and some were to do
    rollback_archive,       \* None, or the content saved of each file (None: not saved)
    port_services,          \* None, or the units that were active
    port_restore_pending,
    \* the rest of /var/lib/sa02m-update, and the installed files
    marker,                 \* the maintenance file, as processes see it
    markerDisk,             \* the same, as a power loss would leave it
    cancel,                 \* the cancel file
    staging,                \* staging/<txn> holds the manifest
    journal,                \* per file: None, or the content its backup holds
    deployed,               \* state/deployed_version
    tree,                   \* the installed files
    \* the runner
    cmd, pc,
    todo,                   \* files left in the loop that is running
    cur,                    \* the file journalled and about to be written
    failed,                 \* rollback_from_journal's `incomplete'
    \* the controller and systemd
    ctl,                    \* where the controller is, control.lock held unless idle
    queued,                 \* runner units systemd has still to start
    booting,                \* "recover", "units" or "no"
    svc,                    \* active units
    guard,                  \* units boot recovery keeps from starting
    \* history
    base,                   \* tree when the transaction was created
    accepted,               \* transactions whose cancellation was accepted
    unguarded,              \* units this boot's recovery failed to keep from starting
    mishaps

record  == <<txn, counted, rollback_archive, port_services, port_restore_pending>>
disk    == <<staging, journal, deployed, tree>>
locals  == <<todo, cur, failed>>
systemd == <<queued, booting, svc, guard>>
user    == <<ctl, cancel, accepted, base, unguarded>>
vars    == <<stage, record, marker, markerDisk, disk, cmd, pc, locals, systemd,
             user, mishaps>>

--------------------------------------------------------------------------------
Terminal == {"idle", "done", "error", "rolled_back", "cancelled"}
Early    == {"uploaded", "validating", "backing_up"}
Touched  == {"applying", "verifying", "committing", "rolling_back"}
Stages   == Terminal \cup Early \cup Touched

EarlyPc == {"begin", "extract", "excludes", "archive", "border"}
LoopPc  == {"deploy", "late"}
StepPc  == {"snapshot", "stop", "restart", "health"} \cup LoopPc
Pcs     == EarlyPc \cup StepPc \cup
           {"idle", "marked", "dying", "commit", "committed", "cleanup",
            "rollback", "restore", "rbunits", "conclude", "unmarked",
            "recover", "verify", "vunits"}

Content == 0 .. MaxTxn + 1

\* What the package of the running transaction leaves of a file.
Goal(f) == IF f \in Delete THEN 0 ELSE IF f \in Same THEN 1 ELSE txn + 1

NoLines == [f \in File |-> None]
Logged  == {f \in File : journal[f] # None}
Saved   == {f \in File : rollback_archive[f] # None}

\* txn_patch: the new transaction.json is renamed into place and its directory
\* synced, which also makes an earlier unlink of the marker durable.
txn_patch(s) == stage' = s /\ markerDisk' = marker

Exit == /\ cmd' = "none" /\ pc' = "idle"
        /\ todo' = {} /\ cur' = None /\ failed' = FALSE
Goto(l) == pc' = l /\ UNCHANGED cmd
Smooth  == UNCHANGED mishaps
Mishap  == mishaps < MaxMishap /\ mishaps' = mishaps + 1

--------------------------------------------------------------------------------
(* The controller.  The runner holds control.lock only at "marked".        *)

\* The controller takes update.lock without waiting.  A queued apply is started
\* at once and waits for the lock, so it gets it before the controller does.
UpdateLockFree == cmd = "none" /\ "apply" \notin queued

ControlFree == ctl = "idle" /\ pc # "marked" /\ booting = "no"
Busy == stage \notin Terminal \cup {"uploaded"}

\* What a new transaction.json holds (default_transaction), with its own id.
NewTxn(s) ==
    /\ txn < MaxTxn
    /\ txn' = txn + 1
    /\ txn_patch(s)
    /\ counted' = FALSE /\ rollback_archive' = None /\ port_services' = None
    /\ port_restore_pending' = FALSE
    /\ staging' = FALSE /\ journal' = NoLines
    /\ base' = tree /\ unguarded' = {}

\* Mutant: a board whose rollback stayed incomplete takes the next package.
CtlUploadUnmarked ==
    /\ ControlFree /\ UpdateLockFree /\ ~Busy
    /\ NewTxn("uploaded")
    /\ UNCHANGED <<marker, deployed, tree, cmd, pc, locals, systemd, ctl, cancel,
                   accepted, mishaps>>

CtlUpload ==
    /\ ControlFree /\ UpdateLockFree /\ ~Busy /\ ~marker
    /\ NewTxn("uploaded")
    /\ UNCHANGED <<marker, deployed, tree, cmd, pc, locals, systemd, ctl, cancel,
                   accepted, mishaps>>

\* A replacement upload that fails ends the package that was waiting.
CtlUploadFails ==
    /\ ControlFree /\ UpdateLockFree /\ ~marker
    /\ stage = "uploaded"
    /\ Mishap
    /\ txn_patch("error")
    /\ UNCHANGED <<record, marker, disk, cmd, pc, locals, systemd, user>>

\* Mutant: the cancel file of an earlier transaction stays.
CtlApplyKeepsCancel ==
    /\ ControlFree /\ UpdateLockFree /\ ~Busy /\ ~marker
    /\ NewTxn("validating")
    /\ ctl' = "saved"
    /\ UNCHANGED <<marker, deployed, tree, cmd, pc, locals, systemd, accepted, cancel, mishaps>>

\* The package was inspected: drop a stale cancel file, save the reservation.
CtlApply ==
    /\ ControlFree /\ UpdateLockFree /\ ~Busy /\ ~marker
    /\ NewTxn("validating")
    /\ cancel' = FALSE
    /\ ctl' = "saved"
    /\ UNCHANGED <<marker, deployed, tree, cmd, pc, locals, systemd, accepted, mishaps>>

CtlStart ==
    /\ ctl = "saved"
    /\ ctl' = "idle"
    /\ queued' = queued \cup {"apply"}
    /\ UNCHANGED <<stage, record, marker, markerDisk, disk, cmd, pc, locals, booting,
                   svc, guard, cancel, accepted, base, unguarded, mishaps>>

\* systemctl refuses the job: the reservation ends in error.
CtlStartRejected ==
    /\ ctl = "saved" /\ Mishap
    /\ ctl' = "idle"
    /\ txn_patch("error")
    /\ UNCHANGED <<record, marker, disk, cmd, pc, locals, systemd, cancel, accepted, base, unguarded>>

\* systemctl does not answer in time and did not queue the job (when it did,
\* this is CtlStart): the reservation stays.
CtlStartUnknown ==
    /\ ctl = "saved" /\ Mishap
    /\ ctl' = "idle"
    /\ UNCHANGED <<stage, record, marker, markerDisk, disk, cmd, pc, locals, systemd,
                   cancel, accepted, base, unguarded>>

CtlCancelUploaded ==
    /\ ControlFree /\ ~marker
    /\ stage = "uploaded"
    /\ txn_patch("cancelled")
    /\ accepted' = accepted \cup {txn}
    /\ UNCHANGED <<record, marker, disk, cmd, pc, locals, systemd, ctl, cancel, base, unguarded, mishaps>>

\* The controller has read a stage that may be cancelled ...
CtlCancelRead ==
    /\ ControlFree
    /\ stage \in {"validating", "backing_up"}
    /\ ctl' = "asking"
    /\ UNCHANGED <<stage, record, marker, markerDisk, disk, cmd, pc, locals, systemd,
                   cancel, accepted, base, unguarded, mishaps>>

\* ... and writes the cancel file and answers the operator, whatever the
\* runner did to the stage in between.
CtlCancelWrite ==
    /\ ctl = "asking"
    /\ ctl' = "idle"
    /\ cancel' = TRUE
    /\ accepted' = accepted \cup {txn}
    /\ markerDisk' = marker
    /\ UNCHANGED <<stage, record, marker, disk, cmd, pc, locals, systemd, base, unguarded, mishaps>>

--------------------------------------------------------------------------------
(* apply, up to the point of no return                                     *)

Runner(c, l) == cmd = c /\ pc = l

\* systemd starts a queued unit; update.lock is free.
StartUnitJob(c) ==
    /\ c \in queued
    /\ cmd = "none" /\ ctl # "saved" /\ booting = "no"
    /\ queued' = queued \ {c}
    /\ cmd' = c
    /\ pc' = IF c = "apply" THEN "begin" ELSE "verify"
    /\ UNCHANGED <<stage, record, marker, markerDisk, disk, locals, booting, svc, guard,
                   user, mishaps>>

\* The transaction ended before the runner got the lock.
ApplyNoop ==
    /\ Runner("apply", "begin") /\ stage \in Terminal
    /\ Exit
    /\ UNCHANGED <<stage, record, marker, markerDisk, disk, systemd, user, mishaps>>

CancelSeen == cancel /\ stage \in Early

\* honour_cancel_if_early, called before each of the early steps; at the
\* border it runs under control.lock.
HonourCancel ==
    /\ cmd = "apply" /\ pc \in EarlyPc
    /\ CancelSeen
    /\ pc = "border" => ctl = "idle"
    /\ cancel' = FALSE
    /\ staging' = FALSE /\ journal' = NoLines
    /\ txn_patch("cancelled")
    /\ Exit
    /\ UNCHANGED <<record, marker, deployed, tree, systemd, ctl, accepted, base, unguarded, mishaps>>

\* die: ports busy, a package that is refused, no space, no archive.
die ==
    /\ cmd = "apply" /\ pc \in EarlyPc \ {"border"} /\ stage \notin Terminal
    /\ Mishap
    /\ txn_patch("error")
    /\ Exit
    /\ UNCHANGED <<record, marker, disk, systemd, user>>

ApplyBegin ==
    /\ Runner("apply", "begin") /\ stage \notin Terminal /\ ~CancelSeen
    /\ txn_patch("validating")
    /\ Goto("extract") /\ Smooth
    /\ UNCHANGED <<record, marker, disk, locals, systemd, user>>

Extract ==
    /\ Runner("apply", "extract") /\ ~CancelSeen
    /\ staging' = TRUE
    /\ markerDisk' = marker
    /\ Goto("excludes") /\ Smooth
    /\ UNCHANGED <<stage, record, marker, journal, deployed, tree, locals, systemd, user>>

BackingUp ==
    /\ Runner("apply", "excludes") /\ ~CancelSeen
    /\ txn_patch("backing_up")
    /\ Goto("archive") /\ Smooth
    /\ UNCHANGED <<record, marker, disk, locals, systemd, user>>

\* The archive holds the deploy targets that exist, and nothing else.
build_rollback_archive ==
    /\ Runner("apply", "archive") /\ ~CancelSeen
    /\ rollback_archive' = [f \in File |-> IF f \in Deploy /\ tree[f] # 0 THEN tree[f] ELSE None]
    /\ markerDisk' = marker
    /\ Goto("border") /\ Smooth
    /\ UNCHANGED <<stage, txn, counted, port_services, port_restore_pending, marker, disk,
                   locals, systemd, user>>

\* Mutant: the runner passes the border without control.lock.
BorderUnlocked ==
    /\ Runner("apply", "border") /\ ~CancelSeen
    /\ marker' = TRUE /\ markerDisk' = TRUE
    /\ Goto("marked") /\ Smooth
    /\ UNCHANGED <<stage, record, disk, locals, systemd, user>>

\* Under control.lock: the last look at the cancel file, then the durable marker.
Border ==
    /\ Runner("apply", "border") /\ ctl = "idle" /\ ~CancelSeen
    /\ marker' = TRUE /\ markerDisk' = TRUE
    /\ Goto("marked") /\ Smooth
    /\ UNCHANGED <<stage, record, disk, locals, systemd, user>>

\* Still under control.lock, which is then released.
Applying ==
    /\ Runner("apply", "marked")
    /\ txn_patch("applying")
    /\ Goto("snapshot") /\ Smooth
    /\ UNCHANGED <<record, marker, disk, locals, systemd, user>>

\* acquire_lock gives up: another runner kept update.lock too long.
LockTimeout(c) ==
    /\ c \in queued
    /\ cmd # "none" /\ booting = "no"
    /\ Mishap
    /\ queued' = queued \ {c}
    /\ UNCHANGED <<stage, record, marker, markerDisk, disk, cmd, pc, locals, booting, svc,
                   guard, user>>

--------------------------------------------------------------------------------
(* apply, from the first irreversible step to the commit                   *)

\* stop_port_consumers: remember which units are active, then stop them.
Snapshot ==
    /\ Runner("apply", "snapshot")
    /\ port_services' = svc
    /\ markerDisk' = marker
    /\ Goto("stop") /\ Smooth
    /\ UNCHANGED <<stage, txn, counted, rollback_archive, port_restore_pending, marker, disk,
                   locals, systemd, user>>

StopUnit(u) ==
    /\ Runner("apply", "stop") /\ u \in port_services \cap svc
    /\ svc' = svc \ {u}
    /\ UNCHANGED <<stage, record, marker, markerDisk, disk, cmd, pc, locals, queued, booting,
                   guard, user, mishaps>>

\* All stopped, stop_before_apply too; imaging lock, re-exec, the deploy list.
StopDone ==
    /\ Runner("apply", "stop") /\ port_services \cap svc = {}
    /\ txn_patch("applying")
    /\ counted' = FALSE
    /\ todo' = Deploy
    /\ Goto("deploy") /\ Smooth
    /\ UNCHANGED <<txn, rollback_archive, port_services, port_restore_pending, marker, disk,
                   cur, failed, systemd, user>>

\* stop_before_apply dies in a subshell: its die records error, and only then
\* does the parent begin the rollback.
StopBeforeApplyDies ==
    /\ Runner("apply", "stop") /\ port_services \cap svc = {}
    /\ Mishap
    /\ txn_patch("error")
    /\ Goto("dying")
    /\ UNCHANGED <<record, marker, disk, locals, systemd, user>>

\* A file that already is what the package wants is not journalled.
SkipFile(f) ==
    /\ cmd = "apply" /\ pc \in LoopPc /\ cur = None
    /\ f \in todo /\ tree[f] = Goal(f)
    /\ todo' = todo \ {f}
    /\ UNCHANGED <<stage, record, marker, markerDisk, disk, cmd, pc, cur, failed, systemd,
                   user, mishaps>>

\* Mutant: a journal line that could not be written goes unnoticed.
JournalAppendUnchecked(f) ==
    /\ cmd = "apply" /\ pc \in LoopPc /\ cur = None
    /\ f \in todo /\ tree[f] # Goal(f)
    /\ \/ journal' = [journal EXCEPT ![f] = tree[f]] /\ Smooth
       \/ UNCHANGED journal /\ Mishap
    /\ cur' = f
    /\ UNCHANGED <<stage, record, marker, markerDisk, staging, deployed, tree, cmd, pc, todo,
                   failed, systemd, user>>

\* Backup, then the journal line that names it, both durable.
journal_append(f) ==
    /\ cmd = "apply" /\ pc \in LoopPc /\ cur = None
    /\ f \in todo /\ tree[f] # Goal(f)
    /\ journal' = [journal EXCEPT ![f] = tree[f]]
    /\ cur' = f
    /\ UNCHANGED <<stage, record, marker, markerDisk, staging, deployed, tree, cmd, pc, todo,
                   failed, systemd, user, mishaps>>

\* Mutant: a failed install is counted as done.
AtomicInstallSwallowed ==
    /\ cmd = "apply" /\ pc \in LoopPc /\ cur # None
    /\ \/ tree' = [tree EXCEPT ![cur] = Goal(cur)] /\ Smooth
       \/ UNCHANGED tree /\ Mishap
    /\ todo' = todo \ {cur}
    /\ cur' = None
    /\ UNCHANGED <<stage, record, marker, markerDisk, staging, journal, deployed, cmd, pc,
                   failed, systemd, user>>

\* atomic_install_file, or the rm of a file to delete.
atomic_install_file ==
    /\ cmd = "apply" /\ pc \in LoopPc /\ cur # None
    /\ tree' = [tree EXCEPT ![cur] = Goal(cur)]
    /\ todo' = todo \ {cur}
    /\ cur' = None
    /\ UNCHANGED <<stage, record, marker, markerDisk, staging, journal, deployed, cmd, pc,
                   failed, systemd, user, mishaps>>

\* The rename happened and the sync of its directory failed.
InstallFailsLate ==
    /\ cmd = "apply" /\ pc \in LoopPc /\ cur # None
    /\ Mishap
    /\ tree' = [tree EXCEPT ![cur] = Goal(cur)]
    /\ Goto("rollback")
    /\ UNCHANGED <<stage, record, marker, markerDisk, staging, journal, deployed, locals,
                   systemd, user>>

\* Every list is worked off; the count that makes the deploy complete is
\* written before the stamp and the deletions.
DeployDone ==
    /\ Runner("apply", "deploy") /\ todo = {}
    /\ counted' = TRUE
    /\ markerDisk' = marker
    /\ todo' = Stamp \cup Delete
    /\ Goto("late") /\ Smooth
    /\ UNCHANGED <<stage, txn, rollback_archive, port_services, port_restore_pending, marker,
                   disk, cur, failed, systemd, user>>

\* The stamp is soft: a manifest that cannot be read for it leaves the old one.
StampUnchanged(f) ==
    /\ Runner("apply", "late") /\ cur = None
    /\ f \in todo \cap Stamp
    /\ Mishap
    /\ todo' = todo \ {f}
    /\ UNCHANGED <<stage, record, marker, markerDisk, disk, cmd, pc, cur, failed, systemd, user>>

\* Deletions and migrations done.
Verifying ==
    /\ Runner("apply", "late") /\ todo = {}
    /\ txn_patch("verifying")
    /\ guard' = {}
    /\ Goto("restart") /\ Smooth
    /\ UNCHANGED <<record, marker, disk, locals, queued, booting, svc, user>>

\* A step of apply, or the health gate of verify, fails with nothing more
\* written: roll back.
StepFails ==
    /\ pc \in StepPc /\ Mishap
    /\ Goto("rollback")
    /\ UNCHANGED <<stage, record, marker, markerDisk, disk, locals, systemd, user>>

DyingRollsBack ==
    /\ pc = "dying"
    /\ Goto("rollback") /\ Smooth
    /\ UNCHANGED <<stage, record, marker, markerDisk, disk, locals, systemd, user>>

\* restore_port_consumers, one unit: by apply and verify before the health
\* gate, by a rollback after the files.
RestoreUnit(u) ==
    /\ pc \in {"restart", "vunits", "rbunits"}
    /\ port_services # None /\ u \in port_services \ svc
    /\ svc' = svc \cup {u}
    /\ UNCHANGED <<stage, record, marker, markerDisk, disk, cmd, pc, locals, queued, booting,
                   guard, user, mishaps>>

Restored == port_services = None \/ port_services \subseteq svc

HealthPasses ==
    /\ pc \in {"restart", "health"} /\ Restored
    /\ txn_patch("committing")
    /\ Goto("commit") /\ Smooth
    /\ UNCHANGED <<record, marker, disk, locals, systemd, user>>

commit_markers ==
    /\ pc = "commit"
    /\ deployed' = txn + 1
    /\ Goto("committed") /\ Smooth
    /\ UNCHANGED <<stage, record, marker, markerDisk, staging, journal, tree, locals, systemd,
                   user>>

\* errexit: an unreadable manifest ends the runner, the stage stays.
CommitFails ==
    /\ pc = "commit" /\ Mishap
    /\ Exit
    /\ UNCHANGED <<stage, record, marker, markerDisk, disk, systemd, user>>

Done ==
    /\ pc = "committed"
    /\ txn_patch("done")
    /\ Goto("cleanup") /\ Smooth
    /\ UNCHANGED <<record, marker, disk, locals, systemd, user>>

\* The marker goes last; its unlink is not synced.
Unmark ==
    /\ pc = "cleanup"
    /\ marker' = FALSE
    /\ Exit
    /\ UNCHANGED <<stage, record, markerDisk, disk, systemd, user, mishaps>>

--------------------------------------------------------------------------------
(* rollback_from_journal                                                   *)

\* By the journal when it has a line, else by the archive.
RollbackBegin ==
    /\ pc = "rollback"
    /\ txn_patch("rolling_back")
    /\ cur' = None
    /\ todo' = IF Logged # {} THEN Logged ELSE IF rollback_archive # None THEN Saved ELSE {}
    /\ failed' = (Logged = {} /\ rollback_archive = None)
    /\ Goto("restore") /\ Smooth
    /\ UNCHANGED <<record, marker, disk, systemd, user>>

\* tar cannot read the archive to its end: nothing is restored from it.
ArchiveUnreadable ==
    /\ pc = "restore" /\ Logged = {} /\ rollback_archive # None /\ todo = Saved
    /\ Mishap
    /\ todo' = {} /\ failed' = TRUE
    /\ UNCHANGED <<stage, record, marker, markerDisk, disk, cmd, pc, cur, systemd, user>>

RestoreFile(f) ==
    /\ pc = "restore" /\ f \in todo
    /\ tree' = [tree EXCEPT ![f] = IF Logged # {} THEN journal[f] ELSE rollback_archive[f]]
    /\ todo' = todo \ {f}
    /\ UNCHANGED <<stage, record, marker, markerDisk, staging, journal, deployed, cmd, pc, cur,
                   failed, systemd, user, mishaps>>

\* Mutant: a record that could not be restored is only logged.
RestoreFileUncounted(f) ==
    /\ pc = "restore" /\ f \in todo
    /\ Mishap
    /\ todo' = todo \ {f}
    /\ UNCHANGED <<stage, record, marker, markerDisk, disk, cmd, pc, cur, failed, systemd, user>>

RestoreFileFails(f) ==
    /\ pc = "restore" /\ f \in todo
    /\ Mishap
    /\ todo' = todo \ {f}
    /\ failed' = TRUE
    /\ UNCHANGED <<stage, record, marker, markerDisk, disk, cmd, pc, cur, systemd, user>>

\* restart_after_rollback: at run time, with the manifest at hand, the restart
\* list goes over the restored files.  Each restart may fail, and a unit kept
\* from starting does not start; one that was off is started.
restart_after_rollback ==
    \E r \in SUBSET (Restart \ guard) :
        svc' = IF cmd = "boot" \/ ~staging THEN svc ELSE (svc \ Restart) \cup r

\* At boot the units of the snapshot wait; at run time they are started again.
RestoreDone ==
    /\ pc = "restore" /\ todo = {}
    /\ restart_after_rollback
    /\ pc' = IF cmd = "boot" \/ port_services = None THEN "conclude" ELSE "rbunits"
    /\ guard' = IF pc' = "rbunits" THEN {} ELSE guard
    /\ UNCHANGED <<stage, record, marker, markerDisk, disk, cmd, locals, queued, booting,
                   user, mishaps>>

UnitsBack ==
    /\ pc = "rbunits" /\ Restored
    /\ Goto("conclude") /\ Smooth
    /\ UNCHANGED <<stage, record, marker, markerDisk, disk, locals, systemd, user>>

UnitsBackFail ==
    /\ pc = "rbunits" /\ Mishap
    /\ failed' = TRUE
    /\ Goto("conclude")
    /\ UNCHANGED <<stage, record, marker, markerDisk, disk, todo, cur, systemd, user>>

\* Mutant: the marker is removed whatever the outcome.
ConcludeUnmarks ==
    /\ pc = "conclude" /\ failed
    /\ stage' = "error" /\ markerDisk' = FALSE
    /\ marker' = FALSE
    /\ Exit
    /\ UNCHANGED <<record, disk, systemd, user, mishaps>>

\* A partly restored tree ends in error and keeps the marker.
ConcludeIncomplete ==
    /\ pc = "conclude" /\ failed
    /\ txn_patch("error")
    /\ Exit
    /\ UNCHANGED <<record, marker, disk, systemd, user, mishaps>>

\* At boot the stage waits at rolling_back until verify has restored the units;
\* the unit may fail to be queued.
ConcludePending ==
    /\ pc = "conclude" /\ ~failed
    /\ cmd = "boot" /\ port_services # None
    /\ port_restore_pending' = TRUE
    /\ txn_patch("rolling_back")
    /\ \/ queued' = queued \cup {"verify"} /\ Smooth
       \/ UNCHANGED queued /\ Mishap
    /\ Exit
    /\ UNCHANGED <<txn, counted, rollback_archive, port_services, marker, disk, booting, svc,
                   guard, user>>

ConcludeClean ==
    /\ pc = "conclude" /\ ~failed
    /\ ~(cmd = "boot" /\ port_services # None)
    /\ marker' = FALSE
    /\ Goto("unmarked") /\ Smooth
    /\ UNCHANGED <<stage, record, markerDisk, disk, locals, systemd, user>>

RolledBack ==
    /\ pc = "unmarked"
    /\ txn_patch("rolled_back")
    /\ Exit
    /\ UNCHANGED <<record, marker, disk, systemd, user, mishaps>>

--------------------------------------------------------------------------------
(* recover at boot, reclaim at run time: recover_transaction               *)

StartRecover ==
    /\ booting = "recover" /\ cmd = "none"
    /\ booting' = "units"
    /\ cmd' = "boot" /\ pc' = "recover"
    /\ UNCHANGED <<stage, record, marker, markerDisk, disk, locals, queued, svc, guard, user,
                   mishaps>>

StartReclaim ==
    /\ booting = "no" /\ cmd = "none" /\ ctl # "saved"
    /\ cmd' = "reclaim" /\ pc' = "recover"
    /\ UNCHANGED <<stage, record, marker, markerDisk, disk, locals, systemd, user, mishaps>>

\* Mutant: boot recovery sets no guards.
NoGuard == UNCHANGED guard

\* Boot recovery keeps the units that were off from starting.
guard_boot_port_consumers ==
    guard' = IF cmd = "boot" /\ port_services # None THEN Unit \ port_services ELSE guard

RecoverEarly ==
    /\ pc = "recover" /\ stage \in {"uploaded", "validating", "cancelled"}
    /\ staging' = FALSE /\ journal' = NoLines
    /\ txn_patch("error")
    /\ Exit
    /\ UNCHANGED <<record, marker, deployed, tree, systemd, user, mishaps>>

\* At boot a guard cannot be written or loaded: only some units are kept from
\* starting.
guard_fails ==
    /\ guard' \in SUBSET (Unit \ port_services)
    /\ unguarded' = Unit \ (port_services \cup guard')

\* A guard fails, or all are set and the ports are in use: the journal is kept
\* for later, and the boot goes on.
RecoverBlocked ==
    /\ pc = "recover" /\ stage \in Touched \cup {"backing_up"}
    /\ Mishap
    /\ IF cmd = "boot" /\ port_services # None THEN guard_fails ELSE UNCHANGED <<guard, unguarded>>
    /\ Exit
    /\ UNCHANGED <<stage, record, marker, markerDisk, disk, queued, booting, svc, ctl, cancel,
                   accepted, base>>

\* The archive was not recorded, so no file was touched.
RecoverBackup ==
    /\ pc = "recover" /\ stage = "backing_up" /\ rollback_archive = None
    /\ guard_boot_port_consumers
    /\ txn_patch("error")
    /\ Exit
    /\ UNCHANGED <<record, marker, disk, queued, booting, svc, user, mishaps>>

DeployComplete == staging /\ counted /\ tree[VersionFile] = Goal(VersionFile)

RecoverRollback ==
    /\ pc = "recover"
    /\ \/ stage = "backing_up" /\ rollback_archive # None
       \/ stage = "applying"
       \/ stage \in {"verifying", "committing"} /\ ~DeployComplete
       \/ stage = "rolling_back" /\ ~port_restore_pending
    /\ guard_boot_port_consumers
    /\ Goto("rollback") /\ Smooth
    /\ UNCHANGED <<stage, record, marker, markerDisk, disk, locals, queued, booting, svc, user>>

\* The restart sets reclaim owes a complete tree fail.
RecoverRestartFails ==
    /\ Runner("reclaim", "recover") /\ stage \in {"verifying", "committing"} /\ DeployComplete
    /\ Mishap
    /\ Goto("rollback")
    /\ UNCHANGED <<stage, record, marker, markerDisk, disk, locals, systemd, user>>

\* A complete tree is never rolled back here: verify decides after the boot.
schedule_boot_verify ==
    /\ pc = "recover" /\ stage \in {"verifying", "committing"} /\ DeployComplete
    /\ guard_boot_port_consumers
    /\ txn_patch("verifying")
    /\ \/ queued' = queued \cup {"verify"} /\ Smooth
       \/ UNCHANGED queued /\ Mishap
    /\ Exit
    /\ UNCHANGED <<record, marker, disk, booting, svc, user>>

\* Mutant: recovery finds the pending restoration and queues nothing.
RecoverPendingForgets ==
    /\ pc = "recover" /\ stage = "rolling_back" /\ port_restore_pending
    /\ guard_boot_port_consumers
    /\ UNCHANGED queued /\ Smooth
    /\ Exit
    /\ UNCHANGED <<stage, record, marker, markerDisk, disk, booting, svc, user>>

\* The files are back, the units are still owed.
RecoverPending ==
    /\ pc = "recover" /\ stage = "rolling_back" /\ port_restore_pending
    /\ guard_boot_port_consumers
    /\ \/ queued' = queued \cup {"verify"} /\ Smooth
       \/ UNCHANGED queued /\ Mishap
    /\ Exit
    /\ UNCHANGED <<stage, record, marker, markerDisk, disk, booting, svc, user>>

\* The crash came after the terminal stage was written: finish the clean-up.
RecoverTerminal ==
    /\ pc = "recover" /\ stage \in {"done", "rolled_back"}
    /\ marker' = FALSE /\ markerDisk' = FALSE
    /\ Exit
    /\ UNCHANGED <<stage, record, disk, systemd, user, mishaps>>

RecoverNoop ==
    /\ pc = "recover" /\ stage \in {"error", "idle"}
    /\ Exit
    /\ UNCHANGED <<stage, record, marker, markerDisk, disk, systemd, user, mishaps>>

--------------------------------------------------------------------------------
(* verify, after the boot: cmd_verify                                      *)

VerifyOwed == \/ stage = "rolling_back" /\ port_restore_pending
              \/ stage \in {"verifying", "committing"} /\ staging

VerifyBegin ==
    /\ pc = "verify" /\ VerifyOwed
    /\ guard' = IF port_services # None THEN {} ELSE guard
    /\ Goto("vunits") /\ Smooth
    /\ UNCHANGED <<stage, record, marker, markerDisk, disk, locals, queued, booting, svc, user>>

\* A terminal stage, a rollback another runner owes, or no manifest.
VerifyNoop ==
    /\ pc = "verify" /\ ~VerifyOwed
    /\ Exit
    /\ UNCHANGED <<stage, record, marker, markerDisk, disk, systemd, user, mishaps>>

\* The ports are in use or a unit does not start: the next boot tries again.
VerifyGivesUp ==
    /\ pc \in {"verify", "vunits"} /\ Mishap
    /\ Exit
    /\ UNCHANGED <<stage, record, marker, markerDisk, disk, systemd, user>>

VerifyRolledBack ==
    /\ pc = "vunits" /\ Restored /\ stage = "rolling_back"
    /\ port_restore_pending' = FALSE
    /\ txn_patch("rolled_back")
    /\ Goto("cleanup") /\ Smooth
    /\ UNCHANGED <<txn, counted, rollback_archive, port_services, marker, disk, locals, systemd,
                   user>>

VerifyHealth ==
    /\ pc = "vunits" /\ Restored /\ stage # "rolling_back"
    /\ txn_patch("verifying")
    /\ Goto("health") /\ Smooth
    /\ UNCHANGED <<record, marker, disk, locals, systemd, user>>

--------------------------------------------------------------------------------
(* The board                                                               *)

\* Everything volatile is lost.  An unlink of the marker that was not synced
\* may be undone, and staging may be gone where the board keeps it in memory.
PowerLoss ==
    /\ Mishap
    /\ marker' \in {marker, markerDisk} /\ markerDisk' = marker'
    /\ \/ UNCHANGED <<staging, journal>>
       \/ StagingVanishes /\ staging' = FALSE /\ journal' = NoLines
    /\ Exit
    /\ ctl' = "idle" /\ queued' = {} /\ svc' = {} /\ guard' = {}
    /\ booting' = "recover" /\ unguarded' = {}
    /\ UNCHANGED <<stage, record, deployed, tree, cancel, accepted, base>>

\* A runner is killed and the board stays up.  Boot recovery is only killed by
\* the 300 s limit of its unit, long after it has set the guards.
RunnerKilled ==
    /\ cmd # "none" /\ Mishap
    /\ ~Runner("boot", "recover")
    /\ Exit
    /\ UNCHANGED <<stage, record, marker, markerDisk, disk, systemd, user>>

\* Recovery is over; systemd starts the enabled units it is not kept from.
BootUnits ==
    /\ booting = "units" /\ cmd = "none"
    /\ svc' = Enabled \ guard
    /\ booting' = "no"
    /\ UNCHANGED <<stage, record, marker, markerDisk, disk, cmd, pc, locals, queued, guard,
                   user, mishaps>>

Init ==
    /\ stage = "idle" /\ txn = 0 /\ counted = FALSE
    /\ rollback_archive = None /\ port_services = None /\ port_restore_pending = FALSE
    /\ marker = FALSE /\ markerDisk = FALSE /\ cancel = FALSE
    /\ staging = FALSE /\ journal = NoLines
    /\ deployed = 1
    /\ tree = [f \in File |-> IF f \in Present THEN 1 ELSE 0]
    /\ cmd = "none" /\ pc = "idle" /\ todo = {} /\ cur = None /\ failed = FALSE
    /\ ctl = "idle" /\ queued = {} /\ booting = "no"
    /\ svc \in SUBSET Unit /\ guard = {}
    /\ base = tree /\ accepted = {} /\ unguarded = {} /\ mishaps = 0

Control ==
    \/ CtlUpload \/ CtlUploadFails \/ CtlApply \/ CtlCancelUploaded \/ CtlCancelRead
    \/ CtlCancelWrite \/ CtlStart \/ CtlStartRejected \/ CtlStartUnknown

Prepare ==
    \/ ApplyNoop \/ HonourCancel \/ ApplyBegin \/ Extract \/ BackingUp
    \/ build_rollback_archive \/ Border \/ Applying
Install ==
    \/ Snapshot \/ StopDone \/ atomic_install_file \/ DeployDone \/ Verifying \/ DyingRollsBack
    \/ HealthPasses \/ commit_markers \/ Done \/ Unmark
    \/ \E u \in Unit : StopUnit(u) \/ RestoreUnit(u)
    \/ \E f \in File : SkipFile(f) \/ journal_append(f)
Rollback ==
    \/ RollbackBegin \/ RestoreDone \/ UnitsBack \/ ConcludeIncomplete \/ ConcludePending
    \/ ConcludeClean \/ RolledBack
    \/ \E f \in File : RestoreFile(f)
Recover ==
    \/ RecoverEarly \/ RecoverBackup \/ RecoverRollback \/ schedule_boot_verify
    \/ RecoverPending \/ RecoverTerminal \/ RecoverNoop
Verify == VerifyBegin \/ VerifyNoop \/ VerifyRolledBack \/ VerifyHealth

\* Steps a runner takes by itself when nothing goes wrong.
Work == Prepare \/ Install \/ Rollback \/ Recover \/ Verify

Trouble ==
    \/ die \/ StepFails \/ StopBeforeApplyDies \/ InstallFailsLate \/ CommitFails
    \/ ArchiveUnreadable \/ UnitsBackFail \/ RecoverBlocked \/ RecoverRestartFails
    \/ VerifyGivesUp \/ PowerLoss \/ RunnerKilled
    \/ \E f \in File : StampUnchanged(f) \/ RestoreFileFails(f)
    \/ \E c \in {"apply", "verify"} : LockTimeout(c)

Boot == StartRecover \/ BootUnits \/ \E c \in {"apply", "verify"} : StartUnitJob(c)

Next == Control \/ Work \/ Trouble \/ Boot \/ StartReclaim

\* A started runner keeps running, systemd boots the board, and a queued runner
\* that waits for update.lock gets it between two others (acquire_lock waits for
\* it); nobody is obliged to ask for an update, to reclaim or to cancel.
Spec == Init /\ [][Next]_vars /\ WF_vars(Work) /\ SF_vars(Boot)
             /\ WF_vars(CtlStart \/ CtlCancelWrite)

--------------------------------------------------------------------------------
Lines == [File -> Content \cup {None}]

TypeOK ==
    /\ stage \in Stages /\ txn \in 0 .. MaxTxn
    /\ counted \in BOOLEAN /\ port_restore_pending \in BOOLEAN
    /\ rollback_archive \in Lines \cup {None}
    /\ port_services \in (SUBSET Unit) \cup {None}
    /\ marker \in BOOLEAN /\ markerDisk \in BOOLEAN /\ cancel \in BOOLEAN
    /\ staging \in BOOLEAN /\ journal \in Lines
    /\ deployed \in Content /\ tree \in [File -> Content] /\ base \in [File -> Content]
    /\ cmd \in {"none", "apply", "boot", "reclaim", "verify"} /\ pc \in Pcs
    /\ todo \subseteq File /\ cur \in File \cup {None} /\ failed \in BOOLEAN
    /\ ctl \in {"idle", "saved", "asking"} /\ queued \subseteq {"apply", "verify"}
    /\ booting \in {"recover", "units", "no"}
    /\ svc \subseteq Unit /\ guard \subseteq Unit /\ unguarded \subseteq Unit
    /\ accepted \subseteq 0 .. MaxTxn /\ mishaps \in 0 .. MaxMishap

\* A transaction that ends rolled_back has put every file back as it was when
\* the transaction began (rollback_from_journal: never rolled_back over a partly
\* restored tree).
RollbackExact == stage = "rolled_back" => tree = base

\* From verifying on, and so in every committed transaction, each file is what
\* the package ships and each deleted file is gone, whatever failed on the way;
\* only the runner's stamp may be an old one.
CommitExact ==
    stage \in {"verifying", "committing", "done"} =>
        \A f \in Deploy \cup Delete : tree[f] = Goal(f)

\* Until the transaction is done a file that differs from its old content has a
\* journal line whose backup holds that content (journal_append before rename).
UndoKnown ==
    stage # "done" => \A f \in File : tree[f] # base[f] => staging /\ journal[f] = base[f]

\* A tree that is neither the old nor the committed one is guarded by the
\* maintenance marker, also across a power loss, so the controller accepts no
\* new update over it.
MixedMarked == stage # "done" /\ tree # base => marker /\ markerDisk

\* Once the controller has accepted a cancellation the runner does not pass the
\* border, although it reads the cancel file long before and the controller read
\* the stage before it wrote the file.
CancelHonoured ==
    txn \in accepted => stage \notin {"applying", "verifying", "committing", "done"}

\* A cancel file left by one transaction never cancels a later one.
CancelNotStale == stage = "cancelled" => txn \in accepted

Settles == stage' \in {"done", "rolled_back"} /\ stage' # stage /\ port_services # None

\* A transaction that stopped the UART services ends well only when all of them
\* run again and nothing else does but what the restart list names and what the
\* boot started because its guard could not be set, also when the end comes after
\* a reboot (guard_boot_port_consumers, restore_port_consumers).
ServicesBack ==
    [][Settles => /\ port_services \subseteq svc'
                  /\ svc' \subseteq port_services \cup Restart \cup unguarded]_vars

\* The same with exactly the services that ran before: a rollback does not start
\* a unit the operator keeps off.
ServicesAsBefore == [][Settles => svc' = port_services]_vars

\* When nothing else goes wrong after a power loss, that one boot brings the
\* transaction to an end.
BootSettles == booting = "recover" /\ mishaps = MaxMishap ~> stage \in Terminal

\* The updater implements AtomicBoard: the release changes when the transaction is
\* done, and the marker says that the board is busy.
Board == INSTANCE AtomicBoard WITH
    Soft <- Stamp,
    release <- IF stage = "done" THEN tree ELSE base, files <- tree,
    package <- [f \in File |-> Goal(f)], busy <- marker

\* The installed files change from one release to the next all at once as far as
\* anybody can tell who looks while no maintenance is declared: every step of
\* controller, runner, systemd and power loss is a step of AtomicBoard.
AtomicUpdate == Board!Spec
================================================================================
