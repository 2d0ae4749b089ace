------------------------ MODULE UpdateTransactionProofs ------------------------
(***************************************************************************)
(* Proofs about UpdateTransaction for every package and board: any files,  *)
(* any services, any number of transactions, power losses, kills and       *)
(* failed steps, for boards whose staging directory survives a power loss. *)
(*                                                                         *)
(* The inductive invariant Inv adds to the properties where the runner can *)
(* be (ThreadOK, StageOK), what journal and archive hold (JournalOK), how  *)
(* far the loops have come (LoopOK), what the cancel file means (CancelOK) *)
(* and what becomes of the services (UnitsOK).                             *)
(***************************************************************************)
EXTENDS UpdateTransaction, TLAPS

\* Where a process can be, given the command it runs and what else goes on.
ThreadOK ==
    /\ cmd = "none" <=> pc = "idle"
    /\ pc \in EarlyPc \cup LoopPc \cup {"marked", "snapshot", "stop", "dying", "restart"}
            => cmd = "apply"
    /\ pc \in {"verify", "vunits", "health"} => cmd = "verify"
    /\ pc = "recover" => cmd \in {"boot", "reclaim"}
    /\ cmd = "boot" => booting = "units"
    /\ booting # "no" => ctl = "idle" /\ cmd \in {"none", "boot"} /\ "apply" \notin queued
    /\ ctl = "saved" => cmd = "none" /\ stage = "validating" /\ "apply" \notin queued
    /\ pc = "marked" => ctl = "idle"
    /\ "apply" \in queued => stage \in {"validating", "error"} /\ cmd # "apply"

\* The stage transaction.json shows while the runner is at a label.
StageOK ==
    /\ pc = "begin" => stage \in {"validating", "error"}
    /\ pc \in {"extract", "excludes"} => stage = "validating"
    /\ pc \in {"archive", "border", "marked"} => stage = "backing_up"
    /\ pc \in {"snapshot", "stop", "deploy", "late"} => stage = "applying"
    /\ pc = "dying" => stage = "error"
    /\ pc \in {"restart", "health"} => stage = "verifying"
    /\ pc \in {"commit", "committed"} => stage = "committing"
    /\ pc = "cleanup" => stage \in {"done", "rolled_back"}
    /\ pc = "rollback" => \/ stage \in Touched \cup {"backing_up"}
                          \/ stage = "error" /\ cmd = "apply"
    /\ pc \in {"restore", "rbunits", "conclude", "unmarked"} => stage = "rolling_back"
    /\ pc = "vunits" => \/ stage \in {"verifying", "committing"}
                        \/ stage = "rolling_back" /\ port_restore_pending
    /\ port_restore_pending => /\ stage = "rolling_back"
                               /\ pc \in {"idle", "recover", "verify", "vunits"}

\* Nothing was touched before the transaction was applying.
CleanOK ==
    /\ stage \in Early \cup {"idle", "cancelled", "rolled_back"} => tree = base
    /\ pc \in {"snapshot", "stop", "dying", "unmarked"} => tree = base
    /\ port_restore_pending => tree = base

\* Journal and archive hold old content only, and what they do not hold is old.
JournalOK ==
    /\ \A f \in File : journal[f] \in {None, base[f]}
    /\ rollback_archive # None => \A f \in File : rollback_archive[f] \in {None, base[f]}
    /\ pc \in {"excludes", "archive", "border", "marked", "snapshot", "stop", "deploy", "late"}
            => staging
    /\ UndoKnown

\* How far the loops have come: deploy and delete, and the restoring one.
LoopOK ==
    /\ cur # None => pc \in LoopPc \cup {"rollback"}
    /\ pc \in LoopPc =>
        /\ cur # None => cur \in todo /\ journal[cur] = base[cur]
        /\ \A f \in todo : tree[f] = base[f]
    /\ pc = "deploy" => /\ todo \subseteq Deploy
                        /\ \A f \in File \ Deploy : tree[f] = base[f]
                        /\ \A f \in Deploy \ todo : tree[f] = Goal(f)
    /\ pc = "late" => \A f \in (Deploy \cup Delete) \ todo : tree[f] = Goal(f)
    /\ pc = "restore" =>
        /\ Logged # {} => todo \subseteq Logged
        /\ Logged = {} => todo = {} \/ (rollback_archive # None /\ todo \subseteq Saved)
        /\ failed \/ \A f \in File \ todo : tree[f] = base[f]
    /\ pc \in {"rbunits", "conclude"} => failed \/ tree = base

\* Who may still cancel, and what the cancel file means.
CancelOK ==
    /\ accepted \subseteq 0 .. txn
    /\ ctl = "asking" => stage \notin {"applying", "verifying", "committing", "done", "uploaded"}
    /\ stage \in {"validating", "backing_up"} => (cancel <=> txn \in accepted)
    /\ pc = "marked" => txn \notin accepted

\* The marker is there from the border to the end of the transaction.
MarkerOK ==
    /\ pc \in {"marked", "snapshot", "stop", "dying", "deploy", "late"} => marker /\ markerDisk
    /\ MixedMarked

\* Until the transaction is settled only the units of its snapshot run, those the
\* restart list has started and those this boot could not be kept from starting.
Unsettled == port_services # None /\ (stage \in Touched \/ pc \in {"dying", "rollback"})
UnitsOK ==
    /\ Unsettled => svc \subseteq port_services \cup Restart \cup unguarded
    /\ Unsettled /\ booting = "units" /\ pc # "recover"
            => Unit \ port_services \subseteq guard \cup unguarded
    /\ booting = "recover" \/ (cmd = "boot" /\ pc = "recover") => unguarded = {}
    /\ pc \in {"commit", "committed"} /\ port_services # None => port_services \subseteq svc
    /\ pc \in {"conclude", "unmarked"} /\ ~failed /\ cmd # "boot" /\ port_services # None
            => port_services \subseteq svc
    /\ pc = "unmarked" => ~failed /\ (cmd = "boot" => port_services = None)
    /\ port_services # None => stage \notin Early

Inv == /\ TypeOK /\ ThreadOK /\ StageOK /\ CleanOK /\ JournalOK /\ LoopOK
       /\ CommitExact /\ CancelOK /\ CancelHonoured /\ CancelNotStale /\ MarkerOK /\ UnitsOK

\* What a step may do to the stage of a transaction that stopped services.
SettlesBack ==
    Settles => /\ port_services \subseteq svc'
               /\ svc' \subseteq port_services \cup Restart \cup unguarded

\* TypeOK in two parts: the Boolean variables, and the others.
TypeFlags ==
    /\ counted \in BOOLEAN /\ port_restore_pending \in BOOLEAN
    /\ marker \in BOOLEAN /\ markerDisk \in BOOLEAN /\ cancel \in BOOLEAN
    /\ staging \in BOOLEAN /\ failed \in BOOLEAN
TypeRest ==
    /\ stage \in Stages /\ txn \in 0 .. MaxTxn
    /\ rollback_archive \in Lines \cup {None}
    /\ port_services \in (SUBSET Unit) \cup {None}
    /\ journal \in Lines
    /\ deployed \in Content /\ tree \in [File -> Content] /\ base \in [File -> Content]
    /\ cmd \in {"none", "apply", "boot", "reclaim", "verify"} /\ pc \in Pcs
    /\ todo \subseteq File /\ cur \in File \cup {None}
    /\ ctl \in {"idle", "saved", "asking"} /\ queued \subseteq {"apply", "verify"}
    /\ booting \in {"recover", "units", "no"}
    /\ svc \subseteq Unit /\ guard \subseteq Unit /\ unguarded \subseteq Unit
    /\ accepted \subseteq 0 .. MaxTxn /\ mishaps \in 0 .. MaxMishap

\* Every step keeps the Boolean variables Boolean.
LEMMA FlagStep == TypeFlags /\ [Next]_vars => TypeFlags'
<1> SUFFICES ASSUME TypeFlags, [Next]_vars PROVE TypeFlags'
  OBVIOUS
<1> USE DEF TypeFlags, record, disk, locals, systemd, user
<1>1. ASSUME UNCHANGED vars PROVE TypeFlags'
  BY <1>1 DEF vars
<1>2. CASE Control
  BY <1>2, ZenonT(60) DEF Control, CtlUpload, CtlUploadFails, CtlApply, CtlCancelUploaded,
     CtlCancelRead, CtlCancelWrite, CtlStart, CtlStartRejected, CtlStartUnknown,
     txn_patch, NewTxn, ControlFree, UpdateLockFree, Busy, NoLines, Terminal, Mishap
<1>3. CASE Prepare
  BY <1>3 DEF Prepare, ApplyNoop, HonourCancel, ApplyBegin, Extract, BackingUp,
     build_rollback_archive, Border, Applying, Exit, Runner, Terminal, txn_patch,
     CancelSeen, NoLines, EarlyPc, Early, Goto, Smooth
<1>4. CASE Install
  <2>1. CASE Snapshot \/ StopDone \/ atomic_install_file \/ DeployDone \/ Verifying
            \/ DyingRollsBack \/ HealthPasses \/ commit_markers \/ Done
    BY <2>1, ZenonT(60) DEF Snapshot, StopDone, atomic_install_file, DeployDone, Verifying,
       DyingRollsBack, HealthPasses, commit_markers, Done, Goto, Smooth, Runner,
       txn_patch, Goal, LoopPc, Restored
  <2>2. ASSUME Unmark PROVE TypeFlags'
    BY <2>2 DEF Unmark, Exit
  <2>3. ASSUME NEW u \in Unit, StopUnit(u) PROVE TypeFlags'
    BY <2>3 DEF StopUnit, Runner
  <2>4. ASSUME NEW u \in Unit, RestoreUnit(u) PROVE TypeFlags'
    BY <2>4 DEF RestoreUnit
  <2>5. ASSUME NEW f \in File, SkipFile(f) PROVE TypeFlags'
    BY <2>5 DEF SkipFile, Goal, LoopPc
  <2>6. ASSUME NEW f \in File, journal_append(f) PROVE TypeFlags'
    BY <2>6 DEF journal_append, Goal, LoopPc
  <2> QED BY <1>4, <2>1, <2>2, <2>3, <2>4, <2>5, <2>6 DEF Install
<1>5. CASE Rollback
  BY <1>5, ZenonT(60) DEF Rollback, RollbackBegin, RestoreDone, UnitsBack, ConcludeIncomplete,
     ConcludePending, ConcludeClean, RolledBack, RestoreFile, txn_patch, Goto, Smooth,
     Logged, Saved, restart_after_rollback, Restored, Exit, Mishap
<1>6. CASE Recover
  BY <1>6, ZenonT(60) DEF Recover, RecoverEarly, RecoverBackup, RecoverRollback,
     schedule_boot_verify, RecoverPending, RecoverTerminal, RecoverNoop, txn_patch, Exit, NoLines,
     guard_boot_port_consumers, Goto, Smooth, Goal, DeployComplete, Mishap
<1>7. CASE Verify
  BY <1>7 DEF Verify, VerifyBegin, VerifyNoop, VerifyRolledBack, VerifyHealth, Goto,
     Smooth, VerifyOwed, Exit, txn_patch, Restored
<1>8. CASE Trouble
  <2>1. CASE die \/ StepFails \/ StopBeforeApplyDies \/ InstallFailsLate \/ CommitFails
            \/ ArchiveUnreadable \/ UnitsBackFail \/ RecoverBlocked \/ RecoverRestartFails
    BY <2>1, ZenonT(60) DEF die, StepFails, StopBeforeApplyDies, InstallFailsLate, CommitFails,
       ArchiveUnreadable, UnitsBackFail, RecoverBlocked, RecoverRestartFails, txn_patch,
       Exit, Mishap, EarlyPc, Terminal, Goto, LoopPc, StepPc, Runner, Goal, Logged, Saved,
       Touched, DeployComplete
  <2>2. CASE VerifyGivesUp \/ PowerLoss \/ RunnerKilled
            \/ (\E f \in File : StampUnchanged(f))
            \/ (\E f \in File : RestoreFileFails(f))
            \/ (\E c \in {"apply", "verify"} : LockTimeout(c))
    BY <2>2, ZenonT(60) DEF VerifyGivesUp, PowerLoss, RunnerKilled, StampUnchanged, RestoreFileFails,
       LockTimeout, Exit, Mishap, NoLines, Runner
  <2> QED BY <1>8, <2>1, <2>2 DEF Trouble
<1>9. CASE Boot
  BY <1>9 DEF Boot, StartRecover, BootUnits, StartUnitJob
<1>10. ASSUME StartReclaim PROVE TypeFlags'
  BY <1>10 DEF StartReclaim
<1> QED BY <1>1, <1>2, <1>3, <1>4, <1>5, <1>6, <1>7, <1>8, <1>9, <1>10 DEF Next, Work


\* Every step keeps the types of the other variables.
LEMMA RestStep == TypeRest /\ LoopOK /\ [Next]_vars => TypeRest'
<1> SUFFICES ASSUME TypeRest, LoopOK, [Next]_vars PROVE TypeRest'
  OBVIOUS
<1> USE DEF TypeRest, Stages, Pcs, Content, Lines, record, disk, locals, systemd, user,
       EarlyPc, LoopPc, StepPc, Terminal, Early, Touched
<1>1. ASSUME UNCHANGED vars PROVE TypeRest'
  BY <1>1 DEF vars
<1>2. CASE Control
  <2>1. ASSUME CtlUpload PROVE TypeRest'
    BY <2>1, BoundAssumption DEF CtlUpload, txn_patch, NewTxn, ControlFree,
       UpdateLockFree, Busy, NoLines
  <2>2. ASSUME CtlUploadFails PROVE TypeRest'
    BY <2>2, BoundAssumption DEF CtlUploadFails, txn_patch, Mishap, ControlFree,
       UpdateLockFree
  <2>3. ASSUME CtlApply PROVE TypeRest'
    BY <2>3, BoundAssumption DEF CtlApply, txn_patch, NewTxn, ControlFree, UpdateLockFree,
       Busy, NoLines
  <2>4. ASSUME CtlCancelUploaded PROVE TypeRest'
    BY <2>4, BoundAssumption DEF CtlCancelUploaded, txn_patch, ControlFree
  <2>5. ASSUME CtlCancelRead PROVE TypeRest'
    BY <2>5, BoundAssumption DEF CtlCancelRead, ControlFree
  <2>6. ASSUME CtlCancelWrite PROVE TypeRest'
    BY <2>6, BoundAssumption DEF CtlCancelWrite
  <2>7. ASSUME CtlStart PROVE TypeRest'
    BY <2>7, BoundAssumption DEF CtlStart
  <2>8. ASSUME CtlStartRejected PROVE TypeRest'
    BY <2>8, BoundAssumption DEF CtlStartRejected, txn_patch, Mishap
  <2>9. ASSUME CtlStartUnknown PROVE TypeRest'
    BY <2>9, BoundAssumption DEF CtlStartUnknown, Mishap
  <2> QED BY <1>2, <2>1, <2>2, <2>3, <2>4, <2>5, <2>6, <2>7, <2>8, <2>9 DEF Control
<1>3. CASE Prepare
  <2>1. ASSUME ApplyNoop PROVE TypeRest'
    BY <2>1, BoundAssumption DEF ApplyNoop, Exit, Runner
  <2>2. ASSUME HonourCancel PROVE TypeRest'
    BY <2>2, BoundAssumption DEF HonourCancel, txn_patch, Exit, CancelSeen, NoLines
  <2>3. ASSUME ApplyBegin PROVE TypeRest'
    BY <2>3, BoundAssumption DEF ApplyBegin, txn_patch, Goto, Smooth, Runner, CancelSeen
  <2>4. ASSUME Extract PROVE TypeRest'
    BY <2>4, BoundAssumption DEF Extract, Goto, Smooth, Runner, CancelSeen
  <2>5. ASSUME BackingUp PROVE TypeRest'
    BY <2>5, BoundAssumption DEF BackingUp, txn_patch, Goto, Smooth, Runner, CancelSeen
  <2>6. ASSUME build_rollback_archive PROVE TypeRest'
    BY <2>6, BoundAssumption DEF build_rollback_archive, Goto, Smooth, Runner, CancelSeen
  <2>7. ASSUME Border PROVE TypeRest'
    BY <2>7, BoundAssumption DEF Border, Goto, Smooth, Runner, CancelSeen
  <2>8. ASSUME Applying PROVE TypeRest'
    BY <2>8, BoundAssumption DEF Applying, txn_patch, Goto, Smooth, Runner
  <2> QED BY <1>3, <2>1, <2>2, <2>3, <2>4, <2>5, <2>6, <2>7, <2>8 DEF Prepare
<1>4. CASE Install
  <2>1. ASSUME Snapshot PROVE TypeRest'
    BY <2>1, BoundAssumption DEF Snapshot, Goto, Smooth, Runner
  <2>2. ASSUME StopDone PROVE TypeRest'
    BY <2>2, BoundAssumption DEF StopDone, txn_patch, Goto, Smooth, Runner, File
  <2>3. ASSUME atomic_install_file PROVE TypeRest'
    BY <2>3, BoundAssumption DEF atomic_install_file, Goal
  <2>4. ASSUME DeployDone PROVE TypeRest'
    BY <2>4, BoundAssumption DEF DeployDone, Goto, Smooth, Runner, File
  <2>5. ASSUME Verifying PROVE TypeRest'
    BY <2>5, BoundAssumption DEF Verifying, txn_patch, Goto, Smooth, Runner
  <2>6. ASSUME DyingRollsBack PROVE TypeRest'
    BY <2>6, BoundAssumption DEF DyingRollsBack, Goto, Smooth
  <2>7. ASSUME HealthPasses PROVE TypeRest'
    BY <2>7, BoundAssumption DEF HealthPasses, txn_patch, Goto, Smooth, Restored
  <2>8. ASSUME commit_markers PROVE TypeRest'
    BY <2>8, BoundAssumption DEF commit_markers, Goto, Smooth
  <2>9. ASSUME Done PROVE TypeRest'
    BY <2>9, BoundAssumption DEF Done, txn_patch, Goto, Smooth
  <2>10. ASSUME Unmark PROVE TypeRest'
    BY <2>10, BoundAssumption DEF Unmark, Exit
  <2>11. ASSUME NEW u \in Unit, StopUnit(u) PROVE TypeRest'
    BY <2>11, BoundAssumption DEF StopUnit, Runner
  <2>12. ASSUME NEW u \in Unit, RestoreUnit(u) PROVE TypeRest'
    BY <2>12, BoundAssumption DEF RestoreUnit
  <2>13. ASSUME NEW f \in File, SkipFile(f) PROVE TypeRest'
    BY <2>13, BoundAssumption DEF SkipFile, Goal
  <2>14. ASSUME NEW f \in File, journal_append(f) PROVE TypeRest'
    BY <2>14, BoundAssumption DEF journal_append, Goal
  <2> QED BY <1>4, <2>1, <2>2, <2>3, <2>4, <2>5, <2>6, <2>7, <2>8, <2>9, <2>10, <2>11,
       <2>12,
     <2>13, <2>14 DEF Install
<1>5. CASE Rollback
  <2>1. ASSUME RollbackBegin PROVE TypeRest'
    BY <2>1, BoundAssumption DEF RollbackBegin, txn_patch, Goto, Smooth, Logged, Saved
  <2>2. ASSUME RestoreDone PROVE TypeRest'
    <3>1. svc' \subseteq Unit
      BY <2>2, UnitAssumption DEF RestoreDone, restart_after_rollback
    <3> QED BY <2>2, <3>1 DEF RestoreDone
  <2>3. ASSUME UnitsBack PROVE TypeRest'
    BY <2>3, BoundAssumption DEF UnitsBack, Goto, Smooth, Restored
  <2>4. ASSUME ConcludeIncomplete PROVE TypeRest'
    BY <2>4, BoundAssumption DEF ConcludeIncomplete, txn_patch, Exit
  <2>5. ASSUME ConcludePending PROVE TypeRest'
    <3>1. queued' \subseteq {"apply", "verify"}
      BY <2>5 DEF ConcludePending
    <3>2. mishaps' \in 0 .. MaxMishap
      BY <2>5, BoundAssumption DEF ConcludePending, Smooth, Mishap
    <3> QED BY <2>5, <3>1, <3>2 DEF ConcludePending, Exit, txn_patch,
       guard_boot_port_consumers
  <2>6. ASSUME ConcludeClean PROVE TypeRest'
    BY <2>6, BoundAssumption DEF ConcludeClean, Goto, Smooth
  <2>7. ASSUME RolledBack PROVE TypeRest'
    BY <2>7, BoundAssumption DEF RolledBack, txn_patch, Exit
  <2>8. ASSUME NEW f \in File, RestoreFile(f) PROVE TypeRest'
    <3>1. CASE Logged # {}
      <4>1. journal[f] \in Content
        BY <2>8, <3>1 DEF RestoreFile, LoopOK, Logged
      <4> QED BY <2>8, <3>1, <4>1 DEF RestoreFile
    <3>2. CASE Logged = {}
      <4>1. rollback_archive[f] \in Content
        BY <2>8, <3>2 DEF RestoreFile, LoopOK, Saved
      <4> QED BY <2>8, <3>2, <4>1 DEF RestoreFile
    <3> QED BY <3>1, <3>2
  <2> QED BY <1>5, <2>1, <2>2, <2>3, <2>4, <2>5, <2>6, <2>7, <2>8 DEF Rollback
<1>6. CASE Recover
  <2>1. ASSUME RecoverEarly PROVE TypeRest'
    BY <2>1, BoundAssumption DEF RecoverEarly, txn_patch, Exit, NoLines
  <2>2. ASSUME RecoverBackup PROVE TypeRest'
    BY <2>2, BoundAssumption DEF RecoverBackup, txn_patch, Exit, guard_boot_port_consumers
  <2>3. ASSUME RecoverRollback PROVE TypeRest'
    BY <2>3, BoundAssumption DEF RecoverRollback, Goto, Smooth, Goal,
       guard_boot_port_consumers, DeployComplete
  <2>4. ASSUME schedule_boot_verify PROVE TypeRest'
    <3>1. queued' \subseteq {"apply", "verify"}
      BY <2>4 DEF schedule_boot_verify
    <3>2. mishaps' \in 0 .. MaxMishap
      BY <2>4, BoundAssumption DEF schedule_boot_verify, Smooth, Mishap
    <3> QED BY <2>4, <3>1, <3>2 DEF schedule_boot_verify, Exit, txn_patch,
       guard_boot_port_consumers
  <2>5. ASSUME RecoverPending PROVE TypeRest'
    <3>1. queued' \subseteq {"apply", "verify"}
      BY <2>5 DEF RecoverPending
    <3>2. mishaps' \in 0 .. MaxMishap
      BY <2>5, BoundAssumption DEF RecoverPending, Smooth, Mishap
    <3> QED BY <2>5, <3>1, <3>2 DEF RecoverPending, Exit, txn_patch,
       guard_boot_port_consumers
  <2>6. ASSUME RecoverTerminal PROVE TypeRest'
    BY <2>6, BoundAssumption DEF RecoverTerminal, Exit
  <2>7. ASSUME RecoverNoop PROVE TypeRest'
    BY <2>7, BoundAssumption DEF RecoverNoop, Exit
  <2> QED BY <1>6, <2>1, <2>2, <2>3, <2>4, <2>5, <2>6, <2>7 DEF Recover
<1>7. CASE Verify
  <2>1. ASSUME VerifyBegin PROVE TypeRest'
    BY <2>1, BoundAssumption DEF VerifyBegin, Goto, Smooth, VerifyOwed
  <2>2. ASSUME VerifyNoop PROVE TypeRest'
    BY <2>2, BoundAssumption DEF VerifyNoop, Exit, VerifyOwed
  <2>3. ASSUME VerifyRolledBack PROVE TypeRest'
    BY <2>3, BoundAssumption DEF VerifyRolledBack, txn_patch, Goto, Smooth, Restored
  <2>4. ASSUME VerifyHealth PROVE TypeRest'
    BY <2>4, BoundAssumption DEF VerifyHealth, txn_patch, Goto, Smooth, Restored
  <2> QED BY <1>7, <2>1, <2>2, <2>3, <2>4 DEF Verify
<1>8. CASE Trouble
  <2>1. ASSUME die PROVE TypeRest'
    BY <2>1, BoundAssumption DEF die, txn_patch, Exit, Mishap
  <2>2. ASSUME StepFails PROVE TypeRest'
    BY <2>2, BoundAssumption DEF StepFails, Goto, Mishap
  <2>3. ASSUME StopBeforeApplyDies PROVE TypeRest'
    BY <2>3, BoundAssumption DEF StopBeforeApplyDies, txn_patch, Goto, Mishap, Runner
  <2>4. ASSUME InstallFailsLate PROVE TypeRest'
    BY <2>4, BoundAssumption DEF InstallFailsLate, Goto, Mishap, Goal
  <2>5. ASSUME CommitFails PROVE TypeRest'
    BY <2>5, BoundAssumption DEF CommitFails, Exit, Mishap
  <2>6. ASSUME ArchiveUnreadable PROVE TypeRest'
    BY <2>6, BoundAssumption DEF ArchiveUnreadable, Mishap, Logged, Saved
  <2>7. ASSUME UnitsBackFail PROVE TypeRest'
    BY <2>7, BoundAssumption DEF UnitsBackFail, Goto, Mishap
  <2>8. ASSUME RecoverBlocked PROVE TypeRest'
    BY <2>8, BoundAssumption DEF RecoverBlocked, guard_fails, Exit, Mishap
  <2>9. ASSUME RecoverRestartFails PROVE TypeRest'
    BY <2>9, BoundAssumption DEF RecoverRestartFails, Goto, Mishap, Runner, Goal,
       DeployComplete
  <2>10. ASSUME VerifyGivesUp PROVE TypeRest'
    BY <2>10, BoundAssumption DEF VerifyGivesUp, Exit, Mishap
  <2>11. ASSUME PowerLoss PROVE TypeRest'
    BY <2>11, BoundAssumption DEF PowerLoss, Exit, Mishap, NoLines
  <2>12. ASSUME RunnerKilled PROVE TypeRest'
    BY <2>12, BoundAssumption DEF RunnerKilled, Exit, Mishap, Runner
  <2>13. ASSUME NEW f \in File, StampUnchanged(f) PROVE TypeRest'
    BY <2>13, BoundAssumption DEF StampUnchanged, Mishap, Runner
  <2>14. ASSUME NEW f \in File, RestoreFileFails(f) PROVE TypeRest'
    BY <2>14, BoundAssumption DEF RestoreFileFails, Mishap
  <2>15. ASSUME NEW c \in {"apply", "verify"}, LockTimeout(c) PROVE TypeRest'
    BY <2>15, BoundAssumption DEF LockTimeout, Mishap
  <2> QED BY <1>8, <2>1, <2>2, <2>3, <2>4, <2>5, <2>6, <2>7, <2>8, <2>9, <2>10, <2>11,
       <2>12,
     <2>13, <2>14, <2>15 DEF Trouble
<1>9. CASE Boot
  <2>1. ASSUME StartRecover PROVE TypeRest'
    BY <2>1, BoundAssumption DEF StartRecover
  <2>2. ASSUME BootUnits PROVE TypeRest'
    BY <2>2, BoundAssumption, UnitAssumption DEF BootUnits
  <2>3. ASSUME NEW c \in {"apply", "verify"}, StartUnitJob(c) PROVE TypeRest'
    BY <2>3, BoundAssumption DEF StartUnitJob
  <2> QED BY <1>9, <2>1, <2>2, <2>3 DEF Boot
<1>10. ASSUME StartReclaim PROVE TypeRest'
  BY <1>10 DEF StartReclaim
<1> QED BY <1>1, <1>2, <1>3, <1>4, <1>5, <1>6, <1>7, <1>8, <1>9, <1>10 DEF Next, Work


\* The runner stays where its command, the boot and the controller let it be.
LEMMA ThreadStep == TypeRest /\ ThreadOK /\ StageOK /\ [Next]_vars => ThreadOK'
<1> SUFFICES ASSUME TypeRest, ThreadOK, StageOK, [Next]_vars PROVE ThreadOK'
  OBVIOUS
<1> USE DEF TypeRest, ThreadOK, StageOK, record, disk, locals, systemd, user, EarlyPc,
       LoopPc, StepPc, Terminal, Early, Touched
<1>1. ASSUME UNCHANGED vars PROVE ThreadOK'
  BY <1>1 DEF vars
<1>2. CASE Control
  BY <1>2 DEF Control, CtlUpload, CtlUploadFails, CtlApply, CtlCancelUploaded,
     CtlCancelRead, CtlCancelWrite, CtlStart, CtlStartRejected, CtlStartUnknown,
     txn_patch, NewTxn, ControlFree, UpdateLockFree, Busy, NoLines, Mishap
<1>3. CASE Prepare
  BY <1>3 DEF Prepare, ApplyNoop, HonourCancel, ApplyBegin, Extract, BackingUp,
     build_rollback_archive, Border, Applying, Exit, Runner, txn_patch, CancelSeen,
     NoLines, Goto, Smooth
<1>4. CASE Install
  <2>1. CASE Snapshot \/ StopDone \/ atomic_install_file \/ DeployDone \/ Verifying
            \/ DyingRollsBack \/ HealthPasses \/ commit_markers \/ Done
    BY <2>1 DEF Snapshot, StopDone, atomic_install_file, DeployDone, Verifying,
       DyingRollsBack, HealthPasses, commit_markers, Done, Goto, Smooth, Runner,
       txn_patch, Goal, Restored
  <2>2. CASE Unmark \/ (\E u \in Unit : StopUnit(u)) \/ (\E u \in Unit : RestoreUnit(u))
            \/ (\E f \in File : SkipFile(f)) \/ (\E f \in File : journal_append(f))
    BY <2>2 DEF Unmark, StopUnit, RestoreUnit, SkipFile, journal_append, Exit, Runner,
       Goal
  <2> QED BY <1>4, <2>1, <2>2 DEF Install
<1>5. CASE Rollback
  BY <1>5 DEF Rollback, RollbackBegin, RestoreDone, UnitsBack, ConcludeIncomplete,
     ConcludePending, ConcludeClean, RolledBack, RestoreFile, txn_patch, Goto, Smooth,
     Logged, Saved, restart_after_rollback, Restored, Exit, Mishap
<1>6. CASE Recover
  BY <1>6 DEF Recover, RecoverEarly, RecoverBackup, RecoverRollback,
     schedule_boot_verify, RecoverPending, RecoverTerminal, RecoverNoop, txn_patch, Exit, NoLines,
     guard_boot_port_consumers, Goto, Smooth, Goal, DeployComplete, Mishap
<1>7. CASE Verify
  BY <1>7 DEF Verify, VerifyBegin, VerifyNoop, VerifyRolledBack, VerifyHealth, Goto,
     Smooth, VerifyOwed, Exit, txn_patch, Restored
<1>8. CASE Trouble
  <2>1. CASE die \/ StepFails \/ StopBeforeApplyDies \/ InstallFailsLate \/ CommitFails
            \/ ArchiveUnreadable \/ UnitsBackFail \/ RecoverBlocked \/ RecoverRestartFails
    BY <2>1 DEF die, StepFails, StopBeforeApplyDies, InstallFailsLate, CommitFails,
       ArchiveUnreadable, UnitsBackFail, RecoverBlocked, RecoverRestartFails, txn_patch,
       Exit, Mishap, Goto, Runner, Goal, Logged, Saved, DeployComplete
  <2>2. CASE VerifyGivesUp \/ PowerLoss \/ RunnerKilled
            \/ (\E f \in File : StampUnchanged(f))
            \/ (\E f \in File : RestoreFileFails(f))
            \/ (\E c \in {"apply", "verify"} : LockTimeout(c))
    BY <2>2 DEF VerifyGivesUp, PowerLoss, RunnerKilled, StampUnchanged, RestoreFileFails,
       LockTimeout, Exit, Mishap, NoLines, Runner
  <2> QED BY <1>8, <2>1, <2>2 DEF Trouble
<1>9. CASE Boot
  BY <1>9 DEF Boot, StartRecover, BootUnits, StartUnitJob
<1>10. ASSUME StartReclaim PROVE ThreadOK'
  BY <1>10 DEF StartReclaim
<1> QED BY <1>1, <1>2, <1>3, <1>4, <1>5, <1>6, <1>7, <1>8, <1>9, <1>10 DEF Next, Work


\* The stage on disk fits the runner's place in the code.
LEMMA StageStep == TypeRest /\ ThreadOK /\ StageOK /\ [Next]_vars => StageOK'
<1> SUFFICES ASSUME TypeRest, ThreadOK, StageOK, [Next]_vars PROVE StageOK'
  OBVIOUS
<1> USE DEF TypeRest, ThreadOK, StageOK, record, disk, locals, systemd, user, EarlyPc,
       LoopPc, StepPc, Terminal, Early, Touched
<1>1. ASSUME UNCHANGED vars PROVE StageOK'
  BY <1>1 DEF vars
<1>2. CASE Control
  BY <1>2 DEF Control, CtlUpload, CtlUploadFails, CtlApply, CtlCancelUploaded,
     CtlCancelRead, CtlCancelWrite, CtlStart, CtlStartRejected, CtlStartUnknown,
     txn_patch, NewTxn, ControlFree, UpdateLockFree, Busy, NoLines, Mishap
<1>3. CASE Prepare
  BY <1>3 DEF Prepare, ApplyNoop, HonourCancel, ApplyBegin, Extract, BackingUp,
     build_rollback_archive, Border, Applying, Exit, Runner, txn_patch, CancelSeen,
     NoLines, Goto, Smooth
<1>4. CASE Install
  <2>1. CASE Snapshot \/ StopDone \/ atomic_install_file \/ DeployDone \/ Verifying
            \/ DyingRollsBack \/ HealthPasses \/ commit_markers \/ Done
    BY <2>1 DEF Snapshot, StopDone, atomic_install_file, DeployDone, Verifying,
       DyingRollsBack, HealthPasses, commit_markers, Done, Goto, Smooth, Runner,
       txn_patch, Goal, Restored
  <2>2. CASE Unmark \/ (\E u \in Unit : StopUnit(u)) \/ (\E u \in Unit : RestoreUnit(u))
            \/ (\E f \in File : SkipFile(f)) \/ (\E f \in File : journal_append(f))
    BY <2>2 DEF Unmark, StopUnit, RestoreUnit, SkipFile, journal_append, Exit, Runner,
       Goal
  <2> QED BY <1>4, <2>1, <2>2 DEF Install
<1>5. CASE Rollback
  BY <1>5 DEF Rollback, RollbackBegin, RestoreDone, UnitsBack, ConcludeIncomplete,
     ConcludePending, ConcludeClean, RolledBack, RestoreFile, txn_patch, Goto, Smooth,
     Logged, Saved, restart_after_rollback, Restored, Exit, Mishap
<1>6. CASE Recover
  BY <1>6 DEF Recover, RecoverEarly, RecoverBackup, RecoverRollback,
     schedule_boot_verify, RecoverPending, RecoverTerminal, RecoverNoop, txn_patch, Exit, NoLines,
     guard_boot_port_consumers, Goto, Smooth, Goal, DeployComplete, Mishap
<1>7. CASE Verify
  BY <1>7 DEF Verify, VerifyBegin, VerifyNoop, VerifyRolledBack, VerifyHealth, Goto,
     Smooth, VerifyOwed, Exit, txn_patch, Restored
<1>8. CASE Trouble
  <2>1. CASE die \/ StepFails \/ StopBeforeApplyDies \/ InstallFailsLate \/ CommitFails
            \/ ArchiveUnreadable \/ UnitsBackFail \/ RecoverBlocked \/ RecoverRestartFails
    BY <2>1 DEF die, StepFails, StopBeforeApplyDies, InstallFailsLate, CommitFails,
       ArchiveUnreadable, UnitsBackFail, RecoverBlocked, RecoverRestartFails, txn_patch,
       Exit, Mishap, Goto, Runner, Goal, Logged, Saved, DeployComplete
  <2>2. CASE VerifyGivesUp \/ PowerLoss \/ RunnerKilled
            \/ (\E f \in File : StampUnchanged(f))
            \/ (\E f \in File : RestoreFileFails(f))
            \/ (\E c \in {"apply", "verify"} : LockTimeout(c))
    BY <2>2 DEF VerifyGivesUp, PowerLoss, RunnerKilled, StampUnchanged, RestoreFileFails,
       LockTimeout, Exit, Mishap, NoLines, Runner
  <2> QED BY <1>8, <2>1, <2>2 DEF Trouble
<1>9. CASE Boot
  BY <1>9 DEF Boot, StartRecover, BootUnits, StartUnitJob
<1>10. ASSUME StartReclaim PROVE StageOK'
  BY <1>10 DEF StartReclaim
<1> QED BY <1>1, <1>2, <1>3, <1>4, <1>5, <1>6, <1>7, <1>8, <1>9, <1>10 DEF Next, Work


\* A restored file is what it was when the transaction began.
LEMMA RestoredOld ==
    ASSUME TypeRest, JournalOK, LoopOK, NEW f \in File, RestoreFile(f)
    PROVE  tree' = [tree EXCEPT ![f] = base[f]]
<1>1. CASE Logged # {}
  BY <1>1 DEF RestoreFile, JournalOK, LoopOK, Logged
<1>2. CASE Logged = {}
  BY <1>2 DEF RestoreFile, JournalOK, LoopOK, Saved
<1> QED BY <1>1, <1>2


\* A tree that counts as untouched or restored is the old one.
LEMMA CleanStep == StageOK /\ CleanOK /\ LoopOK /\ [Next]_vars => CleanOK'
<1> SUFFICES ASSUME StageOK, CleanOK, LoopOK, [Next]_vars PROVE CleanOK'
  OBVIOUS
<1> USE DEF StageOK, CleanOK, record, disk, locals, systemd, user, EarlyPc, LoopPc,
       StepPc, Terminal, Early, Touched
<1>1. ASSUME UNCHANGED vars PROVE CleanOK'
  BY <1>1 DEF vars
<1>2. CASE Control
  BY <1>2 DEF Control, CtlUpload, CtlUploadFails, CtlApply, CtlCancelUploaded,
     CtlCancelRead, CtlCancelWrite, CtlStart, CtlStartRejected, CtlStartUnknown,
     txn_patch, NewTxn, ControlFree, UpdateLockFree, Busy, NoLines, Mishap
<1>3. CASE Prepare
  BY <1>3 DEF Prepare, ApplyNoop, HonourCancel, ApplyBegin, Extract, BackingUp,
     build_rollback_archive, Border, Applying, Exit, Runner, txn_patch, CancelSeen,
     NoLines, Goto, Smooth
<1>4. CASE Install
  <2>1. CASE Snapshot \/ StopDone \/ atomic_install_file \/ DeployDone \/ Verifying
            \/ DyingRollsBack \/ HealthPasses \/ commit_markers \/ Done
    BY <2>1 DEF Snapshot, StopDone, atomic_install_file, DeployDone, Verifying,
       DyingRollsBack, HealthPasses, commit_markers, Done, Goto, Smooth, Runner,
       txn_patch, Goal, Restored
  <2>2. CASE Unmark \/ (\E u \in Unit : StopUnit(u)) \/ (\E u \in Unit : RestoreUnit(u))
            \/ (\E f \in File : SkipFile(f)) \/ (\E f \in File : journal_append(f))
    BY <2>2 DEF Unmark, StopUnit, RestoreUnit, SkipFile, journal_append, Exit, Runner,
       Goal
  <2> QED BY <1>4, <2>1, <2>2 DEF Install
<1>5. CASE Rollback
  <2>1. CASE RollbackBegin \/ RestoreDone \/ UnitsBack \/ ConcludeIncomplete \/ RolledBack
            \/ (\E f \in File : RestoreFile(f))
    BY <2>1 DEF RollbackBegin, RestoreDone, UnitsBack, ConcludeIncomplete, RolledBack,
       RestoreFile, txn_patch, Goto, Smooth, Logged, Saved, restart_after_rollback,
       Restored, Exit
  <2>2. ASSUME ConcludePending PROVE CleanOK'
    BY <2>2 DEF ConcludePending, txn_patch, Exit, Smooth, Mishap, LoopOK
  <2>3. ASSUME ConcludeClean PROVE CleanOK'
    BY <2>3 DEF ConcludeClean, Goto, Smooth, LoopOK
  <2> QED BY <1>5, <2>1, <2>2, <2>3 DEF Rollback
<1>6. CASE Recover
  BY <1>6 DEF Recover, RecoverEarly, RecoverBackup, RecoverRollback,
     schedule_boot_verify, RecoverPending, RecoverTerminal, RecoverNoop, txn_patch, Exit, NoLines,
     guard_boot_port_consumers, Goto, Smooth, Goal, DeployComplete, Mishap
<1>7. CASE Verify
  BY <1>7 DEF Verify, VerifyBegin, VerifyNoop, VerifyRolledBack, VerifyHealth, Goto,
     Smooth, VerifyOwed, Exit, txn_patch, Restored
<1>8. CASE Trouble
  <2>1. CASE die \/ StepFails \/ StopBeforeApplyDies \/ InstallFailsLate \/ CommitFails
            \/ ArchiveUnreadable \/ UnitsBackFail \/ RecoverBlocked \/ RecoverRestartFails
    BY <2>1 DEF die, StepFails, StopBeforeApplyDies, InstallFailsLate, CommitFails,
       ArchiveUnreadable, UnitsBackFail, RecoverBlocked, RecoverRestartFails, txn_patch,
       Exit, Mishap, Goto, Runner, Goal, Logged, Saved, DeployComplete
  <2>2. CASE VerifyGivesUp \/ PowerLoss \/ RunnerKilled
            \/ (\E f \in File : StampUnchanged(f))
            \/ (\E f \in File : RestoreFileFails(f))
            \/ (\E c \in {"apply", "verify"} : LockTimeout(c))
    BY <2>2 DEF VerifyGivesUp, PowerLoss, RunnerKilled, StampUnchanged, RestoreFileFails,
       LockTimeout, Exit, Mishap, NoLines, Runner
  <2> QED BY <1>8, <2>1, <2>2 DEF Trouble
<1>9. CASE Boot
  BY <1>9 DEF Boot, StartRecover, BootUnits, StartUnitJob
<1>10. ASSUME StartReclaim PROVE CleanOK'
  BY <1>10 DEF StartReclaim
<1> QED BY <1>1, <1>2, <1>3, <1>4, <1>5, <1>6, <1>7, <1>8, <1>9, <1>10 DEF Next, Work


\* A cancellation is accepted only where it is still honoured.
LEMMA CancelStep == TypeRest /\ ThreadOK /\ StageOK /\ CancelOK /\ CancelHonoured /\
       CancelNotStale /\ [Next]_vars => (CancelOK /\ CancelHonoured /\ CancelNotStale)'
<1> SUFFICES ASSUME TypeRest, ThreadOK, StageOK, CancelOK, CancelHonoured,
       CancelNotStale, [Next]_vars PROVE (CancelOK /\ CancelHonoured /\ CancelNotStale)'
  OBVIOUS
<1> USE DEF TypeRest, ThreadOK, StageOK, CancelOK, CancelHonoured, CancelNotStale,
       record, disk, locals, systemd, user, EarlyPc, LoopPc, StepPc, Terminal, Early,
       Touched
<1>1. ASSUME UNCHANGED vars PROVE (CancelOK /\ CancelHonoured /\ CancelNotStale)'
  BY <1>1 DEF vars
<1>2. CASE Control
  <2>1. ASSUME CtlUpload PROVE (CancelOK /\ CancelHonoured /\ CancelNotStale)'
    BY <2>1 DEF CtlUpload, txn_patch, NewTxn, ControlFree, UpdateLockFree, Busy, NoLines
  <2>2. ASSUME CtlUploadFails PROVE (CancelOK /\ CancelHonoured /\ CancelNotStale)'
    BY <2>2 DEF CtlUploadFails, txn_patch, Mishap, ControlFree, UpdateLockFree
  <2>3. ASSUME CtlApply PROVE (CancelOK /\ CancelHonoured /\ CancelNotStale)'
    BY <2>3 DEF CtlApply, txn_patch, NewTxn, ControlFree, UpdateLockFree, Busy, NoLines
  <2>4. ASSUME CtlCancelUploaded PROVE (CancelOK /\ CancelHonoured /\ CancelNotStale)'
    BY <2>4 DEF CtlCancelUploaded, txn_patch, ControlFree
  <2>5. ASSUME CtlCancelRead PROVE (CancelOK /\ CancelHonoured /\ CancelNotStale)'
    BY <2>5 DEF CtlCancelRead, ControlFree
  <2>6. ASSUME CtlCancelWrite PROVE (CancelOK /\ CancelHonoured /\ CancelNotStale)'
    BY <2>6 DEF CtlCancelWrite
  <2>7. ASSUME CtlStart PROVE (CancelOK /\ CancelHonoured /\ CancelNotStale)'
    BY <2>7 DEF CtlStart
  <2>8. ASSUME CtlStartRejected PROVE (CancelOK /\ CancelHonoured /\ CancelNotStale)'
    BY <2>8 DEF CtlStartRejected, txn_patch, Mishap
  <2>9. ASSUME CtlStartUnknown PROVE (CancelOK /\ CancelHonoured /\ CancelNotStale)'
    BY <2>9 DEF CtlStartUnknown, Mishap
  <2> QED BY <1>2, <2>1, <2>2, <2>3, <2>4, <2>5, <2>6, <2>7, <2>8, <2>9 DEF Control
<1>3. CASE Prepare
  <2>1. ASSUME ApplyNoop PROVE (CancelOK /\ CancelHonoured /\ CancelNotStale)'
    BY <2>1 DEF ApplyNoop, Exit, Runner
  <2>2. ASSUME HonourCancel PROVE (CancelOK /\ CancelHonoured /\ CancelNotStale)'
    BY <2>2 DEF HonourCancel, txn_patch, Exit, CancelSeen, NoLines
  <2>3. ASSUME ApplyBegin PROVE (CancelOK /\ CancelHonoured /\ CancelNotStale)'
    BY <2>3 DEF ApplyBegin, txn_patch, Goto, Smooth, Runner, CancelSeen
  <2>4. ASSUME Extract PROVE (CancelOK /\ CancelHonoured /\ CancelNotStale)'
    BY <2>4 DEF Extract, Goto, Smooth, Runner, CancelSeen
  <2>5. ASSUME BackingUp PROVE (CancelOK /\ CancelHonoured /\ CancelNotStale)'
    BY <2>5 DEF BackingUp, txn_patch, Goto, Smooth, Runner, CancelSeen
  <2>6. ASSUME build_rollback_archive PROVE (CancelOK /\ CancelHonoured /\ CancelNotStale)'
    BY <2>6 DEF build_rollback_archive, Goto, Smooth, Runner, CancelSeen
  <2>7. ASSUME Border PROVE (CancelOK /\ CancelHonoured /\ CancelNotStale)'
    BY <2>7 DEF Border, Goto, Smooth, Runner, CancelSeen
  <2>8. ASSUME Applying PROVE (CancelOK /\ CancelHonoured /\ CancelNotStale)'
    BY <2>8 DEF Applying, txn_patch, Goto, Smooth, Runner
  <2> QED BY <1>3, <2>1, <2>2, <2>3, <2>4, <2>5, <2>6, <2>7, <2>8 DEF Prepare
<1>4. CASE Install
  <2>1. ASSUME Snapshot PROVE (CancelOK /\ CancelHonoured /\ CancelNotStale)'
    BY <2>1 DEF Snapshot, Goto, Smooth, Runner
  <2>2. ASSUME StopDone PROVE (CancelOK /\ CancelHonoured /\ CancelNotStale)'
    BY <2>2 DEF StopDone, txn_patch, Goto, Smooth, Runner
  <2>3. ASSUME atomic_install_file PROVE (CancelOK /\ CancelHonoured /\ CancelNotStale)'
    BY <2>3 DEF atomic_install_file, Goal
  <2>4. ASSUME DeployDone PROVE (CancelOK /\ CancelHonoured /\ CancelNotStale)'
    BY <2>4 DEF DeployDone, Goto, Smooth, Runner
  <2>5. ASSUME Verifying PROVE (CancelOK /\ CancelHonoured /\ CancelNotStale)'
    BY <2>5 DEF Verifying, txn_patch, Goto, Smooth, Runner
  <2>6. ASSUME DyingRollsBack PROVE (CancelOK /\ CancelHonoured /\ CancelNotStale)'
    BY <2>6 DEF DyingRollsBack, Goto, Smooth
  <2>7. ASSUME HealthPasses PROVE (CancelOK /\ CancelHonoured /\ CancelNotStale)'
    BY <2>7 DEF HealthPasses, txn_patch, Goto, Smooth, Restored
  <2>8. ASSUME commit_markers PROVE (CancelOK /\ CancelHonoured /\ CancelNotStale)'
    BY <2>8 DEF commit_markers, Goto, Smooth
  <2>9. ASSUME Done PROVE (CancelOK /\ CancelHonoured /\ CancelNotStale)'
    BY <2>9 DEF Done, txn_patch, Goto, Smooth
  <2>10. ASSUME Unmark PROVE (CancelOK /\ CancelHonoured /\ CancelNotStale)'
    BY <2>10 DEF Unmark, Exit
  <2>11. ASSUME NEW u \in Unit, StopUnit(u) PROVE (CancelOK /\ CancelHonoured /\
       CancelNotStale)'
    BY <2>11 DEF StopUnit, Runner
  <2>12. ASSUME NEW u \in Unit, RestoreUnit(u) PROVE (CancelOK /\ CancelHonoured /\
       CancelNotStale)'
    BY <2>12 DEF RestoreUnit
  <2>13. ASSUME NEW f \in File, SkipFile(f) PROVE (CancelOK /\ CancelHonoured /\
       CancelNotStale)'
    BY <2>13 DEF SkipFile, Goal
  <2>14. ASSUME NEW f \in File, journal_append(f) PROVE (CancelOK /\ CancelHonoured /\
       CancelNotStale)'
    BY <2>14 DEF journal_append, Goal
  <2> QED BY <1>4, <2>1, <2>2, <2>3, <2>4, <2>5, <2>6, <2>7, <2>8, <2>9, <2>10, <2>11,
       <2>12,
     <2>13, <2>14 DEF Install
<1>5. CASE Rollback
  <2>1. ASSUME RollbackBegin PROVE (CancelOK /\ CancelHonoured /\ CancelNotStale)'
    BY <2>1 DEF RollbackBegin, txn_patch, Goto, Smooth, Logged, Saved
  <2>2. ASSUME RestoreDone PROVE (CancelOK /\ CancelHonoured /\ CancelNotStale)'
    BY <2>2 DEF RestoreDone, restart_after_rollback
  <2>3. ASSUME UnitsBack PROVE (CancelOK /\ CancelHonoured /\ CancelNotStale)'
    BY <2>3 DEF UnitsBack, Goto, Smooth, Restored
  <2>4. ASSUME ConcludeIncomplete PROVE (CancelOK /\ CancelHonoured /\ CancelNotStale)'
    BY <2>4 DEF ConcludeIncomplete, txn_patch, Exit
  <2>5. ASSUME ConcludePending PROVE (CancelOK /\ CancelHonoured /\ CancelNotStale)'
    BY <2>5 DEF ConcludePending, txn_patch, Exit, Smooth, Mishap
  <2>6. ASSUME ConcludeClean PROVE (CancelOK /\ CancelHonoured /\ CancelNotStale)'
    BY <2>6 DEF ConcludeClean, Goto, Smooth
  <2>7. ASSUME RolledBack PROVE (CancelOK /\ CancelHonoured /\ CancelNotStale)'
    BY <2>7 DEF RolledBack, txn_patch, Exit
  <2>8. ASSUME NEW f \in File, RestoreFile(f) PROVE (CancelOK /\ CancelHonoured /\
       CancelNotStale)'
    BY <2>8 DEF RestoreFile, Logged
  <2> QED BY <1>5, <2>1, <2>2, <2>3, <2>4, <2>5, <2>6, <2>7, <2>8 DEF Rollback
<1>6. CASE Recover
  <2>1. ASSUME RecoverEarly PROVE (CancelOK /\ CancelHonoured /\ CancelNotStale)'
    BY <2>1 DEF RecoverEarly, txn_patch, Exit, NoLines
  <2>2. ASSUME RecoverBackup PROVE (CancelOK /\ CancelHonoured /\ CancelNotStale)'
    BY <2>2 DEF RecoverBackup, txn_patch, Exit, guard_boot_port_consumers
  <2>3. ASSUME RecoverRollback PROVE (CancelOK /\ CancelHonoured /\ CancelNotStale)'
    BY <2>3 DEF RecoverRollback, Goto, Smooth, Goal, guard_boot_port_consumers,
       DeployComplete
  <2>4. ASSUME schedule_boot_verify PROVE (CancelOK /\ CancelHonoured /\ CancelNotStale)'
    BY <2>4 DEF schedule_boot_verify, txn_patch, Exit, Smooth, Mishap, Goal,
       guard_boot_port_consumers, DeployComplete
  <2>5. ASSUME RecoverPending PROVE (CancelOK /\ CancelHonoured /\ CancelNotStale)'
    BY <2>5 DEF RecoverPending, Exit, Smooth, Mishap, guard_boot_port_consumers
  <2>6. ASSUME RecoverTerminal PROVE (CancelOK /\ CancelHonoured /\ CancelNotStale)'
    BY <2>6 DEF RecoverTerminal, Exit
  <2>7. ASSUME RecoverNoop PROVE (CancelOK /\ CancelHonoured /\ CancelNotStale)'
    BY <2>7 DEF RecoverNoop, Exit
  <2> QED BY <1>6, <2>1, <2>2, <2>3, <2>4, <2>5, <2>6, <2>7 DEF Recover
<1>7. CASE Verify
  <2>1. ASSUME VerifyBegin PROVE (CancelOK /\ CancelHonoured /\ CancelNotStale)'
    BY <2>1 DEF VerifyBegin, Goto, Smooth, VerifyOwed
  <2>2. ASSUME VerifyNoop PROVE (CancelOK /\ CancelHonoured /\ CancelNotStale)'
    BY <2>2 DEF VerifyNoop, Exit, VerifyOwed
  <2>3. ASSUME VerifyRolledBack PROVE (CancelOK /\ CancelHonoured /\ CancelNotStale)'
    BY <2>3 DEF VerifyRolledBack, txn_patch, Goto, Smooth, Restored
  <2>4. ASSUME VerifyHealth PROVE (CancelOK /\ CancelHonoured /\ CancelNotStale)'
    BY <2>4 DEF VerifyHealth, txn_patch, Goto, Smooth, Restored
  <2> QED BY <1>7, <2>1, <2>2, <2>3, <2>4 DEF Verify
<1>8. CASE Trouble
  <2>1. ASSUME die PROVE (CancelOK /\ CancelHonoured /\ CancelNotStale)'
    BY <2>1 DEF die, txn_patch, Exit, Mishap
  <2>2. ASSUME StepFails PROVE (CancelOK /\ CancelHonoured /\ CancelNotStale)'
    BY <2>2 DEF StepFails, Goto, Mishap
  <2>3. ASSUME StopBeforeApplyDies PROVE (CancelOK /\ CancelHonoured /\ CancelNotStale)'
    BY <2>3 DEF StopBeforeApplyDies, txn_patch, Goto, Mishap, Runner
  <2>4. ASSUME InstallFailsLate PROVE (CancelOK /\ CancelHonoured /\ CancelNotStale)'
    BY <2>4 DEF InstallFailsLate, Goto, Mishap, Goal
  <2>5. ASSUME CommitFails PROVE (CancelOK /\ CancelHonoured /\ CancelNotStale)'
    BY <2>5 DEF CommitFails, Exit, Mishap
  <2>6. ASSUME ArchiveUnreadable PROVE (CancelOK /\ CancelHonoured /\ CancelNotStale)'
    BY <2>6 DEF ArchiveUnreadable, Mishap, Logged, Saved
  <2>7. ASSUME UnitsBackFail PROVE (CancelOK /\ CancelHonoured /\ CancelNotStale)'
    BY <2>7 DEF UnitsBackFail, Goto, Mishap
  <2>8. ASSUME RecoverBlocked PROVE (CancelOK /\ CancelHonoured /\ CancelNotStale)'
    BY <2>8 DEF RecoverBlocked, Exit, Mishap, Runner
  <2>9. ASSUME RecoverRestartFails PROVE (CancelOK /\ CancelHonoured /\ CancelNotStale)'
    BY <2>9 DEF RecoverRestartFails, Goto, Mishap, Runner, Goal, DeployComplete
  <2>10. ASSUME VerifyGivesUp PROVE (CancelOK /\ CancelHonoured /\ CancelNotStale)'
    BY <2>10 DEF VerifyGivesUp, Exit, Mishap
  <2>11. ASSUME PowerLoss PROVE (CancelOK /\ CancelHonoured /\ CancelNotStale)'
    BY <2>11 DEF PowerLoss, Exit, Mishap, NoLines
  <2>12. ASSUME RunnerKilled PROVE (CancelOK /\ CancelHonoured /\ CancelNotStale)'
    BY <2>12 DEF RunnerKilled, Exit, Mishap, Runner
  <2>13. ASSUME NEW f \in File, StampUnchanged(f) PROVE (CancelOK /\ CancelHonoured /\
       CancelNotStale)'
    BY <2>13 DEF StampUnchanged, Mishap, Runner
  <2>14. ASSUME NEW f \in File, RestoreFileFails(f) PROVE (CancelOK /\ CancelHonoured /\
       CancelNotStale)'
    BY <2>14 DEF RestoreFileFails, Mishap
  <2>15. ASSUME NEW c \in {"apply", "verify"}, LockTimeout(c) PROVE (CancelOK /\
       CancelHonoured /\ CancelNotStale)'
    BY <2>15 DEF LockTimeout, Mishap
  <2> QED BY <1>8, <2>1, <2>2, <2>3, <2>4, <2>5, <2>6, <2>7, <2>8, <2>9, <2>10, <2>11,
       <2>12,
     <2>13, <2>14, <2>15 DEF Trouble
<1>9. CASE Boot
  <2>1. ASSUME StartRecover PROVE (CancelOK /\ CancelHonoured /\ CancelNotStale)'
    BY <2>1 DEF StartRecover
  <2>2. ASSUME BootUnits PROVE (CancelOK /\ CancelHonoured /\ CancelNotStale)'
    BY <2>2 DEF BootUnits
  <2>3. ASSUME NEW c \in {"apply", "verify"}, StartUnitJob(c) PROVE (CancelOK /\
       CancelHonoured /\ CancelNotStale)'
    BY <2>3 DEF StartUnitJob
  <2> QED BY <1>9, <2>1, <2>2, <2>3 DEF Boot
<1>10. ASSUME StartReclaim PROVE (CancelOK /\ CancelHonoured /\ CancelNotStale)'
  BY <1>10 DEF StartReclaim
<1> QED BY <1>1, <1>2, <1>3, <1>4, <1>5, <1>6, <1>7, <1>8, <1>9, <1>10 DEF Next, Work


\* The marker covers every state in which files are mixed.
LEMMA MarkerStep == TypeRest /\ ThreadOK /\ StageOK /\ CleanOK /\ JournalOK /\ LoopOK /\
       MarkerOK /\ [Next]_vars => MarkerOK'
<1> SUFFICES ASSUME TypeRest, ThreadOK, StageOK, CleanOK, JournalOK, LoopOK, MarkerOK,
       [Next]_vars PROVE MarkerOK'
  OBVIOUS
<1> USE DEF StageOK, CleanOK, MarkerOK, MixedMarked, record, disk, locals, systemd, user,
       EarlyPc, LoopPc, StepPc, Terminal, Early, Touched
<1>1. ASSUME UNCHANGED vars PROVE MarkerOK'
  BY <1>1 DEF vars
<1>2. CASE Control
  <2>1. CASE CtlUpload \/ CtlUploadFails \/ CtlApply \/ CtlCancelUploaded \/ CtlCancelRead
            \/ CtlCancelWrite \/ CtlStart \/ CtlStartUnknown
    BY <2>1 DEF CtlUpload, CtlUploadFails, CtlApply, CtlCancelUploaded, CtlCancelRead,
       CtlCancelWrite, CtlStart, CtlStartUnknown, txn_patch, NewTxn, ControlFree,
       UpdateLockFree, Busy, NoLines, Mishap
  <2>2. ASSUME CtlStartRejected PROVE MarkerOK'
    BY <2>2 DEF CtlStartRejected, txn_patch, Mishap, ThreadOK
  <2> QED BY <1>2, <2>1, <2>2 DEF Control
<1>3. CASE Prepare
  BY <1>3 DEF Prepare, ApplyNoop, HonourCancel, ApplyBegin, Extract, BackingUp,
     build_rollback_archive, Border, Applying, Exit, Runner, txn_patch, CancelSeen,
     NoLines, Goto, Smooth
<1>4. CASE Install
  <2>1. CASE Snapshot \/ StopDone \/ atomic_install_file \/ DeployDone \/ Verifying
            \/ DyingRollsBack \/ HealthPasses \/ commit_markers \/ Done
    BY <2>1 DEF Snapshot, StopDone, atomic_install_file, DeployDone, Verifying,
       DyingRollsBack, HealthPasses, commit_markers, Done, Goto, Smooth, Runner,
       txn_patch, Goal, Restored
  <2>2. CASE Unmark \/ (\E u \in Unit : StopUnit(u)) \/ (\E u \in Unit : RestoreUnit(u))
            \/ (\E f \in File : SkipFile(f)) \/ (\E f \in File : journal_append(f))
    BY <2>2 DEF Unmark, StopUnit, RestoreUnit, SkipFile, journal_append, Exit, Runner,
       Goal
  <2> QED BY <1>4, <2>1, <2>2 DEF Install
<1>5. CASE Rollback
  <2>1. CASE RollbackBegin \/ RestoreDone \/ UnitsBack \/ ConcludeIncomplete \/ RolledBack
    BY <2>1 DEF RollbackBegin, RestoreDone, UnitsBack, ConcludeIncomplete, RolledBack,
       txn_patch, Goto, Smooth, Logged, Saved, restart_after_rollback, Restored, Exit
  <2>2. ASSUME ConcludePending PROVE MarkerOK'
    BY <2>2 DEF ConcludePending, txn_patch, Exit, Smooth, Mishap, LoopOK
  <2>3. ASSUME ConcludeClean PROVE MarkerOK'
    BY <2>3 DEF ConcludeClean, Goto, Smooth, LoopOK
  <2>4. ASSUME NEW f \in File, RestoreFile(f) PROVE MarkerOK'
    <3>1. tree' = [tree EXCEPT ![f] = base[f]]
      BY <2>4, RestoredOld
    <3>2. tree = base => tree' = base
      BY <3>1 DEF TypeRest
    <3> QED BY <2>4, <3>2 DEF RestoreFile
  <2> QED BY <1>5, <2>1, <2>2, <2>3, <2>4 DEF Rollback
<1>6. CASE Recover
  BY <1>6 DEF Recover, RecoverEarly, RecoverBackup, RecoverRollback,
     schedule_boot_verify, RecoverPending, RecoverTerminal, RecoverNoop, txn_patch, Exit, NoLines,
     guard_boot_port_consumers, Goto, Smooth, Goal, DeployComplete, Mishap
<1>7. CASE Verify
  BY <1>7 DEF Verify, VerifyBegin, VerifyNoop, VerifyRolledBack, VerifyHealth, Goto,
     Smooth, VerifyOwed, Exit, txn_patch, Restored
<1>8. CASE Trouble
  <2>1. CASE die \/ StepFails \/ StopBeforeApplyDies \/ InstallFailsLate \/ CommitFails
            \/ ArchiveUnreadable \/ UnitsBackFail \/ RecoverBlocked \/ RecoverRestartFails
    BY <2>1 DEF die, StepFails, StopBeforeApplyDies, InstallFailsLate, CommitFails,
       ArchiveUnreadable, UnitsBackFail, RecoverBlocked, RecoverRestartFails, txn_patch,
       Exit, Mishap, Goto, Runner, Goal, Logged, Saved, DeployComplete
  <2>2. CASE VerifyGivesUp \/ PowerLoss \/ RunnerKilled
            \/ (\E f \in File : StampUnchanged(f))
            \/ (\E f \in File : RestoreFileFails(f))
            \/ (\E c \in {"apply", "verify"} : LockTimeout(c))
    BY <2>2 DEF VerifyGivesUp, PowerLoss, RunnerKilled, StampUnchanged, RestoreFileFails,
       LockTimeout, Exit, Mishap, NoLines, Runner
  <2> QED BY <1>8, <2>1, <2>2 DEF Trouble
<1>9. CASE Boot
  BY <1>9 DEF Boot, StartRecover, BootUnits, StartUnitJob
<1>10. ASSUME StartReclaim PROVE MarkerOK'
  BY <1>10 DEF StartReclaim
<1> QED BY <1>1, <1>2, <1>3, <1>4, <1>5, <1>6, <1>7, <1>8, <1>9, <1>10 DEF Next, Work


\* A tree that passed the loops is the package's until it is rolled back.
LEMMA CommitStep == StageOK /\ LoopOK /\ CommitExact /\ [Next]_vars => CommitExact'
<1> SUFFICES ASSUME StageOK, LoopOK, CommitExact, [Next]_vars PROVE CommitExact'
  OBVIOUS
<1> USE DEF StageOK, CommitExact, record, disk, locals, systemd, user, EarlyPc, LoopPc,
       StepPc, Terminal, Early, Touched
<1>1. ASSUME UNCHANGED vars PROVE CommitExact'
  BY <1>1 DEF vars, Goal
<1>2. CASE Control
  BY <1>2 DEF Control, CtlUpload, CtlUploadFails, CtlApply, CtlCancelUploaded,
     CtlCancelRead, CtlCancelWrite, CtlStart, CtlStartRejected, CtlStartUnknown,
     txn_patch, NewTxn, ControlFree, UpdateLockFree, Busy, NoLines, Mishap, Goal
<1>3. CASE Prepare
  BY <1>3 DEF Prepare, ApplyNoop, HonourCancel, ApplyBegin, Extract, BackingUp,
     build_rollback_archive, Border, Applying, Exit, Runner, txn_patch, CancelSeen,
     NoLines, Goto, Smooth, Goal
<1>4. CASE Install
  <2>1. CASE Snapshot \/ StopDone \/ atomic_install_file \/ DeployDone \/ DyingRollsBack
            \/ HealthPasses \/ commit_markers \/ Done \/ Unmark
    BY <2>1 DEF Snapshot, StopDone, atomic_install_file, DeployDone, DyingRollsBack,
       HealthPasses, commit_markers, Done, Unmark, Goto, Smooth, Runner, txn_patch, Goal,
       Restored, Exit
  <2>2. CASE (\E u \in Unit : StopUnit(u)) \/ (\E u \in Unit : RestoreUnit(u))
            \/ (\E f \in File : SkipFile(f)) \/ (\E f \in File : journal_append(f))
    BY <2>2 DEF StopUnit, RestoreUnit, SkipFile, journal_append, Runner, Goal
  <2>3. ASSUME Verifying PROVE CommitExact'
    BY <2>3 DEF Verifying, txn_patch, Goto, Smooth, Runner, Goal, LoopOK
  <2> QED BY <1>4, <2>1, <2>2, <2>3 DEF Install
<1>5. CASE Rollback
  BY <1>5 DEF Rollback, RollbackBegin, RestoreDone, UnitsBack, ConcludeIncomplete,
     ConcludePending, ConcludeClean, RolledBack, RestoreFile, txn_patch, Goto, Smooth,
     Logged, Saved, restart_after_rollback, Restored, Exit, Mishap, Goal
<1>6. CASE Recover
  BY <1>6 DEF Recover, RecoverEarly, RecoverBackup, RecoverRollback,
     schedule_boot_verify, RecoverPending, RecoverTerminal, RecoverNoop, txn_patch, Exit, NoLines,
     guard_boot_port_consumers, Goto, Smooth, Goal, DeployComplete, Mishap
<1>7. CASE Verify
  BY <1>7 DEF Verify, VerifyBegin, VerifyNoop, VerifyRolledBack, VerifyHealth, Goto,
     Smooth, VerifyOwed, Exit, txn_patch, Restored, Goal
<1>8. CASE Trouble
  <2>1. CASE die \/ StepFails \/ StopBeforeApplyDies \/ InstallFailsLate \/ CommitFails
            \/ ArchiveUnreadable \/ UnitsBackFail \/ RecoverBlocked \/ RecoverRestartFails
    BY <2>1 DEF die, StepFails, StopBeforeApplyDies, InstallFailsLate, CommitFails,
       ArchiveUnreadable, UnitsBackFail, RecoverBlocked, RecoverRestartFails, txn_patch,
       Exit, Mishap, Goto, Runner, Goal, Logged, Saved, DeployComplete
  <2>2. CASE VerifyGivesUp \/ PowerLoss \/ RunnerKilled
            \/ (\E f \in File : StampUnchanged(f))
            \/ (\E f \in File : RestoreFileFails(f))
            \/ (\E c \in {"apply", "verify"} : LockTimeout(c))
    BY <2>2 DEF VerifyGivesUp, PowerLoss, RunnerKilled, StampUnchanged, RestoreFileFails,
       LockTimeout, Exit, Mishap, NoLines, Runner, Goal
  <2> QED BY <1>8, <2>1, <2>2 DEF Trouble
<1>9. CASE Boot
  BY <1>9 DEF Boot, StartRecover, BootUnits, StartUnitJob, Goal
<1>10. ASSUME StartReclaim PROVE CommitExact'
  BY <1>10 DEF StartReclaim, Goal
<1> QED BY <1>1, <1>2, <1>3, <1>4, <1>5, <1>6, <1>7, <1>8, <1>9, <1>10 DEF Next, Work


\* Only the units of the snapshot run until the transaction is settled.
LEMMA UnitsStep == TypeRest /\ ThreadOK /\ StageOK /\ UnitsOK /\ [Next]_vars => UnitsOK'
<1> SUFFICES ASSUME TypeRest, ThreadOK, StageOK, UnitsOK, [Next]_vars PROVE UnitsOK'
  OBVIOUS
<1> USE DEF TypeRest, ThreadOK, StageOK, UnitsOK, Unsettled, record, disk, locals,
       systemd, user, EarlyPc, LoopPc, StepPc, Terminal, Early, Touched
<1>1. ASSUME UNCHANGED vars PROVE UnitsOK'
  BY <1>1 DEF vars
<1>2. CASE Control
  BY <1>2 DEF Control, CtlUpload, CtlUploadFails, CtlApply, CtlCancelUploaded,
     CtlCancelRead, CtlCancelWrite, CtlStart, CtlStartRejected, CtlStartUnknown,
     txn_patch, NewTxn, ControlFree, UpdateLockFree, Busy, NoLines, Mishap
<1>3. CASE Prepare
  BY <1>3 DEF Prepare, ApplyNoop, HonourCancel, ApplyBegin, Extract, BackingUp,
     build_rollback_archive, Border, Applying, Exit, Runner, txn_patch, CancelSeen,
     NoLines, Goto, Smooth
<1>4. CASE Install
  <2>1. CASE Snapshot \/ StopDone \/ atomic_install_file \/ DeployDone \/ Verifying
            \/ DyingRollsBack \/ HealthPasses \/ commit_markers \/ Done
    BY <2>1 DEF Snapshot, StopDone, atomic_install_file, DeployDone, Verifying,
       DyingRollsBack, HealthPasses, commit_markers, Done, Goto, Smooth, Runner,
       txn_patch, Goal, Restored
  <2>2. CASE Unmark \/ (\E u \in Unit : StopUnit(u)) \/ (\E u \in Unit : RestoreUnit(u))
            \/ (\E f \in File : SkipFile(f)) \/ (\E f \in File : journal_append(f))
    BY <2>2 DEF Unmark, StopUnit, RestoreUnit, SkipFile, journal_append, Exit, Runner,
       Goal
  <2> QED BY <1>4, <2>1, <2>2 DEF Install
<1>5. CASE Rollback
  BY <1>5 DEF Rollback, RollbackBegin, RestoreDone, UnitsBack, ConcludeIncomplete,
     ConcludePending, ConcludeClean, RolledBack, RestoreFile, txn_patch, Goto, Smooth,
     Logged, Saved, restart_after_rollback, Restored, Exit, Mishap
<1>6. CASE Recover
  BY <1>6 DEF Recover, RecoverEarly, RecoverBackup, RecoverRollback,
     schedule_boot_verify, RecoverPending, RecoverTerminal, RecoverNoop, txn_patch, Exit, NoLines,
     guard_boot_port_consumers, Goto, Smooth, Goal, DeployComplete, Mishap
<1>7. CASE Verify
  BY <1>7 DEF Verify, VerifyBegin, VerifyNoop, VerifyRolledBack, VerifyHealth, Goto,
     Smooth, VerifyOwed, Exit, txn_patch, Restored
<1>8. CASE Trouble
  <2>1. CASE die \/ StepFails \/ StopBeforeApplyDies \/ InstallFailsLate \/ CommitFails
            \/ ArchiveUnreadable \/ UnitsBackFail \/ RecoverRestartFails
    BY <2>1 DEF die, StepFails, StopBeforeApplyDies, InstallFailsLate, CommitFails,
       ArchiveUnreadable, UnitsBackFail, RecoverRestartFails, txn_patch,
       Exit, Mishap, Goto, Runner, Goal, Logged, Saved, DeployComplete
  <2>2. CASE VerifyGivesUp \/ PowerLoss \/ RunnerKilled
            \/ (\E f \in File : StampUnchanged(f))
            \/ (\E f \in File : RestoreFileFails(f))
            \/ (\E c \in {"apply", "verify"} : LockTimeout(c))
    BY <2>2 DEF VerifyGivesUp, PowerLoss, RunnerKilled, StampUnchanged, RestoreFileFails,
       LockTimeout, Exit, Mishap, NoLines, Runner
  <2>3. ASSUME RecoverBlocked PROVE UnitsOK'
    <3>1. CASE cmd = "boot" /\ port_services # None
      <4>1. svc' = svc /\ port_services' = port_services /\ stage' = stage
        BY <2>3 DEF RecoverBlocked
      <4>2. guard' \cup unguarded' = guard' \cup (Unit \ port_services)
        BY <2>3, <3>1 DEF RecoverBlocked, guard_fails
      <4>3. unguarded = {}
        BY <2>3, <3>1 DEF RecoverBlocked
      <4>4. pc' = "idle"
        BY <2>3 DEF RecoverBlocked, Exit
      <4>5. port_services' # None => stage' \notin Early
        BY <4>1
      <4>6. cmd' = "none" /\ booting' = "units"
        BY <2>3, <3>1 DEF RecoverBlocked, Exit
      <4> QED
        BY <4>1, <4>2, <4>3, <4>4, <4>5, <4>6
    <3>2. CASE ~(cmd = "boot" /\ port_services # None)
      BY <2>3, <3>2 DEF RecoverBlocked, Exit, Mishap
    <3> QED BY <3>1, <3>2
  <2> QED BY <1>8, <2>1, <2>2, <2>3 DEF Trouble
<1>9. CASE Boot
  <2>1. CASE StartRecover \/ (\E c \in {"apply", "verify"} : StartUnitJob(c))
    BY <2>1 DEF StartRecover, StartUnitJob
  <2>2. ASSUME BootUnits PROVE UnitsOK'
    BY <2>2, UnitAssumption DEF BootUnits
  <2> QED BY <1>9, <2>1, <2>2 DEF Boot
<1>10. ASSUME StartReclaim PROVE UnitsOK'
  BY <1>10 DEF StartReclaim
<1> QED BY <1>1, <1>2, <1>3, <1>4, <1>5, <1>6, <1>7, <1>8, <1>9, <1>10 DEF Next, Work


\* Journal and archive hold the old content of what was changed.
LEMMA JournalStep == TypeRest /\ ThreadOK /\ StageOK /\ CleanOK /\ JournalOK /\ LoopOK /\
       ~StagingVanishes /\ [Next]_vars => JournalOK'
<1> SUFFICES ASSUME TypeRest, ThreadOK, StageOK, CleanOK, JournalOK, LoopOK,
       ~StagingVanishes, [Next]_vars PROVE JournalOK'
  OBVIOUS
<1> USE DEF TypeRest, StageOK, CleanOK, JournalOK, UndoKnown, record, disk, locals,
       systemd, user, EarlyPc, LoopPc, StepPc, Terminal, Early, Touched
<1>1. ASSUME UNCHANGED vars PROVE JournalOK'
  BY <1>1 DEF vars
<1>2. CASE Control
  <2>1. CASE CtlUpload \/ CtlUploadFails \/ CtlApply \/ CtlCancelUploaded \/ CtlCancelRead
            \/ CtlCancelWrite \/ CtlStart \/ CtlStartUnknown
    BY <2>1 DEF CtlUpload, CtlUploadFails, CtlApply, CtlCancelUploaded, CtlCancelRead,
       CtlCancelWrite, CtlStart, CtlStartUnknown, txn_patch, NewTxn, ControlFree,
       UpdateLockFree, Busy, NoLines, Mishap
  <2>2. ASSUME CtlStartRejected PROVE JournalOK'
    BY <2>2 DEF CtlStartRejected, txn_patch, Mishap, ThreadOK
  <2> QED BY <1>2, <2>1, <2>2 DEF Control
<1>3. CASE Prepare
  BY <1>3 DEF Prepare, ApplyNoop, HonourCancel, ApplyBegin, Extract, BackingUp,
     build_rollback_archive, Border, Applying, Exit, Runner, txn_patch, CancelSeen,
     NoLines, Goto, Smooth
<1>4. CASE Install
  <2>1. CASE Snapshot \/ StopDone \/ DeployDone \/ Verifying \/ DyingRollsBack
            \/ HealthPasses \/ commit_markers \/ Done \/ Unmark
    BY <2>1 DEF Snapshot, StopDone, DeployDone, Verifying, DyingRollsBack, HealthPasses,
       commit_markers, Done, Unmark, Goto, Smooth, Runner, txn_patch, Restored, Exit
  <2>2. CASE (\E u \in Unit : StopUnit(u)) \/ (\E u \in Unit : RestoreUnit(u))
            \/ (\E f \in File : SkipFile(f))
    BY <2>2 DEF StopUnit, RestoreUnit, SkipFile, Runner, Goal
  <2>3. ASSUME atomic_install_file PROVE JournalOK'
    BY <2>3 DEF atomic_install_file, Goal, LoopOK
  <2>4. ASSUME NEW f \in File, journal_append(f) PROVE JournalOK'
    BY <2>4 DEF journal_append, Goal, LoopOK
  <2> QED BY <1>4, <2>1, <2>2, <2>3, <2>4 DEF Install
<1>5. CASE Rollback
  <2>1. CASE RollbackBegin \/ RestoreDone \/ UnitsBack \/ ConcludeIncomplete
            \/ ConcludePending \/ ConcludeClean \/ RolledBack
    BY <2>1 DEF RollbackBegin, RestoreDone, UnitsBack, ConcludeIncomplete,
       ConcludePending, ConcludeClean, RolledBack, txn_patch, Goto, Smooth, Logged, Saved,
       restart_after_rollback, Restored, Exit, Mishap
  <2>2. ASSUME NEW f \in File, RestoreFile(f) PROVE JournalOK'
    <3>1. tree' = [tree EXCEPT ![f] = base[f]]
      BY <2>2, RestoredOld
    <3> QED BY <2>2, <3>1 DEF RestoreFile
  <2> QED BY <1>5, <2>1, <2>2 DEF Rollback
<1>6. CASE Recover
  BY <1>6 DEF Recover, RecoverEarly, RecoverBackup, RecoverRollback,
     schedule_boot_verify, RecoverPending, RecoverTerminal, RecoverNoop, txn_patch, Exit, NoLines,
     guard_boot_port_consumers, Goto, Smooth, Goal, DeployComplete, Mishap
<1>7. CASE Verify
  BY <1>7 DEF Verify, VerifyBegin, VerifyNoop, VerifyRolledBack, VerifyHealth, Goto,
     Smooth, VerifyOwed, Exit, txn_patch, Restored
<1>8. CASE Trouble
  <2>1. CASE die \/ StepFails \/ StopBeforeApplyDies \/ CommitFails \/ ArchiveUnreadable
            \/ UnitsBackFail \/ RecoverBlocked \/ RecoverRestartFails \/ VerifyGivesUp
    BY <2>1 DEF die, StepFails, StopBeforeApplyDies, CommitFails, ArchiveUnreadable,
       UnitsBackFail, RecoverBlocked, RecoverRestartFails, VerifyGivesUp, txn_patch, Exit,
       Mishap, Goto, Runner, Logged, Saved, Goal, DeployComplete
  <2>2. CASE PowerLoss \/ RunnerKilled \/ (\E f \in File : StampUnchanged(f))
            \/ (\E f \in File : RestoreFileFails(f))
            \/ (\E c \in {"apply", "verify"} : LockTimeout(c))
    BY <2>2 DEF PowerLoss, RunnerKilled, StampUnchanged, RestoreFileFails, LockTimeout,
       Exit, Mishap, NoLines, Runner
  <2>3. ASSUME InstallFailsLate PROVE JournalOK'
    BY <2>3 DEF InstallFailsLate, Goto, Mishap, Goal, LoopOK
  <2> QED BY <1>8, <2>1, <2>2, <2>3 DEF Trouble
<1>9. CASE Boot
  BY <1>9 DEF Boot, StartRecover, BootUnits, StartUnitJob
<1>10. ASSUME StartReclaim PROVE JournalOK'
  BY <1>10 DEF StartReclaim
<1> QED BY <1>1, <1>2, <1>3, <1>4, <1>5, <1>6, <1>7, <1>8, <1>9, <1>10 DEF Next, Work


\* The loops work off their lists.
LEMMA LoopStep == TypeRest /\ ThreadOK /\ StageOK /\ CleanOK /\ JournalOK /\ LoopOK /\
       [Next]_vars => LoopOK'
<1> SUFFICES ASSUME TypeRest, ThreadOK, StageOK, CleanOK, JournalOK, LoopOK, [Next]_vars
       PROVE LoopOK'
  OBVIOUS
<1> USE DEF TypeRest, StageOK, CleanOK, LoopOK, record, disk, locals, systemd, user,
       EarlyPc, LoopPc, StepPc, Terminal, Early, Touched
<1>1. ASSUME UNCHANGED vars PROVE LoopOK'
  BY <1>1 DEF vars, Goal, Logged, Saved
<1>2. CASE Control
  <2>1. CASE CtlUpload \/ CtlUploadFails \/ CtlApply \/ CtlCancelUploaded
    BY <2>1 DEF CtlUpload, CtlUploadFails, CtlApply, CtlCancelUploaded, txn_patch, NewTxn,
       ControlFree, UpdateLockFree, Busy, NoLines, Mishap, Goal, Logged, Saved
  <2>2. CASE CtlCancelRead \/ CtlCancelWrite \/ CtlStart \/ CtlStartRejected
    BY <2>2 DEF CtlCancelRead, CtlCancelWrite, CtlStart, CtlStartRejected, ControlFree,
       txn_patch, Mishap, Goal, Logged, Saved
  <2>3. CASE CtlStartUnknown
    BY <2>3 DEF CtlStartUnknown, Mishap, Goal, Logged, Saved
  <2> QED BY <1>2, <2>1, <2>2, <2>3 DEF Control
<1>3. CASE Prepare
  <2>1. CASE ApplyNoop \/ HonourCancel \/ ApplyBegin \/ Extract
    BY <2>1 DEF ApplyNoop, HonourCancel, ApplyBegin, Extract, Exit, Runner, txn_patch,
       CancelSeen, NoLines, Goto, Smooth, Goal, Logged, Saved
  <2>2. CASE BackingUp \/ build_rollback_archive \/ Border \/ Applying
    BY <2>2 DEF BackingUp, build_rollback_archive, Border, Applying, txn_patch, Goto,
       Smooth, Runner, CancelSeen, Goal, Logged, Saved
  <2> QED BY <1>3, <2>1, <2>2 DEF Prepare
<1>4. CASE Install
  <2>1. CASE Snapshot \/ Verifying \/ DyingRollsBack \/ HealthPasses
    BY <2>1 DEF Snapshot, Verifying, DyingRollsBack, HealthPasses, Goto, Smooth, Runner,
       txn_patch, Restored, Goal, Logged, Saved
  <2>2. CASE commit_markers \/ Done \/ Unmark \/ (\E u \in Unit : StopUnit(u))
    BY <2>2 DEF commit_markers, Done, Unmark, StopUnit, Goto, Smooth, txn_patch, Exit,
       Runner, Goal, Logged, Saved
  <2>3. CASE (\E u \in Unit : RestoreUnit(u)) \/ (\E f \in File : SkipFile(f))
    BY <2>3 DEF RestoreUnit, SkipFile, Goal, Logged, Saved
  <2>4. ASSUME StopDone PROVE LoopOK'
    BY <2>4 DEF StopDone, txn_patch, Goto, Smooth, Runner, Goal, Logged, Saved
  <2>5. ASSUME atomic_install_file PROVE LoopOK'
    BY <2>5 DEF atomic_install_file, Goal, Logged, Saved
  <2>6. ASSUME DeployDone PROVE LoopOK'
    BY <2>6, FileAssumption DEF DeployDone, Goto, Smooth, Runner, Goal, Logged, Saved,
       File
  <2>7. ASSUME NEW f \in File, journal_append(f) PROVE LoopOK'
    BY <2>7 DEF journal_append, Goal, Logged, Saved, Lines, Content
  <2> QED BY <1>4, <2>1, <2>2, <2>3, <2>4, <2>5, <2>6, <2>7 DEF Install
<1>5. CASE Rollback
  <2>1. CASE RestoreDone \/ UnitsBack \/ ConcludeIncomplete \/ ConcludePending
    BY <2>1 DEF RestoreDone, UnitsBack, ConcludeIncomplete, ConcludePending,
       restart_after_rollback, Goto, Smooth, Restored, txn_patch, Exit, Mishap, Goal,
       Logged, Saved
  <2>2. CASE ConcludeClean \/ RolledBack
    BY <2>2 DEF ConcludeClean, RolledBack, Goto, Smooth, txn_patch, Exit, Goal, Logged,
       Saved
  <2>3. ASSUME RollbackBegin PROVE LoopOK'
    BY <2>3, NoneAssumption DEF RollbackBegin, txn_patch, Goto, Smooth, Logged, Saved,
       Goal, JournalOK, UndoKnown, Lines, Content
  <2>4. ASSUME NEW f \in File, RestoreFile(f) PROVE LoopOK'
    <3>1. tree' = [tree EXCEPT ![f] = base[f]]
      BY <2>4, RestoredOld
    <3> QED BY <2>4, <3>1 DEF RestoreFile, Logged, Saved
  <2> QED BY <1>5, <2>1, <2>2, <2>3, <2>4 DEF Rollback
<1>6. CASE Recover
  <2>1. CASE RecoverEarly \/ RecoverBackup \/ RecoverRollback \/ schedule_boot_verify
    BY <2>1 DEF RecoverEarly, RecoverBackup, RecoverRollback, schedule_boot_verify,
       txn_patch, Exit, NoLines, guard_boot_port_consumers, Goto, Smooth, Goal,
       DeployComplete, Mishap, Logged, Saved
  <2>2. CASE RecoverPending \/ RecoverTerminal \/ RecoverNoop
    BY <2>2 DEF RecoverPending, RecoverTerminal, RecoverNoop, Exit, Smooth, Mishap,
       guard_boot_port_consumers, Goal, Logged, Saved
  <2> QED BY <1>6, <2>1, <2>2 DEF Recover
<1>7. CASE Verify
  BY <1>7 DEF Verify, VerifyBegin, VerifyNoop, VerifyRolledBack, VerifyHealth, Goto,
     Smooth, VerifyOwed, Exit, txn_patch, Restored, Goal, Logged, Saved
<1>8. CASE Trouble
  <2>1. CASE die \/ StepFails \/ StopBeforeApplyDies \/ InstallFailsLate
    BY <2>1 DEF die, StepFails, StopBeforeApplyDies, InstallFailsLate, txn_patch, Exit,
       Mishap, Goto, Runner, Goal, Logged, Saved
  <2>2. CASE CommitFails \/ ArchiveUnreadable \/ UnitsBackFail \/ RecoverBlocked
    BY <2>2 DEF CommitFails, ArchiveUnreadable, UnitsBackFail, RecoverBlocked, Exit,
       Mishap, Logged, Saved, Goto, Runner, Goal
  <2>3. CASE RecoverRestartFails \/ VerifyGivesUp \/ PowerLoss \/ RunnerKilled
    BY <2>3 DEF RecoverRestartFails, VerifyGivesUp, PowerLoss, RunnerKilled, Goto, Mishap,
       Runner, Goal, DeployComplete, Exit, NoLines, Logged, Saved
  <2>4. CASE (\E f \in File : RestoreFileFails(f))
            \/ (\E c \in {"apply", "verify"} : LockTimeout(c))
    BY <2>4 DEF RestoreFileFails, LockTimeout, Mishap, Goal, Logged, Saved
  <2>5. ASSUME NEW f \in File, StampUnchanged(f) PROVE LoopOK'
    BY <2>5, FileAssumption DEF StampUnchanged, Mishap, Runner, Goal, Logged, Saved, File
  <2> QED BY <1>8, <2>1, <2>2, <2>3, <2>4, <2>5 DEF Trouble
<1>9. CASE Boot
  <2>1. CASE BootUnits
    BY <2>1 DEF BootUnits, Goal, Logged, Saved
  <2>2. ASSUME StartRecover PROVE LoopOK'
    BY <2>2 DEF StartRecover, Goal, Logged, Saved, ThreadOK
  <2>3. ASSUME NEW c \in {"apply", "verify"}, StartUnitJob(c) PROVE LoopOK'
    BY <2>3 DEF StartUnitJob, Goal, Logged, Saved, ThreadOK
  <2> QED BY <1>9, <2>1, <2>2, <2>3 DEF Boot
<1>10. ASSUME StartReclaim PROVE LoopOK'
  BY <1>10 DEF StartReclaim, Goal, Logged, Saved, ThreadOK
<1> QED BY <1>1, <1>2, <1>3, <1>4, <1>5, <1>6, <1>7, <1>8, <1>9, <1>10 DEF Next, Work


\* Only a step that finds all units of the snapshot running ends well.
LEMMA SettleStep == TypeRest /\ StageOK /\ UnitsOK /\ [Next]_vars => SettlesBack
<1> SUFFICES ASSUME TypeRest, StageOK, UnitsOK, [Next]_vars PROVE SettlesBack
  OBVIOUS
<1> USE DEF SettlesBack, Settles, record, disk, locals, systemd, user, EarlyPc, LoopPc,
       StepPc, Terminal, Early, Touched
<1>1. ASSUME UNCHANGED vars PROVE SettlesBack
  BY <1>1 DEF vars
<1>2. CASE Control
  BY <1>2 DEF Control, CtlUpload, CtlUploadFails, CtlApply, CtlCancelUploaded,
     CtlCancelRead, CtlCancelWrite, CtlStart, CtlStartRejected, CtlStartUnknown,
     txn_patch, NewTxn, ControlFree, UpdateLockFree, Busy, NoLines, Mishap
<1>3. CASE Prepare
  BY <1>3 DEF Prepare, ApplyNoop, HonourCancel, ApplyBegin, Extract, BackingUp,
     build_rollback_archive, Border, Applying, Exit, Runner, txn_patch, CancelSeen,
     NoLines, Goto, Smooth
<1>4. CASE Install
  <2>1. CASE Snapshot \/ StopDone \/ atomic_install_file \/ DeployDone \/ Verifying
            \/ DyingRollsBack \/ HealthPasses \/ commit_markers \/ Unmark
    BY <2>1 DEF Snapshot, StopDone, atomic_install_file, DeployDone, Verifying,
       DyingRollsBack, HealthPasses, commit_markers, Unmark, Goto, Smooth, Runner,
       txn_patch, Goal, Restored, Exit
  <2>2. CASE (\E u \in Unit : StopUnit(u)) \/ (\E u \in Unit : RestoreUnit(u))
            \/ (\E f \in File : SkipFile(f)) \/ (\E f \in File : journal_append(f))
    BY <2>2 DEF StopUnit, RestoreUnit, SkipFile, journal_append, Runner, Goal
  <2>3. ASSUME Done PROVE SettlesBack
    BY <2>3 DEF Done, txn_patch, Goto, Smooth, StageOK, UnitsOK, Unsettled
  <2> QED BY <1>4, <2>1, <2>2, <2>3 DEF Install
<1>5. CASE Rollback
  <2>1. CASE RollbackBegin \/ RestoreDone \/ UnitsBack \/ ConcludeIncomplete
            \/ ConcludePending \/ ConcludeClean \/ (\E f \in File : RestoreFile(f))
    BY <2>1 DEF RollbackBegin, RestoreDone, UnitsBack, ConcludeIncomplete,
       ConcludePending, ConcludeClean, RestoreFile, txn_patch, Goto, Smooth, Logged,
       Saved, restart_after_rollback, Restored, Exit, Mishap
  <2>2. ASSUME RolledBack PROVE SettlesBack
    BY <2>2 DEF RolledBack, txn_patch, Exit, StageOK, UnitsOK, Unsettled
  <2> QED BY <1>5, <2>1, <2>2 DEF Rollback
<1>6. CASE Recover
  BY <1>6 DEF Recover, RecoverEarly, RecoverBackup, RecoverRollback,
     schedule_boot_verify, RecoverPending, RecoverTerminal, RecoverNoop, txn_patch, Exit, NoLines,
     guard_boot_port_consumers, Goto, Smooth, Goal, DeployComplete, Mishap
<1>7. CASE Verify
  <2>1. CASE VerifyBegin \/ VerifyNoop \/ VerifyHealth
    BY <2>1 DEF VerifyBegin, VerifyNoop, VerifyHealth, Goto, Smooth, VerifyOwed, Exit,
       txn_patch, Restored
  <2>2. ASSUME VerifyRolledBack PROVE SettlesBack
    BY <2>2 DEF VerifyRolledBack, txn_patch, Goto, Smooth, Restored, StageOK, UnitsOK,
       Unsettled
  <2> QED BY <1>7, <2>1, <2>2 DEF Verify
<1>8. CASE Trouble
  <2>1. CASE die \/ StepFails \/ StopBeforeApplyDies \/ InstallFailsLate \/ CommitFails
            \/ ArchiveUnreadable \/ UnitsBackFail \/ RecoverBlocked \/ RecoverRestartFails
    BY <2>1 DEF die, StepFails, StopBeforeApplyDies, InstallFailsLate, CommitFails,
       ArchiveUnreadable, UnitsBackFail, RecoverBlocked, RecoverRestartFails, txn_patch,
       Exit, Mishap, Goto, Runner, Goal, Logged, Saved, DeployComplete
  <2>2. CASE VerifyGivesUp \/ PowerLoss \/ RunnerKilled
            \/ (\E f \in File : StampUnchanged(f))
            \/ (\E f \in File : RestoreFileFails(f))
            \/ (\E c \in {"apply", "verify"} : LockTimeout(c))
    BY <2>2 DEF VerifyGivesUp, PowerLoss, RunnerKilled, StampUnchanged, RestoreFileFails,
       LockTimeout, Exit, Mishap, NoLines, Runner
  <2> QED BY <1>8, <2>1, <2>2 DEF Trouble
<1>9. CASE Boot
  BY <1>9 DEF Boot, StartRecover, BootUnits, StartUnitJob
<1>10. ASSUME StartReclaim PROVE SettlesBack
  BY <1>10 DEF StartReclaim
<1> QED BY <1>1, <1>2, <1>3, <1>4, <1>5, <1>6, <1>7, <1>8, <1>9, <1>10 DEF Next, Work


\* The old board has its types, and nothing is under way.
LEMMA InitInv == Init => Inv
<1> SUFFICES ASSUME Init PROVE Inv
  OBVIOUS
<1> USE DEF Init
<1>1. TypeFlags
  BY DEF TypeFlags
<1>2. TypeRest
  BY BoundAssumption DEF TypeRest, Stages, Terminal, Early, Touched, Pcs, EarlyPc, StepPc, LoopPc,
     Lines, Content, NoLines
<1>3. ThreadOK /\ StageOK
  BY DEF ThreadOK, StageOK, EarlyPc, LoopPc, Touched
<1>4. CleanOK /\ MarkerOK
  BY DEF CleanOK, MarkerOK, MixedMarked
<1>5. JournalOK
  BY DEF JournalOK, UndoKnown, NoLines
<1>6. LoopOK
  BY DEF LoopOK, LoopPc
<1>7. CommitExact /\ CancelOK /\ CancelHonoured /\ CancelNotStale
  BY DEF CommitExact, CancelOK, CancelHonoured, CancelNotStale
<1>8. UnitsOK
  BY DEF UnitsOK, Unsettled, Touched
<1>9. TypeOK
  BY <1>1, <1>2 DEF TypeOK, TypeFlags, TypeRest
<1> QED BY <1>3, <1>4, <1>5, <1>6, <1>7, <1>8, <1>9 DEF Inv

\* No step leaves the invariant where staging survives a power loss.
LEMMA InvStep == Inv /\ ~StagingVanishes /\ [Next]_vars => Inv'
<1> SUFFICES ASSUME Inv, ~StagingVanishes, [Next]_vars PROVE Inv'
  OBVIOUS
<1> USE DEF Inv
<1>1. TypeFlags /\ TypeRest
  BY DEF TypeOK, TypeFlags, TypeRest
<1>2. TypeFlags'
  BY <1>1, FlagStep
<1>3. TypeRest'
  BY <1>1, RestStep
<1>4. TypeOK'
  BY <1>2, <1>3 DEF TypeOK, TypeFlags, TypeRest
<1>5. ThreadOK' /\ StageOK'
  BY <1>1, ThreadStep, StageStep
<1>6. CleanOK' /\ JournalOK' /\ LoopOK'
  BY <1>1, CleanStep, JournalStep, LoopStep
<1>7. CommitExact' /\ MarkerOK'
  BY <1>1, CommitStep, MarkerStep
<1>8. (CancelOK /\ CancelHonoured /\ CancelNotStale)'
  BY <1>1, CancelStep
<1>9. UnitsOK'
  BY <1>1, UnitsStep
<1> QED BY <1>4, <1>5, <1>6, <1>7, <1>8, <1>9

--------------------------------------------------------------------------------
\* The strengthened invariant all the following results rest on is inductive.
THEOREM InvHolds == ASSUME ~StagingVanishes PROVE Spec => []Inv
<1>1. Init => Inv
  BY InitInv
<1>2. Inv /\ [Next]_vars => Inv'
  BY InvStep
<1> QED BY <1>1, <1>2, PTL DEF Spec

\* transaction.json, the disk, the runner, the controller and systemd stay
\* within their types, for packages and boards of any size.
THEOREM TypeCorrect == ASSUME ~StagingVanishes PROVE Spec => []TypeOK
<1>1. Inv => TypeOK
  BY DEF Inv
<1> QED BY <1>1, InvHolds, PTL

\* rolled_back is never recorded over a partly restored tree: every file is
\* what it was, whatever number of power losses, kills and failed steps came.
THEOREM RollbackRestores == ASSUME ~StagingVanishes PROVE Spec => []RollbackExact
<1>1. Inv => RollbackExact
  BY DEF Inv, CleanOK, RollbackExact
<1> QED BY <1>1, InvHolds, PTL

\* A tree that reaches verifying is the package's, file by file, to the end.
THEOREM CommitComplete == ASSUME ~StagingVanishes PROVE Spec => []CommitExact
<1>1. Inv => CommitExact
  BY DEF Inv
<1> QED BY <1>1, InvHolds, PTL

\* The old content of every changed file is in a backup the journal names.
THEOREM UndoAlwaysKnown == ASSUME ~StagingVanishes PROVE Spec => []UndoKnown
<1>1. Inv => UndoKnown
  BY DEF Inv, JournalOK
<1> QED BY <1>1, InvHolds, PTL

\* The maintenance marker covers every mixed tree, also after a power loss.
THEOREM MixedTreeMarked == ASSUME ~StagingVanishes PROVE Spec => []MixedMarked
<1>1. Inv => MixedMarked
  BY DEF Inv, MarkerOK
<1> QED BY <1>1, InvHolds, PTL

\* An accepted cancellation is honoured although controller and runner only
\* share a lock at the border.
THEOREM CancelKept == ASSUME ~StagingVanishes PROVE Spec => []CancelHonoured
<1>1. Inv => CancelHonoured
  BY DEF Inv
<1> QED BY <1>1, InvHolds, PTL

\* No transaction is cancelled by the cancel file of an earlier one.
THEOREM CancelFresh == ASSUME ~StagingVanishes PROVE Spec => []CancelNotStale
<1>1. Inv => CancelNotStale
  BY DEF Inv
<1> QED BY <1>1, InvHolds, PTL

\* An update ends done or rolled_back only when every service it stopped runs
\* again; no other was started than those its restart list names and those the
\* boot could not be kept from starting.
THEOREM ServicesKept == ASSUME ~StagingVanishes PROVE Spec => ServicesBack
<1>1. Inv => TypeRest /\ StageOK /\ UnitsOK
  BY DEF Inv, TypeOK, TypeRest
<1>2. Inv /\ [Next]_vars => [SettlesBack]_vars
  BY <1>1, SettleStep
<1>3. ServicesBack <=> [][SettlesBack]_vars
  BY PTL DEF ServicesBack, SettlesBack
<1> QED BY <1>2, <1>3, InvHolds, PTL DEF Spec

--------------------------------------------------------------------------------
(* UpdateTransaction implements AtomicBoard.                                *)

\* From the first file to the commit the marker is there, on disk too.
UnderWayMarked == stage \in {"applying", "verifying", "committing"} => marker /\ markerDisk

\* Every step keeps it.
LEMMA UnderWayStep == TypeRest /\ StageOK /\ MarkerOK /\ UnderWayMarked /\ [Next]_vars
                      => UnderWayMarked'
<1> SUFFICES ASSUME TypeRest, StageOK, MarkerOK, UnderWayMarked, [Next]_vars
             PROVE  UnderWayMarked'
  OBVIOUS
<1> USE DEF StageOK, UnderWayMarked, record, disk, locals, systemd, user, Terminal, Early,
       Touched
<1>1. ASSUME UNCHANGED vars PROVE UnderWayMarked'
  BY <1>1 DEF vars
<1>2. CASE Control
  BY <1>2 DEF Control, CtlUpload, CtlUploadFails, CtlApply, CtlCancelUploaded,
     CtlCancelRead, CtlCancelWrite, CtlStart, CtlStartRejected, CtlStartUnknown,
     txn_patch, NewTxn
<1>3. CASE Prepare
  BY <1>3 DEF Prepare, ApplyNoop, HonourCancel, ApplyBegin, Extract, BackingUp,
     build_rollback_archive, Border, Applying, Runner, txn_patch, MarkerOK, Goto
<1>4. CASE Install
  BY <1>4 DEF Install, Snapshot, StopDone, atomic_install_file, DeployDone, Verifying,
     DyingRollsBack, HealthPasses, commit_markers, Done, Unmark, StopUnit, RestoreUnit,
     SkipFile, journal_append, Runner, txn_patch
<1>5. CASE Rollback
  BY <1>5 DEF Rollback, RollbackBegin, RestoreDone, UnitsBack, ConcludeIncomplete,
     ConcludePending, ConcludeClean, RolledBack, RestoreFile, txn_patch
<1>6. CASE Recover
  BY <1>6 DEF Recover, RecoverEarly, RecoverBackup, RecoverRollback,
     schedule_boot_verify, RecoverPending, RecoverTerminal, RecoverNoop, txn_patch
<1>7. CASE Verify
  BY <1>7 DEF Verify, VerifyBegin, VerifyNoop, VerifyRolledBack, VerifyHealth, txn_patch
<1>8. CASE Trouble
  BY <1>8 DEF Trouble, die, StepFails, StopBeforeApplyDies, InstallFailsLate, CommitFails,
     ArchiveUnreadable, UnitsBackFail, RecoverBlocked, RecoverRestartFails, VerifyGivesUp,
     PowerLoss, RunnerKilled, StampUnchanged, RestoreFileFails, LockTimeout, txn_patch
<1>9. CASE Boot \/ StartReclaim
  BY <1>9 DEF Boot, StartRecover, BootUnits, StartUnitJob, StartReclaim
<1> QED BY <1>1, <1>2, <1>3, <1>4, <1>5, <1>6, <1>7, <1>8, <1>9 DEF Next, Work

\* What AtomicBoard sees as the board's release, and as the package's files.
Release == IF stage = "done" THEN tree ELSE base
Package == [f \in File |-> Goal(f)]

\* One file is written to the package's content or to the old one.
LEMMA WriteMaps ==
    ASSUME NEW f \in File, NEW c \in {Goal(f), base[f]}, marker, stage # "done",
           tree' = [tree EXCEPT ![f] = c],
           UNCHANGED <<stage, base, txn, marker>>
    PROVE  Board!Write(f)
<1>1. Release = base /\ Release' = base /\ Package' = Package /\ Package[f] = Goal(f)
  BY DEF Release, Package, Goal
<1> QED BY <1>1 DEF Release, Package, Board!Write

\* A package is accepted only when no file is out of place.
LEMMA AcceptMaps ==
    ASSUME TypeRest, MixedMarked, ~marker, NEW s, s # "done", NewTxn(s),
           UNCHANGED <<tree, marker>>
    PROVE  Board!Accept
<1>1. Release = tree /\ Release' = tree
  BY DEF MixedMarked, NewTxn, txn_patch, Release
<1>2. Package' \in [File -> 0 .. MaxTxn + 1]
  BY BoundAssumption DEF Package, Goal, NewTxn, TypeRest
<1> QED BY <1>1, <1>2 DEF Board!Accept, Release, Package, Content

\* The marker may go when every file is the release's.
LEMMA LeaveMaps ==
    (stage = "done" \/ tree = base) /\ marker' = FALSE /\ UNCHANGED <<stage, base, txn, tree>>
        => Board!Leave
BY DEF Board!Leave, Goal

\* A step that neither touches a file nor the marker nor commits is not seen.
Unseen == UNCHANGED <<tree, base, txn, marker>> /\ (stage' = "done" <=> stage = "done")

\* Every step is a step of AtomicBoard, or is not seen by it.
LEMMA BoardStep == Inv /\ UnderWayMarked /\ [Next]_vars => Board!Next \/ Unseen
<1> SUFFICES ASSUME Inv, UnderWayMarked, [Next]_vars PROVE Board!Next \/ Unseen
  OBVIOUS
<1> USE DEF Inv, StageOK, record, disk, locals, systemd, user, Terminal, Early, Touched,
       EarlyPc, LoopPc
<1>0. TypeRest /\ MixedMarked
  BY DEF TypeOK, TypeRest, MarkerOK
<1>1. ASSUME UNCHANGED vars PROVE Unseen
  BY <1>1 DEF vars, Unseen
<1>2. CASE Control
  <2>1. ASSUME CtlUpload \/ CtlApply PROVE Board!Next
    <3>1. PICK s \in {"uploaded", "validating"} : NewTxn(s)
      BY <2>1 DEF CtlUpload, CtlApply
    <3>2. Board!Accept
      BY <1>0, <2>1, <3>1, AcceptMaps DEF CtlUpload, CtlApply
    <3> QED BY <3>2 DEF Board!Next
  <2>2. CASE CtlUploadFails \/ CtlCancelUploaded \/ CtlCancelRead \/ CtlCancelWrite
             \/ CtlStart \/ CtlStartRejected \/ CtlStartUnknown
    BY <2>2 DEF CtlUploadFails, CtlCancelUploaded, CtlCancelRead, CtlCancelWrite,
       CtlStart, CtlStartRejected, CtlStartUnknown, txn_patch, ThreadOK, Unseen
  <2> QED BY <1>2, <2>1, <2>2 DEF Control
<1>3. CASE Prepare
  <2>1. ASSUME Border PROVE Board!Next
    <3>1. Board!Enter
      BY <2>1 DEF Border, Board!Enter, Goal
    <3> QED BY <3>1 DEF Board!Next
  <2>2. CASE ApplyNoop \/ HonourCancel \/ ApplyBegin \/ Extract \/ BackingUp
             \/ build_rollback_archive \/ Applying
    BY <2>2 DEF ApplyNoop, HonourCancel, ApplyBegin, Extract, BackingUp,
       build_rollback_archive, Applying, Runner, CancelSeen, txn_patch, Unseen
  <2> QED BY <1>3, <2>1, <2>2 DEF Prepare
<1>4. CASE Install
  <2>1. ASSUME atomic_install_file PROVE Board!Next
    <3>1. cur \in File /\ marker /\ stage = "applying"
      BY <1>0, <2>1 DEF atomic_install_file, TypeRest, MarkerOK
    <3>2. Board!Write(cur)
      BY <2>1, <3>1, WriteMaps DEF atomic_install_file
    <3> QED BY <3>1, <3>2 DEF Board!Next
  <2>2. ASSUME Done PROVE Board!Next
    <3>1. stage = "committing" /\ marker
      BY <2>2 DEF Done, UnderWayMarked
    <3>2. \A f \in File \ Stamp : tree[f] = Package[f]
      BY <3>1 DEF CommitExact, File, Package
    <3>3. Release' = tree /\ Package' = Package /\ UNCHANGED <<tree, marker>>
      BY <2>2 DEF Done, txn_patch, Release, Package, Goal
    <3>4. Board!Commit
      BY <3>1, <3>2, <3>3 DEF Board!Commit, Release, Package
    <3> QED BY <3>4 DEF Board!Next
  <2>3. ASSUME Unmark PROVE Board!Next
    <3>1. Board!Leave
      BY <2>3, LeaveMaps DEF Unmark, CleanOK
    <3> QED BY <3>1 DEF Board!Next
  <2>4. CASE Snapshot \/ StopDone \/ DeployDone \/ Verifying \/ DyingRollsBack \/ HealthPasses
             \/ commit_markers \/ (\E u \in Unit : StopUnit(u) \/ RestoreUnit(u))
             \/ (\E f \in File : SkipFile(f) \/ journal_append(f))
    BY <2>4 DEF Snapshot, StopDone, DeployDone, Verifying, DyingRollsBack, HealthPasses,
       commit_markers, StopUnit, RestoreUnit, SkipFile, journal_append, Runner, txn_patch,
       Unseen
  <2> QED BY <1>4, <2>1, <2>2, <2>3, <2>4 DEF Install
<1>5. CASE Rollback
  <2>1. ASSUME NEW f \in File, RestoreFile(f) PROVE Board!Next \/ Unseen
    <3>1. tree' = [tree EXCEPT ![f] = base[f]] /\ stage = "rolling_back"
      BY <1>0, <2>1, RestoredOld DEF RestoreFile
    <3>2. CASE tree = base
      BY <1>0, <2>1, <3>1, <3>2 DEF RestoreFile, TypeRest, Unseen
    <3>3. CASE tree # base
      <4>1. Board!Write(f)
        BY <1>0, <2>1, <3>1, <3>3, WriteMaps DEF RestoreFile, MixedMarked
      <4> QED BY <4>1 DEF Board!Next
    <3> QED BY <3>2, <3>3
  <2>2. ASSUME ConcludeClean PROVE Board!Next
    <3>1. Board!Leave
      BY <2>2, LeaveMaps DEF ConcludeClean, LoopOK
    <3> QED BY <3>1 DEF Board!Next
  <2>3. CASE RollbackBegin \/ RestoreDone \/ UnitsBack \/ ConcludeIncomplete
             \/ ConcludePending \/ RolledBack
    BY <2>3 DEF RollbackBegin, RestoreDone, UnitsBack, ConcludeIncomplete, ConcludePending,
       RolledBack, txn_patch, Unseen
  <2> QED BY <1>5, <2>1, <2>2, <2>3 DEF Rollback
<1>6. CASE Recover
  <2>1. ASSUME RecoverTerminal PROVE Board!Next
    <3>1. Board!Leave
      BY <2>1, LeaveMaps DEF RecoverTerminal, CleanOK
    <3> QED BY <3>1 DEF Board!Next
  <2>2. CASE RecoverEarly \/ RecoverBackup \/ RecoverRollback \/ schedule_boot_verify
             \/ RecoverPending \/ RecoverNoop
    BY <2>2 DEF RecoverEarly, RecoverBackup, RecoverRollback, schedule_boot_verify,
       RecoverPending, RecoverNoop, txn_patch, Unseen
  <2> QED BY <1>6, <2>1, <2>2 DEF Recover
<1>7. CASE Verify
  BY <1>7 DEF Verify, VerifyBegin, VerifyNoop, VerifyRolledBack, VerifyHealth, txn_patch,
     Unseen
<1>8. CASE Trouble
  <2>1. ASSUME InstallFailsLate PROVE Board!Next
    <3>1. cur \in File /\ marker /\ stage = "applying"
      BY <1>0, <2>1 DEF InstallFailsLate, TypeRest, MarkerOK
    <3>2. Board!Write(cur)
      BY <2>1, <3>1, WriteMaps DEF InstallFailsLate
    <3> QED BY <3>1, <3>2 DEF Board!Next
  <2>2. ASSUME PowerLoss PROVE Board!Next
    <3>1. UNCHANGED <<stage, base, txn, tree>>
      BY <2>2 DEF PowerLoss
    <3>2. CASE marker' = TRUE
      <4>1. Board!Enter
        BY <3>1, <3>2 DEF Board!Enter, Goal
      <4> QED BY <4>1 DEF Board!Next
    <3>3. CASE marker' = FALSE
      <4>1. stage = "done" \/ tree = base
        BY <1>0, <2>2, <3>3 DEF PowerLoss, MixedMarked
      <4>2. Board!Leave
        BY <3>1, <3>3, <4>1, LeaveMaps
      <4> QED BY <4>2 DEF Board!Next
    <3> QED BY <2>2, <3>2, <3>3 DEF PowerLoss, TypeOK
  <2>3. CASE die \/ StepFails \/ StopBeforeApplyDies \/ CommitFails \/ ArchiveUnreadable
             \/ UnitsBackFail \/ RecoverBlocked \/ RecoverRestartFails \/ VerifyGivesUp
             \/ RunnerKilled \/ (\E f \in File : StampUnchanged(f) \/ RestoreFileFails(f))
             \/ (\E c \in {"apply", "verify"} : LockTimeout(c))
    BY <2>3 DEF die, StepFails, StopBeforeApplyDies, CommitFails, ArchiveUnreadable,
       UnitsBackFail, RecoverBlocked, RecoverRestartFails, VerifyGivesUp, RunnerKilled,
       StampUnchanged, RestoreFileFails, LockTimeout, Runner, txn_patch, Unseen
  <2> QED BY <1>8, <2>1, <2>2, <2>3 DEF Trouble
<1>9. CASE Boot \/ StartReclaim
  BY <1>9 DEF Boot, StartRecover, BootUnits, StartUnitJob, StartReclaim, Unseen
<1> QED BY <1>1, <1>2, <1>3, <1>4, <1>5, <1>6, <1>7, <1>8, <1>9 DEF Next, Work

\* The updater implements the atomic board: whatever fails, is killed or loses
\* power, for every package, the board goes from release to release at once.
THEOREM Implements == ASSUME ~StagingVanishes PROVE Spec => AtomicUpdate
<1>1. Init => Board!Init /\ UnderWayMarked
  <2> SUFFICES ASSUME Init PROVE Board!Init /\ UnderWayMarked
    OBVIOUS
  <2>1. tree \in [File -> Content] /\ Package \in [File -> Content]
    BY BoundAssumption DEF Init, Content, Package, Goal
  <2> QED BY <2>1 DEF Init, Board!Init, UnderWayMarked, Package, Content
<1>2. Inv => TypeRest /\ StageOK /\ MarkerOK
  BY DEF Inv, TypeOK, TypeRest
<1>3. Inv /\ UnderWayMarked /\ [Next]_vars => [Board!Next]_<<Release, tree, Package, marker>>
  BY BoardStep DEF Unseen, Release, Package, Goal
<1>4. [][Board!Next]_<<Release, tree, Package, marker>> /\ Board!Init => AtomicUpdate
  BY PTL DEF AtomicUpdate, Board!Spec, Release, Package
<1> QED BY <1>1, <1>2, <1>3, <1>4, UnderWayStep, InvHolds, PTL DEF Spec

\* What AtomicBoard promises by itself: a board that is not busy is at its
\* release, and a file holds its old or its new content.
THEOREM BoardSound == Board!Spec => [](Board!TypeOK /\ Board!Whole /\ Board!OldOrNew)
<1> DEFINE Sound == Board!TypeOK /\ Board!Whole /\ Board!OldOrNew
           seen == <<Release, tree, Package, marker>>
<1>1. Board!Init => Sound
  BY DEF Board!Init, Board!TypeOK, Board!Whole, Board!OldOrNew
<1>2. Sound /\ [Board!Next]_seen => Sound'
  <2> SUFFICES ASSUME Sound, [Board!Next]_seen PROVE Sound'
    OBVIOUS
  <2> USE DEF Board!TypeOK, Board!Whole, Board!OldOrNew
  <2>1. CASE Board!Accept
    BY <2>1 DEF Board!Accept
  <2>2. CASE Board!Enter \/ Board!Leave
    BY <2>2 DEF Board!Enter, Board!Leave
  <2>3. ASSUME NEW f \in File, Board!Write(f) PROVE Sound'
    BY <2>3 DEF Board!Write
  <2>4. CASE Board!Commit
    BY <2>4 DEF Board!Commit
  <2>5. CASE UNCHANGED seen
    BY <2>5 DEF Release, Package
  <2> QED BY <2>1, <2>2, <2>3, <2>4, <2>5 DEF Board!Next
<1>3. Board!Spec => Board!Init /\ [][Board!Next]_seen
  BY PTL DEF Board!Spec, Release, Package
<1> QED BY <1>1, <1>2, <1>3, PTL

\* Until the transaction is done every installed file holds its old content or
\* the package's, never a third one, however often the rollback of an interrupted
\* update is itself interrupted.
THEOREM NoThirdContent ==
    ASSUME ~StagingVanishes
    PROVE  Spec => [](stage # "done" => \A f \in File : tree[f] \in {base[f], Goal(f)})
<1>1. Board!OldOrNew => (stage # "done" => \A f \in File : tree[f] \in {base[f], Goal(f)})
  BY DEF Board!OldOrNew
<1> QED BY <1>1, Implements, BoardSound, PTL DEF AtomicUpdate

\* Whoever finds no maintenance declared finds a whole release: the one before
\* the transaction or the one it has installed.
THEOREM WholeUnlessMarked ==
    ASSUME ~StagingVanishes PROVE Spec => [](~marker => tree = Release)
<1>1. Board!Whole => (~marker => tree = Release)
  BY DEF Board!Whole, Release
<1> QED BY <1>1, Implements, BoardSound, PTL DEF AtomicUpdate
================================================================================
