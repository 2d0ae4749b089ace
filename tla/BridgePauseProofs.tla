-------------------------- MODULE BridgePauseProofs --------------------------
(***************************************************************************)
(* Proofs about BridgePause: the types and the reference count for any     *)
(* number of overlapping holders, workers and handles; the silence of a    *)
(* paused line for one holder at a time, any number of workers and any     *)
(* pool.  For overlapping holders the latter does not hold.                *)
(***************************************************************************)
EXTENDS BridgePause, FiniteSetTheorems, TLAPS

\* The holders the reference count stands for.
Counted == {k \in Holder : hpc[k] \in {"mark", "snapshot", "hold", "acked"} \cup Handle}

CountOK == count = Cardinality(Counted)

\* A use of the line is a use of a pooled handle.
PoolOK == \A w \in Worker : wpc[w] # "idle" => Uses[w] \in pool

Inv == TypeOK /\ CountOK /\ PoolOK

\* The count of a finite set with one holder more, or one less.
LEMMA CountedChanges ==
    ASSUME NEW S, IsFiniteSet(S), NEW k
    PROVE  /\ Cardinality(S) \in Nat
           /\ k \notin S => Cardinality(S \cup {k}) = Cardinality(S) + 1
           /\ k \in S => /\ Cardinality(S \ {k}) = Cardinality(S) - 1
                         /\ Cardinality(S) >= 1
                         /\ Cardinality(S) > 1 => S \ {k} # {}
<1>1. Cardinality(S) \in Nat /\ (k \notin S => Cardinality(S \cup {k}) = Cardinality(S) + 1)
  BY FS_CardinalityType, FS_AddElement
<1>2. k \in S => Cardinality(S \ {k}) = Cardinality(S) - 1
  BY FS_RemoveElement
<1>3. IsFiniteSet(S \ {k}) /\ Cardinality(S \ {k}) \in Nat
  BY FS_RemoveElement, FS_CardinalityType, FS_Subset
<1>4. Cardinality(S \ {k}) # 0 => S \ {k} # {}
  BY FS_EmptySet
<1> QED BY <1>1, <1>2, <1>3, <1>4

\* The counted holders are finitely many, no more than there are.
LEMMA CountedFinite ==
    /\ IsFiniteSet(Counted) /\ Cardinality(Counted) \in 0 .. Cardinality(Holder)
    /\ Cardinality(Holder) \in Nat
<1>1. Counted \subseteq Holder
  BY DEF Counted
<1> QED BY <1>1, PauseAssumption, FS_Subset, FS_CardinalityType

\* The same in the next state.
LEMMA CountedFiniteNext ==
    IsFiniteSet(Counted') /\ Cardinality(Counted') \in 0 .. Cardinality(Holder)
<1>1. Counted' \subseteq Holder
  BY DEF Counted
<1> QED BY <1>1, PauseAssumption, FS_Subset, FS_CardinalityType

\* The reference count keeps counting the holders that are not resuming.
LEMMA CountStep == Inv /\ [Next]_vars => CountOK'
<1> SUFFICES ASSUME Inv, [Next]_vars PROVE CountOK'
  OBVIOUS
<1> USE PauseAssumption DEF Inv, TypeOK, CountOK, HolderPC, Goto, line
<1>0. IsFiniteSet(Counted) /\ Cardinality(Counted) \in Nat
  BY CountedFinite
<1>1. ASSUME Counted' = Counted, count' = count PROVE CountOK'
  BY <1>1
<1>2. ASSUME NEW k \in Holder, Count(k) PROVE CountOK'
  <2>1. k \notin Counted /\ Counted' = Counted \cup {k}
    BY <1>2 DEF Count, Counted
  <2> QED BY <1>0, <1>2, <2>1, CountedChanges DEF Count
<1>3. ASSUME NEW k \in Holder, NEW h \in Handle, HoldRaise(k, h) PROVE CountOK'
  <2>1. k \in Counted /\ Counted' = Counted \ {k}
    BY <1>3 DEF HoldRaise, Counted
  <2> QED BY <1>0, <1>3, <2>1, CountedChanges DEF HoldRaise
<1>4. ASSUME NEW k \in Holder, Uncount(k) PROVE CountOK'
  <2>1. k \in Counted /\ Counted' = Counted \ {k}
    BY <1>4 DEF Uncount, Counted
  <2>2. Cardinality(Counted') = count - 1 /\ count \in Nat /\ count >= 1
    BY <1>0, <2>1, CountedChanges
  <2> QED BY <1>4, <2>2 DEF Uncount
<1>5. ASSUME NEW k \in Holder, Mark(k) \/ Snapshot(k) \/ Park(k) PROVE CountOK'
  BY <1>1, <1>5 DEF Mark, Snapshot, Park, Counted
<1>6. ASSUME NEW k \in Holder, NEW h \in Handle, HoldSet(k, h) \/ HoldClose(k, h) PROVE CountOK'
  BY <1>1, <1>6 DEF HoldSet, HoldClose, Counted
<1>7. ASSUME NEW k \in Holder, Unmark(k) \/ Unsnapshot(k) \/ Unpark(k) PROVE CountOK'
  BY <1>1, <1>7 DEF Unmark, Unsnapshot, Unpark, Counted
<1>8. ASSUME NEW k \in Holder, NEW h \in Handle, HoldClear(k, h) PROVE CountOK'
  BY <1>1, <1>8 DEF HoldClear, Counted
<1>9. ASSUME NEW w \in Worker, WorkerStep(w) PROVE CountOK'
  BY <1>1, <1>9 DEF WorkerStep, GetHandle, CheckHeld, MarkHandle, Refuse, Transact, Finish,
                    Counted
<1>10. CASE UNCHANGED vars
  BY <1>1, <1>10 DEF vars, Counted
<1> QED BY <1>2, <1>3, <1>4, <1>5, <1>6, <1>7, <1>8, <1>9, <1>10
        DEF Next, PauseStep, ResumeStep

\* Every step keeps the types and the pool.
LEMMA TypeStep == Inv /\ [Next]_vars => TypeOK' /\ PoolOK'
<1> SUFFICES ASSUME Inv, [Next]_vars PROVE TypeOK' /\ PoolOK'
  OBVIOUS
<1>0. count' \in 0 .. Cardinality(Holder)
  BY CountStep, CountedFiniteNext DEF CountOK
<1> USE <1>0, PauseAssumption DEF Inv, TypeOK, PoolOK, HolderPC, Goto, line
<1>1. ASSUME NEW k \in Holder, Count(k) PROVE TypeOK' /\ PoolOK'
  BY <1>1 DEF Count
<1>2. ASSUME NEW k \in Holder, Mark(k) PROVE TypeOK' /\ PoolOK'
  BY <1>2 DEF Mark
<1>3. ASSUME NEW k \in Holder, Snapshot(k) PROVE TypeOK' /\ PoolOK'
  BY <1>3 DEF Snapshot
<1>4. ASSUME NEW k \in Holder, Park(k) PROVE TypeOK' /\ PoolOK'
  BY <1>4 DEF Park
<1>5. ASSUME NEW k \in Holder, Uncount(k) PROVE TypeOK' /\ PoolOK'
  BY <1>5 DEF Uncount
<1>6. ASSUME NEW k \in Holder, Unmark(k) PROVE TypeOK' /\ PoolOK'
  BY <1>6 DEF Unmark
<1>7. ASSUME NEW k \in Holder, Unsnapshot(k) PROVE TypeOK' /\ PoolOK'
  BY <1>7 DEF Unsnapshot
<1>8. ASSUME NEW k \in Holder, Unpark(k) PROVE TypeOK' /\ PoolOK'
  BY <1>8 DEF Unpark
<1>9. ASSUME NEW k \in Holder, NEW h \in Handle, HoldSet(k, h) PROVE TypeOK' /\ PoolOK'
  BY <1>9 DEF HoldSet
<1>10. ASSUME NEW k \in Holder, NEW h \in Handle, HoldClose(k, h) PROVE TypeOK' /\ PoolOK'
  BY <1>10 DEF HoldClose
<1>11. ASSUME NEW k \in Holder, NEW h \in Handle, HoldRaise(k, h) PROVE TypeOK' /\ PoolOK'
  BY <1>11 DEF HoldRaise
<1>12. ASSUME NEW k \in Holder, NEW h \in Handle, HoldClear(k, h) PROVE TypeOK' /\ PoolOK'
  BY <1>12 DEF HoldClear
<1>13. ASSUME NEW w \in Worker, GetHandle(w) PROVE TypeOK' /\ PoolOK'
  BY <1>13 DEF GetHandle
<1>14. ASSUME NEW w \in Worker, CheckHeld(w) PROVE TypeOK' /\ PoolOK'
  BY <1>14 DEF CheckHeld
<1>15. ASSUME NEW w \in Worker, MarkHandle(w) PROVE TypeOK' /\ PoolOK'
  BY <1>15 DEF MarkHandle
<1>16. ASSUME NEW w \in Worker, Refuse(w) PROVE TypeOK' /\ PoolOK'
  BY <1>16 DEF Refuse
<1>17. ASSUME NEW w \in Worker, Transact(w) PROVE TypeOK' /\ PoolOK'
  BY <1>17 DEF Transact
<1>18. ASSUME NEW w \in Worker, Finish(w) PROVE TypeOK' /\ PoolOK'
  BY <1>18 DEF Finish
<1>19. CASE UNCHANGED vars
  BY <1>19 DEF vars
<1> QED BY <1>1, <1>2, <1>3, <1>4, <1>5, <1>6, <1>7, <1>8, <1>9, <1>10,
           <1>11, <1>12, <1>13, <1>14, <1>15, <1>16, <1>17, <1>18, <1>19
        DEF Next, PauseStep, ResumeStep, WorkerStep

\* The invariant holds in every reachable state.
THEOREM InvHolds == Spec => []Inv
<1>1. Init => Inv
  <2> SUFFICES ASSUME Init PROVE Inv
    OBVIOUS
  <2>1. Counted = {}
    BY PauseAssumption DEF Init, Counted, HolderPC
  <2>2. CountOK
    BY <2>1, FS_EmptySet DEF Init, CountOK
  <2>3. count \in 0 .. Cardinality(Holder)
    BY CountedFinite DEF Init
  <2> QED BY <2>2, <2>3, PauseAssumption DEF Init, Inv, TypeOK, PoolOK, HolderPC
<1>2. Inv /\ [Next]_vars => Inv'
  BY CountStep, TypeStep DEF Inv
<1> QED BY <1>1, <1>2, PTL DEF Spec

\* Type correctness; a handle that is open or in use is in the pool.
THEOREM TypeCorrect == Spec => []TypeOK
<1>1. Inv => TypeOK
  BY DEF Inv
<1> QED BY InvHolds, <1>1, PTL

-----------------------------------------------------------------------------
(* Overlapping holders, when no close raises. *)

\* Whoever will take the mark off, or wake the scheduler, is on the way.
LetGoOK ==
    /\ held => Counted # {} \/ \E k \in Holder : hpc[k] = "unmark"
    /\ parked => Counted # {} \/ \E k \in Holder : hpc[k] \in {"unmark", "unsnapshot", "unhold"}

\* A holder that is not the last leaves one behind; the last takes the mark off.
LEMMA LetGoStep == ~CloseFails /\ Inv /\ LetGoOK /\ [Next]_vars => LetGoOK'
<1> SUFFICES ASSUME ~CloseFails, Inv, LetGoOK, [Next]_vars PROVE LetGoOK'
  OBVIOUS
<1> USE PauseAssumption DEF Inv, TypeOK, CountOK, LetGoOK, HolderPC, Goto, line
<1>0. IsFiniteSet(Counted) /\ Cardinality(Counted) \in Nat
  BY CountedFinite
<1>1. ASSUME NEW k \in Holder, Count(k) \/ Mark(k) \/ Snapshot(k) \/ Park(k) PROVE LetGoOK'
  <2>1. k \in Counted'
    BY <1>1 DEF Count, Mark, Snapshot, Park, Counted
  <2> QED BY <2>1
<1>2. ASSUME NEW k \in Holder, NEW h \in Handle, HoldSet(k, h) \/ HoldClose(k, h) PROVE LetGoOK'
  <2>1. k \in Counted'
    BY <1>2 DEF HoldSet, HoldClose, Counted
  <2> QED BY <2>1
<1>3. ASSUME NEW k \in Holder, Uncount(k) PROVE LetGoOK'
  <2>1. k \in Counted /\ Counted' = Counted \ {k}
    BY <1>3 DEF Uncount, Counted
  <2>2. CASE count > 1
    <3>1. Counted' # {}
      BY <1>0, <2>1, <2>2, CountedChanges
    <3> QED BY <3>1
  <2>3. CASE ~(count > 1)
    <3>1. hpc'[k] = "unmark"
      BY <1>3, <2>3 DEF Uncount
    <3> QED BY <3>1
  <2> QED BY <2>2, <2>3
<1>4. ASSUME NEW k \in Holder, Unmark(k) PROVE LetGoOK'
  <2>1. ~held' /\ hpc'[k] = "unsnapshot"
    BY <1>4 DEF Unmark
  <2> QED BY <2>1
<1>5. ASSUME NEW k \in Holder, Unsnapshot(k) \/ Unpark(k) PROVE LetGoOK'
  <2>1. Counted' = Counted /\ held' = held /\ (parked' => hpc'[k] = "unhold")
    BY <1>5 DEF Unsnapshot, Unpark, Counted
  <2>2. \A l \in Holder : hpc[l] = "unmark" => hpc'[l] = "unmark"
    BY <1>5 DEF Unsnapshot, Unpark
  <2> QED BY <2>1, <2>2
<1>6. ASSUME NEW k \in Holder, NEW h \in Handle, HoldClear(k, h) PROVE LetGoOK'
  BY <1>6 DEF HoldClear, Counted
<1>7. ASSUME NEW w \in Worker, WorkerStep(w) PROVE LetGoOK'
  BY <1>7 DEF WorkerStep, GetHandle, CheckHeld, MarkHandle, Refuse, Transact, Finish, Counted
<1>8. CASE UNCHANGED vars
  BY <1>8 DEF vars, Counted
<1>9. ASSUME NEW k \in Holder, NEW h \in Handle PROVE ~HoldRaise(k, h)
  BY DEF HoldRaise
<1> QED BY <1>1, <1>2, <1>3, <1>4, <1>5, <1>6, <1>7, <1>8, <1>9 DEF Next, PauseStep, ResumeStep

\* However holders overlap, nothing is counted, marked or parked once all have
\* left, as long as closing a handle never raises.
THEOREM LeavesNothing == ~CloseFails => (Spec => []NothingLeftHeld)
<1> SUFFICES ASSUME ~CloseFails PROVE Spec => []NothingLeftHeld
  OBVIOUS
<1>1. Init => LetGoOK
  BY DEF Init, LetGoOK
<1>2. Inv /\ LetGoOK /\ [Next]_vars => LetGoOK'
  BY LetGoStep
<1>3. Inv /\ LetGoOK => NothingLeftHeld
  <2> SUFFICES ASSUME Inv, LetGoOK, \A k \in Holder : hpc[k] \in {"new", "done"}
               PROVE  count = 0 /\ ~held /\ ~parked
    BY DEF NothingLeftHeld
  <2>1. Counted = {}
    BY PauseAssumption DEF Counted, HolderPC
  <2>2. count = 0
    BY <2>1, FS_EmptySet DEF Inv, CountOK
  <2> QED BY <2>1, <2>2 DEF LetGoOK
<1> QED BY InvHolds, <1>1, <1>2, <1>3, PTL DEF Spec

-----------------------------------------------------------------------------
(* One holder at a time. *)

\* A transaction owns the lock of its handle.
LockOK == \A w \in Worker : wpc[w] = "xact" => lock[Uses[w]] = w

\* The handler thread is inside, or past, the loop of hold_scan.
Pausing(k) == hpc[k] \in {"hold", "acked"} \cup Handle

\* A handle the loop of holder k has dealt with, or never saw: it is closed, no
\* transaction is on it, and none can start before it is marked, which get_port
\* is about to do unless it has been done.
Quiet(k, h) ==
    /\ h \notin open
    /\ \A w \in Worker : Uses[w] = h => wpc[w] # "xact" /\ (~hold[h] => wpc[w] # "ready")
    /\ hold[h] \/ \E w \in Worker : Uses[w] = h /\ wpc[w] \in {"got", "seen"}

PauseOK(k) ==
    /\ hpc[k] = "snapshot" \/ Pausing(k) => held
    /\ hpc[k] = "acked" => todo[k] = {}
    /\ hpc[k] \in Handle => hold[hpc[k]]
    /\ Pausing(k) => \A h \in pool \ todo[k] : Quiet(k, h)

\* Every step keeps a line with one holder quiet.
LEMMA PauseKept ==
    ASSUME NEW k, Holder = {k}
    PROVE  Inv /\ LockOK /\ PauseOK(k) /\ [Next]_vars => LockOK' /\ PauseOK(k)'
<1> SUFFICES ASSUME Inv, LockOK, PauseOK(k), [Next]_vars PROVE LockOK' /\ PauseOK(k)'
  OBVIOUS
<1> USE PauseAssumption DEF Inv, TypeOK, PoolOK, LockOK, PauseOK, Pausing, HolderPC, Goto, line
<1>1. ASSUME Count(k) \/ Mark(k) \/ Snapshot(k) PROVE LockOK' /\ PauseOK(k)'
  <2>1. CASE Count(k)
    <3>1. Counted = {}
      BY <2>1 DEF Count, Counted
    <3>2. count = 0
      BY <3>1, FS_EmptySet DEF CountOK
    <3> QED BY <2>1, <3>2 DEF Count
  <2>2. CASE Mark(k)
    BY <2>2 DEF Mark
  <2>3. CASE Snapshot(k)
    BY <2>3 DEF Snapshot
  <2> QED BY <1>1, <2>1, <2>2, <2>3
<1>2. ASSUME Park(k) PROVE LockOK' /\ PauseOK(k)'
  BY <1>2 DEF Park, Quiet
<1>3. ASSUME NEW h \in Handle, HoldSet(k, h) PROVE LockOK' /\ PauseOK(k)'
  BY <1>3 DEF HoldSet, Quiet
<1>4. ASSUME NEW h \in Handle, HoldClose(k, h) PROVE LockOK' /\ PauseOK(k)'
  <2>1. Quiet(k, h)'
    BY <1>4 DEF HoldClose, Quiet
  <2>2. \A g \in pool \ todo[k] : Quiet(k, g)'
    BY <1>4 DEF HoldClose, Quiet
  <2>3. hpc'[k] = "hold" /\ pool' = pool /\ todo'[k] = todo[k] \ {h} /\ UNCHANGED <<held, wpc, lock>>
    BY <1>4 DEF HoldClose
  <2>4. \A g \in pool' \ todo'[k] : Quiet(k, g)'
    <3> SUFFICES ASSUME NEW g \in pool' \ todo'[k] PROVE Quiet(k, g)'
      OBVIOUS
    <3>1. CASE g = h
      BY <2>1, <3>1
    <3>2. CASE g # h
      BY <2>2, <2>3, <3>2
    <3> QED BY <3>1, <3>2
  <2>5. hpc'[k] \notin Handle /\ hpc'[k] # "acked" /\ held'
    BY <1>4, <2>3 DEF HoldClose
  <2> QED BY <2>3, <2>4, <2>5
<1>5. ASSUME NEW h \in Handle, HoldRaise(k, h) PROVE LockOK' /\ PauseOK(k)'
  BY <1>5 DEF HoldRaise
<1>6. ASSUME Uncount(k) \/ Unmark(k) \/ Unsnapshot(k) \/ Unpark(k) PROVE LockOK' /\ PauseOK(k)'
  BY <1>6 DEF Uncount, Unmark, Unsnapshot, Unpark
<1>7. ASSUME NEW h \in Handle, HoldClear(k, h) PROVE LockOK' /\ PauseOK(k)'
  BY <1>7 DEF HoldClear
<1>8. ASSUME NEW w \in Worker, GetHandle(w) PROVE LockOK' /\ PauseOK(k)'
  <2>1. LockOK'
    BY <1>8 DEF GetHandle
  <2>2. ASSUME Pausing(k), NEW h \in pool' \ todo[k] PROVE Quiet(k, h)'
    <3>1. CASE h \in pool
      BY <1>8, <2>2, <3>1 DEF GetHandle, Quiet
    <3>2. CASE h \notin pool
      BY <1>8, <2>2, <3>2 DEF GetHandle, Quiet
    <3> QED BY <3>1, <3>2
  <2> QED BY <1>8, <2>1, <2>2 DEF GetHandle
<1>9. ASSUME NEW w \in Worker, CheckHeld(w) PROVE LockOK' /\ PauseOK(k)'
  BY <1>9 DEF CheckHeld, Quiet
<1>10. ASSUME NEW w \in Worker, MarkHandle(w) PROVE LockOK' /\ PauseOK(k)'
  BY <1>10 DEF MarkHandle, Quiet
<1>11. ASSUME NEW w \in Worker, Refuse(w) PROVE LockOK' /\ PauseOK(k)'
  BY <1>11 DEF Refuse, Quiet
<1>12. ASSUME NEW w \in Worker, Transact(w) PROVE LockOK' /\ PauseOK(k)'
  <2>1. Pausing(k) => Uses[w] \in todo[k]
    BY <1>12 DEF Transact, Quiet
  <2> QED BY <1>12, <2>1 DEF Transact, Quiet
<1>13. ASSUME NEW w \in Worker, Finish(w) PROVE LockOK' /\ PauseOK(k)'
  BY <1>13 DEF Finish, Quiet
<1>14. CASE UNCHANGED vars
  BY <1>14 DEF vars, Quiet
<1> QED BY <1>1, <1>2, <1>3, <1>4, <1>5, <1>6, <1>7, <1>8, <1>9, <1>10, <1>11, <1>12, <1>13,
           <1>14 DEF Next, PauseStep, ResumeStep, WorkerStep

\* The invariant of the single holder.
LEMMA PauseHolds ==
    ASSUME NEW k, Holder = {k}
    PROVE  Spec => [](Inv /\ LockOK /\ PauseOK(k))
<1>1. Init => LockOK /\ PauseOK(k)
  BY PauseAssumption DEF Init, LockOK, PauseOK, Pausing, HolderPC
<1>2. Inv /\ LockOK /\ PauseOK(k) /\ [Next]_vars => LockOK' /\ PauseOK(k)'
  BY PauseKept
<1> QED BY InvHolds, <1>1, <1>2, PTL DEF Spec

\* While the only holder has its answer, no worker transmits and no handle of the
\* line is open, for any number of workers and handles.
THEOREM Silent ==
    ASSUME NEW k, Holder = {k}
    PROVE  Spec => []PausedLine
<1>1. Inv /\ PauseOK(k) => PausedLine
  BY DEF Inv, TypeOK, PoolOK, PauseOK, Pausing, Quiet, PausedLine
<1> QED BY PauseHolds, <1>1, PTL

\* ... and it stays so: the line is marked, and every handle refuses or is just
\* being marked by get_port.
THEOREM StaysSilent ==
    ASSUME NEW k, Holder = {k}
    PROVE  Spec => []StaysPaused
<1>1. Inv /\ PauseOK(k) => StaysPaused
  BY DEF Inv, TypeOK, PauseOK, Pausing, Quiet, StaysPaused
<1> QED BY PauseHolds, <1>1, PTL
=============================================================================
