-------------------------- MODULE PortBrokerProofs --------------------------
(***************************************************************************)
(* Proofs about PortBroker for every board: any number of sessions, ports, *)
(* devices, services and pollers, any scope, any number of broker deaths.  *)
(*                                                                         *)
(* The inductive invariant Inv adds to the properties what the broker's    *)
(* thread knows at each step (ThreadOK) and how descriptors, locks and the *)
(* journal belong together (LocksOK, CleanOK, DutyOK, MutationOK).         *)
(***************************************************************************)
EXTENDS PortBroker, TLAPS

AcquirePC == {"pause", "stop", "stopissue", "stopwait", "sweep", "lock", "confirm",
              "abort"}

\* What the thread that owns the mutex may rely on at each step.
ThreadOK ==
    /\ pc \in AcquirePC => cur \in Session /\ phase[cur] = "preparing" /\ gateSH
    /\ pc \in {"pause", "stop", "stopissue", "stopwait"} => todo \subseteq ScopeOf(cur)
    /\ pc = "rlock" => cur \in Session
    /\ pc \in {"stopissue", "stopwait", "rstart"} =>
          curU \in Service /\ obl[curU] # "none"
    /\ pc \in {"rservice", "rstart"} => \A u \in todo : obl[u] # "none"
    /\ pc = "rstart" => curU \notin todo

\* A descriptor of a device lock belongs to a lease, there is one lease per
\* device, and a device lock excludes the pollers of the device.
LocksOK ==
    /\ \A s \in brokerFd : Leased(s)
    /\ \A s \in Session : cl[s] = "held" <=> s \in clientFd
    /\ \A s \in clientFd : phase[s] = "owned"
    /\ \A s, t \in Session : Leased(s) /\ Leased(t) /\ Dev(s) = Dev(t) => s = t
    /\ \A s \in Session, q \in Poller :
          SessionLock(s) /\ Key[Line[q]] = Dev(s) => ~PollerLock(q)

\* A granted lease found the UART closed to every other session.
CleanOK ==
    \A s \in Session : phase[s] = "owned" /\ SessionLock(s) =>
        \A t \in sUart : Dev(t) = Dev(s) => t = s

\* An obligation is a debt or a unit that was never stopped, and a debt is an
\* obligation and a unit that does not run.
DutyOK ==
    \A u \in Service :
        /\ u \in owed => obl[u] # "none" /\ unit[u] # "active"
        /\ obl[u] # "none" => u \in owed \/ unit[u] = "active"

Inv == /\ TypeOK /\ ThreadOK /\ LocksOK /\ CleanOK /\ DutyOK
       /\ MutationExclusive /\ MaintenanceExclusive /\ HoldsCovered

\* A lease names the device and the scope of its configured port.
LEMMA ConfigTypes ==
    /\ \A s \in Session : Dev(s) \in Device /\ ScopeOf(s) \subseteq Service
    /\ \A q \in Poller : Key[Line[q]] \in Device
BY ConfigAssumption DEF Dev, ScopeOf


\* Every step keeps the types.
LEMMA TypeStep == Inv /\ [Next]_vars => TypeOK'
<1> SUFFICES ASSUME Inv, [Next]_vars PROVE TypeOK'
  OBVIOUS
<1> USE DEF Inv, TypeOK, Phase, Obligation, UnitState, PC, Unit, journal, memory,
            thread, clients, units, others, world
<1>1. UNCHANGED <<phase, obl, up, conn, brokerFd, holds, pc, cur, curU, todo, todoS,
                gateSH, cl, clientFd, sUart, poll, unit, vUart, foreign, guard, upd,
                marker, crashes, owed>> => TypeOK'
  OBVIOUS
<1>2. CASE Acquire
  <2>1. ASSUME NEW s \in Session, AcquireStart(s) PROVE TypeOK'
    BY ConfigTypes, <2>1 DEF AcquireStart, MutexFree, Pending, Admissible
  <2>2. ASSUME NEW s \in Session, AcquireRefuse(s) PROVE TypeOK'
    BY <2>2 DEF AcquireRefuse, Pending, Admissible
  <2>3. ASSUME NEW s \in Session, Reply(s) PROVE TypeOK'
    BY <2>3 DEF Reply
  <2>4. ASSUME PauseSkip PROVE TypeOK'
    BY <2>4 DEF PauseSkip
  <2>5. ASSUME PauseAck PROVE TypeOK'
    BY <2>5 DEF PauseAck, ThreadOK, AcquirePC
  <2>6. ASSUME PauseFail PROVE TypeOK'
    BY <2>6 DEF PauseFail
  <2>7. ASSUME NEW u \in Service, StopSkip(u) PROVE TypeOK'
    BY <2>7 DEF StopSkip
  <2>8. ASSUME NEW u \in Service, StopJournal(u) PROVE TypeOK'
    BY <2>8 DEF StopJournal
  <2>9. ASSUME NEW u \in Service, StopChanging(u) PROVE TypeOK'
    BY <2>9 DEF StopChanging
  <2>10. ASSUME StopIssue PROVE TypeOK'
    BY <2>10 DEF StopIssue, ThreadOK, AcquirePC
  <2>11. ASSUME StopDone PROVE TypeOK'
    BY <2>11 DEF StopDone
  <2>12. ASSUME StopTimeout PROVE TypeOK'
    BY <2>12 DEF StopTimeout
  <2>13. ASSUME StopsDone PROVE TypeOK'
    BY <2>13 DEF StopsDone
  <2>14. ASSUME SweepClear PROVE TypeOK'
    BY <2>14 DEF SweepClear
  <2>15. ASSUME SweepLock PROVE TypeOK'
    BY <2>15 DEF SweepLock, ThreadOK, AcquirePC
  <2>16. ASSUME SweepRetry PROVE TypeOK'
    BY <2>16 DEF SweepRetry
  <2>17. ASSUME SweepTimeout PROVE TypeOK'
    BY <2>17 DEF SweepTimeout
  <2>18. ASSUME ConfirmOwner PROVE TypeOK'
    BY <2>18 DEF ConfirmOwner
  <2>19. ASSUME ConfirmFail PROVE TypeOK'
    BY <2>19 DEF ConfirmFail
  <2>20. ASSUME AcquireAbort PROVE TypeOK'
    BY <2>20 DEF AcquireAbort, ReleaseToken
  <2> QED BY <1>2, <2>1, <2>2, <2>3, <2>4, <2>5, <2>6, <2>7, <2>8, <2>9, <2>10,
                   <2>11, <2>12, <2>13, <2>14, <2>15, <2>16, <2>17, <2>18, <2>19,
                   <2>20 DEF Acquire
<1>3. CASE Recover
  <2>1. ASSUME NEW s \in Session, Release(s) PROVE TypeOK'
    BY <2>1 DEF Release, ReleaseToken, MutexFree
  <2>2. ASSUME NEW s \in Session, RecoverScan(s) PROVE TypeOK'
    BY <2>2 DEF RecoverScan
  <2>3. ASSUME RecoverTick PROVE TypeOK'
    BY <2>3 DEF RecoverTick, MutexFree
  <2>4. ASSUME RecoverDelete PROVE TypeOK'
    BY <2>4 DEF RecoverDelete
  <2>5. ASSUME RecoverKeep PROVE TypeOK'
    BY <2>5 DEF RecoverKeep
  <2>6. ASSUME RecoverServices PROVE TypeOK'
    BY <2>6 DEF RecoverServices
  <2>7. ASSUME NEW u \in Service, RestoreSkip(u) PROVE TypeOK'
    BY <2>7 DEF RestoreSkip
  <2>8. ASSUME NEW u \in Service, RestoreNoStart(u) PROVE TypeOK'
    BY <2>8 DEF RestoreNoStart
  <2>9. ASSUME NEW u \in Service, RestoreStart(u) PROVE TypeOK'
    BY <2>9 DEF RestoreStart
  <2>10. ASSUME RestoreDone PROVE TypeOK'
    BY <2>10 DEF RestoreDone
  <2>11. ASSUME RestoreFail PROVE TypeOK'
    BY <2>11 DEF RestoreFail
  <2>12. ASSUME RecoverEnd PROVE TypeOK'
    BY <2>12 DEF RecoverEnd
  <2> QED BY <1>3, <2>1, <2>2, <2>3, <2>4, <2>5, <2>6, <2>7, <2>8, <2>9, <2>10,
                   <2>11, <2>12 DEF Recover
<1>4. ASSUME BrokerCrash PROVE TypeOK'
  <2>1. cl' \in [Session -> {"new", "wait", "left", "held", "closing", "gone"}]
    BY <1>4 DEF BrokerCrash
  <2>2. crashes' \in Nat
    BY <1>4 DEF BrokerCrash
  <2>3. up' \in BOOLEAN /\ gateSH' \in BOOLEAN
    BY <1>4 DEF BrokerCrash
  <2> QED BY <1>4, <2>1, <2>2, <2>3 DEF BrokerCrash
<1>5. ASSUME BrokerRestart PROVE TypeOK'
  BY <1>5 DEF BrokerRestart
<1>6. CASE Client
  <2>1. ASSUME NEW s \in Session, ClientRequest(s) PROVE TypeOK'
    BY <2>1 DEF ClientRequest
  <2>2. ASSUME NEW s \in Session, ClientTimeout(s) PROVE TypeOK'
    BY <2>2 DEF ClientTimeout
  <2>3. ASSUME NEW s \in Session, ClientOpen(s) PROVE TypeOK'
    BY <2>3 DEF ClientOpen
  <2>4. ASSUME NEW s \in Session, ClientShut(s) PROVE TypeOK'
    BY <2>4 DEF ClientShut
  <2>5. ASSUME NEW s \in Session, ClientClose(s) PROVE TypeOK'
    BY <2>5 DEF ClientClose
  <2>6. ASSUME NEW s \in Session, ClientDie(s) PROVE TypeOK'
    BY <2>6 DEF ClientDie
  <2>7. ASSUME NEW s \in Session, OrphanExit(s) PROVE TypeOK'
    BY <2>7 DEF OrphanExit
  <2> QED BY <1>6, <2>1, <2>2, <2>3, <2>4, <2>5, <2>6, <2>7 DEF Client
<1>7. CASE Bridge
  <2>1. ASSUME NEW q \in Poller, PollAsk(q) PROVE TypeOK'
    BY <2>1 DEF PollAsk
  <2>2. ASSUME NEW q \in Poller, PollLock(q) PROVE TypeOK'
    BY <2>2 DEF PollLock
  <2>3. ASSUME NEW q \in Poller, PollRecheck(q) PROVE TypeOK'
    BY <2>3 DEF PollRecheck
  <2>4. ASSUME NEW q \in Poller, PollOpen(q) PROVE TypeOK'
    BY <2>4 DEF PollOpen
  <2>5. ASSUME NEW q \in Poller, PollClose(q) PROVE TypeOK'
    BY <2>5 DEF PollClose
  <2>6. ASSUME BridgeRestart PROVE TypeOK'
    BY <2>6 DEF BridgeRestart
  <2> QED BY <1>7, <2>1, <2>2, <2>3, <2>4, <2>5, <2>6 DEF Bridge
<1>8. CASE Systemd
  <2>1. ASSUME NEW u \in Unit, UnitStarted(u) PROVE TypeOK'
    BY <2>1 DEF UnitStarted
  <2>2. ASSUME NEW u \in Unit, UnitStartFailed(u) PROVE TypeOK'
    BY <2>2 DEF UnitStartFailed
  <2>3. ASSUME NEW u \in Unit, UnitStopped(u) PROVE TypeOK'
    BY <2>3 DEF UnitStopped
  <2>4. ASSUME NEW u \in Service, NEW p \in Port, ServiceOpen(u, p) PROVE TypeOK'
    BY ConfigAssumption, <2>4 DEF ServiceOpen
  <2>5. ASSUME NEW d \in Device, IntruderOpen(d) PROVE TypeOK'
    BY <2>5 DEF IntruderOpen
  <2>6. ASSUME NEW d \in Device, IntruderClose(d) PROVE TypeOK'
    BY <2>6 DEF IntruderClose
  <2> QED BY <1>8, <2>1, <2>2, <2>3, <2>4, <2>5, <2>6 DEF Systemd
<1>9. CASE Mutation
  <2>1. ASSUME NEW g \in Unit, MutationGrant(g) PROVE TypeOK'
    BY <2>1 DEF MutationGrant, MutexFree
  <2>2. ASSUME NEW g \in Unit, MutationStart(g) PROVE TypeOK'
    BY <2>2 DEF MutationStart
  <2>3. ASSUME NEW g \in Unit, MutationStop(g) PROVE TypeOK'
    BY <2>3 DEF MutationStop
  <2>4. ASSUME NEW g \in Unit, MutationEnd(g) PROVE TypeOK'
    BY <2>4 DEF MutationEnd
  <2> QED BY <1>9, <2>1, <2>2, <2>3, <2>4 DEF Mutation
<1>10. CASE Update
  <2>1. ASSUME UpdateGate PROVE TypeOK'
    BY <2>1 DEF UpdateGate
  <2>2. ASSUME UpdateGrant PROVE TypeOK'
    BY <2>2 DEF UpdateGrant, MutexFree
  <2>3. ASSUME UpdateMark PROVE TypeOK'
    BY <2>3 DEF UpdateMark
  <2>4. ASSUME UpdateEnd PROVE TypeOK'
    BY <2>4 DEF UpdateEnd
  <2>5. ASSUME UpdateDie PROVE TypeOK'
    BY <2>5 DEF UpdateDie
  <2>6. ASSUME UpdateRecover PROVE TypeOK'
    BY <2>6 DEF UpdateRecover
  <2> QED BY <1>10, <2>1, <2>2, <2>3, <2>4, <2>5, <2>6 DEF Update
<1>11. CASE UNCHANGED vars
  BY <1>1, <1>11 DEF vars
<1> QED BY <1>2, <1>3, <1>4, <1>5, <1>6, <1>7, <1>8, <1>9, <1>10, <1>11 DEF Next

\* Every step keeps what the mutex owner relies on.
LEMMA ThreadStep == Inv /\ [Next]_vars => ThreadOK'
<1> SUFFICES ASSUME Inv, [Next]_vars PROVE ThreadOK'
  OBVIOUS
<1> USE DEF Inv, ThreadOK, AcquirePC, TypeOK, PC, journal, memory, thread, clients,
            units, others, world
<1>1. UNCHANGED <<pc, cur, curU, todo, phase, obl, gateSH>> => ThreadOK'
  OBVIOUS
<1>2. CASE Acquire
  <2>1. ASSUME NEW s \in Session, AcquireStart(s) PROVE ThreadOK'
    BY ConfigTypes, <2>1 DEF AcquireStart, MutexFree, Pending, Admissible
  <2>2. ASSUME PauseSkip PROVE ThreadOK'
    BY <2>2 DEF PauseSkip
  <2>3. ASSUME PauseAck PROVE ThreadOK'
    BY <2>3 DEF PauseAck
  <2>4. ASSUME PauseFail PROVE ThreadOK'
    BY <2>4 DEF PauseFail
  <2>5. ASSUME NEW u \in Service, StopSkip(u) PROVE ThreadOK'
    BY <2>5 DEF StopSkip
  <2>6. ASSUME NEW u \in Service, StopJournal(u) PROVE ThreadOK'
    BY <2>6 DEF StopJournal
  <2>7. ASSUME NEW u \in Service, StopChanging(u) PROVE ThreadOK'
    BY <2>7 DEF StopChanging
  <2>8. ASSUME StopIssue PROVE ThreadOK'
    BY <2>8 DEF StopIssue
  <2>9. ASSUME StopDone PROVE ThreadOK'
    BY <2>9 DEF StopDone
  <2>10. ASSUME StopTimeout PROVE ThreadOK'
    BY <2>10 DEF StopTimeout
  <2>11. ASSUME StopsDone PROVE ThreadOK'
    BY <2>11 DEF StopsDone
  <2>12. ASSUME SweepClear PROVE ThreadOK'
    BY <2>12 DEF SweepClear
  <2>13. ASSUME SweepLock PROVE ThreadOK'
    BY <2>13 DEF SweepLock
  <2>14. ASSUME SweepRetry PROVE ThreadOK'
    BY <2>14 DEF SweepRetry
  <2>15. ASSUME SweepTimeout PROVE ThreadOK'
    BY <2>15 DEF SweepTimeout
  <2>16. ASSUME ConfirmOwner PROVE ThreadOK'
    BY <2>16 DEF ConfirmOwner
  <2>17. ASSUME ConfirmFail PROVE ThreadOK'
    BY <2>17 DEF ConfirmFail
  <2>18. ASSUME AcquireAbort PROVE ThreadOK'
    BY <2>18 DEF AcquireAbort, ReleaseToken
  <2>19. CASE (\E s \in Session : AcquireRefuse(s) \/ Reply(s))
    BY <1>1, <2>19 DEF AcquireRefuse, Pending, Admissible, Reply
  <2> QED BY <1>2, <2>1, <2>2, <2>3, <2>4, <2>5, <2>6, <2>7, <2>8, <2>9, <2>10,
                   <2>11, <2>12, <2>13, <2>14, <2>15, <2>16, <2>17, <2>18, <2>19 DEF Acquire
<1>3. CASE Recover
  <2>1. ASSUME NEW s \in Session, Release(s) PROVE ThreadOK'
    BY <2>1 DEF Release, ReleaseToken, MutexFree
  <2>2. ASSUME NEW s \in Session, RecoverScan(s) PROVE ThreadOK'
    BY <2>2 DEF RecoverScan
  <2>3. ASSUME RecoverTick PROVE ThreadOK'
    BY <2>3 DEF RecoverTick, MutexFree
  <2>4. ASSUME RecoverDelete PROVE ThreadOK'
    BY <2>4 DEF RecoverDelete
  <2>5. ASSUME RecoverKeep PROVE ThreadOK'
    BY <2>5 DEF RecoverKeep
  <2>6. ASSUME RecoverServices PROVE ThreadOK'
    BY <2>6 DEF RecoverServices
  <2>7. ASSUME NEW u \in Service, RestoreSkip(u) PROVE ThreadOK'
    BY <2>7 DEF RestoreSkip
  <2>8. ASSUME NEW u \in Service, RestoreNoStart(u) PROVE ThreadOK'
    BY <2>8 DEF RestoreNoStart
  <2>9. ASSUME NEW u \in Service, RestoreStart(u) PROVE ThreadOK'
    BY <2>9 DEF RestoreStart
  <2>10. ASSUME RestoreDone PROVE ThreadOK'
    BY <2>10 DEF RestoreDone
  <2>11. ASSUME RestoreFail PROVE ThreadOK'
    BY <2>11 DEF RestoreFail
  <2>12. ASSUME RecoverEnd PROVE ThreadOK'
    BY <2>12 DEF RecoverEnd
  <2> QED BY <1>3, <2>1, <2>2, <2>3, <2>4, <2>5, <2>6, <2>7, <2>8, <2>9, <2>10,
                   <2>11, <2>12 DEF Recover
<1>4. ASSUME BrokerCrash PROVE ThreadOK'
  BY <1>4 DEF BrokerCrash
<1>5. CASE BrokerRestart
  BY <1>1, <1>5 DEF BrokerRestart
<1>6. CASE Client
  BY <1>1, <1>6 DEF Client, ClientRequest, ClientTimeout, ClientOpen, ClientShut,
                    ClientClose, ClientDie, OrphanExit
<1>7. CASE Bridge
  BY <1>1, <1>7 DEF Bridge, PollAsk, PollLock, PollRecheck, PollOpen, PollClose,
                    BridgeRestart
<1>8. CASE Systemd
  BY <1>1, <1>8 DEF Systemd, UnitStarted, UnitStartFailed, UnitStopped, ServiceOpen,
                    IntruderOpen, IntruderClose
<1>9. CASE Mutation
  BY <1>1, <1>9 DEF Mutation, MutationGrant, MutexFree, MutationStart, MutationStop,
                    MutationEnd
<1>10. CASE Update
  BY <1>1, <1>10 DEF Update, UpdateGate, UpdateGrant, MutexFree, UpdateMark,
                     UpdateEnd, UpdateDie, UpdateRecover
<1>11. CASE UNCHANGED vars
  BY <1>1, <1>11 DEF vars
<1> QED BY <1>2, <1>3, <1>4, <1>5, <1>6, <1>7, <1>8, <1>9, <1>10, <1>11 DEF Next

\* Every step keeps descriptors, locks and leases together.
LEMMA LocksStep == Inv /\ [Next]_vars => LocksOK'
<1> SUFFICES ASSUME Inv, [Next]_vars PROVE LocksOK'
  OBVIOUS
<1> USE DEF Inv, LocksOK, TypeOK, Leased, SessionLock, PollerLock, journal, memory,
            thread, clients, units, others, world
<1>1. UNCHANGED <<phase, brokerFd, clientFd, cl, poll>> => LocksOK'
  OBVIOUS
<1>2. CASE Acquire
  <2>1. ASSUME NEW s \in Session, AcquireStart(s) PROVE LocksOK'
    BY <2>1 DEF AcquireStart, MutexFree, Pending, Admissible, LeasedDev
  <2>2. ASSUME NEW s \in Session, AcquireRefuse(s) PROVE LocksOK'
    BY <2>2 DEF AcquireRefuse, Pending, Admissible
  <2>3. ASSUME NEW s \in Session, Reply(s) PROVE LocksOK'
    BY <2>3 DEF Reply
  <2>4. ASSUME PauseAck PROVE LocksOK'
    BY <2>4 DEF PauseAck, ThreadOK, AcquirePC
  <2>5. ASSUME SweepLock PROVE LocksOK'
    BY <2>5 DEF SweepLock, LockFree, ThreadOK, AcquirePC
  <2>6. ASSUME ConfirmOwner PROVE LocksOK'
    BY <2>6 DEF ConfirmOwner, ThreadOK, AcquirePC
  <2>7. ASSUME AcquireAbort PROVE LocksOK'
    BY <2>7 DEF AcquireAbort, ReleaseToken, ThreadOK, AcquirePC
  <2>8. CASE PauseSkip \/ PauseFail \/ StopIssue \/ StopDone \/ StopTimeout
             \/ StopsDone \/ SweepClear \/ SweepRetry \/ SweepTimeout \/ ConfirmFail
             \/ (\E u \in Service : StopSkip(u) \/ StopJournal(u) \/ StopChanging(u))
    BY <1>1, <2>8 DEF PauseSkip, PauseFail, StopSkip, StopJournal, StopChanging,
                      StopIssue, StopDone, StopTimeout, StopsDone, SweepClear,
                      SweepRetry, SweepTimeout, ConfirmFail
  <2> QED BY <1>2, <2>1, <2>2, <2>3, <2>4, <2>5, <2>6, <2>7, <2>8 DEF Acquire
<1>3. CASE Recover
  <2>1. ASSUME NEW s \in Session, Release(s) PROVE LocksOK'
    BY <2>1 DEF Release, ReleaseToken, MutexFree
  <2>2. ASSUME RecoverDelete PROVE LocksOK'
    BY <2>2 DEF RecoverDelete, LockFree, ThreadOK
  <2>3. CASE RecoverTick \/ RecoverKeep \/ RecoverServices \/ RestoreDone
             \/ RestoreFail \/ RecoverEnd \/ (\E s \in Session : RecoverScan(s))
             \/ (\E u \in Service : RestoreSkip(u) \/ RestoreNoStart(u) \/ RestoreStart(u))
    BY <1>1, <2>3 DEF RecoverScan, RecoverTick, MutexFree, RecoverKeep,
                      RecoverServices, RestoreSkip, RestoreNoStart, RestoreStart,
                      RestoreDone, RestoreFail, RecoverEnd
  <2> QED BY <1>3, <2>1, <2>2, <2>3 DEF Recover
<1>4. ASSUME BrokerCrash PROVE LocksOK'
  BY <1>4 DEF BrokerCrash
<1>5. CASE BrokerRestart
  BY <1>1, <1>5 DEF BrokerRestart
<1>6. CASE Client
  <2>1. ASSUME NEW s \in Session, ClientRequest(s) PROVE LocksOK'
    BY <2>1 DEF ClientRequest
  <2>2. ASSUME NEW s \in Session, ClientTimeout(s) PROVE LocksOK'
    BY <2>2 DEF ClientTimeout
  <2>3. ASSUME NEW s \in Session, ClientClose(s) PROVE LocksOK'
    BY <2>3 DEF ClientClose
  <2>4. ASSUME NEW s \in Session, ClientDie(s) PROVE LocksOK'
    BY <2>4 DEF ClientDie
  <2>5. CASE (\E s \in Session : ClientOpen(s) \/ ClientShut(s) \/ OrphanExit(s))
    BY <1>1, <2>5 DEF ClientOpen, ClientShut, OrphanExit
  <2> QED BY <1>6, <2>1, <2>2, <2>3, <2>4, <2>5 DEF Client
<1>7. CASE Bridge
  <2>1. ASSUME NEW q \in Poller, PollAsk(q) PROVE LocksOK'
    BY <2>1 DEF PollAsk
  <2>2. ASSUME NEW q \in Poller, PollLock(q) PROVE LocksOK'
    BY <2>2 DEF PollLock, LockFree
  <2>3. ASSUME NEW q \in Poller, PollRecheck(q) PROVE LocksOK'
    BY <2>3 DEF PollRecheck
  <2>4. ASSUME NEW q \in Poller, PollOpen(q) PROVE LocksOK'
    BY <2>4 DEF PollOpen
  <2>5. ASSUME NEW q \in Poller, PollClose(q) PROVE LocksOK'
    BY <2>5 DEF PollClose
  <2>6. ASSUME BridgeRestart PROVE LocksOK'
    BY <2>6 DEF BridgeRestart
  <2> QED BY <1>7, <2>1, <2>2, <2>3, <2>4, <2>5, <2>6 DEF Bridge
<1>8. CASE Systemd
  <2>1. ASSUME NEW u \in Unit, UnitStopped(u) PROVE LocksOK'
    BY <2>1 DEF UnitStopped
  <2>2. CASE (\E u \in Unit : UnitStarted(u) \/ UnitStartFailed(u))
             \/ (\E u \in Service, p \in Port : ServiceOpen(u, p))
             \/ (\E d \in Device : IntruderOpen(d) \/ IntruderClose(d))
    BY <1>1, <2>2 DEF UnitStarted, UnitStartFailed, ServiceOpen, IntruderOpen,
                      IntruderClose
  <2> QED BY <1>8, <2>1, <2>2 DEF Systemd
<1>9. CASE Mutation
  BY <1>1, <1>9 DEF Mutation, MutationGrant, MutexFree, MutationStart, MutationStop,
                    MutationEnd
<1>10. CASE Update
  BY <1>1, <1>10 DEF Update, UpdateGate, UpdateGrant, MutexFree, UpdateMark,
                     UpdateEnd, UpdateDie, UpdateRecover
<1>11. CASE UNCHANGED vars
  BY <1>1, <1>11 DEF vars
<1> QED BY <1>2, <1>3, <1>4, <1>5, <1>6, <1>7, <1>8, <1>9, <1>10, <1>11 DEF Next

\* Every step keeps a granted UART closed to other sessions.
LEMMA CleanStep == Inv /\ [Next]_vars => CleanOK'
<1> SUFFICES ASSUME Inv, [Next]_vars PROVE CleanOK'
  OBVIOUS
<1> USE DEF Inv, CleanOK, LocksOK, TypeOK, Leased, SessionLock, journal, memory,
            thread, clients, units, others, world
<1>1. UNCHANGED <<phase, brokerFd, clientFd, sUart>> => CleanOK'
  OBVIOUS
<1>2. CASE Acquire
  <2>1. ASSUME NEW s \in Session, AcquireStart(s) PROVE CleanOK'
    BY <2>1 DEF AcquireStart, MutexFree, Pending, Admissible
  <2>2. ASSUME NEW s \in Session, Reply(s) PROVE CleanOK'
    BY <2>2 DEF Reply
  <2>3. ASSUME SweepLock PROVE CleanOK'
    BY <2>3 DEF SweepLock, ThreadOK, AcquirePC
  <2>4. ASSUME ConfirmOwner PROVE CleanOK'
    BY <2>4 DEF ConfirmOwner, ThreadOK, AcquirePC, Occupied
  <2>5. ASSUME AcquireAbort PROVE CleanOK'
    BY <2>5 DEF AcquireAbort, ReleaseToken, ThreadOK, AcquirePC
  <2>6. CASE PauseSkip \/ PauseAck \/ PauseFail \/ StopIssue \/ StopDone
             \/ StopTimeout \/ StopsDone \/ SweepClear \/ SweepRetry \/ SweepTimeout
             \/ ConfirmFail \/ (\E s \in Session : AcquireRefuse(s))
             \/ (\E u \in Service : StopSkip(u) \/ StopJournal(u) \/ StopChanging(u))
    BY <1>1, <2>6 DEF AcquireRefuse, Pending, Admissible, PauseSkip, PauseAck,
                      PauseFail, StopSkip, StopJournal, StopChanging, StopIssue,
                      StopDone, StopTimeout, StopsDone, SweepClear, SweepRetry,
                      SweepTimeout, ConfirmFail
  <2> QED BY <1>2, <2>1, <2>2, <2>3, <2>4, <2>5, <2>6 DEF Acquire
<1>3. CASE Recover
  <2>1. ASSUME NEW s \in Session, Release(s) PROVE CleanOK'
    BY <2>1 DEF Release, ReleaseToken, MutexFree
  <2>2. ASSUME RecoverDelete PROVE CleanOK'
    BY <2>2 DEF RecoverDelete
  <2>3. CASE RecoverTick \/ RecoverKeep \/ RecoverServices \/ RestoreDone
             \/ RestoreFail \/ RecoverEnd \/ (\E s \in Session : RecoverScan(s))
             \/ (\E u \in Service : RestoreSkip(u) \/ RestoreNoStart(u) \/ RestoreStart(u))
    BY <1>1, <2>3 DEF RecoverScan, RecoverTick, MutexFree, RecoverKeep,
                      RecoverServices, RestoreSkip, RestoreNoStart, RestoreStart,
                      RestoreDone, RestoreFail, RecoverEnd
  <2> QED BY <1>3, <2>1, <2>2, <2>3 DEF Recover
<1>4. ASSUME BrokerCrash PROVE CleanOK'
  BY <1>4 DEF BrokerCrash
<1>5. CASE BrokerRestart
  BY <1>1, <1>5 DEF BrokerRestart
<1>6. CASE Client
  <2>1. ASSUME NEW s \in Session, ClientOpen(s) PROVE CleanOK'
    BY <2>1 DEF ClientOpen
  <2>2. ASSUME NEW s \in Session, ClientShut(s) PROVE CleanOK'
    BY <2>2 DEF ClientShut
  <2>3. ASSUME NEW s \in Session, ClientClose(s) PROVE CleanOK'
    BY <2>3 DEF ClientClose
  <2>4. ASSUME NEW s \in Session, ClientDie(s) PROVE CleanOK'
    BY <2>4 DEF ClientDie
  <2>5. ASSUME NEW s \in Session, OrphanExit(s) PROVE CleanOK'
    BY <2>5 DEF OrphanExit
  <2>6. CASE (\E s \in Session : ClientRequest(s) \/ ClientTimeout(s))
    BY <1>1, <2>6 DEF ClientRequest, ClientTimeout
  <2> QED BY <1>6, <2>1, <2>2, <2>3, <2>4, <2>5, <2>6 DEF Client
<1>7. CASE Bridge
  BY <1>1, <1>7 DEF Bridge, PollAsk, PollLock, PollRecheck, PollOpen, PollClose,
                    BridgeRestart
<1>8. CASE Systemd
  BY <1>1, <1>8 DEF Systemd, UnitStarted, UnitStartFailed, UnitStopped, ServiceOpen,
                    IntruderOpen, IntruderClose
<1>9. CASE Mutation
  BY <1>1, <1>9 DEF Mutation, MutationGrant, MutexFree, MutationStart, MutationStop,
                    MutationEnd
<1>10. CASE Update
  BY <1>1, <1>10 DEF Update, UpdateGate, UpdateGrant, MutexFree, UpdateMark,
                     UpdateEnd, UpdateDie, UpdateRecover
<1>11. CASE UNCHANGED vars
  BY <1>1, <1>11 DEF vars
<1> QED BY <1>2, <1>3, <1>4, <1>5, <1>6, <1>7, <1>8, <1>9, <1>10, <1>11 DEF Next

\* Every step keeps debts and obligations together.
LEMMA DutyStep == Inv /\ [Next]_vars => DutyOK'
<1> SUFFICES ASSUME Inv, [Next]_vars PROVE DutyOK'
  OBVIOUS
<1> USE DEF Inv, DutyOK, TypeOK, Unit, ThreadOK, AcquirePC, journal, memory, thread,
            clients, units, others, world
<1>1. UNCHANGED <<owed, obl, unit>> => DutyOK'
  OBVIOUS
<1>2. CASE Acquire
  <2>1. ASSUME NEW u \in Service, StopJournal(u) PROVE DutyOK'
    BY <2>1 DEF StopJournal
  <2>2. ASSUME StopIssue PROVE DutyOK'
    BY <2>2 DEF StopIssue
  <2>3. ASSUME StopDone PROVE DutyOK'
    BY <2>3 DEF StopDone
  <2>4. CASE PauseSkip \/ PauseAck \/ PauseFail \/ StopTimeout \/ StopsDone
             \/ SweepClear \/ SweepLock \/ SweepRetry \/ SweepTimeout
             \/ ConfirmOwner \/ ConfirmFail \/ AcquireAbort
             \/ (\E s \in Session : AcquireStart(s) \/ AcquireRefuse(s) \/ Reply(s))
             \/ (\E u \in Service : StopSkip(u) \/ StopChanging(u))
    BY <1>1, <2>4 DEF AcquireStart, MutexFree, Pending, Admissible, AcquireRefuse,
                      Reply, PauseSkip, PauseAck, PauseFail, StopSkip, StopChanging,
                      StopTimeout, StopsDone, SweepClear, SweepLock, SweepRetry,
                      SweepTimeout, ConfirmOwner, ConfirmFail, AcquireAbort,
                      ReleaseToken
  <2> QED BY <1>2, <2>1, <2>2, <2>3, <2>4 DEF Acquire
<1>3. CASE Recover
  <2>1. ASSUME NEW u \in Service, RestoreNoStart(u) PROVE DutyOK'
    BY <2>1 DEF RestoreNoStart
  <2>2. ASSUME NEW u \in Service, RestoreStart(u) PROVE DutyOK'
    BY <2>2 DEF RestoreStart
  <2>3. ASSUME RestoreDone PROVE DutyOK'
    BY <2>3 DEF RestoreDone
  <2>4. ASSUME RestoreFail PROVE DutyOK'
    BY <2>4 DEF RestoreFail
  <2>5. CASE RecoverTick \/ RecoverDelete \/ RecoverKeep \/ RecoverServices
             \/ RecoverEnd \/ (\E s \in Session : Release(s) \/ RecoverScan(s))
             \/ (\E u \in Service : RestoreSkip(u))
    BY <1>1, <2>5 DEF Release, ReleaseToken, MutexFree, RecoverScan, RecoverTick,
                      RecoverDelete, RecoverKeep, RecoverServices, RestoreSkip,
                      RecoverEnd
  <2> QED BY <1>3, <2>1, <2>2, <2>3, <2>4, <2>5 DEF Recover
<1>4. CASE BrokerCrash
  BY <1>1, <1>4 DEF BrokerCrash
<1>5. CASE BrokerRestart
  BY <1>1, <1>5 DEF BrokerRestart
<1>6. CASE Client
  BY <1>1, <1>6 DEF Client, ClientRequest, ClientTimeout, ClientOpen, ClientShut,
                    ClientClose, ClientDie, OrphanExit
<1>7. CASE Bridge
  BY <1>1, <1>7 DEF Bridge, PollAsk, PollLock, PollRecheck, PollOpen, PollClose,
                    BridgeRestart
<1>8. CASE Systemd
  <2>1. ASSUME NEW u \in Unit, UnitStarted(u) PROVE DutyOK'
    BY <2>1 DEF UnitStarted
  <2>2. ASSUME NEW u \in Unit, UnitStartFailed(u) PROVE DutyOK'
    BY <2>2 DEF UnitStartFailed
  <2>3. ASSUME NEW u \in Unit, UnitStopped(u) PROVE DutyOK'
    BY <2>3 DEF UnitStopped
  <2>4. CASE (\E u \in Service, p \in Port : ServiceOpen(u, p))
             \/ (\E d \in Device : IntruderOpen(d) \/ IntruderClose(d))
    BY <1>1, <2>4 DEF ServiceOpen, IntruderOpen, IntruderClose
  <2> QED BY <1>8, <2>1, <2>2, <2>3, <2>4 DEF Systemd
<1>9. CASE Mutation
  <2>1. ASSUME NEW g \in Unit, MutationStart(g) PROVE DutyOK'
    BY ConfigAssumption, <2>1 DEF MutationStart, MutationExclusive
  <2>2. ASSUME NEW g \in Unit, MutationStop(g) PROVE DutyOK'
    BY ConfigAssumption, <2>2 DEF MutationStop, MutationExclusive
  <2>3. CASE (\E g \in Unit : MutationGrant(g) \/ MutationEnd(g))
    BY <1>1, <2>3 DEF MutationGrant, MutexFree, MutationEnd
  <2> QED BY <1>9, <2>1, <2>2, <2>3 DEF Mutation
<1>10. CASE Update
  BY <1>1, <1>10 DEF Update, UpdateGate, UpdateGrant, MutexFree, UpdateMark,
                     UpdateEnd, UpdateDie, UpdateRecover
<1>11. CASE UNCHANGED vars
  BY <1>1, <1>11 DEF vars
<1> QED BY <1>2, <1>3, <1>4, <1>5, <1>6, <1>7, <1>8, <1>9, <1>10, <1>11 DEF Next

\* Every step keeps guarded units apart from leases and obligations.
LEMMA MutationStep == Inv /\ [Next]_vars => MutationExclusive'
<1> SUFFICES ASSUME Inv, [Next]_vars PROVE MutationExclusive'
  OBVIOUS
<1> USE DEF Inv, MutationExclusive, TypeOK, Covered, Leased, ThreadOK, AcquirePC,
            journal, memory, thread, clients, units, others, world
<1>1. UNCHANGED <<guard, obl, phase>> => MutationExclusive'
  OBVIOUS
<1>2. CASE Acquire
  <2>1. ASSUME NEW s \in Session, AcquireStart(s) PROVE MutationExclusive'
    BY <2>1 DEF AcquireStart, MutexFree, Pending, Admissible
  <2>2. ASSUME NEW u \in Service, StopJournal(u) PROVE MutationExclusive'
    BY <2>2 DEF StopJournal
  <2>3. ASSUME StopDone PROVE MutationExclusive'
    BY <2>3 DEF StopDone
  <2>4. ASSUME ConfirmOwner PROVE MutationExclusive'
    BY <2>4 DEF ConfirmOwner
  <2>5. ASSUME AcquireAbort PROVE MutationExclusive'
    BY <2>5 DEF AcquireAbort, ReleaseToken
  <2>6. CASE PauseSkip \/ PauseAck \/ PauseFail \/ StopIssue \/ StopTimeout
             \/ StopsDone \/ SweepClear \/ SweepLock \/ SweepRetry \/ SweepTimeout
             \/ ConfirmFail \/ (\E s \in Session : AcquireRefuse(s) \/ Reply(s))
             \/ (\E u \in Service : StopSkip(u) \/ StopChanging(u))
    BY <1>1, <2>6 DEF AcquireRefuse, Pending, Admissible, Reply, PauseSkip,
                      PauseAck, PauseFail, StopSkip, StopChanging, StopIssue,
                      StopTimeout, StopsDone, SweepClear, SweepLock, SweepRetry,
                      SweepTimeout, ConfirmFail
  <2> QED BY <1>2, <2>1, <2>2, <2>3, <2>4, <2>5, <2>6 DEF Acquire
<1>3. CASE Recover
  <2>1. ASSUME NEW s \in Session, Release(s) PROVE MutationExclusive'
    BY <2>1 DEF Release, ReleaseToken, MutexFree
  <2>2. ASSUME RecoverDelete PROVE MutationExclusive'
    BY <2>2 DEF RecoverDelete
  <2>3. ASSUME NEW u \in Service, RestoreNoStart(u) PROVE MutationExclusive'
    BY <2>3 DEF RestoreNoStart
  <2>4. ASSUME RestoreDone PROVE MutationExclusive'
    BY <2>4 DEF RestoreDone
  <2>5. ASSUME RestoreFail PROVE MutationExclusive'
    BY <2>5 DEF RestoreFail
  <2>6. CASE RecoverTick \/ RecoverKeep \/ RecoverServices \/ RecoverEnd
             \/ (\E s \in Session : RecoverScan(s))
             \/ (\E u \in Service : RestoreSkip(u) \/ RestoreStart(u))
    BY <1>1, <2>6 DEF RecoverScan, RecoverTick, MutexFree, RecoverKeep,
                      RecoverServices, RestoreSkip, RestoreStart, RecoverEnd
  <2> QED BY <1>3, <2>1, <2>2, <2>3, <2>4, <2>5, <2>6 DEF Recover
<1>4. CASE BrokerCrash
  BY <1>1, <1>4 DEF BrokerCrash
<1>5. CASE BrokerRestart
  BY <1>1, <1>5 DEF BrokerRestart
<1>6. CASE Client
  BY <1>1, <1>6 DEF Client, ClientRequest, ClientTimeout, ClientOpen, ClientShut,
                    ClientClose, ClientDie, OrphanExit
<1>7. CASE Bridge
  BY <1>1, <1>7 DEF Bridge, PollAsk, PollLock, PollRecheck, PollOpen, PollClose,
                    BridgeRestart
<1>8. CASE Systemd
  BY <1>1, <1>8 DEF Systemd, UnitStarted, UnitStartFailed, UnitStopped, ServiceOpen,
                    IntruderOpen, IntruderClose
<1>9. CASE Mutation
  <2>1. ASSUME NEW g \in Unit, MutationGrant(g) PROVE MutationExclusive'
    BY ConfigAssumption, <2>1 DEF MutationGrant, MutexFree, Unit
  <2>2. ASSUME NEW g \in Unit, MutationEnd(g) PROVE MutationExclusive'
    BY <2>2 DEF MutationEnd
  <2>3. CASE (\E g \in Unit : MutationStart(g) \/ MutationStop(g))
    BY <1>1, <2>3 DEF MutationStart, MutationStop
  <2> QED BY <1>9, <2>1, <2>2, <2>3 DEF Mutation
<1>10. CASE Update
  BY <1>1, <1>10 DEF Update, UpdateGate, UpdateGrant, MutexFree, UpdateMark,
                     UpdateEnd, UpdateDie, UpdateRecover
<1>11. CASE UNCHANGED vars
  BY <1>1, <1>11 DEF vars
<1> QED BY <1>2, <1>3, <1>4, <1>5, <1>6, <1>7, <1>8, <1>9, <1>10, <1>11 DEF Next

\* Every step keeps an update alone.
LEMMA MaintenanceStep == Inv /\ [Next]_vars => MaintenanceExclusive'
<1> SUFFICES ASSUME Inv, [Next]_vars PROVE MaintenanceExclusive'
  OBVIOUS
<1> USE DEF Inv, MaintenanceExclusive, TypeOK, Quiet, Leased, ThreadOK, AcquirePC,
            journal, memory, thread, clients, units, others, world
<1>1. UNCHANGED <<upd, marker, phase, obl, guard>> => MaintenanceExclusive'
  OBVIOUS
<1>2. CASE Acquire
  <2>1. ASSUME NEW s \in Session, AcquireStart(s) PROVE MaintenanceExclusive'
    BY <2>1 DEF AcquireStart, MutexFree, Pending, Admissible
  <2>2. ASSUME NEW u \in Service, StopJournal(u) PROVE MaintenanceExclusive'
    BY <2>2 DEF StopJournal
  <2>3. ASSUME StopDone PROVE MaintenanceExclusive'
    BY <2>3 DEF StopDone
  <2>4. ASSUME ConfirmOwner PROVE MaintenanceExclusive'
    BY <2>4 DEF ConfirmOwner
  <2>5. ASSUME AcquireAbort PROVE MaintenanceExclusive'
    BY <2>5 DEF AcquireAbort, ReleaseToken
  <2>6. CASE PauseSkip \/ PauseAck \/ PauseFail \/ StopIssue \/ StopTimeout
             \/ StopsDone \/ SweepClear \/ SweepLock \/ SweepRetry \/ SweepTimeout
             \/ ConfirmFail \/ (\E s \in Session : AcquireRefuse(s) \/ Reply(s))
             \/ (\E u \in Service : StopSkip(u) \/ StopChanging(u))
    BY <1>1, <2>6 DEF AcquireRefuse, Pending, Admissible, Reply, PauseSkip,
                      PauseAck, PauseFail, StopSkip, StopChanging, StopIssue,
                      StopTimeout, StopsDone, SweepClear, SweepLock, SweepRetry,
                      SweepTimeout, ConfirmFail
  <2> QED BY <1>2, <2>1, <2>2, <2>3, <2>4, <2>5, <2>6 DEF Acquire
<1>3. CASE Recover
  <2>1. ASSUME NEW s \in Session, Release(s) PROVE MaintenanceExclusive'
    BY <2>1 DEF Release, ReleaseToken, MutexFree
  <2>2. ASSUME RecoverDelete PROVE MaintenanceExclusive'
    BY <2>2 DEF RecoverDelete
  <2>3. ASSUME NEW u \in Service, RestoreNoStart(u) PROVE MaintenanceExclusive'
    BY <2>3 DEF RestoreNoStart
  <2>4. ASSUME RestoreDone PROVE MaintenanceExclusive'
    BY <2>4 DEF RestoreDone
  <2>5. ASSUME RestoreFail PROVE MaintenanceExclusive'
    BY <2>5 DEF RestoreFail
  <2>6. CASE RecoverTick \/ RecoverKeep \/ RecoverServices \/ RecoverEnd
             \/ (\E s \in Session : RecoverScan(s))
             \/ (\E u \in Service : RestoreSkip(u) \/ RestoreStart(u))
    BY <1>1, <2>6 DEF RecoverScan, RecoverTick, MutexFree, RecoverKeep,
                      RecoverServices, RestoreSkip, RestoreStart, RecoverEnd
  <2> QED BY <1>3, <2>1, <2>2, <2>3, <2>4, <2>5, <2>6 DEF Recover
<1>4. CASE BrokerCrash
  BY <1>1, <1>4 DEF BrokerCrash
<1>5. CASE BrokerRestart
  BY <1>1, <1>5 DEF BrokerRestart
<1>6. CASE Client
  BY <1>1, <1>6 DEF Client, ClientRequest, ClientTimeout, ClientOpen, ClientShut,
                    ClientClose, ClientDie, OrphanExit
<1>7. CASE Bridge
  BY <1>1, <1>7 DEF Bridge, PollAsk, PollLock, PollRecheck, PollOpen, PollClose,
                    BridgeRestart
<1>8. CASE Systemd
  BY <1>1, <1>8 DEF Systemd, UnitStarted, UnitStartFailed, UnitStopped, ServiceOpen,
                    IntruderOpen, IntruderClose
<1>9. CASE Mutation
  <2>1. ASSUME NEW g \in Unit, MutationGrant(g) PROVE MaintenanceExclusive'
    BY <2>1 DEF MutationGrant, MutexFree
  <2>2. ASSUME NEW g \in Unit, MutationEnd(g) PROVE MaintenanceExclusive'
    BY <2>2 DEF MutationEnd
  <2>3. CASE (\E g \in Unit : MutationStart(g) \/ MutationStop(g))
    BY <1>1, <2>3 DEF MutationStart, MutationStop
  <2> QED BY <1>9, <2>1, <2>2, <2>3 DEF Mutation
<1>10. CASE Update
  <2>1. ASSUME UpdateGate PROVE MaintenanceExclusive'
    BY <2>1 DEF UpdateGate
  <2>2. ASSUME UpdateGrant PROVE MaintenanceExclusive'
    BY <2>2 DEF UpdateGrant, MutexFree
  <2>3. ASSUME UpdateMark PROVE MaintenanceExclusive'
    BY <2>3 DEF UpdateMark
  <2>4. ASSUME UpdateEnd PROVE MaintenanceExclusive'
    BY <2>4 DEF UpdateEnd
  <2>5. ASSUME UpdateDie PROVE MaintenanceExclusive'
    BY <2>5 DEF UpdateDie
  <2>6. ASSUME UpdateRecover PROVE MaintenanceExclusive'
    BY <2>6 DEF UpdateRecover
  <2> QED BY <1>10, <2>1, <2>2, <2>3, <2>4, <2>5, <2>6 DEF Update
<1>11. CASE UNCHANGED vars
  BY <1>1, <1>11 DEF vars
<1> QED BY <1>2, <1>3, <1>4, <1>5, <1>6, <1>7, <1>8, <1>9, <1>10, <1>11 DEF Next

\* Every step keeps a bridge pause with its lease.
LEMMA HoldsStep == Inv /\ [Next]_vars => HoldsCovered'
<1> SUFFICES ASSUME Inv, [Next]_vars PROVE HoldsCovered'
  OBVIOUS
<1> USE DEF Inv, HoldsCovered, TypeOK, Leased, ThreadOK, AcquirePC, journal, memory,
            thread, clients, units, others, world
<1>1. UNCHANGED <<holds, phase>> => HoldsCovered'
  OBVIOUS
<1>2. CASE Acquire
  <2>1. ASSUME NEW s \in Session, AcquireStart(s) PROVE HoldsCovered'
    BY <2>1 DEF AcquireStart, MutexFree, Pending, Admissible
  <2>2. ASSUME PauseAck PROVE HoldsCovered'
    BY <2>2 DEF PauseAck
  <2>3. ASSUME ConfirmOwner PROVE HoldsCovered'
    BY <2>3 DEF ConfirmOwner
  <2>4. ASSUME AcquireAbort PROVE HoldsCovered'
    BY <2>4 DEF AcquireAbort, ReleaseToken
  <2>5. CASE PauseSkip \/ PauseFail \/ StopIssue \/ StopDone \/ StopTimeout
             \/ StopsDone \/ SweepClear \/ SweepLock \/ SweepRetry \/ SweepTimeout
             \/ ConfirmFail \/ (\E s \in Session : AcquireRefuse(s) \/ Reply(s))
             \/ (\E u \in Service : StopSkip(u) \/ StopJournal(u) \/ StopChanging(u))
    BY <1>1, <2>5 DEF AcquireRefuse, Pending, Admissible, Reply, PauseSkip,
                      PauseFail, StopSkip, StopJournal, StopChanging, StopIssue,
                      StopDone, StopTimeout, StopsDone, SweepClear, SweepLock,
                      SweepRetry, SweepTimeout, ConfirmFail
  <2> QED BY <1>2, <2>1, <2>2, <2>3, <2>4, <2>5 DEF Acquire
<1>3. CASE Recover
  <2>1. ASSUME NEW s \in Session, Release(s) PROVE HoldsCovered'
    BY <2>1 DEF Release, ReleaseToken, MutexFree
  <2>2. ASSUME RecoverDelete PROVE HoldsCovered'
    BY <2>2 DEF RecoverDelete
  <2>3. CASE RecoverTick \/ RecoverKeep \/ RecoverServices \/ RestoreDone
             \/ RestoreFail \/ RecoverEnd \/ (\E s \in Session : RecoverScan(s))
             \/ (\E u \in Service : RestoreSkip(u) \/ RestoreNoStart(u) \/ RestoreStart(u))
    BY <1>1, <2>3 DEF RecoverScan, RecoverTick, MutexFree, RecoverKeep,
                      RecoverServices, RestoreSkip, RestoreNoStart, RestoreStart,
                      RestoreDone, RestoreFail, RecoverEnd
  <2> QED BY <1>3, <2>1, <2>2, <2>3 DEF Recover
<1>4. ASSUME BrokerCrash PROVE HoldsCovered'
  BY <1>4 DEF BrokerCrash
<1>5. CASE BrokerRestart
  BY <1>1, <1>5 DEF BrokerRestart
<1>6. CASE Client
  BY <1>1, <1>6 DEF Client, ClientRequest, ClientTimeout, ClientOpen, ClientShut,
                    ClientClose, ClientDie, OrphanExit
<1>7. CASE Bridge
  BY <1>1, <1>7 DEF Bridge, PollAsk, PollLock, PollRecheck, PollOpen, PollClose,
                    BridgeRestart
<1>8. CASE Systemd
  BY <1>1, <1>8 DEF Systemd, UnitStarted, UnitStartFailed, UnitStopped, ServiceOpen,
                    IntruderOpen, IntruderClose
<1>9. CASE Mutation
  BY <1>1, <1>9 DEF Mutation, MutationGrant, MutexFree, MutationStart, MutationStop,
                    MutationEnd
<1>10. CASE Update
  BY <1>1, <1>10 DEF Update, UpdateGate, UpdateGrant, MutexFree, UpdateMark,
                     UpdateEnd, UpdateDie, UpdateRecover
<1>11. CASE UNCHANGED vars
  BY <1>1, <1>11 DEF vars
<1> QED BY <1>2, <1>3, <1>4, <1>5, <1>6, <1>7, <1>8, <1>9, <1>10, <1>11 DEF Next

\* A service leaves "inactive" for "activating" only as a debt or under a guard.
StartJustified ==
    \A u \in Service : unit[u] = "inactive" /\ unit'[u] = "activating"
                       => u \in owed \/ u \in guard

\* Only a debt or a guard lets a step start a service.
LEMMA StartStep == Inv /\ [Next]_vars => StartJustified
<1> SUFFICES ASSUME Inv, [Next]_vars PROVE StartJustified
  OBVIOUS
<1> USE DEF Inv, StartJustified, DutyOK, TypeOK, Unit, ThreadOK, journal, memory,
            thread, clients, units, others, world
<1>1. UNCHANGED unit => StartJustified
  OBVIOUS
<1>2. CASE Acquire
  <2>1. ASSUME StopIssue PROVE StartJustified
    BY <2>1 DEF StopIssue
  <2>2. CASE PauseSkip \/ PauseAck \/ PauseFail \/ StopDone \/ StopTimeout
             \/ StopsDone \/ SweepClear \/ SweepLock \/ SweepRetry \/ SweepTimeout
             \/ ConfirmOwner \/ ConfirmFail \/ AcquireAbort
             \/ (\E s \in Session : AcquireStart(s) \/ AcquireRefuse(s) \/ Reply(s))
             \/ (\E u \in Service : StopSkip(u) \/ StopJournal(u) \/ StopChanging(u))
    BY <1>1, <2>2 DEF AcquireStart, MutexFree, Pending, Admissible, AcquireRefuse,
                      Reply, PauseSkip, PauseAck, PauseFail, StopSkip, StopJournal,
                      StopChanging, StopDone, StopTimeout, StopsDone, SweepClear,
                      SweepLock, SweepRetry, SweepTimeout, ConfirmOwner,
                      ConfirmFail, AcquireAbort, ReleaseToken
  <2> QED BY <1>2, <2>1, <2>2 DEF Acquire
<1>3. CASE Recover
  <2>1. ASSUME NEW u \in Service, RestoreStart(u) PROVE StartJustified
    BY <2>1 DEF RestoreStart
  <2>2. CASE RecoverTick \/ RecoverDelete \/ RecoverKeep \/ RecoverServices
             \/ RestoreDone \/ RestoreFail \/ RecoverEnd
             \/ (\E s \in Session : Release(s) \/ RecoverScan(s))
             \/ (\E u \in Service : RestoreSkip(u) \/ RestoreNoStart(u))
    BY <1>1, <2>2 DEF Release, ReleaseToken, MutexFree, RecoverScan, RecoverTick,
                      RecoverDelete, RecoverKeep, RecoverServices, RestoreSkip,
                      RestoreNoStart, RestoreDone, RestoreFail, RecoverEnd
  <2> QED BY <1>3, <2>1, <2>2 DEF Recover
<1>4. CASE BrokerCrash
  BY <1>1, <1>4 DEF BrokerCrash
<1>5. CASE BrokerRestart
  BY <1>1, <1>5 DEF BrokerRestart
<1>6. CASE Client
  BY <1>1, <1>6 DEF Client, ClientRequest, ClientTimeout, ClientOpen, ClientShut,
                    ClientClose, ClientDie, OrphanExit
<1>7. CASE Bridge
  BY <1>1, <1>7 DEF Bridge, PollAsk, PollLock, PollRecheck, PollOpen, PollClose,
                    BridgeRestart
<1>8. CASE Systemd
  <2>1. ASSUME NEW u \in Unit, UnitStarted(u) PROVE StartJustified
    BY <2>1 DEF UnitStarted
  <2>2. ASSUME NEW u \in Unit, UnitStartFailed(u) PROVE StartJustified
    BY <2>2 DEF UnitStartFailed
  <2>3. ASSUME NEW u \in Unit, UnitStopped(u) PROVE StartJustified
    BY <2>3 DEF UnitStopped
  <2>4. CASE (\E u \in Service, p \in Port : ServiceOpen(u, p))
             \/ (\E d \in Device : IntruderOpen(d) \/ IntruderClose(d))
    BY <1>1, <2>4 DEF ServiceOpen, IntruderOpen, IntruderClose
  <2> QED BY <1>8, <2>1, <2>2, <2>3, <2>4 DEF Systemd
<1>9. CASE Mutation
  <2>1. ASSUME NEW g \in Unit, MutationStart(g) PROVE StartJustified
    BY <2>1 DEF MutationStart
  <2>2. ASSUME NEW g \in Unit, MutationStop(g) PROVE StartJustified
    BY <2>2 DEF MutationStop
  <2>3. CASE (\E g \in Unit : MutationGrant(g) \/ MutationEnd(g))
    BY <1>1, <2>3 DEF MutationGrant, MutexFree, MutationEnd
  <2> QED BY <1>9, <2>1, <2>2, <2>3 DEF Mutation
<1>10. CASE Update
  BY <1>1, <1>10 DEF Update, UpdateGate, UpdateGrant, MutexFree, UpdateMark,
                     UpdateEnd, UpdateDie, UpdateRecover
<1>11. CASE UNCHANGED vars
  BY <1>1, <1>11 DEF vars
<1> QED BY <1>2, <1>3, <1>4, <1>5, <1>6, <1>7, <1>8, <1>9, <1>10, <1>11 DEF Next

\* The invariant holds on a freshly started board.
LEMMA InvInit == Init => Inv
<1> SUFFICES ASSUME Init PROVE Inv
  OBVIOUS
<1> USE ConfigAssumption DEF Init
<1>1. TypeOK
  BY DEF TypeOK, Phase, Obligation, UnitState, PC, Unit
<1>2. ThreadOK /\ LocksOK /\ CleanOK
  BY DEF ThreadOK, AcquirePC, LocksOK, CleanOK, Leased, SessionLock, PollerLock
<1>3. DutyOK /\ MutationExclusive /\ MaintenanceExclusive /\ HoldsCovered
  BY DEF DutyOK, MutationExclusive, MaintenanceExclusive, HoldsCovered, Covered, Leased
<1> QED BY <1>1, <1>2, <1>3 DEF Inv


\* The invariant is inductive, so it holds in every reachable state.
THEOREM InvHolds == Spec => []Inv
<1>1. Inv /\ [Next]_vars => Inv'
  BY TypeStep, ThreadStep, LocksStep, CleanStep, DutyStep, MutationStep,
     MaintenanceStep, HoldsStep DEF Inv
<1> QED BY InvInit, <1>1, PTL DEF Spec

\* Type correctness of the coordinator's state.
THEOREM TypeCorrect == Spec => []TypeOK
<1>1. Inv => TypeOK
  BY DEF Inv
<1> QED BY InvHolds, <1>1, PTL

\* The UART of a client that holds the transferred lock is open to no other
\* operation, no leftover child and no poller, on every board and after any
\* number of broker deaths, client deaths and bridge restarts.
THEOREM UartExclusive == Spec => []LeaseHolderExclusive
<1>1. ASSUME Inv, NEW s \in clientFd PROVE
         /\ \A t \in sUart : Dev(t) = Dev(s) => t = s
         /\ \A q \in Poller : Key[Line[q]] = Dev(s) => poll[q] # "open"
  <2>1. s \in Session /\ phase[s] = "owned" /\ SessionLock(s)
    BY <1>1 DEF Inv, TypeOK, LocksOK, SessionLock
  <2>2. \A t \in sUart : Dev(t) = Dev(s) => t = s
    BY <1>1, <2>1 DEF Inv, CleanOK
  <2>3. \A q \in Poller : Key[Line[q]] = Dev(s) => poll[q] # "open"
    BY <1>1, <2>1 DEF Inv, LocksOK, PollerLock
  <2> QED BY <2>2, <2>3
<1>2. Inv => LeaseHolderExclusive
  BY <1>1 DEF LeaseHolderExclusive
<1> QED BY InvHolds, <1>2, PTL

\* No service the broker stopped is forgotten by the journal.
THEOREM ObligationsKept == Spec => []NoLostObligation
<1>1. Inv => NoLostObligation
  BY DEF Inv, DutyOK, NoLostObligation, TypeOK
<1> QED BY InvHolds, <1>1, PTL

\* A guarded service mutation never meets a lease or a pending restoration.
THEOREM MutationsApart == Spec => []MutationExclusive
<1>1. Inv => MutationExclusive
  BY DEF Inv
<1> QED BY InvHolds, <1>1, PTL

\* An update runs with no lease, obligation or mutation until its marker goes.
THEOREM UpdateAlone == Spec => []MaintenanceExclusive
<1>1. Inv => MaintenanceExclusive
  BY DEF Inv
<1> QED BY InvHolds, <1>1, PTL

\* No bridge pause outlives its lease.
THEOREM PausesCovered == Spec => []HoldsCovered
<1>1. Inv => HoldsCovered
  BY DEF Inv
<1> QED BY InvHolds, <1>1, PTL

\* The broker starts only what it stopped.
THEOREM StartsJustified == Spec => StartsOnlyWhatItStopped
<1>1. Inv /\ [Next]_vars => [StartJustified]_vars
  BY StartStep
<1> QED BY InvHolds, <1>1, PTL DEF Spec, StartsOnlyWhatItStopped, StartJustified

\* Only a client that was answered, or the child of one that is gone, has the
\* UART open.
OpenOK == \A s \in sUart : cl[s] \in {"held", "gone"}

\* Every step keeps OpenOK.
LEMMA OpenStep == Inv /\ OpenOK /\ [Next]_vars => OpenOK'
<1> SUFFICES ASSUME Inv, OpenOK, [Next]_vars PROVE OpenOK'
  OBVIOUS
<1> USE DEF Inv, TypeOK, OpenOK, journal, memory, thread, clients, units, others, world
<1>1. ASSUME sUart' \subseteq sUart,
             \A s \in Session : cl'[s] = cl[s] \/ cl'[s] \in {"held", "gone"}
      PROVE  OpenOK'
  BY <1>1
<1>2. CASE Acquire
  <2>1. ASSUME NEW s \in Session, AcquireRefuse(s) \/ Reply(s) PROVE OpenOK'
    BY <1>1, <2>1 DEF AcquireRefuse, Reply
  <2>2. ASSUME AcquireAbort PROVE OpenOK'
    BY <1>1, <2>2 DEF AcquireAbort, ReleaseToken, ThreadOK, AcquirePC
  <2>3. CASE PauseSkip \/ PauseAck \/ PauseFail \/ StopIssue \/ StopDone \/ StopTimeout
             \/ StopsDone \/ SweepClear \/ SweepLock \/ SweepRetry \/ SweepTimeout
             \/ ConfirmOwner \/ ConfirmFail \/ (\E s \in Session : AcquireStart(s))
             \/ (\E u \in Service : StopSkip(u) \/ StopJournal(u) \/ StopChanging(u))
    BY <1>1, <2>3 DEF PauseSkip, PauseAck, PauseFail, StopSkip, StopJournal, StopChanging,
                      StopIssue, StopDone, StopTimeout, StopsDone, SweepClear, SweepLock,
                      SweepRetry, SweepTimeout, ConfirmOwner, ConfirmFail, AcquireStart
  <2> QED BY <1>2, <2>1, <2>2, <2>3 DEF Acquire
<1>3. CASE Recover
  <2>1. ASSUME NEW s \in Session, Release(s) PROVE OpenOK'
    BY <1>1, <2>1 DEF Release, ReleaseToken
  <2>2. CASE RecoverTick \/ RecoverDelete \/ RecoverKeep \/ RecoverServices \/ RestoreDone
             \/ RestoreFail \/ RecoverEnd \/ (\E s \in Session : RecoverScan(s))
             \/ (\E u \in Service : RestoreSkip(u) \/ RestoreNoStart(u) \/ RestoreStart(u))
    BY <1>1, <2>2 DEF RecoverScan, RecoverTick, RecoverDelete, RecoverKeep, RecoverServices,
                      RestoreSkip, RestoreNoStart, RestoreStart, RestoreDone, RestoreFail,
                      RecoverEnd
  <2> QED BY <1>3, <2>1, <2>2 DEF Recover
<1>4. CASE BrokerCrash
  BY <1>1, <1>4 DEF BrokerCrash
<1>5. CASE Client
  <2>1. ASSUME NEW s \in Session, ClientRequest(s) \/ ClientTimeout(s) PROVE OpenOK'
    BY <2>1 DEF ClientRequest, ClientTimeout
  <2>2. ASSUME NEW s \in Session, ClientOpen(s) PROVE OpenOK'
    BY <2>2 DEF ClientOpen
  <2>3. ASSUME NEW s \in Session, ClientClose(s) PROVE OpenOK'
    BY <2>3 DEF ClientClose
  <2>4. ASSUME NEW s \in Session, ClientShut(s) \/ ClientDie(s) \/ OrphanExit(s) PROVE OpenOK'
    BY <1>1, <2>4 DEF ClientShut, ClientDie, OrphanExit
  <2> QED BY <1>5, <2>1, <2>2, <2>3, <2>4 DEF Client
<1>6. CASE BrokerRestart \/ Bridge \/ Systemd \/ Mutation \/ Update \/ UNCHANGED vars
  BY <1>1, <1>6 DEF BrokerRestart, Bridge, PollAsk, PollLock, PollRecheck, PollOpen, PollClose,
                    BridgeRestart, Systemd, UnitStarted, UnitStartFailed, UnitStopped,
                    ServiceOpen, IntruderOpen, IntruderClose, Mutation, MutationGrant,
                    MutationStart, MutationStop, MutationEnd, Update, UpdateGate, UpdateGrant,
                    UpdateMark, UpdateEnd, UpdateDie, UpdateRecover, vars
<1> QED BY <1>2, <1>3, <1>4, <1>5, <1>6 DEF Next

\* Every step of the coordinator's world is a step of UartOwner, or changes
\* nothing it sees.
LEMMA OwnerStep == Inv /\ OpenOK /\ [Next]_vars => Owner!Next
<1> SUFFICES ASSUME Inv, OpenOK, [Next]_vars PROVE Owner!Next
  OBVIOUS
<1> USE DEF journal, memory, thread, clients, units, others, world
<1>0. /\ clientFd \subseteq Session /\ sUart \subseteq Session
      /\ poll \in [Poller -> {"off", "asked", "locked", "verified", "open"}]
  BY DEF Inv, TypeOK
<1>1. UNCHANGED <<clientFd, sUart, poll>> => Owner!Next
  BY DEF Owner!Next, Owner!Leave
<1>2. ASSUME clientFd' \subseteq clientFd, sUart' \subseteq sUart, poll' = poll
      PROVE  Owner!Next
  BY <1>2 DEF Owner!Next, Owner!Leave
<1>3. ASSUME clientFd' = clientFd, sUart' = sUart,
             \A q \in Poller : poll'[q] = "open" => poll[q] = "open"
      PROVE  Owner!Next
  BY <1>3 DEF Owner!Next, Owner!Leave
<1>5. CASE Acquire
  <2>1. ASSUME NEW s \in Session, Reply(s) PROVE Owner!Next
    <3>1. CASE s \in clientFd
      BY <1>1, <2>1, <3>1 DEF Reply
    <3>2. CASE s \notin clientFd
      <4>1. phase[s] = "owned" /\ s \in brokerFd
        BY <2>1 DEF Reply
      <4>2. \A t \in clientFd : Dev(t) # Dev(s)
        BY <1>0, <3>2, <4>1 DEF Inv, LocksOK, Leased
      <4>3. \A t \in sUart : Dev(t) # Dev(s)
        BY <1>0, <3>2, <4>1, <2>1 DEF Inv, OpenOK, CleanOK, SessionLock, Reply
      <4>4. \A q \in Poller : poll[q] = "open" => Key[Line[q]] # Dev(s)
        BY <4>1 DEF Inv, LocksOK, SessionLock, PollerLock
      <4>5. Owner!Grant(s)
        BY <1>0, <2>1, <4>2, <4>3, <4>4 DEF Reply, Owner!Grant, Owner!Held, Owner!Open
      <4> QED BY <4>5 DEF Owner!Next
    <3> QED BY <3>1, <3>2
  <2>2. ASSUME PauseAck PROVE Owner!Next
    BY <1>0, <1>3, <2>2 DEF PauseAck
  <2>3. CASE PauseSkip \/ PauseFail \/ StopIssue \/ StopDone \/ StopTimeout
             \/ StopsDone \/ SweepClear \/ SweepLock \/ SweepRetry \/ SweepTimeout
             \/ ConfirmOwner \/ ConfirmFail \/ AcquireAbort
             \/ (\E s \in Session : AcquireStart(s) \/ AcquireRefuse(s))
             \/ (\E u \in Service : StopSkip(u) \/ StopJournal(u) \/ StopChanging(u))
    BY <1>1, <2>3 DEF PauseSkip, PauseFail, StopSkip, StopJournal, StopChanging,
                      StopIssue, StopDone, StopTimeout, StopsDone, SweepClear, SweepLock,
                      SweepRetry, SweepTimeout, ConfirmOwner, ConfirmFail, AcquireAbort,
                      ReleaseToken, AcquireStart, AcquireRefuse
  <2> QED BY <1>5, <2>1, <2>2, <2>3 DEF Acquire
<1>6. CASE Recover \/ BrokerCrash \/ BrokerRestart \/ Mutation \/ Update \/ UNCHANGED vars
  BY <1>1, <1>6 DEF Recover, Release, ReleaseToken, RecoverScan, RecoverTick, RecoverDelete,
                    RecoverKeep, RecoverServices, RestoreSkip, RestoreNoStart, RestoreStart,
                    RestoreDone, RestoreFail, RecoverEnd, BrokerCrash, BrokerRestart,
                    Mutation, MutationGrant, MutationStart, MutationStop, MutationEnd,
                    Update, UpdateGate, UpdateGrant, UpdateMark, UpdateEnd, UpdateDie,
                    UpdateRecover, vars
<1>7. CASE Client
  <2>1. ASSUME NEW s \in Session, ClientOpen(s) PROVE Owner!Next
    <3>1. s \in clientFd /\ s \notin sUart /\ phase[s] = "owned" /\ SessionLock(s)
      BY <2>1 DEF ClientOpen, Inv, LocksOK, SessionLock
    <3>2. \A t \in sUart : Dev(t) = Dev(s) => t = s
      BY <3>1 DEF Inv, CleanOK
    <3>3. Owner!Begin(s)
      BY <1>0, <2>1, <3>1, <3>2 DEF ClientOpen, Owner!Begin
    <3> QED BY <3>3 DEF Owner!Next
  <2>2. ASSUME NEW s \in Session,
               ClientShut(s) \/ OrphanExit(s) \/ ClientClose(s) \/ ClientDie(s)
        PROVE  Owner!Next
    BY <1>2, <2>2 DEF ClientShut, OrphanExit, ClientClose, ClientDie
  <2>3. ASSUME NEW s \in Session, ClientRequest(s) \/ ClientTimeout(s) PROVE Owner!Next
    BY <1>1, <2>3 DEF ClientRequest, ClientTimeout
  <2> QED BY <1>7, <2>1, <2>2, <2>3 DEF Client
<1>8. CASE Bridge
  <2>1. ASSUME NEW q \in Poller, PollOpen(q) PROVE Owner!Next
    <3>1. PollerLock(q)
      BY <2>1 DEF PollOpen, PollerLock
    <3>2. \A t \in clientFd : Dev(t) # Key[Line[q]]
      BY <1>0, <3>1 DEF Inv, LocksOK, SessionLock
    <3>3. {r \in Poller : poll'[r] = "open"} = {r \in Poller : poll[r] = "open"} \cup {q}
      <4>1. poll' = [poll EXCEPT ![q] = "open"]
        BY <2>1 DEF PollOpen
      <4>2. \A r \in Poller : poll'[r] = "open" <=> poll[r] = "open" \/ r = q
        BY <1>0, <4>1
      <4> QED BY <4>2
    <3>4. Owner!Poll(q)
      BY <1>0, <2>1, <3>2, <3>3 DEF PollOpen, Owner!Poll, Owner!Held
    <3> QED BY <3>4 DEF Owner!Next
  <2>2. ASSUME NEW q \in Poller, PollAsk(q) \/ PollLock(q) \/ PollRecheck(q) \/ PollClose(q)
        PROVE  Owner!Next
    BY <1>0, <1>3, <2>2 DEF PollAsk, PollLock, PollRecheck, PollClose
  <2>3. ASSUME BridgeRestart PROVE Owner!Next
    BY <1>3, <2>3 DEF BridgeRestart
  <2> QED BY <1>8, <2>1, <2>2, <2>3 DEF Bridge
<1>9. CASE Systemd
  <2>1. ASSUME NEW u \in Unit, UnitStopped(u) PROVE Owner!Next
    BY <1>3, <2>1 DEF UnitStopped
  <2>2. CASE (\E u \in Unit : UnitStarted(u) \/ UnitStartFailed(u))
             \/ (\E u \in Service, p \in Port : ServiceOpen(u, p))
             \/ (\E e \in Device : IntruderOpen(e) \/ IntruderClose(e))
    BY <1>1, <2>2 DEF UnitStarted, UnitStartFailed, ServiceOpen, IntruderOpen, IntruderClose
  <2> QED BY <1>9, <2>1, <2>2 DEF Systemd
<1> QED BY <1>5, <1>6, <1>7, <1>8, <1>9 DEF Next

\* The coordinator implements the abstract owner of a UART: a grant finds it
\* closed, only the holder opens it and it is polled only while it has none, on
\* every board and through every death, timeout and abort.
THEOREM Implements == Spec => OwnsUart
<1>1. Init => Owner!Init /\ OpenOK
  BY DEF Init, Owner!Init, OpenOK
<1>2. Inv /\ OpenOK /\ [Next]_vars =>
        [Owner!Next]_<<clientFd, sUart, {q \in Poller : poll[q] = "open"}>>
  BY OwnerStep
<1> QED BY InvHolds, OpenStep, <1>1, <1>2, PTL DEF Spec, OwnsUart, Owner!Spec

\* UartOwner keeps what it is there for: whoever is granted a UART has it alone.
THEOREM OwnerSound == Owner!Spec => []Owner!Exclusive
<1> DEFINE shown == <<clientFd, sUart, {q \in Poller : poll[q] = "open"}>>
<1>1. Owner!Init => Owner!Exclusive
  BY DEF Owner!Init, Owner!Exclusive
<1>2. Owner!Exclusive /\ [Owner!Next]_shown => Owner!Exclusive'
  <2> SUFFICES ASSUME Owner!Exclusive, [Owner!Next]_shown PROVE Owner!Exclusive'
    OBVIOUS
  <2>1. CASE Owner!Leave \/ UNCHANGED shown
    BY <2>1 DEF Owner!Leave, Owner!Exclusive
  <2>2. ASSUME NEW o \in Session, Owner!Grant(o) PROVE Owner!Exclusive'
    BY <2>2 DEF Owner!Grant, Owner!Held, Owner!Open, Owner!Exclusive
  <2>3. ASSUME NEW o \in Session, Owner!Begin(o) PROVE Owner!Exclusive'
    BY <2>3 DEF Owner!Begin, Owner!Exclusive
  <2>4. ASSUME NEW h \in Poller, Owner!Poll(h) PROVE Owner!Exclusive'
    BY <2>4 DEF Owner!Poll, Owner!Held, Owner!Exclusive
  <2> QED BY <2>1, <2>2, <2>3, <2>4 DEF Owner!Next
<1> QED BY <1>1, <1>2, PTL DEF Owner!Spec

\* A client whose grant stands has the UART to itself, whatever children of killed
\* clients and the bridge's handles still have open elsewhere.
THEOREM HoldersAlone == Spec => []Owner!Exclusive
BY Implements, OwnerSound, PTL DEF OwnsUart

-----------------------------------------------------------------------------
(* The scope of an operation.  After a broker death the journal may name a  *)
(* unit whose stop was never issued, and a start that outlasts systemctl's  *)
(* timeout ends behind the broker's back; short of that an obligation is a  *)
(* stopped unit, and so are the units of a lease from its sweep on.         *)

\* Units whose start ends before systemctl gives up on it.
Fast == Service \ SlowUnit

Stopped(u) == unit[u] \in {"inactive", "deactivating"}

\* What the broker's thread knows of the units it stops, until its first death.
ScopeOK == crashes = 0 =>
    /\ \A u \in Fast : obl[u] # "none" =>
          Stopped(u) \/ (pc \in {"stopissue", "rstart"} /\ curU = u)
    /\ pc = "rstart" => ~Covered(curU)
    /\ pc = "pause" => todo = ScopeOf(cur)
    /\ pc \in {"stop", "stopissue", "stopwait"} =>
          \A u \in (ScopeOf(cur) \cap Fast) \ todo :
              Stopped(u) \/ (pc = "stopissue" /\ u = curU)
    /\ \A s \in Session :
          phase[s] = "owned" \/ (s = cur /\ pc \in {"sweep", "lock", "confirm"}) =>
              \A u \in ScopeOf(s) \cap Fast : Stopped(u)

\* The broker's deaths are never forgotten.
LEMMA DeathsCounted == TypeOK /\ [Next]_vars => (crashes' = 0 => crashes = 0)
<1> SUFFICES ASSUME TypeOK, [Next]_vars PROVE crashes' = 0 => crashes = 0
  OBVIOUS
<1>1. crashes' \in {crashes, crashes + 1}
  BY DEF journal, memory, thread, clients, units, others, world, Next, Acquire,
         AcquireStart, AcquireRefuse, Reply, PauseSkip, PauseAck, PauseFail,
         StopSkip, StopJournal, StopChanging, StopIssue, StopDone, StopTimeout, StopsDone,
         SweepClear, SweepLock, SweepRetry, SweepTimeout, ConfirmOwner, ConfirmFail,
         AcquireAbort, ReleaseToken, Recover, Release, RecoverScan, RecoverTick,
         RecoverDelete, RecoverKeep, RecoverServices, RestoreSkip, RestoreNoStart,
         RestoreStart, RestoreDone, RestoreFail, RecoverEnd, BrokerCrash, BrokerRestart,
         Client, ClientRequest, ClientTimeout, ClientOpen, ClientShut, ClientClose,
         ClientDie, OrphanExit, Bridge, PollAsk, PollLock, PollRecheck, PollOpen,
         PollClose, BridgeRestart, Systemd, UnitStarted, UnitStartFailed, UnitStopped,
         ServiceOpen, IntruderOpen, IntruderClose, Mutation, MutationGrant,
         MutationStart, MutationStop, MutationEnd, Update, UpdateGate, UpdateGrant,
         UpdateMark, UpdateEnd, UpdateDie, UpdateRecover, vars
<1> QED BY <1>1 DEF TypeOK

\* Every step keeps ScopeOK.
LEMMA ScopeStep == Inv /\ ScopeOK /\ [Next]_vars => ScopeOK'
<1> SUFFICES ASSUME Inv, ScopeOK, [Next]_vars PROVE ScopeOK'
  OBVIOUS
<1> USE DEF Inv, TypeOK, ScopeOK, Stopped, Fast, Unit, journal, memory, thread, clients,
            units, others, world
<1> SUFFICES ASSUME crashes' = 0, crashes = 0 PROVE ScopeOK'
  BY DeathsCounted
<1>1. UNCHANGED <<phase, obl, pc, cur, curU, todo, unit>> => ScopeOK'
  BY DEF Covered, Leased
<1>2. CASE Acquire
  <2>1. ASSUME NEW s \in Session, AcquireStart(s) PROVE ScopeOK'
    BY <2>1 DEF AcquireStart, MutexFree, Pending, Admissible
  <2>2. ASSUME PauseSkip \/ PauseAck PROVE ScopeOK'
    BY <2>2 DEF PauseSkip, PauseAck
  <2>3. ASSUME NEW u \in Service, StopSkip(u) PROVE ScopeOK'
    BY <2>3 DEF StopSkip
  <2>4. ASSUME NEW u \in Service, StopJournal(u) PROVE ScopeOK'
    BY <2>4 DEF StopJournal
  <2>5. ASSUME StopIssue PROVE ScopeOK'
    BY <2>5 DEF StopIssue, ThreadOK, AcquirePC
  <2>6. ASSUME StopDone PROVE ScopeOK'
    BY <2>6 DEF StopDone, ThreadOK, AcquirePC
  <2>7. ASSUME StopsDone PROVE ScopeOK'
    BY <2>7 DEF StopsDone
  <2>8. ASSUME ConfirmOwner PROVE ScopeOK'
    BY <2>8 DEF ConfirmOwner, ThreadOK, AcquirePC
  <2>9. ASSUME AcquireAbort PROVE ScopeOK'
    BY <2>9 DEF AcquireAbort, ReleaseToken
  <2>10. CASE PauseFail \/ StopTimeout \/ SweepClear \/ SweepLock \/ SweepRetry
              \/ SweepTimeout \/ ConfirmFail \/ (\E u \in Service : StopChanging(u))
    BY <2>10 DEF PauseFail, StopTimeout, SweepClear, SweepLock, SweepRetry, SweepTimeout,
                 ConfirmFail, StopChanging
  <2>11. CASE \E s \in Session : AcquireRefuse(s) \/ Reply(s)
    BY <1>1, <2>11 DEF AcquireRefuse, Pending, Admissible, Reply
  <2> QED BY <1>2, <2>1, <2>2, <2>3, <2>4, <2>5, <2>6, <2>7, <2>8, <2>9, <2>10, <2>11
          DEF Acquire
<1>3. CASE Recover
  <2>1. ASSUME NEW s \in Session, Release(s) PROVE ScopeOK'
    BY <2>1 DEF Release, ReleaseToken, MutexFree
  <2>2. ASSUME RecoverDelete PROVE ScopeOK'
    BY <2>2 DEF RecoverDelete
  <2>3. ASSUME NEW u \in Service, RestoreNoStart(u) PROVE ScopeOK'
    BY <2>3 DEF RestoreNoStart, ThreadOK
  <2>4. ASSUME NEW u \in Service, RestoreStart(u) PROVE ScopeOK'
    BY <2>4 DEF RestoreStart, Covered, Leased, ThreadOK
  <2>5. ASSUME RestoreDone PROVE ScopeOK'
    BY <2>5 DEF RestoreDone, ThreadOK, Covered, Leased
  <2>6. ASSUME RestoreFail PROVE ScopeOK'
    BY <2>6 DEF RestoreFail, ThreadOK, Covered, Leased
  <2>7. CASE RecoverTick \/ RecoverKeep \/ RecoverServices \/ RecoverEnd
             \/ (\E s \in Session : RecoverScan(s)) \/ (\E u \in Service : RestoreSkip(u))
    BY <2>7 DEF RecoverTick, MutexFree, RecoverKeep, RecoverServices, RecoverEnd,
                RecoverScan, RestoreSkip
  <2> QED BY <1>3, <2>1, <2>2, <2>3, <2>4, <2>5, <2>6, <2>7 DEF Recover
<1>4. CASE BrokerCrash
  BY <1>4 DEF BrokerCrash
<1>5. CASE BrokerRestart \/ Client \/ Bridge \/ Update \/ UNCHANGED vars
  BY <1>1, <1>5 DEF BrokerRestart, Client, ClientRequest, ClientTimeout, ClientOpen,
                    ClientShut, ClientClose, ClientDie, OrphanExit, Bridge, PollAsk,
                    PollLock, PollRecheck, PollOpen, PollClose, BridgeRestart, Update,
                    UpdateGate, UpdateGrant, UpdateMark, UpdateEnd, UpdateDie,
                    UpdateRecover, vars
<1>6. CASE Systemd
  <2>1. ASSUME NEW u \in Unit, UnitStarted(u) \/ UnitStartFailed(u) \/ UnitStopped(u)
        PROVE  ScopeOK'
    BY <2>1 DEF UnitStarted, UnitStartFailed, UnitStopped, Covered, Leased
  <2>2. CASE (\E u \in Service, p \in Port : ServiceOpen(u, p))
             \/ (\E d \in Device : IntruderOpen(d) \/ IntruderClose(d))
    BY <1>1, <2>2 DEF ServiceOpen, IntruderOpen, IntruderClose
  <2> QED BY <1>6, <2>1, <2>2 DEF Systemd
<1>7. CASE Mutation
  <2>1. ASSUME NEW g \in Unit, MutationStart(g) \/ MutationStop(g) PROVE ScopeOK'
    BY <2>1 DEF MutationStart, MutationStop, MutationExclusive, Covered, Leased,
                ThreadOK, AcquirePC
  <2>2. CASE \E g \in Unit : MutationGrant(g) \/ MutationEnd(g)
    BY <1>1, <2>2 DEF MutationGrant, MutationEnd
  <2> QED BY <1>7, <2>1, <2>2 DEF Mutation
<1> QED BY <1>2, <1>3, <1>4, <1>5, <1>6, <1>7 DEF Next

\* While an operation owns its port, no unit of its scope runs whose start ends
\* in time: until the first broker death, through every abort, timeout, shared
\* scope and guarded mutation.
THEOREM FastScopeStopped ==
    Spec => [](crashes = 0 =>
                 \A s \in Session : phase[s] = "owned" =>
                     \A u \in ScopeOf(s) \cap Fast : unit[u] # "active")
<1>1. Init => ScopeOK
  BY DEF Init, ScopeOK, Fast
<1>2. ScopeOK => (crashes = 0 =>
                    \A s \in Session : phase[s] = "owned" =>
                        \A u \in ScopeOf(s) \cap Fast : unit[u] # "active")
  BY DEF ScopeOK, Stopped
<1> QED BY InvHolds, ScopeStep, <1>1, <1>2, PTL DEF Spec

\* The units configured for a port do not run while an operation owns it, as
\* long as no start outlasts its timeout and the broker has not died: without either
\* condition the property fails (MCScope.cfg).
THEOREM ScopeKeptStopped == Spec => [](crashes = 0 /\ SlowUnit = {} => ScopedServiceStopped)
<1>1. Inv /\ (crashes = 0 =>
                \A s \in Session : phase[s] = "owned" =>
                    \A u \in ScopeOf(s) \cap Fast : unit[u] # "active")
      => (crashes = 0 /\ SlowUnit = {} => ScopedServiceStopped)
  BY ConfigTypes DEF ScopedServiceStopped, Fast
<1> QED BY InvHolds, FastScopeStopped, <1>1, PTL

-----------------------------------------------------------------------------
(* Every open UART.  A client that drives the UART itself closes it no     *)
(* later than its copy of the lock; a child tool may outlive its parent.   *)

KeptLock == \A s \in sUart : s \in clientFd \/ s \in ChildTool

\* Every step keeps KeptLock.
LEMMA KeptLockStep == Inv /\ KeptLock /\ [Next]_vars => KeptLock'
<1> SUFFICES ASSUME Inv, KeptLock, [Next]_vars PROVE KeptLock'
  OBVIOUS
<1> USE DEF KeptLock, journal, memory, thread, clients, units, others, world
<1>1. sUart' \subseteq sUart /\ clientFd \subseteq clientFd' => KeptLock'
  OBVIOUS
<1>2. CASE Client
  <2>1. ASSUME NEW s \in Session, ClientOpen(s) PROVE KeptLock'
    BY <2>1 DEF ClientOpen, Inv, LocksOK
  <2>2. ASSUME NEW s \in Session, ClientClose(s) \/ ClientDie(s) PROVE KeptLock'
    BY <2>2 DEF ClientClose, ClientDie
  <2>3. ASSUME NEW s \in Session,
               ClientRequest(s) \/ ClientTimeout(s) \/ ClientShut(s) \/ OrphanExit(s)
        PROVE  KeptLock'
    BY <1>1, <2>3 DEF ClientRequest, ClientTimeout, ClientShut, OrphanExit
  <2> QED BY <1>2, <2>1, <2>2, <2>3 DEF Client
<1>3. CASE Acquire
  BY <1>1, <1>3 DEF Acquire, AcquireStart, AcquireRefuse, Reply, PauseSkip, PauseAck,
                    PauseFail, StopSkip, StopJournal, StopChanging, StopIssue, StopDone,
                    StopTimeout, StopsDone, SweepClear, SweepLock, SweepRetry,
                    SweepTimeout, ConfirmOwner, ConfirmFail, AcquireAbort, ReleaseToken
<1>4. CASE Recover \/ BrokerCrash \/ BrokerRestart
  BY <1>1, <1>4 DEF Recover, Release, ReleaseToken, RecoverScan, RecoverTick,
                    RecoverDelete, RecoverKeep, RecoverServices, RestoreSkip,
                    RestoreNoStart, RestoreStart, RestoreDone, RestoreFail, RecoverEnd,
                    BrokerCrash, BrokerRestart
<1>5. CASE Bridge \/ Systemd \/ Mutation \/ Update \/ UNCHANGED vars
  BY <1>1, <1>5 DEF Bridge, PollAsk, PollLock, PollRecheck, PollOpen, PollClose,
                    BridgeRestart, Systemd, UnitStarted, UnitStartFailed, UnitStopped,
                    ServiceOpen, IntruderOpen, IntruderClose, Mutation, MutationGrant,
                    MutationStart, MutationStop, MutationEnd, Update, UpdateGate,
                    UpdateGrant, UpdateMark, UpdateEnd, UpdateDie, UpdateRecover, vars
<1> QED BY <1>2, <1>3, <1>4, <1>5 DEF Next

\* A UART that the client itself has open is open to nobody else the coordinator
\* manages, through every crash of broker and client.
THEOREM DirectExclusive ==
    Spec => [](\A s \in sUart \ ChildTool :
                  /\ \A t \in sUart : Dev(t) = Dev(s) => t = s
                  /\ \A q \in Poller : Key[Line[q]] = Dev(s) => poll[q] # "open")
<1>1. Init => KeptLock
  BY DEF Init, KeptLock
<1>2. LeaseHolderExclusive /\ KeptLock =>
        \A s \in sUart \ ChildTool :
            /\ \A t \in sUart : Dev(t) = Dev(s) => t = s
            /\ \A q \in Poller : Key[Line[q]] = Dev(s) => poll[q] # "open"
  BY DEF LeaseHolderExclusive, KeptLock
<1> QED BY InvHolds, UartExclusive, KeptLockStep, <1>1, <1>2, PTL DEF Spec

\* Until the broker dies a lease outlives what it started: the recovery pass
\* drops it only when nobody has the UART, and by then its client is gone.
OrphanOK == crashes = 0 =>
    /\ \A s \in sUart : Leased(s)
    /\ \A s \in Session : cl[s] = "held" => s \in conn
    /\ pc \in {"rlease", "rlock"} => todoS \cap conn = {}
    /\ pc = "rlock" => cur \notin sUart \cup conn
    /\ \A s \in sUart, q \in Poller :
          Key[Line[q]] = Dev(s) => poll[q] \notin {"verified", "open"}

\* Every step keeps OrphanOK.
LEMMA OrphanStep == Inv /\ OrphanOK /\ [Next]_vars => OrphanOK'
<1> SUFFICES ASSUME Inv, OrphanOK, [Next]_vars PROVE OrphanOK'
  OBVIOUS
<1> USE DEF Inv, TypeOK, OrphanOK, Leased, journal, memory, thread, clients, units, others,
            world
<1> SUFFICES ASSUME crashes' = 0, crashes = 0 PROVE OrphanOK'
  BY DeathsCounted
<1>1. UNCHANGED <<phase, conn, pc, cur, todoS, cl, sUart, poll>> => OrphanOK'
  OBVIOUS
<1>2. CASE Acquire
  <2>1. ASSUME NEW s \in Session, AcquireStart(s) PROVE OrphanOK'
    BY <2>1 DEF AcquireStart, MutexFree, Pending
  <2>2. ASSUME NEW s \in Session, AcquireRefuse(s) \/ Reply(s) PROVE OrphanOK'
    BY <2>2 DEF AcquireRefuse, Reply
  <2>3. ASSUME AcquireAbort PROVE OrphanOK'
    BY <2>3 DEF AcquireAbort, ReleaseToken
  <2>4. ASSUME ConfirmOwner PROVE OrphanOK'
    BY <2>4 DEF ConfirmOwner
  <2>5. ASSUME UNCHANGED <<phase, conn, todoS, cl, sUart, poll>>, pc' \notin {"rlease", "rlock"}
        PROVE  OrphanOK'
    BY <2>5
  <2>6. CASE PauseSkip \/ PauseAck \/ PauseFail
    BY <2>5, <2>6 DEF PauseSkip, PauseAck, PauseFail
  <2>7. CASE StopIssue \/ StopDone \/ StopTimeout \/ StopsDone
             \/ (\E u \in Service : StopSkip(u) \/ StopJournal(u) \/ StopChanging(u))
    BY <2>5, <2>7 DEF StopIssue, StopDone, StopTimeout, StopsDone, StopSkip, StopJournal,
                      StopChanging
  <2>8. CASE SweepClear \/ SweepLock \/ SweepRetry \/ SweepTimeout \/ ConfirmFail
    BY <2>5, <2>8 DEF SweepClear, SweepLock, SweepRetry, SweepTimeout, ConfirmFail
  <2> QED BY <1>2, <2>1, <2>2, <2>3, <2>4, <2>6, <2>7, <2>8
          DEF Acquire
<1>3. CASE Recover
  <2>1. ASSUME NEW s \in Session, Release(s) PROVE OrphanOK'
    BY <2>1 DEF Release, ReleaseToken, MutexFree
  <2>2. ASSUME NEW s \in Session, RecoverScan(s) PROVE OrphanOK'
    BY <2>2 DEF RecoverScan, Occupied
  <2>3. ASSUME RecoverTick PROVE OrphanOK'
    BY <2>3 DEF RecoverTick, MutexFree
  <2>4. ASSUME RecoverDelete PROVE OrphanOK'
    BY <2>4 DEF RecoverDelete, ThreadOK
  <2>5. ASSUME RecoverKeep PROVE OrphanOK'
    BY <2>5 DEF RecoverKeep
  <2>6. CASE RecoverServices \/ RestoreDone \/ RestoreFail \/ RecoverEnd
             \/ (\E u \in Service : RestoreSkip(u) \/ RestoreNoStart(u) \/ RestoreStart(u))
    <3>1. UNCHANGED <<phase, conn, todoS, cl, sUart, poll>> /\ pc' \notin {"rlease", "rlock"}
      BY <2>6 DEF RecoverServices, RestoreDone, RestoreFail, RecoverEnd, RestoreSkip,
                  RestoreNoStart, RestoreStart
    <3> QED BY <3>1
  <2> QED BY <1>3, <2>1, <2>2, <2>3, <2>4, <2>5, <2>6 DEF Recover
<1>4. CASE BrokerCrash \/ BrokerRestart
  BY <1>4 DEF BrokerCrash, BrokerRestart
<1>5. CASE Client
  <2>1. ASSUME NEW s \in Session, ClientOpen(s) PROVE OrphanOK'
    <3>1. Leased(s) /\ SessionLock(s) /\ s \in conn
      BY <2>1 DEF ClientOpen, LocksOK, SessionLock
    <3>2. \A q \in Poller : Key[Line[q]] = Dev(s) => poll[q] \notin {"verified", "open"}
      BY <3>1 DEF LocksOK, PollerLock
    <3> QED BY <2>1, <3>1, <3>2 DEF ClientOpen
  <2>2. ASSUME NEW s \in Session,
               ClientRequest(s) \/ ClientTimeout(s) \/ ClientShut(s) \/ ClientClose(s)
                 \/ ClientDie(s) \/ OrphanExit(s)
        PROVE  OrphanOK'
    BY <2>2 DEF ClientRequest, ClientTimeout, ClientShut, ClientClose, ClientDie, OrphanExit
  <2> QED BY <1>5, <2>1, <2>2 DEF Client
<1>6. CASE Bridge
  <2>1. ASSUME NEW q \in Poller, PollRecheck(q) PROVE OrphanOK'
    <3>1. \A s \in sUart : Key[Line[q]] = Dev(s) => poll'[q] = "off"
      BY <2>1 DEF PollRecheck, LeasedDev
    <3> QED BY <2>1, <3>1 DEF PollRecheck
  <2>2. ASSUME NEW q \in Poller, PollAsk(q) \/ PollLock(q) \/ PollOpen(q) \/ PollClose(q)
        PROVE  OrphanOK'
    BY <2>2 DEF PollAsk, PollLock, PollOpen, PollClose
  <2>3. CASE BridgeRestart
    BY <2>3 DEF BridgeRestart
  <2> QED BY <1>6, <2>1, <2>2, <2>3 DEF Bridge
<1>7. CASE Systemd \/ Mutation \/ Update \/ UNCHANGED vars
  <2>1. UNCHANGED <<phase, conn, pc, cur, todoS, cl, sUart>>
        /\ \A q \in Poller : poll'[q] = poll[q] \/ poll'[q] = "off"
    BY <1>7 DEF Systemd, UnitStarted, UnitStartFailed, UnitStopped, ServiceOpen,
                IntruderOpen, IntruderClose, Mutation, MutationGrant, MutationStart,
                MutationStop, MutationEnd, Update, UpdateGate, UpdateGrant, UpdateMark,
                UpdateEnd, UpdateDie, UpdateRecover, vars
  <2> QED BY <2>1
<1> QED BY <1>2, <1>3, <1>4, <1>5, <1>6, <1>7 DEF Next

\* Every open UART is open once, an external child that outlives its parent
\* included, until the broker dies; and through every death where no operation
\* works through such a child, which keeps the UART but not the lock.
THEOREM ManagedApart == Spec => []((ChildTool = {} \/ crashes = 0) => ManagedExclusive)
<1>1. (\A s \in sUart \ ChildTool :
          /\ \A t \in sUart : Dev(t) = Dev(s) => t = s
          /\ \A q \in Poller : Key[Line[q]] = Dev(s) => poll[q] # "open")
      => (ChildTool = {} => ManagedExclusive)
  BY DEF ManagedExclusive
<1>2. Inv /\ OrphanOK => (crashes = 0 => ManagedExclusive)
  BY DEF Inv, TypeOK, LocksOK, OrphanOK, ManagedExclusive
<1>3. Init => OrphanOK
  BY DEF Init, OrphanOK
<1>4. (ChildTool = {} => ManagedExclusive) /\ (crashes = 0 => ManagedExclusive)
        => ((ChildTool = {} \/ crashes = 0) => ManagedExclusive)
  OBVIOUS
<1> QED BY DirectExclusive, InvHolds, OrphanStep, <1>1, <1>2, <1>3, <1>4, PTL DEF Spec
=============================================================================
