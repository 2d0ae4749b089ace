---------------------------- MODULE FlasherProofs ----------------------------
(***************************************************************************)
(* Proofs about Flasher, for any UARTs, jobs, handler threads and batches. *)
(***************************************************************************)
EXTENDS Flasher, TLAPS

Before == {"idle", "start", "lease", "broker", "flock"}
Session == OnLine \ {"scan", "next"}
After == {"unflock", "unlease", "finish", "free", "end"}

\* The step of a worker tells the state of its job, its hold on the UART, and
\* whether it is at a module.
Sound(r) ==
  /\ r.at = "idle" <=> r.state = "none"
  /\ r.at = "start" <=> r.state = "pending"
  /\ r.at \in {"free", "end"} <=> r.state \in Ended
  /\ r.at # "idle" => r.port \in Port
  /\ r.hold # "no" <=> r.at \in Inside \cup {"flock", "unlease"}
  /\ r.at \in Session => r.n # 0

Fit(r) == r \in Jobs /\ Sound(r)

SoundOK == \A j \in Job : Sound(job[j])

\* What a handler thread holds, and what it is asked to do.
ClientOK == \A c \in Client :
  /\ client[c].at = "set" => client[c].job \in Job
  /\ client[c].at \in {"config", "port", "broker", "talk"} => client[c].port \in Port
  /\ client[c].hold # "no" <=> client[c].at = "talk"
  /\ client[c].at \in {"giving", "taking"} => lock = c
  /\ client[c].at = "giving" => client[c].todo \subseteq manual

Base == TypeOK /\ SoundOK /\ ClientOK

\* A worker changes its own record alone.
LEMMA WorkerRecord ==
  ASSUME Base, NEW j \in Job, Worker(j)
  PROVE  job' = [job EXCEPT ![j] = job'[j]] /\ Fit(job'[j])
<1> DEFINE r == job[j]
<1> USE FlasherAssumption DEF Fit, Base, Active, Ended, OnLine, Inside, Kinds, Session, Goes, Target
<1>1. Fit(r) /\ job \in [Job -> Jobs]
  BY DEF TypeOK, SoundOK
<1>2. 0 \in 0 .. MaxTry
  OBVIOUS
<1>3. ASSUME r.n # 0 PROVE Fails(r) \in Jobs
  <2>1. r.errs \cup {r.n} \in SUBSET (1 .. MaxTarget)
    BY <1>1, <1>3 DEF Jobs
  <2> DEFINE q == [r EXCEPT !.errs = IF r.kind = "batch" THEN @ \cup {r.n} ELSE @]
  <2>2. q \in Jobs
    BY <1>1, <2>1, ZenonT(60) DEF Jobs
  <2>3. Fails(r) = [q EXCEPT !.at = IF r.kind = "batch" THEN "next" ELSE "unflock",
                             !.raised = (r.kind # "batch"), !.gate = FALSE, !.try = 0]
    BY <1>1 DEF Fails, Jobs
  <2> HIDE DEF q
  <2> QED BY <1>2, <2>2, <2>3, ZenonT(60) DEF Jobs
<1>4. ASSUME r.n # 0, NEW a \in {"info", "data"} PROVE Again(r, a) \in Jobs
  <2>1. r.try + 1 < MaxTry => r.try + 1 \in 0 .. MaxTry
    BY <1>1 DEF Jobs
  <2>2. CASE r.try + 1 < MaxTry
    BY <1>1, <2>1, <2>2, ZenonT(60) DEF Jobs, Again
  <2> QED BY <1>3, <1>4, <2>2 DEF Again
<1>5. ASSUME r.at \in Session PROVE r.n # 0 /\ r.state = "running" /\ r.port \in Port /\ r.hold # "no"
  BY <1>1, <1>5 DEF Jobs, Sound
<1>6. ASSUME r.at \in Session PROVE Fit(Fails(r))
  BY <1>1, <1>3, <1>5, <1>6 DEF Jobs, Fails, Sound
<1>7. ASSUME r.at \in Session
      PROVE  /\ Fit(Again(r, "info"))
             /\ Fit(Again(r, "data"))
  <2>1. Again(r, "info") \in Jobs /\ Again(r, "data") \in Jobs
    BY <1>4, <1>5, <1>7
  <2>2. CASE r.try + 1 < MaxTry
    BY <1>1, <1>5, <1>7, <2>1, <2>2 DEF Jobs, Again, Sound
  <2>3. CASE ~(r.try + 1 < MaxTry)
    BY <1>6, <1>7, <2>3 DEF Again
  <2> QED BY <2>1, <2>2, <2>3
<1>8. ASSUME NEW x, Fit(x), job' = [job EXCEPT ![j] = x]
      PROVE  job' = [job EXCEPT ![j] = job'[j]] /\ Fit(job'[j])
  BY <1>1, <1>8
<1>9. CASE Starts(j)
  <2>1. Fit([r EXCEPT !.state = "running", !.at = "lease"])
    BY <1>1, <1>9 DEF Starts, Jobs, Sound
  <2>2. job' = [job EXCEPT ![j] = [r EXCEPT !.state = "running", !.at = "lease"]]
    BY <1>1, <1>9 DEF Starts
  <2> QED BY <1>8, <2>1, <2>2
<1>10. CASE TakeLease(j)
  <2>1. Fit([r EXCEPT !.at = "flock", !.hold = "manual"])
    BY <1>1, <1>10 DEF TakeLease, Jobs, Sound
  <2>2. Fit([r EXCEPT !.at = "finish", !.raised = TRUE])
    BY <1>1, <1>10 DEF TakeLease, Jobs, Sound
  <2>3. Fit([r EXCEPT !.at = "broker"])
    BY <1>1, <1>10 DEF TakeLease, Jobs, Sound
  <2>4. job' \in {[job EXCEPT ![j] = [r EXCEPT !.at = "flock", !.hold = "manual"]],
               [job EXCEPT ![j] = [r EXCEPT !.at = "finish", !.raised = TRUE]],
               [job EXCEPT ![j] = [r EXCEPT !.at = "broker"]]}
    BY <1>1, <1>10 DEF TakeLease, TakeManual
  <2> QED BY <1>8, <2>1, <2>2, <2>3, <2>4
<1>11. CASE AskBroker(j)
  <2>1. Fit([r EXCEPT !.at = "flock", !.hold = "own"])
    BY <1>1, <1>11 DEF AskBroker, Jobs, Sound
  <2>2. Fit([r EXCEPT !.at = "finish", !.raised = TRUE])
    BY <1>1, <1>11 DEF AskBroker, Jobs, Sound
  <2>3. job' \in {[job EXCEPT ![j] = [r EXCEPT !.at = "flock", !.hold = "own"]],
               [job EXCEPT ![j] = [r EXCEPT !.at = "finish", !.raised = TRUE]]}
    BY <1>1, <1>11 DEF AskBroker
  <2> QED BY <1>8, <2>1, <2>2, <2>3
<1>12. CASE TakeFlock(j)
  <2>1. Fit([r EXCEPT !.at = "scan"])
    BY <1>1, <1>12 DEF TakeFlock, Jobs, Sound
  <2>2. Fit([r EXCEPT !.at = "next"])
    BY <1>1, <1>12 DEF TakeFlock, Jobs, Sound
  <2>3. Fit([r EXCEPT !.at = "unlease", !.raised = TRUE])
    BY <1>1, <1>12 DEF TakeFlock, Jobs, Sound
  <2>4. job' \in {[job EXCEPT ![j] = [r EXCEPT !.at = "scan"]],
               [job EXCEPT ![j] = [r EXCEPT !.at = "next"]],
               [job EXCEPT ![j] = [r EXCEPT !.at = "unlease", !.raised = TRUE]]}
    BY <1>1, <1>12 DEF TakeFlock
  <2> QED BY <1>8, <2>1, <2>2, <2>3, <2>4
<1>13. CASE Scan(j)
  <2>1. Fit([r EXCEPT !.at = "unflock"])
    BY <1>1, <1>13 DEF Scan, Jobs, Sound
  <2>2. job' = [job EXCEPT ![j] = [r EXCEPT !.at = "unflock"]]
    BY <1>1, <1>13 DEF Scan
  <2> QED BY <1>8, <2>1, <2>2
<1>14. CASE NextModule(j)
  <2>1. Fit([r EXCEPT !.at = "unflock"])
    BY <1>1, <1>14 DEF NextModule, Jobs, Sound
  <2>2. ASSUME r.n < MaxTarget
        PROVE  LET x == [r EXCEPT !.n = @ + 1, !.at = "enter"] IN Fit(x)
    <3>1. r.n + 1 \in 0 .. MaxTarget /\ r.n + 1 # 0
      BY <1>1, <2>2 DEF Jobs
    <3> QED BY <1>1, <1>14, <3>1 DEF NextModule, Jobs, Sound
  <2>3. \/ job' = [job EXCEPT ![j] = [r EXCEPT !.at = "unflock"]]
        \/ r.n < MaxTarget /\ job' = [job EXCEPT ![j] = [r EXCEPT !.n = @ + 1, !.at = "enter"]]
    BY <1>1, <1>14 DEF NextModule, Last, Jobs
  <2> QED BY <1>8, <2>1, <2>2, <2>3
<1>15. CASE MarkGate(j)
  <2>1. Fit([r EXCEPT !.at = "mark", !.gate = TRUE])
    BY <1>1, <1>15 DEF MarkGate, Jobs, Sound
  <2>2. job' = [job EXCEPT ![j] = [r EXCEPT !.at = "mark", !.gate = TRUE]]
    BY <1>1, <1>15 DEF MarkGate
  <2> QED BY <1>8, <2>1, <2>2
<1>16. CASE MarkJob(j)
  <2>1. Fit([r EXCEPT !.at = "data", !.irreversible = TRUE])
    BY <1>1, <1>16 DEF MarkJob, Jobs, Sound
  <2>2. job' = [job EXCEPT ![j] = [r EXCEPT !.at = "data", !.irreversible = TRUE]]
    BY <1>1, <1>16 DEF MarkJob
  <2> QED BY <1>8, <2>1, <2>2
<1>17. CASE DropFlock(j)
  <2>1. Fit([r EXCEPT !.at = "unlease"])
    BY <1>1, <1>17 DEF DropFlock, Jobs, Sound
  <2>2. job' = [job EXCEPT ![j] = [r EXCEPT !.at = "unlease"]]
    BY <1>1, <1>17 DEF DropFlock
  <2> QED BY <1>8, <2>1, <2>2
<1>18. CASE DropLease(j)
  <2>1. Fit([r EXCEPT !.at = "finish", !.hold = "no"])
    BY <1>1, <1>18 DEF DropLease, Jobs, Sound
  <2>2. job' = [job EXCEPT ![j] = [r EXCEPT !.at = "finish", !.hold = "no"]]
    BY <1>1, <1>18 DEF DropLease
  <2> QED BY <1>8, <2>1, <2>2
<1>19. CASE Free(j)
  <2>1. Fit([r EXCEPT !.at = "end"])
    BY <1>1, <1>19 DEF Free, Jobs, Sound
  <2>2. job' = [job EXCEPT ![j] = [r EXCEPT !.at = "end"]]
    BY <1>1, <1>19 DEF Free
  <2> QED BY <1>8, <2>1, <2>2
<1>20. CASE Enter(j)
  <2>1. Fit([r EXCEPT !.at = "info"])
    BY <1>1, <1>20 DEF Enter, Jobs, Sound
  <2>2. Fit([r EXCEPT !.at = "info", !.dev[r.n] = "boot"])
    BY <1>1, <1>20 DEF Enter, Jobs, Sound
  <2>3. job' \in {[job EXCEPT ![j] = [r EXCEPT !.at = "info"]], [job EXCEPT ![j] = Fails(r)],
                  [job EXCEPT ![j] = [r EXCEPT !.at = "info", !.dev[r.n] = "boot"]]}
    BY <1>1, <1>20 DEF Enter
  <2>4. r.at \in Session
    BY <1>20 DEF Enter
  <2> QED BY <1>6, <1>8, <2>1, <2>2, <2>3, <2>4
<1>21. CASE InfoCheck(j)
  <2>1. Fit([r EXCEPT !.at = "infoSend"])
    BY <1>1, <1>21 DEF InfoCheck, Jobs, Sound
  <2>2. job' \in {[job EXCEPT ![j] = [r EXCEPT !.at = "infoSend"]], [job EXCEPT ![j] = Fails(r)]}
    BY <1>1, <1>21 DEF InfoCheck
  <2>3. r.at \in Session
    BY <1>21 DEF InfoCheck
  <2> QED BY <1>6, <1>8, <2>1, <2>2, <2>3
<1>22. CASE InfoSend(j)
  <2> DEFINE x == [r EXCEPT !.at = "infoReply",
                            !.dev[r.n] = IF @ = "app" THEN @ ELSE "erased"]
  <2>1. Fit(x)
    BY <1>1, <1>22 DEF InfoSend, Jobs, Sound
  <2>2. job' = [job EXCEPT ![j] = x] \/ job' = [job EXCEPT ![j] = Again(r, "info")]
    BY <1>1, <1>22 DEF InfoSend
  <2>3. r.at \in Session
    BY <1>22 DEF InfoSend
  <2> QED BY <1>7, <1>8, <2>1, <2>2, <2>3
<1>23. CASE InfoReply(j)
  <2> DEFINE x == [r EXCEPT !.at = "gate", !.try = 0]
  <2>1. Fit(x)
    BY <1>1, <1>2, <1>23 DEF InfoReply, Jobs, Sound
  <2>2. job' = [job EXCEPT ![j] = x] \/ job' = [job EXCEPT ![j] = Again(r, "info")]
    BY <1>1, <1>23 DEF InfoReply
  <2>3. r.at \in Session
    BY <1>23 DEF InfoReply
  <2> QED BY <1>7, <1>8, <2>1, <2>2, <2>3
<1>24. CASE Data(j)
  <2> DEFINE x == [r EXCEPT !.at = "jump", !.try = 0, !.dev[r.n] = "new"]
  <2>1. Fit(x)
    BY <1>1, <1>2, <1>24 DEF Data, Jobs, Sound
  <2>2. job' \in {[job EXCEPT ![j] = x], [job EXCEPT ![j] = Again(r, "data")],
                  [job EXCEPT ![j] = Fails(r)], [job EXCEPT ![j] = Skips(r)]}
    BY <1>1, <1>24 DEF Data, BlockFails
  <2>3. r.at \in Session
    BY <1>24 DEF Data
  <2>4. Fit(Skips(r))
    BY <1>1, <1>2, <1>24 DEF Data, Skips, Jobs, Sound
  <2> QED BY <1>6, <1>7, <1>8, <2>1, <2>2, <2>3, <2>4
<1>25. CASE Jump(j)
  <2>1. Fit([r EXCEPT !.at = "next", !.gate = FALSE])
    BY <1>1, <1>25 DEF Jump, Jobs, Sound
  <2>2. job' \in {[job EXCEPT ![j] = [r EXCEPT !.at = "next", !.gate = FALSE]],
                  [job EXCEPT ![j] = Fails(r)]}
    BY <1>1, <1>25 DEF Jump
  <2>3. r.at \in Session
    BY <1>25 DEF Jump
  <2> QED BY <1>6, <1>8, <2>1, <2>2, <2>3
<1>26. CASE Finish(j)
  <2> DEFINE x == [r EXCEPT !.at = "free", !.state = IF r.raised THEN "error"
                                                     ELSE IF j \in evt THEN "cancelled" ELSE "done"]
  <2>1. Fit(x)
    BY <1>1, <1>26 DEF Finish, Jobs, Sound
  <2>2. job' = [job EXCEPT ![j] = x]
    BY <1>1, <1>26 DEF Finish
  <2> QED BY <1>8, <2>1, <2>2
<1> QED BY <1>9, <1>10, <1>11, <1>12, <1>13, <1>14, <1>15, <1>16, <1>17, <1>18, <1>19,
           <1>20, <1>21, <1>22, <1>23, <1>24, <1>25, <1>26 DEF Worker

\* A handler thread changes its own record alone, and the lock only while it has it.
LEMMA HandlerStep ==
  ASSUME Base, NEW c \in Client,
         \/ Handler(c)
         \/ \E j \in Job : CancelCheck(c, j)
         \/ \E s \in {"release", "restore", "config"}, p \in Port : Request(c, s, p)
  PROVE  TypeOK' /\ ClientOK' /\ job' = job
<1> USE FlasherAssumption DEF ports, handlers, Thread
<1>0. TypeOK /\ SoundOK /\ ClientOK
  BY DEF Base
<1> DEFINE r == client[c]
<1>1. r \in Clients /\ client \in [Client -> Clients]
  BY <1>0 DEF TypeOK
<1>2. /\ r.at = "set" => r.job \in Job
      /\ r.at \in {"config", "port", "broker", "talk"} => r.port \in Port
      /\ r.hold # "no" <=> r.at = "talk"
      /\ r.at \in {"giving", "taking"} => lock = c
      /\ r.at = "giving" => r.todo \subseteq manual
  BY <1>0 DEF ClientOK
<1>3. Answered(r) \in Clients /\ Answered(r).at = "idle" /\ Answered(r).hold = "no"
  BY <1>1 DEF Clients, Answered
<1>4. ASSUME NEW x \in Clients, client' = [client EXCEPT ![c] = x],
             x.at = "set" => x.job \in Job,
             x.at \in {"config", "port", "broker", "talk"} => x.port \in Port,
             x.hold # "no" <=> x.at = "talk",
             x.at \in {"giving", "taking"} => lock' = c,
             x.at = "giving" => x.todo \subseteq manual',
             lock' = lock \/ lock \in {c, None}, manual \subseteq manual' \/ lock = c
      PROVE  client' \in [Client -> Clients] /\ ClientOK'
  BY <1>0, <1>1, <1>4 DEF ClientOK
<1>5. ASSUME NEW j \in Job, CancelCheck(c, j) PROVE TypeOK' /\ ClientOK' /\ job' = job
  <2> DEFINE x == [r EXCEPT !.at = "set", !.port = None, !.job = j, !.served = @ + 1]
  <2>1. r.at = "idle" /\ r.served + 1 \in 0 .. MaxRequest
    BY <1>1, <1>5 DEF CancelCheck, Serves, Clients
  <2>2. client' = [client EXCEPT ![c] = x]
    BY <1>1, <1>5 DEF CancelCheck, Begins
  <2>3. x \in Clients /\ x.at = "set" /\ x.job \in Job /\ x.hold = "no"
    BY <1>1, <1>2, <2>1 DEF Clients
  <2>4. UNCHANGED <<job, evt, portJob, ports, flock, lock, cfgLock, mishaps>>
    BY <1>5 DEF CancelCheck
  <2> HIDE DEF x
  <2>5. client' \in [Client -> Clients] /\ ClientOK'
    BY <1>4, <2>2, <2>3, <2>4
  <2> QED BY <1>0, <2>4, <2>5 DEF TypeOK
<1>6. ASSUME NEW s \in {"release", "restore", "config"}, NEW p \in Port, Request(c, s, p)
      PROVE  TypeOK' /\ ClientOK' /\ job' = job
  <2> DEFINE x == [r EXCEPT !.at = s, !.port = p, !.job = None, !.served = @ + 1]
  <2>1. r.at = "idle" /\ r.served + 1 \in 0 .. MaxRequest
    BY <1>1, <1>6 DEF Request, Serves, Clients
  <2>2. client' = [client EXCEPT ![c] = x]
    BY <1>1, <1>6 DEF Request, Begins
  <2>3. x \in Clients /\ x.at = s /\ x.port = p /\ x.hold = "no"
    BY <1>1, <1>2, <2>1 DEF Clients
  <2>4. UNCHANGED <<job, evt, portJob, ports, flock, lock, cfgLock, mishaps>>
    BY <1>6 DEF Request
  <2> HIDE DEF x
  <2>5. client' \in [Client -> Clients] /\ ClientOK'
    BY <1>4, <2>2, <2>3, <2>4
  <2> QED BY <1>0, <2>4, <2>5 DEF TypeOK
<1>7. CASE CancelSet(c)
  <2>1. client' = [client EXCEPT ![c] = Answered(r)]
    BY <1>7 DEF CancelSet, Answers
  <2>2. UNCHANGED <<job, portJob, ports, flock, lock, cfgLock, mishaps>> /\ evt' \subseteq Job
    BY <1>0, <1>2, <1>7 DEF CancelSet, TypeOK
  <2>3. client' \in [Client -> Clients] /\ ClientOK'
    BY <1>3, <1>4, <2>1, <2>2
  <2> QED BY <1>0, <2>2, <2>3 DEF TypeOK
<1>8. ASSUME NEW s \in {"giving", "taking"}, NEW rest \in SUBSET Port, Loops(c, s, rest),
             lock \in {c, None}, s = "giving" => rest \subseteq manual',
             manual \subseteq manual' \/ lock = c, r.hold = "no"
      PROVE  client' \in [Client -> Clients] /\ ClientOK' /\ lock' \in Client \cup {None}
  <2> DEFINE x == [r EXCEPT !.at = s, !.todo = rest]
  <2>1. x \in Clients /\ x.at = s /\ x.todo = rest /\ x.hold = "no"
    BY <1>1, <1>8 DEF Clients
  <2> HIDE DEF x
  <2>2. CASE rest = {}
    <3>1. client' = [client EXCEPT ![c] = Answered(r)] /\ lock' = None
      BY <1>1, <1>8, <2>2 DEF Loops
    <3> QED BY <1>3, <1>4, <1>8, <3>1
  <2>3. CASE rest # {}
    <3>1. client' = [client EXCEPT ![c] = x] /\ lock' = c
      BY <1>1, <1>8, <2>3 DEF Loops, x
    <3> QED BY <1>4, <1>8, <2>1, <3>1
  <2> QED BY <2>2, <2>3
<1>9. CASE EnterLoop(c)
  <2>1. UNCHANGED <<job, evt, portJob, ports, flock, cfgLock, mishaps>> /\ lock = None
    BY <1>9 DEF EnterLoop
  <2>2. Loops(c, "taking", Port \ manual) \/ Loops(c, "giving", manual)
    BY <1>9 DEF EnterLoop
  <2>3. r.hold = "no" /\ Port \ manual \in SUBSET Port /\ manual \in SUBSET Port
    BY <1>0, <1>2, <1>9 DEF EnterLoop, TypeOK
  <2>4. client' \in [Client -> Clients] /\ ClientOK' /\ lock' \in Client \cup {None}
    BY <1>8, <2>1, <2>2, <2>3
  <2> QED BY <1>0, <2>1, <2>4 DEF TypeOK
<1>10. ASSUME NEW p \in Port, Reserve(c, p) PROVE TypeOK' /\ ClientOK' /\ job' = job
  <2>1. /\ UNCHANGED <<job, evt, portJob, users, flock, cfgLock, mishaps>> /\ lock = c
        /\ r.at = "taking" /\ r.hold = "no" /\ r.todo \ {p} \in SUBSET Port
    BY <1>1, <1>2, <1>10 DEF Reserve, Clients
  <2>2. Loops(c, "taking", r.todo \ {p}) /\ manual \subseteq manual'
    BY <1>10 DEF Reserve
  <2>3. manual' \subseteq Port /\ lease' \in [Port -> Thread \cup {None, "manual", "other"}]
    BY <1>0, <1>10 DEF Reserve, TypeOK
  <2>4. client' \in [Client -> Clients] /\ ClientOK' /\ lock' \in Client \cup {None}
    BY <1>8, <2>1, <2>2
  <2> QED BY <1>0, <2>1, <2>3, <2>4 DEF TypeOK
<1>11. ASSUME NEW p \in Port, GiveBack(c, p) PROVE TypeOK' /\ ClientOK' /\ job' = job
  <2>1. /\ UNCHANGED <<job, evt, portJob, users, flock, cfgLock, mishaps>> /\ lock = c
        /\ r.at = "giving" /\ r.hold = "no" /\ r.todo \ {p} \in SUBSET Port
    BY <1>1, <1>2, <1>11 DEF GiveBack, Clients
  <2>2. Loops(c, "giving", r.todo \ {p}) /\ r.todo \ {p} \subseteq manual'
    BY <1>2, <2>1, <1>11 DEF GiveBack
  <2>3. manual' \subseteq Port /\ lease' \in [Port -> Thread \cup {None, "manual", "other"}]
    BY <1>0, <1>11 DEF GiveBack, TypeOK
  <2>4. client' \in [Client -> Clients] /\ ClientOK' /\ lock' \in Client \cup {None}
    BY <1>8, <2>1, <2>2
  <2> QED BY <1>0, <2>1, <2>3, <2>4 DEF TypeOK
<1>12. ASSUME ConfigLock(c) \/ ConfigLease(c) \/ ConfigBroker(c) \/ ConfigEnds(c)
       PROVE  TypeOK' /\ ClientOK' /\ job' = job
  <2>1. UNCHANGED <<job, evt, portJob, manual, flock, lock, mishaps>> /\ r.port \in Port
    BY <1>2, <1>12 DEF ConfigLock, ConfigLease, ConfigBroker, ConfigEnds
  <2>2. /\ users' \in [Port -> 0 .. 1] /\ cfgLock' \in [Port -> Client \cup {None}]
        /\ lease' \in [Port -> Thread \cup {None, "manual", "other"}]
    BY <1>0, <1>12, <2>1 DEF ConfigLock, ConfigLease, TakeManual, ConfigBroker, ConfigEnds, TypeOK
  <2> DEFINE X == {[r EXCEPT !.at = "port"], [r EXCEPT !.at = "broker"], Answered(r),
                   [r EXCEPT !.at = "talk", !.hold = "manual"],
                   [r EXCEPT !.at = "talk", !.hold = "own"]}
  <2>3. \E x \in X : client' = [client EXCEPT ![c] = x]
    BY <1>1, <1>12 DEF ConfigLock, ConfigLease, TakeManual, ConfigBroker, ConfigEnds, Answers
  <2>4. r.at \in {"config", "port", "broker", "talk"} /\ (r.at # "talk" => r.hold = "no")
    BY <1>1, <1>2, <1>12 DEF ConfigLock, ConfigLease, ConfigBroker, ConfigEnds, Clients
  <2>5. CASE r.at # "talk"
    <3>1. \A x \in X : /\ x \in Clients /\ (x.hold # "no" <=> x.at = "talk")
                       /\ x.at \in {"port", "broker", "talk"} => x.port \in Port
                       /\ x.at \in {"port", "broker", "talk", "idle"}
      BY <1>1, <1>3, <2>1, <2>4, <2>5, ZenonT(60) DEF Clients
    <3>2. client' \in [Client -> Clients] /\ ClientOK'
      BY <1>4, <2>1, <2>3, <3>1
    <3> QED BY <1>0, <2>1, <2>2, <3>2 DEF TypeOK
  <2>6. CASE r.at = "talk"
    <3>1. client' = [client EXCEPT ![c] = Answered(r)]
      BY <1>12, <2>6 DEF ConfigLock, ConfigLease, ConfigBroker, ConfigEnds, Answers
    <3>2. client' \in [Client -> Clients] /\ ClientOK'
      BY <1>3, <1>4, <2>1, <3>1
    <3> QED BY <1>0, <2>1, <2>2, <3>2 DEF TypeOK
  <2> QED BY <2>5, <2>6
<1> QED BY <1>5, <1>6, <1>7, <1>9, <1>10, <1>11, <1>12 DEF Handler

\* Threads move only as their steps say; the types and ClientOK are kept.
LEMMA BaseStep == Base /\ [Next]_vars => Base'
<1> SUFFICES ASSUME Base, [Next]_vars PROVE Base'
  OBVIOUS
<1> USE FlasherAssumption DEF ports, handlers, lineOnly
<1>0. TypeOK /\ SoundOK /\ ClientOK
  BY DEF Base
<1>1. ASSUME NEW j \in Job, NEW x \in Jobs, Sound(x), job' = [job EXCEPT ![j] = x]
      PROVE  job' \in [Job -> Jobs] /\ SoundOK'
  BY <1>0, <1>1 DEF TypeOK, SoundOK
<1>2. ASSUME job' = job PROVE job' \in [Job -> Jobs] /\ SoundOK'
  BY <1>0, <1>2 DEF TypeOK, SoundOK
<1>3. ASSUME NEW j \in Job, Worker(j) PROVE Base'
  <2>1. job' \in [Job -> Jobs] /\ SoundOK'
    BY <1>1, <1>3, WorkerRecord DEF Fit
  <2>2. UNCHANGED <<manual, client, lock, cfgLock>> /\ evt' = evt
    BY <1>3 DEF Worker, Starts, TakeLease, AskBroker, TakeFlock, Scan, NextModule, Enter,
                InfoCheck, InfoSend, InfoReply, MarkGate, MarkJob, Data, Jump, DropFlock,
                DropLease, Finish, Free
  <2>3. mishaps' \in 0 .. MaxMishap
    BY <1>0, <1>3 DEF TypeOK, Mishap, Worker, Starts, TakeLease, AskBroker, TakeFlock, Scan,
                NextModule, Enter, InfoCheck, InfoSend, InfoReply, MarkGate, MarkJob, Data, Jump,
                DropFlock, DropLease, Finish, Free
  <2>4. /\ portJob' \in [Port -> Job \cup {None}] /\ users' \in [Port -> 0 .. 1]
        /\ lease' \in [Port -> Thread \cup {None, "manual", "other"}]
        /\ flock' \in [Port -> Job \cup {None, "probe"}]
    BY <1>0, <1>3 DEF TypeOK, Thread, Worker, Starts, TakeLease, TakeManual, AskBroker, TakeFlock,
                Scan, NextModule, Enter, InfoCheck, InfoSend, InfoReply, MarkGate, MarkJob, Data,
                Jump, DropFlock, DropLease, Finish, Free
  <2> QED BY <1>0, <2>1, <2>2, <2>3, <2>4 DEF Base, TypeOK, ClientOK
<1>4. ASSUME NEW j \in Job, NEW k \in Kinds, NEW p \in Port, Submit(j, k, p) PROVE Base'
  <2> DEFINE x == [job[j] EXCEPT !.kind = k, !.port = p, !.state = "pending", !.at = "start"]
  <2>1. job' = [job EXCEPT ![j] = x]
    BY <1>0, <1>4 DEF Submit, TypeOK
  <2>2. x \in Jobs /\ Sound(x)
    BY <1>0, <1>4 DEF Submit, TypeOK, SoundOK, Jobs, Sound, Active, Ended, OnLine, Inside, Session
  <2>3. job' \in [Job -> Jobs] /\ SoundOK'
    BY <1>1, <2>1, <2>2
  <2>4. portJob' \in [Port -> Job \cup {None}]
    BY <1>0, <1>4 DEF Submit, TypeOK
  <2> QED BY <1>0, <1>4, <2>3, <2>4 DEF Submit, Base, TypeOK, ClientOK
<1>5. ASSUME NEW p \in Port, ProbeTakes(p) \/ ProbeLeaves(p) \/ Other(p) PROVE Base'
  <2>1. /\ lease' \in [Port -> Thread \cup {None, "manual", "other"}]
        /\ flock' \in [Port -> Job \cup {None, "probe"}] /\ mishaps' \in 0 .. MaxMishap
    BY <1>0, <1>5 DEF TypeOK, ProbeTakes, ProbeLeaves, Other, Mishap
  <2> QED BY <1>0, <1>2, <1>5, <2>1 DEF ProbeTakes, ProbeLeaves, Other, Base, TypeOK, ClientOK
<1>6. CASE UNCHANGED vars
  BY <1>0, <1>2, <1>6 DEF vars, Base, TypeOK, ClientOK
<1>7. ASSUME NEW c \in Client,
             \/ Handler(c)
             \/ \E j \in Job : CancelCheck(c, j)
             \/ \E s \in {"release", "restore", "config"}, p \in Port : Request(c, s, p)
      PROVE  Base'
  BY <1>0, <1>2, <1>7, HandlerStep DEF Base
<1> QED BY <1>3, <1>4, <1>5, <1>6, <1>7 DEF Next

LastOf(r) == IF r.kind = "batch" THEN MaxTarget ELSE 1

\* The last block of the module has been sent.
Sent == {"new", "holed"}

\* What a worker has told of the modules so far: those it is through with were sent
\* the new firmware or are named, those it has not come to are as they were.
Told(r, stop) ==
  /\ r.at \in Before => r.n = 0 /\ ~r.raised
  /\ r.at \in Session \cup {"next"} => r.kind # "scan" /\ ~r.raised
  /\ r.at = "scan" => r.kind = "scan"
  /\ r.kind = "scan" => r.n = 0
  /\ ~r.raised => \A t \in Target :
       /\ t > r.n => r.dev[t] = "app"
       /\ t < r.n \/ (t = r.n /\ r.at \notin Session) => r.dev[t] \in Sent \/ t \in r.errs
  /\ r.at = "jump" => r.dev[r.n] \in Sent
  /\ r.at \in {"unflock", "unlease", "finish"} /\ ~r.raised /\ r.kind # "scan"
       => r.n = LastOf(r) \/ stop
  /\ r.at \in {"free", "end"} =>
       /\ r.state = "error" <=> r.raised
       /\ r.state = "done" /\ r.kind # "scan" => r.n = LastOf(r)

ToldOK == \A j \in Job : Told(job[j], j \in evt)

\* A worker keeps ToldOK for its job.
LEMMA WorkerTells ==
  ASSUME Base, ToldOK, NEW j \in Job, Worker(j)
  PROVE  Told(job'[j], j \in evt)
<1> DEFINE r == job[j]
<1> USE FlasherAssumption DEF Before, Active, Ended, OnLine, Inside, Kinds, Session, Goes, Target,
                              LastOf, Sent
<1>1. r \in Jobs /\ Sound(r) /\ Told(r, j \in evt) /\ job \in [Job -> Jobs]
  BY DEF Base, TypeOK, SoundOK, ToldOK
<1>2. ASSUME r.at \in Session, job' = [job EXCEPT ![j] = Fails(r)] PROVE Told(job'[j], j \in evt)
  <2>1. r.n \in 1 .. MaxTarget /\ r.kind # "scan" /\ job'[j] = Fails(r)
    BY <1>1, <1>2 DEF Told, Jobs, Sound
  <2>2. CASE r.kind = "batch"
    <3>1. /\ Fails(r).at = "next" /\ Fails(r).kind = "batch" /\ Fails(r).n = r.n
          /\ Fails(r).raised = FALSE /\ Fails(r).dev = r.dev /\ Fails(r).errs = r.errs \cup {r.n}
      BY <1>1, <2>2 DEF Fails, Jobs
    <3> HIDE DEF r
    <3> QED BY <1>1, <1>2, <2>1, <3>1 DEF Told, Jobs
  <2>3. CASE r.kind # "batch"
    <3>1. Fails(r).at = "unflock" /\ Fails(r).kind = r.kind /\ Fails(r).raised = TRUE
      BY <1>1, <2>3 DEF Fails, Jobs
    <3> QED BY <2>1, <3>1 DEF Told
  <2> QED BY <2>2, <2>3
<1>3. ASSUME r.at \in Session, NEW a \in {"info", "data"}, job' = [job EXCEPT ![j] = Again(r, a)]
      PROVE  Told(job'[j], j \in evt)
  <2>1. CASE r.try + 1 < MaxTry
    <3>1. job'[j] = [r EXCEPT !.try = @ + 1, !.at = a]
      BY <1>1, <1>3, <2>1 DEF Again
    <3>2. /\ job'[j].at = a /\ job'[j].n = r.n /\ job'[j].kind = r.kind
          /\ job'[j].raised = r.raised /\ job'[j].dev = r.dev /\ job'[j].errs = r.errs
      BY <1>1, <3>1 DEF Jobs
    <3> HIDE DEF r
    <3> QED BY <1>1, <1>3, <3>2 DEF Told
  <2>2. CASE ~(r.try + 1 < MaxTry)
    BY <1>1, <1>2, <1>3, <2>2 DEF Again
  <2> QED BY <2>1, <2>2
<1>4. CASE Starts(j)
  BY <1>1, <1>4 DEF Starts, Told, Jobs, Sound
<1>5. CASE TakeLease(j)
  <2>1. r.n = 0 /\ ~r.raised
    BY <1>1, <1>5 DEF TakeLease, Told
  <2>2. CASE job' = [job EXCEPT ![j].at = "finish", ![j].raised = TRUE]
    BY <1>1, <2>1, <2>2 DEF Told, Jobs
  <2>3. CASE job' = [job EXCEPT ![j].at = "flock", ![j].hold = "manual"]
    BY <1>1, <2>1, <2>3 DEF Told, Jobs
  <2>4. CASE job' = [job EXCEPT ![j].at = "broker"]
    BY <1>1, <2>1, <2>4 DEF Told, Jobs
  <2> QED BY <1>5, <2>2, <2>3, <2>4 DEF TakeLease, TakeManual
<1>6. CASE AskBroker(j)
  <2>1. r.n = 0 /\ ~r.raised
    BY <1>1, <1>6 DEF AskBroker, Told
  <2>2. CASE job' = [job EXCEPT ![j].at = "finish", ![j].raised = TRUE]
    BY <1>1, <2>1, <2>2 DEF Told, Jobs
  <2>3. CASE job' = [job EXCEPT ![j].at = "flock", ![j].hold = "own"]
    BY <1>1, <2>1, <2>3 DEF Told, Jobs
  <2> QED BY <1>6, <2>2, <2>3 DEF AskBroker
<1>7. CASE TakeFlock(j)
  <2>1. \/ r.kind = "scan" /\ job' = [job EXCEPT ![j].at = "scan"]
        \/ r.kind # "scan" /\ job' = [job EXCEPT ![j].at = "next"]
        \/ job' = [job EXCEPT ![j].at = "unlease", ![j].raised = TRUE]
    BY <1>7 DEF TakeFlock
  <2>2. r.at = "flock" /\ r.n = 0 /\ ~r.raised
    BY <1>1, <1>7 DEF TakeFlock, Told
  <2>3. CASE job' = [job EXCEPT ![j].at = "unlease", ![j].raised = TRUE]
    BY <1>1, <2>2, <2>3 DEF Told, Jobs
  <2>4. CASE r.kind = "scan" /\ job' = [job EXCEPT ![j].at = "scan"]
    BY <1>1, <2>2, <2>4 DEF Told, Jobs
  <2>5. CASE r.kind # "scan" /\ job' = [job EXCEPT ![j].at = "next"]
    BY <1>1, <2>2, <2>5 DEF Told, Jobs
  <2> QED BY <2>1, <2>3, <2>4, <2>5
<1>8. CASE Scan(j)
  BY <1>1, <1>8 DEF Scan, Told, Jobs, Sound
<1>9. CASE NextModule(j)
  <2>1. r.at = "next" /\ r.kind # "scan" /\ ~r.raised
    BY <1>1, <1>9 DEF NextModule, Told
  <2>2. CASE (r.n = Last(j) \/ Stopped(j)) /\ job' = [job EXCEPT ![j].at = "unflock"]
    BY <1>1, <2>1, <2>2 DEF Last, Stopped, Told, Jobs
  <2>3. CASE job' = [job EXCEPT ![j].n = @ + 1, ![j].at = "enter"]
    <3>1. /\ job'[j].at = "enter" /\ job'[j].n = r.n + 1 /\ job'[j].kind = r.kind
          /\ job'[j].raised = r.raised /\ job'[j].dev = r.dev /\ job'[j].errs = r.errs
          /\ r.n \in Nat
      BY <1>1, <2>3 DEF Jobs
    <3> HIDE DEF r
    <3> QED BY <1>1, <2>1, <3>1 DEF Told
  <2> QED BY <1>9, <2>2, <2>3 DEF NextModule
<1>10. CASE Enter(j)
  <2>1. CASE job' = [job EXCEPT ![j] = Fails(@)]
    BY <1>1, <1>2, <1>10, <2>1 DEF Enter
  <2>2. CASE job' = [job EXCEPT ![j].at = "info"]
    BY <1>1, <1>10, <2>2 DEF Enter, Told, Jobs, Sound
  <2>3. CASE job' = [job EXCEPT ![j].at = "info", ![j].dev[r.n] = "boot"]
    BY <1>1, <1>10, <2>3 DEF Enter, Told, Jobs, Sound
  <2> QED BY <1>10, <2>1, <2>2, <2>3 DEF Enter
<1>11. CASE InfoCheck(j)
  <2>1. CASE ShouldAbort(j)
    <3>1. r.at \in Session /\ job' = [job EXCEPT ![j] = Fails(r)]
      BY <1>11, <2>1 DEF InfoCheck
    <3> QED BY <1>2, <3>1
  <2>2. CASE ~ShouldAbort(j)
    <3>1. r.at = "info" /\ job'[j] = [r EXCEPT !.at = "infoSend"]
      BY <1>1, <1>11, <2>2 DEF InfoCheck
    <3> QED BY <1>1, <3>1 DEF Told, Jobs
  <2> QED BY <2>1, <2>2
<1>12. CASE InfoSend(j)
  <2>1. CASE job' = [job EXCEPT ![j] = Again(@, "info")]
    BY <1>1, <1>3, <1>12, <2>1 DEF InfoSend
  <2>2. CASE job' = [job EXCEPT ![j].at = "infoReply",
                                ![j].dev[r.n] = IF @ = "app" THEN @ ELSE "erased"]
    BY <1>1, <1>12, <2>2 DEF InfoSend, Told, Jobs, Sound
  <2> QED BY <1>12, <2>1, <2>2 DEF InfoSend
<1>13. CASE InfoReply(j)
  <2>1. CASE job' = [job EXCEPT ![j] = Again(@, "info")]
    BY <1>1, <1>3, <1>13, <2>1 DEF InfoReply
  <2>2. CASE job' = [job EXCEPT ![j].at = "gate", ![j].try = 0]
    BY <1>1, <1>13, <2>2 DEF InfoReply, Told, Jobs, Sound
  <2> QED BY <1>13, <2>1, <2>2 DEF InfoReply
<1>14. CASE MarkGate(j)
  BY <1>1, <1>14 DEF MarkGate, Told, Jobs, Sound
<1>15. CASE MarkJob(j)
  BY <1>1, <1>15 DEF MarkJob, Told, Jobs, Sound
<1>16. CASE Data(j)
  <2>1. CASE job' = [job EXCEPT ![j] = Again(@, "data")]
    BY <1>1, <1>3, <1>16, <2>1 DEF Data
  <2>2. CASE job' = [job EXCEPT ![j] = Fails(@)]
    BY <1>1, <1>2, <1>16, <2>2 DEF Data
  <2>3. CASE job' = [job EXCEPT ![j].at = "jump", ![j].try = 0, ![j].dev[r.n] = "new"]
    BY <1>1, <1>16, <2>3 DEF Data, Told, Jobs, Sound
  <2>4. CASE job' = [job EXCEPT ![j] = Skips(@)]
    BY <1>1, <1>16, <2>4 DEF Data, Skips, Told, Jobs, Sound
  <2> QED BY <1>16, <2>1, <2>2, <2>3, <2>4 DEF Data, BlockFails
<1>17. CASE Jump(j)
  <2>1. CASE job' = [job EXCEPT ![j] = Fails(@)]
    BY <1>1, <1>2, <1>17, <2>1 DEF Jump
  <2>2. CASE job' = [job EXCEPT ![j].at = "next", ![j].gate = FALSE]
    BY <1>1, <1>17, <2>2 DEF Jump, Told, Jobs, Sound
  <2> QED BY <1>17, <2>1, <2>2 DEF Jump
<1>18. CASE DropFlock(j)
  BY <1>1, <1>18 DEF DropFlock, Told, Jobs, Sound
<1>19. CASE DropLease(j)
  BY <1>1, <1>19 DEF DropLease, Told, Jobs, Sound
<1>20. CASE Finish(j)
  BY <1>1, <1>20 DEF Finish, Told, Jobs, Sound
<1>21. CASE Free(j)
  BY <1>1, <1>21 DEF Free, Told, Jobs, Sound
<1> QED BY <1>4, <1>5, <1>6, <1>7, <1>8, <1>9, <1>10, <1>11, <1>12, <1>13, <1>14, <1>15,
           <1>16, <1>17, <1>18, <1>19, <1>20, <1>21 DEF Worker
\* Every step keeps ToldOK; a request to cancel stays.
LEMMA ToldStep == Base /\ ToldOK /\ [Next]_vars => ToldOK'
<1> SUFFICES ASSUME Base, ToldOK, [Next]_vars, NEW i \in Job PROVE Told(job'[i], i \in evt')
  BY DEF ToldOK
<1>0. Told(job[i], i \in evt) /\ TypeOK /\ SoundOK /\ Base'
  BY BaseStep DEF Base, ToldOK
<1>1. ASSUME job'[i] = job[i], evt \subseteq evt' PROVE Told(job'[i], i \in evt')
  BY <1>0, <1>1 DEF Told
<1>2. ASSUME NEW j \in Job, Worker(j) PROVE Told(job'[i], i \in evt')
  <2>1. evt' = evt
    BY <1>2 DEF Worker, lineOnly, Starts, TakeLease, AskBroker, TakeFlock, Scan, NextModule, Enter,
                InfoCheck, InfoSend, InfoReply, MarkGate, MarkJob, Data, Jump, DropFlock,
                DropLease, Finish, Free
  <2>2. CASE i = j
    <3>1. Told(job'[j], j \in evt)
      BY <1>2, WorkerTells
    <3> QED BY <2>1, <2>2, <3>1
  <2>3. CASE i # j
    <3>1. job'[i] = job[i]
      BY <1>0, <1>2, <2>3, WorkerRecord DEF TypeOK
    <3> QED BY <1>1, <2>1, <3>1
  <2> QED BY <2>2, <2>3
<1>3. ASSUME NEW j \in Job, NEW k \in Kinds, NEW p \in Port, Submit(j, k, p)
      PROVE  Told(job'[i], i \in evt')
  <2>1. CASE i = j
    <3>1. job[j].at = "idle" /\ job[j] \in Jobs
      BY <1>0, <1>3 DEF Submit, SoundOK, Sound, TypeOK
    <3>2. job'[j] = [job[j] EXCEPT !.kind = k, !.port = p, !.state = "pending", !.at = "start"]
      BY <1>0, <1>3 DEF Submit, TypeOK
    <3> QED BY <1>0, <2>1, <3>1, <3>2 DEF Told, Before, Session, OnLine, Jobs
  <2>2. CASE i # j
    BY <1>0, <1>1, <1>3, <2>2 DEF Submit, TypeOK
  <2> QED BY <2>1, <2>2
<1>4. CASE \/ \E c \in Client : \/ Handler(c)
                               \/ \E j \in Job : CancelCheck(c, j)
                               \/ \E s \in {"release", "restore", "config"}, p \in Port :
                                     Request(c, s, p)
           \/ \E p \in Port : ProbeTakes(p) \/ ProbeLeaves(p) \/ Other(p)
           \/ UNCHANGED vars
  <2>1. job' = job /\ evt \subseteq evt'
    BY <1>4 DEF vars, Handler, CancelCheck, Request, ProbeTakes, ProbeLeaves, Other, CancelSet,
                EnterLoop, ConfigLock, ConfigLease, ConfigBroker, ConfigEnds, Reserve, GiveBack
  <2> QED BY <1>1, <2>1
<1> QED BY <1>2, <1>3, <1>4 DEF Next

\* ToldOK is what Reported needs.
LEMMA ToldIsReported == Base /\ ToldOK => Reported
<1> SUFFICES ASSUME Base, ToldOK, NEW j \in Job, job[j].state \in Ended, NEW t \in 1 .. Last(j)
             PROVE  /\ job[j].dev[t] = "erased" => job[j].state = "error" \/ t \in job[j].errs
                    /\ job[j].state = "done" /\ job[j].kind # "scan"
                         => job[j].dev[t] \in Sent \/ t \in job[j].errs
  BY DEF Reported, Sent
<1>1. job[j].at \in {"free", "end"} /\ job[j].n \in Nat
  BY DEF Base, SoundOK, Sound, TypeOK, Jobs
<1>2. t \in Target /\ Last(j) = LastOf(job[j])
  BY FlasherAssumption DEF Last, LastOf, Target
<1>3. Told(job[j], j \in evt)
  BY DEF ToldOK
<1>4. /\ job[j].state = "error" <=> job[j].raised
      /\ job[j].state = "done" /\ job[j].kind # "scan" => job[j].n = Last(j)
      /\ ~job[j].raised => /\ t > job[j].n => job[j].dev[t] = "app"
                           /\ t <= job[j].n => job[j].dev[t] \in Sent \/ t \in job[j].errs
  BY <1>1, <1>2, <1>3 DEF Told, Session, OnLine, Target
<1> QED BY <1>1, <1>2, <1>4 DEF Target, Last, Sent

\* A thread that has the UART has its lease, or is the one user of its reservation.
LeaseOK ==
  /\ \A p \in manual : lease[p] = "manual"
  /\ \A t \in Thread : Hold(t) = "own" => lease[PortOf(t)] = t
  /\ \A t \in Thread : Hold(t) = "manual" => PortOf(t) \in manual /\ users[PortOf(t)] = 1
  /\ \A t, u \in Thread : Hold(t) = "manual" /\ Hold(u) = "manual" /\ PortOf(t) = PortOf(u) => t = u

\* No step of a worker but three touches its hold, and none its port.
LEMMA WorkerKeeps ==
  ASSUME Base, NEW j \in Job, Worker(j)
  PROVE  /\ job'[j].port = job[j].port /\ \A i \in Job \ {j} : job'[i] = job[i]
         /\ job'[j].state \in Active => job[j].state \in Active
         /\ TakeLease(j) \/ AskBroker(j) \/ DropLease(j)
            \/ (job'[j].hold = job[j].hold /\ UNCHANGED ports)
<1> USE DEF lineOnly, Goes, Active
<1>1. job[j] \in Jobs /\ Sound(job[j]) /\ job \in [Job -> Jobs]
  BY DEF Base, TypeOK, SoundOK
<1>2. ASSUME job' \in {[job EXCEPT ![j] = Fails(@)], [job EXCEPT ![j] = Again(@, "info")],
                       [job EXCEPT ![j] = Again(@, "data")], [job EXCEPT ![j] = Skips(@)]}
      PROVE  /\ job'[j].port = job[j].port /\ job'[j].hold = job[j].hold
             /\ job'[j].state = job[j].state
  <2>1. Fails(job[j]).port = job[j].port /\ Fails(job[j]).hold = job[j].hold
        /\ Fails(job[j]).state = job[j].state
    BY <1>1 DEF Fails, Jobs
  <2>2. ASSUME NEW a \in {"info", "data"}
        PROVE  /\ Again(job[j], a).port = job[j].port /\ Again(job[j], a).hold = job[j].hold
               /\ Again(job[j], a).state = job[j].state
    BY <1>1, <2>1 DEF Again, Jobs
  <2>3. /\ Skips(job[j]).port = job[j].port /\ Skips(job[j]).hold = job[j].hold
        /\ Skips(job[j]).state = job[j].state
    BY <1>1 DEF Skips, Jobs
  <2>4. \E x \in {Fails(job[j]), Again(job[j], "info"), Again(job[j], "data"), Skips(job[j])} :
          job'[j] = x
    BY <1>1, <1>2
  <2> QED BY <2>1, <2>2, <2>3, <2>4
<1>3. \A i \in Job \ {j} : job'[i] = job[i]
  BY <1>1, WorkerRecord
<1>4. CASE TakeLease(j) \/ AskBroker(j) \/ DropLease(j)
  BY <1>1, <1>3, <1>4 DEF TakeLease, TakeManual, AskBroker, DropLease, Jobs
<1>5. CASE Starts(j) \/ TakeFlock(j) \/ Scan(j) \/ NextModule(j) \/ MarkGate(j) \/ MarkJob(j)
           \/ DropFlock(j) \/ Finish(j) \/ Free(j)
  BY <1>1, <1>3, <1>5 DEF Starts, TakeFlock, Scan, NextModule, MarkGate, MarkJob, DropFlock,
                          Finish, Free, Jobs, Sound
<1>6. CASE Enter(j) \/ InfoCheck(j) \/ InfoSend(j)
  BY <1>1, <1>2, <1>3, <1>6 DEF Enter, InfoCheck, InfoSend, Jobs
<1>7. CASE InfoReply(j) \/ Data(j) \/ Jump(j)
  BY <1>1, <1>2, <1>3, <1>7 DEF InfoReply, Data, BlockFails, Jump, Jobs
<1> QED BY <1>4, <1>5, <1>6, <1>7 DEF Worker

\* A step of a worker keeps ActiveRegistered, as does a new job.
LEMMA ActiveStep == Base /\ ActiveRegistered /\ [Next]_vars => ActiveRegistered'
<1> SUFFICES ASSUME Base, ActiveRegistered, [Next]_vars PROVE ActiveRegistered'
  OBVIOUS
<1> USE DEF ActiveRegistered, IsActive, lineOnly
<1>0. TypeOK /\ SoundOK
  BY DEF Base
<1>1. ASSUME NEW j \in Job, Worker(j) PROVE ActiveRegistered'
  <2>1. \A i \in Job : job'[i].port = job[i].port 
                       /\ (job'[i].state \in Active => job[i].state \in Active)
    BY <1>1, WorkerKeeps
  <2>2. CASE portJob' = portJob
    BY <2>1, <2>2
  <2>3. CASE Free(j)
    <3>1. job[j].port \in Port /\ job[j].state \notin Active
      BY <1>0, <2>3 DEF Free, SoundOK, Sound, Active, Ended
    <3> QED BY <1>0, <2>1, <2>3, <3>1 DEF Free, TypeOK
  <2> QED BY <1>1, <2>2, <2>3 DEF Worker, Starts, TakeLease, AskBroker, TakeFlock, Scan,
              NextModule, Enter, InfoCheck, InfoSend, InfoReply, MarkGate, MarkJob, Data, Jump,
              DropFlock, DropLease, Finish, Free
<1>2. ASSUME NEW j \in Job, NEW k \in Kinds, NEW p \in Port, Submit(j, k, p) PROVE ActiveRegistered'
  <2>1. job'[j].port = p /\ portJob' = [portJob EXCEPT ![p] = j]
        /\ \A i \in Job \ {j} : job'[i] = job[i]
    BY <1>0, <1>2 DEF Submit, TypeOK, Jobs
  <2>2. ASSUME NEW i \in Job \ {j}, job[i].state \in Active PROVE job[i].port # p
    BY <1>2, <2>2, FlasherAssumption DEF Submit
  <2> QED BY <1>0, <2>1, <2>2 DEF TypeOK
<1>3. CASE \/ \E c \in Client : \/ Handler(c)
                               \/ \E j \in Job : CancelCheck(c, j)
                               \/ \E s \in {"release", "restore", "config"}, p \in Port :
                                     Request(c, s, p)
           \/ \E p \in Port : ProbeTakes(p) \/ ProbeLeaves(p) \/ Other(p)
           \/ UNCHANGED vars
  <2>1. UNCHANGED <<job, portJob>>
    BY <1>3 DEF vars, Handler, CancelCheck, Request, ProbeTakes, ProbeLeaves, Other, CancelSet,
                EnterLoop, ConfigLock, ConfigLease, ConfigBroker, ConfigEnds, Reserve, GiveBack
  <2> QED BY <2>1
<1> QED BY <1>1, <1>2, <1>3 DEF Next

\* Every step keeps LeaseOK: a reservation is counted when it is taken into use
\* and given back only while nobody is counted in it.
LEMMA LeaseStep == Base /\ LeaseOK /\ [Next]_vars => LeaseOK'
<1> SUFFICES ASSUME Base, LeaseOK, [Next]_vars PROVE LeaseOK'
  OBVIOUS
<1> USE FlasherAssumption DEF ports, handlers, lineOnly
<1>0. TypeOK /\ SoundOK /\ ClientOK
  BY DEF Base
<1>1. \A t \in Thread : /\ Hold(t) \in {"no", "manual", "own"}
                        /\ Hold(t) # "no" => PortOf(t) \in Port
  BY <1>0 DEF TypeOK, SoundOK, ClientOK, Sound, Inside, OnLine, Jobs, Clients, Thread, Hold, PortOf
<1>2. ASSUME \A t \in Thread : Hold(t)' = Hold(t) /\ (Hold(t) # "no" => PortOf(t)' = PortOf(t)),
             manual' = manual, users' = users, lease' = lease
      PROVE  LeaseOK'
  BY <1>2 DEF LeaseOK
\* One thread changes its hold.
<1>3. ASSUME NEW t \in Thread, NEW p \in Port, PortOf(t)' = p \/ Hold(t)' = "no",
             \A u \in Thread \ {t} : Hold(u)' = Hold(u) /\ PortOf(u)' = PortOf(u)
      PROVE  /\ /\ Hold(t) = "no" /\ Hold(t)' = "manual" /\ p \in manual /\ users[p] = 0
                /\ users' = [users EXCEPT ![p] = 1] /\ UNCHANGED <<manual, lease>>
                => LeaseOK'
             /\ /\ Hold(t) = "no" /\ Hold(t)' = "own" /\ lease[p] = None
                /\ lease' = [lease EXCEPT ![p] = t] /\ UNCHANGED <<manual, users>>
                => LeaseOK'
             /\ /\ Hold(t) = "manual" /\ PortOf(t) = p /\ Hold(t)' = "no"
                /\ users' = [users EXCEPT ![p] = 0] /\ UNCHANGED <<manual, lease>>
                => LeaseOK'
             /\ /\ Hold(t) = "own" /\ PortOf(t) = p /\ Hold(t)' = "no"
                /\ lease' = [lease EXCEPT ![p] = None] /\ UNCHANGED <<manual, users>>
                => LeaseOK'
  <2>1. /\ users \in [Port -> 0 .. 1] /\ lease \in [Port -> Thread \cup {None, "manual", "other"}]
        /\ manual \subseteq Port
    BY <1>0 DEF TypeOK
  <2>2. CASE /\ Hold(t) = "no" /\ Hold(t)' = "manual" /\ p \in manual /\ users[p] = 0
             /\ users' = [users EXCEPT ![p] = 1] /\ UNCHANGED <<manual, lease>>
    BY <1>1, <1>3, <2>1, <2>2 DEF LeaseOK
  <2>3. CASE /\ Hold(t) = "no" /\ Hold(t)' = "own" /\ lease[p] = None
             /\ lease' = [lease EXCEPT ![p] = t] /\ UNCHANGED <<manual, users>>
    BY <1>1, <1>3, <2>1, <2>3 DEF LeaseOK, Thread
  <2>4. CASE /\ Hold(t) = "manual" /\ PortOf(t) = p /\ Hold(t)' = "no"
             /\ users' = [users EXCEPT ![p] = 0] /\ UNCHANGED <<manual, lease>>
    BY <1>1, <1>3, <2>1, <2>4 DEF LeaseOK
  <2>5. CASE /\ Hold(t) = "own" /\ PortOf(t) = p /\ Hold(t)' = "no"
             /\ lease' = [lease EXCEPT ![p] = None] /\ UNCHANGED <<manual, users>>
    BY <1>1, <1>3, <2>1, <2>5 DEF LeaseOK, Thread
  <2> QED BY <2>2, <2>3, <2>4, <2>5
<1>4. ASSUME NEW j \in Job, Worker(j) PROVE LeaseOK'
  <2>1. client' = client /\ j \in Thread
    BY <1>4 DEF Thread, Worker, Starts, TakeLease, AskBroker, TakeFlock, Scan, NextModule, Enter,
                InfoCheck, InfoSend, InfoReply, MarkGate, MarkJob, Data, Jump, DropFlock,
                DropLease, Finish, Free
  <2>2. PortOf(j)' = PortOf(j) /\ \A u \in Thread \ {j} : Hold(u)' = Hold(u) /\ PortOf(u)' = PortOf(u)
    BY <1>4, <2>1, WorkerKeeps DEF Hold, PortOf, Thread
  <2>3. CASE Hold(j)' = Hold(j) /\ UNCHANGED ports
    BY <1>2, <2>2, <2>3
  <2>4. job[j] \in Jobs /\ Sound(job[j]) /\ job \in [Job -> Jobs]
    BY <1>0 DEF TypeOK, SoundOK
  <2>5. CASE TakeLease(j)
    <3>1. job[j].at = "lease" /\ job[j].hold = "no" /\ job[j].port \in Port
      BY <2>4, <2>5 DEF TakeLease, Sound, Inside, OnLine, Jobs
    <3>2. CASE /\ job[j].port \in manual /\ users[job[j].port] = 0
               /\ users' = [users EXCEPT ![job[j].port] = 1]
               /\ job' = [job EXCEPT ![j].at = "flock", ![j].hold = "manual"]
      <4>1. Hold(j) = "no" /\ Hold(j)' = "manual" /\ PortOf(j) = job[j].port
        BY <2>4, <3>1, <3>2 DEF Hold, PortOf, Jobs
      <4> QED BY <1>3, <2>1, <2>2, <2>5, <3>1, <3>2, <4>1 DEF TakeLease
    <3>3. CASE job'[j].hold = job[j].hold /\ UNCHANGED users
      BY <1>2, <2>1, <2>2, <2>5, <3>3 DEF TakeLease, Hold
    <3> QED BY <2>4, <2>5, <3>2, <3>3 DEF TakeLease, TakeManual, Goes, Jobs
  <2>6. CASE AskBroker(j)
    <3>1. job[j].at = "broker" /\ job[j].hold = "no" /\ job[j].port \in Port
      BY <2>4, <2>6 DEF AskBroker, Sound, Inside, OnLine, Jobs
    <3>2. CASE /\ lease[job[j].port] = None /\ lease' = [lease EXCEPT ![job[j].port] = j]
               /\ job' = [job EXCEPT ![j].at = "flock", ![j].hold = "own"]
      <4>1. Hold(j) = "no" /\ Hold(j)' = "own" /\ PortOf(j) = job[j].port
        BY <2>4, <3>1, <3>2 DEF Hold, PortOf, Jobs
      <4> QED BY <1>3, <2>1, <2>2, <2>6, <3>1, <3>2, <4>1 DEF AskBroker
    <3>3. CASE job'[j].hold = job[j].hold /\ UNCHANGED lease
      BY <1>2, <2>1, <2>2, <2>6, <3>3 DEF AskBroker, Hold
    <3> QED BY <2>4, <2>6, <3>2, <3>3 DEF AskBroker, Jobs
  <2>7. CASE DropLease(j)
    <3>1. job[j].port \in Port /\ Hold(j) = job[j].hold /\ PortOf(j) = job[j].port /\ Hold(j)' = "no"
      BY <2>4, <2>7 DEF DropLease, Sound, Jobs, Hold, PortOf
    <3> QED BY <1>3, <2>1, <2>2, <2>7, <3>1 DEF DropLease
  <2> QED BY <1>4, <2>1, <2>3, <2>5, <2>6, <2>7, WorkerKeeps DEF Hold
<1>5. ASSUME NEW j \in Job, NEW k \in Kinds, NEW p \in Port, Submit(j, k, p) PROVE LeaseOK'
  <2>1. job[j].at = "idle" /\ job[j].hold = "no"
    BY <1>0, <1>5 DEF Submit, SoundOK, Sound, Inside, OnLine, TypeOK, Jobs
  <2>2. job'[j].hold = "no" /\ (\A i \in Job \ {j} : job'[i] = job[i]) /\ UNCHANGED <<ports, client>>
    BY <1>0, <1>5, <2>1 DEF Submit, TypeOK, Jobs
  <2>3. \A t \in Thread : Hold(t)' = Hold(t) /\ (Hold(t) # "no" => PortOf(t)' = PortOf(t))
    BY <2>1, <2>2 DEF Hold, PortOf, Thread
  <2> QED BY <1>2, <2>2, <2>3
<1>6. \A c \in Client : client[c] \in Clients /\ c \notin Job /\ c \in Thread
  BY <1>0 DEF TypeOK, Thread
<1>7. ASSUME NEW c \in Client, job' = job, \A d \in Client \ {c} : client'[d] = client[d]
      PROVE  \A u \in Thread \ {c} : Hold(u)' = Hold(u) /\ PortOf(u)' = PortOf(u)
  BY <1>7 DEF Hold, PortOf, Thread
<1>8. ASSUME NEW c \in Client, client[c].hold = "no", client'[c].hold = "no", job' = job,
             \A d \in Client \ {c} : client'[d] = client[d]
      PROVE  \A t \in Thread : Hold(t)' = Hold(t) /\ (Hold(t) # "no" => PortOf(t)' = PortOf(t))
  BY <1>6, <1>7, <1>8 DEF Hold
<1>9. ASSUME NEW c \in Client
       PROVE  /\ Answers(c) => client'[c].hold = "no"
                              /\ \A d \in Client \ {c} : client'[d] = client[d]
              /\ \A a \in {"giving", "taking"}, rest \in SUBSET Port :
                    Loops(c, a, rest) /\ client[c].hold = "no"
                    => client'[c].hold = "no" /\ \A d \in Client \ {c} : client'[d] = client[d]
  <2>1. Answered(client[c]).hold = "no" /\ client \in [Client -> Clients] /\ client[c] \in Clients
    BY <1>0, <1>6 DEF Answered, Clients, TypeOK
  <2>2. Answers(c) => client'[c].hold = "no" /\ \A d \in Client \ {c} : client'[d] = client[d]
    BY <2>1 DEF Answers
  <2>3. ASSUME NEW a \in {"giving", "taking"}, NEW rest \in SUBSET Port, Loops(c, a, rest),
               client[c].hold = "no"
        PROVE  client'[c].hold = "no" /\ \A d \in Client \ {c} : client'[d] = client[d]
    <3>1. CASE rest = {}
      BY <2>1, <2>3, <3>1 DEF Loops
    <3>2. CASE rest # {}
      BY <2>1, <2>3, <3>2 DEF Loops, Clients
    <3> QED BY <3>1, <3>2
  <2> QED BY <2>2, <2>3
<1>10. ASSUME NEW c \in Client,
             \/ CancelSet(c) \/ EnterLoop(c) \/ ConfigLock(c)
             \/ \E j \in Job : CancelCheck(c, j)
             \/ \E s \in {"release", "restore", "config"}, p \in Port : Request(c, s, p)
      PROVE  LeaseOK'
  <2>1. client[c].hold = "no" /\ client[c] \in Clients
    BY <1>0, <1>6, <1>10 DEF ClientOK, CancelSet, EnterLoop, ConfigLock, CancelCheck, Request,
                               Serves, Clients
  <2>2. UNCHANGED <<job, manual, users, lease>>
    BY <1>10 DEF CancelSet, EnterLoop, ConfigLock, CancelCheck, Request
  <2>3. client'[c].hold = "no" /\ \A d \in Client \ {c} : client'[d] = client[d]
    <3>1. CASE CancelSet(c)
      BY <1>9, <3>1 DEF CancelSet
    <3>2. CASE EnterLoop(c)
      <4>1. manual \in SUBSET Port /\ Port \ manual \in SUBSET Port
        BY <1>0 DEF TypeOK
      <4> QED BY <1>9, <2>1, <3>2, <4>1 DEF EnterLoop
    <3>3. CASE ConfigLock(c)
      BY <1>0, <2>1, <3>3 DEF ConfigLock, TypeOK, Clients
    <3>4. CASE \E j \in Job : CancelCheck(c, j)
      BY <1>0, <2>1, <3>4 DEF CancelCheck, Begins, TypeOK, Clients
    <3>5. CASE \E s \in {"release", "restore", "config"}, p \in Port : Request(c, s, p)
      BY <1>0, <2>1, <3>5 DEF Request, Begins, TypeOK, Clients
    <3> QED BY <1>10, <3>1, <3>2, <3>3, <3>4, <3>5
  <2> QED BY <1>2, <1>8, <2>1, <2>2, <2>3
<1>11. ASSUME NEW c \in Client, NEW p \in Port, Reserve(c, p) \/ GiveBack(c, p) PROVE LeaseOK'
  <2>1. client[c].hold = "no" /\ client[c] \in Clients
    BY <1>0, <1>6, <1>11 DEF ClientOK, Reserve, GiveBack, Clients
  <2>2. UNCHANGED <<job, users>>
    BY <1>11 DEF Reserve, GiveBack
  <2>3. client'[c].hold = "no" /\ \A d \in Client \ {c} : client'[d] = client[d]
    <3>1. client[c].todo \ {p} \in SUBSET Port
      BY <2>1 DEF Clients
    <3> QED BY <1>11, <1>9, <2>1, <3>1 DEF Reserve, GiveBack
  <2>4. \A t \in Thread : Hold(t)' = Hold(t) /\ (Hold(t) # "no" => PortOf(t)' = PortOf(t))
    BY <1>8, <2>1, <2>2, <2>3
  <2>5. CASE UNCHANGED <<manual, lease>>
    BY <1>2, <2>2, <2>4, <2>5
  <2>6. CASE lease[p] = None /\ lease' = [lease EXCEPT ![p] = "manual"] /\ manual' = manual \cup {p}
    BY <1>0, <1>1, <2>2, <2>4, <2>6 DEF LeaseOK, TypeOK, Thread
  <2>7. CASE /\ users[p] = 0 /\ lease' = [lease EXCEPT ![p] = None] /\ manual' = manual \ {p}
             /\ p \in manual
    BY <1>0, <1>1, <2>2, <2>4, <2>7 DEF LeaseOK, TypeOK, Thread
  <2>8. GiveBack(c, p) => p \in manual
    BY <1>0 DEF GiveBack, ClientOK
  <2> QED BY <1>11, <2>5, <2>6, <2>7, <2>8 DEF Reserve, GiveBack
<1>12. ASSUME NEW c \in Client, ConfigLease(c) \/ ConfigBroker(c) \/ ConfigEnds(c) PROVE LeaseOK'
  <2> DEFINE p == client[c].port
  <2>1. p \in Port /\ client[c] \in Clients /\ PortOf(c) = p /\ Hold(c) = client[c].hold
    BY <1>0, <1>6, <1>12 DEF ClientOK, ConfigLease, ConfigBroker, ConfigEnds, PortOf, Hold
  <2>2. job' = job /\ manual' = manual /\ \A d \in Client \ {c} : client'[d] = client[d]
    BY <1>0, <1>12 DEF ConfigLease, TakeManual, ConfigBroker, ConfigEnds, Answers, TypeOK
  <2>3. \A u \in Thread \ {c} : Hold(u)' = Hold(u) /\ PortOf(u)' = PortOf(u)
    BY <1>7, <2>2
  <2>4. CASE client[c].hold = "no" /\ client'[c].hold = "no" /\ UNCHANGED <<users, lease>>
    BY <1>2, <1>8, <2>2, <2>4
  <2>5. CASE ConfigLease(c)
    <3>1. client[c].hold = "no"
      BY <1>0, <1>6, <2>5 DEF ConfigLease, ClientOK, Clients
    <3>2. CASE /\ p \in manual /\ users[p] = 0 /\ users' = [users EXCEPT ![p] = 1]
               /\ client' = [client EXCEPT ![c].at = "talk", ![c].hold = "manual"]
      <4>1. Hold(c)' = "manual" /\ PortOf(c)' = p
        BY <1>0, <1>6, <2>1, <3>2 DEF Hold, PortOf, TypeOK, Clients
      <4> QED BY <1>3, <1>6, <2>1, <2>2, <2>3, <2>5, <3>1, <3>2, <4>1 DEF ConfigLease
    <3>3. CASE UNCHANGED users /\ (Answers(c) \/ client' = [client EXCEPT ![c].at = "broker"])
      <4>1. client'[c].hold = "no"
        BY <1>0, <1>9, <2>1, <3>1, <3>3 DEF TypeOK, Clients
      <4> QED BY <2>4, <2>5, <3>1, <3>3, <4>1 DEF ConfigLease
    <3> QED BY <2>5, <3>2, <3>3 DEF ConfigLease, TakeManual
  <2>6. CASE ConfigBroker(c)
    <3>1. client[c].hold = "no"
      BY <1>0, <1>6, <2>6 DEF ConfigBroker, ClientOK, Clients
    <3>2. CASE /\ lease[p] = None /\ lease' = [lease EXCEPT ![p] = c]
               /\ client' = [client EXCEPT ![c].at = "talk", ![c].hold = "own"]
      <4>1. Hold(c)' = "own" /\ PortOf(c)' = p
        BY <1>0, <1>6, <2>1, <3>2 DEF Hold, PortOf, TypeOK, Clients
      <4> QED BY <1>3, <1>6, <2>1, <2>2, <2>3, <2>6, <3>1, <3>2, <4>1 DEF ConfigBroker
    <3>3. CASE UNCHANGED lease /\ Answers(c)
      <4>1. client'[c].hold = "no"
        BY <1>0, <2>1, <3>3 DEF Answers, Answered, TypeOK, Clients
      <4> QED BY <2>4, <2>6, <3>1, <3>3, <4>1 DEF ConfigBroker
    <3> QED BY <2>6, <3>2, <3>3 DEF ConfigBroker
  <2>7. CASE ConfigEnds(c)
    <3>1. client'[c].hold = "no"
      BY <1>0, <2>1, <2>7 DEF ConfigEnds, Answers, Answered, TypeOK, Clients
    <3>2. Hold(c)' = "no"
      BY <1>6, <3>1 DEF Hold
    <3> QED BY <1>3, <1>6, <2>1, <2>2, <2>3, <2>7, <3>2 DEF ConfigEnds
  <2> QED BY <1>12, <2>5, <2>6, <2>7
<1>13. ASSUME NEW p \in Port, ProbeTakes(p) \/ ProbeLeaves(p) \/ Other(p) PROVE LeaseOK'
  <2>1. UNCHANGED <<job, client, manual, users>>
    BY <1>13 DEF ProbeTakes, ProbeLeaves, Other
  <2>2. \A t \in Thread : Hold(t)' = Hold(t) /\ PortOf(t)' = PortOf(t)
    BY <2>1 DEF Hold, PortOf
  <2>3. CASE lease' = lease
    BY <1>2, <2>1, <2>2, <2>3
  <2>4. CASE /\ lease[p] \in {None, "other"}
             /\ lease' \in {[lease EXCEPT ![p] = "other"], [lease EXCEPT ![p] = None]}
    BY <1>0, <1>1, <2>1, <2>2, <2>4 DEF LeaseOK, TypeOK, Thread
  <2> QED BY <1>13, <2>3, <2>4 DEF ProbeTakes, ProbeLeaves, Other
<1>14. CASE UNCHANGED vars
  BY <1>2, <1>14 DEF vars, Hold, PortOf
<1> QED BY <1>4, <1>5, <1>10, <1>11, <1>12, <1>14, <1>13 DEF Next, Handler

Inv == Base /\ ToldOK /\ ActiveRegistered /\ LeaseOK

\* Init establishes the invariant.
LEMMA InitInv == Init => Inv
<1> SUFFICES ASSUME Init PROVE Inv
  OBVIOUS
<1> USE FlasherAssumption DEF Init
<1>1. TypeOK
  <2>1. job \in [Job -> Jobs]
    BY DEF Jobs, Target, Active, Ended, OnLine, Inside, Kinds
  <2>2. client \in [Client -> Clients]
    BY DEF Clients
  <2>3. /\ evt \subseteq Job /\ portJob \in [Port -> Job \cup {None}] /\ manual \subseteq Port
        /\ users \in [Port -> 0 .. 1] /\ flock \in [Port -> Job \cup {None, "probe"}]
        /\ lease \in [Port -> Thread \cup {None, "manual", "other"}]
        /\ lock \in Client \cup {None} /\ cfgLock \in [Port -> Client \cup {None}]
    OBVIOUS
  <2>4. mishaps \in 0 .. MaxMishap
    OBVIOUS
  <2> HIDE DEF Init
  <2> QED BY <2>1, <2>2, <2>3, <2>4 DEF TypeOK
<1>2. SoundOK /\ ClientOK
  BY DEF SoundOK, Sound, ClientOK, Active, Ended, OnLine, Inside, Session
<1>3. ToldOK
  BY DEF ToldOK, Told, Before, Session, OnLine, Target
<1>4. ActiveRegistered
  BY DEF ActiveRegistered, IsActive, Active
<1>5. LeaseOK
  BY DEF LeaseOK, Hold, PortOf, Thread
<1> QED BY <1>1, <1>2, <1>3, <1>4, <1>5 DEF Inv, Base

\* Inv is an invariant.
THEOREM InvHolds == Spec => []Inv
<1>1. Inv /\ [Next]_vars => Inv'
  BY BaseStep, ToldStep, ActiveStep, LeaseStep DEF Inv
<1> QED BY InitInv, <1>1, PTL DEF Spec

\* The types of jobs, handler threads, leases and lock files hold (Job, JobManager,
\* port_lease, _port_flock).
THEOREM TypeCorrect == Spec => []TypeOK
<1>1. Inv => TypeOK
  BY DEF Inv, Base
<1> QED BY InvHolds, <1>1, PTL

Has(t, p) == PortOf(t) = p /\ Hold(t) # "no"

\* A talker has a hold on its UART, and the hold excludes everybody else's.
LEMMA HoldAlone ==
  ASSUME Inv, NEW p \in Port
  PROVE  /\ \A t \in Thread : Talks(t, p) => Has(t, p)
         /\ \A t, u \in Thread : Has(t, p) /\ Has(u, p) => t = u
         /\ \A t \in Thread : Has(t, p) =>
               lease[p] = t \/ (lease[p] = "manual" /\ p \in manual /\ users[p] = 1)
         /\ lease[p] = "manual" /\ users[p] = 0 => \A t \in Thread : ~Has(t, p)
<1>1. \A t \in Thread : Hold(t) \in {"no", "manual", "own"}
  BY DEF Inv, Base, TypeOK, Jobs, Clients, Hold, Thread
<1>2. \A t \in Thread : Talks(t, p) => Has(t, p)
  BY DEF Inv, Base, TypeOK, SoundOK, Sound, ClientOK, Talks, PortOf, Hold, Has, Inside, Thread,
         Jobs, Clients
<1>3. "manual" \notin Thread
  BY FlasherAssumption DEF Thread
<1>4. \A t \in Thread : Has(t, p) =>
        \/ Hold(t) = "own" /\ lease[p] = t
        \/ Hold(t) = "manual" /\ lease[p] = "manual" /\ p \in manual /\ users[p] = 1
  BY <1>1 DEF Has, Inv, LeaseOK
<1>5. \A t, u \in Thread : Has(t, p) /\ Has(u, p) => t = u
  BY <1>3, <1>4 DEF Has, Inv, LeaseOK
<1> QED BY <1>2, <1>3, <1>4, <1>5

\* For any number of UARTs, jobs and handler threads a UART has at most one
\* talker of the flasher, which has its lease or is counted in its reservation.
THEOREM TalksAlone == Spec => []OneTalker
<1>1. Inv => OneTalker
  BY HoldAlone DEF OneTalker
<1> QED BY InvHolds, <1>1, PTL

\* The port of a job that is not over stays registered to it (submit, _worker).
THEOREM StaysRegistered == Spec => []ActiveRegistered
<1>1. Inv => ActiveRegistered
  BY DEF Inv
<1> QED BY InvHolds, <1>1, PTL

\* Batches of any length tell of every module left without its application.
THEOREM NothingHidden == Spec => []Reported
<1>1. Inv => Reported
  BY ToldIsReported DEF Inv
<1> QED BY InvHolds, <1>1, PTL

-----------------------------------------------------------------------------
(* The flasher hands a UART on as UartOwner says: a thread that gets its hold *)
(* on one finds nobody with a hold there, for all of them are in LeaseOK.     *)

\* A worker begins to talk only with the lock file in its hand.
LEMMA WorkerTalksLater ==
  ASSUME Base, NEW j \in Job, Worker(j), ~TakeFlock(j), job'[j].at \in OnLine
  PROVE  job[j].at \in OnLine
<1> SUFFICES ASSUME job[j].at \notin OnLine PROVE FALSE
  OBVIOUS
<1>1. job[j] \in Jobs /\ job \in [Job -> Jobs]
  BY DEF Base, TypeOK
<1>2. \/ Starts(j) \/ TakeLease(j) \/ AskBroker(j) \/ DropFlock(j) \/ DropLease(j)
      \/ Finish(j) \/ Free(j)
  BY DEF Worker, Scan, NextModule, Enter, InfoCheck, InfoSend, InfoReply, MarkGate, MarkJob,
         Data, Jump, OnLine
<1> QED BY <1>1, <1>2 DEF Starts, TakeLease, TakeManual, AskBroker, DropFlock, DropLease, Finish,
                          Free, Goes, OnLine, Jobs

\* The operations of UartOwner, as they appear in a state.
Holders == {x \in User : IF x[1] = "other" THEN lease[x[2]] = "other" ELSE Has(x[1], x[2])}
Talkers == {x \in User : x[1] # "other" /\ Talks(x[1], x[2])}

LEMMA Leaves == Holders' \subseteq Holders /\ Talkers' \subseteq Talkers => Owner!Next
BY DEF Owner!Next, Owner!Leave, Holders, Talkers, Has

\* Every step of the flasher is a step of UartOwner, or changes nothing it shows.
LEMMA TakesStep == Inv /\ [Next]_vars => Owner!Next
<1> SUFFICES ASSUME Inv, [Next]_vars PROVE Owner!Next
  OBVIOUS
<1> USE FlasherAssumption DEF ports, handlers, lineOnly
<1>0. TypeOK /\ SoundOK /\ ClientOK /\ LeaseOK /\ Base
  BY DEF Inv, Base
<1> DEFINE NoOther == \A q \in Port : lease'[q] = "other" => lease[q] = "other"
           SameOther == \A q \in Port : lease'[q] = "other" <=> lease[q] = "other"
<1>1. ASSUME NoOther, \A t \in Thread, q \in Port : /\ Has(t, q)' => Has(t, q)
                                                    /\ Talks(t, q)' => Talks(t, q)
      PROVE  Owner!Next
  <2>1. Holders' \subseteq Holders /\ Talkers' \subseteq Talkers
    BY <1>1 DEF Holders, Talkers, User
  <2> QED BY <2>1, Leaves
<1>2. ASSUME NEW t \in Thread \cup {"other"}, NEW p \in Port, <<t, p>> \notin Holders,
             \A u \in Thread : ~Has(u, p), lease[p] # "other",
             Holders' = Holders \cup {<<t, p>>},
             Talkers' \in {Talkers, Talkers \cup {<<t, p>>}}
      PROVE  Owner!Next
  <2> DEFINE x == <<t, p>>
  <2>1. x \in User /\ \A y \in Holders : y[2] # p
    BY <1>2 DEF Holders, User
  <2>2. \A y \in Talkers : y[2] # p
    BY <1>2, HoldAlone DEF Talkers, User
  <2>3. Owner!Grant(x)
    BY <1>2, <2>1, <2>2 DEF Owner!Grant, Owner!Held, Owner!Open, Holders, Talkers, Has, User
  <2> QED BY <2>1, <2>3 DEF Owner!Next
<1>3. ASSUME NEW t \in Thread, NEW p \in Port, Has(t, p), Holders' = Holders,
             ~Talks(t, p), Talkers' = Talkers \cup {<<t, p>>}
      PROVE  Owner!Next
  <2> DEFINE x == <<t, p>>
  <2>1. x \in User /\ x \in Holders
    BY <1>3 DEF Holders, User, Thread
  <2>2. \A y \in Talkers : y[2] # p
    BY <1>3, HoldAlone DEF Talkers, User
  <2>3. Owner!Begin(x)
    BY <1>3, <2>1, <2>2 DEF Owner!Begin, Holders, Talkers, Has, User
  <2> QED BY <2>1, <2>3 DEF Owner!Next
<1>4. ASSUME NEW j \in Job, Worker(j) PROVE Owner!Next
  <2> DEFINE p == job[j].port
  <2>1. client' = client /\ j \in Thread /\ j # "other"
    BY <1>4 DEF Thread, Worker, Starts, TakeLease, AskBroker, TakeFlock, Scan, NextModule, Enter,
                InfoCheck, InfoSend, InfoReply, MarkGate, MarkJob, Data, Jump, DropFlock,
                DropLease, Finish, Free
  <2>2. \A u \in Thread \ {j}, q \in Port : /\ Has(u, q)' <=> Has(u, q)
                                            /\ Talks(u, q)' <=> Talks(u, q)
    BY <1>0, <1>4, <2>1, WorkerKeeps DEF Has, Hold, PortOf, Talks, Thread
  <2>3. \A q \in Port : /\ Has(j, q) <=> p = q /\ job[j].hold # "no"
                        /\ Has(j, q)' <=> p = q /\ job'[j].hold # "no"
                        /\ Talks(j, q) <=> p = q /\ job[j].at \in OnLine
                        /\ Talks(j, q)' <=> p = q /\ job'[j].at \in OnLine
    BY <1>0, <1>4, WorkerKeeps DEF Has, Hold, PortOf, Talks
  <2>4. /\ job[j] \in Jobs /\ Sound(job[j]) /\ job \in [Job -> Jobs]
        /\ lease \in [Port -> Thread \cup {None, "manual", "other"}]
    BY <1>0 DEF TypeOK, SoundOK
  <2>5. CASE TakeLease(j)
    <3>1. job[j].at = "lease" /\ job[j].hold = "no" /\ p \in Port /\ lease' = lease
      BY <2>4, <2>5 DEF TakeLease, Sound, Inside, OnLine, Jobs
    <3>2. CASE /\ p \in manual /\ users[p] = 0
               /\ job' = [job EXCEPT ![j].at = "flock", ![j].hold = "manual"]
      <4>1. job'[j].at \notin OnLine /\ job'[j].hold # "no"
        BY <2>4, <3>2 DEF OnLine, Jobs
      <4>2. lease[p] = "manual" /\ \A u \in Thread : ~Has(u, p)
        BY <1>0, <3>1, <3>2, HoldAlone DEF LeaseOK
      <4>3. Holders' = Holders \cup {<<j, p>>} /\ <<j, p>> \notin Holders /\ Talkers' = Talkers
        BY <2>1, <2>2, <2>3, <3>1, <4>1, <4>2 DEF Holders, Talkers, User, Thread, OnLine
      <4> QED BY <1>2, <2>1, <3>1, <4>2, <4>3
    <3>3. CASE job' \in {[job EXCEPT ![j].at = "finish", ![j].raised = TRUE],
                         [job EXCEPT ![j].at = "broker"]}
      <4>1. job'[j].at \notin OnLine /\ job'[j].hold = "no"
        BY <2>4, <3>1, <3>3 DEF OnLine, Jobs
      <4> QED BY <1>1, <2>2, <2>3, <3>1, <4>1
    <3> QED BY <2>5, <3>2, <3>3 DEF TakeLease, TakeManual, Goes
  <2>6. CASE AskBroker(j)
    <3>1. job[j].at = "broker" /\ job[j].hold = "no" /\ p \in Port
      BY <2>4, <2>6 DEF AskBroker, Sound, Inside, OnLine, Jobs
    <3>2. CASE /\ lease[p] = None /\ lease' = [lease EXCEPT ![p] = j]
               /\ job' = [job EXCEPT ![j].at = "flock", ![j].hold = "own"]
      <4>1. job'[j].at \notin OnLine /\ job'[j].hold # "no"
        BY <2>4, <3>2 DEF OnLine, Jobs
      <4>2. \A u \in Thread : ~Has(u, p)
        BY <3>1, <3>2, HoldAlone DEF Thread
      <4>3. \A q \in Port : lease'[q] = "other" <=> lease[q] = "other"
        BY <2>1, <2>4, <3>2
      <4>4. Holders' = Holders \cup {<<j, p>>} /\ <<j, p>> \notin Holders /\ Talkers' = Talkers
        BY <2>1, <2>2, <2>3, <3>1, <4>1, <4>2, <4>3 DEF Holders, Talkers, User, Thread, OnLine
      <4> QED BY <1>2, <2>1, <3>1, <3>2, <4>2, <4>4
    <3>3. CASE lease' = lease /\ job' = [job EXCEPT ![j].at = "finish", ![j].raised = TRUE]
      <4>1. job'[j].at \notin OnLine /\ job'[j].hold = "no"
        BY <2>4, <3>1, <3>3 DEF OnLine, Jobs
      <4> QED BY <1>1, <2>2, <2>3, <3>3, <4>1
    <3> QED BY <2>6, <3>2, <3>3 DEF AskBroker
  <2>7. CASE TakeFlock(j)
    <3>1. job[j].at = "flock" /\ job[j].hold # "no" /\ p \in Port /\ lease' = lease
      BY <2>4, <2>7 DEF TakeFlock, Sound, Jobs
    <3>2. job'[j].hold = job[j].hold
      BY <2>4, <2>7 DEF TakeFlock, Goes, Jobs
    <3>3. CASE job'[j].at \in OnLine
      <4>1. Holders' = Holders
        BY <2>1, <2>2, <2>3, <3>1, <3>2 DEF Holders, User
      <4>2. Talkers' = Talkers \cup {<<j, p>>}
        BY <2>1, <2>2, <2>3, <3>1, <3>3 DEF Talkers, User
      <4> QED BY <1>3, <2>1, <2>3, <3>1, <4>1, <4>2 DEF OnLine
    <3>4. CASE job'[j].at \notin OnLine
      BY <1>1, <2>2, <2>3, <3>1, <3>2, <3>4
    <3> QED BY <3>3, <3>4
  <2>8. CASE DropLease(j)
    <3>1. job'[j].hold = "no" /\ job'[j].at \notin OnLine
      BY <2>4, <2>8 DEF DropLease, OnLine, Jobs
    <3>2. NoOther
      BY <2>4, <2>8 DEF DropLease
    <3> QED BY <1>1, <2>2, <2>3, <3>1, <3>2
  <2>9. CASE ~TakeLease(j) /\ ~AskBroker(j) /\ ~TakeFlock(j) /\ ~DropLease(j)
    <3>1. job'[j].hold = job[j].hold /\ lease' = lease
      BY <1>0, <1>4, <2>9, WorkerKeeps
    <3>2. job'[j].at \in OnLine => job[j].at \in OnLine
      BY <1>0, <1>4, <2>9, WorkerTalksLater
    <3> QED BY <1>1, <2>2, <2>3, <3>1, <3>2
  <2> QED BY <2>5, <2>6, <2>7, <2>8, <2>9
<1>5. ASSUME NEW j \in Job, NEW k \in Kinds, NEW p \in Port, Submit(j, k, p) PROVE Owner!Next
  <2>1. job[j].at = "idle" /\ job[j].hold = "no" /\ job[j] \in Jobs /\ job \in [Job -> Jobs]
    BY <1>0, <1>5 DEF Submit, SoundOK, Sound, Inside, OnLine, TypeOK, Jobs
  <2>2. /\ job'[j].hold = "no" /\ job'[j].at \notin OnLine /\ UNCHANGED <<ports, client>>
        /\ \A i \in Job \ {j} : job'[i] = job[i]
    BY <1>5, <2>1 DEF Submit, Jobs, OnLine
  <2>3. \A t \in Thread, q \in Port : /\ Has(t, q)' => Has(t, q)
                                      /\ Talks(t, q)' => Talks(t, q)
    BY <2>2 DEF Has, Hold, PortOf, Talks, Thread
  <2> QED BY <1>1, <2>2, <2>3
<1>6. ASSUME NEW c \in Client,
             \/ Handler(c)
             \/ \E j \in Job : CancelCheck(c, j)
             \/ \E s \in {"release", "restore", "config"}, q \in Port : Request(c, s, q)
      PROVE  Owner!Next
  <2> DEFINE p == client[c].port
  <2>1. /\ c \in Thread /\ c \notin Job /\ c # "other" /\ job' = job /\ ClientOK' /\ TypeOK'
        /\ client \in [Client -> Clients] /\ client[c] \in Clients
        /\ lease \in [Port -> Thread \cup {None, "manual", "other"}]
    BY <1>0, <1>6, HandlerStep DEF Thread, TypeOK
  <2>2. \A d \in Client \ {c} : client'[d] = client[d]
    <3>1. CASE \/ CancelSet(c) \/ ConfigLock(c)
               \/ \E j \in Job : CancelCheck(c, j)
               \/ \E s \in {"release", "restore", "config"}, q \in Port : Request(c, s, q)
      <4>1. \/ \E s, q, j : Begins(c, s, q, j)
            \/ client' = [client EXCEPT ![c] = Answered(@)]
            \/ client' = [client EXCEPT ![c].at = "port"]
        BY <3>1 DEF CancelCheck, Request, CancelSet, Answers, ConfigLock
      <4>2. ASSUME NEW s, NEW q, NEW j, Begins(c, s, q, j)
            PROVE  \A d \in Client \ {c} : client'[d] = client[d]
        BY <2>1, <4>2 DEF Begins
      <4> QED BY <2>1, <4>1, <4>2
    <3>2. CASE EnterLoop(c) \/ \E q \in Port : Reserve(c, q) \/ GiveBack(c, q)
      <4>1. PICK s \in {"giving", "taking"} : \E rest : Loops(c, s, rest)
        BY <3>2 DEF EnterLoop, Reserve, GiveBack
      <4>2. PICK rest : Loops(c, s, rest)
        BY <4>1
      <4> QED BY <2>1, <4>2 DEF Loops
    <3>3. CASE ConfigLease(c)
      <4>1. \/ client' = [client EXCEPT ![c].at = "talk", ![c].hold = "manual"]
            \/ client' = [client EXCEPT ![c] = Answered(@)]
            \/ client' = [client EXCEPT ![c].at = "broker"]
        BY <3>3 DEF ConfigLease, TakeManual, Answers
      <4> QED BY <2>1, <4>1
    <3>4. CASE ConfigBroker(c) \/ ConfigEnds(c)
      BY <2>1, <3>4 DEF ConfigBroker, ConfigEnds, Answers
    <3> QED BY <1>6, <3>1, <3>2, <3>3, <3>4 DEF Handler
  <2>3. \A u \in Thread \ {c}, q \in Port : /\ Has(u, q)' <=> Has(u, q)
                                            /\ Talks(u, q)' <=> Talks(u, q)
    BY <2>1, <2>2 DEF Has, Hold, PortOf, Talks, Thread
  <2>4. \A q \in Port : /\ Has(c, q) <=> p = q /\ client[c].hold # "no"
                        /\ Has(c, q)' <=> client'[c].port = q /\ client'[c].hold # "no"
                        /\ Talks(c, q) <=> p = q /\ client[c].at = "talk"
                        /\ Talks(c, q)' <=> client'[c].port = q /\ client'[c].at = "talk"
    BY <2>1 DEF Has, Hold, PortOf, Talks
  <2>5. /\ client[c].hold # "no" <=> client[c].at = "talk"
        /\ client'[c].hold # "no" <=> client'[c].at = "talk"
    BY <1>0, <2>1 DEF ClientOK
  <2>6. ASSUME NoOther, client'[c].at # "talk" PROVE Owner!Next
    BY <1>1, <2>3, <2>4, <2>5, <2>6
  <2>7. ASSUME p \in Port, client[c].at # "talk", client'[c].at = "talk", client'[c].port = p,
               \A u \in Thread : ~Has(u, p), lease[p] # "other", SameOther
        PROVE  Owner!Next
    <3>1. Holders' = Holders \cup {<<c, p>>} /\ <<c, p>> \notin Holders
      BY <2>1, <2>3, <2>4, <2>5, <2>7 DEF Holders, User
    <3>2. Talkers' = Talkers \cup {<<c, p>>}
      BY <2>1, <2>3, <2>4, <2>7 DEF Talkers, User
    <3> QED BY <1>2, <2>1, <2>7, <3>1, <3>2
  <2>8. Answered(client[c]).at = "idle"
    BY <2>1 DEF Answered, Clients
  <2>9. CASE \/ CancelSet(c) \/ EnterLoop(c) \/ ConfigLock(c) \/ ConfigEnds(c)
             \/ \E q \in Port : Reserve(c, q) \/ GiveBack(c, q)
             \/ \E j \in Job : CancelCheck(c, j)
             \/ \E s \in {"release", "restore", "config"}, q \in Port : Request(c, s, q)
    <3>1. NoOther
      BY <2>1, <2>9 DEF CancelSet, EnterLoop, ConfigLock, ConfigEnds, Reserve, GiveBack,
                        CancelCheck, Request
    <3>2. Answers(c) => client'[c].at # "talk"
      BY <2>1, <2>8 DEF Answers
    <3>3. CASE EnterLoop(c) \/ \E q \in Port : Reserve(c, q) \/ GiveBack(c, q)
      <4>1. PICK s \in {"giving", "taking"} : \E rest : Loops(c, s, rest)
        BY <3>3 DEF EnterLoop, Reserve, GiveBack
      <4>2. PICK rest : Loops(c, s, rest)
        BY <4>1
      <4>3. client'[c].at # "talk"
        BY <2>1, <2>8, <4>2 DEF Loops, Clients
      <4> QED BY <2>6, <3>1, <4>3
    <3>4. CASE ConfigLock(c) \/ (\E j \in Job : CancelCheck(c, j))
               \/ \E s \in {"release", "restore", "config"}, q \in Port : Request(c, s, q)
      <4>1. CASE ConfigLock(c)
        BY <2>1, <2>6, <3>1, <4>1 DEF ConfigLock, Clients
      <4>2. ASSUME NEW s \in {"set", "release", "restore", "config"}, NEW q, NEW j,
                   Begins(c, s, q, j)
            PROVE  client'[c].at # "talk"
        BY <2>1, <4>2 DEF Begins, Clients
      <4>3. CASE \E j \in Job : CancelCheck(c, j)
        BY <2>6, <3>1, <4>2, <4>3 DEF CancelCheck
      <4>4. CASE \E s \in {"release", "restore", "config"}, q \in Port : Request(c, s, q)
        BY <2>6, <3>1, <4>2, <4>4 DEF Request
      <4> QED BY <3>4, <4>1, <4>3, <4>4
    <3> QED BY <2>6, <2>9, <3>1, <3>2, <3>3, <3>4 DEF CancelSet, ConfigEnds
  <2>10. CASE ConfigLease(c)
    <3>1. p \in Port /\ client[c].at = "port" /\ lease' = lease
      BY <1>0, <2>10 DEF ConfigLease, ClientOK
    <3>2. CASE /\ p \in manual /\ users[p] = 0
               /\ client' = [client EXCEPT ![c].at = "talk", ![c].hold = "manual"]
      <4>1. client'[c].at = "talk" /\ client'[c].port = p
        BY <2>1, <3>2 DEF Clients
      <4>2. lease[p] = "manual" /\ \A u \in Thread : ~Has(u, p)
        BY <1>0, <3>1, <3>2, HoldAlone DEF LeaseOK
      <4> QED BY <2>7, <3>1, <4>1, <4>2
    <3>3. CASE Answers(c) \/ client' = [client EXCEPT ![c].at = "broker"]
      <4>1. client'[c].at # "talk"
        BY <2>1, <2>8, <3>3 DEF Answers, Clients
      <4> QED BY <2>6, <3>1, <4>1
    <3> QED BY <2>10, <3>2, <3>3 DEF ConfigLease, TakeManual
  <2>11. CASE ConfigBroker(c)
    <3>1. p \in Port /\ client[c].at = "broker"
      BY <1>0, <2>11 DEF ConfigBroker, ClientOK
    <3>2. CASE /\ lease[p] = None /\ lease' = [lease EXCEPT ![p] = c]
               /\ client' = [client EXCEPT ![c].at = "talk", ![c].hold = "own"]
      <4>1. client'[c].at = "talk" /\ client'[c].port = p
        BY <2>1, <3>2 DEF Clients
      <4>2. \A u \in Thread : ~Has(u, p)
        BY <3>1, <3>2, HoldAlone DEF Thread
      <4>3. SameOther
        BY <2>1, <3>2
      <4> QED BY <2>7, <3>1, <3>2, <4>1, <4>2, <4>3
    <3>3. CASE Answers(c) /\ lease' = lease
      <4>1. client'[c].at # "talk"
        BY <2>1, <2>8, <3>3 DEF Answers
      <4> QED BY <2>6, <3>3, <4>1
    <3> QED BY <2>11, <3>2, <3>3 DEF ConfigBroker
  <2> QED BY <1>6, <2>9, <2>10, <2>11 DEF Handler
<1>7. ASSUME NEW p \in Port, Other(p) PROVE Owner!Next
  <2>1. /\ \A u \in Thread, q \in Port : /\ Has(u, q)' <=> Has(u, q)
                                         /\ Talks(u, q)' <=> Talks(u, q)
        /\ lease \in [Port -> Thread \cup {None, "manual", "other"}] /\ "other" \notin Thread
    BY <1>0, <1>7 DEF Other, Has, Hold, PortOf, Talks, Thread, TypeOK
  <2>2. CASE lease[p] = None /\ lease' = [lease EXCEPT ![p] = "other"]
    <3>1. \A u \in Thread : ~Has(u, p)
      BY <2>2, HoldAlone DEF Thread
    <3>2. Holders' = Holders \cup {<<"other", p>>} /\ <<"other", p>> \notin Holders
      BY <2>1, <2>2 DEF Holders, User
    <3>3. Talkers' = Talkers
      BY <2>1 DEF Talkers, User
    <3> QED BY <1>2, <2>2, <3>1, <3>2, <3>3
  <2>3. CASE lease' = [lease EXCEPT ![p] = None]
    <3>1. NoOther
      BY <2>1, <2>3
    <3> QED BY <1>1, <2>1, <3>1
  <2> QED BY <1>7, <2>2, <2>3 DEF Other
<1>8. CASE UNCHANGED vars \/ \E p \in Port : ProbeTakes(p) \/ ProbeLeaves(p)
  <2>1. UNCHANGED <<job, client, lease>>
    BY <1>8 DEF vars, ProbeTakes, ProbeLeaves
  <2> QED BY <1>1, <2>1 DEF Has, Hold, PortOf, Talks
<1> QED BY <1>4, <1>5, <1>6, <1>7, <1>8 DEF Next

\* The flasher implements the abstract owner of a UART: with any number of jobs,
\* sessions and reservations a UART goes to a thread only when nobody has it, and
\* a worker opens it only under its lease (port_lease, release_pollers).
THEOREM Implements == Spec => TakesUart
<1>1. Init => Owner!Init
  BY FlasherAssumption DEF Init, Owner!Init, User, Hold, Talks, Thread, OnLine
<1>2. Inv /\ [Next]_vars => Owner!Next
  BY TakesStep
<1> QED BY InvHolds, <1>1, <1>2, PTL DEF Spec, TakesUart, Owner!Spec

=============================================================================
