----------------------------- MODULE BridgePause -----------------------------
(***************************************************************************)
(* How the Modbus bridge pauses one polled line (bridge_scan_lease.py with *)
(* the handle pools of bridge_serial.py and bridge_rtu_tcp.py): holders    *)
(* connect, the first one closes the line, the last one lets it poll       *)
(* again, while the bridge's own threads fetch handles and transact.       *)
(*                                                                         *)
(* One line is modelled: a /dev/COMx with its pooled handles (one per baud *)
(* rate and framing) or a gateway endpoint with its one client; the two    *)
(* pools run the same code.  Every `with' block is one step, and so is     *)
(* each access to an Event outside one.                                    *)
(***************************************************************************)
EXTENDS Naturals, FiniteSets

CONSTANTS
    Holder,      \* connections of the pause socket, one handler thread each
    Worker,      \* bridge threads that use the line
    Scheduled,   \* the workers that stop while the scheduler is parked
    Handle,      \* handles of the line's pool
    Uses,        \* Uses[w]: the handle a worker asks the pool for
    CloseFails,  \* whether closing a handle may raise
    Nobody       \* free lock

\* The steps of a handler thread; inside hold_scan its step is the handle.
HolderPC == {"new", "mark", "snapshot", "hold", "acked", "unmark", "unsnapshot",
             "unhold", "done"}

ASSUME PauseAssumption ==
    /\ IsFiniteSet(Holder) /\ Handle \cap HolderPC = {}
    /\ Scheduled \subseteq Worker
    /\ Uses \in [Worker -> Handle]
    /\ CloseFails \in BOOLEAN
    /\ Nobody \notin Holder \cup Worker

VARIABLES
    count,   \* _holds[key]; 0 when the key is absent
    held,    \* the line is in _held_ports / _held
    pool,    \* handles in _port_pool / _pool
    hold,    \* hold[h]: the handle's _scan_hold event
    lock,    \* lock[h]: the thread that owns the handle's _lock
    open,    \* handles whose descriptor is open
    parked,  \* the scheduler's _scan_hold event
    hpc,     \* each holder's handler thread
    todo,    \* todo[k]: handles the thread's loop has still to visit
    wpc      \* each worker

vars == <<count, held, pool, hold, lock, open, parked, hpc, todo, wpc>>
line == <<held, pool, hold, lock, open>>

Init ==
    /\ count = 0 /\ held = FALSE /\ pool = {} /\ open = {} /\ parked = FALSE
    /\ hold = [h \in Handle |-> FALSE]
    /\ lock = [h \in Handle |-> Nobody]
    /\ hpc = [k \in Holder |-> "new"]
    /\ todo = [k \in Holder |-> {}]
    /\ wpc = [w \in Worker |-> "idle"]

Goto(k, at) == hpc' = [hpc EXCEPT ![k] = at]

-----------------------------------------------------------------------------
(* apply_hold *)

\* The reference count; only the first holder pauses, the others are answered.
Count(k) ==
    /\ hpc[k] = "new"
    /\ count' = count + 1
    /\ Goto(k, IF count = 0 THEN "mark" ELSE "acked")
    /\ UNCHANGED <<line, parked, todo, wpc>>

\* hold_com / hold_endpoint: mark the line, then look at the pool.
Mark(k) ==
    /\ hpc[k] = "mark"
    /\ held' = TRUE
    /\ Goto(k, "snapshot")
    /\ UNCHANGED <<count, pool, hold, lock, open, parked, todo, wpc>>

Snapshot(k) ==
    /\ hpc[k] = "snapshot"
    /\ todo' = [todo EXCEPT ![k] = pool]
    /\ Goto(k, "hold")
    /\ UNCHANGED <<count, line, parked, wpc>>

\* hold_scan: the event first, so that no new transaction starts ...
HoldSet(k, h) ==
    /\ hpc[k] = "hold" /\ h \in todo[k]
    /\ hold' = [hold EXCEPT ![h] = TRUE]
    /\ Goto(k, h)
    /\ UNCHANGED <<count, held, pool, lock, open, parked, todo, wpc>>

\* Mutant: close() does not wait for the transaction.
HoldCloseAtOnce(k, h) ==
    /\ hpc[k] = h
    /\ open' = open \ {h}
    /\ todo' = [todo EXCEPT ![k] = @ \ {h}]
    /\ Goto(k, "hold")
    /\ UNCHANGED <<count, held, pool, hold, lock, parked, wpc>>

\* ... then close(), which waits for the lock of a transaction in flight.
HoldClose(k, h) ==
    /\ hpc[k] = h /\ lock[h] = Nobody
    /\ open' = open \ {h}
    /\ todo' = [todo EXCEPT ![k] = @ \ {h}]
    /\ Goto(k, "hold")
    /\ UNCHANGED <<count, held, pool, hold, lock, parked, wpc>>

\* _arm, and the positive answer.
Park(k) ==
    /\ hpc[k] = "hold" /\ todo[k] = {}
    /\ parked' = TRUE
    /\ Goto(k, "acked")
    /\ UNCHANGED <<count, line, todo, wpc>>

\* The pause raises: the count goes down, the answer is hold_failed and the
\* connection is not released later.
HoldRaise(k, h) ==
    /\ CloseFails
    /\ hpc[k] = h /\ lock[h] = Nobody
    /\ count' = count - 1
    /\ open' \in {open, open \ {h}}
    /\ todo' = [todo EXCEPT ![k] = {}]
    /\ Goto(k, "done")
    /\ UNCHANGED <<held, pool, hold, lock, parked, wpc>>

-----------------------------------------------------------------------------
(* release_hold: the connection closed, or its process died *)

\* Mutant: the last holder takes itself for one of several.
UncountOffByOne(k) ==
    /\ hpc[k] = "acked"
    /\ count' = IF count > 1 THEN count - 1 ELSE 0
    /\ Goto(k, IF count >= 1 THEN "done" ELSE "unmark")
    /\ UNCHANGED <<line, parked, todo, wpc>>

Uncount(k) ==
    /\ hpc[k] = "acked"
    /\ count' = IF count > 1 THEN count - 1 ELSE 0
    /\ Goto(k, IF count > 1 THEN "done" ELSE "unmark")
    /\ UNCHANGED <<line, parked, todo, wpc>>

Unmark(k) ==
    /\ hpc[k] = "unmark"
    /\ held' = FALSE
    /\ Goto(k, "unsnapshot")
    /\ UNCHANGED <<count, pool, hold, lock, open, parked, todo, wpc>>

Unsnapshot(k) ==
    /\ hpc[k] = "unsnapshot"
    /\ todo' = [todo EXCEPT ![k] = pool]
    /\ Goto(k, "unhold")
    /\ UNCHANGED <<count, line, parked, wpc>>

HoldClear(k, h) ==
    /\ hpc[k] = "unhold" /\ h \in todo[k]
    /\ hold' = [hold EXCEPT ![h] = FALSE]
    /\ todo' = [todo EXCEPT ![k] = @ \ {h}]
    /\ UNCHANGED <<count, held, pool, lock, open, parked, hpc, wpc>>

Unpark(k) ==
    /\ hpc[k] = "unhold" /\ todo[k] = {}
    /\ parked' = FALSE
    /\ Goto(k, "done")
    /\ UNCHANGED <<count, line, todo, wpc>>

-----------------------------------------------------------------------------
(* The bridge's threads: get_port / get_client, then one transaction *)

GetHandle(w) ==
    /\ wpc[w] = "idle" /\ (w \in Scheduled => ~parked)
    /\ pool' = pool \cup {Uses[w]}
    /\ wpc' = [wpc EXCEPT ![w] = "got"]
    /\ UNCHANGED <<count, held, hold, lock, open, parked, hpc, todo>>

\* Mutant: the pool hands out a handle without asking whether the line is held.
CheckHeldNever(w) ==
    /\ wpc[w] = "got"
    /\ wpc' = [wpc EXCEPT ![w] = "ready"]
    /\ UNCHANGED <<count, line, parked, hpc, todo>>

CheckHeld(w) ==
    /\ wpc[w] = "got"
    /\ wpc' = [wpc EXCEPT ![w] = IF held THEN "seen" ELSE "ready"]
    /\ UNCHANGED <<count, line, parked, hpc, todo>>

MarkHandle(w) ==
    /\ wpc[w] = "seen"
    /\ hold' = [hold EXCEPT ![Uses[w]] = TRUE]
    /\ wpc' = [wpc EXCEPT ![w] = "ready"]
    /\ UNCHANGED <<count, held, pool, lock, open, parked, hpc, todo>>

\* _ensure_open under the lock: a held handle is closed and refuses.
Refuse(w) ==
    /\ wpc[w] = "ready" /\ lock[Uses[w]] = Nobody /\ hold[Uses[w]]
    /\ open' = open \ {Uses[w]}
    /\ wpc' = [wpc EXCEPT ![w] = "idle"]
    /\ UNCHANGED <<count, held, pool, hold, lock, parked, hpc, todo>>

Transact(w) ==
    /\ wpc[w] = "ready" /\ lock[Uses[w]] = Nobody /\ ~hold[Uses[w]]
    /\ lock' = [lock EXCEPT ![Uses[w]] = w]
    /\ open' = open \cup {Uses[w]}
    /\ wpc' = [wpc EXCEPT ![w] = "xact"]
    /\ UNCHANGED <<count, held, pool, hold, parked, hpc, todo>>

\* Mutant: the lock of the handle is not given back.
FinishKeepsLock(w) ==
    /\ wpc[w] = "xact"
    /\ wpc' = [wpc EXCEPT ![w] = "idle"]
    /\ UNCHANGED <<count, line, parked, hpc, todo>>

Finish(w) ==
    /\ wpc[w] = "xact"
    /\ lock' = [lock EXCEPT ![Uses[w]] = Nobody]
    /\ wpc' = [wpc EXCEPT ![w] = "idle"]
    /\ UNCHANGED <<count, held, pool, hold, open, parked, hpc, todo>>

-----------------------------------------------------------------------------
PauseStep(k) ==
    Count(k) \/ Mark(k) \/ Snapshot(k) \/ Park(k)
    \/ \E h \in Handle : HoldSet(k, h) \/ HoldClose(k, h) \/ HoldRaise(k, h)

ResumeStep(k) ==
    Uncount(k) \/ Unmark(k) \/ Unsnapshot(k) \/ Unpark(k)
    \/ \E h \in Handle : HoldClear(k, h)

WorkerStep(w) ==
    GetHandle(w) \/ CheckHeld(w) \/ MarkHandle(w) \/ Refuse(w) \/ Transact(w) \/ Finish(w)

Next == \/ \E k \in Holder : PauseStep(k) \/ ResumeStep(k)
        \/ \E w \in Worker : WorkerStep(w)

Spec == Init /\ [][Next]_vars

\* Threads are scheduled, a transaction ends, and the lock of a handle is not
\* refused to a waiting holder forever.
Fairness ==
    /\ \A k \in Holder : /\ WF_vars(PauseStep(k))
                         /\ \A h \in Handle : SF_vars(HoldClose(k, h))
    /\ \A w \in Worker : WF_vars(Finish(w))

FairSpec == Spec /\ Fairness

-----------------------------------------------------------------------------
(* Properties *)

\* Every variable has its type; a handler thread inside hold_scan names the
\* handle it is closing.
TypeOK ==
    /\ count \in 0 .. Cardinality(Holder) /\ held \in BOOLEAN /\ parked \in BOOLEAN
    /\ pool \subseteq Handle /\ open \subseteq pool
    /\ hold \in [Handle -> BOOLEAN] /\ lock \in [Handle -> Worker \cup {Nobody}]
    /\ hpc \in [Holder -> HolderPC \cup Handle] /\ todo \in [Holder -> SUBSET Handle]
    /\ wpc \in [Worker -> {"idle", "got", "seen", "ready", "xact"}]

\* While a holder has its answer and has not closed, the bridge neither
\* transmits on the line nor has a handle of it open.
PausedLine ==
    (\E k \in Holder : hpc[k] = "acked") =>
        /\ \A w \in Worker : wpc[w] # "xact"
        /\ open = {}

\* When no holder is left, the line is not marked held and nothing is counted.
NothingLeftHeld ==
    (\A k \in Holder : hpc[k] \in {"new", "done"}) => count = 0 /\ ~held /\ ~parked

\* When no holder is left and every worker is between two uses of the line, no
\* handle refuses to transact: the last holder let the line poll again.
PollsAgain ==
    (/\ \A k \in Holder : hpc[k] \in {"new", "done"}
     /\ \A w \in Worker : wpc[w] = "idle")
        => \A h \in Handle : ~hold[h]

\* Once nobody is pausing or resuming and a holder is still connected, the line
\* is marked held and every pooled handle refuses to transact (or is just being
\* handed out by get_port, which marks it).
StaysPaused ==
    (/\ \A k \in Holder : hpc[k] \in {"new", "acked", "done"}
     /\ \E k \in Holder : hpc[k] = "acked")
        => held /\ \A h \in pool : hold[h] \/ \E w \in Worker : wpc[w] \in {"got", "seen"}

\* Every holder is answered: closing the handles waits for transactions, and
\* they never wait for the holder.
Answered == \A k \in Holder : (hpc[k] = "mark") ~> (hpc[k] \in {"acked", "done"})
=============================================================================
