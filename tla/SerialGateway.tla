---------------------------- MODULE SerialGateway ----------------------------
(***************************************************************************)
(* The RS-485 gateway daemon: GatewayDaemon starts, reloads and stops one  *)
(* PortGateway per UART; each takes the coordinator's lease (external,     *)
(* PortBroker is its model), opens the UART and serves TCP clients.  The   *)
(* daemon is one asyncio loop whose UART calls run on executor threads:    *)
(* cancelling an await does not stop the thread.  The lock and the server  *)
(* of asyncio are external; Server.wait_closed waits for the connections,  *)
(* as in the Python 3.12 of the board.                                     *)
(***************************************************************************)
EXTENDS Naturals, Sequences

CONSTANTS
  Port, Client,
  To,         \* the port each client connects to
  MaxFault,   \* bound: failed calls and deaths of the process
  MaxReload   \* bound: SIGHUPs

ASSUME GatewayAssumption ==
  /\ To \in [Client -> Port] /\ Client \cap Port = {}
  /\ {MaxFault, MaxReload} \subseteq Nat

VARIABLES
  daemon,     \* where GatewayDaemon.run is
  todo,       \* ports _start_ports has not come to
  known,      \* the keys of _ports
  signal,     \* hup: _reload_flag, term: _stop_flag, int: the main task is cancelled
  port,       \* each PortGateway and its gateway: see Ports
  queue,      \* the waiters of each exchange lock
  conn,       \* each client's connection and handler task
  cancelled,  \* the handlers whose task _stop_all cancelled
  late,       \* the exchanges whose wait_for has timed out
  ops,        \* executor threads at a UART: a client's exchange, a port's reader
  unread,     \* clients that do not read what is sent to them
  faults, reloads

lifecycle == <<daemon, todo, known, signal, reloads>>
clients == <<queue, conn, cancelled, late, unread>>
vars == <<lifecycle, port, clients, ops, faults>>

\* at: the await its start, stop or cleanup is in.  gw: _gw is set, which is what
\* status publishes as running.  stop: the outcome _stop_task keeps.  raw: the mode
\* is transparent, not modbus_tcp or rtu_over_tcp; rx: the reader task it then has.
Ports == [at : {"idle", "acquire", "open", "bind", "drain", "close", "release"},
          gw : BOOLEAN, lease : BOOLEAN, uart : BOOLEAN, listen : BOOLEAN, stopping : BOOLEAN,
          stop : {"none", "done", "failed"}, raw : BOOLEAN, rx : {"none", "rest", "poll", "fan"}]
Fresh == [at |-> "idle", gw |-> FALSE, lease |-> FALSE, uart |-> FALSE, listen |-> FALSE,
          stopping |-> FALSE, stop |-> "none", raw |-> FALSE, rx |-> "none"]

TypeOK ==
  /\ daemon \in {"off", "boot", "loop", "stopping", "reload", "final"}
  /\ todo \subseteq Port /\ known \subseteq Port /\ signal \subseteq {"hup", "term", "int"}
  /\ port \in [Port -> Ports] /\ queue \in [Port -> Seq(Client)]
  /\ conn \in [Client -> {"none", "syn", "join", "read", "queue", "xchg", "reply", "leave", "end", "linger"}]
  /\ {cancelled, late, unread} \subseteq SUBSET Client /\ ops \subseteq Client \cup Port
  /\ faults \in 0 .. MaxFault /\ reloads \in 0 .. MaxReload

Init ==
  /\ daemon = "off" /\ todo = {} /\ known = {} /\ signal = {} /\ reloads = 0 /\ faults = 0
  /\ port = [p \in Port |-> Fresh] /\ queue = [p \in Port |-> <<>>]
  /\ conn = [c \in Client |-> "none"] /\ cancelled = {} /\ late = {} /\ ops = {} /\ unread = {}

Fault == faults < MaxFault /\ faults' = faults + 1
Raw(c) == port[To[c]].raw
Idle == \A p \in Port : port[p].at = "idle"
Starting == daemon \in {"boot", "reload"}
Moves(p, s) == port' = [port EXCEPT ![p].at = s]
Handler(c) == conn[c] \notin {"none", "syn", "linger"}
Gone(c) == IF c \in unread THEN "linger" ELSE "none"

-----------------------------------------------------------------------------
(* PortGateway.stop and the shared _cleanup. *)

\* What _stop and the head of _stop_all do: no more accepts, the listener closed.
BeginStop(r) ==
  IF r.stop = "done" THEN r
  ELSE [r EXCEPT !.at = IF r.gw THEN "drain" ELSE "close",
                 !.gw = FALSE, !.listen = FALSE, !.stopping = TRUE]

\* _stop_ports: every known port, and every handler it has now is cancelled.
StopPorts ==
  /\ port' = [p \in Port |-> IF p \in known THEN BeginStop(port[p]) ELSE port[p]]
  /\ cancelled' = cancelled \cup {c \in Client : Handler(c) /\ To[c] \in known /\ port[To[c]].gw}
  /\ UNCHANGED <<queue, conn, late, unread>>

\* The port's start or stop is over.  A failed cleanup raises out of start: the
\* daemon's try around a reload takes it, at boot it ends run.  _start_ports ends
\* either way, so what is left in todo stays unstarted.
Ends(p, r, ok) ==
  \/ /\ Starting /\ ok /\ "int" \notin signal
     /\ port' = [port EXCEPT ![p] = [r EXCEPT !.at = "idle"]] /\ UNCHANGED <<daemon, clients>>
  \/ /\ daemon = "reload" /\ ~ok /\ daemon' = "loop" /\ UNCHANGED clients
     /\ port' = [port EXCEPT ![p] = [r EXCEPT !.at = "idle"]]
  \/ /\ daemon = "boot" /\ (~ok \/ "int" \in signal) /\ daemon' = "final"
     /\ port' = [q \in Port |-> IF q = p THEN BeginStop([r EXCEPT !.at = "idle"])
                                ELSE IF q \in known THEN BeginStop(port[q]) ELSE port[q]]
     /\ cancelled' = cancelled \cup {c \in Client : Handler(c) /\ To[c] \in known /\ port[To[c]].gw}
     /\ UNCHANGED <<queue, conn, late, unread>>
  \/ /\ daemon \in {"stopping", "final"} /\ UNCHANGED <<daemon, clients>>
     /\ port' = [port EXCEPT ![p] = [r EXCEPT !.at = "idle",
                                              !.stop = IF ok THEN "done" ELSE "failed"]]

\* _stop_all has its tasks and, in wait_closed, the last connection behind it.
Drained(p) ==
  /\ port[p].at = "drain" /\ port[p].rx = "none"
  /\ \A c \in Client : To[c] = p => c \notin cancelled /\ conn[c] = "none"
  /\ Moves(p, "close") /\ UNCHANGED <<lifecycle, clients, ops, faults>>

\* A UART that does not close keeps its lease.
Close(p) ==
  /\ port[p].at = "close"
  /\ \/ /\ port' = [port EXCEPT ![p].uart = FALSE, ![p].at = "release"]
        /\ UNCHANGED <<daemon, clients, faults>>
     \/ port[p].uart /\ Fault /\ Ends(p, port[p], FALSE)
  /\ UNCHANGED <<todo, known, signal, reloads, ops>>

\* PortLock.release: the lease is gone even when the coordinator answers that a
\* service is not back yet, which is raised.
Release(p) ==
  /\ port[p].at = "release"
  /\ \/ Ends(p, [port[p] EXCEPT !.lease = FALSE], TRUE) /\ UNCHANGED faults
     \/ port[p].lease /\ Fault /\ Ends(p, [port[p] EXCEPT !.lease = FALSE], FALSE)
  /\ UNCHANGED <<todo, known, signal, reloads, ops>>

Teardown(p) == Drained(p) \/ Close(p) \/ Release(p)

-----------------------------------------------------------------------------
(* PortGateway.start: each step runs in the executor, or binds the listener. *)

StartPort(p) ==
  /\ Starting /\ Idle /\ p \in todo /\ "int" \notin signal
  /\ todo' = todo \ {p} /\ known' = known \cup {p}
  /\ \E m \in BOOLEAN : port' = [port EXCEPT ![p] = [Fresh EXCEPT !.at = "acquire", !.raw = m]]
  /\ UNCHANGED <<daemon, signal, reloads, clients, ops, faults>>

\* A refusal is the end of this start; a cancelled one gives the lease back first.
Acquire(p) ==
  /\ port[p].at = "acquire"
  /\ \/ /\ port' = [port EXCEPT ![p].lease = TRUE, ![p].at = IF "int" \in signal THEN "close" ELSE "open"]
        /\ UNCHANGED faults
     \/ Fault /\ Moves(p, IF "int" \in signal THEN "release" ELSE "idle")
  /\ UNCHANGED <<lifecycle, clients, ops>>

\* Mutant: the port is published before its listener is there.
OpenPublishes(p) ==
  /\ port[p].at = "open"
  /\ \/ /\ port' = [port EXCEPT ![p].uart = TRUE, ![p].gw = TRUE, ![p].at = "bind"]
        /\ UNCHANGED faults
     \/ Fault /\ Moves(p, "close")
  /\ UNCHANGED <<lifecycle, clients, ops>>

Open(p) ==
  /\ port[p].at = "open"
  /\ \/ /\ port' = [port EXCEPT ![p].uart = TRUE, ![p].at = IF "int" \in signal THEN "close" ELSE "bind"]
        /\ UNCHANGED faults
     \/ Fault /\ Moves(p, "close")
  /\ UNCHANGED <<lifecycle, clients, ops>>

Bind(p) ==
  /\ port[p].at = "bind"
  /\ \/ /\ "int" \notin signal /\ UNCHANGED faults
        /\ port' = [port EXCEPT ![p].gw = TRUE, ![p].listen = TRUE, ![p].at = "idle",
                                ![p].rx = IF port[p].raw THEN "rest" ELSE "none"]
     \/ "int" \in signal /\ Moves(p, "close") /\ UNCHANGED faults
     \/ Fault /\ Moves(p, "close")
  /\ UNCHANGED <<lifecycle, clients, ops>>

Startup(p) == Acquire(p) \/ Open(p) \/ Bind(p)

-----------------------------------------------------------------------------
(* GatewayDaemon.run and the process. *)

\* systemd starts the unit, at boot and after a failure; any ports are enabled.
Boot ==
  /\ daemon = "off" /\ signal \cap {"term", "int"} = {}
  /\ daemon' = "boot" /\ todo' \in SUBSET Port
  /\ UNCHANGED <<known, signal, reloads, port, clients, ops, faults>>

Ready ==
  /\ Starting /\ Idle /\ todo = {} /\ "int" \notin signal /\ daemon' = "loop"
  /\ UNCHANGED <<todo, known, signal, reloads, port, clients, ops, faults>>

\* The handlers are installed after the boot's _start_ports; until then SIGINT
\* is asyncio.run's, which cancels the main task.
Signal(s) ==
  /\ \/ s = "hup" /\ daemon \in {"loop", "stopping", "reload"} /\ reloads < MaxReload /\ reloads' = reloads + 1
     \/ s = "term" /\ daemon \in {"loop", "stopping", "reload"} /\ UNCHANGED reloads
     \/ s = "int" /\ daemon = "boot" /\ ~Idle /\ UNCHANGED reloads
  /\ signal' = signal \cup {s} /\ UNCHANGED <<daemon, todo, known, port, clients, ops, faults>>

Reload ==
  /\ daemon = "loop" /\ "hup" \in signal /\ "term" \notin signal
  /\ daemon' = "stopping" /\ signal' = signal \ {"hup"} /\ StopPorts
  /\ UNCHANGED <<todo, known, reloads, ops, faults>>

\* A port that failed to stop ends run; a configuration that cannot be read
\* leaves the daemon without ports.
Reloaded ==
  /\ daemon = "stopping" /\ Idle
  /\ \/ /\ \A p \in known : port[p].stop = "done"
        /\ known' = {} /\ UNCHANGED <<port, clients>>
        /\ \/ daemon' = "reload" /\ todo' \in SUBSET Port /\ UNCHANGED faults
           \/ daemon' = "loop" /\ Fault /\ UNCHANGED todo
     \/ /\ \E p \in known : port[p].stop = "failed"
        /\ daemon' = "final" /\ StopPorts /\ UNCHANGED <<todo, known, faults>>
  /\ UNCHANGED <<signal, reloads, ops>>

Stop ==
  /\ daemon = "loop" /\ "term" \in signal
  /\ daemon' = "final" /\ StopPorts
  /\ UNCHANGED <<todo, known, signal, reloads, ops, faults>>

\* After the finally block, or at any moment by a kill or the watchdog: the
\* kernel closes sockets, descriptors and lease.
Exits ==
  /\ daemon' = "off" /\ todo' = {} /\ known' = {} /\ signal' = signal \ {"hup"}
  /\ port' = [p \in Port |-> Fresh] /\ queue' = [p \in Port |-> <<>>]
  /\ conn' = [c \in Client |-> "none"] /\ cancelled' = {} /\ late' = {} /\ ops' = {} /\ unread' = {}
  /\ UNCHANGED reloads
Exit == daemon = "final" /\ Idle /\ Exits /\ UNCHANGED faults
Killed == daemon # "off" /\ Fault /\ Exits

Daemon == Ready \/ Reload \/ Reloaded \/ Stop \/ Exit

-----------------------------------------------------------------------------
(* The clients and their handlers. *)

Steps(c, s) == conn' = [conn EXCEPT ![c] = s]
Out(c) == IF Raw(c) THEN "leave" ELSE "end"

\* The listener takes a connection; the callback that makes its handler comes later ...
Connect(c) ==
  /\ conn[c] = "none" /\ port[To[c]].listen /\ Steps(c, "syn")
  /\ UNCHANGED <<lifecycle, port, queue, cancelled, late, unread, ops, faults>>

\* Mutant: ... and does not look whether the gateway is stopping.
AcceptAlways(c) ==
  /\ conn[c] = "syn" /\ Steps(c, IF Raw(c) THEN "join" ELSE "read")
  /\ UNCHANGED <<lifecycle, port, queue, cancelled, late, unread, ops, faults>>

\* ... and closes it when the gateway is stopping or the peer is not allowed.
Accept(c) ==
  /\ conn[c] = "syn"
  /\ \/ ~port[To[c]].stopping /\ Steps(c, IF Raw(c) THEN "join" ELSE "read")
     \/ Steps(c, "none")
  /\ UNCHANGED <<lifecycle, port, queue, cancelled, late, unread, ops, faults>>

\* The reader task has the clients' lock while it sends.
Join(c) ==
  /\ conn[c] = "join" /\ c \notin cancelled /\ port[To[c]].rx # "fan" /\ Steps(c, "read")
  /\ UNCHANGED <<lifecycle, port, queue, cancelled, late, unread, ops, faults>>

\* A whole request is there: it waits for the port's lock, or is written at once.
Request(c) ==
  /\ conn[c] = "read" /\ c \notin cancelled
  /\ \/ /\ ~Raw(c) /\ Steps(c, "queue") /\ UNCHANGED ops
        /\ queue' = [queue EXCEPT ![To[c]] = Append(@, c)]
     \/ Raw(c) /\ Steps(c, "xchg") /\ ops' = ops \cup {c} /\ UNCHANGED queue
  /\ UNCHANGED <<lifecycle, port, cancelled, late, unread, faults>>

LockFree(p) == \A c \in Client : To[c] = p => conn[c] # "xchg"

\* Mutant: the lock goes to the waiter that came last.
TakeLockLast(c) ==
  LET p == To[c]
  IN  /\ conn[c] = "queue" /\ c \notin cancelled /\ LockFree(p) /\ c = queue[p][Len(queue[p])]
      /\ queue' = [queue EXCEPT ![p] = SubSeq(@, 1, Len(@) - 1)] /\ Steps(c, "xchg") /\ ops' = ops \cup {c}
      /\ UNCHANGED <<lifecycle, port, cancelled, late, unread, faults>>

\* The lock goes to its first waiter, which hands the exchange to a thread.
TakeLock(c) ==
  LET p == To[c]
  IN  /\ conn[c] = "queue" /\ c \notin cancelled /\ LockFree(p) /\ c = Head(queue[p])
      /\ queue' = [queue EXCEPT ![p] = Tail(@)] /\ Steps(c, "xchg") /\ ops' = ops \cup {c}
      /\ UNCHANGED <<lifecycle, port, cancelled, late, unread, faults>>

\* SerialWorker: a thread comes to the end of its operation.
ThreadEnds(x) ==
  /\ x \in ops /\ ops' = ops \ {x} /\ UNCHANGED <<lifecycle, port, clients, faults>>

Timeout(c) ==
  /\ conn[c] = "xchg" /\ c \in ops /\ ~Raw(c) /\ late' = late \cup {c}
  /\ UNCHANGED <<lifecycle, port, queue, conn, cancelled, unread, ops, faults>>

\* Mutant: a timeout or a cancellation ends the await at once.
AwaitOverEarly(c) == c \notin ops \/ c \in late \/ c \in cancelled

\* _drain_on_cancel: the await ends with its thread, whatever cancelled it.
AwaitOver(c) == c \notin ops

\* The lock is released here, before the reply is sent.  An exchange that raises
\* ends its handler as a cancelled one does.
Return(c) ==
  /\ conn[c] = "xchg" /\ AwaitOver(c) /\ late' = late \ {c}
  /\ \/ Steps(c, Out(c)) /\ UNCHANGED unread
     \/ /\ c \notin cancelled /\ ~Raw(c) /\ Steps(c, "reply")
        /\ unread' \in {unread, unread \cup {c}}
     \/ c \notin cancelled /\ Raw(c) /\ Steps(c, "read") /\ UNCHANGED unread
  /\ UNCHANGED <<lifecycle, port, queue, cancelled, ops, faults>>

\* drain waits for a client that does not read.
Replied(c) ==
  /\ conn[c] = "reply" /\ c \notin cancelled \cup unread /\ Steps(c, "read")
  /\ UNCHANGED <<lifecycle, port, queue, cancelled, late, unread, ops, faults>>

\* The client leaves or is silent too long, the framing is wrong: the loop ends.
Leaves(c) ==
  /\ conn[c] = "read" /\ c \notin cancelled /\ Steps(c, Out(c))
  /\ UNCHANGED <<lifecycle, port, queue, cancelled, late, unread, ops, faults>>

\* A client reads again, or its host resets the connection.
Reads(c) ==
  /\ c \in unread /\ unread' = unread \ {c}
  /\ UNCHANGED <<lifecycle, port, queue, conn, cancelled, late, ops, faults>>

\* The cancellation arrives at an await outside an exchange.
CancelledAt(c) ==
  /\ c \in cancelled
  /\ \/ conn[c] \in {"read", "reply"} /\ Steps(c, Out(c)) /\ UNCHANGED <<queue, cancelled>>
     \/ /\ conn[c] = "queue" /\ Steps(c, "end") /\ UNCHANGED cancelled
        /\ queue' = [queue EXCEPT ![To[c]] = SelectSeq(@, LAMBDA d : d # c)]
     \/ conn[c] = "join" /\ Steps(c, Gone(c)) /\ cancelled' = cancelled \ {c} /\ UNCHANGED queue
  /\ UNCHANGED <<lifecycle, port, late, unread, ops, faults>>

\* The finally of a transparent handler takes the clients' lock once more.
Leave(c) ==
  /\ conn[c] = "leave" /\ (c \in cancelled \/ port[To[c]].rx # "fan") /\ Steps(c, "end")
  /\ UNCHANGED <<lifecycle, port, queue, cancelled, late, unread, ops, faults>>

\* writer.close() and at most a second of wait_closed; unsent data outlives the task.
End(c) ==
  /\ conn[c] = "end" /\ Steps(c, Gone(c)) /\ cancelled' = cancelled \ {c}
  /\ UNCHANGED <<lifecycle, port, queue, late, unread, ops, faults>>

ConnectionLost(c) ==
  /\ conn[c] = "linger" /\ c \notin unread /\ Steps(c, "none")
  /\ UNCHANGED <<lifecycle, port, queue, cancelled, late, unread, ops, faults>>

Handles(c) ==
  \/ Accept(c) \/ Join(c) \/ TakeLock(c) \/ Return(c) \/ Replied(c)
  \/ CancelledAt(c) \/ Leave(c) \/ End(c) \/ ConnectionLost(c)

-----------------------------------------------------------------------------
(* _serial_read_loop: poll the UART, send what came to every client of _clients. *)

Registered(p) == {c \in Client : To[c] = p /\ conn[c] \in {"read", "xchg", "leave"}}

Poll(p) ==
  /\ port[p].rx = "rest" /\ port[p].at # "drain"
  /\ port' = [port EXCEPT ![p].rx = "poll"] /\ ops' = ops \cup {p}
  /\ UNCHANGED <<lifecycle, clients, faults>>

Polled(p) ==
  /\ port[p].rx = "poll" /\ p \notin ops /\ port[p].at # "drain"
  /\ \/ port' = [port EXCEPT ![p].rx = "rest"] /\ UNCHANGED unread
     \/ /\ port' = [port EXCEPT ![p].rx = "fan"]
        /\ \E S \in SUBSET Registered(p) : unread' = unread \cup S
  /\ UNCHANGED <<lifecycle, queue, conn, cancelled, late, ops, faults>>

\* drain waits for every client in turn.
Sent(p) ==
  /\ port[p].rx = "fan" /\ Registered(p) \cap unread = {} /\ port[p].at # "drain"
  /\ port' = [port EXCEPT ![p].rx = "rest"]
  /\ UNCHANGED <<lifecycle, clients, ops, faults>>

\* Cancelled by _stop_all; a read in progress is drained as an exchange is.
ReaderEnds(p) ==
  /\ port[p].at = "drain" /\ port[p].rx # "none" /\ AwaitOver(p)
  /\ port' = [port EXCEPT ![p].rx = "none"]
  /\ UNCHANGED <<lifecycle, clients, ops, faults>>

Reader(p) == Poll(p) \/ Polled(p) \/ Sent(p) \/ ReaderEnds(p)

-----------------------------------------------------------------------------
Next ==
  \/ Boot \/ Daemon \/ Killed \/ \E s \in {"hup", "term", "int"} : Signal(s)
  \/ \E p \in Port : StartPort(p) \/ Startup(p) \/ Teardown(p) \/ Reader(p)
  \/ \E c \in Client : Connect(c) \/ Request(c) \/ Timeout(c) \/ Leaves(c) \/ Reads(c) \/ Handles(c)
  \/ \E x \in Client \cup Port : ThreadEnds(x)

\* The loop and its threads run: the calls of a thread are bounded by their
\* timeouts.  Nothing is asked of a client, a signal or systemd.
Fairness ==
  /\ WF_vars(Daemon \/ \E p \in Port : StartPort(p))
  /\ \A p \in Port : WF_vars(Startup(p) \/ Teardown(p)) /\ WF_vars(Reader(p) \/ ThreadEnds(p))
  /\ \A c \in Client : WF_vars(Handles(c) \/ ThreadEnds(c))

Spec == Init /\ [][Next]_vars /\ Fairness

-----------------------------------------------------------------------------
(* Properties. *)

At(x) == IF x \in Port THEN x ELSE To[x]

\* Whatever stops, is cancelled, times out or fails: a thread at the UART has an
\* open descriptor under it, and a descriptor is open only under the
\* coordinator's lease (_drain_on_cancel, _stop_all, _cleanup).
UartCovered ==
  /\ \A x \in ops : port[At(x)].uart
  /\ \A p \in Port : port[p].uart => port[p].lease

\* modbus_tcp and rtu_over_tcp: one exchange at a time, even when the client or
\* the timeout of the first one has given up on it (_req_lock, _drain_on_cancel).
OneExchange ==
  \A c, d \in ops \cap Client : To[c] = To[d] /\ ~Raw(c) => c = d

\* A port published as running has its lease, its UART and its listener (is_running).
PublishedTrue == \A p \in Port : port[p].gw => port[p].lease /\ port[p].uart /\ port[p].listen

\* No lease outlives the port that took it: however starts, reloads and cleanups
\* fail, a UART whose port the daemon has dropped is free for others (_stop_ports).
NothingLeaked == \A p \in Port \ known : ~port[p].lease /\ ~port[p].uart

\* A request that waits for the UART gets it, or its handler is told to end,
\* however the other clients hurry and though one of them stops reading (_req_lock).
Served == \A c \in Client : conn[c] = "queue" ~> conn[c] # "queue"

\* SIGTERM ends the daemon, in the middle of a start, a reload or a failed stop,
\* if clients read what they are sent or go away.
StopEnds == (\A c \in Client : []<>(c \notin unread)) => ("term" \in signal ~> daemon = "off")

\* The same without asking anything of the clients: what the contract says a stop
\* waits for is the UART operation in progress.
StopWaitsForUart == "term" \in signal ~> daemon = "off"

\* A port that cannot be opened or bound is left not running; the daemon goes on
\* with the others (_start_ports).
OthersTried == daemon \in {"loop", "final"} /\ "int" \notin signal => todo = {}
=============================================================================
