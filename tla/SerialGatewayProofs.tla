------------------------- MODULE SerialGatewayProofs -------------------------
(***************************************************************************)
(* Proofs about SerialGateway, for any ports, clients, faults and reloads. *)
(***************************************************************************)
EXTENDS SerialGateway, TLAPS

Types ==
  /\ port \in [Port -> Ports] /\ conn = [c \in Client |-> conn[c]]
  /\ ops \subseteq Client \cup Port /\ known \subseteq Port /\ todo \subseteq Port

\* What the steps of a port's start and stop have behind them.
Sound(r) ==
  /\ r.uart => r.lease
  /\ r.gw => r.at = "idle" /\ r.listen
  /\ r.listen => r.gw
  /\ r.gw \/ r.at \in {"bind", "drain"} => r.uart
  /\ r.at = "open" => r.lease
  /\ r.at \in {"acquire", "release"} => ~r.uart
  /\ r.rx # "none" => r.gw \/ r.at = "drain"
  /\ r.stop = "done" => ~r.gw /\ r.at = "idle" /\ ~r.lease

\* Only a gateway that serves, or is being drained, has connections.
Live(r) == r.gw \/ r.at = "drain"

PortsSound == \A p \in Port : Sound(port[p])
Connected == \A c \in Client : conn[c] # "none" => Live(port[To[c]])
Awaited ==
  /\ \A c \in Client : c \in ops => conn[c] = "xchg"
  /\ \A p \in Port : p \in ops => port[p].rx = "poll"
LockHeld == \A c, d \in Client : To[c] = To[d] /\ ~Raw(c) /\ conn[c] = "xchg" /\ conn[d] = "xchg" => c = d
Owned ==
  /\ \A p \in Port : p \notin known => ~port[p].gw /\ port[p].at = "idle" /\ ~port[p].lease
  /\ todo \cap known = {} /\ (daemon = "off" => known = {})

\* _start_ports has one port under way; the loop has none.
Alone ==
  /\ daemon \in {"off", "loop"} => Idle
  /\ Starting => \A p, q \in Port : port[p].at # "idle" /\ port[q].at # "idle" => p = q

IInv == Types /\ PortsSound /\ Connected /\ Awaited /\ LockHeld /\ Owned /\ Alone

\* With no process, or at the start, nothing is open and nobody is connected.
Empty ==
  /\ port = [p \in Port |-> Fresh] /\ conn = [c \in Client |-> "none"] /\ ops = {}
  /\ known = {} /\ todo = {}

LEMMA FreshSound == Fresh \in Ports /\ Sound(Fresh) /\ Fresh.at = "idle" /\ ~Fresh.gw /\ ~Fresh.lease
  BY DEF Fresh, Ports, Sound

LEMMA EmptyInv == Empty => IInv
<1> SUFFICES ASSUME Empty PROVE IInv
  OBVIOUS
<1>1. \A p \in Port : port[p] = Fresh
  BY DEF Empty
<1>2. PortsSound
  BY <1>1, FreshSound DEF PortsSound
<1>2a. Types
  BY FreshSound DEF Empty, Types
<1>3. Connected /\ Awaited /\ LockHeld
  BY DEF Empty, Connected, Awaited, LockHeld
<1>4. Owned /\ Alone
  BY <1>1, FreshSound DEF Empty, Owned, Alone, Idle
<1>5. QED
  BY <1>2, <1>2a, <1>3, <1>4 DEF IInv

LEMMA InitInv == Init => IInv
  BY EmptyInv DEF Init, Empty

-----------------------------------------------------------------------------
(* Steps that change ports only. *)

LEMMA PortsStep ==
  ASSUME IInv, GatewayAssumption,
         port' \in [Port -> Ports], UNCHANGED <<conn, ops, known, todo>>,
         daemon' = "off" => daemon = "off", Alone',
         \A q \in Port : /\ Sound(port'[q]) /\ port'[q].raw = port[q].raw
                         /\ q \in ops => port'[q].rx = "poll"
                         /\ Live(port[q]) /\ ~Live(port'[q]) => \A c \in Client : To[c] = q => conn[c] = "none"
                         /\ q \notin known => ~port'[q].gw /\ port'[q].at = "idle" /\ ~port'[q].lease
  PROVE  IInv'
<1> USE DEF IInv
<1>1. Types' /\ PortsSound'
  BY DEF Types, PortsSound
<1>2. Connected'
  BY DEF Connected, GatewayAssumption
<1>3. Awaited' /\ Owned'
  BY DEF Awaited, Owned
<1>4. LockHeld'
  BY DEF LockHeld, Raw, GatewayAssumption
<1>5. QED
  BY <1>1, <1>2, <1>3, <1>4

\* One port p becomes r.
LEMMA PortStep ==
  ASSUME IInv, GatewayAssumption, NEW p \in Port, p \in known, NEW r \in Ports,
         port' = [port EXCEPT ![p] = r], UNCHANGED <<conn, ops, known, todo>>,
         daemon' = "off" => daemon = "off", Alone',
         Sound(r), r.raw = port[p].raw, p \in ops => r.rx = "poll",
         Live(port[p]) /\ ~Live(r) => \A c \in Client : To[c] = p => conn[c] = "none"
  PROVE  IInv'
<1>1. port' \in [Port -> Ports] /\ port'[p] = r /\ \A q \in Port \ {p} : port'[q] = port[q]
  BY DEF IInv, Types
<1>2. \A q \in Port : /\ Sound(port[q])
                      /\ q \in ops => port[q].rx = "poll"
                      /\ q \notin known => ~port[q].gw /\ port[q].at = "idle" /\ ~port[q].lease
  BY DEF IInv, PortsSound, Awaited, Owned
<1>3. ASSUME NEW q \in Port
      PROVE  /\ Sound(port'[q]) /\ port'[q].raw = port[q].raw
             /\ q \in ops => port'[q].rx = "poll"
             /\ Live(port[q]) /\ ~Live(port'[q]) => \A c \in Client : To[c] = q => conn[c] = "none"
             /\ q \notin known => ~port'[q].gw /\ port'[q].at = "idle" /\ ~port'[q].lease
  <2>1. CASE q = p
    BY <1>1, <2>1
  <2>2. CASE q # p
    BY <1>1, <1>2, <2>2
  <2>3. QED
    BY <2>1, <2>2
<1>4. QED
  BY <1>1, <1>3, PortsStep

\* A port under way is the only one, or the daemon is stopping.
LEMMA AloneKept ==
  ASSUME IInv, NEW p \in Port, port[p].at # "idle", NEW r \in Ports,
         port' = [port EXCEPT ![p] = r], UNCHANGED daemon
  PROVE  Alone'
<1>1. daemon \notin {"off", "loop"}
  BY DEF IInv, Alone, Idle
<1>2. \A q \in Port \ {p} : port'[q] = port[q]
  BY DEF IInv, Types
<1>3. Starting => \A q \in Port \ {p} : port[q].at = "idle"
  BY DEF IInv, Alone
<1>4. QED
  BY <1>1, <1>2, <1>3 DEF Alone, Starting

LEMMA Known == ASSUME IInv, NEW p \in Port, port[p].at # "idle" \/ port[p].gw PROVE p \in known
  BY DEF IInv, Owned

LEMMA BeginStopSound ==
  ASSUME NEW r \in Ports, Sound(r), r.at = "idle"
  PROVE  /\ BeginStop(r) \in Ports /\ Sound(BeginStop(r))
         /\ BeginStop(r).raw = r.raw /\ BeginStop(r).rx = r.rx
         /\ Live(r) => Live(BeginStop(r))
<1>1. CASE r.stop = "done"
  BY <1>1 DEF BeginStop
<1>2. CASE r.stop # "done" /\ r.gw
  <2>1. BeginStop(r) = [r EXCEPT !.at = "drain", !.gw = FALSE, !.listen = FALSE, !.stopping = TRUE]
    BY <1>2 DEF BeginStop
  <2>2. QED
    BY <1>2, <2>1 DEF Sound, Live, Ports
<1>3. CASE r.stop # "done" /\ ~r.gw
  <2>1. BeginStop(r) = [r EXCEPT !.at = "close", !.gw = FALSE, !.listen = FALSE, !.stopping = TRUE]
    BY <1>3 DEF BeginStop
  <2>2. QED
    BY <1>3, <2>1 DEF Sound, Live, Ports
<1>4. QED
  BY <1>1, <1>2, <1>3

-----------------------------------------------------------------------------
(* Start and stop of one port. *)

\* The port goes on, and neither its clients nor its threads notice.
LEMMA Quiet ==
  ASSUME IInv, GatewayAssumption, NEW p \in Port, port[p].at # "idle", NEW r \in Ports,
         port' = [port EXCEPT ![p] = r], UNCHANGED <<conn, ops, known, todo, daemon>>,
         Sound(r), r.raw = port[p].raw, r.rx = port[p].rx,
         port[p].at = "drain" => \A c \in Client : To[c] = p => conn[c] = "none"
  PROVE  IInv'
<1>1. Alone' /\ p \in known
  BY AloneKept, Known
<1>2. p \in ops => r.rx = "poll"
  BY DEF IInv, Awaited
<1>3. ~port[p].gw
  BY DEF IInv, PortsSound, Sound
<1>4. QED
  BY <1>1, <1>2, <1>3, PortStep DEF Live

LEMMA StartupInv == ASSUME IInv, GatewayAssumption, NEW p \in Port, Startup(p) PROVE IInv'
<1> DEFINE r == port'[p]
<1>1. /\ port[p].at \in {"acquire", "open", "bind"} /\ UNCHANGED <<conn, ops, known, todo, daemon>>
      /\ port[p] \in Ports /\ Sound(port[p])
  BY DEF Startup, Acquire, Open, Bind, lifecycle, clients, IInv, Types, PortsSound
<1>2. port' = [port EXCEPT ![p] = r] /\ r \in Ports /\ r.raw = port[p].raw /\ Sound(r)
  <2>1. CASE Acquire(p)
    <3>1. port[p].at = "acquire" /\ port \in [Port -> Ports] /\ ~port[p].uart /\ ~port[p].gw
      BY <1>1, <2>1 DEF Acquire, Sound, IInv, Types
    <3>2. CASE port' = [port EXCEPT ![p].lease = TRUE, ![p].at = IF "int" \in signal THEN "close" ELSE "open"]
      BY <1>1, <3>1, <3>2 DEF Sound, Ports
    <3>3. CASE Moves(p, IF "int" \in signal THEN "release" ELSE "idle")
      BY <1>1, <3>1, <3>3 DEF Moves, Sound, Ports
    <3>4. QED
      BY <2>1, <3>2, <3>3 DEF Acquire
  <2>2. CASE Open(p)
    <3>1. port[p].at = "open" /\ port \in [Port -> Ports] /\ ~port[p].gw
      BY <1>1, <2>2 DEF Open, Sound, IInv, Types
    <3>2. CASE port' = [port EXCEPT ![p].uart = TRUE, ![p].at = IF "int" \in signal THEN "close" ELSE "bind"]
      BY <1>1, <3>1, <3>2 DEF Sound, Ports
    <3>3. CASE Moves(p, "close")
      BY <1>1, <3>1, <3>3 DEF Moves, Sound, Ports
    <3>4. QED
      BY <2>2, <3>2, <3>3 DEF Open
  <2>3. CASE Bind(p)
    <3>1. port[p].at = "bind" /\ port \in [Port -> Ports] /\ ~port[p].gw
      BY <1>1, <2>3 DEF Bind, Sound, IInv, Types
    <3>2. CASE port' = [port EXCEPT ![p].gw = TRUE, ![p].listen = TRUE, ![p].at = "idle",
                                  ![p].rx = IF port[p].raw THEN "rest" ELSE "none"]
      BY <1>1, <3>1, <3>2 DEF Sound, Ports
    <3>3. CASE Moves(p, "close")
      BY <1>1, <3>1, <3>3 DEF Moves, Sound, Ports
    <3>4. QED
      BY <2>3, <3>2, <3>3 DEF Bind
  <2>4. QED
    BY <2>1, <2>2, <2>3 DEF Startup
<1>3. /\ p \in known /\ ~Live(port[p])
  BY <1>1, Known DEF Sound, Live
<1>4. p \notin ops
  BY <1>1, <1>3 DEF IInv, Awaited, Sound, Live
<1>5. Alone'
  BY <1>1, <1>2, AloneKept
<1>6. QED
  BY <1>1, <1>2, <1>3, <1>4, <1>5, PortStep

LEMMA StartPortInv == ASSUME IInv, GatewayAssumption, NEW p \in Port, StartPort(p) PROVE IInv'
<1>1. PICK m \in BOOLEAN : port' = [port EXCEPT ![p] = [Fresh EXCEPT !.at = "acquire", !.raw = m]]
  BY DEF StartPort
<1> DEFINE r == [Fresh EXCEPT !.at = "acquire", !.raw = m]
<1>2. r \in Ports /\ Sound(r) /\ ~Live(r) /\ r.at = "acquire"
  BY DEF Fresh, Ports, Sound, Live
<1>3. /\ Starting /\ Idle /\ p \notin known /\ p \in todo /\ daemon' = daemon /\ daemon # "off"
      /\ UNCHANGED <<conn, ops>> /\ todo' = todo \ {p} /\ known' = known \cup {p}
  BY DEF StartPort, Starting, clients, IInv, Owned
<1>4. port'[p] = r /\ \A q \in Port \ {p} : port'[q] = port[q]
  BY <1>1 DEF IInv, Types
<1>5. ~Live(port[p])
  BY <1>3 DEF IInv, Owned, Live
<1>6. /\ \A c \in Client : To[c] = p => conn[c] = "none"
      /\ p \notin ops
  BY <1>5 DEF IInv, Connected, Awaited, PortsSound, Sound, Live
<1>7. Types' /\ PortsSound'
  BY <1>1, <1>2, <1>3, <1>4 DEF IInv, Types, PortsSound
<1>8. Connected' /\ Awaited'
  BY <1>3, <1>4, <1>6 DEF IInv, Connected, Awaited, GatewayAssumption
<1>9. LockHeld'
  BY <1>3, <1>4, <1>6 DEF IInv, LockHeld, Raw, GatewayAssumption
<1>10. Owned'
  BY <1>3, <1>4 DEF IInv, Owned
<1>11. Alone'
  BY <1>3, <1>4 DEF Alone, Idle, Starting
<1>12. QED
  BY <1>7, <1>8, <1>9, <1>10, <1>11 DEF IInv

\* _stop_ports over the ports S, all of them between two awaits.
LEMMA StopInv ==
  ASSUME IInv, GatewayAssumption, NEW f \in [Port -> Ports],
         \A q \in Port : /\ Sound(f[q]) /\ f[q].at = "idle"
                         /\ f[q].raw = port[q].raw /\ f[q].rx = port[q].rx
                         /\ Live(port[q]) => Live(f[q])
                         /\ q \notin known => ~f[q].gw /\ ~f[q].lease,
         port' = [q \in Port |-> IF q \in known THEN BeginStop(f[q]) ELSE f[q]],
         UNCHANGED <<conn, ops, known, todo>>, daemon' \in {"stopping", "final"}
  PROVE  IInv'
<1>1. \A q \in Port : /\ BeginStop(f[q]) \in Ports /\ Sound(BeginStop(f[q]))
                      /\ BeginStop(f[q]).raw = f[q].raw /\ BeginStop(f[q]).rx = f[q].rx
                      /\ Live(f[q]) => Live(BeginStop(f[q]))
  BY BeginStopSound
<1>2. \A q \in Port : port'[q] = IF q \in known THEN BeginStop(f[q]) ELSE f[q]
  OBVIOUS
<1>3. port' \in [Port -> Ports]
  BY <1>1
<1>4. \A q \in Port : q \in ops => port[q].rx = "poll"
  BY DEF IInv, Awaited
<1>5. ASSUME NEW q \in Port
      PROVE  /\ Sound(port'[q]) /\ port'[q].raw = port[q].raw
             /\ q \in ops => port'[q].rx = "poll"
             /\ Live(port[q]) /\ ~Live(port'[q]) => \A c \in Client : To[c] = q => conn[c] = "none"
             /\ q \notin known => ~port'[q].gw /\ port'[q].at = "idle" /\ ~port'[q].lease
  <2>1. CASE q \in known
    BY <1>1, <1>2, <1>4, <2>1
  <2>2. CASE q \notin known
    BY <1>1, <1>2, <1>4, <2>2
  <2>3. QED
    BY <2>1, <2>2
<1>6. Alone'
  BY DEF Alone, Starting
<1>7. QED
  BY <1>3, <1>5, <1>6, PortsStep

LEMMA StopPortsInv ==
  ASSUME IInv, GatewayAssumption, Idle, StopPorts, UNCHANGED <<ops, known, todo>>,
         daemon' \in {"stopping", "final"}
  PROVE  IInv'
<1>1. port \in [Port -> Ports] /\ UNCHANGED conn
  BY DEF IInv, Types, StopPorts
<1>2. \A q \in Port : Sound(port[q]) /\ port[q].at = "idle" /\ (q \notin known => ~port[q].gw /\ ~port[q].lease)
  BY DEF IInv, PortsSound, Idle, Owned
<1>3. QED
  BY <1>1, <1>2, StopInv DEF StopPorts

-----------------------------------------------------------------------------
(* Drain, close and release. *)

LEMMA DrainedInv == ASSUME IInv, GatewayAssumption, NEW p \in Port, Drained(p) PROVE IInv'
<1> DEFINE r == [port[p] EXCEPT !.at = "close"]
<1>1. /\ port[p].at = "drain" /\ port[p].rx = "none" /\ port[p] \in Ports /\ Sound(port[p])
      /\ port' = [port EXCEPT ![p] = r] /\ UNCHANGED <<conn, ops, known, todo, daemon>>
      /\ \A c \in Client : To[c] = p => conn[c] = "none"
  BY DEF Drained, Moves, lifecycle, clients, IInv, Types, PortsSound
<1>2. r \in Ports /\ Sound(r) /\ r.raw = port[p].raw /\ r.rx = port[p].rx
  BY <1>1 DEF Sound, Ports
<1>3. QED
  BY <1>1, <1>2, Quiet

\* How a start or a stop of the port ends; r is what it leaves.
LEMMA EndsInv ==
  ASSUME IInv, GatewayAssumption, NEW p \in Port, port[p].at \in {"close", "release"},
         NEW r \in Ports, NEW ok \in BOOLEAN, Ends(p, r, ok), UNCHANGED <<ops, known, todo>>,
         Sound([r EXCEPT !.at = "idle"]), ~r.gw, ok => ~r.lease, r.rx = port[p].rx, r.raw = port[p].raw
  PROVE  IInv'
<1> DEFINE e == [r EXCEPT !.at = "idle"]
<1>1. /\ e \in Ports /\ Sound(e) /\ ~e.gw /\ e.at = "idle" /\ e.rx = port[p].rx /\ e.raw = port[p].raw
      /\ e.rx = "none" /\ e.lease = r.lease
  BY DEF Ports, Sound
<1>2. ~Live(port[p]) /\ p \in known /\ p \notin ops /\ port \in [Port -> Ports]
  BY <1>1, Known DEF IInv, Types, PortsSound, Sound, Awaited, Live
<1>3. CASE Starting /\ port' = [port EXCEPT ![p] = e] /\ UNCHANGED <<daemon, clients>>
  <2>1. Alone'
    BY <1>1, <1>3, AloneKept
  <2>2. QED
    BY <1>1, <1>2, <1>3, <2>1, PortStep DEF clients, Starting
<1>4. CASE daemon = "reload" /\ daemon' = "loop" /\ port' = [port EXCEPT ![p] = e] /\ UNCHANGED clients
  <2>1. \A q \in Port : port'[q].at = "idle"
    BY <1>1, <1>2, <1>4 DEF IInv, Alone, Starting
  <2>2. Alone'
    BY <1>4, <2>1 DEF Alone, Starting, Idle
  <2>3. QED
    BY <1>1, <1>2, <1>4, <2>2, PortStep DEF clients
<1>5. CASE /\ daemon = "boot" /\ daemon' = "final" /\ UNCHANGED conn
           /\ port' = [q \in Port |-> IF q = p THEN BeginStop(e)
                                      ELSE IF q \in known THEN BeginStop(port[q]) ELSE port[q]]
  <2> DEFINE f == [port EXCEPT ![p] = e]
  <2>1. f \in [Port -> Ports] /\ f[p] = e /\ \A q \in Port \ {p} : f[q] = port[q]
    BY <1>1, <1>2
  <2>2. port' = [q \in Port |-> IF q \in known THEN BeginStop(f[q]) ELSE f[q]]
    BY <1>2, <1>5, <2>1
  <2>3. \A q \in Port \ {p} : port[q].at = "idle" /\ Sound(port[q]) /\ (q \notin known => ~port[q].gw /\ ~port[q].lease)
    BY <1>5 DEF IInv, Alone, Starting, PortsSound, Owned
  <2>4. ASSUME NEW q \in Port
        PROVE  /\ Sound(f[q]) /\ f[q].at = "idle"
               /\ f[q].raw = port[q].raw /\ f[q].rx = port[q].rx
               /\ Live(port[q]) => Live(f[q])
               /\ q \notin known => ~f[q].gw /\ ~f[q].lease
    <3>1. CASE q = p
      BY <1>1, <1>2, <2>1, <3>1
    <3>2. CASE q # p
      BY <2>1, <2>3, <3>2
    <3>3. QED
      BY <3>1, <3>2
  <2> HIDE DEF f
  <2>5. QED
    BY <1>5, <2>1, <2>2, <2>4, StopInv
<1>6. CASE /\ daemon \in {"stopping", "final"} /\ UNCHANGED <<daemon, clients>>
           /\ port' = [port EXCEPT ![p] = [r EXCEPT !.at = "idle", !.stop = IF ok THEN "done" ELSE "failed"]]
  <2> DEFINE g == [r EXCEPT !.at = "idle", !.stop = IF ok THEN "done" ELSE "failed"]
  <2>1. g \in Ports /\ Sound(g) /\ g.rx = port[p].rx /\ g.raw = port[p].raw
    BY <1>1 DEF Ports, Sound
  <2>2. Alone'
    BY <1>6, <2>1, AloneKept
  <2>3. QED
    BY <1>2, <1>6, <2>1, <2>2, PortStep DEF clients
<1>7. QED
  BY <1>3, <1>4, <1>5, <1>6 DEF Ends

LEMMA CloseInv == ASSUME IInv, GatewayAssumption, NEW p \in Port, Close(p) PROVE IInv'
<1>1. /\ port[p].at = "close" /\ port[p] \in Ports /\ Sound(port[p]) /\ ~port[p].gw
      /\ UNCHANGED <<ops, known, todo>>
  BY DEF Close, IInv, Types, PortsSound, Sound
<1>2. CASE port' = [port EXCEPT ![p].uart = FALSE, ![p].at = "release"] /\ UNCHANGED <<daemon, clients, faults>>
  <2> DEFINE r == [port[p] EXCEPT !.uart = FALSE, !.at = "release"]
  <2>1. r \in Ports /\ Sound(r) /\ r.raw = port[p].raw /\ r.rx = port[p].rx
    BY <1>1 DEF Ports, Sound
  <2>2. port' = [port EXCEPT ![p] = r]
    BY <1>2 DEF IInv, Types
  <2>3. QED
    BY <1>1, <1>2, <2>1, <2>2, Quiet DEF clients
<1>3. CASE Ends(p, port[p], FALSE)
  <2>1. Sound([port[p] EXCEPT !.at = "idle"])
    BY <1>1 DEF Ports, Sound
  <2>2. QED
    BY <1>1, <1>3, <2>1, EndsInv
<1>4. QED
  BY <1>2, <1>3 DEF Close

LEMMA ReleaseInv == ASSUME IInv, GatewayAssumption, NEW p \in Port, Release(p) PROVE IInv'
<1> DEFINE r == [port[p] EXCEPT !.lease = FALSE]
<1>1. /\ port[p].at = "release" /\ port[p] \in Ports /\ Sound(port[p]) /\ ~port[p].gw
      /\ UNCHANGED <<ops, known, todo>>
  BY DEF Release, IInv, Types, PortsSound, Sound
<1>2. r \in Ports /\ Sound([r EXCEPT !.at = "idle"]) /\ ~r.gw /\ ~r.lease /\ r.rx = port[p].rx /\ r.raw = port[p].raw
  BY <1>1 DEF Ports, Sound
<1>3. Ends(p, r, TRUE) \/ Ends(p, r, FALSE)
  BY DEF Release
<1> HIDE DEF r
<1>4. QED
  BY <1>1, <1>2, <1>3, EndsInv

-----------------------------------------------------------------------------
(* The daemon. *)

\* Steps that leave ports, connections and threads alone.
LEMMA Still ==
  ASSUME IInv, UNCHANGED <<port, conn, ops>>,
         todo' \subseteq Port, known' \subseteq known, todo' \cap known' = {},
         known' = known \/ \A p \in Port : ~port[p].gw /\ port[p].at = "idle" /\ ~port[p].lease,
         daemon' = "off" => known' = {}, Alone'
  PROVE  IInv'
<1>1. Types' /\ PortsSound' /\ Connected' /\ Awaited' /\ LockHeld'
  BY DEF IInv, Types, PortsSound, Connected, Awaited, LockHeld, Raw
<1>2. Owned'
  BY DEF IInv, Owned
<1>3. QED
  BY <1>1, <1>2 DEF IInv

LEMMA SameDaemon ==
  ASSUME IInv, UNCHANGED <<port, conn, ops, todo, known, daemon>>
  PROVE  IInv'
<1>1. Alone'
  BY DEF IInv, Alone, Idle, Starting
<1>2. todo' \subseteq Port /\ todo' \cap known' = {} /\ (daemon' = "off" => known' = {})
  BY DEF IInv, Types, Owned
<1>3. QED
  BY <1>1, <1>2, Still

LEMMA BootInv == ASSUME IInv, Boot PROVE IInv'
<1>1. /\ known = {} /\ Idle /\ daemon' = "boot" /\ todo' \subseteq Port
      /\ UNCHANGED <<port, conn, ops, known>>
  BY DEF Boot, IInv, Owned, Alone, clients
<1>2. Alone'
  BY <1>1 DEF Alone, Idle, Starting
<1>3. QED
  BY <1>1, <1>2, Still

LEMMA ReadyInv == ASSUME IInv, Ready PROVE IInv'
<1>1. Idle /\ daemon' = "loop" /\ UNCHANGED <<port, conn, ops, known, todo>>
  BY DEF Ready, clients
<1>2. Alone'
  BY <1>1 DEF Alone, Idle, Starting
<1>3. todo' \subseteq Port /\ todo' \cap known' = {}
  BY <1>1 DEF IInv, Types, Owned
<1>4. QED
  BY <1>1, <1>2, <1>3, Still

LEMMA ReloadedInv == ASSUME IInv, GatewayAssumption, Reloaded PROVE IInv'
<1>1. CASE /\ \A p \in known : port[p].stop = "done"
           /\ known' = {} /\ UNCHANGED <<port, clients, ops>>
           /\ daemon' \in {"reload", "loop"} /\ todo' \subseteq Port
  <2>1. Idle /\ \A p \in Port : ~port[p].gw /\ port[p].at = "idle" /\ ~port[p].lease
    BY <1>1 DEF Reloaded, Idle, IInv, Owned, PortsSound, Sound
  <2>2. Alone'
    BY <1>1, <2>1 DEF Alone, Idle, Starting
  <2>3. QED
    BY <1>1, <2>1, <2>2, Still DEF clients
<1>2. CASE daemon' = "final" /\ StopPorts /\ UNCHANGED <<todo, known, ops>>
  <2>1. Idle
    BY DEF Reloaded
  <2>2. QED
    BY <1>2, <2>1, StopPortsInv
<1>3. UNCHANGED ops /\ todo \subseteq Port
  BY DEF Reloaded, IInv, Types
<1>4. QED
  BY <1>1, <1>2, <1>3 DEF Reloaded

LEMMA StopsInv == ASSUME IInv, GatewayAssumption, Reload \/ Stop PROVE IInv'
<1>1. Idle /\ StopPorts /\ UNCHANGED <<todo, known, ops>> /\ daemon' \in {"stopping", "final"}
  BY DEF Reload, Stop, IInv, Alone
<1>2. QED
  BY <1>1, StopPortsInv

LEMMA ExitsInv == ASSUME Exits PROVE IInv'
<1>1. Empty'
  BY DEF Exits, Empty
<1>2. Empty' => IInv'
  BY EmptyInv, PTL
<1>3. QED
  BY <1>1, <1>2

-----------------------------------------------------------------------------
(* Clients, threads and readers. *)

LEMMA ConnStep ==
  ASSUME IInv, GatewayAssumption, NEW c \in Client, NEW s, conn' = [conn EXCEPT ![c] = s],
         UNCHANGED <<port, daemon, known, todo>>, ops' \in {ops, ops \cup {c}},
         s # "none" => Live(port[To[c]]), c \in ops' => s = "xchg",
         s = "xchg" => Raw(c) \/ \A d \in Client : To[d] = To[c] => conn[d] # "xchg"
  PROVE  IInv'
<1>1. conn'[c] = s /\ (\A d \in Client \ {c} : conn'[d] = conn[d]) /\ conn' = [d \in Client |-> conn'[d]]
  BY DEF IInv, Types
<1>2. Types' /\ PortsSound'
  BY <1>1 DEF IInv, Types, PortsSound
<1>3. Connected'
  BY <1>1 DEF IInv, Connected
<1>4. Awaited'
  BY <1>1 DEF IInv, Awaited, GatewayAssumption
<1>5. LockHeld'
  BY <1>1 DEF IInv, LockHeld, Raw
<1>6. Owned' /\ Alone'
  BY DEF IInv, Owned, Alone, Idle, Starting
<1>7. QED
  BY <1>2, <1>3, <1>4, <1>5, <1>6 DEF IInv

LEMMA HandlesInv ==
  ASSUME IInv, GatewayAssumption, NEW c \in Client,
         Connect(c) \/ Request(c) \/ Leaves(c) \/ Handles(c)
  PROVE  IInv'
<1> USE DEF Steps, lifecycle
<1>1. conn[c] # "none" => Live(port[To[c]])
  BY DEF IInv, Connected
<1>2. c \in ops => conn[c] = "xchg"
  BY DEF IInv, Awaited
<1>3. CASE Connect(c)
  <2>1. port[To[c]].listen /\ conn[c] = "none"
    BY <1>3 DEF Connect
  <2>2. Live(port[To[c]])
    BY <2>1, GatewayAssumption DEF IInv, PortsSound, Sound, Live
  <2>3. QED
    BY <1>2, <1>3, <2>1, <2>2, ConnStep DEF Connect
<1>4. CASE Request(c) /\ ~Raw(c)
  BY <1>1, <1>2, <1>4, ConnStep DEF Request
<1>5. CASE Request(c) /\ Raw(c)
  BY <1>1, <1>5, ConnStep DEF Request
<1>6. CASE TakeLock(c)
  BY <1>1, <1>6, ConnStep DEF TakeLock, LockFree
<1>7. CASE Leaves(c)
  BY <1>1, <1>2, <1>7, ConnStep DEF Leaves, Out
<1>8. CASE Return(c)
  BY <1>1, <1>8, ConnStep DEF Return, AwaitOver, Out
<1>9. CASE Accept(c) \/ Join(c) \/ Replied(c)
  BY <1>1, <1>2, <1>9, ConnStep DEF Accept, Join, Replied
<1>10. CASE Leave(c) \/ End(c) \/ ConnectionLost(c)
  BY <1>1, <1>2, <1>10, ConnStep DEF Leave, End, ConnectionLost, Gone
<1>11. CASE CancelledAt(c)
  BY <1>1, <1>2, <1>11, ConnStep DEF CancelledAt, Gone, Out
<1>12. QED
  BY <1>3, <1>4, <1>5, <1>6, <1>7, <1>8, <1>9, <1>10, <1>11 DEF Handles

LEMMA ThreadEndsInv == ASSUME IInv, NEW x \in Client \cup Port, ThreadEnds(x) PROVE IInv'
<1>1. ops' = ops \ {x} /\ UNCHANGED <<port, conn, todo, known, daemon>>
  BY DEF ThreadEnds, lifecycle, clients
<1>2. Types' /\ PortsSound' /\ Connected' /\ Awaited' /\ LockHeld'
  BY <1>1 DEF IInv, Types, PortsSound, Connected, Awaited, LockHeld, Raw
<1>3. Owned' /\ Alone'
  BY <1>1 DEF IInv, Owned, Alone, Idle, Starting
<1>4. QED
  BY <1>2, <1>3 DEF IInv

\* A step of the reader of p, which changes its rx.
LEMMA ReaderStep ==
  ASSUME IInv, GatewayAssumption, NEW p \in Port, NEW x \in {"none", "rest", "poll", "fan"},
         port' = [port EXCEPT ![p].rx = x], port[p].rx # "none",
         ops' \in {ops, ops \cup {p}}, p \in ops' => x = "poll",
         UNCHANGED <<conn, daemon, known, todo>>
  PROVE  IInv'
<1> DEFINE r == [port[p] EXCEPT !.rx = x]
<1>1. port[p] \in Ports /\ Sound(port[p]) /\ Live(port[p])
  BY DEF IInv, Types, PortsSound, Sound, Live
<1>2. r \in Ports /\ Sound(r) /\ Live(r) /\ r.raw = port[p].raw /\ r.gw = port[p].gw /\ r.at = port[p].at /\ r.rx = x
  BY <1>1 DEF Ports, Sound, Live
<1>3. port'[p] = r /\ (\A q \in Port \ {p} : port'[q] = port[q]) /\ port' \in [Port -> Ports]
  BY <1>2 DEF IInv, Types
<1> HIDE DEF r
<1>4. Types' /\ PortsSound'
  BY <1>2, <1>3 DEF IInv, Types, PortsSound
<1>5. Connected' /\ LockHeld'
  BY <1>2, <1>3 DEF IInv, Connected, LockHeld, Raw, GatewayAssumption
<1>6. Awaited'
  BY <1>2, <1>3 DEF IInv, Awaited, GatewayAssumption
<1>7. Owned' /\ Alone'
  BY <1>2, <1>3 DEF IInv, Owned, Alone, Idle, Starting
<1>8. QED
  BY <1>4, <1>5, <1>6, <1>7 DEF IInv

LEMMA ReaderInv == ASSUME IInv, GatewayAssumption, NEW p \in Port, Reader(p) PROVE IInv'
<1>1. p \in ops => port[p].rx = "poll"
  BY DEF IInv, Awaited
<1>2. CASE Poll(p)
  BY <1>2, ReaderStep DEF Poll, lifecycle, clients
<1>3. CASE Polled(p)
  BY <1>3, ReaderStep DEF Polled, lifecycle
<1>4. CASE Sent(p)
  BY <1>1, <1>4, ReaderStep DEF Sent, lifecycle, clients
<1>5. CASE ReaderEnds(p)
  BY <1>5, ReaderStep DEF ReaderEnds, AwaitOver, lifecycle, clients
<1>6. QED
  BY <1>2, <1>3, <1>4, <1>5 DEF Reader

-----------------------------------------------------------------------------
LEMMA NextInv == ASSUME IInv, [Next]_vars PROVE IInv'
<1> USE GatewayAssumption
<1>1. CASE UNCHANGED vars
  BY <1>1, SameDaemon DEF vars, lifecycle, clients
<1>2. CASE Boot \/ Ready \/ Reload \/ Reloaded \/ Stop
  BY <1>2, BootInv, ReadyInv, ReloadedInv, StopsInv
<1>3. CASE Exit \/ Killed
  BY <1>3, ExitsInv DEF Exit, Killed
<1>4. ASSUME NEW s \in {"hup", "term", "int"}, Signal(s) PROVE IInv'
  BY <1>4, SameDaemon DEF Signal, clients
<1>5. ASSUME NEW p \in Port, StartPort(p) \/ Startup(p) \/ Reader(p) PROVE IInv'
  BY <1>5, StartPortInv, StartupInv, ReaderInv
<1>6. ASSUME NEW p \in Port, Teardown(p) PROVE IInv'
  BY <1>6, DrainedInv, CloseInv, ReleaseInv DEF Teardown
<1>7. ASSUME NEW c \in Client, Connect(c) \/ Request(c) \/ Leaves(c) \/ Handles(c) PROVE IInv'
  BY <1>7, HandlesInv
<1>8. ASSUME NEW c \in Client, Timeout(c) \/ Reads(c) PROVE IInv'
  BY <1>8, SameDaemon DEF Timeout, Reads, lifecycle
<1>9. ASSUME NEW x \in Client \cup Port, ThreadEnds(x) PROVE IInv'
  BY <1>9, ThreadEndsInv
<1>10. QED
  BY <1>1, <1>2, <1>3, <1>4, <1>5, <1>6, <1>7, <1>8, <1>9 DEF Next, Daemon

\* The properties follow from the invariant.
LEMMA InvSafe == IInv => UartCovered /\ OneExchange /\ PublishedTrue /\ NothingLeaked
<1> SUFFICES ASSUME IInv PROVE UartCovered /\ OneExchange /\ PublishedTrue /\ NothingLeaked
  OBVIOUS
<1> USE GatewayAssumption DEF IInv
<1>1. ASSUME NEW x \in ops PROVE port[At(x)].uart
  <2>1. CASE x \in Port
    BY <1>1, <2>1 DEF At, Awaited, PortsSound, Sound
  <2>2. CASE x \notin Port
    <3>1. x \in Client /\ conn[x] = "xchg"
      BY <1>1, <2>2 DEF Types, Awaited
    <3>2. To[x] \in Port /\ Live(port[To[x]])
      BY <3>1 DEF Connected
    <3>3. QED
      BY <2>2, <3>2 DEF At, PortsSound, Sound, Live
  <2>3. QED
    BY <2>1, <2>2
<1>2. UartCovered
  BY <1>1 DEF UartCovered, PortsSound, Sound
<1>3. OneExchange
  BY DEF OneExchange, Awaited, LockHeld
<1>4. PublishedTrue
  BY DEF PublishedTrue, PortsSound, Sound
<1>5. NothingLeaked
  BY DEF NothingLeaked, Owned, PortsSound, Sound
<1>6. QED
  BY <1>2, <1>3, <1>4, <1>5

THEOREM Always == Spec => []IInv
  BY InitInv, NextInv, PTL DEF Spec

\* No thread at a UART outlives its descriptor or the coordinator's lease.
THEOREM UartIsCovered == Spec => []UartCovered
  BY Always, InvSafe, PTL

\* modbus_tcp and rtu_over_tcp have one exchange at a time.
THEOREM OneAtATime == Spec => []OneExchange
  BY Always, InvSafe, PTL

\* A port published as running has its lease, UART and listener.
THEOREM PublishedIsTrue == Spec => []PublishedTrue
  BY Always, InvSafe, PTL

\* A port the daemon has dropped, or not started yet, holds no lease and no UART.
THEOREM LeasesReturned == Spec => []NothingLeaked
  BY Always, InvSafe, PTL
=============================================================================
