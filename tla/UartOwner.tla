------------------------------ MODULE UartOwner ------------------------------
(***************************************************************************)
(* What the port coordinator promises of a UART, with neither broker,      *)
(* journal nor lock in sight: an operation is granted its UART only when   *)
(* nobody has it open, opens it only while it is the holder, perhaps with  *)
(* the grant itself, and bridge handles open it only while there is none.  *)
(* Nobody is made to wait: grants and openings may be refused, and a       *)
(* holder may be gone at any time and leave behind a tool that still has   *)
(* the UART open.                                                          *)
(***************************************************************************)
CONSTANTS
  Operation, Uart,   \* the operations, and the UART each of them is about
  Handle, Wire       \* the handles of the bridge, and the UART of each

VARIABLES
  holders,  \* the operations that are granted their UART
  tools,    \* the operations on whose behalf it is open
  polls     \* the bridge handles that have it open

Held(u) == \E o \in holders : Uart[o] = u
Open(u) == (\E o \in tools : Uart[o] = u) \/ (\E h \in polls : Wire[h] = u)

Init == holders = {} /\ tools = {} /\ polls = {}

Grant(o) ==
  /\ ~Held(Uart[o]) /\ ~Open(Uart[o])
  /\ holders' = holders \cup {o} /\ tools' \in {tools, tools \cup {o}} /\ UNCHANGED polls

Begin(o) ==
  /\ o \in holders /\ \A t \in tools : Uart[t] # Uart[o]
  /\ tools' = tools \cup {o} /\ UNCHANGED <<holders, polls>>

Poll(h) ==
  /\ ~Held(Wire[h])
  /\ polls' = polls \cup {h} /\ UNCHANGED <<holders, tools>>

\* Some close the UART, and some holders are gone.
Leave == holders' \subseteq holders /\ tools' \subseteq tools /\ polls' \subseteq polls

Next == Leave \/ (\E o \in Operation : Grant(o) \/ Begin(o)) \/ \E h \in Handle : Poll(h)

Spec == Init /\ [][Next]_<<holders, tools, polls>>

------------------------------------------------------------------------------
\* A holder has its UART to itself: no other operation holds it or has it open,
\* and no handle of the bridge does.
Exclusive ==
  \A o \in holders :
    /\ \A a \in holders \cup tools : Uart[a] = Uart[o] => a = o
    /\ \A h \in polls : Wire[h] # Uart[o]
=============================================================================
