---------------------------- MODULE MCPortBroker ----------------------------
(* Small boards for PortBroker.                                            *)
EXTENDS PortBroker, TLC

CONSTANTS s1, s2, s3, p1, p2, p3, d1, d2, u1, q1

\* Two ports that share one PLC runtime, and a second name of the first device
\* that has no scope; one operation on each name, and one polled handle.
KeyAlias == (p1 :> d1) @@ (p2 :> d2) @@ (p3 :> d1)
ScopeAlias == (p1 :> {u1}) @@ (p2 :> {u1}) @@ (p3 :> {})
TargetAlias == (s1 :> p1) @@ (s2 :> p2) @@ (s3 :> p3)
LineAlias == q1 :> p3

\* The same without the alias.
KeyTwo == (p1 :> d1) @@ (p2 :> d2)
ScopeTwo == (p1 :> {u1}) @@ (p2 :> {u1})
TargetTwo == (s1 :> p1) @@ (s2 :> p2)
TargetThree == (s1 :> p1) @@ (s2 :> p2) @@ (s3 :> p1)
LineOne == q1 :> p1
=============================================================================
