---------------------------- MODULE MCRulesEngine ----------------------------
(* RulesEngine for TLC: two scenarios and the rows the store may hold.       *)
EXTENDS RulesEngine

CONSTANTS s1, s2, l1

On == [do |-> "on", load |-> l1]
Delay == [do |-> "delay"]
Away == [do |-> "mode", mode |-> "away"]
Bogus == [do |-> "mode", mode |-> "unknown"]
Call(s) == [do |-> "call", sid |-> s]
Block == [scene |-> FALSE, enabled |-> TRUE, bad |-> FALSE, trig |-> {"every", "state"},
          action |-> <<On, Delay>>, end |-> TRUE]

\* A periodic light with a delay, also disabled and mis-typed; one that leaves
\* home and is triggered by leaving; one that calls the other; a scene.
Rows == {Block, [Block EXCEPT !.enabled = FALSE], [Block EXCEPT !.bad = TRUE],
         [Block EXCEPT !.trig = {"clock", "leave", "boot"}, !.action = <<On, Away, On>>],
         [Block EXCEPT !.trig = {"state"}, !.action = <<Bogus, Call(s1), Delay>>],
         [Block EXCEPT !.scene = TRUE, !.trig = {}, !.action = <<On>>]}

\* Those that leave the home mode alone.
HomeRows == {r \in Rows : \A i \in DOMAIN r.action : r.action[i].do # "mode"}
=============================================================================
