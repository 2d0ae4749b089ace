----------------------------- MODULE RulesEngine -----------------------------
(***************************************************************************)
(* The scenario engine of sa02m-rules: one thread that fires timers, takes *)
(* MQTT messages and runs scenarios, and a document of scenarios that the  *)
(* cloud channel and the CGI rewrite through store.apply_command while the *)
(* engine runs on its own copy and saves that copy when the home mode      *)
(* changes.  A run waits in the heap as a continuation, and leaves there   *)
(* the end timer that turns off again what it turned on.                   *)
(***************************************************************************)
EXTENDS Integers, Sequences, FiniteSets

CONSTANTS
  Scenario, Load,
  Row,       \* the rows the store may hold for a scenario, see RowType
  None,
  MaxEdit,   \* bound: saves of the document by apply_command
  MaxDeath   \* bound: deaths and restarts of the engine

HomeMode == {"home", "away"}         \* night and holiday behave as these two do
Event == {"boot", "state", "clock", "leave", "arrive"}  \* a button is as a state
Act == [do : {"on"}, load : Load] \cup [do : {"delay"}]
       \cup [do : {"mode"}, mode : HomeMode \cup {"unknown"}] \cup [do : {"call"}, sid : Scenario]

\* bad: arming the row raises, as an `every` without a number does; trig: its
\* triggers; end: it has an end event of mode "off".
RowType == [scene : BOOLEAN, enabled : BOOLEAN, bad : BOOLEAN, trig : SUBSET (Event \cup {"every"}),
            action : Seq(Act), end : BOOLEAN]

ASSUME RulesAssumption ==
  /\ Row \subseteq RowType /\ None \notin Row /\ {MaxEdit, MaxDeath} \subseteq Nat

VARIABLES
  disk,    \* scenarios.json: the row of each scenario and Vars.home_mode
  seen,    \* its mtime is the one the engine stamped
  doc,     \* Engine.doc
  adopted, \* the home mode in _fingerprint; its rows are those of doc
  up,      \* the service: "down", "stamp" while it starts, "run"
  loop,    \* tick: its messages ("drain"), then its timers
  every,   \* number of live `every` entries of each scenario in the heap
  heap,    \* the live `cont` and `end` entries
  stack,   \* what the thread is in the middle of, the innermost call last
  cloud,   \* apply_command: the document it loaded, None outside
  owes,    \* history: for each scenario with an end, the loads it switched on,
           \* by its latest run, an older one or one that an exception tore
  edits, deaths

engine == <<seen, doc, adopted, up, loop>>
store == <<disk, cloud, edits>>
vars == <<store, engine, every, heap, stack, owes, deaths>>

Doc == [row : [Scenario -> Row \cup {None}], mode : HomeMode]

\* A run: what is left of its actions, those of called scenarios included; what
\* it turned on; whom it ran; whether its root row has an end.
Run == [sid : Scenario, todo : Seq(Act), on : SUBSET Load, chain : SUBSET Scenario, end : BOOLEAN]
Dispatch == [event : Event, todo : SUBSET Scenario]
Command == [verb : {"on", "off"}, scene : Scenario]
Entry == [kind : {"cont"}, run : Run] \cup [kind : {"end"}, sid : Scenario, on : SUBSET Load]

TypeOK ==
  /\ disk \in Doc /\ doc \in Doc /\ adopted \in HomeMode /\ cloud \in Doc \cup {None}
  /\ seen \in BOOLEAN /\ up \in {"down", "stamp", "run"} /\ loop \in {"drain", "timers"}
  /\ every \in [Scenario -> Nat] /\ heap \subseteq Entry /\ stack \in Seq(Run \cup Dispatch \cup Command)
  /\ owes \in [Scenario -> [Load -> {"no", "old", "latest", "torn"}]]
  /\ edits \in 0 .. MaxEdit /\ deaths \in 0 .. MaxDeath

-----------------------------------------------------------------------------
(* The heap: _schedule, _cancel, _cancel_scenario on its live entries.  An  *)
(* entry of an older generation is skipped when it is popped.               *)

Owner(e) == IF e.kind = "cont" THEN e.run.sid ELSE e.sid   \* _timer_owner
Of(s) == {e \in heap : Owner(e) = s}

\* The loads that the timers of a scenario have, and those its runs under way.
InHeap(s) == UNION ({e.on : e \in {e \in heap : e.kind = "end" /\ e.sid = s}}
                    \cup {e.run.on : e \in {e \in heap : e.kind = "cont" /\ e.run.sid = s}})
InStack(s) == UNION {stack[i].on : i \in {i \in DOMAIN stack : "sid" \in DOMAIN stack[i]
                                                                /\ stack[i].sid = s}}

Inactive(r) == r = None \/ ~r.enabled \/ r.bad
HasEvery(r) == r # None /\ "every" \in r.trig

\* _arm_scenario, and the handler that cancels what a bad row had armed.
Arm(r) == IF ~Inactive(r) /\ HasEvery(r) THEN 1 ELSE 0

\* Mutant: an entry whose key was never cancelled before survives the edit.
RearmKeepsOld(s, r) == every[s] + Arm(r)

\* _cancel_scenario and _arm_scenario of a row that changed.
Rearm(s, r) == Arm(r)

\* _adopt
Changed(d) == {s \in Scenario : d.row[s] # doc.row[s]}
Adopt(d) ==
  /\ doc' = d /\ adopted' = d.mode
  /\ every' = [s \in Scenario |-> IF s \in Changed(d) THEN Rearm(s, d.row[s]) ELSE every[s]]
  /\ heap' = {e \in heap : Owner(e) \notin Changed(d)}
  /\ owes' = [s \in Scenario |-> IF s \in Changed(d) THEN [l \in Load |-> "no"] ELSE owes[s]]

\* RulesApp.reload: nothing unless the mtime moved; adopt returns early when the
\* content is that of the last adoption.  The mtime is stamped before the load,
\* so a save between the two is seen by the next call.
Reload ==
  IF ~seen /\ ~(Changed(disk) = {} /\ disk.mode = adopted)
  THEN seen' = TRUE /\ Adopt(disk)
  ELSE seen' = TRUE /\ UNCHANGED <<doc, adopted, every, heap, owes>>

NoRows == [s \in Scenario |-> None]
Init ==
  /\ disk \in [row : [Scenario -> Row], mode : {"home"}]
  /\ seen = FALSE /\ doc = [row |-> NoRows, mode |-> "home"] /\ adopted = "home"
  /\ up = "down" /\ loop = "drain" /\ every = [s \in Scenario |-> 0] /\ heap = {} /\ stack = <<>>
  /\ cloud = None /\ owes = [s \in Scenario |-> [l \in Load |-> "no"]]
  /\ edits = 0 /\ deaths = 0

-----------------------------------------------------------------------------
(* store.apply_command: load, change, save, without a lock. *)

CommandLoads ==
  /\ cloud = None /\ edits < MaxEdit /\ cloud' = disk
  /\ UNCHANGED <<disk, edits, engine, every, heap, stack, owes, deaths>>

\* An upsert, a delete, or a save that changes no row.
CommandSaves ==
  /\ cloud # None /\ cloud' = None /\ edits' = edits + 1 /\ seen' = FALSE
  /\ \/ \E s \in Scenario, r \in Row \cup {None} : disk' = [cloud EXCEPT !.row[s] = r]
     \/ disk' = cloud
  /\ UNCHANGED <<doc, adopted, up, loop, every, heap, stack, owes, deaths>>

-----------------------------------------------------------------------------
(* Runs. *)

Idle == up = "run" /\ stack = <<>>
Top == stack[Len(stack)]
Pop == SubSeq(stack, 1, Len(stack) - 1)
Running == up = "run" /\ stack # <<>> /\ "sid" \in DOMAIN Top
Next1(do) == Running /\ Top.todo # <<>> /\ Head(Top.todo).do = do
Rest == [Top EXCEPT !.todo = Tail(@)]
Within(frame) == stack' = Append(Pop, frame)
OutsideRun == <<store, engine, every, deaths>>

Start(s) == [sid |-> s, todo |-> doc.row[s].action, on |-> {}, chain |-> {s}, end |-> doc.row[s].end]
Aged(s) == [owes EXCEPT ![s] = [l \in Load |-> IF @[l] = "latest" THEN "old" ELSE @[l]]]

\* _run: a re-trigger supersedes the continuation and the end timer.
RunFrom(below, s) ==
  /\ stack' = Append(below, Start(s)) /\ heap' = heap \ Of(s) /\ owes' = Aged(s)

\* _dispatch, one scenario at a time; whether its conditions hold is left open.
DispatchTo(s) ==
  /\ up = "run" /\ stack # <<>> /\ "event" \in DOMAIN Top /\ s \in Top.todo
  /\ LET below == Append(Pop, [Top EXCEPT !.todo = @ \ {s}])
     IN  \/ ~Inactive(doc.row[s]) /\ Top.event \in doc.row[s].trig /\ RunFrom(below, s)
         \/ stack' = below /\ UNCHANGED <<heap, owes>>
  /\ UNCHANGED OutsideRun

DispatchEnds ==
  /\ up = "run" /\ stack # <<>> /\ "event" \in DOMAIN Top /\ Top.todo = {}
  /\ stack' = Pop /\ UNCHANGED <<OutsideRun, heap, owes>>

\* A `set` that is published, or refused: the write window is full, or the
\* target unknown.  A refusal does not end the run.
DoSet ==
  /\ Next1("on")
  /\ LET l == Head(Top.todo).load
     IN  \/ /\ Within([Rest EXCEPT !.on = @ \cup {l}])
            /\ owes' = IF Top.end THEN [owes EXCEPT ![Top.sid][l] = "latest"] ELSE owes
         \/ Within(Rest) /\ UNCHANGED owes
  /\ UNCHANGED <<OutsideRun, heap>>

\* A `delay` suspends the run with its calls.
DoDelay ==
  /\ Next1("delay")
  /\ heap' = heap \cup {[kind |-> "cont", run |-> Rest]} /\ stack' = Pop
  /\ UNCHANGED <<OutsideRun, owes>>

\* An exception leaves every call up to the main loop, which goes on with its
\* next step: no run on the stack reaches _finish, and none has a timer.
Unwinds ==
  /\ stack' = <<>>
  /\ owes' = [s \in Scenario |-> [l \in Load |->
                IF owes[s][l] # "no" /\ l \in InStack(s) \ InHeap(s) THEN "torn" ELSE owes[s][l]]]

\* set_home_mode: the mode changes in memory, then the engine's document is
\* saved whole and the presence event dispatched at once, inside the run; or
\* the save raises, before the file is replaced.
SetHomeMode(m, below) ==
  IF m \notin HomeMode \/ m = doc.mode THEN stack' = below /\ UNCHANGED <<disk, seen, doc, owes>>
  ELSE /\ doc' = [doc EXCEPT !.mode = m]
       /\ \/ /\ disk' = doc' /\ seen' = FALSE /\ UNCHANGED owes
             /\ stack' = Append(below, [event |-> IF m = "away" THEN "leave" ELSE "arrive",
                                        todo |-> Scenario])
          \/ Unwinds /\ UNCHANGED <<disk, seen>>

DoMode ==
  /\ Next1("mode") /\ SetHomeMode(Head(Top.todo).mode, Append(Pop, Rest))
  /\ UNCHANGED <<adopted, up, loop, cloud, edits, every, heap, deaths>>

Abort(run) == [run EXCEPT !.todo = <<>>]

\* A call: a missing or repeated scenario ends the run, an inactive one is skipped.
DoCall ==
  /\ Next1("call")
  /\ LET c == Head(Top.todo).sid
         r == doc.row[c]
     IN  Within(IF r = None \/ c \in Top.chain THEN Abort(Top)
                ELSE IF Inactive(r) THEN Rest
                ELSE [Rest EXCEPT !.todo = r.action \o @, !.chain = @ \cup {c}])
  /\ UNCHANGED <<OutsideRun, heap, owes>>

\* RUN_S, MAX_ACTIONS, MAX_WRITES or an http error ends a run under way.
RunAborts ==
  /\ Running /\ Top.todo \notin {<<>>, doc.row[Top.sid].action} /\ Within(Abort(Top))
  /\ UNCHANGED <<OutsideRun, heap, owes>>

\* Mutant: an inner run leaves the end timer to the run that caused it.
FinishOutermost ==
  /\ Running /\ Top.todo = <<>> /\ stack' = Pop
  /\ heap' = IF Top.end /\ Len(stack) <= 2 THEN heap \cup {[kind |-> "end", sid |-> Top.sid, on |-> Top.on]}
             ELSE heap
  /\ UNCHANGED <<OutsideRun, owes>>

\* _finish, with or without an error.
Finish ==
  /\ Running /\ Top.todo = <<>> /\ stack' = Pop
  /\ heap' = IF Top.end THEN heap \cup {[kind |-> "end", sid |-> Top.sid, on |-> Top.on]} ELSE heap
  /\ UNCHANGED <<OutsideRun, owes>>

-----------------------------------------------------------------------------
(* The main loop: a tick reloads, drains the inbox, then fires timers. *)

Tick ==
  /\ Idle /\ loop = "timers" /\ loop' = "drain" /\ Reload
  /\ UNCHANGED <<store, up, stack, deaths>>

\* A message reloads first, then is dispatched as a change of state.
Message ==
  /\ Idle /\ loop = "drain" /\ Reload /\ stack' = <<[event |-> "state", todo |-> Scenario]>>
  /\ UNCHANGED <<store, up, loop, deaths>>

\* A scene command over MQTT reloads first, too.
SceneCommand ==
  /\ Idle /\ loop = "drain" /\ Reload
  /\ \E s \in Scenario, v \in {"on", "off"} : stack' = <<[verb |-> v, scene |-> s]>>
  /\ UNCHANGED <<store, up, loop, deaths>>

\* Loads that are off now are owed by nobody.
Off(ls, o) == [s \in Scenario |-> [l \in Load |-> IF l \in ls THEN "no" ELSE o[s][l]]]
Lights(r) == {l \in Load : \E i \in DOMAIN r.action : r.action[i] = [do |-> "on", load |-> l]}

\* run_scene, or run_off: both timers are cancelled, then each load is written;
\* any of the writes may be refused, which is reported.
Obey ==
  /\ up = "run" /\ stack # <<>> /\ "verb" \in DOMAIN Top
  /\ LET s == Top.scene
         r == doc.row[s]
     IN  IF Inactive(r) \/ ~r.scene THEN stack' = Pop /\ UNCHANGED <<heap, owes>>
         ELSE \/ Top.verb = "on" /\ RunFrom(Pop, s)
              \/ /\ Top.verb = "off" /\ stack' = Pop /\ heap' = heap \ Of(s)
                 /\ \E ls \in SUBSET Lights(r) :
                      owes' = [Off(ls, owes) EXCEPT ![s] = [l \in Load |-> "no"]]
  /\ UNCHANGED OutsideRun

DrainEnds ==
  /\ Idle /\ loop = "drain" /\ loop' = "timers"
  /\ UNCHANGED <<store, seen, doc, adopted, up, every, heap, stack, owes, deaths>>

\* Any live entry may be due.
Due == Idle /\ loop = "timers"

\* An `every` entry is armed again before the run, whose conditions may not hold.
FireEvery(s) ==
  /\ Due /\ every[s] > 0
  /\ LET again == ~Inactive(doc.row[s]) /\ HasEvery(doc.row[s])
     IN  /\ every' = [every EXCEPT ![s] = IF again THEN @ ELSE @ - 1]
         /\ (again /\ RunFrom(stack, s)) \/ UNCHANGED <<stack, heap, owes>>
  /\ UNCHANGED <<store, engine, deaths>>

FireCont(e) ==
  /\ Due /\ e.kind = "cont"
  /\ heap' = heap \ {e} /\ stack' = <<e.run>>
  /\ UNCHANGED <<OutsideRun, owes>>

\* _end_fire: the writes skip the window; a refused target is reported.
FireEnd(e) ==
  /\ Due /\ e.kind = "end"
  /\ heap' = heap \ {e}
  /\ \E ls \in SUBSET e.on : owes' = [Off(ls, owes) EXCEPT ![e.sid] =
                                        [l \in Load |-> IF l \in e.on THEN "no" ELSE @[l]]]
  /\ UNCHANGED <<OutsideRun, stack>>

\* _scan_clock_triggers: the time and the sun.
Clock ==
  /\ Due /\ stack' = <<[event |-> "clock", todo |-> Scenario]>>
  /\ UNCHANGED <<OutsideRun, heap, owes>>

\* The flag file of run_now.
RunNow(s) ==
  /\ Due /\ ~Inactive(doc.row[s]) /\ RunFrom(<<>>, s)
  /\ UNCHANGED OutsideRun

-----------------------------------------------------------------------------
(* Death and start of the service: everything but the document is memory.   *)

Dies ==
  /\ up # "down" /\ deaths < MaxDeath /\ deaths' = deaths + 1 /\ up' = "down" /\ loop' = "drain"
  /\ every' = [s \in Scenario |-> 0] /\ heap' = {} /\ stack' = <<>>
  /\ owes' = [s \in Scenario |-> [l \in Load |-> "no"]]
  /\ doc' = [row |-> NoRows, mode |-> "home"] /\ adopted' = "home" /\ seen' = FALSE
  /\ UNCHANGED store

\* Engine.__init__ loads and adopts ...
EngineLoads ==
  /\ up = "down" /\ up' = "stamp" /\ Adopt(disk)
  /\ UNCHANGED <<store, seen, loop, stack, deaths>>

\* ... and RulesApp.__init__ stamps the mtime afterwards; then on_boot.
EngineStamps ==
  /\ up = "stamp" /\ up' = "run" /\ seen' = TRUE
  /\ stack' = <<[event |-> "boot", todo |-> Scenario]>>
  /\ UNCHANGED <<store, doc, adopted, loop, every, heap, owes, deaths>>

-----------------------------------------------------------------------------
Thread ==
  \/ \E s \in Scenario : DispatchTo(s)
  \/ DispatchEnds \/ Obey \/ DoSet \/ DoDelay \/ DoMode \/ DoCall \/ RunAborts \/ Finish

Next ==
  \/ CommandLoads \/ CommandSaves \/ Thread
  \/ Tick \/ Message \/ SceneCommand \/ DrainEnds \/ Clock
  \/ \E s \in Scenario : FireEvery(s) \/ RunNow(s)
  \/ \E e \in heap : FireCont(e) \/ FireEnd(e)
  \/ Dies \/ EngineLoads \/ EngineStamps

Spec == Init /\ [][Next]_vars

-----------------------------------------------------------------------------
(* Properties. *)

\* Each armed `every` trigger has exactly one live timer and no other row has
\* one, through edits, deletions, disabling, rows that cannot be armed, runs
\* and restarts (_cancel_scenario: "leaving an edited row running from two
\* chains").
EveryOnce == up # "down" => \A s \in Scenario : every[s] = Arm(doc.row[s])

\* What the latest run of a scenario with an end turned on is not forgotten: the
\* running call, its continuation or its end timer still has it, also when an
\* action failed half way, when the run called others, waited, or was entered
\* again from a presence event of its own.  Three things do write the debt off: a
\* save of the home mode that raises (NothingTorn), an edit of the scenario and
\* a restart of the service, both of which cancel its timers.
LatestRunEnds ==
  \A s \in Scenario, l \in Load : owes[s][l] = "latest" => l \in InHeap(s) \cup InStack(s)

\* No run with an end loses it to an exception: a failed save of the home mode
\* (engine.py:640) leaves what was turned on without anything to turn it off.
NothingTorn == \A s \in Scenario, l \in Load : owes[s][l] # "torn"

\* "End writes bypass the global write-rate window so the safety auto-off lands
\* under unrelated traffic": a load that a scenario with an end turned on is
\* never left on for good while the scenario stays as it is, save for runs that
\* an exception tore.
AutoOffLands ==
  stack = <<>> => \A s \in Scenario, l \in Load :
    owes[s][l] \in {"old", "latest"} => l \in InHeap(s) \/ \E e \in Of(s) : e.kind = "cont"

\* An engine that takes its document for the current one runs the one on disk.
NeverStale == Idle /\ seen => doc = disk

\* A document that was saved is not replaced by one loaded before: the engine's
\* save keeps the rows, apply_command's keeps the home mode.
NoEditLost == [][IF cloud = None \/ cloud' # None THEN disk'.row = disk.row
                 ELSE disk'.mode = disk.mode]_vars
=============================================================================
