-------------------------- MODULE RulesEngineProofs --------------------------
(***************************************************************************)
(* Proofs about RulesEngine, for any scenarios, loads and rows.            *)
(***************************************************************************)
EXTENDS RulesEngine, SequenceTheorems, TLAPS

Frame == Run \cup Dispatch \cup Command

\* What the thread is in the middle of is a run, a dispatch or a command.
LEMMA FrameKinds ==
  ASSUME NEW f \in Frame
  PROVE  /\ "sid" \in DOMAIN f <=> f \in Run
         /\ "event" \in DOMAIN f <=> f \in Dispatch
         /\ "verb" \in DOMAIN f <=> f \in Command
<1>1. \A g \in Run : "sid" \in DOMAIN g /\ "event" \notin DOMAIN g /\ "verb" \notin DOMAIN g
  BY DEF Run
<1>2. \A g \in Dispatch : "sid" \notin DOMAIN g /\ "event" \in DOMAIN g /\ "verb" \notin DOMAIN g
  BY DEF Dispatch
<1>3. \A g \in Command : "sid" \notin DOMAIN g /\ "event" \notin DOMAIN g /\ "verb" \in DOMAIN g
  BY DEF Command
<1> QED BY <1>1, <1>2, <1>3 DEF Frame

\* The runs among the frames of a stack.
RunsOf(q) == {q[i] : i \in {j \in 1 .. Len(q) : q[j] \in Run}}

\* The stack below its top ...
LEMMA StackTop ==
  ASSUME stack \in Seq(Frame), stack # <<>>
  PROVE  /\ Top \in Frame /\ Pop \in Seq(Frame)
         /\ RunsOf(stack) = RunsOf(Pop) \cup ({Top} \cap Run)
<1> HIDE DEF Frame
<1>1. Len(stack) \in Nat \ {0}
  BY EmptySeq
<1>2. \A i \in 1 .. Len(stack) : stack[i] \in Frame
  BY ElementOfSeq
<1>3. Len(stack) \in 1 .. Len(stack) /\ Len(stack) - 1 \in Int
      /\ \A i \in 1 .. Len(stack) - 1 : i \in 1 .. Len(stack)
  BY <1>1
<1>4. Top \in Frame
  BY <1>2, <1>3 DEF Top
<1>5. /\ Pop \in Seq(Frame)
      /\ Len(Pop) = Len(stack) - 1
      /\ \A i \in 1 .. Len(stack) - 1 : Pop[i] = stack[i]
  <2>1. \A i \in 1 .. Len(stack) - 1 : stack[i] \in Frame
    BY <1>2, <1>3
  <2>2. /\ SubSeq(stack, 1, Len(stack) - 1) \in Seq(Frame)
        /\ Len(SubSeq(stack, 1, Len(stack) - 1))
             = IF 1 <= Len(stack) - 1 THEN Len(stack) - 1 - 1 + 1 ELSE 0
        /\ \A i \in 1 .. Len(stack) - 1 - 1 + 1 :
             SubSeq(stack, 1, Len(stack) - 1)[i] = stack[1 + i - 1]
    BY <2>1, <1>3, SubSeqProperties
  <2>3. Len(stack) - 1 - 1 + 1 = Len(stack) - 1
        /\ (IF 1 <= Len(stack) - 1 THEN Len(stack) - 1 - 1 + 1 ELSE 0) = Len(stack) - 1
        /\ \A i \in 1 .. Len(stack) - 1 : 1 + i - 1 = i
    <3>1. \A n \in Nat \ {0} : n - 1 - 1 + 1 = n - 1 /\ (1 <= n - 1 \/ n - 1 = 0)
      OBVIOUS
    <3>2. \A n \in Nat \ {0} : \A i \in 1 .. n - 1 : 1 + i - 1 = i
      OBVIOUS
    <3> QED BY <1>1, <3>1, <3>2
  <2>4. ASSUME NEW i \in 1 .. Len(stack) - 1
        PROVE  SubSeq(stack, 1, Len(stack) - 1)[i] = stack[i]
    <3>1. i \in 1 .. Len(stack) - 1 - 1 + 1
      BY <2>3
    <3>2. SubSeq(stack, 1, Len(stack) - 1)[i] = stack[1 + i - 1]
      BY <2>2, <3>1
    <3> QED BY <3>2, <2>3
  <2> QED BY <2>2, <2>3, <2>4 DEF Pop
<1>6. \A i \in 1 .. Len(stack) : i \in 1 .. Len(stack) - 1 \/ i = Len(stack)
  BY <1>1
<1>7. RunsOf(stack) = RunsOf(Pop) \cup ({Top} \cap Run)
  BY <1>3, <1>5, <1>6 DEF RunsOf, Top
<1> QED BY <1>4, <1>5, <1>7

\* ... and with a frame on it.
LEMMA StackPush ==
  ASSUME NEW q \in Seq(Frame), NEW f \in Frame
  PROVE  Append(q, f) \in Seq(Frame) /\ RunsOf(Append(q, f)) = RunsOf(q) \cup ({f} \cap Run)
<1> HIDE DEF Frame
<1>1. /\ Append(q, f) \in Seq(Frame) /\ Len(Append(q, f)) = Len(q) + 1 /\ Len(q) \in Nat
      /\ \A i \in 1 .. Len(q) : Append(q, f)[i] = q[i]
      /\ Append(q, f)[Len(q) + 1] = f
  BY AppendProperties, LenProperties
<1>2. \A i : i \in 1 .. Len(q) + 1 <=> i \in 1 .. Len(q) \/ i = Len(q) + 1
  BY <1>1
<1>3. RunsOf(Append(q, f)) = RunsOf(q) \cup ({f} \cap Run)
  BY <1>1, <1>2 DEF RunsOf
<1> QED BY <1>1, <1>3

LEMMA StackOne ==
  /\ <<>> \in Seq(Frame) /\ RunsOf(<<>>) = {}
  /\ \A f \in Frame : <<f>> \in Seq(Frame) /\ RunsOf(<<f>>) = {f} \cap Run
<1> HIDE DEF Frame
<1>1. <<>> \in Seq(Frame) /\ RunsOf(<<>>) = {}
  BY DEF RunsOf
<1>2. ASSUME NEW f \in Frame
      PROVE  <<f>> \in Seq(Frame) /\ RunsOf(<<f>>) = {f} \cap Run
  <2>1. Len(<<f>>) = 1 /\ <<f>>[1] = f /\ 1 .. 1 = {1}
    OBVIOUS
  <2> QED BY <2>1 DEF RunsOf
<1> QED BY <1>1, <1>2

\* A run goes on with fewer actions, or with those of a scenario it calls.
LEMMA RunGoesOn ==
  ASSUME NEW r \in Run
  PROVE  /\ r.todo # <<>> => [r EXCEPT !.todo = Tail(@)] \in Run
         /\ Abort(r) \in Run
<1>1. r.todo # <<>> => Tail(r.todo) \in Seq(Act)
  BY DEF Run
<1>2. <<>> \in Seq(Act)
  OBVIOUS
<1> HIDE DEF Act
<1> QED BY <1>1, <1>2 DEF Run, Abort

\* An armed row is a row of the store.
LEMMA RowFacts ==
  ASSUME doc \in Doc, NEW s \in Scenario, doc.row[s] # None
  PROVE  doc.row[s] \in RowType /\ doc.row[s].action \in Seq(Act) /\ Start(s) \in Run
<1>1. doc.row[s] \in RowType
  BY RulesAssumption DEF Doc
<1>2. doc.row[s].action \in Seq(Act) /\ doc.row[s].end \in BOOLEAN
  BY <1>1 DEF RowType
<1> HIDE DEF Act
<1> QED BY <1>1, <1>2 DEF Start, Run

-----------------------------------------------------------------------------
(* The timers of `every`.  They depend on the documents alone: the armed one  *)
(* and those it is replaced by.                                             *)

Documents == disk \in Doc /\ doc \in Doc /\ cloud \in Doc \cup {None}
\* A service that is down has armed nothing.
NothingArmed == up = "down" => every = [s \in Scenario |-> 0] /\ doc.row = NoRows
Timers ==
  /\ every \in [Scenario -> Nat] /\ NothingArmed
  /\ \A s \in Scenario : every[s] = Arm(doc.row[s])
EveryInv == Documents /\ Timers

LEMMA ArmCounts == Arm(None) = 0 /\ \A r : Arm(r) \in Nat
BY DEF Arm, Inactive

\* Adoption arms the rows that changed and leaves the others as they were.
LEMMA AdoptArms ==
  ASSUME Documents, Timers, NEW d \in Doc, Adopt(d)
  PROVE  /\ doc' = d /\ every' \in [Scenario -> Nat]
         /\ \A s \in Scenario : every'[s] = Arm(doc'.row[s])
<1>1. doc' = d
  BY DEF Adopt
<1>2. every' = [s \in Scenario |-> IF s \in Changed(d) THEN Arm(d.row[s]) ELSE every[s]]
  BY DEF Adopt, Rearm
<1>3. \A s \in Scenario : every'[s] = Arm(d.row[s])
  BY <1>2 DEF Changed, Timers
<1> QED BY <1>1, <1>2, <1>3, ArmCounts DEF Timers

LEMMA ReloadArms ==
  ASSUME EveryInv, Reload, disk' = disk, cloud' = cloud, up' = up, up # "down"
  PROVE  EveryInv'
<1>1. CASE UNCHANGED <<doc, every>>
  BY <1>1 DEF EveryInv, Documents, Timers, NothingArmed, Arm, Inactive, HasEvery
<1>2. CASE Adopt(disk)
  <2>1. Documents /\ Timers /\ disk \in Doc
    BY DEF EveryInv, Documents
  <2>2. doc' = disk /\ every' \in [Scenario -> Nat]
        /\ \A s \in Scenario : every'[s] = Arm(doc'.row[s])
    BY <1>2, <2>1, AdoptArms
  <2> QED BY <2>1, <2>2 DEF EveryInv, Documents, Timers, NothingArmed, Arm, Inactive, HasEvery
<1> QED BY <1>1, <1>2 DEF Reload

\* A change of the home mode leaves the rows of the engine alone.
LEMMA ModeKeepsRows ==
  ASSUME doc \in Doc, disk \in Doc, NEW m, NEW below, SetHomeMode(m, below)
  PROVE  doc' \in Doc /\ disk' \in Doc /\ doc'.row = doc.row
BY DEF SetHomeMode, Doc

\* The invariant does not see a step that leaves these alone.
LEMMA OtherSteps ==
  ASSUME EveryInv, every' = every, up' = "down" => up = "down", doc'.row = doc.row,
         Documents'
  PROVE  EveryInv'
BY DEF EveryInv, Timers, NothingArmed, Arm, Inactive, HasEvery

LEMMA EveryStep == EveryInv /\ [Next]_vars => EveryInv'
<1> SUFFICES ASSUME EveryInv, [Next]_vars
             PROVE  EveryInv'
  OBVIOUS
<1> USE DEF engine, store, OutsideRun
<1>1. ASSUME UNCHANGED <<disk, doc, cloud, every, up>>
      PROVE  EveryInv'
  BY <1>1 DEF EveryInv, Documents, Timers, NothingArmed, Arm, Inactive, HasEvery
<1>2. CASE CommandLoads
  <2>1. Documents'
    BY <1>2 DEF CommandLoads, EveryInv, Documents
  <2> QED BY <1>2, <2>1, OtherSteps DEF CommandLoads
<1>3. CASE CommandSaves
  <2>1. cloud \in Doc
    BY <1>3 DEF CommandSaves, EveryInv, Documents
  <2>2. \A s \in Scenario, r \in Row \cup {None} : [cloud EXCEPT !.row[s] = r] \in Doc
    BY <2>1 DEF Doc
  <2>3. Documents'
    BY <1>3, <2>1, <2>2 DEF CommandSaves, EveryInv, Documents
  <2> QED BY <1>3, <2>3, OtherSteps DEF CommandSaves
<1>4. CASE DoMode
  <2>1. doc' \in Doc /\ disk' \in Doc /\ doc'.row = doc.row
    BY <1>4, ModeKeepsRows DEF DoMode, EveryInv, Documents
  <2>2. Documents' /\ every' = every /\ up' = up
    BY <1>4, <2>1 DEF DoMode, EveryInv, Documents
  <2> QED BY <2>1, <2>2, OtherSteps
<1>5. CASE Thread /\ ~DoMode
  <2>1. UNCHANGED <<disk, doc, cloud, every, up>>
    BY <1>5 DEF Thread, DispatchTo, DispatchEnds, Obey, DoSet, DoDelay, DoCall, RunAborts, Finish
  <2> QED BY <2>1, <1>1
<1>6. CASE Tick \/ Message \/ SceneCommand
  <2>1. Reload /\ UNCHANGED <<disk, cloud, up>> /\ up # "down"
    BY <1>6 DEF Tick, Message, SceneCommand, Idle
  <2> QED BY <2>1, ReloadArms
<1>7. CASE DrainEnds \/ Clock \/ (\E s \in Scenario : RunNow(s))
           \/ (\E e \in heap : FireCont(e) \/ FireEnd(e))
  <2>1. UNCHANGED <<disk, doc, cloud, every, up>>
    BY <1>7 DEF DrainEnds, Clock, RunNow, FireCont, FireEnd
  <2> QED BY <2>1, <1>1
<1>8. ASSUME NEW s \in Scenario, FireEvery(s)
      PROVE  EveryInv'
  <2>1. every[s] > 0 /\ every[s] = Arm(doc.row[s]) /\ every \in [Scenario -> Nat]
    BY <1>8 DEF FireEvery, EveryInv, Timers
  <2>2. ~Inactive(doc.row[s]) /\ HasEvery(doc.row[s])
    BY <2>1 DEF Arm
  <2>3. every' = every /\ UNCHANGED <<disk, doc, cloud, up>>
    BY <1>8, <2>1, <2>2 DEF FireEvery
  <2> QED BY <2>3, <1>1
<1>9. CASE Dies
  <2>1. doc' \in Doc /\ doc'.row = NoRows
    BY <1>9 DEF Dies, Doc, NoRows, HomeMode
  <2> QED BY <1>9, <2>1, ArmCounts DEF Dies, EveryInv, Documents, Timers, NothingArmed,
     NoRows, Arm, Inactive, HasEvery
<1>10. CASE EngineLoads
  <2>1. Documents /\ Timers /\ disk \in Doc
    BY DEF EveryInv, Documents
  <2>2. doc' = disk /\ every' \in [Scenario -> Nat]
        /\ \A s \in Scenario : every'[s] = Arm(doc'.row[s])
    BY <1>10, <2>1, AdoptArms DEF EngineLoads
  <2>3. UNCHANGED <<disk, cloud>> /\ up' = "stamp"
    BY <1>10 DEF EngineLoads
  <2> QED BY <2>1, <2>2, <2>3 DEF EveryInv, Documents, Timers, NothingArmed, Arm, Inactive, HasEvery
<1>11. CASE EngineStamps
  <2>1. UNCHANGED <<disk, cloud, doc, every>> /\ up' = "run"
    BY <1>11 DEF EngineStamps
  <2> QED BY <2>1 DEF EveryInv, Documents, Timers, NothingArmed, Arm, Inactive, HasEvery
<1>12. CASE UNCHANGED vars
  BY <1>12, <1>1 DEF vars
<1> QED BY <1>2, <1>3, <1>4, <1>5, <1>6, <1>7, <1>8, <1>9, <1>10, <1>11, <1>12 DEF Next

LEMMA EveryInit == Init => EveryInv
<1> SUFFICES ASSUME Init PROVE EveryInv
  OBVIOUS
<1>1. Documents
  BY DEF Init, Documents, Doc, NoRows, HomeMode
<1>2. Timers
  BY ArmCounts DEF Init, Timers, NothingArmed, NoRows
<1> QED BY <1>1, <1>2 DEF EveryInv

\* Each armed `every` trigger has exactly one live timer, and no other row has
\* one: _adopt re-arms what changed, a popped entry re-arms itself.
THEOREM OneTimerEach == Spec => []EveryOnce
<1>1. EveryInv => EveryOnce
  BY DEF EveryInv, Timers, EveryOnce
<1> QED BY <1>1, EveryInit, EveryStep, PTL DEF Spec

-----------------------------------------------------------------------------
(* The ends.  A run, while it is on the stack or in the heap, carries the     *)
(* loads it switched on; its scenario's row is the one it was started from. *)

Marks == [Scenario -> [Load -> {"no", "old", "latest", "torn"}]]
Shape == stack \in Seq(Frame) /\ heap \subseteq Entry /\ owes \in Marks
Counted ==
  /\ adopted \in HomeMode /\ seen \in BOOLEAN /\ up \in {"down", "stamp", "run"}
  /\ loop \in {"drain", "timers"} /\ edits \in 0 .. MaxEdit /\ deaths \in 0 .. MaxDeath
  /\ cloud # None => edits < MaxEdit
\* Only a service that runs is in the middle of something.
RestsUnlessUp == up # "run" => stack = <<>>

RightEnd(r) == doc.row[r.sid] # None /\ r.end = doc.row[r.sid].end
EndsKnown ==
  /\ \A r \in RunsOf(stack) : RightEnd(r)
  /\ \A e \in heap : e.kind = "cont" => RightEnd(e.run)

Carried(s, l) ==
  \/ \E r \in RunsOf(stack) : r.sid = s /\ l \in r.on
  \/ \E e \in heap : e.kind = "cont" /\ e.run.sid = s /\ l \in e.run.on
  \/ \E e \in heap : e.kind = "end" /\ e.sid = s /\ l \in e.on
Owed ==
  \A s \in Scenario, l \in Load :
    owes[s][l] = "latest" => Carried(s, l) /\ doc.row[s] # None /\ doc.row[s].end

Ends == Shape /\ RestsUnlessUp /\ EndsKnown /\ Owed
Inv == EveryInv /\ Counted /\ Ends

LEMMA RunIsNoOther ==
  /\ \A f \in Dispatch \cup Command : {f} \cap Run = {}
  /\ \A r \in Run : r \in Frame /\ {r} \cap Run = {r}
  /\ Dispatch \subseteq Frame /\ Command \subseteq Frame
BY FrameKinds DEF Run, Dispatch, Command, Frame

\* The thread is inside a run: its top frame.
LEMMA InRun ==
  ASSUME Shape, Running
  PROVE  /\ Top \in Run /\ Pop \in Seq(Frame) /\ RunsOf(stack) = RunsOf(Pop) \cup {Top}
         /\ stack \in Seq(Frame) /\ stack # <<>> /\ up = "run"
<1>1. stack \in Seq(Frame) /\ stack # <<>> /\ "sid" \in DOMAIN Top /\ up = "run"
  BY DEF Shape, Running
<1>2. Top \in Frame /\ Pop \in Seq(Frame) /\ RunsOf(stack) = RunsOf(Pop) \cup ({Top} \cap Run)
  BY <1>1, StackTop
<1>3. Top \in Run
  BY <1>1, <1>2, FrameKinds
<1> QED BY <1>1, <1>2, <1>3

\* A run that goes on in the place of the top one.
LEMMA GoesOn ==
  ASSUME Shape, Running, NEW r \in Run, Within(r)
  PROVE  stack' \in Seq(Frame) /\ RunsOf(stack') = RunsOf(Pop) \cup {r}
BY InRun, StackPush, RunIsNoOther DEF Within

\* Such a run keeps what its predecessor carried.
LEMMA GoesOnKeeps ==
  ASSUME Ends, Running, NEW r \in Run, Within(r), r.sid = Top.sid, r.end = Top.end, r.on = Top.on,
         UNCHANGED <<heap, owes, up>>, doc'.row = doc.row
  PROVE  Ends'
<1>1. stack' \in Seq(Frame) /\ RunsOf(stack') = RunsOf(Pop) \cup {r}
  BY GoesOn DEF Ends
<1>2. Top \in Run /\ RunsOf(stack) = RunsOf(Pop) \cup {Top} /\ up = "run"
  BY InRun DEF Ends
<1>3. Shape' /\ RestsUnlessUp'
  BY <1>1, <1>2 DEF Ends, Shape, RestsUnlessUp
<1>4. EndsKnown'
  BY <1>1, <1>2 DEF Ends, EndsKnown, RightEnd
<1>5. Owed'
  BY <1>1, <1>2 DEF Ends, Owed, Carried
<1> QED BY <1>3, <1>4, <1>5 DEF Ends

LEMMA RestIsRun ==
  ASSUME NEW t \in Run, t.todo # <<>>
  PROVE  /\ [t EXCEPT !.todo = Tail(@)] \in Run
         /\ Head(t.todo) \in Act
         /\ \A on \in SUBSET Load : [[t EXCEPT !.todo = Tail(@)] EXCEPT !.on = on] \in Run
<1>1. t.todo \in Seq(Act)
  BY DEF Run
<1>2. Tail(t.todo) \in Seq(Act) /\ Head(t.todo) \in Act
  BY <1>1
<1> HIDE DEF Act
<1> QED BY <1>2 DEF Run

\* A new run of a scenario ends the older one's claim.
LEMMA RunFromKeeps ==
  ASSUME Ends, doc \in Doc, NEW below \in Seq(Frame), NEW s \in Scenario, RunFrom(below, s),
         RunsOf(below) = RunsOf(stack), doc.row[s] # None, UNCHANGED <<doc, up>>, up = "run"
  PROVE  Ends'
<1>1. Start(s) \in Run /\ Start(s).sid = s /\ Start(s).end = doc.row[s].end
  BY RowFacts DEF Start
<1>2. stack' \in Seq(Frame) /\ RunsOf(stack') = RunsOf(stack) \cup {Start(s)}
  BY <1>1, StackPush, RunIsNoOther DEF RunFrom
<1>3. heap' = heap \ Of(s) /\ owes' = Aged(s)
  BY DEF RunFrom
<1>4. owes' \in Marks /\ (\A l \in Load : owes'[s][l] # "latest")
      /\ \A t \in Scenario : t # s => owes'[t] = owes[t]
  BY <1>3 DEF Aged, Marks, Ends, Shape
<1>5. Shape' /\ RestsUnlessUp'
  BY <1>2, <1>3, <1>4 DEF Ends, Shape, RestsUnlessUp
<1>6. EndsKnown'
  BY <1>1, <1>2, <1>3 DEF Ends, EndsKnown, RightEnd
<1>7. \A e \in heap : e \notin heap' => Owner(e) = s
  BY <1>3 DEF Of
<1>8. Owed'
  BY <1>2, <1>4, <1>7 DEF Ends, Owed, Carried, Owner
<1> QED BY <1>5, <1>6, <1>8 DEF Ends

-----------------------------------------------------------------------------
(* The steps of the thread. *)

LEMMA DispatchToKeeps ==
  ASSUME Ends, doc \in Doc, NEW s \in Scenario, DispatchTo(s)
  PROVE  Ends'
<1> DEFINE below == Append(Pop, [Top EXCEPT !.todo = @ \ {s}])
<1>1. stack \in Seq(Frame) /\ stack # <<>> /\ "event" \in DOMAIN Top /\ up = "run" /\ up' = up /\ doc' = doc
  BY DEF DispatchTo, Ends, Shape, OutsideRun, engine
<1>2. Top \in Frame /\ Pop \in Seq(Frame) /\ RunsOf(stack) = RunsOf(Pop) \cup ({Top} \cap Run)
  BY <1>1, StackTop
<1>3. Top \in Dispatch
  BY <1>1, <1>2, FrameKinds
<1>4. [Top EXCEPT !.todo = @ \ {s}] \in Dispatch
  BY <1>3 DEF Dispatch
<1>5. below \in Seq(Frame) /\ RunsOf(below) = RunsOf(stack)
  <2>1. [Top EXCEPT !.todo = @ \ {s}] \in Frame /\ {[Top EXCEPT !.todo = @ \ {s}]} \cap Run = {}
        /\ {Top} \cap Run = {}
    BY <1>3, <1>4, RunIsNoOther
  <2>2. below \in Seq(Frame)
        /\ RunsOf(below) = RunsOf(Pop) \cup ({[Top EXCEPT !.todo = @ \ {s}]} \cap Run)
    BY <1>2, <2>1, StackPush
  <2> QED BY <1>2, <2>1, <2>2
<1>6. \/ ~Inactive(doc.row[s]) /\ RunFrom(below, s)
      \/ stack' = below /\ UNCHANGED <<heap, owes>>
  BY DEF DispatchTo
<1> HIDE DEF below
<1>7. CASE ~Inactive(doc.row[s]) /\ RunFrom(below, s)
  BY <1>1, <1>5, <1>7, RunFromKeeps DEF Inactive
<1>8. CASE stack' = below /\ UNCHANGED <<heap, owes>>
  BY <1>1, <1>5, <1>8 DEF Ends, Shape, RestsUnlessUp, EndsKnown, RightEnd, Owed, Carried
<1> QED BY <1>6, <1>7, <1>8

LEMMA DispatchEndsKeeps == ASSUME Ends, DispatchEnds PROVE Ends'
<1>1. stack \in Seq(Frame) /\ stack # <<>> /\ "event" \in DOMAIN Top /\ stack' = Pop
      /\ UNCHANGED <<heap, owes, doc, up>> /\ up = "run"
  BY DEF DispatchEnds, Ends, Shape, OutsideRun, engine
<1>2. Top \in Frame /\ Pop \in Seq(Frame) /\ RunsOf(stack) = RunsOf(Pop) \cup ({Top} \cap Run)
  BY <1>1, StackTop
<1>3. {Top} \cap Run = {}
  BY <1>1, <1>2, FrameKinds, RunIsNoOther
<1>4. stack' \in Seq(Frame) /\ RunsOf(stack') = RunsOf(stack)
  BY <1>1, <1>2, <1>3
<1> QED BY <1>1, <1>4 DEF Ends, Shape, RestsUnlessUp, EndsKnown, RightEnd, Owed, Carried

LEMMA DoSetKeeps == ASSUME Ends, DoSet PROVE Ends'
<1> DEFINE l == Head(Top.todo).load
           more == [Rest EXCEPT !.on = @ \cup {l}]
<1>1. Running /\ Top.todo # <<>> /\ Head(Top.todo).do = "on" /\ UNCHANGED <<heap, doc, up>>
  BY DEF DoSet, Next1, OutsideRun, engine
<1>2. Top \in Run /\ Pop \in Seq(Frame) /\ RunsOf(stack) = RunsOf(Pop) \cup {Top} /\ up = "run"
  BY <1>1, InRun DEF Ends
<1>3. Rest \in Run /\ Head(Top.todo) \in Act /\ Top.on \subseteq Load /\ Top.sid \in Scenario
  BY <1>1, <1>2, RestIsRun DEF Rest, Run
<1>4. l \in Load
  BY <1>1, <1>3 DEF Act
<1>5. Rest.sid = Top.sid /\ Rest.end = Top.end /\ Rest.on = Top.on
  BY <1>2 DEF Rest, Run
<1>6. more \in Run /\ more.sid = Top.sid /\ more.end = Top.end /\ more.on = Top.on \cup {l}
  BY <1>3, <1>4, <1>5 DEF Run
<1>7. \/ Within(more) /\ owes' = IF Top.end THEN [owes EXCEPT ![Top.sid][l] = "latest"] ELSE owes
      \/ Within(Rest) /\ UNCHANGED owes
  BY DEF DoSet
<1> HIDE DEF l, more
<1>8. CASE Within(Rest) /\ UNCHANGED owes
  BY <1>1, <1>3, <1>5, <1>8, GoesOnKeeps
<1>9. CASE Within(more) /\ owes' = IF Top.end THEN [owes EXCEPT ![Top.sid][l] = "latest"] ELSE owes
  <2>1. stack' \in Seq(Frame) /\ RunsOf(stack') = RunsOf(Pop) \cup {more}
    BY <1>1, <1>6, <1>9, GoesOn DEF Ends
  <2>2. owes' \in Marks
        /\ \A t \in Scenario, k \in Load :
             owes'[t][k] = "latest" => owes[t][k] = "latest" \/ (t = Top.sid /\ k = l /\ Top.end)
    BY <1>3, <1>4, <1>9 DEF Ends, Shape, Marks
  <2>3. Shape' /\ RestsUnlessUp'
    BY <1>1, <1>2, <2>1, <2>2 DEF Ends, Shape, RestsUnlessUp
  <2>4. EndsKnown'
    BY <1>1, <1>2, <1>6, <2>1 DEF Ends, EndsKnown, RightEnd
  <2>5. RightEnd(Top)
    BY <1>2 DEF Ends, EndsKnown
  <2>6. Owed'
    BY <1>1, <1>2, <1>6, <2>1, <2>2, <2>5 DEF Ends, Owed, Carried, RightEnd
  <2> QED BY <2>3, <2>4, <2>6 DEF Ends
<1> QED BY <1>7, <1>8, <1>9

\* A run that waits is carried by the heap with what it switched on.
LEMMA DoDelayKeeps == ASSUME Ends, DoDelay PROVE Ends'
<1> DEFINE e == [kind |-> "cont", run |-> Rest]
<1>1. Running /\ Top.todo # <<>> /\ UNCHANGED <<owes, doc, up>>
      /\ heap' = heap \cup {e} /\ stack' = Pop
  BY DEF DoDelay, Next1, OutsideRun, engine
<1>2. Top \in Run /\ Pop \in Seq(Frame) /\ RunsOf(stack) = RunsOf(Pop) \cup {Top} /\ up = "run"
  BY <1>1, InRun DEF Ends
<1>3. Rest \in Run
  BY <1>1, <1>2, RestIsRun DEF Rest
<1>4. Rest.sid = Top.sid /\ Rest.end = Top.end /\ Rest.on = Top.on
  BY <1>2 DEF Rest, Run
<1>5. e \in Entry /\ e.kind = "cont" /\ e.run = Rest
  BY <1>3 DEF Entry
<1> HIDE DEF e
<1>6. Shape' /\ RestsUnlessUp'
  BY <1>1, <1>2, <1>5 DEF Ends, Shape, RestsUnlessUp
<1>7. EndsKnown'
  BY <1>1, <1>2, <1>4, <1>5 DEF Ends, EndsKnown, RightEnd
<1>8. ASSUME NEW s \in Scenario, NEW l \in Load, Carried(s, l)
      PROVE  Carried(s, l)'
  BY <1>1, <1>2, <1>4, <1>5, <1>8 DEF Carried
<1>9. Owed'
  BY <1>1, <1>8 DEF Ends, Owed
<1> QED BY <1>6, <1>7, <1>9 DEF Ends

\* What a scenario's runs and timers carry is what the model's two sets have.
LEMMA StackCarries ==
  ASSUME Shape, NEW s \in Scenario, NEW l \in Load, NEW r \in RunsOf(stack), r.sid = s, l \in r.on
  PROVE  l \in InStack(s)
<1>1. PICK i \in 1 .. Len(stack) : stack[i] \in Run /\ r = stack[i]
  BY DEF RunsOf
<1>2. i \in DOMAIN stack /\ "sid" \in DOMAIN stack[i]
  BY <1>1, LenProperties, FrameKinds, RunIsNoOther DEF Shape
<1> QED BY <1>1, <1>2 DEF InStack

HeapCarries(s, l) ==
  \/ \E e \in heap : e.kind = "cont" /\ e.run.sid = s /\ l \in e.run.on
  \/ \E e \in heap : e.kind = "end" /\ e.sid = s /\ l \in e.on

LEMMA HeapHas == \A s, l : l \in InHeap(s) <=> HeapCarries(s, l)
BY DEF InHeap, HeapCarries

\* An exception tears the runs on the stack; what the heap has, it keeps.
LEMMA UnwindsKeeps ==
  ASSUME Ends, Unwinds, up = "run", UNCHANGED <<heap, up>>, doc'.row = doc.row
  PROVE  Ends'
<1>1. stack' \in Seq(Frame) /\ RunsOf(stack') = {}
  BY StackOne DEF Unwinds
<1>2. owes' \in Marks
      /\ \A s \in Scenario, l \in Load : owes'[s][l] = "latest" =>
           owes[s][l] = "latest" /\ l \notin InStack(s) \ InHeap(s)
  <2> DEFINE T(s, l) == IF owes[s][l] # "no" /\ l \in InStack(s) \ InHeap(s) THEN "torn"
                        ELSE owes[s][l]
  <2>1. owes' = [s \in Scenario |-> [l \in Load |-> T(s, l)]]
    BY DEF Unwinds
  <2>2. owes \in Marks
    BY DEF Ends, Shape
  <2>3. \A s \in Scenario, l \in Load : T(s, l) \in {"no", "old", "latest", "torn"}
    BY <2>2 DEF Marks
  <2>4. \A s \in Scenario, l \in Load : T(s, l) = "latest" =>
           owes[s][l] = "latest" /\ l \notin InStack(s) \ InHeap(s)
    OBVIOUS
  <2> HIDE DEF T
  <2> QED BY <2>1, <2>3, <2>4 DEF Marks
<1>3. Shape' /\ RestsUnlessUp'
  BY <1>1, <1>2 DEF Ends, Shape, RestsUnlessUp
<1>4. EndsKnown'
  BY <1>1 DEF Ends, EndsKnown, RightEnd
<1>5. ASSUME NEW s \in Scenario, NEW l \in Load, owes'[s][l] = "latest"
      PROVE  Carried(s, l)' /\ doc'.row[s] # None /\ doc'.row[s].end
  <2>1. owes[s][l] = "latest" /\ l \notin InStack(s) \ InHeap(s)
    BY <1>2, <1>5
  <2>2. Carried(s, l) /\ doc.row[s] # None /\ doc.row[s].end
    BY <2>1 DEF Ends, Owed
  <2>3. (\E r \in RunsOf(stack) : r.sid = s /\ l \in r.on) => HeapCarries(s, l)
    BY <2>1, StackCarries, HeapHas DEF Ends
  <2>4. HeapCarries(s, l)
    BY <2>2, <2>3 DEF Carried, HeapCarries
  <2> QED BY <2>2, <2>4 DEF HeapCarries, Carried
<1>6. Owed'
  BY <1>5 DEF Owed
<1> QED BY <1>3, <1>4, <1>6 DEF Ends

\* A change of the home mode puts a dispatch on top of the run, or tears it.
LEMMA DoModeKeeps == ASSUME Ends, doc \in Doc, disk \in Doc, DoMode PROVE Ends'
<1> DEFINE m == Head(Top.todo).mode
           below == Append(Pop, Rest)
<1>1. Running /\ Top.todo # <<>> /\ UNCHANGED <<heap, up>> /\ SetHomeMode(m, below)
  BY DEF DoMode, Next1
<1>2. Top \in Run /\ Pop \in Seq(Frame) /\ RunsOf(stack) = RunsOf(Pop) \cup {Top} /\ up = "run"
  BY <1>1, InRun DEF Ends
<1>3. Rest \in Run
  BY <1>1, <1>2, RestIsRun DEF Rest
<1>4. Rest.sid = Top.sid /\ Rest.end = Top.end /\ Rest.on = Top.on
  BY <1>2 DEF Rest, Run
<1>5. doc'.row = doc.row
  BY <1>1, ModeKeepsRows
<1>6. below \in Seq(Frame) /\ RunsOf(below) = RunsOf(Pop) \cup {Rest}
  BY <1>2, <1>3, StackPush, RunIsNoOther
<1>7. CASE Unwinds
  BY <1>1, <1>2, <1>5, <1>7, UnwindsKeeps
<1>8. ASSUME UNCHANGED owes, stack' = below \/ stack' = Append(below, [event |-> IF m = "away" THEN "leave"
                                                                     ELSE "arrive", todo |-> Scenario])
      PROVE  Ends'
  <2> DEFINE d == [event |-> IF m = "away" THEN "leave" ELSE "arrive", todo |-> Scenario]
  <2>1. d \in Dispatch
    BY DEF Dispatch, Event
  <2>2. d \in Frame /\ {d} \cap Run = {}
    BY <2>1, RunIsNoOther
  <2>3. stack' = below \/ stack' = Append(below, d)
    BY <1>8
  <2> HIDE DEF d, below
  <2>4. Append(below, d) \in Seq(Frame) /\ RunsOf(Append(below, d)) = RunsOf(below) \cup ({d} \cap Run)
    BY <1>6, <2>2, StackPush
  <2>5. stack' \in Seq(Frame) /\ RunsOf(stack') = RunsOf(Pop) \cup {Rest}
    BY <1>6, <2>2, <2>3, <2>4
  <2>6. Shape' /\ RestsUnlessUp'
    BY <1>1, <1>2, <1>8, <2>5 DEF Ends, Shape, RestsUnlessUp
  <2>7. EndsKnown'
    BY <1>1, <1>2, <1>4, <1>5, <2>5 DEF Ends, EndsKnown, RightEnd
  <2>8. Owed'
    BY <1>1, <1>2, <1>4, <1>5, <1>8, <2>5 DEF Ends, Owed, Carried
  <2> QED BY <2>6, <2>7, <2>8 DEF Ends
<1> QED BY <1>1, <1>7, <1>8 DEF SetHomeMode

LEMMA DoCallKeeps == ASSUME Ends, doc \in Doc, DoCall PROVE Ends'
<1> DEFINE c == Head(Top.todo).sid
           r == doc.row[c]
           deep == [Rest EXCEPT !.todo = r.action \o @, !.chain = @ \cup {c}]
<1>1. Running /\ Top.todo # <<>> /\ Head(Top.todo).do = "call" /\ UNCHANGED <<heap, owes, doc, up>>
  BY DEF DoCall, Next1, OutsideRun, engine
<1>2. Top \in Run
  BY <1>1, InRun DEF Ends
<1>3. Rest \in Run /\ Head(Top.todo) \in Act /\ Abort(Top) \in Run
  BY <1>1, <1>2, RestIsRun, RunGoesOn DEF Rest
<1>4. c \in Scenario
  BY <1>1, <1>3 DEF Act
<1>5. Rest.sid = Top.sid /\ Rest.end = Top.end /\ Rest.on = Top.on
      /\ Abort(Top).sid = Top.sid /\ Abort(Top).end = Top.end /\ Abort(Top).on = Top.on
  BY <1>2 DEF Rest, Run, Abort
<1>6. ASSUME r # None
      PROVE  deep \in Run /\ deep.sid = Top.sid /\ deep.end = Top.end /\ deep.on = Top.on
  <2>1. r.action \in Seq(Act)
    BY <1>4, <1>6, RowFacts
  <2>2. Rest.todo \in Seq(Act)
    BY <1>3 DEF Run
  <2> HIDE DEF Act
  <2>3. r.action \o Rest.todo \in Seq(Act)
    BY <2>1, <2>2, ConcatProperties
  <2> HIDE DEF r, c
  <2> QED BY <2>3, <1>3, <1>4, <1>5 DEF Run
<1>7. Within(IF r = None \/ c \in Top.chain THEN Abort(Top) ELSE IF Inactive(r) THEN Rest ELSE deep)
  BY DEF DoCall
<1>8. \E g \in Run : Within(g) /\ g.sid = Top.sid /\ g.end = Top.end /\ g.on = Top.on
  BY <1>3, <1>5, <1>6, <1>7
<1> QED BY <1>1, <1>8, GoesOnKeeps

LEMMA RunAbortsKeeps == ASSUME Ends, RunAborts PROVE Ends'
<1>1. Running /\ Within(Abort(Top)) /\ UNCHANGED <<heap, owes, doc, up>>
  BY DEF RunAborts, OutsideRun, engine
<1>2. Top \in Run
  BY <1>1, InRun DEF Ends
<1>3. Abort(Top) \in Run /\ Abort(Top).sid = Top.sid /\ Abort(Top).end = Top.end
      /\ Abort(Top).on = Top.on
  BY <1>2, RunGoesOn DEF Abort, Run
<1> QED BY <1>1, <1>3, GoesOnKeeps

\* A run that is over leaves what it switched on to its end timer; without an
\* end it owes nothing.
LEMMA FinishKeeps == ASSUME Ends, Finish PROVE Ends'
<1> DEFINE e == [kind |-> "end", sid |-> Top.sid, on |-> Top.on]
<1>1. Running /\ UNCHANGED <<owes, doc, up>> /\ stack' = Pop
      /\ heap' = IF Top.end THEN heap \cup {e} ELSE heap
  BY DEF Finish, OutsideRun, engine
<1>2. Top \in Run /\ Pop \in Seq(Frame) /\ RunsOf(stack) = RunsOf(Pop) \cup {Top} /\ up = "run"
  BY <1>1, InRun DEF Ends
<1>3. e \in Entry /\ e.kind = "end" /\ e.sid = Top.sid /\ e.on = Top.on
  BY <1>2 DEF Entry, Run
<1>4. Top.end = doc.row[Top.sid].end
  BY <1>2 DEF Ends, EndsKnown, RightEnd
<1> HIDE DEF e
<1>5. Shape' /\ RestsUnlessUp'
  BY <1>1, <1>2, <1>3 DEF Ends, Shape, RestsUnlessUp
<1>6. EndsKnown'
  BY <1>1, <1>2, <1>3 DEF Ends, EndsKnown, RightEnd
<1>7. ASSUME NEW s \in Scenario, NEW l \in Load, Carried(s, l), doc.row[s].end
      PROVE  Carried(s, l)'
  <2>1. CASE Top.end
    BY <1>1, <1>2, <1>3, <1>7, <2>1 DEF Carried
  <2>2. CASE ~Top.end
    <3>1. Top.sid # s
      BY <1>4, <1>7, <2>2
    <3> QED BY <1>1, <1>2, <1>7, <2>2, <3>1 DEF Carried
  <2> QED BY <2>1, <2>2
<1>8. Owed'
  BY <1>1, <1>7 DEF Ends, Owed
<1> QED BY <1>5, <1>6, <1>8 DEF Ends

\* A scene switched off owes nothing any more.
LEMMA ObeyKeeps == ASSUME Ends, doc \in Doc, Obey PROVE Ends'
<1> DEFINE s == Top.scene
           r == doc.row[s]
<1>1. stack \in Seq(Frame) /\ stack # <<>> /\ "verb" \in DOMAIN Top /\ up = "run"
      /\ UNCHANGED <<doc, up>>
  BY DEF Obey, Ends, Shape, OutsideRun, engine
<1>2. Top \in Frame /\ Pop \in Seq(Frame) /\ RunsOf(stack) = RunsOf(Pop) \cup ({Top} \cap Run)
  BY <1>1, StackTop
<1>3. Top \in Command
  BY <1>1, <1>2, FrameKinds
<1>4. RunsOf(Pop) = RunsOf(stack) /\ s \in Scenario
  <2>1. {Top} \cap Run = {}
    BY <1>3, RunIsNoOther
  <2> QED BY <1>2, <1>3, <2>1 DEF Command
<1>5. CASE Inactive(r) \/ ~r.scene
  <2>1. stack' = Pop /\ UNCHANGED <<heap, owes>>
    BY <1>5 DEF Obey
  <2> QED BY <1>1, <1>2, <1>4, <2>1 DEF Ends, Shape, RestsUnlessUp, EndsKnown, RightEnd, Owed, Carried
<1>6. CASE ~(Inactive(r) \/ ~r.scene) /\ RunFrom(Pop, s)
  BY <1>1, <1>2, <1>4, <1>6, RunFromKeeps DEF Inactive
<1>7. ASSUME stack' = Pop, heap' = heap \ Of(s), NEW ls \in SUBSET Lights(r),
             owes' = [Off(ls, owes) EXCEPT ![s] = [l \in Load |-> "no"]]
      PROVE  Ends'
  <2>1. owes' \in Marks /\ (\A l \in Load : owes'[s][l] = "no")
        /\ \A t \in Scenario, l \in Load : owes'[t][l] = "latest" => t # s /\ owes[t][l] = "latest"
    BY <1>4, <1>7 DEF Ends, Shape, Marks, Off
  <2>2. Shape' /\ RestsUnlessUp'
    BY <1>1, <1>2, <1>7, <2>1 DEF Ends, Shape, RestsUnlessUp
  <2>3. EndsKnown'
    BY <1>1, <1>4, <1>7 DEF Ends, EndsKnown, RightEnd
  <2>4. \A e \in heap : e \notin heap' => Owner(e) = s
    BY <1>7 DEF Of
  <2>5. Owed'
    BY <1>1, <1>4, <1>7, <2>1, <2>4 DEF Ends, Owed, Carried, Owner
  <2> QED BY <2>2, <2>3, <2>5 DEF Ends
<1> QED BY <1>5, <1>6, <1>7 DEF Obey

-----------------------------------------------------------------------------
(* The steps of the loop. *)

\* Adoption between two runs drops what changed scenarios left behind and
\* keeps the rest.
LEMMA AdoptKeeps ==
  ASSUME Ends, NEW d \in Doc, Adopt(d), RunsOf(stack) = {},
         stack' \in Seq(Frame), RunsOf(stack') = {}, RestsUnlessUp'
  PROVE  Ends'
<1>1. doc' = d /\ heap' = {e \in heap : Owner(e) \notin Changed(d)}
      /\ owes' = [s \in Scenario |-> IF s \in Changed(d) THEN [l \in Load |-> "no"] ELSE owes[s]]
  BY DEF Adopt
<1>2. owes' \in Marks
      /\ \A s \in Scenario, l \in Load : owes'[s][l] = "latest" =>
           s \notin Changed(d) /\ owes[s][l] = "latest"
  BY <1>1 DEF Ends, Shape, Marks
<1>3. \A s \in Scenario : s \notin Changed(d) => doc'.row[s] = doc.row[s]
  BY <1>1 DEF Changed
<1>4. Shape'
  BY <1>1, <1>2 DEF Ends, Shape
<1>5. EndsKnown'
  <2>1. ASSUME NEW e \in heap', e.kind = "cont"
        PROVE  RightEnd(e.run)'
    <3>1. e \in heap /\ e \in Entry /\ Owner(e) \notin Changed(d)
      BY <1>1, <2>1 DEF Ends, Shape
    <3>2. e.run.sid \in Scenario /\ e.run.sid \notin Changed(d)
      BY <3>1, <2>1 DEF Entry, Owner, Run
    <3> QED BY <3>1, <3>2, <2>1, <1>3 DEF Ends, EndsKnown, RightEnd
  <2> QED BY <2>1 DEF EndsKnown
<1>6. Owed'
  BY <1>1, <1>2, <1>3 DEF Ends, Owed, Carried, Owner
<1> QED BY <1>4, <1>5, <1>6 DEF Ends

LEMMA ReloadKeeps ==
  ASSUME Ends, disk \in Doc, Reload, RunsOf(stack) = {},
         stack' \in Seq(Frame), RunsOf(stack') = {}, RestsUnlessUp'
  PROVE  Ends'
<1>1. CASE UNCHANGED <<doc, heap, owes>>
  BY <1>1 DEF Ends, Shape, EndsKnown, RightEnd, Owed, Carried
<1>2. CASE Adopt(disk)
  BY <1>2, AdoptKeeps
<1> QED BY <1>1, <1>2 DEF Reload

\* Tick, a message and a scene command.
LEMMA LoopKeeps == ASSUME Ends, disk \in Doc, Tick \/ Message \/ SceneCommand PROVE Ends'
<1>1. Reload /\ stack = <<>> /\ up' = up /\ up = "run"
  BY DEF Tick, Message, SceneCommand, Idle
<1>2. stack' = <<>> \/ \E f \in Dispatch \cup Command : stack' = <<f>>
  <2>1. [event |-> "state", todo |-> Scenario] \in Dispatch
    BY DEF Dispatch, Event
  <2>2. \A s \in Scenario, v \in {"on", "off"} : [verb |-> v, scene |-> s] \in Command
    BY DEF Command
  <2>3. CASE Tick
    BY <1>1, <2>3 DEF Tick
  <2>4. CASE Message
    BY <2>1, <2>4 DEF Message
  <2>5. CASE SceneCommand
    BY <2>2, <2>5 DEF SceneCommand
  <2> QED BY <2>3, <2>4, <2>5
<1>3. stack' \in Seq(Frame) /\ RunsOf(stack') = {} /\ RunsOf(stack) = {}
  <2>1. \A f \in Dispatch \cup Command : f \in Frame /\ {f} \cap Run = {}
    BY RunIsNoOther
  <2>2. \A f \in Dispatch \cup Command : <<f>> \in Seq(Frame) /\ RunsOf(<<f>>) = {}
    BY <2>1, StackOne
  <2> QED BY <1>1, <1>2, <2>2, StackOne
<1>4. RestsUnlessUp'
  BY <1>1 DEF RestsUnlessUp
<1> QED BY <1>1, <1>3, <1>4, ReloadKeeps

LEMMA ClockKeeps == ASSUME Ends, Clock PROVE Ends'
<1>1. stack = <<>> /\ up = "run" /\ UNCHANGED <<heap, owes, doc, up>>
      /\ stack' = <<[event |-> "clock", todo |-> Scenario]>>
  BY DEF Clock, Due, Idle, OutsideRun, engine
<1>2. [event |-> "clock", todo |-> Scenario] \in Dispatch
  BY DEF Dispatch, Event
<1>3. stack' \in Seq(Frame) /\ RunsOf(stack') = {} /\ RunsOf(stack) = {}
  BY <1>1, <1>2, StackOne, RunIsNoOther
<1> QED BY <1>1, <1>3 DEF Ends, Shape, RestsUnlessUp, EndsKnown, RightEnd, Owed, Carried

LEMMA FireEveryKeeps ==
  ASSUME Ends, doc \in Doc, NEW s \in Scenario, FireEvery(s) PROVE Ends'
<1>1. up = "run" /\ UNCHANGED <<doc, up>> /\ stack \in Seq(Frame)
  BY DEF FireEvery, Due, Idle, engine, Ends, Shape
<1>2. \/ ~Inactive(doc.row[s]) /\ RunFrom(stack, s)
      \/ UNCHANGED <<stack, heap, owes>>
  BY DEF FireEvery
<1>3. CASE ~Inactive(doc.row[s]) /\ RunFrom(stack, s)
  BY <1>1, <1>3, RunFromKeeps DEF Inactive
<1>4. CASE UNCHANGED <<stack, heap, owes>>
  BY <1>1, <1>4 DEF Ends, Shape, RestsUnlessUp, EndsKnown, RightEnd, Owed, Carried
<1> QED BY <1>2, <1>3, <1>4

LEMMA RunNowKeeps ==
  ASSUME Ends, doc \in Doc, NEW s \in Scenario, RunNow(s) PROVE Ends'
<1>1. up = "run" /\ UNCHANGED <<doc, up>> /\ stack = <<>> /\ RunFrom(<<>>, s) /\ doc.row[s] # None
  BY DEF RunNow, Due, Idle, OutsideRun, engine, Inactive
<1> QED BY <1>1, StackOne, RunFromKeeps

LEMMA FireContKeeps == ASSUME Ends, NEW e \in heap, FireCont(e) PROVE Ends'
<1>1. up = "run" /\ UNCHANGED <<doc, up, owes>> /\ stack = <<>> /\ e.kind = "cont"
      /\ heap' = heap \ {e} /\ stack' = <<e.run>>
  BY DEF FireCont, Due, Idle, OutsideRun, engine
<1>2. e.run \in Run /\ RightEnd(e.run)
  BY <1>1 DEF Ends, Shape, Entry, EndsKnown
<1>3. stack' \in Seq(Frame) /\ RunsOf(stack') = {e.run} /\ RunsOf(stack) = {}
  BY <1>1, <1>2, StackOne, RunIsNoOther
<1>4. Shape' /\ RestsUnlessUp'
  BY <1>1, <1>3 DEF Ends, Shape, RestsUnlessUp
<1>5. EndsKnown'
  BY <1>1, <1>2, <1>3 DEF Ends, EndsKnown, RightEnd
<1>6. Owed'
  BY <1>1, <1>3 DEF Ends, Owed, Carried
<1> QED BY <1>4, <1>5, <1>6 DEF Ends

LEMMA FireEndKeeps == ASSUME Ends, NEW e \in heap, FireEnd(e) PROVE Ends'
<1>1. up = "run" /\ UNCHANGED <<doc, up, stack>> /\ e.kind = "end" /\ heap' = heap \ {e}
  BY DEF FireEnd, Due, Idle, OutsideRun, engine
<1>2. PICK ls \in SUBSET e.on :
        owes' = [Off(ls, owes) EXCEPT ![e.sid] = [l \in Load |-> IF l \in e.on THEN "no" ELSE @[l]]]
  BY DEF FireEnd
<1>3. e.sid \in Scenario /\ e.on \subseteq Load
  BY <1>1 DEF Ends, Shape, Entry
<1>4. owes' \in Marks
      /\ \A s \in Scenario, l \in Load : owes'[s][l] = "latest" =>
           owes[s][l] = "latest" /\ ~(s = e.sid /\ l \in e.on)
  BY <1>2, <1>3 DEF Ends, Shape, Marks, Off
<1>5. Shape' /\ RestsUnlessUp'
  BY <1>1, <1>4 DEF Ends, Shape, RestsUnlessUp
<1>6. EndsKnown'
  BY <1>1 DEF Ends, EndsKnown, RightEnd
<1>7. Owed'
  BY <1>1, <1>4 DEF Ends, Owed, Carried
<1> QED BY <1>5, <1>6, <1>7 DEF Ends

LEMMA StartKeeps ==
  ASSUME Ends, disk \in Doc, Dies \/ EngineLoads \/ EngineStamps PROVE Ends'
<1>1. CASE Dies
  <2>1. stack' = <<>> /\ heap' = {} /\ owes' = [s \in Scenario |-> [l \in Load |-> "no"]]
    BY <1>1 DEF Dies
  <2>2. stack' \in Seq(Frame) /\ RunsOf(stack') = {}
    BY <2>1, StackOne
  <2> QED BY <2>1, <2>2 DEF Ends, Shape, Marks, RestsUnlessUp, EndsKnown, Owed
<1>2. CASE EngineLoads
  <2>1. up = "down" /\ stack' = stack /\ Adopt(disk)
    BY <1>2 DEF EngineLoads
  <2>2. stack = <<>>
    BY <2>1 DEF Ends, RestsUnlessUp
  <2>3. stack' \in Seq(Frame) /\ RunsOf(stack) = {} /\ RunsOf(stack') = {} /\ RestsUnlessUp'
    BY <2>1, <2>2, StackOne DEF RestsUnlessUp
  <2> QED BY <2>1, <2>3, AdoptKeeps
<1>3. CASE EngineStamps
  <2>1. stack = <<>> /\ up' = "run" /\ UNCHANGED <<heap, owes, doc>>
        /\ stack' = <<[event |-> "boot", todo |-> Scenario]>>
    BY <1>3 DEF EngineStamps, Ends, RestsUnlessUp
  <2>2. [event |-> "boot", todo |-> Scenario] \in Dispatch
    BY DEF Dispatch, Event
  <2>3. stack' \in Seq(Frame) /\ RunsOf(stack') = {} /\ RunsOf(stack) = {}
    BY <2>1, <2>2, StackOne, RunIsNoOther
  <2> QED BY <2>1, <2>3 DEF Ends, Shape, RestsUnlessUp, EndsKnown, RightEnd, Owed, Carried
<1> QED BY <1>1, <1>2, <1>3

-----------------------------------------------------------------------------
(* The invariant. *)

LEMMA Bounds == MaxEdit \in Nat /\ MaxDeath \in Nat
BY RulesAssumption

LEMMA CountedStep == ASSUME EveryInv, Counted, [Next]_vars PROVE Counted'
<1> USE DEF engine, store, OutsideRun
<1>1. ASSUME UNCHANGED <<adopted, up, cloud, edits, deaths>>, seen' \in BOOLEAN,
             loop' \in {"drain", "timers"}
      PROVE  Counted'
  BY <1>1 DEF Counted
<1>2. CASE CommandLoads \/ CommandSaves
  <2>1. /\ UNCHANGED <<adopted, up, loop, deaths>> /\ seen' \in BOOLEAN
        /\ \/ edits' = edits /\ edits < MaxEdit
           \/ edits' = edits + 1 /\ edits < MaxEdit /\ cloud' = None
    BY <1>2 DEF CommandLoads, CommandSaves, Counted
  <2>2. edits' \in 0 .. MaxEdit /\ (cloud' # None => edits' < MaxEdit)
    BY <2>1, Bounds DEF Counted
  <2> QED BY <2>1, <2>2 DEF Counted
<1>3. CASE DoMode
  BY <1>3, <1>1 DEF DoMode, SetHomeMode, Counted
<1>4. CASE Thread /\ ~DoMode
  <2>1. UNCHANGED <<engine, cloud, edits, deaths>>
    BY <1>4 DEF Thread, DispatchTo, DispatchEnds, Obey, DoSet, DoDelay, DoCall, RunAborts, Finish
  <2> QED BY <2>1 DEF Counted
<1>5. ASSUME Reload PROVE adopted' \in HomeMode /\ seen' \in BOOLEAN
  <2>1. disk.mode \in HomeMode
    BY DEF EveryInv, Documents, Doc
  <2> QED BY <1>5, <2>1 DEF Reload, Adopt, Counted
<1>6. CASE Tick \/ Message \/ SceneCommand
  BY <1>5, <1>6 DEF Tick, Message, SceneCommand, Counted
<1>7. CASE DrainEnds \/ Clock \/ (\E s \in Scenario : FireEvery(s) \/ RunNow(s))
           \/ (\E e \in heap : FireCont(e) \/ FireEnd(e))
  <2>1. UNCHANGED <<adopted, seen, up, cloud, edits, deaths>> /\ loop' \in {"drain", "timers"}
    BY <1>7 DEF DrainEnds, Clock, FireEvery, RunNow, FireCont, FireEnd, Counted
  <2> QED BY <2>1, <1>1 DEF Counted
<1>8. CASE Dies
  <2>1. deaths' \in 0 .. MaxDeath
    BY <1>8, Bounds DEF Dies, Counted
  <2> QED BY <1>8, <2>1 DEF Dies, Counted, HomeMode
<1>9. CASE EngineLoads \/ EngineStamps
  <2>1. disk.mode \in HomeMode
    BY DEF EveryInv, Documents, Doc
  <2> QED BY <1>9, <2>1 DEF EngineLoads, EngineStamps, Adopt, Counted
<1>10. CASE UNCHANGED vars
  BY <1>10 DEF vars, Counted
<1> QED BY <1>2, <1>3, <1>4, <1>6, <1>7, <1>8, <1>9, <1>10 DEF Next

LEMMA EndsStep == ASSUME EveryInv, Ends, [Next]_vars PROVE Ends'
<1>1. disk \in Doc /\ doc \in Doc
  BY DEF EveryInv, Documents
<1>2. ASSUME UNCHANGED <<stack, heap, owes, doc, up>>
      PROVE  Ends'
  BY <1>2 DEF Ends, Shape, RestsUnlessUp, EndsKnown, RightEnd, Owed, Carried
<1>3. CASE CommandLoads \/ CommandSaves \/ DrainEnds \/ UNCHANGED vars
  BY <1>2, <1>3 DEF CommandLoads, CommandSaves, DrainEnds, vars, engine, store
<1>4. CASE Thread
  BY <1>1, <1>4, DispatchToKeeps, DispatchEndsKeeps, ObeyKeeps, DoSetKeeps, DoDelayKeeps,
     DoModeKeeps, DoCallKeeps, RunAbortsKeeps, FinishKeeps DEF Thread
<1>5. CASE Tick \/ Message \/ SceneCommand
  BY <1>1, <1>5, LoopKeeps
<1>6. CASE Clock \/ Dies \/ EngineLoads \/ EngineStamps
  BY <1>1, <1>6, ClockKeeps, StartKeeps
<1>7. CASE \E s \in Scenario : FireEvery(s) \/ RunNow(s)
  BY <1>1, <1>7, FireEveryKeeps, RunNowKeeps
<1>8. CASE \E e \in heap : FireCont(e) \/ FireEnd(e)
  BY <1>8, FireContKeeps, FireEndKeeps
<1> QED BY <1>3, <1>4, <1>5, <1>6, <1>7, <1>8 DEF Next

LEMMA InvInit == Init => Inv
<1> SUFFICES ASSUME Init PROVE Inv
  OBVIOUS
<1>1. EveryInv
  BY EveryInit
<1>2. Counted
  <2>1. 0 \in 0 .. MaxEdit /\ 0 \in 0 .. MaxDeath
    BY Bounds
  <2> QED BY <2>1 DEF Init, Counted, HomeMode
<1>3. Ends
  <2>1. stack = <<>> /\ heap = {} /\ owes = [s \in Scenario |-> [l \in Load |-> "no"]]
    BY DEF Init
  <2>2. stack \in Seq(Frame) /\ RunsOf(stack) = {}
    BY <2>1, StackOne
  <2> QED BY <2>1, <2>2 DEF Ends, Shape, Marks, RestsUnlessUp, EndsKnown, Owed
<1> QED BY <1>1, <1>2, <1>3 DEF Inv

\* The strengthened invariant: documents and their timers, types, and runs that
\* carry what is owed.
THEOREM InvHolds == Spec => []Inv
<1>1. Inv /\ [Next]_vars => Inv'
  BY EveryStep, CountedStep, EndsStep DEF Inv
<1> QED BY <1>1, InvInit, PTL DEF Spec

\* Documents, timers, heap and stack of the engine stay within their types.
THEOREM TypeCorrect == Spec => []TypeOK
<1>1. Inv => TypeOK
  BY DEF Inv, EveryInv, Documents, Timers, Counted, Ends, Shape, Marks, Frame, TypeOK
<1> QED BY <1>1, InvHolds, PTL

\* What is carried is in one of the places LatestRunEnds looks at.
LEMMA CarriedIsFound ==
  ASSUME Shape, NEW s \in Scenario, NEW l \in Load, Carried(s, l)
  PROVE  l \in InHeap(s) \cup InStack(s)
<1>1. (\E r \in RunsOf(stack) : r.sid = s /\ l \in r.on) \/ HeapCarries(s, l)
  BY DEF Carried, HeapCarries
<1> QED BY <1>1, StackCarries, HeapHas

\* What the latest run of a scenario with an end switched on is still known to
\* the running call, its continuation or its end timer, unless a failed save of
\* the home mode tore the run.
THEOREM NothingForgotten == Spec => []LatestRunEnds
<1>1. Inv => LatestRunEnds
  BY CarriedIsFound DEF Inv, Ends, Owed, LatestRunEnds
<1> QED BY <1>1, InvHolds, PTL
=============================================================================
