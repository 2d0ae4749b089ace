-------------------------- MODULE CloudAgentProofs --------------------------
(***************************************************************************)
(* Proofs about CloudAgent, for any Threshold, any number of identities,   *)
(* journal lines and mishaps and either mode of the cloud.  That the       *)
(* binding is never erased by doubt needs a tunnel that stops when it is   *)
(* told to (~StopMayFail).                                                 *)
(***************************************************************************)
EXTENDS CloudAgent, FiniteSetTheorems, SequenceTheorems, WellFoundedInduction, TLAPS

LEMMA Bounds ==
  Threshold \in Nat \ {0} /\ MaxGen \in Nat /\ MaxLines \in Nat /\ MaxMishap \in Nat
BY CloudAssumption

\* The largest index of a set of lines is one of them.
LEMMA MaxIsThere ==
  ASSUME NEW n \in Nat, NEW S \in SUBSET (0 .. n), S # {}
  PROVE  Max(S) \in S /\ \A i \in S : i <= Max(S)
<1> DEFINE T == {n - i : i \in S}
<1>1. T \subseteq Nat /\ T # {}
  <2>1. \A i \in S : n - i \in Nat
    OBVIOUS
  <2>2. PICK i \in S : TRUE
    OBVIOUS
  <2>3. n - i \in T
    OBVIOUS
  <2> QED BY <2>1, <2>3
<1>2. \A x, y \in Nat : x < y => <<x, y>> \in OpToRel(<, Nat)
  BY DEF OpToRel
<1>3. PICK m \in T : \A y \in T : ~(<<y, m>> \in OpToRel(<, Nat))
  BY <1>1, NatLessThanWellFounded, WFMin
<1>4. \A y \in T : ~(y < m)
  BY <1>1, <1>2, <1>3
<1>5. PICK k \in S : m = n - k
  OBVIOUS
<1>6. \A i \in S : k >= i
  <2> SUFFICES ASSUME NEW i \in S PROVE k >= i
    OBVIOUS
  <2>1. n - i \in T /\ ~(n - i < n - k)
    BY <1>4, <1>5
  <2> QED BY <2>1
<1> QED BY <1>5, <1>6 DEF Max

-----------------------------------------------------------------------------
(* The parts of the invariant. *)

Line == [cls : Class \cup {"ok"}, gen : 1 .. MaxGen]

\* The agent's memory and the cloud's record; a counter below the verdict.
Typed ==
  /\ TypeOK
  /\ pc = "active" => hb.count < Threshold /\ fr.count < Threshold

\* Where the agent may be with an enrolled agent.conf, and where without.
EnrolledOK ==
  /\ pc \in {"standby", "pairing", "toml", "secret", "save"} => ~conf.enrolled
  /\ pc \in {"enrolled", "active"} \cup Down => conf.enrolled
  /\ code = "open" => pc = "pairing"

CardOK ==
  /\ status \in Erased => ~conf.enrolled
  /\ pc # "dead" /\ status = "active" => conf.enrolled
  /\ pc \in {"toml", "secret", "save", "enrolled"} => status \in {"pairing", "enrolling"}
  /\ pc = "pairing" => status = "pairing"

\* A board without an identity has no tunnel; one that has an identity has the
\* tunnel of the latest.
TunnelOK ==
  /\ ~conf.enrolled \/ pc \in Down \ {"stop"} => frpc = 0 /\ ~frpcOn
  /\ conf.enrolled => frpc \in {0, cgen} /\ toml \in {0, cgen}
  /\ pc \in {"secret", "save"} => toml = cgen

\* From k on the journal holds lines of the present identity only.
Fresh(k) == k # None => \A i \in 1 .. Len(lines) : i > k => lines[i].gen = cgen
FreshOK ==
  /\ conf.enrolled => Fresh(cursor) /\ Fresh(cursorFile) /\ Fresh(since)
  /\ \A i \in 1 .. Len(lines) : lines[i].gen <= cgen

\* Refusals of the present identity in the journal, up to line k.
RefusedTo(k) == {i \in 1 .. Len(lines) : lines[i].cls # "ok" /\ lines[i].gen = cgen /\ i <= k}
Refused == {i \in 1 .. Len(lines) : lines[i].cls # "ok" /\ lines[i].gen = cgen}

\* The counters stand for refusals of the present identity, each once.
CountOK ==
  /\ ref < Threshold => Cardinality(Refused) <= ref
  /\ pc = "active" => hb.count <= ref
  /\ pc = "active" /\ fr.count > 0 =>
       cursor # None /\ fr.count <= Cardinality(RefusedTo(cursor))
  /\ pc \in Down => ref >= Threshold

-----------------------------------------------------------------------------
(* Enrollment and the card. *)

LEMMA EnrolledStep == EnrolledOK /\ [Next]_vars => EnrolledOK'
<1> SUFFICES ASSUME EnrolledOK, [Next]_vars PROVE EnrolledOK'
  OBVIOUS
<1> USE DEF EnrolledOK, Down, disk, unit, mem, read
<1>1. CASE OwnerClaims \/ OwnerDrops \/ FrpcDials \/ PairButton \/ UNCHANGED vars
  BY <1>1 DEF OwnerClaims, OwnerDrops, FrpcDials, PairButton, Issue, vars
<1>2. CASE Pairing
  <2>1. CASE ClaimPost
    BY <2>1 DEF ClaimPost
  <2>2. CASE ClaimPoll
    BY <2>2 DEF ClaimPoll
  <2>3. CASE ClaimExpires
    BY <2>3 DEF ClaimExpires
  <2>4. CASE run_token_flow
    BY <2>4 DEF run_token_flow, Issue
  <2>5. CASE WriteToml
    BY <2>5 DEF WriteToml
  <2>6. CASE SaveSecret
    BY <2>6 DEF SaveSecret
  <2>7. CASE SaveEnrolled
    BY <2>7 DEF SaveEnrolled, DropCursor
  <2>8. CASE EnrollDone
    BY <2>8 DEF EnrollDone, EnterActive, EnsureFrpc
  <2> QED BY <1>2, <2>1, <2>2, <2>3, <2>4, <2>5, <2>6, <2>7, <2>8 DEF Pairing
<1>3. CASE Evidence
  BY <1>3 DEF Evidence, TickNoCursor, TickStaleCursor, TickUnsaved, TickRead, Heartbeat, Tick,
     CleanTick, TickUnchanged
<1>4. CASE StandDown
  <2>1. CASE StopTunnel
    BY <2>1 DEF StopTunnel
  <2>2. CASE WipeSecret
    BY <2>2 DEF WipeSecret
  <2>3. CASE WipeToml
    BY <2>3 DEF WipeToml
  <2>4. CASE WipeFails
    BY <2>4 DEF WipeFails
  <2>5. CASE FinishStandDown
    BY <2>5 DEF FinishStandDown, StateForClass
  <2> QED BY <1>4, <2>1, <2>2, <2>3, <2>4, <2>5 DEF StandDown
<1>5. CASE AgentDies \/ AgentStarts
  BY <1>5 DEF AgentDies, AgentStarts, Torn, NoMarker, EnterActive
<1> QED BY <1>1, <1>2, <1>3, <1>4, <1>5 DEF Next

LEMMA CardStep == EnrolledOK /\ CardOK /\ [Next]_vars => CardOK'
<1> SUFFICES ASSUME EnrolledOK, CardOK, [Next]_vars PROVE CardOK'
  OBVIOUS
<1> USE DEF EnrolledOK, CardOK, Erased, Down, disk, unit, mem, read
<1>1. CASE OwnerClaims \/ OwnerDrops \/ FrpcDials \/ PairButton \/ UNCHANGED vars
  BY <1>1 DEF OwnerClaims, OwnerDrops, FrpcDials, PairButton, Issue, vars
<1>2. CASE Pairing
  <2>1. CASE ClaimPost
    BY <2>1 DEF ClaimPost
  <2>2. CASE ClaimPoll
    BY <2>2 DEF ClaimPoll
  <2>3. CASE ClaimExpires
    BY <2>3 DEF ClaimExpires
  <2>4. CASE run_token_flow
    BY <2>4 DEF run_token_flow, Issue
  <2>5. CASE WriteToml
    BY <2>5 DEF WriteToml
  <2>6. CASE SaveSecret
    BY <2>6 DEF SaveSecret
  <2>7. CASE SaveEnrolled
    BY <2>7 DEF SaveEnrolled, DropCursor
  <2>8. CASE EnrollDone
    BY <2>8 DEF EnrollDone, EnterActive, EnsureFrpc
  <2> QED BY <1>2, <2>1, <2>2, <2>3, <2>4, <2>5, <2>6, <2>7, <2>8 DEF Pairing
<1>3. CASE Evidence
  BY <1>3 DEF Evidence, TickNoCursor, TickStaleCursor, TickUnsaved, TickRead, Heartbeat, Tick,
     CleanTick, TickUnchanged
<1>4. CASE StandDown
  <2>1. CASE StopTunnel
    BY <2>1 DEF StopTunnel
  <2>2. CASE WipeSecret
    BY <2>2 DEF WipeSecret
  <2>3. CASE WipeToml
    BY <2>3 DEF WipeToml
  <2>4. CASE WipeFails
    BY <2>4 DEF WipeFails
  <2>5. CASE FinishStandDown
    BY <2>5 DEF FinishStandDown, StateForClass
  <2> QED BY <1>4, <2>1, <2>2, <2>3, <2>4, <2>5 DEF StandDown
<1>5. CASE AgentDies
  BY <1>5 DEF AgentDies, Torn, NoMarker
<1>6. CASE AgentStarts
  BY <1>6 DEF AgentStarts, EnterActive, StateForClass
<1> QED BY <1>1, <1>2, <1>3, <1>4, <1>5, <1>6 DEF Next

-----------------------------------------------------------------------------
(* The tunnel. *)

LEMMA TunnelStep ==
  ~StopMayFail /\ EnrolledOK /\ TunnelOK /\ [Next]_vars => TunnelOK'
<1> SUFFICES ASSUME ~StopMayFail, EnrolledOK, TunnelOK, [Next]_vars PROVE TunnelOK'
  OBVIOUS
<1> USE DEF EnrolledOK, TunnelOK, Down, disk, unit, mem, read
<1>1. CASE OwnerClaims \/ OwnerDrops \/ FrpcDials \/ PairButton \/ UNCHANGED vars
  BY <1>1 DEF OwnerClaims, OwnerDrops, FrpcDials, PairButton, Issue, vars
<1>2. CASE Pairing
  <2>1. CASE ClaimPost
    BY <2>1 DEF ClaimPost
  <2>2. CASE ClaimPoll
    BY <2>2 DEF ClaimPoll
  <2>3. CASE ClaimExpires
    BY <2>3 DEF ClaimExpires
  <2>4. CASE run_token_flow
    BY <2>4 DEF run_token_flow, Issue
  <2>5. CASE WriteToml
    BY <2>5 DEF WriteToml
  <2>6. CASE SaveSecret
    BY <2>6 DEF SaveSecret
  <2>7. CASE SaveEnrolled
    BY <2>7 DEF SaveEnrolled, DropCursor
  <2>8. CASE EnrollDone
    BY <2>8 DEF EnrollDone, EnterActive, EnsureFrpc
  <2> QED BY <1>2, <2>1, <2>2, <2>3, <2>4, <2>5, <2>6, <2>7, <2>8 DEF Pairing
<1>3. CASE Evidence
  BY <1>3 DEF Evidence, TickNoCursor, TickStaleCursor, TickUnsaved, TickRead, Heartbeat, Tick,
     CleanTick, TickUnchanged, EnsureFrpc
<1>4. CASE StandDown
  <2>1. CASE StopTunnel
    BY <2>1 DEF StopTunnel
  <2>2. CASE WipeSecret
    BY <2>2 DEF WipeSecret
  <2>3. CASE WipeToml
    BY <2>3 DEF WipeToml
  <2>4. CASE WipeFails
    BY <2>4 DEF WipeFails
  <2>5. CASE FinishStandDown
    BY <2>5 DEF FinishStandDown, StateForClass
  <2> QED BY <1>4, <2>1, <2>2, <2>3, <2>4, <2>5 DEF StandDown
<1>5. CASE AgentDies
  <2>1. pc' = "dead" /\ toml' = toml /\ cgen' = cgen /\ frpcOn' = frpcOn
        /\ (frpc' = frpc \/ frpc' = IF frpcOn THEN toml ELSE 0)
    BY <1>5 DEF AgentDies
  <2>2. conf' = conf \/ (conf' = NoMarker /\ pc \in {"save", "mark"})
    BY <1>5 DEF AgentDies, Torn
  <2>3. CASE conf' = conf
    BY <2>1, <2>3
  <2>4. CASE conf' = NoMarker /\ pc \in {"save", "mark"}
    <3>1. frpc = 0 /\ ~frpcOn /\ ~conf'.enrolled
      BY <2>4 DEF NoMarker
    <3> QED BY <2>1, <3>1
  <2> QED BY <2>2, <2>3, <2>4
<1>6. CASE AgentStarts
  BY <1>6 DEF AgentStarts, EnterActive, EnsureFrpc
<1> QED BY <1>1, <1>2, <1>3, <1>4, <1>5, <1>6 DEF Next

-----------------------------------------------------------------------------
(* The types. *)

LEMMA ZeroIsLess == ~(0 >= Threshold) /\ 0 < Threshold
BY Bounds

LEMMA OneMore ==
  \A n \in 0 .. Threshold : n < Threshold =>
    n + 1 \in 0 .. Threshold /\ 1 \in 0 .. Threshold /\ n + 1 \in 1 .. n + 1 /\ 1 \in 1 .. n + 1
BY Bounds

LEMMA NotedRefusal ==
  ASSUME NEW t \in [cls : Class \cup {""}, count : 0 .. Threshold], NEW c \in Class,
         t.count < Threshold
  PROVE  /\ NoteRefusal(t, c) \in [cls : Class \cup {""}, count : 0 .. Threshold]
         /\ NoteRefusal(t, c).count \in 1 .. t.count + 1
<1>1. t.count \in 0 .. Threshold
  OBVIOUS
<1>2. \A n \in 0 .. Threshold : n < Threshold =>
        n + 1 \in 0 .. Threshold /\ 1 \in 0 .. Threshold /\ n + 1 \in 1 .. n + 1 /\ 1 \in 1 .. n + 1
  BY OneMore
<1>3. \A n \in 0 .. Threshold : [cls |-> c, count |-> n] \in [cls : Class \cup {""}, count : 0 .. Threshold]
  OBVIOUS
<1> QED BY <1>1, <1>2, <1>3 DEF NoteRefusal

LEMMA NoneCounted ==
  NoRefusals \in [cls : Class \cup {""}, count : 0 .. Threshold] /\ NoRefusals.count = 0
BY Bounds DEF NoRefusals

\* The lines a read finds.
LEMMA WindowOfLines ==
  ASSUME TypeOK
  PROVE  /\ Len(lines) \in Nat /\ Len(lines) \in 0 .. MaxLines /\ Start \in 0 .. MaxLines
         /\ Window \in SUBSET (1 .. Len(lines))
         /\ \A i \in 1 .. Len(lines) : lines[i] \in Line
<1>1. lines \in Seq(Line) /\ Len(lines) <= MaxLines /\ cursor \in -1 .. MaxLines
      /\ since \in -1 .. MaxLines /\ cursorFile \in -1 .. MaxLines
  BY DEF TypeOK, Line, None
<1>2. Len(lines) \in Nat /\ \A i \in 1 .. Len(lines) : lines[i] \in Line
  BY <1>1, LenProperties, ElementOfSeq
<1>3. Len(lines) \in 0 .. MaxLines
  BY <1>1, <1>2, Bounds
<1>4. Start \in 0 .. MaxLines
  BY <1>1, <1>3, Bounds DEF Start, From, None
<1>5. Window \in SUBSET (1 .. Len(lines))
  BY <1>2, <1>4, Bounds DEF Window
<1> QED BY <1>2, <1>3, <1>4, <1>5

\* What a read of the journal with refusals in it notes.
LEMMA ReadNotes ==
  ASSUME Typed, TickRead
  PROVE  \/ CleanTick
         \/ \E i \in Window :
              /\ lines[i].cls \in Class
              /\ fr' = NoteRefusal(fr, lines[i].cls)
              /\ IF fr'.count >= Threshold THEN pc' = "stop" /\ verdict' = lines[i].cls
                 ELSE UNCHANGED <<pc, verdict>>
              /\ TickUnchanged
<1> DEFINE refusals == {i \in Window : lines[i].cls # "ok"}
<1>1. CASE refusals = {}
  BY <1>1 DEF TickRead
<1>2. CASE refusals # {}
  <2>1. Len(lines) \in Nat /\ refusals \in SUBSET (0 .. Len(lines))
    BY WindowOfLines DEF Typed
  <2> HIDE DEF refusals
  <2>2. Max(refusals) \in refusals
    BY <1>2, <2>1, MaxIsThere
  <2>3. Max(refusals) \in Window /\ lines[Max(refusals)].cls # "ok"
    BY <2>2 DEF refusals
  <2>4. lines[Max(refusals)].cls \in Class
    BY <2>3, WindowOfLines DEF Typed, Line
  <2>5. /\ fr' = NoteRefusal(fr, lines[Max(refusals)].cls)
        /\ IF fr'.count >= Threshold THEN pc' = "stop" /\ verdict' = lines[Max(refusals)].cls
           ELSE UNCHANGED <<pc, verdict>>
        /\ TickUnchanged
    BY <1>2 DEF TickRead, refusals
  <2> QED BY <2>3, <2>4, <2>5
<1> QED BY <1>1, <1>2

LEMMA CountType == ASSUME TypeOK PROVE \A b \in BOOLEAN : Count(b) \in 0 .. Threshold
<1>1. ref \in 0 .. Threshold
  BY DEF TypeOK
<1> QED BY <1>1, Bounds DEF Count

\* The types in five parts.
Gens == 0 .. MaxGen
Places == None .. MaxLines
Card == {"", "standby", "pairing", "pair_expired", "already_claimed", "claim_failed", "enrolling",
         "enroll_failed", "active", "unlink_failed"} \cup Erased
Label == {"dead", "standby", "pairing", "toml", "secret", "save", "enrolled", "active"} \cup Down
Counter == [cls : Class \cup {""}, count : 0 .. Threshold]

Words ==
  /\ cloud \in {"free", "bound", "revoked"} /\ code \in {"none", "open", "claimed"}
  /\ conf \in [enrolled : BOOLEAN, marker : Class \cup {""}]
  /\ pairReq \in BOOLEAN /\ token \in BOOLEAN /\ frpcOn \in BOOLEAN
  /\ status \in Card /\ pc \in Label /\ verdict \in Class \cup {""}
Numbers ==
  /\ cgen \in Gens /\ secret \in Gens /\ toml \in Gens /\ frpc \in Gens /\ loaded \in Gens
  /\ cursor \in Places /\ since \in Places /\ cursorFile \in Places
Journal == lines \in Seq(Line) /\ Len(lines) <= MaxLines
Counters ==
  /\ hb \in Counter /\ fr \in Counter /\ ref \in 0 .. Threshold
  /\ pc = "active" => hb.count < Threshold /\ fr.count < Threshold
Mishaps == mishaps \in 0 .. MaxMishap

LEMMA TypeParts == Typed <=> Words /\ Numbers /\ Journal /\ Counters /\ Mishaps
BY DEF Typed, TypeOK, Words, Numbers, Journal, Counters, Mishaps, Gens, Places, Counter, Line,
   Card, Label

LEMMA Members ==
  /\ {"dead", "standby", "pairing", "toml", "secret", "save", "enrolled", "active"} \subseteq Label
  /\ {"stop", "wipe", "wipeToml", "mark", "retry"} \subseteq Label
  /\ {"", "standby", "pairing", "pair_expired", "already_claimed", "claim_failed"} \subseteq Card
  /\ {"enrolling", "enroll_failed", "active", "unlink_failed", "revoked", "unlinked"} \subseteq Card
  /\ \A c : StateForClass(c) \in Card
  /\ NoMarker \in [enrolled : BOOLEAN, marker : Class \cup {""}]
BY DEF Label, Card, Down, Erased, StateForClass, NoMarker

\* An answer is "ok" or the class of a refusal.
LEMMA Answers ==
  /\ \A s : HeartbeatClass(s) = "ok" \/ HeartbeatClass(s) \in Class
  /\ \A g : LoginClass(g) = "ok" \/ LoginClass(g) \in Class
  /\ "ok" \notin Class
<1>1. Grace \in BOOLEAN
  BY CloudAssumption
<1>2. ASSUME NEW s PROVE HeartbeatClass(s) = "ok" \/ HeartbeatClass(s) \in Class
  BY <1>1 DEF HeartbeatClass, Class
<1>3. ASSUME NEW g PROVE LoginClass(g) = "ok" \/ LoginClass(g) \in Class
  BY DEF LoginClass, Class
<1> QED BY <1>2, <1>3 DEF Class

LEMMA WordsStep == Typed /\ Words /\ [Next]_vars => Words'
<1> SUFFICES ASSUME Typed, Words, [Next]_vars PROVE Words'
  OBVIOUS
<1> USE Members DEF Words, disk, unit, mem, read
<1>1. CASE OwnerClaims \/ OwnerDrops \/ FrpcDials \/ PairButton \/ UNCHANGED vars
  BY <1>1 DEF OwnerClaims, OwnerDrops, FrpcDials, PairButton, Issue, vars
<1>2. CASE Pairing
  <2>1. CASE ClaimPost
    BY <2>1 DEF ClaimPost
  <2>2. CASE ClaimPoll
    BY <2>2 DEF ClaimPoll
  <2>3. CASE ClaimExpires
    BY <2>3 DEF ClaimExpires
  <2>4. CASE run_token_flow
    BY <2>4 DEF run_token_flow, Issue
  <2>5. CASE WriteToml
    BY <2>5 DEF WriteToml
  <2>6. CASE SaveSecret
    BY <2>6 DEF SaveSecret
  <2>7. CASE SaveEnrolled
    BY <2>7 DEF SaveEnrolled, DropCursor
  <2>8. CASE EnrollDone
    BY <2>8 DEF EnrollDone, EnterActive, EnsureFrpc
  <2> QED BY <1>2, <2>1, <2>2, <2>3, <2>4, <2>5, <2>6, <2>7, <2>8 DEF Pairing
<1>0. ASSUME EnsureFrpc PROVE frpcOn' \in BOOLEAN
  BY <1>0 DEF EnsureFrpc
<1>3. CASE TickNoCursor \/ TickStaleCursor \/ TickUnsaved
  BY <1>0, <1>3 DEF TickNoCursor, TickStaleCursor, TickUnsaved, Tick, CleanTick, TickUnchanged
<1>4. CASE TickRead
  <2>1. CleanTick \/ (TickUnchanged /\ (\E i \in Window : lines[i].cls \in Class /\
          (UNCHANGED <<pc, verdict>> \/ (pc' = "stop" /\ verdict' = lines[i].cls))))
    BY <1>4, ReadNotes
  <2>2. frpcOn' \in BOOLEAN /\ UNCHANGED status
    BY <1>0, <1>4, <2>1 DEF TickRead, Tick, CleanTick, TickUnchanged
  <2> QED BY <2>1, <2>2 DEF CleanTick, TickUnchanged
<1>5. CASE Heartbeat
  <2>1. HeartbeatClass(loaded) = "ok" \/ HeartbeatClass(loaded) \in Class
    BY Answers
  <2>2. HeartbeatClass(loaded) = "ok" => pc' = pc /\ verdict' = verdict
    BY <1>5, ZeroIsLess, NoneCounted DEF Heartbeat
  <2> QED BY <1>5, <2>1, <2>2 DEF Heartbeat
<1>6. CASE StandDown
  <2>1. CASE StopTunnel
    BY <2>1 DEF StopTunnel
  <2>2. CASE WipeSecret
    BY <2>2 DEF WipeSecret
  <2>3. CASE WipeToml
    BY <2>3 DEF WipeToml
  <2>4. CASE WipeFails
    BY <2>4 DEF WipeFails
  <2>5. CASE FinishStandDown
    BY <2>5 DEF FinishStandDown, StateForClass
  <2> QED BY <1>6, <2>1, <2>2, <2>3, <2>4, <2>5 DEF StandDown
<1>7. CASE AgentDies
  <2>1. conf' \in [enrolled : BOOLEAN, marker : Class \cup {""}]
    BY <1>7 DEF AgentDies, Torn
  <2>2. code' \in {"none", "open", "claimed"}
    BY <1>7 DEF AgentDies
  <2> QED BY <1>7, <2>1, <2>2 DEF AgentDies
<1>8. CASE AgentStarts
  <2>1. status' \in Card /\ frpcOn' \in BOOLEAN
    BY <1>0, <1>8 DEF AgentStarts
  <2> QED BY <1>8, <2>1 DEF AgentStarts, EnterActive
<1> QED BY <1>1, <1>2, <1>3, <1>4, <1>5, <1>6, <1>7, <1>8 DEF Next, Evidence

LEMMA PlacesFacts ==
  ASSUME Typed
  PROVE  None \in Places /\ Len(lines) \in Places /\ Start \in Places /\ 0 \in Gens
         /\ (cgen < MaxGen => cgen + 1 \in Gens)
<1>1. Len(lines) \in 0 .. MaxLines /\ Start \in 0 .. MaxLines /\ cgen \in 0 .. MaxGen
  BY WindowOfLines DEF Typed, TypeOK
<1>2. \A n \in 0 .. MaxLines : n \in -1 .. MaxLines
  BY Bounds
<1>3. -1 \in -1 .. MaxLines /\ 0 \in 0 .. MaxGen /\ (cgen < MaxGen => cgen + 1 \in 0 .. MaxGen)
  BY <1>1, Bounds
<1> QED BY <1>1, <1>2, <1>3 DEF Places, None, Gens

LEMMA NumbersStep == Typed /\ Numbers /\ [Next]_vars => Numbers'
<1> SUFFICES ASSUME Typed, Numbers, [Next]_vars PROVE Numbers'
  OBVIOUS
<1> USE PlacesFacts DEF Numbers, disk, unit, mem, read
<1>1. CASE OwnerClaims \/ OwnerDrops \/ FrpcDials \/ PairButton \/ UNCHANGED vars
  BY <1>1 DEF OwnerClaims, OwnerDrops, FrpcDials, PairButton, Issue, vars
<1>2. CASE Pairing
  <2>1. CASE ClaimPost
    BY <2>1 DEF ClaimPost
  <2>2. CASE ClaimPoll
    BY <2>2 DEF ClaimPoll
  <2>3. CASE ClaimExpires
    BY <2>3 DEF ClaimExpires
  <2>4. CASE run_token_flow
    BY <2>4 DEF run_token_flow, Issue
  <2>5. CASE WriteToml
    BY <2>5 DEF WriteToml
  <2>6. CASE SaveSecret
    BY <2>6 DEF SaveSecret
  <2>7. CASE SaveEnrolled
    BY <2>7 DEF SaveEnrolled, DropCursor
  <2>8. CASE EnrollDone
    BY <2>8 DEF EnrollDone, EnterActive, EnsureFrpc
  <2> QED BY <1>2, <2>1, <2>2, <2>3, <2>4, <2>5, <2>6, <2>7, <2>8 DEF Pairing
<1>3. CASE Evidence
  <2>1. CASE TickNoCursor
    BY <2>1 DEF TickNoCursor, Tick, EnsureFrpc, CleanTick, TickUnchanged, DropCursor
  <2>2. CASE TickStaleCursor
    BY <2>2 DEF TickStaleCursor, Tick, EnsureFrpc, CleanTick, TickUnchanged, DropCursor
  <2>3. CASE TickUnsaved
    BY <2>3 DEF TickUnsaved, Tick, EnsureFrpc, CleanTick, TickUnchanged, DropCursor
  <2>4. CASE TickRead
    BY <2>4 DEF TickRead, Tick, EnsureFrpc, CleanTick, TickUnchanged, DropCursor
  <2>5. CASE Heartbeat
    BY <2>5 DEF Heartbeat
  <2> QED BY <1>3, <2>1, <2>2, <2>3, <2>4, <2>5 DEF Evidence
<1>4. CASE StandDown
  <2>1. CASE StopTunnel
    BY <2>1 DEF StopTunnel
  <2>2. CASE WipeSecret
    BY <2>2 DEF WipeSecret
  <2>3. CASE WipeToml
    BY <2>3 DEF WipeToml
  <2>4. CASE WipeFails
    BY <2>4 DEF WipeFails
  <2>5. CASE FinishStandDown
    BY <2>5 DEF FinishStandDown, StateForClass
  <2> QED BY <1>4, <2>1, <2>2, <2>3, <2>4, <2>5 DEF StandDown
<1>5. CASE AgentDies \/ AgentStarts
  BY <1>5 DEF AgentDies, AgentStarts, EnterActive, EnsureFrpc
<1> QED BY <1>1, <1>2, <1>3, <1>4, <1>5 DEF Next

\* Only the tunnel writes to the journal.
LEMMA LinesGrow ==
  ASSUME [Next]_vars
  PROVE  lines' = lines \/ FrpcDials
<1> USE DEF disk, unit, mem, read
<1>1. CASE OwnerClaims \/ OwnerDrops \/ PairButton \/ UNCHANGED vars
  BY <1>1 DEF OwnerClaims, OwnerDrops, PairButton, vars
<1>2. CASE Pairing
  <2>1. CASE ClaimPost
    BY <2>1 DEF ClaimPost
  <2>2. CASE ClaimPoll
    BY <2>2 DEF ClaimPoll
  <2>3. CASE ClaimExpires
    BY <2>3 DEF ClaimExpires
  <2>4. CASE run_token_flow
    BY <2>4 DEF run_token_flow, Issue
  <2>5. CASE WriteToml
    BY <2>5 DEF WriteToml
  <2>6. CASE SaveSecret
    BY <2>6 DEF SaveSecret
  <2>7. CASE SaveEnrolled
    BY <2>7 DEF SaveEnrolled, DropCursor
  <2>8. CASE EnrollDone
    BY <2>8 DEF EnrollDone, EnterActive, EnsureFrpc
  <2> QED BY <1>2, <2>1, <2>2, <2>3, <2>4, <2>5, <2>6, <2>7, <2>8 DEF Pairing
<1>3. CASE Evidence
  <2>1. CASE TickNoCursor
    BY <2>1 DEF TickNoCursor, Tick, EnsureFrpc, CleanTick, TickUnchanged, DropCursor
  <2>2. CASE TickStaleCursor
    BY <2>2 DEF TickStaleCursor, Tick, EnsureFrpc, CleanTick, TickUnchanged, DropCursor
  <2>3. CASE TickUnsaved
    BY <2>3 DEF TickUnsaved, Tick, EnsureFrpc, CleanTick, TickUnchanged, DropCursor
  <2>4. CASE TickRead
    BY <2>4 DEF TickRead, Tick, EnsureFrpc, CleanTick, TickUnchanged, DropCursor
  <2>5. CASE Heartbeat
    BY <2>5 DEF Heartbeat
  <2> QED BY <1>3, <2>1, <2>2, <2>3, <2>4, <2>5 DEF Evidence
<1>4. CASE StandDown
  <2>1. CASE StopTunnel
    BY <2>1 DEF StopTunnel
  <2>2. CASE WipeSecret
    BY <2>2 DEF WipeSecret
  <2>3. CASE WipeToml
    BY <2>3 DEF WipeToml
  <2>4. CASE WipeFails
    BY <2>4 DEF WipeFails
  <2>5. CASE FinishStandDown
    BY <2>5 DEF FinishStandDown, StateForClass
  <2> QED BY <1>4, <2>1, <2>2, <2>3, <2>4, <2>5 DEF StandDown
<1>5. CASE AgentDies \/ AgentStarts
  BY <1>5 DEF AgentDies, AgentStarts
<1> QED BY <1>1, <1>2, <1>3, <1>4, <1>5 DEF Next

\* A line of the tunnel's.
LEMMA NewLine ==
  ASSUME Typed, FrpcDials
  PROVE  LET l == [cls |-> LoginClass(frpc), gen |-> frpc]
         IN  /\ l \in Line /\ lines' \in Seq(Line) /\ Len(lines') = Len(lines) + 1
             /\ Len(lines') <= MaxLines /\ lines'[Len(lines) + 1] = l
             /\ \A i \in 1 .. Len(lines) : lines'[i] = lines[i]
<1> DEFINE l == [cls |-> LoginClass(frpc), gen |-> frpc]
<1>1. LoginClass(frpc) \in Class \cup {"ok"}
  BY DEF LoginClass, Class
<1>2. frpc \in 1 .. MaxGen
  <2>1. frpc \in 0 .. MaxGen /\ frpc # 0
    BY DEF FrpcDials, Typed, TypeOK
  <2> QED BY <2>1, Bounds
<1>3. l \in Line
  BY <1>1, <1>2 DEF Line
<1>4. lines \in Seq(Line) /\ Len(lines) \in Nat /\ Len(lines) < MaxLines /\ lines' = Append(lines, l)
  BY WindowOfLines DEF FrpcDials, Typed, TypeOK, Line
<1> HIDE DEF l
<1>5. /\ Append(lines, l) \in Seq(Line) /\ Len(Append(lines, l)) = Len(lines) + 1
      /\ \A i \in 1 .. Len(lines) : Append(lines, l)[i] = lines[i]
      /\ Append(lines, l)[Len(lines) + 1] = l
  BY <1>3, <1>4, AppendProperties
<1>6. Len(lines) + 1 <= MaxLines
  BY <1>4, Bounds
<1> QED BY <1>3, <1>4, <1>5, <1>6 DEF l

LEMMA CountersStep == Typed /\ Counters /\ [Next]_vars => Counters'
<1> SUFFICES ASSUME Typed, Counters, [Next]_vars PROVE Counters'
  OBVIOUS
<1> USE DEF Counters, disk, unit, mem, read
<1>1. NoRefusals \in Counter /\ NoRefusals.count < Threshold /\ 0 \in 0 .. Threshold
  <2>1. 0 < Threshold /\ 0 \in 0 .. Threshold
    BY Bounds
  <2> QED BY <2>1, NoneCounted DEF Counter
<1>2. \A b \in BOOLEAN : Count(b) \in 0 .. Threshold
  BY CountType DEF Typed
<1>3. ASSUME UNCHANGED <<hb, fr>>, ref' = ref \/ ref' = 0, pc' = "active" => pc = "active"
      PROVE  Counters'
  BY <1>1, <1>3
<1>4. CASE OwnerClaims \/ OwnerDrops \/ PairButton \/ UNCHANGED vars
  BY <1>3, <1>4 DEF OwnerClaims, OwnerDrops, PairButton, Issue, vars
<1>5. CASE FrpcDials
  <2>1. ref' \in 0 .. Threshold
    BY <1>2, <1>5 DEF FrpcDials
  <2> QED BY <1>5, <2>1 DEF FrpcDials
<1>6. CASE Pairing
  <2>1. CASE ClaimPost
    BY <2>1, <1>1, <1>3 DEF ClaimPost
  <2>2. CASE ClaimPoll
    BY <2>2, <1>1, <1>3 DEF ClaimPoll
  <2>3. CASE ClaimExpires
    BY <2>3, <1>1, <1>3 DEF ClaimExpires
  <2>4. CASE run_token_flow
    BY <2>4, <1>1, <1>3 DEF run_token_flow, Issue
  <2>5. CASE WriteToml
    BY <2>5, <1>1, <1>3 DEF WriteToml
  <2>6. CASE SaveSecret
    BY <2>6, <1>1, <1>3 DEF SaveSecret
  <2>7. CASE SaveEnrolled
    BY <2>7, <1>1, <1>3 DEF SaveEnrolled, DropCursor
  <2>8. CASE EnrollDone
    BY <2>8, <1>1, <1>3 DEF EnrollDone, EnterActive, EnsureFrpc
  <2> QED BY <1>6, <2>1, <2>2, <2>3, <2>4, <2>5, <2>6, <2>7, <2>8 DEF Pairing
<1>7. CASE StandDown
  <2>1. CASE StopTunnel
    BY <2>1, <1>3 DEF StopTunnel
  <2>2. CASE WipeSecret
    BY <2>2, <1>3 DEF WipeSecret
  <2>3. CASE WipeToml
    BY <2>3, <1>3 DEF WipeToml
  <2>4. CASE WipeFails
    BY <2>4, <1>3 DEF WipeFails
  <2>5. CASE FinishStandDown
    BY <2>5, <1>3 DEF FinishStandDown, StateForClass
  <2> QED BY <1>7, <2>1, <2>2, <2>3, <2>4, <2>5 DEF StandDown
<1>8. CASE TickNoCursor \/ TickStaleCursor \/ TickUnsaved
  BY <1>1, <1>8 DEF TickNoCursor, TickStaleCursor, TickUnsaved, CleanTick, TickUnchanged
<1>9. CASE TickRead
  <2>1. CASE CleanTick
    BY <1>1, <2>1 DEF CleanTick, TickUnchanged
  <2>2. ASSUME NEW i \in Window, lines[i].cls \in Class, fr' = NoteRefusal(fr, lines[i].cls),
               fr'.count < Threshold \/ pc' = "stop", TickUnchanged
        PROVE  Counters'
    <3>1. fr' \in Counter
      BY <1>9, <2>2, NotedRefusal DEF TickRead, Tick, Counter
    <3> QED BY <2>2, <3>1, <1>9 DEF TickUnchanged, TickRead, Tick
  <2>3. \A i \in Window : fr' = NoteRefusal(fr, lines[i].cls) /\ lines[i].cls \in Class =>
          fr'.count < Threshold \/ fr'.count >= Threshold
    <3> SUFFICES ASSUME NEW i \in Window, fr' = NoteRefusal(fr, lines[i].cls), lines[i].cls \in Class
                 PROVE  fr'.count < Threshold \/ fr'.count >= Threshold
      OBVIOUS
    <3>1. fr'.count \in 1 .. fr.count + 1 /\ fr.count \in 0 .. Threshold
      BY <1>9, NotedRefusal DEF TickRead, Tick, Counter
    <3> QED BY <3>1, Bounds
  <2> QED BY <1>9, <2>1, <2>2, <2>3, ReadNotes
<1>10. CASE Heartbeat
  <2> DEFINE c == HeartbeatClass(loaded)
  <2>1. c = "ok" \/ (c \in Class /\ c # "ok")
    <3>1. HeartbeatClass(loaded) = "ok" \/ HeartbeatClass(loaded) \in Class
      BY Answers
    <3>2. "ok" \notin Class
      BY Answers
    <3> QED BY <3>1, <3>2
  <2>2. hb' = IF c = "ok" THEN NoRefusals ELSE NoteRefusal(hb, c)
    BY <1>10 DEF Heartbeat
  <2>3. hb' \in Counter
    BY <1>1, <2>1, <2>2, <1>10, NotedRefusal DEF Heartbeat, Counter
  <2>4. hb'.count \in 0 .. Threshold
    BY <2>3 DEF Counter
  <2>5. pc' = "active" => hb'.count < Threshold /\ pc = "active"
    BY <1>10, <2>4, Bounds DEF Heartbeat
  <2>6. ref' \in 0 .. Threshold /\ fr' = fr
    BY <1>2, <1>10 DEF Heartbeat
  <2> QED BY <2>3, <2>5, <2>6
<1>11. CASE AgentDies
  BY <1>1, <1>11 DEF AgentDies
<1>12. CASE AgentStarts
  BY <1>1, <1>12 DEF AgentStarts, EnterActive
<1> QED BY <1>4, <1>5, <1>6, <1>7, <1>8, <1>9, <1>10, <1>11, <1>12 DEF Next, Evidence

LEMMA MishapsStep == Mishaps /\ [Next]_vars => Mishaps'
<1> SUFFICES ASSUME Mishaps, [Next]_vars PROVE Mishaps'
  OBVIOUS
<1> USE DEF disk, unit, mem, read
<1>1. ASSUME mishaps' = mishaps \/ (mishaps < MaxMishap /\ mishaps' = mishaps + 1)
      PROVE  Mishaps'
  BY <1>1, Bounds DEF Mishaps
<1>2. CASE OwnerClaims \/ OwnerDrops \/ FrpcDials \/ PairButton \/ UNCHANGED vars
  BY <1>1, <1>2 DEF OwnerClaims, OwnerDrops, FrpcDials, PairButton, vars
<1>3. CASE Pairing
  <2>1. CASE ClaimPost
    BY <2>1, <1>1 DEF ClaimPost
  <2>2. CASE ClaimPoll
    BY <2>2, <1>1 DEF ClaimPoll
  <2>3. CASE ClaimExpires
    BY <2>3, <1>1 DEF ClaimExpires
  <2>4. CASE run_token_flow
    BY <2>4, <1>1 DEF run_token_flow, Issue
  <2>5. CASE WriteToml
    BY <2>5, <1>1 DEF WriteToml
  <2>6. CASE SaveSecret
    BY <2>6, <1>1 DEF SaveSecret
  <2>7. CASE SaveEnrolled
    BY <2>7, <1>1 DEF SaveEnrolled, DropCursor
  <2>8. CASE EnrollDone
    BY <2>8, <1>1 DEF EnrollDone, EnterActive, EnsureFrpc
  <2> QED BY <1>3, <2>1, <2>2, <2>3, <2>4, <2>5, <2>6, <2>7, <2>8 DEF Pairing
<1>4. CASE Evidence
  <2>1. CASE TickNoCursor
    BY <2>1, <1>1 DEF TickNoCursor, Tick, EnsureFrpc, CleanTick, TickUnchanged, DropCursor
  <2>2. CASE TickStaleCursor
    BY <2>2, <1>1 DEF TickStaleCursor, Tick, EnsureFrpc, CleanTick, TickUnchanged, DropCursor
  <2>3. CASE TickUnsaved
    BY <2>3, <1>1 DEF TickUnsaved, Tick, EnsureFrpc, CleanTick, TickUnchanged, DropCursor
  <2>4. CASE TickRead
    BY <2>4, <1>1 DEF TickRead, Tick, EnsureFrpc, CleanTick, TickUnchanged, DropCursor
  <2>5. CASE Heartbeat
    BY <2>5, <1>1 DEF Heartbeat
  <2> QED BY <1>4, <2>1, <2>2, <2>3, <2>4, <2>5 DEF Evidence
<1>5. CASE StandDown
  <2>1. CASE StopTunnel
    BY <2>1, <1>1 DEF StopTunnel
  <2>2. CASE WipeSecret
    BY <2>2, <1>1 DEF WipeSecret
  <2>3. CASE WipeToml
    BY <2>3, <1>1 DEF WipeToml
  <2>4. CASE WipeFails
    BY <2>4, <1>1 DEF WipeFails
  <2>5. CASE FinishStandDown
    BY <2>5, <1>1 DEF FinishStandDown, StateForClass
  <2> QED BY <1>5, <2>1, <2>2, <2>3, <2>4, <2>5 DEF StandDown
<1>6. CASE AgentDies \/ AgentStarts
  BY <1>1, <1>6 DEF AgentDies, AgentStarts
<1> QED BY <1>2, <1>3, <1>4, <1>5, <1>6 DEF Next

LEMMA TypedStep == Typed /\ [Next]_vars => Typed'
<1> SUFFICES ASSUME Typed, [Next]_vars PROVE Typed'
  OBVIOUS
<1>1. Words' /\ Numbers' /\ Counters' /\ Mishaps'
  BY TypeParts, WordsStep, NumbersStep, CountersStep, MishapsStep
<1>2. Journal'
  <2>1. CASE lines' = lines
    BY <2>1, TypeParts DEF Journal
  <2>2. CASE FrpcDials
    BY <2>2, NewLine DEF Journal
  <2>3. lines' = lines \/ FrpcDials
    BY LinesGrow
  <2> QED BY <2>1, <2>2, <2>3
<1> QED BY <1>1, <1>2 DEF Typed, TypeOK, Words, Numbers, Journal, Counters, Mishaps, Gens, Places,
     Counter, Line, Card, Label

-----------------------------------------------------------------------------
(* The journal: what is not read yet is of the present identity. *)

LEMMA FreshEnd == ASSUME Typed, UNCHANGED lines PROVE Fresh(Len(lines))'
<1>1. Len(lines) \in Nat
  BY WindowOfLines DEF Typed
<1> QED BY <1>1 DEF Fresh

LEMMA FreshStart ==
  ASSUME Typed, Fresh(cursor), Fresh(cursorFile), Fresh(since)
  PROVE  Fresh(Start) /\ Start # None
<1>1. Len(lines) \in Nat /\ Start \in 0 .. MaxLines
  BY WindowOfLines DEF Typed
<1>2. Start # None
  BY <1>1, Bounds DEF None
<1>3. Start \in {cursor, cursorFile, since, Len(lines)}
  BY DEF Start, From
<1>4. Fresh(Len(lines))
  BY <1>1 DEF Fresh
<1> QED BY <1>2, <1>3, <1>4

LEMMA FreshStep ==
  ~StopMayFail /\ Typed /\ EnrolledOK /\ TunnelOK /\ FreshOK /\ [Next]_vars => FreshOK'
<1> SUFFICES ASSUME ~StopMayFail, Typed, EnrolledOK, TunnelOK, FreshOK, [Next]_vars PROVE FreshOK'
  OBVIOUS
<1> USE DEF disk, unit, mem, read
<1>0. cgen \in Nat /\ Len(lines) \in Nat /\ \A i \in 1 .. Len(lines) : lines[i].gen \in Nat
  <2>1. cgen \in 0 .. MaxGen /\ \A i \in 1 .. Len(lines) : lines[i].gen \in 1 .. MaxGen
    BY WindowOfLines DEF Typed, TypeOK, Line
  <2> QED BY <2>1, WindowOfLines, Bounds DEF Typed
<1>1. ASSUME UNCHANGED <<lines, cgen>>,
             conf'.enrolled => conf.enrolled /\ Fresh(cursor)' /\ Fresh(cursorFile)' /\ Fresh(since)'
      PROVE  FreshOK'
  BY <1>1 DEF FreshOK
<1>2. ASSUME UNCHANGED <<lines, cgen, cursor, cursorFile, since>>, conf'.enrolled => conf.enrolled
      PROVE  FreshOK'
  BY <1>2 DEF FreshOK, Fresh
<1>3. ASSUME cgen' = cgen + 1, UNCHANGED <<lines, conf>>, ~conf.enrolled
      PROVE  FreshOK'
  <2>1. \A i \in 1 .. Len(lines) : lines[i].gen <= cgen + 1
    BY <1>0 DEF FreshOK
  <2> QED BY <1>3, <2>1 DEF FreshOK
<1>4. CASE OwnerClaims
  BY <1>3, <1>4 DEF OwnerClaims, Issue, EnrolledOK
<1>5. CASE OwnerDrops \/ PairButton \/ UNCHANGED vars
  BY <1>2, <1>5 DEF OwnerDrops, PairButton, vars
<1>6. CASE FrpcDials
  <2>1. /\ Len(lines') = Len(lines) + 1
        /\ lines'[Len(lines) + 1].gen = frpc
        /\ \A i \in 1 .. Len(lines) : lines'[i] = lines[i]
    BY <1>6, NewLine DEF Typed
  <2>2. frpc = cgen /\ UNCHANGED <<cgen, conf, cursor, cursorFile, since>>
    BY <1>6 DEF FrpcDials, TunnelOK
  <2>3. \A i \in 1 .. Len(lines') : i \in 1 .. Len(lines) \/ i = Len(lines) + 1
    BY <1>0, <2>1
  <2>4. \A i \in 1 .. Len(lines') : lines'[i].gen <= cgen
    BY <1>0, <2>1, <2>2, <2>3 DEF FreshOK
  <2>5. \A k : Fresh(k) => (k # None => \A i \in 1 .. Len(lines') : i > k => lines'[i].gen = cgen)
    BY <2>1, <2>2, <2>3 DEF Fresh
  <2> QED BY <2>2, <2>4, <2>5 DEF FreshOK, Fresh
<1>7. CASE ClaimPost \/ ClaimPoll \/ ClaimExpires \/ WriteToml \/ SaveSecret \/ EnrollDone
  BY <1>2, <1>7 DEF ClaimPost, ClaimPoll, ClaimExpires, WriteToml, SaveSecret, EnrollDone
<1>8. CASE run_token_flow
  <2>1. CASE UNCHANGED cgen
    BY <1>2, <1>8, <2>1 DEF run_token_flow
  <2>2. CASE ~(UNCHANGED cgen)
    BY <1>3, <1>8, <2>2 DEF run_token_flow, Issue, EnrolledOK
  <2> QED BY <2>1, <2>2
<1>9. ASSUME DropCursor, UNCHANGED <<lines, cgen>>
      PROVE  FreshOK'
  <2>1. Fresh(Len(lines))' /\ cursor' = None /\ cursorFile' = None /\ since' = Len(lines)
    BY <1>9, FreshEnd DEF DropCursor
  <2>2. Fresh(cursor)' /\ Fresh(cursorFile)' /\ Fresh(since)'
    BY <1>9, <2>1 DEF Fresh
  <2>3. \A i \in 1 .. Len(lines)' : lines'[i].gen <= cgen'
    BY <1>9 DEF FreshOK
  <2> QED BY <2>2, <2>3 DEF FreshOK
<1>10. CASE SaveEnrolled \/ TickStaleCursor
  BY <1>9, <1>10 DEF SaveEnrolled, TickStaleCursor, CleanTick, TickUnchanged
<1>11. CASE TickNoCursor \/ TickUnsaved \/ TickRead
  <2>1. UNCHANGED <<lines, cgen, conf>> /\ pc = "active"
    BY <1>11 DEF TickNoCursor, TickUnsaved, TickRead, Tick, CleanTick, TickUnchanged
  <2>2. conf.enrolled
    BY <2>1 DEF EnrolledOK
  <2>3. Fresh(cursor) /\ Fresh(cursorFile) /\ Fresh(since) /\ Fresh(None) /\ Fresh(Len(lines))
    BY <1>0, <2>2 DEF FreshOK, Fresh
  <2>4. Fresh(Start)
    BY <2>3, FreshStart
  <2>5. /\ cursor' \in {cursor, Len(lines)} /\ cursorFile' \in {cursorFile, Len(lines)}
        /\ since' \in {since, None, Start}
    BY <1>11 DEF TickNoCursor, TickUnsaved, TickRead
  <2>6. \A k : Fresh(k) => Fresh(k)'
    BY <2>1 DEF Fresh
  <2>7. Fresh(cursor') /\ Fresh(cursorFile') /\ Fresh(since')
    BY <2>3, <2>4, <2>5
  <2>8. Fresh(cursor)' /\ Fresh(cursorFile)' /\ Fresh(since)'
    BY <2>1, <2>7 DEF Fresh
  <2> QED BY <1>1, <2>1, <2>2, <2>8
<1>12. CASE Heartbeat
  BY <1>2, <1>12 DEF Heartbeat
<1>13. CASE StandDown
  <2>1. CASE StopTunnel
    BY <2>1, <1>2 DEF StopTunnel
  <2>2. CASE WipeSecret
    BY <2>2, <1>2 DEF WipeSecret
  <2>3. CASE WipeToml
    BY <2>3, <1>2 DEF WipeToml
  <2>4. CASE WipeFails
    BY <2>4, <1>2 DEF WipeFails
  <2>5. CASE FinishStandDown
    BY <2>5, <1>2 DEF FinishStandDown, StateForClass
  <2> QED BY <1>13, <2>1, <2>2, <2>3, <2>4, <2>5 DEF StandDown
<1>14. CASE AgentDies
  <2>1. UNCHANGED <<lines, cgen, since>> /\ cursor' = None /\ cursorFile' \in {cursorFile, None}
        /\ (conf'.enrolled => conf.enrolled)
    <3>1. UNCHANGED <<lines, cgen, since>> /\ cursor' = None /\ cursorFile' \in {cursorFile, None}
      BY <1>14 DEF AgentDies
    <3>2. conf' = conf \/ conf' = NoMarker
      BY <1>14 DEF AgentDies, Torn
    <3>3. CASE conf' = NoMarker
      BY <3>1, <3>3 DEF NoMarker
    <3>4. CASE conf' = conf
      BY <3>1, <3>4
    <3> QED BY <3>2, <3>3, <3>4
  <2> QED BY <1>1, <2>1 DEF FreshOK, Fresh
<1>15. CASE AgentStarts
  <2>1. UNCHANGED <<lines, cgen, conf, cursor, cursorFile>> /\ since' = Len(lines)
    BY <1>15 DEF AgentStarts, EnterActive
  <2>2. Fresh(Len(lines))'
    BY <2>1, FreshEnd
  <2> QED BY <1>1, <2>1, <2>2 DEF FreshOK, Fresh
<1> QED BY <1>4, <1>5, <1>6, <1>7, <1>8, <1>10, <1>11, <1>12, <1>13, <1>14, <1>15
     DEF Next, Pairing, Evidence

-----------------------------------------------------------------------------
(* The counters.  Refusals of the present identity in the journal and answers *)
(* to heartbeats are different events, and ref counts both.                 *)

LEMMA Finite ==
  ASSUME Typed
  PROVE  /\ IsFiniteSet(Refused) /\ Cardinality(Refused) \in Nat
         /\ \A k : /\ IsFiniteSet(RefusedTo(k)) /\ Cardinality(RefusedTo(k)) \in Nat
                   /\ Cardinality(RefusedTo(k)) <= Cardinality(Refused)
<1>1. Len(lines) \in Nat
  BY WindowOfLines DEF Typed
<1>2. IsFiniteSet(1 .. Len(lines))
  BY <1>1, FS_Interval
<1>3. IsFiniteSet(Refused)
  BY <1>2, FS_Subset DEF Refused
<1>4. ASSUME NEW k
      PROVE  IsFiniteSet(RefusedTo(k)) /\ Cardinality(RefusedTo(k)) <= Cardinality(Refused)
  <2>1. RefusedTo(k) \in SUBSET Refused
    BY DEF RefusedTo, Refused
  <2> QED BY <1>3, <2>1, FS_Subset
<1> QED BY <1>3, <1>4, FS_CardinalityType

\* A new line adds at most one refusal, and none to what was read before.
LEMMA OneLineMore ==
  ASSUME Typed, FrpcDials
  PROVE  /\ (LoginClass(frpc) # "ok" /\ frpc = cgen) =>
              Cardinality(Refused') = Cardinality(Refused) + 1
         /\ ~(LoginClass(frpc) # "ok" /\ frpc = cgen) => Refused' = Refused
         /\ Cardinality(RefusedTo(cursor)') \in Nat
         /\ Cardinality(RefusedTo(cursor)) <= Cardinality(RefusedTo(cursor)')
<1> DEFINE n == Len(lines) + 1
<1>1. /\ n \notin 1 .. Len(lines) /\ Len(lines') = n /\ cgen' = cgen
      /\ lines'[n] = [cls |-> LoginClass(frpc), gen |-> frpc]
      /\ \A i \in 1 .. Len(lines) : lines'[i] = lines[i]
      /\ \A i : i \in 1 .. Len(lines') <=> i \in 1 .. Len(lines) \/ i = n
  <2>1. Len(lines) \in Nat /\ cgen' = cgen
    BY WindowOfLines DEF FrpcDials, Typed
  <2> QED BY <2>1, NewLine
<1> HIDE DEF n
<1>2. ASSUME LoginClass(frpc) # "ok", frpc = cgen
      PROVE  Cardinality(Refused') = Cardinality(Refused) + 1
  <2>1. Refused' = Refused \cup {n} /\ n \notin Refused
    BY <1>1, <1>2 DEF Refused
  <2>2. IsFiniteSet(Refused)
    BY Finite
  <2> QED BY <2>1, <2>2, FS_AddElement
<1>3. ASSUME ~(LoginClass(frpc) # "ok" /\ frpc = cgen)
      PROVE  Refused' = Refused
  BY <1>1, <1>3 DEF Refused
<1>4. /\ Cardinality(RefusedTo(cursor)') \in Nat
      /\ Cardinality(RefusedTo(cursor)) <= Cardinality(RefusedTo(cursor)')
  <2>1. cursor' = cursor
    BY DEF FrpcDials, read
  <2>2. RefusedTo(cursor) \in SUBSET (RefusedTo(cursor)')
    BY <1>1, <2>1 DEF RefusedTo
  <2>3. RefusedTo(cursor)' \in SUBSET (1 .. Len(lines'))
    BY DEF RefusedTo
  <2>4. Len(lines') \in Nat
    BY <1>1, WindowOfLines DEF Typed, n
  <2>5. IsFiniteSet(1 .. Len(lines'))
    BY <2>4, FS_Interval
  <2>6. IsFiniteSet(RefusedTo(cursor)')
    BY <2>3, <2>5, FS_Subset
  <2> QED BY <2>2, <2>6, FS_Subset, FS_CardinalityType
<1> QED BY <1>2, <1>3, <1>4

LEMMA Numeric ==
  ASSUME Typed
  PROVE  /\ ref \in Nat /\ ref <= Threshold /\ Threshold \in Nat /\ Threshold > 0
         /\ hb.count \in Nat /\ fr.count \in Nat
         /\ \A b \in BOOLEAN :
              /\ ref <= Count(b) /\ Count(b) \in Nat
              /\ (~b => Count(b) = ref) /\ (b /\ ref < Threshold => Count(b) = ref + 1)
<1>1. ref \in 0 .. Threshold /\ hb \in Counter /\ fr \in Counter
  BY TypeParts DEF Counters
<1>2. hb.count \in 0 .. Threshold /\ fr.count \in 0 .. Threshold
  BY <1>1 DEF Counter
<1>3. Threshold \in Nat /\ Threshold > 0
  BY Bounds
<1> QED BY <1>1, <1>2, <1>3 DEF Count

\* A read that finds a refusal has one refusal more behind it.
LEMMA ReadCounts ==
  ASSUME Typed, EnrolledOK, FreshOK, CountOK, TickRead, NEW i \in Window, lines[i].cls # "ok",
         fr' = NoteRefusal(fr, lines[i].cls)
  PROVE  fr'.count <= Cardinality(RefusedTo(Len(lines)))
<1>1. conf.enrolled /\ pc = "active"
  BY DEF TickRead, Tick, EnrolledOK
<1>2. Fresh(Start) /\ Start # None
  BY <1>1, FreshStart DEF FreshOK
<1>3. Len(lines) \in Nat /\ Start \in Nat /\ i \in 1 .. Len(lines) /\ i > Start
  BY WindowOfLines, Bounds DEF Typed, Window
<1>4. i \in RefusedTo(Len(lines))
  BY <1>2, <1>3 DEF Fresh, RefusedTo
<1>5. IsFiniteSet(RefusedTo(Len(lines))) /\ Cardinality(RefusedTo(Len(lines))) \in Nat
  BY Finite
<1>7. fr.count \in Nat /\ (fr'.count = 1 \/ fr'.count = fr.count + 1)
  <2>1. fr.count \in Nat
    BY Numeric
  <2>2. fr' = [cls |-> lines[i].cls, count |-> IF fr.cls = lines[i].cls THEN fr.count + 1 ELSE 1]
    BY DEF NoteRefusal
  <2> QED BY <2>1, <2>2
<1>8. CASE fr.count = 0
  <2>1. Cardinality(RefusedTo(Len(lines))) # 0
    BY <1>4, <1>5, FS_EmptySet
  <2> QED BY <1>5, <1>7, <1>8, <2>1
<1>9. CASE fr.count # 0
  <2>1. cursor # None /\ fr.count <= Cardinality(RefusedTo(cursor))
    BY <1>1, <1>7, <1>9 DEF CountOK
  <2>2. Start = cursor
    BY <2>1 DEF Start, From
  <2>3. RefusedTo(cursor) \cup {i} \in SUBSET RefusedTo(Len(lines)) /\ i \notin RefusedTo(cursor)
    BY <1>3, <1>4, <2>2 DEF RefusedTo
  <2>4. IsFiniteSet(RefusedTo(cursor)) /\ Cardinality(RefusedTo(cursor)) \in Nat
    BY Finite
  <2>5. Cardinality(RefusedTo(cursor) \cup {i}) = Cardinality(RefusedTo(cursor)) + 1
    BY <2>3, <2>4, FS_AddElement
  <2>6. Cardinality(RefusedTo(cursor) \cup {i}) <= Cardinality(RefusedTo(Len(lines)))
    BY <1>5, <2>3, FS_Subset
  <2> QED BY <1>5, <1>7, <2>1, <2>4, <2>5, <2>6
<1> QED BY <1>8, <1>9

LEMMA CountStep ==
  ~StopMayFail /\ Typed /\ EnrolledOK /\ TunnelOK /\ FreshOK /\ CountOK /\ [Next]_vars => CountOK'
<1> SUFFICES ASSUME ~StopMayFail, Typed, EnrolledOK, TunnelOK, FreshOK, CountOK, [Next]_vars
             PROVE  CountOK'
  OBVIOUS
<1> USE DEF disk, unit, mem, read
<1>0. /\ ref \in Nat /\ Threshold \in Nat /\ hb.count \in Nat /\ fr.count \in Nat
      /\ Cardinality(Refused) \in Nat /\ \A k : Cardinality(RefusedTo(k)) \in Nat
  BY Numeric, Finite
\* Steps that leave the evidence alone, or reset it.
<1>1. ASSUME UNCHANGED <<lines, cgen, ref>>,
             pc' = "active" => \/ pc = "active" /\ UNCHANGED <<hb, fr, cursor>>
                               \/ pc = "active" /\ hb' = hb /\ fr' = NoRefusals
                               \/ hb' = NoRefusals /\ fr' = NoRefusals,
             pc' \in Down => pc \in Down
      PROVE  CountOK'
  <2>1. Refused' = Refused /\ RefusedTo(cursor)' = RefusedTo(cursor')
    BY <1>1 DEF Refused, RefusedTo
  <2>2. NoRefusals.count = 0
    BY NoneCounted
  <2> QED BY <1>0, <1>1, <2>1, <2>2 DEF CountOK
\* A new identity, of which nothing was ever refused.
<1>2. ASSUME UNCHANGED <<lines, hb, fr, cursor>>, cgen' = cgen + 1, ref' = 0,
             pc' # "active", pc' \notin Down
      PROVE  CountOK'
  <2>1. cgen \in Nat /\ \A i \in 1 .. Len(lines) : lines[i].gen \in Nat /\ lines[i].gen <= cgen
    <3>1. cgen \in 0 .. MaxGen /\ \A i \in 1 .. Len(lines) : lines[i].gen \in 1 .. MaxGen
      BY WindowOfLines DEF Typed, TypeOK, Line
    <3> QED BY <3>1, Bounds DEF FreshOK
  <2>2. \A i \in 1 .. Len(lines) : lines[i].gen # cgen + 1
    BY <2>1
  <2>3. Refused' = {}
    BY <1>2, <2>2 DEF Refused
  <2> QED BY <1>0, <1>2, <2>3, FS_EmptySet DEF CountOK
<1>3. CASE OwnerClaims
  BY <1>2, <1>3 DEF OwnerClaims, Issue, EnrolledOK, Down
<1>4. CASE OwnerDrops \/ PairButton \/ UNCHANGED vars
  BY <1>1, <1>4 DEF OwnerDrops, PairButton, vars
<1>5. CASE FrpcDials
  <2> DEFINE b == LoginClass(frpc) # "ok" /\ frpc = cgen
  <2>1. UNCHANGED <<pc, hb, fr, cursor, cgen>> /\ ref' = Count(b) /\ b \in BOOLEAN
    BY <1>5 DEF FrpcDials
  <2>2. ref <= ref' /\ ref' \in Nat
        /\ (b /\ ref < Threshold => ref' = ref + 1) /\ (ref >= Threshold => ref' >= Threshold)
    <3> HIDE DEF b
    <3>1. ref <= Count(b) /\ Count(b) \in Nat /\ (b /\ ref < Threshold => Count(b) = ref + 1)
      BY <2>1, Numeric
    <3> QED BY <1>0, <2>1, <3>1
  <2>3. Cardinality(RefusedTo(cursor)) <= Cardinality(RefusedTo(cursor)')
    BY <1>5, OneLineMore
  <2>4. Cardinality(Refused') = Cardinality(Refused) + (IF b THEN 1 ELSE 0)
    <3>1. CASE b
      BY <1>5, <3>1, OneLineMore
    <3>2. CASE ~b
      BY <1>0, <1>5, <3>2, OneLineMore
    <3> QED BY <3>1, <3>2
  <2>5. Cardinality(RefusedTo(cursor)') \in Nat
    BY <1>5, OneLineMore
  <2> HIDE DEF b
  <2>6. ref' < Threshold => Cardinality(Refused') <= ref'
    BY <1>0, <2>1, <2>2, <2>4 DEF CountOK
  <2>7. pc' = "active" => hb'.count <= ref'
    BY <1>0, <2>1, <2>2 DEF CountOK
  <2>8. pc' = "active" /\ fr'.count > 0 => cursor' # None /\ fr'.count <= Cardinality(RefusedTo(cursor)')
    BY <1>0, <2>1, <2>3, <2>5 DEF CountOK
  <2>9. pc' \in Down => ref' >= Threshold
    BY <1>0, <2>1, <2>2 DEF CountOK
  <2> QED BY <2>6, <2>7, <2>8, <2>9 DEF CountOK
<1>6. CASE ClaimPost \/ ClaimPoll \/ ClaimExpires \/ WriteToml \/ SaveSecret \/ SaveEnrolled \/ EnrollDone
  BY <1>1, <1>6 DEF ClaimPost, ClaimPoll, ClaimExpires, WriteToml, SaveSecret, SaveEnrolled, EnrollDone,
     EnterActive, Down
<1>7. CASE run_token_flow
  <2>1. CASE UNCHANGED <<cgen, pc, ref>>
    BY <1>1, <1>7, <2>1 DEF run_token_flow
  <2>2. CASE Issue /\ pc' = "toml"
    BY <1>2, <1>7, <2>2 DEF run_token_flow, Issue, Down
  <2> QED BY <1>7, <2>1, <2>2 DEF run_token_flow
<1>8. CASE TickNoCursor \/ TickStaleCursor \/ TickUnsaved \/ (TickRead /\ CleanTick)
  BY <1>1, <1>8 DEF TickNoCursor, TickStaleCursor, TickUnsaved, TickRead, Tick, CleanTick, TickUnchanged
<1>9. CASE TickRead /\ ~CleanTick
  <2>1. PICK i \in Window :
          /\ lines[i].cls \in Class
          /\ fr' = NoteRefusal(fr, lines[i].cls)
          /\ IF fr'.count >= Threshold THEN pc' = "stop" /\ verdict' = lines[i].cls
             ELSE UNCHANGED <<pc, verdict>>
          /\ TickUnchanged
    BY <1>9, ReadNotes
  <2>2. UNCHANGED <<lines, cgen, ref, hb>> /\ cursor' = Len(lines) /\ pc = "active"
    BY <1>9, <2>1 DEF TickRead, Tick, TickUnchanged
  <2>3. fr'.count <= Cardinality(RefusedTo(Len(lines))) /\ Len(lines) # None
    <3>1. lines[i].cls # "ok"
      BY <2>1, Answers
    <3>2. Len(lines) \in Nat
      BY WindowOfLines DEF Typed
    <3>3. Len(lines) # None
      BY <3>2 DEF None
    <3> QED BY <1>9, <2>1, <3>1, <3>3, ReadCounts
  <2>4. Refused' = Refused /\ RefusedTo(cursor)' = RefusedTo(Len(lines))
    BY <2>2 DEF Refused, RefusedTo
  <2>5. Cardinality(RefusedTo(Len(lines))) <= Cardinality(Refused)
    BY Finite
  <2>6. fr'.count \in Nat
    <3>1. fr \in Counter /\ fr.count < Threshold
      BY <2>2, TypeParts DEF Counters
    <3>2. fr'.count \in 1 .. fr.count + 1
      BY <2>1, <3>1, NotedRefusal DEF Counter
    <3> QED BY <1>0, <3>2
  <2>7. pc' \in Down => fr'.count >= Threshold
    BY <2>1, <2>2 DEF Down
  <2>8. pc' \in Down => ref' >= Threshold
    BY <1>0, <2>2, <2>3, <2>5, <2>6, <2>7 DEF CountOK
  <2>9. pc' = "active" => pc = "active"
    BY <2>2
  <2> QED BY <1>0, <2>2, <2>3, <2>4, <2>8 DEF CountOK
<1>10. CASE Heartbeat
  <2> DEFINE c == HeartbeatClass(loaded)
  <2>1. /\ hb' = IF c = "ok" THEN NoRefusals ELSE NoteRefusal(hb, c)
        /\ ref' = Count(c # "ok") /\ pc = "active"
        /\ IF hb'.count >= Threshold THEN pc' = "stop" ELSE pc' = pc
        /\ UNCHANGED <<lines, cgen, fr, cursor>>
    BY <1>10 DEF Heartbeat
  <2> HIDE DEF c
  <2>2. ref <= ref' /\ ref' \in Nat /\ (ref >= Threshold => ref' >= Threshold)
        /\ (c # "ok" /\ ref < Threshold => ref' = ref + 1)
    <3> DEFINE b == c # "ok"
    <3>1. b \in BOOLEAN /\ ref' = Count(b)
      BY <2>1
    <3> HIDE DEF b
    <3>2. ref <= Count(b) /\ Count(b) \in Nat /\ (b /\ ref < Threshold => Count(b) = ref + 1)
      BY <3>1, Numeric
    <3>3. ref <= ref' /\ ref' \in Nat /\ (b /\ ref < Threshold => ref' = ref + 1)
      BY <3>1, <3>2
    <3> QED BY <1>0, <3>3 DEF b
  <2>3. Refused' = Refused /\ RefusedTo(cursor)' = RefusedTo(cursor)
    BY <2>1 DEF Refused, RefusedTo
  <2>4. hb'.count \in Nat /\ hb.count < Threshold /\ hb.count <= ref
        /\ (c = "ok" => hb'.count = 0) /\ (c # "ok" => hb'.count <= hb.count + 1)
    <3>1. hb.count < Threshold /\ hb.count <= ref
      BY <2>1 DEF Typed, CountOK
    <3>2. CASE c = "ok"
      <4>1. hb'.count = 0
        BY <2>1, <3>2 DEF NoRefusals
      <4> QED BY <3>1, <3>2, <4>1
    <3>3. CASE c # "ok"
      <4>1. hb'.count = 1 \/ hb'.count = hb.count + 1
        BY <2>1, <3>3 DEF NoteRefusal
      <4> QED BY <1>0, <3>1, <3>3, <4>1
    <3> QED BY <3>2, <3>3
  <2>5. hb'.count <= ref' \/ ref' >= Threshold
    BY <1>0, <2>2, <2>4
  <2>6. ref' < Threshold => Cardinality(Refused') <= ref'
    BY <1>0, <2>2, <2>3 DEF CountOK
  <2>7. pc' = "active" => hb'.count < Threshold
    BY <1>0, <2>1, <2>4
  <2>8. pc' = "active" => hb'.count <= ref'
    BY <1>0, <2>2, <2>4, <2>5, <2>7
  <2>9. pc' \in Down => hb'.count >= Threshold
    BY <2>1 DEF Down
  <2>10. pc' \in Down => ref' >= Threshold
    BY <1>0, <2>2, <2>4, <2>5, <2>9
  <2>11. pc' = "active" /\ fr'.count > 0 => cursor' # None /\ fr'.count <= Cardinality(RefusedTo(cursor)')
    BY <2>1, <2>3 DEF CountOK
  <2> QED BY <2>6, <2>8, <2>10, <2>11 DEF CountOK
<1>11. CASE StandDown
  <2>1. UNCHANGED <<lines, cgen, ref>> /\ pc' # "active" /\ (pc' \in Down => pc \in Down)
    BY <1>11 DEF StandDown, StopTunnel, WipeSecret, WipeToml, WipeFails, FinishStandDown, Down
  <2> QED BY <1>1, <2>1
<1>12. CASE AgentDies \/ AgentStarts
  BY <1>1, <1>12 DEF AgentDies, AgentStarts, EnterActive, Down
<1> QED BY <1>3, <1>4, <1>5, <1>6, <1>7, <1>8, <1>9, <1>10, <1>11, <1>12
     DEF Next, Pairing, Evidence

-----------------------------------------------------------------------------
(* The invariant. *)

Inv == Typed /\ EnrolledOK /\ CardOK
Sure == TunnelOK /\ FreshOK /\ CountOK

LEMMA InitInv == Init => Inv /\ Sure
<1> SUFFICES ASSUME Init PROVE Inv /\ Sure
  OBVIOUS
<1>1. lines = <<>> /\ Len(lines) = 0
  BY DEF Init
<1>2. Typed
  <2>1. Words
    <3>1. "" \in Class \cup {""}
      OBVIOUS
    <3> QED BY <3>1, Members DEF Init, Words
  <2>5. Mishaps
    <3>1. 0 \in 0 .. MaxMishap
      BY Bounds
    <3> QED BY <3>1 DEF Init, Mishaps
  <2>2. Numbers
    <3>1. 0 \in Gens /\ 0 \in Places /\ None \in Places
      BY Bounds DEF Gens, Places, None
    <3> QED BY <3>1 DEF Init, Numbers
  <2>3. Journal
    BY <1>1, Bounds DEF Journal
  <2>4. Counters
    <3>1. 0 \in 0 .. Threshold
      BY Bounds
    <3> QED BY <3>1, NoneCounted DEF Init, Counters, Counter
  <2> QED BY <2>1, <2>2, <2>3, <2>4, <2>5, TypeParts
<1>3. EnrolledOK /\ CardOK /\ TunnelOK
  BY DEF Init, EnrolledOK, CardOK, TunnelOK, NoMarker, Down, Erased
<1>4. FreshOK
  <2>1. ~conf.enrolled
    BY DEF Init, NoMarker
  <2>2. \A i \in 1 .. Len(lines) : FALSE
    BY <1>1
  <2> QED BY <2>1, <2>2 DEF FreshOK
<1>5. CountOK
  <2>1. Refused = {}
    BY <1>1 DEF Refused
  <2>2. ref = 0 /\ pc = "standby"
    BY DEF Init
  <2> QED BY <2>1, <2>2, FS_EmptySet DEF CountOK, Down
<1> QED BY <1>2, <1>3, <1>4, <1>5 DEF Inv, Sure

\* Memory, disk and journal stay within their types; the agent is where
\* agent.conf says, and so is the card.
THEOREM InvHolds == Spec => []Inv
<1>1. Init => Inv
  BY InitInv
<1>2. Inv /\ [Next]_vars => Inv'
  BY TypedStep, EnrolledStep, CardStep DEF Inv
<1> QED BY <1>1, <1>2, PTL DEF Spec

\* Agent, tunnel and cloud stay within their types.
THEOREM TypeCorrect == Spec => []TypeOK
<1>1. Inv => TypeOK
  BY DEF Inv, Typed
<1> QED BY <1>1, InvHolds, PTL

\* The card says "erased" only of a board that is not enrolled and "active" only
\* of one that is, across deaths, reboots and torn saves.
THEOREM CardIsTrue == Spec => []CardTrue
<1>1. Inv => CardTrue
  BY DEF Inv, CardOK, CardTrue
<1> QED BY <1>1, InvHolds, PTL

\* With a tunnel that stops when told to: a stand-down is under way only after
\* Threshold refusals of the present identity, however often the journal was
\* read again and whatever died.
THEOREM NoDoubt == ~StopMayFail /\ Spec => []NeverByDoubt
<1>1. Init => Inv /\ Sure
  BY InitInv
<1>2. ~StopMayFail /\ Inv /\ Sure /\ [Next]_vars => (Inv /\ Sure)'
  BY TypedStep, EnrolledStep, CardStep, TunnelStep, FreshStep, CountStep DEF Inv, Sure
<1>3. Sure => NeverByDoubt
  BY DEF Sure, CountOK, NeverByDoubt
<1> QED
  <2> SUFFICES ASSUME ~StopMayFail PROVE Spec => []NeverByDoubt
    OBVIOUS
  <2>1. Inv /\ Sure /\ [Next]_vars => (Inv /\ Sure)'
    BY <1>2
  <2> QED BY <1>1, <2>1, <1>3, PTL DEF Spec
=============================================================================
