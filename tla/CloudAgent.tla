----------------------------- MODULE CloudAgent -----------------------------
(***************************************************************************)
(* The fleet-cloud door of the board: sa02m-cloud-agent pairs the board,   *)
(* keeps the frpc tunnel up, sends heartbeats and, when the cloud refuses  *)
(* the board Threshold times in a row for one reason, erases the identity  *)
(* the cloud issued and waits for a new pairing (binding_core).  The cloud *)
(* (its records, frps, the owner) and the tunnel unit are external.        *)
(***************************************************************************)
EXTENDS Integers, Sequences, FiniteSetsExt

CONSTANTS
  Threshold,   \* REFUSAL_STANDDOWN_COUNT
  Grace,       \* FRP_IDENTITY_MODE of the cloud: grace (TRUE) or strict
  StopMayFail, \* systemctl stop of the tunnel may fail, which is ignored
  MaxGen,      \* bound: identities the cloud issues
  MaxLines,    \* bound: lines of the tunnel's journal
  MaxMishap    \* bound: agent deaths, reboots and failed writes

ASSUME CloudAssumption ==
  /\ Threshold \in Nat \ {0} /\ {MaxGen, MaxLines, MaxMishap} \subseteq Nat
  /\ {Grace, StopMayFail} \subseteq BOOLEAN

VARIABLES
  cloud,     \* the cloud's record of the board: "free", "bound", "revoked"
  cgen,      \* number of the identity the cloud issued last
  code,      \* the open pairing code: "none", "open", "claimed"
  conf,      \* agent.conf: enrolled, and the class of the stand-down marker
  secret,    \* device_secret on disk: the identity it belongs to, 0 if absent
  toml,      \* frpc.toml on disk, likewise
  pairReq,   \* pair_request, the web panel's trigger file, exists
  token,     \* activation_token, the installer's trigger file, exists
  frpc,      \* the tunnel unit: the identity it runs with, 0 if stopped
  frpcOn,    \* the tunnel unit is enabled for the next boot
  lines,     \* the tunnel unit's journal
  cursorFile, status,       \* files under /run
  pc, hb, fr, cursor, since, loaded, verdict,  \* the agent process
  ref,       \* history: refusals of the identity issued last, up to Threshold
  mishaps

disk == <<conf, secret, toml, pairReq, token>>
unit == <<frpc, frpcOn>>
mem == <<hb, fr, loaded, verdict>>
read == <<cursor, since, cursorFile>>
vars == <<cloud, cgen, code, disk, unit, lines, status, pc, mem, read, ref, mishaps>>

None == -1                                   \* no cursor, no armed window
Class == {"revoked", "unlinked", "unknown"}  \* refusal classes
Erased == {"revoked", "unlinked"}            \* stand-down states of the card
NoRefusals == [cls |-> "", count |-> 0]
NoMarker == [enrolled |-> FALSE, marker |-> ""]
\* Labels from the verdict to the durable marker.
Down == {"stop", "wipe", "wipeToml", "mark", "retry"}

TypeOK ==
  /\ cloud \in {"free", "bound", "revoked"} /\ cgen \in 0 .. MaxGen
  /\ code \in {"none", "open", "claimed"}
  /\ conf \in [enrolled : BOOLEAN, marker : Class \cup {""}]
  /\ {secret, toml, frpc, loaded} \subseteq 0 .. MaxGen
  /\ {pairReq, token, frpcOn} \subseteq BOOLEAN
  /\ lines \in Seq([cls : Class \cup {"ok"}, gen : 1 .. MaxGen]) /\ Len(lines) <= MaxLines
  /\ {cursor, since, cursorFile} \subseteq None .. MaxLines
  /\ status \in {"", "standby", "pairing", "pair_expired", "already_claimed", "claim_failed",
                 "enrolling", "enroll_failed", "active", "unlink_failed"} \cup Erased
  /\ pc \in {"dead", "standby", "pairing", "toml", "secret", "save", "enrolled", "active"} \cup Down
  /\ {hb, fr} \subseteq [cls : Class \cup {""}, count : 0 .. Threshold]
  /\ verdict \in Class \cup {""} /\ ref \in 0 .. Threshold /\ mishaps \in 0 .. MaxMishap

\* A board as delivered: never paired, the agent just started.
Init ==
  /\ cloud = "free" /\ cgen = 0 /\ code = "none"
  /\ conf = NoMarker /\ secret = 0 /\ toml = 0 /\ pairReq = FALSE /\ token \in BOOLEAN
  /\ frpc = 0 /\ frpcOn = FALSE /\ lines = <<>> /\ cursorFile = None
  /\ status = "standby" /\ pc = "standby" /\ hb = NoRefusals /\ fr = NoRefusals
  /\ cursor = None /\ since = 0 /\ loaded = 0 /\ verdict = "" /\ ref = 0 /\ mishaps = 0

-----------------------------------------------------------------------------
(* The cloud and its owner (external). *)

Issue == cloud' = "bound" /\ cgen' = cgen + 1 /\ ref' = 0

\* The owner enters the code the board shows.
OwnerClaims ==
  /\ code = "open" /\ cgen < MaxGen
  /\ Issue /\ code' = "claimed"
  /\ UNCHANGED <<disk, unit, lines, status, pc, mem, read, mishaps>>

\* The owner revokes the board, or detaches it so that it can be paired again.
OwnerDrops ==
  /\ \/ cloud = "bound" /\ cloud' \in {"revoked", "free"}
     \/ cloud = "revoked" /\ cloud' = "free"
  /\ UNCHANGED <<cgen, code, disk, unit, lines, status, pc, mem, read, ref, mishaps>>

\* What the cloud answers to a heartbeat that carries the secret of identity s.
\* In grace mode a heartbeat without a secret is never refused.
HeartbeatClass(s) ==
  CASE s = 0 /\ Grace      -> "ok"
    [] cloud = "revoked"   -> "revoked"
    [] cloud = "free"      -> "unlinked"
    [] cloud = "bound" /\ s = cgen -> "ok"
    [] OTHER               -> "unknown"

\* What frps answers to a tunnel of identity g, and frpc prints.
LoginClass(g) ==
  CASE cloud = "revoked"   -> "revoked"
    [] cloud = "free"      -> "unlinked"
    [] cloud = "bound" /\ g = cgen -> "ok"
    [] OTHER               -> "unknown"

Count(refused) == IF refused /\ ref < Threshold THEN ref + 1 ELSE ref

\* frpc dials and prints the outcome; it holds the configuration it started with.
FrpcDials ==
  /\ frpc # 0 /\ Len(lines) < MaxLines
  /\ lines' = Append(lines, [cls |-> LoginClass(frpc), gen |-> frpc])
  /\ ref' = Count(LoginClass(frpc) # "ok" /\ frpc = cgen)
  /\ UNCHANGED <<cloud, cgen, code, disk, unit, status, pc, mem, read, mishaps>>

\* The web panel creates or removes the pairing trigger.
PairButton ==
  /\ pairReq' = ~pairReq
  /\ UNCHANGED <<cloud, cgen, code, conf, secret, toml, token, unit, lines, status, pc, mem, read,
                 ref, mishaps>>

-----------------------------------------------------------------------------
(* Pairing. *)

\* run_claim_flow up to the code on the card: 409 when the cloud still lists
\* the board, any other failure, or a fresh code.
ClaimPost ==
  /\ pc = "standby" /\ pairReq
  /\ \/ cloud # "free" /\ status' = "already_claimed" /\ UNCHANGED <<pc, code>>
     \/ status' = "claim_failed" /\ UNCHANGED <<pc, code>>
     \/ cloud = "free" /\ code' = "open" /\ pc' = "pairing" /\ status' = "pairing"
  /\ UNCHANGED <<cloud, cgen, disk, unit, lines, mem, read, ref, mishaps>>

\* A poll of /claim/status: the answer "claimed" is taken before a cancellation
\* is looked for.  A poll that fails or finds nothing changes nothing.
ClaimPoll ==
  /\ pc = "pairing"
  /\ \/ code = "claimed" /\ pc' = "toml" /\ code' = "none" /\ UNCHANGED status
     \/ code = "open" /\ ~pairReq /\ pc' = "standby" /\ code' = "none" /\ status' = "standby"
  /\ UNCHANGED <<cloud, cgen, disk, unit, lines, mem, read, ref, mishaps>>

ClaimExpires ==
  /\ pc = "pairing" /\ code # "claimed"
  /\ pc' = "standby" /\ code' = "none" /\ status' = "pair_expired" /\ pairReq' = FALSE
  /\ UNCHANGED <<cloud, cgen, conf, secret, toml, token, unit, lines, mem, read, ref, mishaps>>

\* The installer's token; looked at only when no pairing is asked for.
run_token_flow ==
  /\ pc = "standby" /\ ~pairReq /\ token
  /\ \/ status' = "enroll_failed" /\ UNCHANGED <<cloud, cgen, pc, ref>>
     \/ cloud = "free" /\ cgen < MaxGen /\ Issue /\ pc' = "toml" /\ status' = "enrolling"
  /\ UNCHANGED <<code, disk, unit, lines, mem, read, mishaps>>

\* finalize_enrollment, step 1: frpc.toml.  A failed write gives the profile up.
WriteToml ==
  /\ pc = "toml"
  /\ \/ toml' = cgen /\ pc' = "secret" /\ UNCHANGED mishaps
     \/ mishaps < MaxMishap /\ mishaps' = mishaps + 1 /\ pc' = "standby" /\ UNCHANGED toml
  /\ UNCHANGED <<cloud, cgen, code, conf, secret, pairReq, token, unit, lines, status, mem, read, ref>>

\* Step 2: the secret.  A failed write is logged and enrollment goes on.
SaveSecret ==
  /\ pc = "secret" /\ pc' = "save"
  /\ \/ secret' = cgen /\ UNCHANGED mishaps
     \/ mishaps < MaxMishap /\ mishaps' = mishaps + 1 /\ UNCHANGED secret
  /\ UNCHANGED <<cloud, cgen, code, conf, toml, pairReq, token, unit, lines, status, mem, read, ref>>

\* Mutant: a new identity keeps the read position of the last one.
KeepCursor == cursor' = None /\ UNCHANGED <<cursorFile, since>>

\* The next read of the journal starts from now.
DropCursor == cursor' = None /\ cursorFile' = None /\ since' = Len(lines)

\* Step 3: the cursor is dropped, the marker goes, enrolled = true is saved.
SaveEnrolled ==
  /\ pc = "save" /\ pc' = "enrolled"
  /\ DropCursor /\ conf' = [enrolled |-> TRUE, marker |-> ""]
  /\ UNCHANGED <<cloud, cgen, code, secret, toml, pairReq, token, unit, lines, status, mem, ref, mishaps>>

\* ensure_frpc_running: a running unit is left alone, whatever it runs with.
EnsureFrpc ==
  IF toml # 0 /\ frpc = 0 THEN frpc' = toml /\ frpcOn' = TRUE ELSE UNCHANGED unit

\* The start of active_loop: fresh counters, the secret as it is on disk.
EnterActive == pc' = "active" /\ hb' = NoRefusals /\ fr' = NoRefusals /\ loaded' = secret

\* Step 4: trigger files, tunnel, status; then active_loop.
EnrollDone ==
  /\ pc = "enrolled"
  /\ pairReq' = FALSE /\ token' = FALSE /\ EnsureFrpc /\ status' = "active" /\ EnterActive
  /\ UNCHANGED <<cloud, cgen, code, conf, secret, toml, lines, read, verdict, ref, mishaps>>

-----------------------------------------------------------------------------
(* The active loop: evidence. *)

\* RefusalTracker.note_refusal
NoteRefusal(t, c) == [cls |-> c, count |-> IF t.cls = c THEN t.count + 1 ELSE 1]

\* One watchdog tick starts with the tunnel, then reads the journal once.
Tick == pc = "active" /\ EnsureFrpc

TickUnchanged == UNCHANGED <<cloud, cgen, code, disk, lines, status, hb, loaded, ref, mishaps>>

\* A tick without a refusal is a success.
CleanTick == fr' = NoRefusals /\ UNCHANGED <<pc, verdict>> /\ TickUnchanged

From == IF cursor # None THEN cursor ELSE cursorFile
Start == IF From # None THEN From ELSE IF since # None THEN since ELSE Len(lines)
Window == Start + 1 .. Len(lines)

\* No cursor comes back (journalctl fails, no lines, no footer): the window is
\* armed again with where this read started.
TickNoCursor ==
  /\ Tick /\ CleanTick
  /\ since' = (IF From = None THEN Start ELSE since)
  /\ UNCHANGED <<cursor, cursorFile>>

\* journalctl refuses the cursor: it is dropped.
TickStaleCursor ==
  /\ Tick /\ From # None /\ CleanTick /\ DropCursor

\* The new cursor moves in memory; when the file cannot be written the tick
\* counts as clean.
TickUnsaved ==
  /\ Tick /\ Window # {} /\ mishaps < MaxMishap
  /\ cursor' = Len(lines) /\ since' = (IF From = None THEN None ELSE since)
  /\ fr' = NoRefusals /\ mishaps' = mishaps + 1
  /\ UNCHANGED <<cloud, cgen, code, disk, lines, status, hb, loaded, ref, pc, verdict, cursorFile>>

\* New lines: the latest refusal among them is one event, none is a success.
TickRead ==
  LET refusals == {i \in Window : lines[i].cls # "ok"}
      c == lines[Max(refusals)].cls
  IN /\ Tick /\ Window # {}
     /\ cursor' = Len(lines) /\ cursorFile' = Len(lines)
     /\ since' = (IF From = None THEN None ELSE since)
     /\ IF refusals = {} THEN CleanTick
        ELSE /\ fr' = NoteRefusal(fr, c)
             /\ IF fr'.count >= Threshold THEN pc' = "stop" /\ verdict' = c
                ELSE UNCHANGED <<pc, verdict>>
             /\ TickUnchanged

\* A heartbeat the cloud answers: a 200 resets the counter, a known refusal
\* counts.  (No answer, a 5xx or an unknown reason changes nothing.)
Heartbeat ==
  LET c == HeartbeatClass(loaded) IN
  /\ pc = "active"
  /\ hb' = IF c = "ok" THEN NoRefusals ELSE NoteRefusal(hb, c)
  /\ ref' = Count(c # "ok")
  /\ IF hb'.count >= Threshold
     THEN pc' = "stop" /\ verdict' = c /\ UNCHANGED status
     ELSE status' = "active" /\ UNCHANGED <<pc, verdict>>
  /\ UNCHANGED <<cloud, cgen, code, disk, unit, lines, fr, loaded, read, mishaps>>

-----------------------------------------------------------------------------
(* The stand-down. *)

StateForClass(c) == IF c = "revoked" THEN "revoked" ELSE "unlinked"

\* stop_tunnel: stop and disable; a failed stop is ignored.
StopTunnel ==
  /\ pc = "stop" /\ pc' = "wipe"
  /\ frpcOn' = FALSE
  /\ frpc' = 0 \/ (StopMayFail /\ UNCHANGED frpc)
  /\ UNCHANGED <<cloud, cgen, code, disk, lines, status, mem, read, ref, mishaps>>

\* Mutant: the stand-down is abandoned when a file cannot be removed.
WipeFailsGivesUp ==
  /\ pc \in {"wipe", "wipeToml", "retry"} /\ mishaps < MaxMishap
  /\ pc' = "standby" /\ status' = "unlink_failed" /\ mishaps' = mishaps + 1
  /\ UNCHANGED <<cloud, cgen, code, disk, unit, lines, mem, read, ref>>

\* wipe_binding, one file at a time; a file that cannot be removed ends the
\* attempt in "unlink_failed", and retry_wipe_loop begins again.
WipeSecret ==
  /\ pc \in {"wipe", "retry"} /\ secret' = 0 /\ pc' = "wipeToml"
  /\ UNCHANGED <<cloud, cgen, code, conf, toml, pairReq, token, unit, lines, status, mem, read, ref, mishaps>>

WipeToml ==
  /\ pc = "wipeToml" /\ toml' = 0 /\ pc' = "mark"
  /\ UNCHANGED <<cloud, cgen, code, conf, secret, pairReq, token, unit, lines, status, mem, read, ref, mishaps>>

WipeFails ==
  /\ pc \in {"wipe", "wipeToml", "retry"} /\ mishaps < MaxMishap
  /\ pc' = "retry" /\ status' = "unlink_failed" /\ mishaps' = mishaps + 1
  /\ UNCHANGED <<cloud, cgen, code, disk, unit, lines, mem, read, ref>>

\* Mutant: the card is written and the marker is not.
FinishStandDownUnsaved ==
  /\ pc = "mark" /\ pc' = "standby"
  /\ status' = StateForClass(verdict) /\ verdict' = ""
  /\ UNCHANGED <<cloud, cgen, code, disk, unit, lines, hb, fr, loaded, read, ref, mishaps>>

\* finish_stand_down: de-enrolled and explained in one save, then the card.
FinishStandDown ==
  /\ pc = "mark" /\ pc' = "standby"
  /\ conf' = [enrolled |-> FALSE, marker |-> verdict]
  /\ status' = StateForClass(verdict) /\ verdict' = ""
  /\ UNCHANGED <<cloud, cgen, code, secret, toml, pairReq, token, unit, lines, hb, fr, loaded, read, ref,
                 mishaps>>

-----------------------------------------------------------------------------
(* Death and restart of the agent, and reboots. *)

\* agent.conf is written in place: a death inside a save may leave it empty.
Torn == pc \in {"save", "mark"} /\ conf' = NoMarker

\* A reboot empties /run and starts the tunnel if it is enabled and has a file.
AgentDies ==
  /\ pc # "dead" /\ mishaps < MaxMishap /\ mishaps' = mishaps + 1
  /\ pc' = "dead" /\ hb' = NoRefusals /\ fr' = NoRefusals /\ loaded' = 0 /\ verdict' = ""
  /\ cursor' = None /\ code' = (IF code = "open" THEN "none" ELSE code)
  /\ UNCHANGED conf \/ Torn
  /\ \/ UNCHANGED <<unit, status, cursorFile>>
     \/ /\ status' = "" /\ cursorFile' = None
        /\ frpc' = (IF frpcOn THEN toml ELSE 0) /\ UNCHANGED frpcOn
  /\ UNCHANGED <<cloud, cgen, secret, toml, pairReq, token, lines, since, ref>>

\* main: the card is rebuilt from the marker, then active_loop or standby.
AgentStarts ==
  /\ pc = "dead" /\ since' = Len(lines)
  /\ IF conf.enrolled
     THEN EnterActive /\ EnsureFrpc /\ UNCHANGED status
     ELSE /\ pc' = "standby" /\ UNCHANGED <<hb, fr, loaded, unit>>
          /\ status' = IF conf.marker # "" THEN StateForClass(conf.marker)
                       ELSE IF status \in Erased THEN status ELSE "standby"
  /\ UNCHANGED <<cloud, cgen, code, disk, lines, verdict, cursor, cursorFile, ref, mishaps>>

-----------------------------------------------------------------------------
Pairing == ClaimPost \/ ClaimPoll \/ ClaimExpires \/ run_token_flow
           \/ WriteToml \/ SaveSecret \/ SaveEnrolled \/ EnrollDone
Evidence == TickNoCursor \/ TickStaleCursor \/ TickUnsaved \/ TickRead \/ Heartbeat
StandDown == StopTunnel \/ WipeSecret \/ WipeToml \/ WipeFails \/ FinishStandDown

Next ==
  \/ OwnerClaims \/ OwnerDrops \/ FrpcDials \/ PairButton
  \/ Pairing \/ Evidence \/ StandDown \/ AgentDies \/ AgentStarts

\* The agent's thread is scheduled and systemd restarts the agent; heartbeats
\* get through again and again.  Owner, operator and mishaps owe nothing.
Fairness ==
  /\ WF_vars(WriteToml \/ SaveSecret \/ SaveEnrolled \/ EnrollDone)
  /\ WF_vars(StopTunnel \/ WipeSecret \/ WipeToml \/ FinishStandDown)
  /\ WF_vars(AgentStarts) /\ SF_vars(Heartbeat)

Spec == Init /\ [][Next]_vars /\ Fairness

-----------------------------------------------------------------------------
(* Properties. *)

\* The binding is never erased by doubt: a stand-down is under way only after
\* the cloud refused the present identity Threshold times.  Lines of a former
\* identity, lines read twice and silence do not count.
NeverByDoubt == pc \in Down => ref >= Threshold

\* What the card says after a stand-down is what agent.conf says, across deaths
\* of the agent, reboots and new pairings, and "active" is never said of a
\* board that is not enrolled.
CardTrue ==
  pc # "dead" =>
    /\ status \in Erased => ~conf.enrolled
    /\ status = "active" => conf.enrolled

\* A board the cloud has dropped for good de-enrols itself, whatever dies on
\* the way.
RefusalActedOn == <>[](cloud # "bound") => <>[](~conf.enrolled)
=============================================================================
