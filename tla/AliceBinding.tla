---------------------------- MODULE AliceBinding ----------------------------
(***************************************************************************)
(* The Alice door of the board.  The gateway's verdict that the board is   *)
(* unlinked reaches it in two ways: as an event on the client's Socket.IO  *)
(* callback thread, or as the answer to the operator's button, in a CGI    *)
(* process that exits when it has answered.  Either one erases the files   *)
(* the gateway issued; when that fails the stand-down stays owed, and the  *)
(* client's main thread retries it.  The three share the binding files and *)
(* one INI that each of them reads, changes and saves without a lock.  The *)
(* gateway is external.                                                    *)
(***************************************************************************)
EXTENDS Integers

CONSTANTS
  MaxGen,     \* bound: identities the gateway issues
  MaxFault,   \* bound: failed removals and writes
  MaxHalt     \* bound: deaths and reboots of the client, switches off and on

ASSUME AliceAssumption == MaxGen \in Nat \ {0} /\ {MaxFault, MaxHalt} \subseteq Nat

Files == {"crt", "claim"}        \* the key stands with the certificate, the CA with the claim
Wipers == {"main", "cb", "cgi"}    \* main thread, callback thread, CGI
Client == {"main", "cb"}

VARIABLES
  linked,    \* the gateway lists the board
  issued,    \* number of the identity the gateway issued last
  session,   \* the identity the client's live session was opened with, 0 if none
  event,     \* a controller_unlink is on its way to the live session
  file,      \* each binding file: the identity it belongs to, 0 if absent
  ini,       \* client INI: client_enabled and the unlink marker
  status,    \* the card, as the client wrote it last; "plain" is every other state
  pc,        \* the client's main loop
  back,      \* where the main loop goes on after a retry
  unlinked,  \* _unlinked
  pend,      \* PENDING_STAND_DOWN: the identity it is about, 0 if empty
  wipe,      \* each wiper's step, and the identity whose verdict it carries
  cgi,       \* the step of the CGI request that links or sets the flag
  snap,      \* the INI as each writer read it
  confirmed, \* history: the identity the last verdict was about
  faults, halts

gateway == <<linked, issued, session, event>>
memory == <<unlinked, pend>>
mishaps == <<faults, halts>>
vars == <<gateway, file, ini, status, pc, back, memory, wipe, cgi, snap, confirmed, mishaps>>

Ini == [enabled : BOOLEAN, marker : {"", "pending", "done"}]
NoIni == [enabled |-> FALSE, marker |-> ""]   \* nothing read
Idle == [at |-> "idle", gen |-> 0]
CertPresent == file["crt"] # 0

TypeOK ==
  /\ {linked, event, unlinked} \subseteq BOOLEAN
  /\ {issued, session, pend, confirmed} \subseteq 0 .. MaxGen /\ faults \in 0 .. MaxFault /\ halts \in 0 .. MaxHalt
  /\ file \in [Files -> 0 .. MaxGen + 1] /\ ini \in Ini
  /\ status \in {"plain", "unlinked", "unlink_failed"}
  /\ pc \in {"dead", "exit", "start", "outer", "reconcile", "wait", "waitTold", "dial", "session", "beat",
             "retry"}
  /\ back \in {"reconcile", "waitTold", "beat"}
  /\ wipe \in [Wipers -> [at : {"idle", "crt", "claim", "done", "mark", "failed", "pend", "flag"},
                          gen : 0 .. MaxGen]]
  /\ cgi \in {"idle", "crt", "claim", "clear", "unmark", "on", "off"}
  /\ snap \in [Wipers -> Ini]

\* A bound and connected board.
Init ==
  /\ linked = TRUE /\ issued = 1 /\ session = 1 /\ event = FALSE
  /\ file = [f \in Files |-> 1] /\ ini = [enabled |-> TRUE, marker |-> ""]
  /\ status = "plain" /\ pc = "session" /\ back = "beat"
  /\ unlinked = FALSE /\ pend = 0 /\ wipe = [w \in Wipers |-> Idle] /\ cgi = "idle"
  /\ snap = [w \in Wipers |-> NoIni] /\ confirmed = 0 /\ faults = 0 /\ halts = 0

Fault == faults < MaxFault /\ faults' = faults + 1 /\ UNCHANGED halts
Halt == halts < MaxHalt /\ halts' = halts + 1 /\ UNCHANGED faults

\* _suppress_status and _write_status, of state s.
Suppressed(s) == IF pend # 0 THEN s # "unlink_failed" ELSE unlinked /\ s # "unlinked"
WriteStatus(s) == status' = IF Suppressed(s) THEN status ELSE s

-----------------------------------------------------------------------------
(* The gateway (external). *)

\* The owner unlinks the board; a live session gets the event, once.
OwnerUnlinks ==
  /\ linked /\ linked' = FALSE
  /\ event' = (session # 0)
  /\ UNCHANGED <<issued, session, file, ini, status, pc, back, memory, wipe, cgi, snap, confirmed, mishaps>>

-----------------------------------------------------------------------------
(* The stand-down: binding_core through the Alice descriptor. *)

At(w, step) == wipe' = [wipe EXCEPT ![w].at = step]
After == [crt |-> "claim", claim |-> "done"]

Confirm(g) == confirmed' = IF g > confirmed THEN g ELSE confirmed

\* Mutant: the state is marked before the files are erased.
OnUnlinkMarksFirst ==
  /\ event /\ wipe["cb"] = Idle
  /\ event' = FALSE /\ Confirm(session)
  /\ wipe' = [wipe EXCEPT !["cb"] = [at |-> "done", gen |-> session]]
  /\ UNCHANGED <<linked, issued, session, file, ini, status, pc, back, memory, cgi, snap, mishaps>>

\* on_unlink on the callback thread: one verdict is enough.
OnUnlink ==
  /\ event /\ wipe["cb"] = Idle
  /\ event' = FALSE /\ Confirm(session)
  /\ wipe' = [wipe EXCEPT !["cb"] = [at |-> "crt", gen |-> session]]
  /\ UNCHANGED <<linked, issued, session, file, ini, status, pc, back, memory, cgi, snap, mishaps>>

\* wipe_binding: an absent file is fine.
Remove(w) ==
  /\ wipe[w].at \in Files
  /\ file' = [file EXCEPT ![wipe[w].at] = 0] /\ At(w, After[wipe[w].at])
  /\ UNCHANGED <<gateway, ini, status, pc, back, memory, cgi, snap, confirmed, mishaps>>

\* A file cannot be removed: the stand-down is owed.
RemoveFails(w) ==
  /\ wipe[w].at \in Files /\ file[wipe[w].at] # 0 /\ Fault
  /\ At(w, "failed")
  /\ pend' = IF w = "cb" THEN wipe[w].gen ELSE pend
  /\ UNCHANGED <<gateway, file, ini, status, pc, back, unlinked, cgi, snap, confirmed>>

\* set_unlink_marker reads the INI ...
ReadIni(w) ==
  /\ wipe[w].at \in {"done", "failed"}
  /\ snap' = [snap EXCEPT ![w] = ini]
  /\ At(w, IF wipe[w].at = "done" THEN "mark" ELSE "pend")
  /\ pend' = IF w = "main" /\ wipe[w].at = "done" THEN 0 ELSE pend
  /\ UNCHANGED <<gateway, file, ini, status, pc, back, unlinked, cgi, confirmed, mishaps>>

\* What a wiper does next when its stand-down is over: the callback still sets
\* _unlinked, the main thread has just set it, the CGI is gone.
Ended(w, erased) ==
  /\ wipe' = [wipe EXCEPT ![w] = IF w = "cb" /\ erased THEN [@ EXCEPT !.at = "flag"] ELSE Idle]
  /\ snap' = [snap EXCEPT ![w] = NoIni]
  /\ IF w = "main" THEN pc' = back /\ back' = "beat" /\ unlinked' = (unlinked \/ erased)
     ELSE UNCHANGED <<pc, back, unlinked>>

\* _checked_state: this door declares one state for a finished stand-down.
StateForClass == "unlinked"

\* finish_stand_down: ... and saves the completed marker; then the card, which
\* the CGI cannot write.
Finish(w) ==
  /\ wipe[w].at = "mark"
  /\ ini' = [snap[w] EXCEPT !.marker = "done"]
  /\ IF w \in Client THEN WriteStatus(StateForClass) ELSE UNCHANGED status
  /\ Ended(w, TRUE)
  /\ UNCHANGED <<gateway, file, pend, cgi, confirmed, mishaps>>

\* _persist_pending, best effort, and the error on the card.
Persist(w) ==
  /\ wipe[w].at = "pend"
  /\ \/ ini' = [snap[w] EXCEPT !.marker = "pending"] /\ UNCHANGED mishaps
     \/ Fault /\ UNCHANGED ini
  /\ IF w \in Client THEN WriteStatus("unlink_failed") ELSE UNCHANGED status
  /\ Ended(w, FALSE)
  /\ UNCHANGED <<gateway, file, pend, cgi, confirmed>>

\* The callback marks the state terminal after the erase.
SetUnlinked ==
  /\ wipe["cb"].at = "flag"
  /\ unlinked' = TRUE /\ wipe' = [wipe EXCEPT !["cb"] = Idle]
  /\ UNCHANGED <<gateway, file, ini, status, pc, back, pend, cgi, snap, confirmed, mishaps>>

-----------------------------------------------------------------------------
(* The client's main thread. *)

MainUnchanged == UNCHANGED <<gateway, file, ini, cgi, confirmed, mishaps>>

\* Mutant: a stand-down another process recorded is not taken over.
OwedInMemory == pend

\* adopt_pending: the identity of the stand-down this thread owes, 0 for none.
Owed == IF pend = 0 /\ ini.marker = "pending" THEN confirmed ELSE pend

\* _retry_pending_wipe from a place of the main loop, which then goes on at next.
RetryPendingWipe(next) ==
  /\ pend' = Owed
  /\ IF Owed # 0
     THEN /\ pc' = "retry" /\ back' = next
          /\ wipe' = [wipe EXCEPT !["main"] = [at |-> "crt", gen |-> Owed]]
     ELSE pc' = next /\ UNCHANGED <<back, wipe>>

ForgetAll ==
  /\ unlinked' = FALSE /\ pend' = 0 /\ back' = "beat"
  /\ wipe' = [wipe EXCEPT !["main"] = Idle, !["cb"] = Idle]
  /\ snap' = [snap EXCEPT !["main"] = NoIni, !["cb"] = NoIni]

\* run returns: the process ends with its threads and its memory.
Exit ==
  /\ pc' = "exit" /\ ForgetAll

\* Top of the reconnect loop.
Outer ==
  /\ pc = "outer"
  /\ IF ~ini.enabled
     THEN WriteStatus("plain") /\ Exit
     ELSE RetryPendingWipe("reconcile") /\ UNCHANGED <<status, unlinked, snap>>
  /\ MainUnchanged

\* Where the main loop goes from _should_wait_for_cert on a wss:// gateway; run
\* asks once before the reconnect loop.
AfterReconcile ==
  IF pc = "start" THEN IF CertPresent THEN "outer" ELSE "waitTold"
                  ELSE IF CertPresent THEN "dial" ELSE "wait"

\* Mutant: the flag is only ever set.
ReconcileSetsOnly ==
  /\ pc \in {"start", "reconcile"}
  /\ unlinked' = (unlinked \/ (~CertPresent /\ ini.marker = "done"))
  /\ pc' = AfterReconcile
  /\ UNCHANGED <<status, back, pend, wipe, snap>> /\ MainUnchanged

\* _reconcile_unlink_state and the test after it.
Reconcile ==
  /\ pc \in {"start", "reconcile"}
  /\ unlinked' = (~CertPresent /\ (unlinked \/ ini.marker = "done"))
  /\ pc' = AfterReconcile
  /\ UNCHANGED <<status, back, pend, wipe, snap>> /\ MainUnchanged

\* One tick of _await_cert, up to the retry ...
Await ==
  /\ pc = "wait"
  /\ \/ CertPresent /\ unlinked' = FALSE /\ pc' = "outer" /\ UNCHANGED <<back, pend, wipe, snap>>
     \/ ~CertPresent /\ ~ini.enabled /\ Exit
     \/ ~CertPresent /\ ini.enabled /\ RetryPendingWipe("waitTold") /\ UNCHANGED <<unlinked, snap>>
  /\ UNCHANGED status /\ MainUnchanged

\* ... and the card.
AwaitTold ==
  /\ pc = "waitTold" /\ pc' = "wait"
  /\ WriteStatus(IF unlinked THEN "unlinked" ELSE "plain")
  /\ UNCHANGED <<back, memory, wipe, snap>> /\ MainUnchanged

\* connect: a missing file, a handshake that fails, or a session.  A gateway
\* that does not list the board sends the event again.
Dial ==
  /\ pc = "dial"
  /\ \/ ~CertPresent /\ pc' = "outer" /\ WriteStatus("plain") /\ UNCHANGED <<session, event>>
     \/ CertPresent /\ pc' = "outer" /\ WriteStatus("plain") /\ UNCHANGED <<session, event>>
     \/ /\ CertPresent /\ pc' = "session" /\ WriteStatus("plain")
        /\ session' = file["crt"] /\ event' \in {FALSE, ~linked}
  /\ UNCHANGED <<linked, issued, file, ini, back, memory, wipe, cgi, snap, confirmed, mishaps>>

\* The watchdog loop's heartbeat: the retry ...
Session ==
  /\ pc = "session" /\ ~unlinked /\ ini.enabled
  /\ RetryPendingWipe("beat")
  /\ UNCHANGED <<status, unlinked, snap>> /\ MainUnchanged

\* ... then write_connected.
Beat ==
  /\ pc = "beat" /\ pc' = "session" /\ WriteStatus("plain")
  /\ UNCHANGED <<back, memory, wipe, snap>> /\ MainUnchanged

\* The gateway drops the session, or the loop's test fails; an event not yet
\* taken is lost.
SessionEnds ==
  /\ pc = "session" /\ pc' = "outer" /\ WriteStatus("plain") /\ session' = 0 /\ event' = FALSE
  /\ UNCHANGED <<linked, issued, file, ini, back, memory, wipe, cgi, snap, confirmed, mishaps>>

\* The process dies with its threads and its memory; a reboot empties /run.
ClientDies ==
  /\ pc # "dead" /\ Halt
  /\ pc' = "dead" /\ ForgetAll /\ session' = 0 /\ event' = FALSE
  /\ status' \in {status, "plain"}
  /\ UNCHANGED <<linked, issued, file, ini, cgi, confirmed>>

\* The marker cannot be saved after the erase, and the error leaves
\* finish_stand_down: it ends the callback or the request; in the main thread the
\* session, around which it is caught, or anywhere else the process, which
\* systemd restarts.
FinishFails(w) ==
  /\ wipe[w].at = "mark" /\ Fault
  /\ \/ w # "main" /\ Ended(w, FALSE) /\ UNCHANGED <<session, event, status, pend>>
     \/ /\ w = "main" /\ back = "beat" /\ pc' = "outer" /\ session' = 0 /\ event' = FALSE
        /\ WriteStatus("plain") /\ wipe' = [wipe EXCEPT ![w] = Idle] /\ snap' = [snap EXCEPT ![w] = NoIni]
        /\ UNCHANGED <<back, memory>>
     \/ w = "main" /\ back # "beat" /\ pc' = "dead" /\ ForgetAll /\ UNCHANGED <<session, event, status>>
  /\ UNCHANGED <<linked, issued, file, ini, cgi, confirmed>>

\* run, up to its first look at the certificate.
ClientStarts ==
  /\ pc = "dead" /\ WriteStatus("plain")
  /\ pc' = IF ini.enabled THEN "start" ELSE "exit"
  /\ UNCHANGED <<back, memory, wipe, snap>> /\ MainUnchanged

-----------------------------------------------------------------------------
(* The web panel's CGI: one request at a time. *)

CgiFree == cgi = "idle" /\ wipe["cgi"] = Idle
CgiUnchanged == UNCHANGED <<status, pc, back, memory, confirmed>>

\* start_link: a claim for the next identity is saved; then clear_unlink_marker.
start_link ==
  /\ CgiFree /\ issued < MaxGen
  /\ file' = [file EXCEPT !["claim"] = issued + 1]
  /\ cgi' = "clear"
  /\ UNCHANGED <<gateway, ini, wipe, snap, mishaps>> /\ CgiUnchanged

\* complete_link after the owner's consent: the gateway issues the identity.
complete_link ==
  /\ CgiFree /\ file["claim"] = issued + 1
  /\ issued' = issued + 1 /\ linked' = TRUE /\ cgi' = "crt"
  /\ UNCHANGED <<session, event, file, ini, wipe, snap, mishaps>> /\ CgiUnchanged

\* Its files, one after the other; a failed write ends the request.
WriteFile ==
  /\ cgi \in Files
  /\ \/ /\ file' = [file EXCEPT ![cgi] = issued]
        /\ cgi' = [crt |-> "claim", claim |-> "clear"][cgi]
        /\ UNCHANGED mishaps
     \/ Fault /\ cgi' = "idle" /\ UNCHANGED file
  /\ UNCHANGED <<gateway, ini, wipe, snap>> /\ CgiUnchanged

\* clear_unlink_marker and set_client_enabled read the INI ...
CgiReadIni ==
  /\ \/ cgi = "clear" /\ cgi' = (IF ini.marker = "" THEN "idle" ELSE "unmark") /\ UNCHANGED mishaps
     \/ CgiFree /\ cgi' \in {"on", "off"} /\ Halt
  /\ snap' = [snap EXCEPT !["cgi"] = IF cgi' = "idle" THEN NoIni ELSE ini]
  /\ UNCHANGED <<gateway, file, ini, wipe>> /\ CgiUnchanged

\* ... and save it; enabling restarts a client that stands by.
CgiSaveIni ==
  /\ cgi \in {"unmark", "on", "off"} /\ cgi' = "idle"
  /\ ini' = CASE cgi = "unmark" -> [snap["cgi"] EXCEPT !.marker = ""]
              [] cgi = "on"  -> [snap["cgi"] EXCEPT !.enabled = TRUE]
              [] cgi = "off" -> [snap["cgi"] EXCEPT !.enabled = FALSE]
  /\ pc' = IF cgi = "on" /\ pc = "exit" THEN "dead" ELSE pc
  /\ snap' = [snap EXCEPT !["cgi"] = NoIni]
  /\ UNCHANGED <<gateway, file, status, back, memory, wipe, confirmed, mishaps>>

\* unlink_controller: only an unlink the gateway confirms, or finds done,
\* starts the stand-down; a refusal changes nothing.
unlink_controller ==
  /\ CgiFree /\ (~linked \/ file["claim"] = issued)
  /\ linked' = FALSE /\ event' = (event \/ (linked /\ session # 0))
  /\ Confirm(issued)
  /\ wipe' = [wipe EXCEPT !["cgi"] = [at |-> "crt", gen |-> issued]]
  /\ UNCHANGED <<issued, session, file, ini, status, pc, back, memory, cgi, snap, mishaps>>

-----------------------------------------------------------------------------
Wiping(w) == Remove(w) \/ ReadIni(w) \/ Finish(w) \/ Persist(w)
MainLoop == Outer \/ Reconcile \/ Await \/ AwaitTold \/ Session \/ Beat \/ ClientStarts
Requests == start_link \/ complete_link \/ unlink_controller

Next ==
  \/ OwnerUnlinks \/ OnUnlink \/ SetUnlinked
  \/ \E w \in Wipers : Wiping(w) \/ RemoveFails(w) \/ FinishFails(w)
  \/ MainLoop \/ Dial \/ SessionEnds \/ ClientDies
  \/ Requests \/ WriteFile \/ CgiReadIni \/ CgiSaveIni

\* Threads and requests run on; systemd restarts the client.  A session may
\* last for ever, the owner and the operator owe nothing.
Fairness ==
  /\ WF_vars(MainLoop \/ Dial \/ Wiping("main") \/ ((unlinked \/ ~ini.enabled) /\ SessionEnds))
  /\ WF_vars(OnUnlink \/ Wiping("cb") \/ SetUnlinked)
  /\ WF_vars(Wiping("cgi") \/ WriteFile \/ CgiSaveIni \/ (cgi = "clear" /\ CgiReadIni))

Spec == Init /\ [][Next]_vars /\ Fairness

-----------------------------------------------------------------------------
(* Properties. *)

\* Erase first, then say so (on_unlink): when the card turns to "unlinked", no
\* certificate of the identity the verdict was about is left, whichever thread
\* wrote it and whatever was linked again meanwhile.
EraseBeforeCard ==
  [][status' = "unlinked" /\ status # "unlinked" =>
       \A w \in Client : wipe[w].at = "mark" /\ wipe'[w] # wipe[w] =>
         ~(CertPresent /\ file["crt"] <= wipe[w].gen)]_vars

\* A stand-down recorded as owed is carried out by the client, whoever recorded
\* it and however often the client dies: unless the client is switched off or a
\* new link takes the record away, the files are erased.
OwedIsPaid ==
  ini.marker = "pending" ~> (~CertPresent \/ ini.marker # "pending" \/ pc = "exit")

\* A board that is bound for good does not keep the card "unlinked", wherever
\* the main loop was when the certificate appeared.
UnlinkedLifts ==
  <>[](CertPresent /\ pc # "exit") => <>[](pc # "dead" => status # "unlinked")

\* "Both are cleared on a re-bind, when a certificate reappears": the retry of an
\* owed stand-down removes no certificate of an identity linked after the verdict.
NewBindingKept ==
  [][wipe["main"].at = "crt" /\ CertPresent /\ ~CertPresent' => file["crt"] <= wipe["main"].gen]_vars
=============================================================================
