------------------------- MODULE AliceBindingProofs -------------------------
(***************************************************************************)
(* Proofs about AliceBinding, for any number of identities, faults and     *)
(* halts: the card turns to "unlinked" only when the certificate the       *)
(* verdict was about is gone.                                              *)
(***************************************************************************)
EXTENDS AliceBinding, TLAPS

LEMMA Bounds == MaxGen \in Nat \ {0} /\ MaxFault \in Nat /\ MaxHalt \in Nat
BY AliceAssumption

-----------------------------------------------------------------------------
(* The types in two parts. *)

Gens == 0 .. MaxGen
Steps == {"idle", "crt", "claim", "done", "mark", "failed", "pend", "flag"}

Words ==
  /\ linked \in BOOLEAN /\ event \in BOOLEAN /\ unlinked \in BOOLEAN
  /\ faults \in 0 .. MaxFault /\ halts \in 0 .. MaxHalt
  /\ ini \in Ini /\ status \in {"plain", "unlinked", "unlink_failed"}
  /\ pc \in {"dead", "exit", "start", "outer", "reconcile", "wait", "waitTold", "dial", "session", "beat",
             "retry"}
  /\ back \in {"reconcile", "waitTold", "beat"}
  /\ cgi \in {"idle", "crt", "claim", "clear", "unmark", "on", "off"}
  /\ snap \in [Wipers -> Ini]
Numbers ==
  /\ issued \in Gens /\ session \in Gens /\ pend \in Gens /\ confirmed \in Gens
  /\ file \in [Files -> Gens] /\ wipe \in [Wipers -> [at : Steps, gen : Gens]]

LEMMA Members ==
  /\ "main" \in Wipers /\ "cb" \in Wipers /\ "cgi" \in Wipers /\ "crt" \in Files /\ "claim" \in Files
  /\ NoIni \in Ini /\ Idle \in [at : Steps, gen : Gens] /\ Idle.gen = 0 /\ Idle.at = "idle"
BY Bounds DEF Wipers, Files, NoIni, Ini, Idle, Steps, Gens

\* A saved INI is what the writer read, with one field changed.
LEMMA Saved ==
  ASSUME NEW i \in Ini
  PROVE  /\ \A m \in {"", "pending", "done"} : [i EXCEPT !.marker = m] \in Ini
         /\ \A e \in BOOLEAN : [i EXCEPT !.enabled = e] \in Ini
BY DEF Ini

LEMMA Written ==
  ASSUME Words, NEW s \in {"plain", "unlinked", "unlink_failed"}, WriteStatus(s)
  PROVE  status' \in {"plain", "unlinked", "unlink_failed"}
BY DEF WriteStatus, Words

LEMMA More ==
  /\ \A n \in 0 .. MaxFault : n < MaxFault => n + 1 \in 0 .. MaxFault
  /\ \A n \in 0 .. MaxHalt : n < MaxHalt => n + 1 \in 0 .. MaxHalt
  /\ \A n \in Gens : n < MaxGen => n + 1 \in Gens
BY Bounds DEF Gens

Step == [at : Steps, gen : Gens]

\* A wiper goes on, or is given another verdict.
LEMMA Wipe ==
  ASSUME wipe \in [Wipers -> Step], NEW w \in Wipers
  PROVE  /\ wipe[w].gen \in Gens /\ wipe[w].at \in Steps
         /\ \A a \in Steps : [wipe EXCEPT ![w].at = a] \in [Wipers -> Step]
         /\ \A r \in Step : [wipe EXCEPT ![w] = r] \in [Wipers -> Step]
<1>1. wipe[w] \in Step
  OBVIOUS
<1>2. \A a \in Steps : [wipe[w] EXCEPT !.at = a] \in Step
  BY <1>1 DEF Step
<1> QED BY <1>1, <1>2 DEF Step

LEMMA StepNames ==
  /\ {"idle", "crt", "claim", "done", "mark", "failed", "pend", "flag"} \subseteq Steps
  /\ \A f \in Files : After[f] \in {"claim", "done"}
  /\ \A g \in Gens : \A a \in Steps : [at |-> a, gen |-> g] \in Step
<1>1. After["crt"] = "claim" /\ After["claim"] = "done"
  BY DEF After
<1> QED BY <1>1 DEF Steps, Files, Step

\* Where the main thread goes with a retry, and without.
LEMMA Retry ==
  ASSUME Words, Numbers, NEW next \in {"reconcile", "waitTold", "beat"}, RetryPendingWipe(next)
  PROVE  /\ pc' \in {"retry", next} /\ back' \in {back, next} /\ pend' \in {pend, confirmed}
         /\ wipe' = wipe \/ wipe' = [wipe EXCEPT !["main"] = [at |-> "crt", gen |-> pend']]
BY DEF RetryPendingWipe, Owed

LEMMA WordsStep == Words /\ Numbers /\ [Next]_vars => Words'
<1> SUFFICES ASSUME Words, Numbers, [Next]_vars PROVE Words'
  OBVIOUS
<1> USE Members, More DEF Words, gateway, memory, mishaps
<1>1. CASE OwnerUnlinks
  BY <1>1, Written DEF OwnerUnlinks
<1>2. CASE OnUnlink
  BY <1>2, Written, ZenonT(60) DEF OnUnlink, Confirm
<1>3. CASE SetUnlinked
  BY <1>3, Written DEF SetUnlinked
<1>10. CASE Reconcile
  BY <1>10, Written DEF Reconcile, MainUnchanged, AfterReconcile, CertPresent
<1>12. CASE AwaitTold
  BY <1>12, Written DEF AwaitTold, MainUnchanged
<1>13. CASE Session
  BY <1>13, Written DEF Session, MainUnchanged, RetryPendingWipe, Owed
<1>14. CASE Beat
  BY <1>14, Written DEF Beat, MainUnchanged
<1>15. CASE ClientStarts
  BY <1>15, Written DEF ClientStarts, MainUnchanged
<1>16. CASE Dial
  BY <1>16, Written DEF Dial
<1>17. CASE SessionEnds
  BY <1>17, Written DEF SessionEnds
<1>18. CASE ClientDies
  BY <1>18, Written DEF ClientDies, ForgetAll, Halt
<1>19. CASE start_link
  BY <1>19, Written DEF start_link, CgiFree, CgiUnchanged
<1>20. CASE complete_link
  BY <1>20, Written DEF complete_link, CgiFree, CgiUnchanged
<1>21. CASE unlink_controller
  BY <1>21, Written DEF unlink_controller, CgiFree, CgiUnchanged, Confirm
<1>23. CASE CgiReadIni
  BY <1>23, Written, ZenonT(60) DEF CgiReadIni, CgiFree, CgiUnchanged, Halt
<1>4. CASE \E w \in Wipers : Remove(w)
  BY <1>4 DEF Remove
<1>5. CASE \E w \in Wipers : RemoveFails(w)
  <2>1. PICK w \in Wipers : RemoveFails(w)
    BY <1>5
  <2> QED BY <2>1 DEF RemoveFails, Fault
<1>6. CASE \E w \in Wipers : ReadIni(w)
  <2>1. PICK w \in Wipers : ReadIni(w)
    BY <1>6
  <2>2. snap' \in [Wipers -> Ini]
    BY <2>1 DEF ReadIni
  <2> QED BY <2>1, <2>2 DEF ReadIni
<1>0. ASSUME NEW w \in Wipers, NEW e \in BOOLEAN, Ended(w, e)
      PROVE  /\ snap' \in [Wipers -> Ini] /\ unlinked' \in BOOLEAN
             /\ pc' \in {pc, back} /\ back' \in {back, "beat"}
  <2>1. snap' \in [Wipers -> Ini]
    BY <1>0 DEF Ended
  <2> QED BY <1>0, <2>1 DEF Ended
<1>7. CASE \E w \in Wipers : Finish(w)
  <2>1. PICK w \in Wipers : Finish(w)
    BY <1>7
  <2>2. ini' \in Ini
    BY <2>1, Saved DEF Finish
  <2>3. status' \in {"plain", "unlinked", "unlink_failed"}
    BY <2>1, Written DEF Finish, StateForClass
  <2>4. Ended(w, TRUE)
    BY <2>1 DEF Finish
  <2> QED BY <1>0, <2>1, <2>2, <2>3, <2>4 DEF Finish
<1>8. CASE \E w \in Wipers : Persist(w)
  <2>1. PICK w \in Wipers : Persist(w)
    BY <1>8
  <2>2. ini' \in Ini
    BY <2>1, Saved, ZenonT(60) DEF Persist
  <2>3. status' \in {"plain", "unlinked", "unlink_failed"}
    BY <2>1, Written DEF Persist
  <2>4. Ended(w, FALSE)
    BY <2>1 DEF Persist
  <2>5. faults' \in 0 .. MaxFault /\ halts' = halts
    BY <2>1 DEF Persist, Fault
  <2> QED BY <1>0, <2>1, <2>2, <2>3, <2>4, <2>5 DEF Persist
<1>1a. ASSUME ForgetAll
       PROVE  snap' \in [Wipers -> Ini] /\ unlinked' = FALSE /\ back' = "beat"
  BY <1>1a DEF ForgetAll
<1>26. CASE \E w \in Wipers : FinishFails(w)
  <2>1. PICK w \in Wipers : FinishFails(w)
    BY <1>26
  <2>2. faults' \in 0 .. MaxFault /\ halts' = halts
    BY <2>1 DEF FinishFails, Fault
  <2>3. UNCHANGED <<linked, ini, cgi>>
    BY <2>1 DEF FinishFails
  <2>4. CASE Ended(w, FALSE) /\ UNCHANGED <<session, event, status, pend>>
    BY <1>0, <2>2, <2>3, <2>4
  <2>5. CASE ForgetAll /\ pc' = "dead" /\ UNCHANGED <<session, event, status>>
    BY <1>1a, <2>2, <2>3, <2>5
  <2>6. CASE /\ pc' = "outer" /\ event' = FALSE /\ WriteStatus("plain")
             /\ snap' = [snap EXCEPT ![w] = NoIni] /\ UNCHANGED <<back, memory>>
    BY <2>2, <2>3, <2>6, Written
  <2> QED BY <2>1, <2>4, <2>5, <2>6 DEF FinishFails
<1>9. CASE Outer
  <2>1. CASE ini.enabled
    BY <1>9, <2>1, Retry DEF Outer, MainUnchanged
  <2>2. CASE ~ini.enabled
    BY <1>1a, <1>9, <2>2, Written DEF Outer, MainUnchanged, Exit
  <2> QED BY <2>1, <2>2
<1>11. CASE Await
  <2>1. CASE CertPresent
    BY <1>11, <2>1 DEF Await, MainUnchanged
  <2>2. CASE ~CertPresent /\ ~ini.enabled
    BY <1>1a, <1>11, <2>2 DEF Await, MainUnchanged, Exit
  <2>3. CASE ~CertPresent /\ ini.enabled
    BY <1>11, <2>3, Retry DEF Await, MainUnchanged
  <2> QED BY <2>1, <2>2, <2>3
<1>22. CASE WriteFile
  <2>1. cgi' \in {"claim", "clear", "idle"} /\ faults' \in 0 .. MaxFault /\ halts' = halts
    <3>1. cgi = "crt" \/ cgi = "claim"
      BY <1>22 DEF WriteFile, Files
    <3>2. CASE cgi = "crt"
      BY <1>22, <3>2 DEF WriteFile, Fault
    <3>3. CASE cgi = "claim"
      BY <1>22, <3>3 DEF WriteFile, Fault
    <3> QED BY <3>1, <3>2, <3>3
  <2> QED BY <1>22, <2>1 DEF WriteFile, CgiUnchanged
<1>24. CASE CgiSaveIni
  BY <1>24, Saved DEF CgiSaveIni
<1>25. CASE UNCHANGED vars
  BY <1>25 DEF vars
<1> QED BY <1>1, <1>2, <1>3, <1>4, <1>5, <1>6, <1>7, <1>8, <1>9, <1>10, <1>11, <1>12, <1>13,
     <1>14, <1>15, <1>16, <1>17, <1>18, <1>19, <1>20, <1>21, <1>22, <1>23, <1>24, <1>25, <1>26
     DEF Next, Wiping, MainLoop, Requests

LEMMA NumbersStep == Words /\ Numbers /\ [Next]_vars => Numbers'
<1> SUFFICES ASSUME Words, Numbers, [Next]_vars PROVE Numbers'
  OBVIOUS
<1>0. wipe \in [Wipers -> Step]
  BY DEF Numbers, Step
<1> USE Members, More DEF Numbers, gateway, memory, mishaps
<1>1. CASE OwnerUnlinks
  BY <1>1 DEF OwnerUnlinks
<1>3. CASE SetUnlinked
  BY <1>3 DEF SetUnlinked
<1>10. CASE Reconcile
  BY <1>10 DEF Reconcile, MainUnchanged, AfterReconcile, CertPresent
<1>12. CASE AwaitTold
  BY <1>12 DEF AwaitTold, MainUnchanged
<1>14. CASE Beat
  BY <1>14 DEF Beat, MainUnchanged
<1>15. CASE ClientStarts
  BY <1>15 DEF ClientStarts, MainUnchanged
<1>16. CASE Dial
  BY <1>16 DEF Dial
<1>17. CASE SessionEnds
  BY <1>17 DEF SessionEnds
<1>18. CASE ClientDies
  BY <1>18 DEF ClientDies, ForgetAll, Halt
<1>19. CASE start_link
  BY <1>19 DEF start_link, CgiFree, CgiUnchanged
<1>20. CASE complete_link
  BY <1>20 DEF complete_link, CgiFree, CgiUnchanged
<1>22. CASE WriteFile
  BY <1>22 DEF WriteFile, CgiUnchanged, Fault
<1>23. CASE CgiReadIni
  BY <1>23 DEF CgiReadIni, CgiFree, CgiUnchanged, Halt
<1>24. CASE CgiSaveIni
  BY <1>24 DEF CgiSaveIni
<1>25. CASE UNCHANGED vars
  BY <1>25 DEF vars
<1>2. CASE OnUnlink
  <2>1. wipe' \in [Wipers -> Step]
    BY <1>0, <1>2, Wipe, StepNames DEF OnUnlink
  <2> QED BY <1>2, <2>1 DEF OnUnlink, Confirm, Step
<1>4. CASE \E w \in Wipers : Remove(w)
  <2>1. PICK w \in Wipers : Remove(w)
    BY <1>4
  <2>2. wipe' \in [Wipers -> Step]
    <3>1. After[wipe[w].at] \in Steps
      BY <2>1, StepNames DEF Remove
    <3> QED BY <1>0, <2>1, <3>1, Wipe DEF Remove, At
  <2>3. file' \in [Files -> Gens]
    BY <2>1, Bounds DEF Remove, Gens
  <2> QED BY <2>1, <2>2, <2>3 DEF Remove, Step
<1>5. CASE \E w \in Wipers : RemoveFails(w)
  <2>1. PICK w \in Wipers : RemoveFails(w)
    BY <1>5
  <2>2. wipe' \in [Wipers -> Step]
    BY <1>0, <2>1, Wipe, StepNames DEF RemoveFails, At
  <2> QED BY <1>0, <2>1, <2>2, Wipe DEF RemoveFails, Step
<1>6. CASE \E w \in Wipers : ReadIni(w)
  <2>1. PICK w \in Wipers : ReadIni(w)
    BY <1>6
  <2>2. wipe' \in [Wipers -> Step]
    BY <1>0, <2>1, Wipe, StepNames DEF ReadIni, At
  <2>3. pend' \in Gens
    BY <2>1, Bounds DEF ReadIni, Gens
  <2> QED BY <2>1, <2>2, <2>3 DEF ReadIni, Step
<1>7. CASE \E w \in Wipers : Finish(w)
  <2>1. PICK w \in Wipers : Finish(w)
    BY <1>7
  <2>2. wipe' \in [Wipers -> Step]
    <3>1. wipe[w] \in Step /\ [wipe[w] EXCEPT !.at = "flag"] \in Step /\ Idle \in Step
      BY <1>0, StepNames DEF Step
    <3>2. wipe' = [wipe EXCEPT ![w] = [@ EXCEPT !.at = "flag"]] \/ wipe' = [wipe EXCEPT ![w] = Idle]
      BY <2>1 DEF Finish, Ended
    <3> QED BY <1>0, <3>1, <3>2, Wipe
  <2> QED BY <2>1, <2>2 DEF Finish, Step
<1>8. CASE \E w \in Wipers : Persist(w)
  <2>1. PICK w \in Wipers : Persist(w)
    BY <1>8
  <2>2. wipe' \in [Wipers -> Step]
    BY <1>0, <2>1, Wipe DEF Persist, Ended, Step
  <2> QED BY <2>1, <2>2 DEF Persist, Step
<1>10a. ASSUME NEW next \in {"reconcile", "waitTold", "beat"}, RetryPendingWipe(next)
        PROVE  pend' \in Gens /\ wipe' \in [Wipers -> Step]
  BY <1>0, <1>10a, Retry, Wipe, StepNames
<1>10b. ASSUME ForgetAll
        PROVE  pend' \in Gens /\ wipe' \in [Wipers -> Step]
  BY <1>0, <1>10b, Bounds DEF ForgetAll, Step, Gens
<1>26. CASE \E w \in Wipers : FinishFails(w)
  <2>1. PICK w \in Wipers : FinishFails(w)
    BY <1>26
  <2>2. wipe' \in [Wipers -> Step] /\ pend' \in Gens /\ session' \in Gens
    <3>1. ASSUME wipe' = [wipe EXCEPT ![w] = Idle] PROVE wipe' \in [Wipers -> Step]
      BY <1>0, <3>1, Wipe DEF Step
    <3>2. CASE Ended(w, FALSE) /\ UNCHANGED <<session, pend>>
      BY <3>1, <3>2 DEF Ended
    <3>3. CASE ForgetAll /\ UNCHANGED session
      BY <1>10b, <3>3
    <3>4. CASE session' = 0 /\ wipe' = [wipe EXCEPT ![w] = Idle] /\ UNCHANGED memory
      BY <3>1, <3>4, Bounds DEF Gens
    <3> QED BY <2>1, <3>2, <3>3, <3>4 DEF FinishFails
  <2> QED BY <2>1, <2>2 DEF FinishFails, Step
<1>9. CASE Outer
  BY <1>9, <1>10a, <1>10b DEF Outer, MainUnchanged, Exit, Step
<1>11. CASE Await
  BY <1>11, <1>10a, <1>10b DEF Await, MainUnchanged, Exit, Step
<1>13. CASE Session
  BY <1>13, <1>10a DEF Session, MainUnchanged, Step
<1>21. CASE unlink_controller
  <2>1. wipe' \in [Wipers -> Step]
    BY <1>0, <1>21, Wipe, StepNames DEF unlink_controller
  <2> QED BY <1>21, <2>1 DEF unlink_controller, CgiUnchanged, Confirm, Step
<1> QED BY <1>1, <1>2, <1>3, <1>4, <1>5, <1>6, <1>7, <1>8, <1>9, <1>10, <1>11, <1>12, <1>13,
     <1>14, <1>15, <1>16, <1>17, <1>18, <1>19, <1>20, <1>21, <1>22, <1>23, <1>24, <1>25, <1>26
     DEF Next, Wiping, MainLoop, Requests

-----------------------------------------------------------------------------
(* What a step may do to the identities. *)

\* An identity some thread, file or session of the board speaks of, or the one
\* issued last, of which nobody speaks before complete_link saves its certificate.
Known(n) ==
  \/ n \in {0, session, pend, confirmed, file["crt"]}
  \/ \E w \in Wipers : n = wipe[w].gen
  \/ n = issued /\ cgi # "crt"

\* The certificate of the verdict is off the disk.
Past == {"claim", "done", "mark"}

WipeQuiet ==
  \A w \in Wipers :
    /\ Known(wipe'[w].gen)
    /\ wipe'[w].at \in Past =>
         file'["crt"] = 0 \/ (wipe[w].at \in Past /\ wipe'[w].gen = wipe[w].gen)
Quiet ==
  /\ issued' = issued /\ (cgi' = "crt" <=> cgi = "crt")
  /\ Known(session') /\ Known(pend') /\ Known(confirmed') /\ file'["crt"] \in {0, file["crt"]}
  /\ WipeQuiet

LEMMA KnownOnes ==
  /\ Known(0) /\ Known(session) /\ Known(pend) /\ Known(confirmed) /\ Known(file["crt"])
  /\ \A w \in Wipers : Known(wipe[w].gen)
  /\ cgi # "crt" => Known(issued)
BY DEF Known

LEMMA AllRest == UNCHANGED wipe => WipeQuiet
BY KnownOnes DEF WipeQuiet

\* One wiper is given a verdict, or goes on with its own.
LEMMA GivenVerdict ==
  ASSUME Numbers, NEW w \in Wipers, NEW r \in Step, r.at \notin Past, Known(r.gen),
         wipe' = [wipe EXCEPT ![w] = r]
  PROVE  WipeQuiet
<1>1. \A v \in Wipers : wipe'[v] = IF v = w THEN r ELSE wipe[v]
  BY DEF Numbers
<1> QED BY <1>1, KnownOnes DEF WipeQuiet

LEMMA GoesOn ==
  ASSUME Numbers, NEW w \in Wipers, NEW a \in Steps, At(w, a),
         a \in Past => wipe[w].at \in Past \/ file'["crt"] = 0
  PROVE  WipeQuiet
<1>1. wipe[w] \in [at : Steps, gen : Gens]
  BY DEF Numbers
<1>2. wipe'[w].at = a /\ wipe'[w].gen = wipe[w].gen
  BY <1>1 DEF Numbers, At
<1>3. \A v \in Wipers : v # w => wipe'[v] = wipe[v]
  BY DEF Numbers, At
<1> QED BY <1>2, <1>3, KnownOnes DEF WipeQuiet

LEMMA IdleIsQuiet == Idle \in Step /\ Idle.at \notin Past /\ Known(Idle.gen)
BY Bounds, KnownOnes DEF Idle, Step, Steps, Gens, Past

LEMMA AllForgotten == Numbers /\ ForgetAll => WipeQuiet /\ pend' = 0
<1> SUFFICES ASSUME Numbers, ForgetAll PROVE WipeQuiet /\ pend' = 0
  OBVIOUS
<1>1. \A v \in Wipers : wipe'[v] \in {Idle, wipe[v]}
  BY DEF Numbers, ForgetAll
<1>2. pend' = 0
  BY DEF ForgetAll
<1> QED BY <1>1, <1>2, IdleIsQuiet, KnownOnes DEF WipeQuiet

LEMMA RetryIsQuiet ==
  ASSUME Words, Numbers, NEW next \in {"reconcile", "waitTold", "beat"}, RetryPendingWipe(next)
  PROVE  WipeQuiet /\ pend' \in {pend, confirmed}
<1>1. pend' \in {pend, confirmed} /\ Known(pend') /\ pend' \in Gens
  BY Retry, KnownOnes DEF Numbers
<1>2. CASE wipe' = wipe
  BY <1>1, <1>2, AllRest
<1>3. CASE wipe' = [wipe EXCEPT !["main"] = [at |-> "crt", gen |-> pend']]
  <2> DEFINE v == [at |-> "crt", gen |-> pend']
  <2>1. v \in Step /\ v.at \notin Past /\ Known(v.gen)
    BY <1>1 DEF Step, Steps, Past
  <2> HIDE DEF v
  <2>2. wipe' = [wipe EXCEPT !["main"] = v]
    BY <1>3 DEF v
  <2> QED BY <1>1, <2>1, <2>2, GivenVerdict, Members
<1> QED BY <1>2, <1>3, Retry

LEMMA QuietStep ==
  ASSUME Words, Numbers, [Next]_vars
  PROVE  Quiet \/ complete_link \/ WriteFile
<1> USE Members, KnownOnes, AllRest DEF Quiet, gateway, memory, mishaps
<1>1. CASE OwnerUnlinks
  BY <1>1 DEF OwnerUnlinks
<1>10. CASE Reconcile
  BY <1>10 DEF Reconcile, MainUnchanged, AfterReconcile, CertPresent
<1>12. CASE AwaitTold
  BY <1>12 DEF AwaitTold, MainUnchanged
<1>14. CASE Beat
  BY <1>14 DEF Beat, MainUnchanged
<1>15. CASE ClientStarts
  BY <1>15 DEF ClientStarts, MainUnchanged
<1>16. CASE Dial
  BY <1>16 DEF Dial
<1>17. CASE SessionEnds
  BY <1>17 DEF SessionEnds
<1>19. CASE start_link
  BY <1>19 DEF start_link, CgiFree, CgiUnchanged
<1>23. CASE CgiReadIni
  BY <1>23 DEF CgiReadIni, CgiFree, CgiUnchanged, Halt
<1>24. CASE CgiSaveIni
  BY <1>24 DEF CgiSaveIni
<1>25. CASE UNCHANGED vars
  BY <1>25 DEF vars
<1>2. CASE OnUnlink
  <2> DEFINE v == [at |-> "crt", gen |-> session]
  <2>1. v \in Step /\ v.at \notin Past /\ Known(v.gen)
    BY DEF Step, Steps, Past, Numbers
  <2> HIDE DEF v
  <2>2. WipeQuiet
    BY <1>2, <2>1, GivenVerdict DEF OnUnlink, v
  <2> QED BY <1>2, <2>2 DEF OnUnlink, Confirm
<1>3. CASE SetUnlinked
  <2>1. WipeQuiet
    BY <1>3, IdleIsQuiet, GivenVerdict DEF SetUnlinked
  <2> QED BY <1>3, <2>1 DEF SetUnlinked
<1>4. CASE \E w \in Wipers : Remove(w)
  <2>1. PICK w \in Wipers : Remove(w)
    BY <1>4
  <2>2. file'["crt"] \in {0, file["crt"]}
    BY <2>1 DEF Remove, Numbers
  <2>3. CASE wipe[w].at = "crt"
    <3>1. At(w, "claim") /\ file'["crt"] = 0
      BY <2>1, <2>3 DEF Remove, After, Numbers
    <3>2. WipeQuiet
      BY <3>1, GoesOn, StepNames
    <3> QED BY <2>1, <2>2, <3>2 DEF Remove
  <2>4. CASE wipe[w].at = "claim"
    <3>1. At(w, "done") /\ wipe[w].at \in Past
      BY <2>1, <2>4 DEF Remove, After, Past
    <3>2. WipeQuiet
      BY <3>1, GoesOn, StepNames
    <3> QED BY <2>1, <2>2, <3>2 DEF Remove
  <2> QED BY <2>1, <2>3, <2>4 DEF Remove, Files
<1>5. CASE \E w \in Wipers : RemoveFails(w)
  <2>1. PICK w \in Wipers : RemoveFails(w)
    BY <1>5
  <2>2. WipeQuiet
    BY <2>1, GoesOn, StepNames DEF RemoveFails, Past
  <2> QED BY <2>1, <2>2 DEF RemoveFails
<1>6. CASE \E w \in Wipers : ReadIni(w)
  <2>1. PICK w \in Wipers : ReadIni(w)
    BY <1>6
  <2>2. CASE wipe[w].at = "done"
    <3>1. At(w, "mark") /\ wipe[w].at \in Past
      BY <2>1, <2>2 DEF ReadIni, Past
    <3>2. WipeQuiet
      BY <3>1, GoesOn, StepNames
    <3> QED BY <2>1, <3>2 DEF ReadIni
  <2>3. CASE wipe[w].at # "done"
    <3>1. At(w, "pend")
      BY <2>1, <2>3 DEF ReadIni
    <3>2. WipeQuiet
      BY <3>1, GoesOn, StepNames DEF Past
    <3> QED BY <2>1, <3>2 DEF ReadIni
  <2> QED BY <2>2, <2>3
<1>0. ASSUME NEW w \in Wipers, NEW e \in BOOLEAN, Ended(w, e)
      PROVE  WipeQuiet
  <2>1. CASE wipe' = [wipe EXCEPT ![w] = Idle]
    BY <2>1, IdleIsQuiet, GivenVerdict
  <2>2. CASE At(w, "flag")
    BY <2>2, GoesOn, StepNames DEF Past
  <2> QED BY <1>0, <2>1, <2>2 DEF Ended, At
<1>7. CASE \E w \in Wipers : Finish(w)
  <2>1. WipeQuiet
    BY <1>0, <1>7 DEF Finish
  <2> QED BY <1>7, <2>1 DEF Finish
<1>8. CASE \E w \in Wipers : Persist(w)
  <2>1. WipeQuiet
    BY <1>0, <1>8 DEF Persist
  <2> QED BY <1>8, <2>1 DEF Persist
<1>26. CASE \E w \in Wipers : FinishFails(w)
  <2>1. PICK w \in Wipers : FinishFails(w)
    BY <1>26
  <2>2. CASE Ended(w, FALSE) /\ UNCHANGED <<session, pend>>
    BY <1>0, <2>1, <2>2 DEF FinishFails
  <2>3. CASE ForgetAll /\ UNCHANGED session
    BY <2>1, <2>3, AllForgotten DEF FinishFails
  <2>4. CASE session' = 0 /\ wipe' = [wipe EXCEPT ![w] = Idle] /\ UNCHANGED memory
    <3>1. WipeQuiet
      BY <2>4, IdleIsQuiet, GivenVerdict
    <3> QED BY <2>1, <2>4, <3>1 DEF FinishFails
  <2> QED BY <2>1, <2>2, <2>3, <2>4 DEF FinishFails
<1>9. CASE Outer
  <2>1. WipeQuiet /\ pend' \in {0, pend, confirmed}
    BY <1>9, RetryIsQuiet, AllForgotten DEF Outer, Exit
  <2> QED BY <1>9, <2>1 DEF Outer, MainUnchanged
<1>11. CASE Await
  <2>1. WipeQuiet /\ pend' \in {0, pend, confirmed}
    BY <1>11, RetryIsQuiet, AllForgotten DEF Await, Exit
  <2> QED BY <1>11, <2>1 DEF Await, MainUnchanged
<1>13. CASE Session
  BY <1>13, RetryIsQuiet DEF Session, MainUnchanged
<1>18. CASE ClientDies
  BY <1>18, AllForgotten DEF ClientDies
<1>20. CASE complete_link
  BY <1>20
<1>21. CASE unlink_controller
  <2> DEFINE v == [at |-> "crt", gen |-> issued]
  <2>1. cgi = "idle"
    BY <1>21 DEF unlink_controller, CgiFree
  <2>2. v \in Step /\ v.at \notin Past /\ Known(v.gen)
    BY <2>1 DEF Step, Steps, Past, Numbers
  <2> HIDE DEF v
  <2>3. WipeQuiet
    BY <1>21, <2>2, GivenVerdict DEF unlink_controller, v
  <2> QED BY <1>21, <2>1, <2>3 DEF unlink_controller, CgiUnchanged, Confirm
<1>22. CASE WriteFile
  BY <1>22
<1> QED BY <1>1, <1>2, <1>3, <1>4, <1>5, <1>6, <1>7, <1>8, <1>9, <1>10, <1>11, <1>12, <1>13,
     <1>14, <1>15, <1>16, <1>17, <1>18, <1>19, <1>20, <1>21, <1>22, <1>23, <1>24, <1>25, <1>26
     DEF Next, Wiping, MainLoop, Requests

-----------------------------------------------------------------------------
(* The invariant. *)

\* Nobody speaks of an identity the gateway has not issued, and of the newest
\* nobody does before its certificate is saved.
Issued == \A n : Known(n) => n \in Nat /\ n <= issued
Unspoken == cgi = "crt" => \A n : Known(n) => n < issued

\* A stand-down past its first removal left no certificate of its verdict.
ErasedOK == \A w \in Wipers : wipe[w].at \in Past => file["crt"] = 0 \/ file["crt"] > wipe[w].gen

LEMMA KnownType == Numbers => (\A n : Known(n) => n \in Nat) /\ issued \in Nat
<1> SUFFICES ASSUME Numbers PROVE (\A n : Known(n) => n \in Nat) /\ issued \in Nat
  OBVIOUS
<1>1. \A n \in Gens : n \in Nat
  BY Bounds DEF Gens
<1>2. 0 \in Nat /\ issued \in Nat /\ session \in Nat /\ pend \in Nat /\ confirmed \in Nat
  BY <1>1 DEF Numbers
<1>3. file["crt"] \in Nat
  BY <1>1, Members DEF Numbers
<1>4. \A w \in Wipers : wipe[w].gen \in Nat
  BY <1>1 DEF Numbers
<1> QED BY <1>2, <1>3, <1>4 DEF Known

\* What a step makes known is known before, or is the new certificate.
LEMMA KnownStep ==
  ASSUME Words, Numbers, [Next]_vars
  PROVE  \/ Quiet /\ \A n : Known(n)' => Known(n)
         \/ /\ issued' = issued + 1 /\ UNCHANGED <<wipe, file>> /\ cgi # "crt"
            /\ cgi' = "crt" /\ \A n : Known(n)' => Known(n)
         \/ /\ issued' = issued /\ cgi' # "crt" /\ UNCHANGED wipe
            /\ \/ cgi = "crt" /\ file'["crt"] = issued
               \/ file'["crt"] = file["crt"]
            /\ \A n : Known(n)' => Known(n) \/ n = issued
<1> USE DEF gateway, memory, mishaps
<1>1. CASE Quiet
  <2>1. issued' = issued /\ (cgi' = "crt" <=> cgi = "crt")
    BY <1>1 DEF Quiet
  <2>2. \A w \in Wipers : Known(wipe'[w].gen)
    BY <1>1 DEF Quiet, WipeQuiet
  <2>3. Known(file'["crt"])
    BY <1>1, KnownOnes DEF Quiet
  <2>4. ASSUME NEW n, Known(n)' PROVE Known(n)
    <3>1. \/ n \in {0, session', pend', confirmed', file'["crt"]}
          \/ \E w \in Wipers : n = wipe'[w].gen
          \/ n = issued' /\ cgi' # "crt"
      BY <2>4 DEF Known
    <3>2. CASE n = issued' /\ cgi' # "crt"
      BY <2>1, <3>2 DEF Known
    <3> QED BY <1>1, <2>2, <2>3, <3>1, <3>2, KnownOnes DEF Quiet
  <2> QED BY <1>1, <2>4
<1>2. CASE complete_link
  BY <1>2 DEF complete_link, CgiFree, CgiUnchanged, Known
<1>3. CASE WriteFile
  <2>1. cgi = "crt" \/ cgi = "claim"
    BY <1>3 DEF WriteFile, Files
  <2>2. UNCHANGED <<issued, session, pend, confirmed, wipe>>
    BY <1>3 DEF WriteFile, CgiUnchanged
  <2>3. cgi' # "crt" /\ ((cgi = "crt" /\ file'["crt"] = issued) \/ file'["crt"] = file["crt"])
    <3>1. CASE cgi = "crt"
      BY <1>3, <3>1 DEF WriteFile, Numbers, Files
    <3>2. CASE cgi = "claim"
      BY <1>3, <3>2 DEF WriteFile, Numbers, Files
    <3> QED BY <2>1, <3>1, <3>2
  <2> QED BY <2>2, <2>3 DEF Known
<1> QED BY <1>1, <1>2, <1>3, QuietStep

LEMMA SpokenStep ==
  Words /\ Numbers /\ Issued /\ Unspoken /\ [Next]_vars => Issued' /\ Unspoken'
<1> SUFFICES ASSUME Words, Numbers, Issued, Unspoken, [Next]_vars PROVE Issued' /\ Unspoken'
  OBVIOUS
<1>1. issued \in Nat /\ (issued' = issued \/ (issued' = issued + 1 /\ \A n : Known(n)' => Known(n)))
  BY KnownType, KnownStep DEF Quiet
<1>2. \A n : Known(n)' => Known(n) \/ n = issued
  BY KnownStep
<1>3. Issued'
  BY <1>1, <1>2 DEF Issued
<1>4. Unspoken'
  <2> SUFFICES ASSUME cgi' = "crt", NEW n, Known(n)' PROVE n < issued'
    BY DEF Unspoken
  <2>1. CASE Quiet /\ Known(n)
    BY <2>1 DEF Quiet, Unspoken
  <2>2. CASE issued' = issued + 1 /\ Known(n)
    BY <1>1, <2>2 DEF Issued
  <2> QED BY <2>1, <2>2, KnownStep
<1> QED BY <1>3, <1>4

LEMMA ErasedStep ==
  Words /\ Numbers /\ Unspoken /\ ErasedOK /\ [Next]_vars => ErasedOK'
<1> SUFFICES ASSUME Words, Numbers, Unspoken, ErasedOK, [Next]_vars,
                    NEW w \in Wipers, wipe'[w].at \in Past
             PROVE  file'["crt"] = 0 \/ file'["crt"] > wipe'[w].gen
  BY DEF ErasedOK
<1>1. issued \in Nat /\ wipe[w].gen \in Nat /\ Known(wipe[w].gen)
  BY KnownType, KnownOnes
<1>2. CASE Quiet
  BY <1>2 DEF Quiet, WipeQuiet, ErasedOK
<1>3. CASE wipe' = wipe /\ file'["crt"] = file["crt"]
  BY <1>3 DEF ErasedOK
<1>4. CASE wipe' = wipe /\ cgi = "crt" /\ file'["crt"] = issued
  BY <1>1, <1>4 DEF Unspoken
<1> QED BY <1>2, <1>3, <1>4, KnownStep

Inv == Words /\ Numbers /\ Issued /\ Unspoken /\ ErasedOK

LEMMA InitInv == Init => Inv
<1> SUFFICES ASSUME Init PROVE Inv
  OBVIOUS
<1>1. Words
  <2>1. 0 \in 0 .. MaxFault /\ 0 \in 0 .. MaxHalt
    BY Bounds
  <2>2. [enabled |-> TRUE, marker |-> ""] \in Ini
    BY DEF Ini
  <2>3. [w \in Wipers |-> NoIni] \in [Wipers -> Ini]
    BY Members
  <2> QED BY <2>1, <2>2, <2>3 DEF Init, Words
<1>2. Numbers
  <2>1. 0 \in Gens /\ 1 \in Gens
    BY Bounds DEF Gens
  <2> QED BY <2>1, Members DEF Init, Numbers
<1>3. Issued /\ Unspoken
  <2>1. \A w \in Wipers : wipe[w].gen = 0
    BY Members DEF Init
  <2>2. file["crt"] = 1
    BY Members DEF Init
  <2>3. \A n : Known(n) => n \in {0, 1}
    BY <2>1, <2>2 DEF Init, Known
  <2>4. issued = 1 /\ cgi = "idle"
    BY DEF Init
  <2> QED BY <2>3, <2>4 DEF Issued, Unspoken
<1>4. ErasedOK
  BY Members DEF Init, ErasedOK, Past
<1> QED BY <1>1, <1>2, <1>3, <1>4 DEF Inv

LEMMA InvHolds == Spec => []Inv
<1>1. Inv /\ [Next]_vars => Inv'
  BY WordsStep, NumbersStep, SpokenStep, ErasedStep DEF Inv
<1> QED BY <1>1, InitInv, PTL DEF Spec

\* Client, CGI and gateway stay within their types; no file, verdict or session
\* is of an identity that was never issued.
THEOREM TypeCorrect == Spec => []TypeOK
<1>1. Inv => TypeOK
  <2> SUFFICES ASSUME Inv PROVE TypeOK
    OBVIOUS
  <2>1. file \in [Files -> 0 .. MaxGen + 1]
    <3>1. \A n \in 0 .. MaxGen : n \in 0 .. MaxGen + 1
      BY Bounds
    <3> QED BY <3>1 DEF Inv, Numbers, Gens
  <2> QED BY <2>1 DEF Inv, Words, Numbers, TypeOK, Gens, Steps
<1> QED BY <1>1, InvHolds, PTL

\* The card turns to "unlinked" only when no certificate of the identity the
\* verdict was about is left, however callback, main thread, CGI and deaths of
\* the client interleave.
THEOREM ErasedFirst == Spec => EraseBeforeCard
<1> DEFINE Turn == status' = "unlinked" /\ status # "unlinked" =>
       \A w \in Client : wipe[w].at = "mark" /\ wipe'[w] # wipe[w] =>
         ~(CertPresent /\ file["crt"] <= wipe[w].gen)
<1>1. Inv => \A w \in Client : wipe[w].at = "mark" => ~(CertPresent /\ file["crt"] <= wipe[w].gen)
  <2> SUFFICES ASSUME Inv, NEW w \in Client, wipe[w].at = "mark"
               PROVE  ~(CertPresent /\ file["crt"] <= wipe[w].gen)
    OBVIOUS
  <2>1. w \in Wipers
    BY DEF Client, Wipers
  <2>2. file["crt"] \in Nat /\ wipe[w].gen \in Nat
    BY <2>1, KnownType, KnownOnes DEF Inv
  <2>3. file["crt"] = 0 \/ file["crt"] > wipe[w].gen
    BY <2>1 DEF Inv, ErasedOK, Past
  <2> QED BY <2>2, <2>3 DEF CertPresent
<1>2. Inv => Turn
  BY <1>1
<1> QED BY <1>2, InvHolds, PTL DEF EraseBeforeCard
=============================================================================
