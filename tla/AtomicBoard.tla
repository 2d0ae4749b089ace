----------------------------- MODULE AtomicBoard -----------------------------
(***************************************************************************)
(* What the updater promises of the installed files, with neither runner,  *)
(* journal, archive nor power loss in sight: the board is at one release,  *)
(* files are rewritten one at a time and only while it is busy, each to    *)
(* what the package under way ships or back to what the release holds, and *)
(* the board is at the next release all at once, when every file is the    *)
(* package's.  It stops being busy only when the files are its release's;  *)
(* nobody is made to finish, and a board may stay busy for ever.           *)
(***************************************************************************)
CONSTANTS
  File,     \* what an update may install or remove
  Soft,     \* the files among them that may keep their old content
  Content   \* what a file may hold, absence included

VARIABLES
  release,  \* the content of every file as the board's release has it
  files,    \* the installed files
  package,  \* what the package accepted last leaves of every file
  busy      \* maintenance: no package is accepted

Init ==
  /\ release \in [File -> Content] /\ files = release
  /\ package \in [File -> Content] /\ busy = FALSE

Accept ==
  /\ ~busy
  /\ package' \in [File -> Content] /\ UNCHANGED <<release, files, busy>>

\* Also of a board that has nothing to do: maintenance may be declared again.
Enter == busy' = TRUE /\ UNCHANGED <<release, files, package>>

Write(f) ==
  /\ busy
  /\ \E c \in {package[f], release[f]} : files' = [files EXCEPT ![f] = c]
  /\ UNCHANGED <<release, package, busy>>

Commit ==
  /\ busy /\ \A f \in File \ Soft : files[f] = package[f]
  /\ release' = files /\ UNCHANGED <<files, package, busy>>

Leave ==
  /\ files = release
  /\ busy' = FALSE /\ UNCHANGED <<release, files, package>>

Next == Accept \/ Enter \/ (\E f \in File : Write(f)) \/ Commit \/ Leave

Spec == Init /\ [][Next]_<<release, files, package, busy>>

--------------------------------------------------------------------------------
TypeOK ==
  /\ release \in [File -> Content] /\ files \in [File -> Content]
  /\ package \in [File -> Content] /\ busy \in BOOLEAN

\* A board that is not busy is at its release, whole.
Whole == ~busy => files = release

\* A file never holds anything but the old or the new content.
OldOrNew == \A f \in File : files[f] \in {release[f], package[f]}
================================================================================
