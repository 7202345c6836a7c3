----------------------------- MODULE VaultSeal -----------------------------
(***************************************************************************)
(* Several open handles on one AEROVAULT3 file, each with a copy of the    *)
(* container in memory, sealing it back with save_open_vault               *)
(* (aerovault/src/v3/vault.rs).  The code takes no lock: it compares the   *)
(* length and the header MAC of the file with those it saw when it opened  *)
(* or last sealed it, and leaves mutual exclusion to the embedder.         *)
(*                                                                         *)
(* What a call does to the memory of its handle is the business of         *)
(* VaultV3; here it is one step, and a container is the set of edits it    *)
(* holds and the salt of its password.  The save is modelled system call   *)
(* by system call, so that other handles, I/O errors, process crashes and  *)
(* power loss come between any two of them.                                *)
(***************************************************************************)
EXTENDS Naturals, FiniteSets

CONSTANTS
  Handle,          \* open handles, in one process or several
  Edit,            \* the changes callers ask for, each of them once
  SectionLengths,  \* the section lengths of a container, by the edits it holds
  Locking,         \* the embedder's lock covers "nothing", a "call", or a "session"
  DirectorySyncs,  \* fsync_parent_dir reaches the disk (best effort, Unix only)
  Free,            \* no handle holds the lock
  MaxSalt          \* bound: changes of the password

ChangePassword == "change_password"

ASSUME LockingAssumption == Locking \in {"nothing", "call", "session"}
ASSUME HandleAssumption  == Free \notin Handle
ASSUME EditAssumption    == ChangePassword \notin Edit
ASSUME BoundAssumption   == MaxSalt \in Nat
ASSUME SyncAssumption    == DirectorySyncs \in BOOLEAN

Container == [salt : Nat, edits : SUBSET Edit]

\* The bytes of a file are on the disk only once they have been synced.
File == [held : Container, synced : BOOLEAN]

Phase == {"closed", "idle", "changed", "checked", "written", "synced", "renamed", "durable"}

VARIABLES
  disk,      \* the file that opening the path finds
  stable,    \* the file that the path names after a loss of power
  lock,      \* the holder of the embedder's lock
  phase,     \* where each handle is in a call
  image,     \* header salt and manifest of each handle's memory
  baseline,  \* opened_file_len and opened_header_mac of each handle
  temp,      \* each handle's temporary file
  call,      \* what each handle was last asked for
  asked,     \* edits asked for so far
  salt,      \* the last salt drawn: each change of the password draws a fresh one
  \* History, which no guard reads:
  opened,    \* the container each handle last read from or put in the file
  reported,  \* edits whose call has returned Ok
  unread     \* handles that could not read back the header of their last save

files   == <<disk, stable>>
history == <<opened, reported, unread>>
vars    == <<files, lock, phase, image, baseline, temp, call, asked, salt, history>>

-----------------------------------------------------------------------------
\* Mutant: the salt is left out of the header MAC.
LengthsOnly(c) == <<SectionLengths[c.edits]>>

\* compute_mac covers the header alone: salt, wrapped keys, and the offsets and
\* lengths of the sections, which give the length of the file as well.
Generation(c) == <<c.salt, SectionLengths[c.edits]>>

Begin(h, scope) ==
  IF Locking = scope THEN lock = Free /\ lock' = h ELSE UNCHANGED lock

End(h, scope) ==
  lock' = IF Locking = scope THEN Free ELSE lock

Goto(h, p) == phase' = [phase EXCEPT ![h] = p]

\* open_vault reads the file it has opened, whatever is renamed over it meanwhile.
Open(h) ==
  /\ phase[h] = "closed"
  /\ Begin(h, "session")
  /\ image' = [image EXCEPT ![h] = disk.held]
  /\ baseline' = [baseline EXCEPT ![h] = Generation(disk.held)]
  /\ opened' = [opened EXCEPT ![h] = disk.held]
  /\ unread' = unread \ {h}
  /\ Goto(h, "idle")
  /\ UNCHANGED <<files, temp, call, asked, salt, reported>>

\* A call changes the memory of its handle.
Change(h, e) ==
  /\ phase[h] = "idle"
  /\ e \notin asked
  /\ Begin(h, "call")
  /\ image' = [image EXCEPT ![h].edits = @ \cup {e}]
  /\ call' = [call EXCEPT ![h] = e]
  /\ asked' = asked \cup {e}
  /\ Goto(h, "changed")
  /\ UNCHANGED <<files, baseline, temp, salt, history>>

\* change_password_in_place: a fresh salt, and the same keys wrapped anew.
NewPassword(h) ==
  /\ phase[h] = "idle"
  /\ salt < MaxSalt
  /\ Begin(h, "call")
  /\ salt' = salt + 1
  /\ image' = [image EXCEPT ![h].salt = salt + 1]
  /\ call' = [call EXCEPT ![h] = ChangePassword]
  /\ Goto(h, "changed")
  /\ UNCHANGED <<files, baseline, temp, asked, history>>

\* Mutant: only the length of the file is compared.
SameLength(f, g) == f[2] = g[2]

\* Mutant: no check.
AnyGeneration(f, g) == TRUE

SameGeneration(f, g) == f = g

\* assert_vault_generation_current lets the save go on.
Check(h) ==
  /\ phase[h] = "changed"
  /\ SameGeneration(Generation(disk.held), baseline[h])
  /\ Goto(h, "checked")
  /\ UNCHANGED <<files, lock, image, baseline, temp, call, asked, salt, history>>

\* The call returns an error: the change itself failed, the generation check
\* refused the save, or a system call before the rename did.  Memory stays
\* changed; the temporary file is removed.
Fail(h) ==
  /\ phase[h] \in {"changed", "checked", "written", "synced"}
  /\ End(h, "call")
  /\ Goto(h, "idle")
  /\ UNCHANGED <<files, image, baseline, temp, call, asked, salt, history>>

WriteTemp(h) ==
  /\ phase[h] = "checked"
  /\ temp' = [temp EXCEPT ![h] = [held |-> image[h], synced |-> FALSE]]
  /\ Goto(h, "written")
  /\ UNCHANGED <<files, lock, image, baseline, call, asked, salt, history>>

\* Mutant: the temporary file is flushed and never synced.
FlushTemp(h) ==
  /\ phase[h] = "written"
  /\ Goto(h, "synced")
  /\ UNCHANGED <<files, lock, image, baseline, temp, call, asked, salt, history>>

SyncTemp(h) ==
  /\ phase[h] = "written"
  /\ temp' = [temp EXCEPT ![h].synced = TRUE]
  /\ Goto(h, "synced")
  /\ UNCHANGED <<files, lock, image, baseline, call, asked, salt, history>>

\* tmp.persist: the rename.  When it reaches the disk is the file system's choice.
Persist(h) ==
  /\ phase[h] = "synced"
  /\ disk' = temp[h]
  /\ stable' \in {stable, temp[h]}
  /\ opened' = [opened EXCEPT ![h] = temp[h].held]
  /\ Goto(h, "renamed")
  /\ UNCHANGED <<lock, image, baseline, temp, call, asked, salt, reported, unread>>

\* Mutant: the directory is not synced.
SkipDirectory(h) ==
  /\ phase[h] = "renamed"
  /\ Goto(h, "durable")
  /\ UNCHANGED <<files, lock, image, baseline, temp, call, asked, salt, history>>

\* fsync_parent_dir, whose errors are ignored.
SyncDirectory(h) ==
  /\ phase[h] = "renamed"
  /\ stable' = IF DirectorySyncs THEN disk ELSE stable
  /\ Goto(h, "durable")
  /\ UNCHANGED <<disk, lock, image, baseline, temp, call, asked, salt, history>>

\* Mutant: the baseline stays that of the opening.
KeepBaseline(h) ==
  /\ phase[h] = "durable"
  /\ reported' = reported \cup ({call[h]} \cap Edit)
  /\ unread' = unread \ {h}
  /\ End(h, "call")
  /\ Goto(h, "idle")
  /\ UNCHANGED <<files, image, baseline, temp, call, asked, salt, opened>>

\* The call reads back the header it finds in the file, and returns Ok.
Refresh(h) ==
  /\ phase[h] = "durable"
  /\ baseline' = [baseline EXCEPT ![h] = Generation(disk.held)]
  /\ image' = [image EXCEPT ![h].salt = disk.held.salt]
  /\ reported' = reported \cup ({call[h]} \cap Edit)
  /\ unread' = unread \ {h}
  /\ End(h, "call")
  /\ Goto(h, "idle")
  /\ UNCHANGED <<files, temp, call, asked, salt, opened>>

\* Reading back fails: an error is returned for a save that has been made.
RefreshFails(h) ==
  /\ phase[h] = "durable"
  /\ unread' = unread \cup {h}
  /\ End(h, "call")
  /\ Goto(h, "idle")
  /\ UNCHANGED <<files, image, baseline, temp, call, asked, salt, opened, reported>>

\* The handle is dropped between calls, or its process dies in the middle of
\* one; the embedder reclaims the lock of a dead process.
Close(h) ==
  /\ phase[h] # "closed"
  /\ lock' = IF lock = h THEN Free ELSE lock
  /\ Goto(h, "closed")
  /\ UNCHANGED <<files, image, baseline, temp, call, asked, salt, history>>

PowerLoss ==
  /\ disk' = stable
  /\ lock' = Free
  /\ phase' = [h \in Handle |-> "closed"]
  /\ UNCHANGED <<stable, image, baseline, temp, call, asked, salt, history>>

\* create_empty_vault, by the same temporary file, rename and syncs.
Empty == [salt |-> 0, edits |-> {}]

Init ==
  /\ disk = [held |-> Empty, synced |-> TRUE]
  /\ stable = disk
  /\ lock = Free
  /\ phase = [h \in Handle |-> "closed"]
  /\ image = [h \in Handle |-> Empty]
  /\ baseline = [h \in Handle |-> Generation(Empty)]
  /\ temp = [h \in Handle |-> disk]
  /\ call = [h \in Handle |-> ChangePassword]
  /\ asked = {}
  /\ salt = 0
  /\ opened = [h \in Handle |-> Empty]
  /\ reported = {}
  /\ unread = {}

Step(h) ==
  \/ Open(h)
  \/ \E e \in Edit : Change(h, e)
  \/ NewPassword(h)
  \/ Check(h) \/ Fail(h) \/ WriteTemp(h) \/ SyncTemp(h) \/ Persist(h)
  \/ SyncDirectory(h) \/ Refresh(h) \/ RefreshFails(h) \/ Close(h)

Next == PowerLoss \/ \E h \in Handle : Step(h)

Spec == Init /\ [][Next]_vars

-----------------------------------------------------------------------------
TypeOK ==
  /\ disk \in File /\ stable \in File
  /\ lock \in Handle \cup {Free}
  /\ phase \in [Handle -> Phase]
  /\ image \in [Handle -> Container] /\ opened \in [Handle -> Container]
  /\ baseline \in [Handle -> (0..MaxSalt) \X { SectionLengths[E] : E \in SUBSET Edit }]
  /\ temp \in [Handle -> File]
  /\ call \in [Handle -> Edit \cup {ChangePassword}]
  /\ asked \subseteq Edit /\ reported \subseteq Edit /\ unread \subseteq Handle
  /\ salt \in 0..MaxSalt

Renames(h) == phase[h] = "synced" /\ phase'[h] = "renamed"

\* What the comment on assert_vault_generation_current says: a container is
\* sealed only over the one its handle opened or last sealed.
StaleRefused == [][\A h \in Handle : Renames(h) => opened[h] = disk.held]_vars

\* What the comment on the refresh of the baseline says: under a lock that is
\* held for the session, the save of a handle does not trip the generation check
\* against the bytes of its own last save, if only it could read them back.
NotRefusedAlone ==
  \A h \in Handle :
    Locking = "session" /\ phase[h] = "changed" /\ h \notin unread
      => SameGeneration(Generation(disk.held), baseline[h])

\* An edit whose call has returned Ok is never lost, by another handle's seal or
\* by a loss of power.
ReportedKept == reported \subseteq disk.held.edits \cap stable.held.edits

\* No seal brings back a password that has been replaced in the file.
PasswordNeverReverts ==
  [][\A h \in Handle : Renames(h) => disk'.held.salt >= disk.held.salt]_vars

\* A loss of power leaves a container that was written to its end.
FileWhole == stable.synced

\* The path and its handles, as a register that handles take turns to replace.
Register == INSTANCE VaultRegister WITH
  current <- disk.held,
  lasting <- stable.held,
  users   <- { h \in Handle : phase[h] # "closed" },
  seen    <- opened

\* Whatever handles, failures and losses of power come between the system calls of
\* save_open_vault, a save replaces the container as a whole and at once, over one
\* that its handle has seen, and what is reported is there and stays.
ImplementsRegister == Register!Spec
=============================================================================
