-------------------------- MODULE VaultSeal_proofs --------------------------
(***************************************************************************)
(* Proofs about VaultSeal: types, whole files with no lock at all, and     *)
(* what the generation check adds to the embedder's lock.                  *)
(***************************************************************************)
EXTENDS VaultSeal, TLAPS

(***************************************************************************)
(* Types.  The header of a container takes its salt from those drawn.      *)
(***************************************************************************)
SaltsDrawn ==
  /\ disk.held.salt <= salt /\ stable.held.salt <= salt
  /\ \A h \in Handle :
       image[h].salt <= salt /\ temp[h].held.salt <= salt /\ opened[h].salt <= salt

TypeInv == TypeOK /\ SaltsDrawn

LEMMA GenerationType ==
  ASSUME NEW c \in Container, c.salt \in 0..MaxSalt
  PROVE  Generation(c) \in (0..MaxSalt) \X { SectionLengths[E] : E \in SUBSET Edit }
BY DEF Generation, Container

LEMMA TypeInit == Init => TypeInv
<1> SUFFICES ASSUME Init PROVE TypeInv
  OBVIOUS
<1>1. Empty \in Container /\ Empty.salt = 0
  BY DEF Empty, Container
<1>2. disk \in File /\ disk.held = Empty
  BY <1>1 DEF Init, File
<1>3. 0 \in 0..MaxSalt
  BY BoundAssumption
<1>4. Generation(Empty) \in (0..MaxSalt) \X { SectionLengths[E] : E \in SUBSET Edit }
  BY <1>1, <1>3, GenerationType
<1>5. TypeOK
  BY <1>1, <1>2, <1>3, <1>4 DEF Init, TypeOK, Phase
<1>6. SaltsDrawn
  BY <1>1, <1>2 DEF Init, SaltsDrawn
<1>7. QED
  BY <1>5, <1>6 DEF TypeInv

\* Each step of a handle keeps the types.
LEMMA TypeStep == TypeInv /\ [Next]_vars => TypeInv'
<1> SUFFICES ASSUME TypeInv, [Next]_vars PROVE TypeInv'
  OBVIOUS
<1> USE BoundAssumption, SyncAssumption, HandleAssumption
<1> USE DEF TypeInv, TypeOK, SaltsDrawn, Phase, Goto, Begin, End, files, history
<1>0. \A c \in Container : c.salt \in Nat /\ c.edits \in SUBSET Edit
  BY DEF Container
<1>f. \A f \in File : f.held \in Container /\ f.synced \in BOOLEAN
  BY DEF File
<1>d. disk.held \in Container /\ disk.held.salt \in 0..MaxSalt
  BY <1>0, <1>f
<1>g. Generation(disk.held) \in (0..MaxSalt) \X { SectionLengths[E] : E \in SUBSET Edit }
  BY <1>d, GenerationType
<1>1. ASSUME NEW h \in Handle, Open(h) PROVE TypeInv'
  BY <1>1, <1>d, <1>g DEF Open
<1>2. ASSUME NEW h \in Handle, NEW e \in Edit, Change(h, e) PROVE TypeInv'
  <2>1. image' \in [Handle -> Container] /\ \A g \in Handle : image'[g].salt = image[g].salt
    BY <1>2 DEF Change, Container
  <2>2. QED
    BY <1>2, <2>1 DEF Change
<1>3. ASSUME NEW h \in Handle, NewPassword(h) PROVE TypeInv'
  <2>1. salt' = salt + 1 /\ salt' \in 0..MaxSalt
    BY <1>3 DEF NewPassword
  <2>2. image' \in [Handle -> Container]
    <3>1. image' = [image EXCEPT ![h].salt = salt + 1]
      BY <1>3 DEF NewPassword
    <3>2. salt + 1 \in Nat /\ image \in [Handle -> [salt : Nat, edits : SUBSET Edit]]
      BY DEF Container
    <3>3. image' \in [Handle -> [salt : Nat, edits : SUBSET Edit]]
      BY ONLY <3>1, <3>2
    <3>4. QED
      BY <3>3 DEF Container
  <2>3. TypeOK'
    BY <1>3, <2>1, <2>2 DEF NewPassword
  <2>4. image'[h].salt <= salt'
    BY <1>3, <2>1 DEF NewPassword, Container
  <2>5. \A g \in Handle : image'[g].salt <= salt'
    BY <1>3, <2>1, <2>4, <1>0 DEF NewPassword
  <2>6. disk'.held.salt <= salt' /\ stable'.held.salt <= salt'
    BY <1>3, <2>1, <1>0, <1>f DEF NewPassword
  <2>7. \A g \in Handle : temp'[g].held.salt <= salt' /\ opened'[g].salt <= salt'
    BY <1>3, <2>1, <1>0, <1>f DEF NewPassword
  <2>8. QED
    BY <2>3, <2>5, <2>6, <2>7
<1>4. ASSUME NEW h \in Handle, Check(h) \/ Fail(h) PROVE TypeInv'
  <2>1. phase' \in [Handle -> Phase] /\ lock' \in Handle \cup {Free}
    BY <1>4 DEF Check, Fail
  <2>2. UNCHANGED <<disk, stable, image, baseline, temp, call, asked, salt, opened, reported, unread>>
    BY <1>4 DEF Check, Fail
  <2>3. QED
    BY <2>1, <2>2
<1>5. ASSUME NEW h \in Handle, WriteTemp(h) PROVE TypeInv'
  <2>1. [held |-> image[h], synced |-> FALSE] \in File
    BY DEF File
  <2>2. temp' \in [Handle -> File]
    BY <1>5, <2>1 DEF WriteTemp
  <2>3. \A g \in Handle : temp'[g].held.salt <= salt
    BY <1>5 DEF WriteTemp
  <2>4. QED
    BY <1>5, <2>2, <2>3 DEF WriteTemp
<1>6. ASSUME NEW h \in Handle, SyncTemp(h) PROVE TypeInv'
  <2>1. temp' \in [Handle -> File] /\ \A g \in Handle : temp'[g].held = temp[g].held
    BY <1>6 DEF SyncTemp, File
  <2>2. QED
    BY <1>6, <2>1 DEF SyncTemp
<1>7. ASSUME NEW h \in Handle, Persist(h) PROVE TypeInv'
  BY <1>7, <1>f DEF Persist
<1>8. ASSUME NEW h \in Handle, SyncDirectory(h) PROVE TypeInv'
  BY <1>8 DEF SyncDirectory
<1>9. ASSUME NEW h \in Handle, Refresh(h) PROVE TypeInv'
  <2>1. image' \in [Handle -> Container]
    BY <1>9, <1>d, <1>0 DEF Refresh, Container
  <2>2. \A g \in Handle : image'[g].salt <= salt'
    BY <1>9, <1>d DEF Refresh
  <2>3. QED
    BY <1>9, <1>g, <2>1, <2>2 DEF Refresh
<1>10. ASSUME NEW h \in Handle, RefreshFails(h) PROVE TypeInv'
  BY <1>10 DEF RefreshFails
<1>11. ASSUME NEW h \in Handle, Close(h) PROVE TypeInv'
  BY <1>11 DEF Close
<1>12. ASSUME PowerLoss PROVE TypeInv'
  BY <1>12 DEF PowerLoss
<1>13. ASSUME UNCHANGED vars PROVE TypeInv'
  BY <1>13 DEF vars
<1>14. QED
  BY <1>1, <1>2, <1>3, <1>4, <1>5, <1>6, <1>7, <1>8, <1>9, <1>10, <1>11, <1>12, <1>13
  DEF Next, Step

\* Every variable keeps its type.
THEOREM SpecType == Spec => []TypeInv
BY TypeInit, TypeStep, PTL DEF Spec

\* Every variable keeps its type, for any handles, edits, lengths and locks.
THEOREM TypeCorrect == Spec => []TypeOK
BY SpecType, PTL DEF TypeInv

(***************************************************************************)
(* Whole files, with no lock at all.  What is renamed has been synced, so  *)
(* all that was ever at the path has been.                                 *)
(***************************************************************************)
WholeInv ==
  /\ disk.synced = TRUE /\ stable.synced = TRUE
  /\ \A h \in Handle : phase[h] = "synced" => temp[h].synced = TRUE

\* A loss of power leaves a container that was written to its end: temporary
\* file, sync and rename suffice for that, whoever else writes and whether the
\* directory is synced or not.
THEOREM FileAlwaysWhole == Spec => []FileWhole
<1> USE DEF Goto
<1>1. Init => WholeInv
  BY DEF Init, WholeInv
<1>2. TypeInv /\ WholeInv /\ [Next]_vars => WholeInv'
  <2> SUFFICES ASSUME TypeInv, WholeInv, [Next]_vars PROVE WholeInv'
    OBVIOUS
  <2> USE DEF WholeInv
  <2>t. phase \in [Handle -> Phase] /\ temp \in [Handle -> File]
    BY DEF TypeInv, TypeOK
  <2>1. ASSUME NEW h \in Handle, Open(h) PROVE WholeInv'
    BY <2>1, <2>t DEF Open, files
  <2>2. ASSUME NEW h \in Handle, NEW e \in Edit, Change(h, e) PROVE WholeInv'
    BY <2>2, <2>t DEF Change, files
  <2>3. ASSUME NEW h \in Handle, NewPassword(h) PROVE WholeInv'
    BY <2>3, <2>t DEF NewPassword, files
  <2>4. ASSUME NEW h \in Handle, Check(h) PROVE WholeInv'
    BY <2>4, <2>t DEF Check, files
  <2>5. ASSUME NEW h \in Handle, Fail(h) PROVE WholeInv'
    BY <2>5, <2>t DEF Fail, files
  <2>6. ASSUME NEW h \in Handle, WriteTemp(h) PROVE WholeInv'
    BY <2>6, <2>t DEF WriteTemp, files
  <2>7. ASSUME NEW h \in Handle, SyncTemp(h) PROVE WholeInv'
    BY <2>7, <2>t DEF SyncTemp, files, File
  <2>8. ASSUME NEW h \in Handle, Persist(h) PROVE WholeInv'
    BY <2>8, <2>t DEF Persist
  <2>9. ASSUME NEW h \in Handle, SyncDirectory(h) PROVE WholeInv'
    BY <2>9, <2>t DEF SyncDirectory
  <2>10. ASSUME NEW h \in Handle, Refresh(h) PROVE WholeInv'
    BY <2>10, <2>t DEF Refresh, files
  <2>11. ASSUME NEW h \in Handle, RefreshFails(h) PROVE WholeInv'
    BY <2>11, <2>t DEF RefreshFails, files
  <2>12. ASSUME NEW h \in Handle, Close(h) PROVE WholeInv'
    BY <2>12, <2>t DEF Close, files
  <2>13. ASSUME PowerLoss PROVE WholeInv'
    BY <2>13 DEF PowerLoss
  <2>14. ASSUME UNCHANGED vars PROVE WholeInv'
    BY <2>14 DEF vars, files
  <2>15. QED
    BY <2>1, <2>2, <2>3, <2>4, <2>5, <2>6, <2>7, <2>8, <2>9, <2>10, <2>11, <2>12, <2>13, <2>14
    DEF Next, Step
<1>3. WholeInv => FileWhole
  BY DEF WholeInv, FileWhole
<1>4. QED
  BY <1>1, <1>2, <1>3, SpecType, PTL DEF Spec

(***************************************************************************)
(* Mutual exclusion, which the embedder's lock gives and the rest assumes. *)
(***************************************************************************)
InCall(h) == phase[h] \notin {"closed", "idle"}

LockInv ==
  \A h \in Handle :
    InCall(h) \/ (Locking = "session" /\ phase[h] # "closed") => lock = h

LEMMA LockInit == Init => LockInv
BY DEF Init, LockInv, InCall

LEMMA LockStep ==
  ASSUME Locking # "nothing"
  PROVE  TypeInv /\ LockInv /\ [Next]_vars => LockInv'
<1> SUFFICES ASSUME TypeInv, LockInv, [Next]_vars PROVE LockInv'
  OBVIOUS
<1> USE LockingAssumption, HandleAssumption DEF LockInv, InCall, Goto, Begin, End
<1>t. phase \in [Handle -> Phase]
  BY DEF TypeInv, TypeOK
<1>1. ASSUME NEW h \in Handle, Open(h) PROVE LockInv'
  BY <1>1, <1>t DEF Open
<1>2. ASSUME NEW h \in Handle, NEW e \in Edit, Change(h, e) PROVE LockInv'
  BY <1>2, <1>t DEF Change
<1>3. ASSUME NEW h \in Handle, NewPassword(h) PROVE LockInv'
  BY <1>3, <1>t DEF NewPassword
<1>4. ASSUME NEW h \in Handle, Check(h) PROVE LockInv'
  BY <1>4, <1>t DEF Check
<1>5. ASSUME NEW h \in Handle, Fail(h) PROVE LockInv'
  BY <1>5, <1>t DEF Fail
<1>6. ASSUME NEW h \in Handle, WriteTemp(h) PROVE LockInv'
  BY <1>6, <1>t DEF WriteTemp
<1>7. ASSUME NEW h \in Handle, SyncTemp(h) PROVE LockInv'
  BY <1>7, <1>t DEF SyncTemp
<1>8. ASSUME NEW h \in Handle, Persist(h) PROVE LockInv'
  BY <1>8, <1>t DEF Persist
<1>9. ASSUME NEW h \in Handle, SyncDirectory(h) PROVE LockInv'
  BY <1>9, <1>t DEF SyncDirectory
<1>10. ASSUME NEW h \in Handle, Refresh(h) PROVE LockInv'
  BY <1>10, <1>t DEF Refresh
<1>11. ASSUME NEW h \in Handle, RefreshFails(h) PROVE LockInv'
  BY <1>11, <1>t DEF RefreshFails
<1>12. ASSUME NEW h \in Handle, Close(h) PROVE LockInv'
  BY <1>12, <1>t DEF Close
<1>13. ASSUME PowerLoss PROVE LockInv'
  BY <1>13 DEF PowerLoss
<1>14. ASSUME UNCHANGED vars PROVE LockInv'
  BY <1>14 DEF vars
<1>15. QED
  BY <1>1, <1>2, <1>3, <1>4, <1>5, <1>6, <1>7, <1>8, <1>9, <1>10, <1>11, <1>12, <1>13, <1>14
  DEF Next, Step

LEMMA SpecLock ==
  ASSUME Locking # "nothing"
  PROVE  Spec => [](TypeInv /\ LockInv)
BY TypeInit, TypeStep, LockInit, LockStep, PTL DEF Spec

(***************************************************************************)
(* Passwords.  The salt is among what the generation check compares, and   *)
(* no handle has an older salt in memory than in its baseline: once the    *)
(* check has let a handle pass, the file's salt is no newer than the one   *)
(* that replaces it.                                                       *)
(***************************************************************************)
MaySave(h) == phase[h] \in {"checked", "written", "synced"}

SaltInv ==
  \A h \in Handle :
    /\ phase[h] # "closed" => baseline[h][1] <= image[h].salt
    /\ MaySave(h) => disk.held.salt <= image[h].salt
    /\ phase[h] \in {"written", "synced"} => temp[h].held = image[h]

LEMMA SaltStep ==
  ASSUME Locking # "nothing"
  PROVE  TypeInv /\ LockInv /\ SaltInv /\ [Next]_vars => SaltInv'
<1> SUFFICES ASSUME TypeInv, LockInv, SaltInv, [Next]_vars PROVE SaltInv'
  OBVIOUS
<1> USE DEF SaltInv, MaySave, Goto, files, history
<1>t. /\ phase \in [Handle -> Phase]
      /\ temp \in [Handle -> File]
      /\ image \in [Handle -> Container]
      /\ baseline \in [Handle -> (0..MaxSalt) \X { SectionLengths[E] : E \in SUBSET Edit }]
      /\ salt \in Nat
      /\ \A h \in Handle : image[h].salt <= salt
  BY BoundAssumption DEF TypeInv, TypeOK, SaltsDrawn
<1>n. /\ disk.held.salt \in Nat
      /\ \A h \in Handle : image[h].salt \in Nat /\ baseline[h][1] \in Nat
  BY <1>t, BoundAssumption DEF TypeInv, TypeOK, File, Container
<1>g. Generation(disk.held)[1] = disk.held.salt
  BY DEF Generation
<1>1. ASSUME NEW h \in Handle, Open(h) PROVE SaltInv'
  BY <1>1, <1>t, <1>n, <1>g DEF Open
<1>2. ASSUME NEW h \in Handle, NEW e \in Edit, Change(h, e) PROVE SaltInv'
  <2>1. \A g \in Handle : image'[g].salt = image[g].salt
    BY <1>2, <1>t DEF Change, Container
  <2>2. \A g \in Handle : g # h => image'[g] = image[g] /\ phase'[g] = phase[g]
    BY <1>2, <1>t DEF Change
  <2>3. phase'[h] = "changed" /\ phase[h] = "idle"
    BY <1>2, <1>t DEF Change
  <2>4. UNCHANGED <<disk, baseline, temp>>
    BY <1>2 DEF Change
  <2>5. QED
    BY <2>1, <2>2, <2>3, <2>4
<1>3. ASSUME NEW h \in Handle, NewPassword(h) PROVE SaltInv'
  <2>1. image'[h].salt = salt + 1
    BY <1>3, <1>t DEF NewPassword, Container
  <2>2. \A g \in Handle : g # h => image'[g] = image[g] /\ phase'[g] = phase[g]
    BY <1>3, <1>t DEF NewPassword
  <2>3. phase'[h] = "changed" /\ phase[h] = "idle"
    BY <1>3, <1>t DEF NewPassword
  <2>4. UNCHANGED <<disk, baseline, temp>>
    BY <1>3 DEF NewPassword
  <2>5. baseline[h][1] <= salt + 1
    BY <1>t, <1>n, <2>3
  <2>6. QED
    BY <2>1, <2>2, <2>3, <2>4, <2>5
<1>4. ASSUME NEW h \in Handle, Check(h) PROVE SaltInv'
  BY <1>4, <1>t, <1>g DEF Check, SameGeneration
<1>5. ASSUME NEW h \in Handle, Fail(h) PROVE SaltInv'
  BY <1>5, <1>t DEF Fail
<1>6. ASSUME NEW h \in Handle, WriteTemp(h) PROVE SaltInv'
  BY <1>6, <1>t DEF WriteTemp
<1>7. ASSUME NEW h \in Handle, SyncTemp(h) PROVE SaltInv'
  <2>1. \A g \in Handle : temp'[g].held = temp[g].held
    BY <1>7, <1>t DEF SyncTemp, File
  <2>2. QED
    BY <1>7, <1>t, <2>1 DEF SyncTemp
<1>8. ASSUME NEW h \in Handle, Persist(h) PROVE SaltInv'
  <2>1. \A g \in Handle : g # h => ~MaySave(g)
    BY <1>8 DEF Persist, LockInv, InCall
  <2>2. QED
    BY <1>8, <1>t, <2>1 DEF Persist
<1>9. ASSUME NEW h \in Handle, SyncDirectory(h) PROVE SaltInv'
  BY <1>9, <1>t DEF SyncDirectory
<1>10. ASSUME NEW h \in Handle, Refresh(h) PROVE SaltInv'
  <2>1. image'[h].salt = disk.held.salt /\ baseline'[h][1] = disk.held.salt
    BY <1>10, <1>t, <1>g DEF Refresh, Container
  <2>2. \A g \in Handle :
          g # h => image'[g] = image[g] /\ baseline'[g] = baseline[g] /\ phase'[g] = phase[g]
    BY <1>10, <1>t DEF Refresh
  <2>3. phase'[h] = "idle" /\ UNCHANGED <<disk, temp>>
    BY <1>10, <1>t DEF Refresh
  <2>4. QED
    BY <2>1, <2>2, <2>3, <1>n
<1>11. ASSUME NEW h \in Handle, RefreshFails(h) PROVE SaltInv'
  BY <1>11, <1>t DEF RefreshFails
<1>12. ASSUME NEW h \in Handle, Close(h) PROVE SaltInv'
  BY <1>12, <1>t DEF Close
<1>13. ASSUME PowerLoss PROVE SaltInv'
  BY <1>13 DEF PowerLoss
<1>14. ASSUME UNCHANGED vars PROVE SaltInv'
  BY <1>14 DEF vars
<1>15. QED
  BY <1>1, <1>2, <1>3, <1>4, <1>5, <1>6, <1>7, <1>8, <1>9, <1>10, <1>11, <1>12, <1>13, <1>14
  DEF Next, Step

\* Only a rename takes a handle from "synced" to "renamed".
LEMMA RenamesPersists ==
  ASSUME TypeInv, [Next]_vars, NEW h \in Handle, Renames(h)
  PROVE  Persist(h)
<1>t. phase \in [Handle -> Phase]
  BY DEF TypeInv, TypeOK
<1> USE <1>t DEF Renames, Goto
<1>1. ASSUME NEW g \in Handle, Open(g) PROVE FALSE
  BY <1>1 DEF Open
<1>2. ASSUME NEW g \in Handle, NEW e \in Edit, Change(g, e) PROVE FALSE
  BY <1>2 DEF Change
<1>3. ASSUME NEW g \in Handle, NewPassword(g) PROVE FALSE
  BY <1>3 DEF NewPassword
<1>4. ASSUME NEW g \in Handle, Check(g) \/ Fail(g) PROVE FALSE
  BY <1>4 DEF Check, Fail
<1>5. ASSUME NEW g \in Handle, WriteTemp(g) \/ SyncTemp(g) PROVE FALSE
  BY <1>5 DEF WriteTemp, SyncTemp
<1>6. ASSUME NEW g \in Handle, Persist(g) PROVE g = h
  BY <1>6 DEF Persist
<1>7. ASSUME NEW g \in Handle, SyncDirectory(g) PROVE FALSE
  BY <1>7 DEF SyncDirectory
<1>8. ASSUME NEW g \in Handle, Refresh(g) \/ RefreshFails(g) \/ Close(g) PROVE FALSE
  BY <1>8 DEF Refresh, RefreshFails, Close
<1>9. ~PowerLoss
  BY DEF PowerLoss
<1>10. ~UNCHANGED vars
  BY DEF vars
<1>11. QED
  BY <1>1, <1>2, <1>3, <1>4, <1>5, <1>6, <1>7, <1>8, <1>9, <1>10 DEF Next, Step

\* No seal brings back a password that has been replaced in the file, if only
\* saves exclude each other: whatever lengths the edits have, and although the
\* handle may have been opened before the password was changed.
THEOREM OldPasswordNeverReturns ==
  ASSUME Locking # "nothing"
  PROVE  Spec => PasswordNeverReverts
<1>1. Init => SaltInv
  BY DEF Init, SaltInv, MaySave
<1>2. TypeInv /\ LockInv /\ SaltInv /\ [Next]_vars
        => [\A h \in Handle : Renames(h) => disk'.held.salt >= disk.held.salt]_vars
  <2> SUFFICES ASSUME TypeInv, SaltInv, [Next]_vars, NEW h \in Handle, Renames(h)
               PROVE  disk'.held.salt >= disk.held.salt
    OBVIOUS
  <2>1. phase[h] = "synced" /\ disk' = temp[h]
    BY RenamesPersists DEF Persist
  <2>2. disk.held.salt <= image[h].salt /\ temp[h].held = image[h]
    BY <2>1 DEF SaltInv, MaySave
  <2>3. QED
    BY <2>1, <2>2
<1>3. QED
  BY <1>1, <1>2, SaltStep, SpecLock, PTL DEF Spec, PasswordNeverReverts

(***************************************************************************)
(* Stale handles.  The check compares generations, not containers.  It     *)
(* tells a stale handle when no two sets of edits have the same lengths,   *)
(* since then the container of a given generation is unique, and the       *)
(* containers that follow one another at the path only grow.               *)
(***************************************************************************)
LengthsTellEditsApart ==
  \A D, E \in SUBSET Edit : SectionLengths[D] = SectionLengths[E] => D = E

Guarded == Locking = "session" \/ (Locking = "call" /\ LengthsTellEditsApart)

Within(c, d) == c.salt <= d.salt /\ c.edits \subseteq d.edits

Cleared(h) == phase[h] \in {"checked", "written", "synced", "renamed", "durable"}
Saved(h)   == phase[h] \in {"renamed", "durable"}

BaselineInv ==
  \A h \in Handle : phase[h] # "closed" =>
    /\ \E c \in Container : baseline[h] = Generation(c) /\ Within(c, opened[h])
    /\ h \notin unread /\ ~Saved(h) => baseline[h] = Generation(opened[h])

OpenedInv ==
  \A h \in Handle : phase[h] # "closed" =>
    /\ Within(opened[h], disk.held)
    /\ Within(opened[h], image[h])
    /\ Locking = "session" \/ Cleared(h) => opened[h] = disk.held

SaveInv ==
  \A h \in Handle :
    /\ phase[h] \in {"written", "synced"} => temp[h].held = image[h]
    /\ Saved(h) => image[h] = disk.held

FreshInv == BaselineInv /\ OpenedInv /\ SaveInv

LEMMA WithinOrder ==
  /\ \A c \in Container : Within(c, c)
  /\ \A c, d, e \in Container : Within(c, d) /\ Within(d, e) => Within(c, e)
  /\ \A c, d \in Container : Within(c, d) /\ Within(d, c) => c = d
<1>1. \A c \in Container : c.salt \in Nat /\ c = [salt |-> c.salt, edits |-> c.edits]
  BY DEF Container
<1>2. \A c, d \in Container : Within(c, d) /\ Within(d, c) => c.salt = d.salt /\ c.edits = d.edits
  BY <1>1 DEF Within
<1>3. \A c, d \in Container : Within(c, d) /\ Within(d, c) => c = d
  BY <1>1, <1>2
<1>4. QED
  BY <1>1, <1>3 DEF Within

LEMMA FreshTypes ==
  ASSUME TypeInv
  PROVE  /\ phase \in [Handle -> Phase]
         /\ temp \in [Handle -> File] /\ \A h \in Handle : temp[h].held \in Container
         /\ image \in [Handle -> Container] /\ opened \in [Handle -> Container]
         /\ DOMAIN baseline = Handle
         /\ disk.held \in Container
BY DEF TypeInv, TypeOK, File

\* A handle that the check lets pass has not missed a save.
LEMMA CheckClears ==
  ASSUME Guarded, TypeInv, BaselineInv, OpenedInv, NEW h \in Handle, Check(h)
  PROVE  opened[h] = disk.held
<1>1. CASE Locking = "session"
  BY <1>1 DEF OpenedInv, Check
<1>2. CASE Locking = "call" /\ LengthsTellEditsApart
  <2>1. PICK c \in Container : baseline[h] = Generation(c) /\ Within(c, opened[h])
    BY DEF BaselineInv, Check
  <2>2. Generation(c) = Generation(disk.held)
    BY <2>1 DEF Check, SameGeneration
  <2>3. c.salt = disk.held.salt /\ SectionLengths[c.edits] = SectionLengths[disk.held.edits]
    BY <2>2 DEF Generation
  <2>4. c = disk.held
    <3>1. disk.held \in Container
      BY FreshTypes
    <3>2. c.edits \in SUBSET Edit /\ disk.held.edits \in SUBSET Edit
      BY <3>1 DEF Container
    <3>3. c.edits = disk.held.edits
      BY <1>2, <2>3, <3>2 DEF LengthsTellEditsApart
    <3>4. QED
      BY <2>3, <3>1, <3>3 DEF Container
  <2>5. Within(opened[h], disk.held)
    BY DEF OpenedInv, Check
  <2>6. QED
    BY <2>1, <2>4, <2>5, WithinOrder, FreshTypes
<1>3. QED
  BY <1>1, <1>2 DEF Guarded

LEMMA FreshInit == Init => FreshInv
BY DEF Init, FreshInv, BaselineInv, OpenedInv, SaveInv, Saved

LEMMA FreshStep ==
  ASSUME Guarded
  PROVE  TypeInv /\ LockInv /\ FreshInv /\ [Next]_vars => FreshInv'
<1> SUFFICES ASSUME TypeInv, LockInv, FreshInv, [Next]_vars PROVE FreshInv'
  OBVIOUS
<1> USE FreshTypes, WithinOrder
    DEF FreshInv, BaselineInv, OpenedInv, SaveInv, Cleared, Saved, Goto, files, history
<1>g. \A c : Generation(c)' = Generation(c)
  BY DEF Generation
<1>1. ASSUME NEW h \in Handle, Open(h) PROVE FreshInv'
  BY <1>1 DEF Open
<1>2. ASSUME NEW h \in Handle, NEW e \in Edit, Change(h, e) PROVE FreshInv'
  <2>1. Within(opened[h], image'[h])
    BY <1>2 DEF Change, Container, Within
  <2>2. \A g \in Handle : g # h => image'[g] = image[g] /\ phase'[g] = phase[g]
    BY <1>2 DEF Change
  <2>3. phase'[h] = "changed" /\ phase[h] = "idle"
    BY <1>2 DEF Change
  <2>4. UNCHANGED <<disk, baseline, temp, opened, unread>>
    BY <1>2 DEF Change
  <2>5. QED
    BY <2>1, <2>2, <2>3, <2>4
<1>3. ASSUME NEW h \in Handle, NewPassword(h) PROVE FreshInv'
  <2>1. Within(opened[h], image'[h])
    <3>1. image'[h].salt = salt + 1 /\ image'[h].edits = image[h].edits
      BY <1>3 DEF NewPassword, Container
    <3>2. opened[h].salt <= salt /\ salt \in Nat /\ opened[h].salt \in Nat
      BY BoundAssumption DEF TypeInv, TypeOK, SaltsDrawn, Container
    <3>3. opened[h].edits \subseteq image[h].edits
      BY <1>3 DEF NewPassword, Within
    <3>4. QED
      BY <3>1, <3>2, <3>3 DEF Within
  <2>2. \A g \in Handle : g # h => image'[g] = image[g] /\ phase'[g] = phase[g]
    BY <1>3 DEF NewPassword
  <2>3. phase'[h] = "changed" /\ phase[h] = "idle"
    BY <1>3 DEF NewPassword
  <2>4. UNCHANGED <<disk, baseline, temp, opened, unread>>
    BY <1>3 DEF NewPassword
  <2>5. QED
    BY <2>1, <2>2, <2>3, <2>4
<1>4. ASSUME NEW h \in Handle, Check(h) PROVE FreshInv'
  <2>1. opened[h] = disk.held
    BY <1>4, CheckClears
  <2>2. QED
    BY <1>4, <2>1 DEF Check
<1>5. ASSUME NEW h \in Handle, Fail(h) PROVE FreshInv'
  BY <1>5 DEF Fail
<1>6. ASSUME NEW h \in Handle, WriteTemp(h) PROVE FreshInv'
  BY <1>6 DEF WriteTemp
<1>7. ASSUME NEW h \in Handle, SyncTemp(h) PROVE FreshInv'
  <2>1. \A g \in Handle : temp'[g].held = temp[g].held
    BY <1>7 DEF SyncTemp, File
  <2>2. QED
    BY <1>7, <2>1 DEF SyncTemp
<1>8. ASSUME NEW h \in Handle, Persist(h) PROVE FreshInv'
  <2>1. phase[h] = "synced" /\ phase' = [phase EXCEPT ![h] = "renamed"]
    BY <1>8 DEF Persist
  <2>2. disk'.held = image[h] /\ opened' = [opened EXCEPT ![h] = image[h]]
    BY <1>8, <2>1 DEF Persist
  <2>3. UNCHANGED <<image, baseline, temp, unread>>
    BY <1>8 DEF Persist
  <2>4. Within(disk.held, image[h]) /\ opened[h] = disk.held
    BY <2>1
  <2>5. \A g \in Handle \ {h} : phase[g] \in {"closed", "idle"}
    BY <2>1 DEF LockInv, InCall
  <2>6. \A g \in Handle \ {h} : Locking = "session" => phase[g] = "closed"
    BY <2>1 DEF LockInv, InCall
  <2>7. BaselineInv'
    BY <2>1, <2>2, <2>3, <2>4, <1>g
  <2>8. OpenedInv'
    BY <2>1, <2>2, <2>3, <2>4, <2>5, <2>6
  <2>9. SaveInv'
    BY <2>1, <2>2, <2>3, <2>5
  <2>10. QED
    BY <2>7, <2>8, <2>9
<1>9. ASSUME NEW h \in Handle, SyncDirectory(h) PROVE FreshInv'
  BY <1>9 DEF SyncDirectory
<1>10. ASSUME NEW h \in Handle, Refresh(h) PROVE FreshInv'
  <2>1. phase[h] = "durable" /\ phase' = [phase EXCEPT ![h] = "idle"]
    BY <1>10 DEF Refresh
  <2>2. image[h] = disk.held /\ opened[h] = disk.held
    BY <2>1
  <2>3. image' = image
    BY <1>10, <2>2 DEF Refresh, Container
  <2>4. baseline' = [baseline EXCEPT ![h] = Generation(disk.held)] /\ unread' = unread \ {h}
    BY <1>10 DEF Refresh
  <2>5. UNCHANGED <<disk, temp, opened>>
    BY <1>10 DEF Refresh
  <2>6. BaselineInv'
    BY <2>1, <2>2, <2>4, <2>5
  <2>7. OpenedInv' /\ SaveInv'
    BY <2>1, <2>3, <2>5
  <2>8. QED
    BY <2>6, <2>7
<1>11. ASSUME NEW h \in Handle, RefreshFails(h) PROVE FreshInv'
  BY <1>11 DEF RefreshFails
<1>12. ASSUME NEW h \in Handle, Close(h) PROVE FreshInv'
  BY <1>12 DEF Close
<1>13. ASSUME PowerLoss PROVE FreshInv'
  BY <1>13 DEF PowerLoss
<1>14. ASSUME UNCHANGED vars PROVE FreshInv'
  BY <1>14 DEF vars
<1>15. QED
  BY <1>1, <1>2, <1>3, <1>4, <1>5, <1>6, <1>7, <1>8, <1>9, <1>10, <1>11, <1>12, <1>13, <1>14
  DEF Next, Step

LEMMA SpecFresh ==
  ASSUME Guarded
  PROVE  Spec => [](TypeInv /\ LockInv /\ FreshInv)
<1>1. Locking # "nothing"
  BY DEF Guarded
<1>2. QED
  BY <1>1, SpecLock, FreshInit, FreshStep, PTL DEF Spec

\* A container is sealed only over the one its handle opened or last sealed, as
\* the comment on assert_vault_generation_current has it: under a lock held for
\* the session always, under one held for a call if no two sets of edits have
\* the same section lengths.
THEOREM StaleHandlesRefused ==
  ASSUME Guarded
  PROVE  Spec => StaleRefused
<1>1. TypeInv /\ FreshInv /\ [Next]_vars
        => [\A h \in Handle : Renames(h) => opened[h] = disk.held]_vars
  <2> SUFFICES ASSUME TypeInv, FreshInv, [Next]_vars, NEW h \in Handle, Renames(h)
               PROVE  opened[h] = disk.held
    OBVIOUS
  <2>1. phase[h] = "synced"
    BY DEF Renames
  <2>2. QED
    BY <2>1 DEF FreshInv, OpenedInv, Cleared
<1>2. QED
  BY <1>1, SpecFresh, PTL DEF Spec, StaleRefused

\* Under a session lock a handle that could read back its last save passes the
\* generation check.
THEOREM NeverRefusedAlone == Spec => []NotRefusedAlone
<1>1. CASE Locking = "session"
  <2>1. Guarded
    BY <1>1 DEF Guarded
  <2>2. FreshInv => NotRefusedAlone
    BY <1>1 DEF FreshInv, BaselineInv, OpenedInv, Saved, NotRefusedAlone, SameGeneration
  <2>3. QED
    BY <2>1, <2>2, SpecFresh, PTL
<1>2. CASE Locking # "session"
  <2>1. NotRefusedAlone
    BY <1>2 DEF NotRefusedAlone
  <2>2. QED
    BY <2>1, PTL
<1>3. QED
  BY <1>1, <1>2

(***************************************************************************)
(* Reported edits.  Every container that the path may name after a loss of *)
(* power holds what has been reported; the one being saved holds, besides, *)
(* what its call was asked for.                                            *)
(***************************************************************************)
KeptInv ==
  /\ ReportedKept
  /\ \A h \in Handle : InCall(h) => {call[h]} \cap Edit \subseteq image[h].edits
  /\ \A h \in Handle : phase[h] = "durable" => stable = disk

LEMMA KeptStep ==
  ASSUME Guarded, DirectorySyncs
  PROVE  TypeInv /\ LockInv /\ FreshInv /\ KeptInv /\ [Next]_vars => KeptInv'
<1> SUFFICES ASSUME TypeInv, LockInv, FreshInv, KeptInv, [Next]_vars PROVE KeptInv'
  OBVIOUS
<1> USE FreshTypes DEF KeptInv, ReportedKept, InCall, Goto, files, history
<1>c. call \in [Handle -> Edit \cup {ChangePassword}]
  BY DEF TypeInv, TypeOK
<1>1. ASSUME NEW h \in Handle, Open(h) PROVE KeptInv'
  BY <1>1 DEF Open
<1>2. ASSUME NEW h \in Handle, NEW e \in Edit, Change(h, e) PROVE KeptInv'
  <2>1. e \in image'[h].edits /\ call'[h] = e
    BY <1>2, <1>c DEF Change, Container
  <2>2. \A g \in Handle \ {h} :
          image'[g] = image[g] /\ phase'[g] = phase[g] /\ call'[g] = call[g]
    BY <1>2, <1>c DEF Change
  <2>3. phase'[h] = "changed" /\ UNCHANGED <<disk, stable, reported>>
    BY <1>2 DEF Change
  <2>4. QED
    BY <2>1, <2>2, <2>3
<1>3. ASSUME NEW h \in Handle, NewPassword(h) PROVE KeptInv'
  <2>1. call'[h] = ChangePassword
    BY <1>3, <1>c DEF NewPassword
  <2>2. \A g \in Handle \ {h} :
          image'[g] = image[g] /\ phase'[g] = phase[g] /\ call'[g] = call[g]
    BY <1>3, <1>c DEF NewPassword
  <2>3. phase'[h] = "changed" /\ UNCHANGED <<disk, stable, reported>>
    BY <1>3 DEF NewPassword
  <2>4. QED
    BY <2>1, <2>2, <2>3, EditAssumption
<1>4. ASSUME NEW h \in Handle, Check(h) \/ Fail(h) PROVE KeptInv'
  <2>1. /\ phase[h] \notin {"closed", "idle"} /\ phase'[h] # "durable"
        /\ \A g \in Handle \ {h} : phase'[g] = phase[g]
    BY <1>4 DEF Check, Fail
  <2>2. UNCHANGED <<disk, stable, reported, image, call>>
    BY <1>4 DEF Check, Fail
  <2>3. QED
    BY <2>1, <2>2
<1>5. ASSUME NEW h \in Handle, WriteTemp(h) PROVE KeptInv'
  BY <1>5 DEF WriteTemp
<1>6. ASSUME NEW h \in Handle, SyncTemp(h) PROVE KeptInv'
  BY <1>6 DEF SyncTemp
<1>7. ASSUME NEW h \in Handle, Persist(h) PROVE KeptInv'
  <2>1. phase[h] = "synced" /\ phase' = [phase EXCEPT ![h] = "renamed"]
    BY <1>7 DEF Persist
  <2>2. disk'.held = image[h] /\ (stable' = stable \/ stable'.held = image[h])
    BY <1>7, <2>1 DEF Persist, FreshInv, SaveInv
  <2>3. disk.held.edits \subseteq image[h].edits
    BY <2>1 DEF FreshInv, OpenedInv, Cleared, Within
  <2>4. \A g \in Handle \ {h} : phase[g] # "durable"
    BY <2>1 DEF LockInv
  <2>5. UNCHANGED <<image, call, reported>>
    BY <1>7 DEF Persist
  <2>6. QED
    BY <2>1, <2>2, <2>3, <2>4, <2>5
<1>8. ASSUME NEW h \in Handle, SyncDirectory(h) PROVE KeptInv'
  BY <1>8 DEF SyncDirectory
<1>9. ASSUME NEW h \in Handle, Refresh(h) PROVE KeptInv'
  <2>1. phase[h] = "durable" /\ phase' = [phase EXCEPT ![h] = "idle"]
    BY <1>9 DEF Refresh
  <2>2. image[h] = disk.held /\ stable = disk
    BY <2>1 DEF FreshInv, SaveInv, Saved
  <2>3. reported' = reported \cup ({call[h]} \cap Edit) /\ UNCHANGED <<disk, stable, call>>
    BY <1>9 DEF Refresh
  <2>4. {call[h]} \cap Edit \subseteq disk.held.edits
    BY <2>1, <2>2
  <2>5. \A g \in Handle \ {h} : image'[g] = image[g]
    BY <1>9 DEF Refresh
  <2>6. QED
    BY <2>1, <2>2, <2>3, <2>4, <2>5
<1>10. ASSUME NEW h \in Handle, RefreshFails(h) PROVE KeptInv'
  BY <1>10 DEF RefreshFails
<1>11. ASSUME NEW h \in Handle, Close(h) PROVE KeptInv'
  BY <1>11 DEF Close
<1>12. ASSUME PowerLoss PROVE KeptInv'
  BY <1>12 DEF PowerLoss
<1>13. ASSUME UNCHANGED vars PROVE KeptInv'
  BY <1>13 DEF vars
<1>14. QED
  BY <1>1, <1>2, <1>3, <1>4, <1>5, <1>6, <1>7, <1>8, <1>9, <1>10, <1>11, <1>12, <1>13
  DEF Next, Step

\* An edit whose call has returned Ok is never lost, by another handle's save or
\* by a loss of power, if stale handles are told and directories are synced.
THEOREM ReportedAlwaysKept ==
  ASSUME Guarded, DirectorySyncs
  PROVE  Spec => []ReportedKept
<1>1. Init => KeptInv
  BY DEF Init, KeptInv, ReportedKept, InCall
<1>2. KeptInv => ReportedKept
  BY DEF KeptInv
<1>3. QED
  BY <1>1, <1>2, KeptStep, SpecFresh, PTL DEF Spec

(***************************************************************************)
(* The refinement of VaultRegister.  Only the rename changes the container *)
(* at the path but for a loss of power, and then its handle has seen what  *)
(* is there.                                                               *)
(***************************************************************************)
RegisterVars ==
  << disk.held, stable.held, { h \in Handle : phase[h] # "closed" }, opened, asked, reported >>

LEMMA RegisterInit == Init => Register!Init
BY DEF Init, Empty, Register!Init, Register!Empty

\* No container holds an edit that nobody has asked for.
AskedInv ==
  /\ disk.held.edits \subseteq asked /\ stable.held.edits \subseteq asked
  /\ \A h \in Handle : image[h].edits \subseteq asked

LEMMA AskedInit == Init => AskedInv
BY DEF Init, Empty, AskedInv

LEMMA AskedStep == TypeInv /\ FreshInv /\ AskedInv /\ [Next]_vars => AskedInv'
<1> SUFFICES ASSUME TypeInv, FreshInv, AskedInv, [Next]_vars PROVE AskedInv'
  OBVIOUS
<1> USE FreshTypes DEF AskedInv, files, history
<1>1. ASSUME NEW h \in Handle, Open(h) PROVE AskedInv'
  BY <1>1 DEF Open
<1>2. ASSUME NEW h \in Handle, NEW e \in Edit, Change(h, e) PROVE AskedInv'
  <2>1. image'[h].edits = image[h].edits \cup {e} /\ asked' = asked \cup {e}
    BY <1>2 DEF Change, Container
  <2>2. \A g \in Handle \ {h} : image'[g] = image[g]
    BY <1>2 DEF Change
  <2>3. UNCHANGED <<disk, stable>>
    BY <1>2 DEF Change
  <2> QED
    BY <2>1, <2>2, <2>3
<1>3. ASSUME NEW h \in Handle, NewPassword(h) \/ Refresh(h) PROVE AskedInv'
  <2>1. PICK n : image' = [image EXCEPT ![h].salt = n]
    BY <1>3 DEF NewPassword, Refresh
  <2>2. \A g \in Handle : image'[g].edits = image[g].edits
    BY <2>1 DEF Container
  <2>3. UNCHANGED <<disk, stable, asked>>
    BY <1>3 DEF NewPassword, Refresh
  <2> QED
    BY <2>2, <2>3
<1>4. ASSUME NEW h \in Handle, Check(h) \/ Fail(h) \/ WriteTemp(h) \/ SyncTemp(h) PROVE AskedInv'
  BY <1>4 DEF Check, Fail, WriteTemp, SyncTemp
<1>5. ASSUME NEW h \in Handle, Persist(h) PROVE AskedInv'
  <2>1. temp[h].held = image[h]
    BY <1>5 DEF Persist, FreshInv, SaveInv
  <2> QED
    BY <1>5, <2>1 DEF Persist
<1>6. ASSUME NEW h \in Handle, SyncDirectory(h) \/ RefreshFails(h) \/ Close(h) PROVE AskedInv'
  BY <1>6 DEF SyncDirectory, RefreshFails, Close
<1>7. ASSUME PowerLoss PROVE AskedInv'
  BY <1>7 DEF PowerLoss
<1>8. ASSUME UNCHANGED vars PROVE AskedInv'
  BY <1>8 DEF vars
<1> QED
  BY <1>1, <1>2, <1>3, <1>4, <1>5, <1>6, <1>7, <1>8 DEF Next, Step

\* What leaves the files alone, opens and closes nothing and reports nothing does not show.
LEMMA HiddenStep ==
  ASSUME TypeInv, NEW h \in Handle, UNCHANGED <<disk, stable, opened, asked, reported>>,
         NEW p \in Phase, phase' = [phase EXCEPT ![h] = p], phase[h] # "closed", p # "closed"
  PROVE  UNCHANGED RegisterVars
<1>1. \A g \in Handle : phase'[g] # "closed" <=> phase[g] # "closed"
  BY FreshTypes
<1> QED
  BY <1>1 DEF RegisterVars

LEMMA PersistReplaces ==
  ASSUME TypeInv, LockInv, FreshInv, AskedInv, NEW h \in Handle, Persist(h)
  PROVE  Register!Replace(h)
<1>1. phase[h] = "synced" /\ phase' = [phase EXCEPT ![h] = "renamed"]
  BY DEF Persist, Goto
<1>2. /\ disk' = temp[h] /\ stable' \in {stable, temp[h]}
      /\ opened' = [opened EXCEPT ![h] = temp[h].held] /\ UNCHANGED <<asked, reported>>
  BY DEF Persist
<1>3. opened[h] = disk.held
  BY <1>1 DEF FreshInv, OpenedInv, Cleared
<1>4. Within(disk.held, temp[h].held) /\ temp[h].held.edits \subseteq asked
  BY <1>1, <1>3 DEF FreshInv, OpenedInv, SaveInv, AskedInv
<1>5. { g \in Handle : phase'[g] # "closed" } = { g \in Handle : phase[g] # "closed" }
  BY <1>1, FreshTypes
<1>6. temp[h].held \in Register!Container
  BY FreshTypes DEF Container, Register!Container
<1> QED
  BY <1>1, <1>2, <1>3, <1>4, <1>5, <1>6 DEF Register!Replace, Within

LEMMA RefreshReports ==
  ASSUME DirectorySyncs, TypeInv, FreshInv, KeptInv, NEW h \in Handle, Refresh(h)
  PROVE  Register!Next \/ UNCHANGED RegisterVars
<1>1. phase[h] = "durable" /\ phase' = [phase EXCEPT ![h] = "idle"]
  BY DEF Refresh, Goto
<1>2. /\ UNCHANGED <<disk, stable, opened, asked>>
      /\ reported' = reported \cup ({call[h]} \cap Edit)
  BY DEF Refresh, files
<1>3. { g \in Handle : phase'[g] # "closed" } = { g \in Handle : phase[g] # "closed" }
  BY <1>1, FreshTypes
<1>4. CASE call[h] \in Edit
  <2>1. image[h] = disk.held /\ stable = disk
    BY <1>1 DEF FreshInv, SaveInv, Saved, KeptInv
  <2>2. call[h] \in disk.held.edits \cap stable.held.edits
    BY <1>1, <1>4, <2>1 DEF KeptInv, InCall
  <2>3. Register!Report(call[h])
    BY <1>2, <1>3, <1>4, <2>2 DEF Register!Report
  <2> QED
    BY <1>4, <2>3 DEF Register!Next
<1>5. CASE call[h] \notin Edit
  BY <1>2, <1>3, <1>5 DEF RegisterVars
<1> QED
  BY <1>4, <1>5

LEMMA RegisterStep ==
  ASSUME DirectorySyncs, TypeInv, LockInv, FreshInv, KeptInv, AskedInv, [Next]_vars
  PROVE  Register!Next \/ UNCHANGED RegisterVars
<1> USE FreshTypes DEF Goto, files, history
<1>1. ASSUME NEW h \in Handle, Open(h) PROVE Register!Next
  <2>1. phase[h] = "closed" /\ phase' = [phase EXCEPT ![h] = "idle"]
    BY <1>1 DEF Open
  <2>2. { g \in Handle : phase'[g] # "closed" } = { g \in Handle : phase[g] # "closed" } \cup {h}
    BY <2>1
  <2>3. Register!Read(h)
    BY <1>1, <2>1, <2>2 DEF Open, Register!Read
  <2> QED
    BY <2>3 DEF Register!Next
<1>2. ASSUME NEW h \in Handle, NEW e \in Edit, Change(h, e) PROVE Register!Next
  <2>1. phase[h] = "idle" /\ phase' = [phase EXCEPT ![h] = "changed"]
    BY <1>2 DEF Change
  <2>2. { g \in Handle : phase'[g] # "closed" } = { g \in Handle : phase[g] # "closed" }
    BY <2>1
  <2>3. Register!Ask(e)
    BY <1>2, <2>2 DEF Change, Register!Ask
  <2> QED
    BY <2>3 DEF Register!Next
<1>3. ASSUME NEW h \in Handle, NewPassword(h) PROVE UNCHANGED RegisterVars
  BY <1>3, HiddenStep DEF NewPassword, Phase
<1>4. ASSUME NEW h \in Handle, Check(h) PROVE UNCHANGED RegisterVars
  BY <1>4, HiddenStep DEF Check, Phase
<1>5. ASSUME NEW h \in Handle, Fail(h) PROVE UNCHANGED RegisterVars
  BY <1>5, HiddenStep DEF Fail, Phase
<1>6. ASSUME NEW h \in Handle, WriteTemp(h) \/ SyncTemp(h) PROVE UNCHANGED RegisterVars
  BY <1>6, HiddenStep DEF WriteTemp, SyncTemp, Phase
<1>7. ASSUME NEW h \in Handle, Persist(h) PROVE Register!Next
  BY <1>7, PersistReplaces DEF Register!Next
<1>8. ASSUME NEW h \in Handle, SyncDirectory(h) PROVE Register!Next
  <2>1. phase[h] = "renamed" /\ phase' = [phase EXCEPT ![h] = "durable"]
    BY <1>8 DEF SyncDirectory
  <2>2. { g \in Handle : phase'[g] # "closed" } = { g \in Handle : phase[g] # "closed" }
    BY <2>1
  <2>3. Register!Settle
    BY <1>8, <2>2 DEF SyncDirectory, Register!Settle
  <2> QED
    BY <2>3 DEF Register!Next
<1>9. ASSUME NEW h \in Handle, Refresh(h) PROVE Register!Next \/ UNCHANGED RegisterVars
  BY <1>9, RefreshReports
<1>10. ASSUME NEW h \in Handle, RefreshFails(h) PROVE UNCHANGED RegisterVars
  BY <1>10, HiddenStep DEF RefreshFails, Phase
<1>11. ASSUME NEW h \in Handle, Close(h) PROVE Register!Next
  <2>1. phase[h] # "closed" /\ phase' = [phase EXCEPT ![h] = "closed"]
    BY <1>11 DEF Close
  <2>2. { g \in Handle : phase'[g] # "closed" } = { g \in Handle : phase[g] # "closed" } \ {h}
    BY <2>1
  <2>3. Register!Leave(h)
    BY <1>11, <2>1, <2>2 DEF Close, Register!Leave
  <2> QED
    BY <2>3 DEF Register!Next
<1>12. ASSUME PowerLoss PROVE Register!Next
  <2>1. { g \in Handle : phase'[g] # "closed" } = {}
    BY <1>12 DEF PowerLoss
  <2>2. Register!LosePower
    BY <1>12, <2>1 DEF PowerLoss, Register!LosePower
  <2> QED
    BY <2>2 DEF Register!Next
<1>13. ASSUME UNCHANGED vars PROVE UNCHANGED RegisterVars
  BY <1>13 DEF vars, RegisterVars
<1> QED
  BY <1>1, <1>2, <1>3, <1>4, <1>5, <1>6, <1>7, <1>8, <1>9, <1>10, <1>11, <1>12, <1>13
  DEF Next, Step

\* With as many handles as there may be, the path is a register that they take turns
\* to replace: if stale handles are told and directories are synced, every step of a
\* save, a failure or a loss of power is one step of VaultRegister or none.
THEOREM ImplementsSharedRegister ==
  ASSUME Guarded, DirectorySyncs
  PROVE  Spec => ImplementsRegister
<1>1. Spec => [](TypeInv /\ LockInv /\ FreshInv /\ KeptInv /\ AskedInv)
  <2>1. Init => KeptInv
    BY DEF Init, KeptInv, ReportedKept, InCall
  <2> QED
    BY <2>1, KeptStep, AskedInit, AskedStep, SpecFresh, PTL DEF Spec
<1>2. TypeInv /\ LockInv /\ FreshInv /\ KeptInv /\ AskedInv /\ [Next]_vars => [Register!Next]_RegisterVars
  BY RegisterStep
<1>3. ImplementsRegister <=> Register!Init /\ [][Register!Next]_RegisterVars
  BY DEF ImplementsRegister, Register!Spec, Register!vars, RegisterVars
<1> QED
  BY <1>1, <1>2, <1>3, RegisterInit, PTL DEF Spec
=============================================================================
