------------------------------- MODULE VaultV2 ------------------------------
(***************************************************************************)
(* The older container, AEROVAULT2 (aerovault/src/vault.rs).  A handle     *)
(* keeps the keys and the header it saw when it opened the container, and  *)
(* no more: every call reads the file, edits the manifest and replaces the *)
(* file by a rename.  Nothing compares the file that is replaced with the  *)
(* one that was read, so the calls of two handles, or of two threads that  *)
(* share one, may interleave between the read and the rename.              *)
(*                                                                         *)
(* A file that has been opened does not change, whatever is renamed over   *)
(* its path; so a call that reads through one opening reads at one moment. *)
(* Compaction and extraction open the path twice, and are two steps.       *)
(*                                                                         *)
(* The data section is a sequence of sealed chunks, and an offset counts   *)
(* chunks.  Offsets of the code count bytes: where one from another file   *)
(* does not fall on a chunk, the call fails as it can at any time.         *)
(***************************************************************************)
EXTENDS VaultPaths, FiniteSets

CONSTANTS
  Handle,
  Content,      \* what a file can hold
  ChunkTotal,   \* the chunks that each content is cut into
  Batch,        \* lists of [name, content]: the files one call may add
  Setting,      \* what may be so from the beginning: see the variable setting
  Start,        \* containers, each made by calls run to their end, to begin with
  Asked,        \* bound: the paths that callers name
  Gone,         \* there is no file at the path
  MaxSaves      \* bound: calls that set out to write the container

LegacyVersion == 2
Version       == 3

ASSUME ContentAssumption == ChunkTotal \in [Content -> Nat]
ASSUME SettingAssumption == Setting \subseteq [alone : BOOLEAN, windows : BOOLEAN]
ASSUME AskedAssumption   == Asked \subseteq Path
ASSUME SavesAssumption   == MaxSaves \in Nat
ASSUME BatchAssumption   == Batch \subseteq Seq([name : Name, content : Content])

VARIABLES
  setting,   \* what is so from the beginning: the embedder lets one call run at
             \* a time (alone); the build removes the old file before it renames
             \* (windows)
  disk,      \* the container that opening the path finds, or Gone
  stable,    \* what the path names after a loss of power
  step,      \* where each handle is in a call
  bind,      \* the header each handle holds says version 3 or later
  source,    \* the container that the call of each handle goes back to, or Gone
  result,    \* the container each handle is about to put in place
  goal,      \* the entries that an extraction still has to write
  output,    \* the directory each extraction fills: path -> what is there
  saves,     \* calls that set out to write so far; also draws the fresh ids and salts
  \* History, which no guard reads:
  orphaned,  \* some call may have left an entry without its directory
  unsynced   \* the last call to rename has not reported success

file    == <<disk, stable>>
reading == <<source, goal, output>>
history == <<orphaned, unsynced>>
vars    == <<setting, file, step, bind, result, reading, saves, history>>

-----------------------------------------------------------------------------
(* Entries and sealed chunks.  An entry of the manifest says where its     *)
(* chunks lie and, in version 3, the file_id they are bound to; that it    *)
(* holds a content is history.                                             *)

Unbound == <<>>

Directory(p) ==
  [name |-> p, dir |-> TRUE, offset |-> 0, count |-> 0, id |-> Unbound, holds |-> Gone]

\* The elements of s that are in keep, in their order.
Only(s, keep) ==
  LET kept[k \in 0..Len(s)] ==
        IF k = 0 THEN <<>>
        ELSE IF s[k] \in keep THEN Append(kept[k - 1], s[k]) ELSE kept[k - 1]
  IN  kept[Len(s)]

\* Mutant: the chunks of every container are bound to their place alone.
OpensByIndex(chunk, entry, k) == chunk.index = k

\* What a chunk gives is what was sealed into it, if the additional data match:
\* its place among the chunks alone, or also the file and the number of chunks.
Opens(chunk, entry, k) ==
  /\ chunk.index = k
  /\ chunk.id = entry.id
  /\ entry.id # Unbound => chunk.total = entry.count

Seal(entry, k, content) ==
  [id |-> entry.id, total |-> entry.count, index |-> k, holds |-> content]

\* The first n chunks are there and open.
Leads(n, entry, data) ==
  \A k \in 1..n :
    /\ entry.offset + k <= Len(data)
    /\ Opens(data[entry.offset + k], entry, k)

Readable(entry, data) == Leads(entry.count, entry, data)

ReadTo(n, entry, data) == [k \in 1..n |-> data[entry.offset + k].holds]

Read(entry, data) == ReadTo(entry.count, entry, data)

Right(entry) == [k \in 1..entry.count |-> entry.holds]

Named(entries, p) == \E i \in DOMAIN entries : entries[i].name = p

IsDirectory(entries, p) == \E i \in DOMAIN entries : entries[i].name = p /\ entries[i].dir

Distinct(entries) == \A i, j \in DOMAIN entries : entries[i].name = entries[j].name => i = j

\* The directory that contains p is an entry, and no file.
Parented(entries, p) == Len(p) > 1 => IsDirectory(entries, Front(p))

AllParented(entries) == \A i \in DOMAIN entries : Parented(entries, entries[i].name)

-----------------------------------------------------------------------------
(* What each call makes of the container it has read.                      *)

\* One file of add_files_to_dir: an entry that is already there is skipped.
AddFile(v, p, content, bound, id) ==
  LET e == [name |-> p, dir |-> FALSE, offset |-> Len(v.data),
            count |-> ChunkTotal[content], id |-> IF bound THEN <<id>> \o p ELSE Unbound,
            holds |-> content]
  IN  IF Named(v.entries, p) THEN v
      ELSE [v EXCEPT !.entries = Append(@, e),
                     !.data = @ \o [k \in 1..e.count |-> Seal(e, k, content)]]

AddFiles(v, dir, files, bound, id) ==
  LET added[k \in 0..Len(files)] ==
        IF k = 0 THEN v
        ELSE AddFile(added[k - 1], Append(dir, files[k].name), files[k].content, bound, id)
  IN  added[Len(files)]

\* create_directory makes what is missing on the way to p, and takes an entry
\* of that name for the directory whatever it is.
CreateDirectory(v, p) ==
  LET missing == Only([n \in 1..Len(p) |-> SubSeq(p, 1, n)],
                      { q \in Path : ~Named(v.entries, q) })
  IN  [v EXCEPT !.entries = @ \o [i \in DOMAIN missing |-> Directory(missing[i])]]

DeleteEntries(v, targets, recursive) ==
  LET Goes(q) == \/ q \in targets
                 \/ recursive /\ \E p \in targets : IsDescendantOf(q, p)
  IN  [v EXCEPT !.entries = Only(@, { e \in Range(@) : ~Goes(e.name) })]

\* The entries that follow a file are that file alone.
Moved(v, from) ==
  { e.name : e \in { e \in Range(v.entries) :
      e.name = from \/ (IsDirectory(v.entries, from) /\ IsDescendantOf(e.name, from)) } }

Renamed(e, from, to) == [e EXCEPT !.name = RemapEntryPath(@, from, to)]

MoveEntry(v, from, to) ==
  [v EXCEPT !.entries =
    [i \in DOMAIN @ |-> IF @[i].name \in Moved(v, from) THEN Renamed(@[i], from, to)
                        ELSE @[i]]]

\* The copies share the chunks, and the file_id, of what they copy.
CopyEntry(v, from, to) ==
  LET copied == Only(v.entries, { e \in Range(v.entries) : e.name \in Moved(v, from) })
  IN  [v EXCEPT !.entries =
        @ \o [i \in DOMAIN copied |-> Renamed(copied[i], from, to)]]

\* Mutant: the entries keep the offsets they had.
CompactedInPlace(v, data) ==
  LET Next(w, e) ==
        [w EXCEPT !.data = @ \o [k \in 1..e.count |-> Seal(e, k, Read(e, data)[k])]]
      sealed[k \in 0..Len(v.entries)] ==
        IF k = 0 THEN [v EXCEPT !.data = <<>>] ELSE Next(sealed[k - 1], v.entries[k])
  IN  sealed[Len(v.entries)]

\* Mutant: the chunks are counted on from the ones before them.
SealCountingOn(w, e, data) ==
  [w EXCEPT !.entries = Append(@, [e EXCEPT !.offset = IF e.count = 0 THEN 0
                                                       ELSE Len(w.data)]),
            !.data = @ \o [k \in 1..e.count |-> Seal(e, Len(w.data) + k, Read(e, data)[k])]]

SealAgain(w, e, data) ==
  [w EXCEPT !.entries = Append(@, [e EXCEPT !.offset = IF e.count = 0 THEN 0
                                                       ELSE Len(w.data)]),
            !.data = @ \o [k \in 1..e.count |-> Seal(e, k, Read(e, data)[k])]]

\* Compaction seals the chunks of each entry again, one entry after the other.
\* The manifest is the one it read first, the data that of the second opening.
Compacted(v, data) ==
  LET sealed[k \in 0..Len(v.entries)] ==
        IF k = 0 THEN [v EXCEPT !.entries = <<>>, !.data = <<>>]
        ELSE SealAgain(sealed[k - 1], v.entries[k], data)
  IN  sealed[Len(v.entries)]

-----------------------------------------------------------------------------
(* What an extraction makes of the directory it is given.                  *)

EmptyDirectory == [p \in {} |-> <<>>]

Folder == [dir |-> TRUE, whole |-> TRUE, bound |-> TRUE, held |-> <<>>, got |-> <<>>]

IsFileIn(out, p) == p \in DOMAIN out /\ ~out[p].dir

\* Mutant: create_dir for each directory of the path.
CanMakeFolders(out, p) == \A n \in 1..Len(p) : SubSeq(p, 1, n) \notin DOMAIN out

\* create_dir_all
CanHoldFolder(out, p) == \A n \in 1..Len(p) : ~IsFileIn(out, SubSeq(p, 1, n))

WithFolder(out, p) ==
  [q \in DOMAIN out \cup { SubSeq(p, 1, n) : n \in 1..Len(p) } |->
    IF q \in DOMAIN out THEN out[q] ELSE Folder]

\* A file goes to its last component alone, whatever directory it is in, and
\* replaces nothing (create_new).  It is whole unless the call broke off in it.
Place(p) == <<Last(p)>>

WithFile(out, p, entry, whole, got) ==
  [q \in DOMAIN out \cup {Place(p)} |->
    IF q \in DOMAIN out THEN out[q]
    ELSE [dir |-> FALSE, whole |-> whole, bound |-> entry.id # Unbound,
          held |-> Right(entry), got |-> got]]

-----------------------------------------------------------------------------
(* The calls.                                                              *)

Goto(h, s) == step' = [step EXCEPT ![h] = s]

\* What a call has in memory, and the directory it has filled, are done with.
Return(h) ==
  /\ Goto(h, "idle")
  /\ source' = [source EXCEPT ![h] = Gone]
  /\ result' = [result EXCEPT ![h] = Gone]
  /\ goal' = [goal EXCEPT ![h] = <<>>]
  /\ output' = [output EXCEPT ![h] = EmptyDirectory]

CanStart(h) ==
  /\ step[h] = "idle"
  /\ disk # Gone
  /\ setting.alone => \A g \in Handle : step[g] = "idle"

\* The file is read, and a new one is written beside it and synced.
Write(h, v) ==
  /\ CanStart(h)
  /\ saves < MaxSaves
  /\ saves' = saves + 1
  /\ result' = [result EXCEPT ![h] = v]
  /\ Goto(h, "written")
  /\ UNCHANGED <<setting, file, bind, goal, output, unsynced>>

Add(h, dir, batch) ==
  LET v == AddFiles(disk, dir, batch, bind[h], saves + 1)
  IN  /\ disk # Gone
      /\ dir = <<>> \/ IsDirectory(disk.entries, dir)
      /\ v # disk
      /\ Write(h, v)
      /\ UNCHANGED <<source, orphaned>>

MakeDirectory(h, p) ==
  LET v == CreateDirectory(disk, p)
  IN  /\ disk # Gone
      /\ v # disk
      /\ Write(h, v)
      /\ UNCHANGED source
      /\ orphaned' = (orphaned \/ ~AllParented(v.entries))

\* delete_entry, which is never recursive and asks for one entry, and delete_entries.
Delete(h, targets, recursive) ==
  LET v == DeleteEntries(disk, targets, recursive)
  IN  /\ disk # Gone
      /\ v # disk
      /\ Write(h, v)
      /\ UNCHANGED source
      /\ orphaned' = (orphaned \/ ~AllParented(v.entries))

\* Mutant: the parents are not looked at.
OnlyDistinct(entries) == Distinct(entries)

\* One entry that has lost its directory, anywhere, refuses every move and copy.
Rearranged(entries) == Distinct(entries) /\ AllParented(entries)

CanGo(from, to) ==
  /\ Named(disk.entries, from)
  /\ \A p \in Moved(disk, from) : Len(RemapEntryPath(p, from, to)) <= MaxDepth
  /\ ~InSubtree(to, from)

Move(h, from, to) ==
  /\ disk # Gone
  /\ CanGo(from, to)
  /\ Rearranged(MoveEntry(disk, from, to).entries)
  /\ Write(h, MoveEntry(disk, from, to))
  /\ UNCHANGED <<source, orphaned>>

Copy(h, from, to) ==
  /\ disk # Gone
  /\ CanGo(from, to)
  /\ Rearranged(CopyEntry(disk, from, to).entries)
  /\ Write(h, CopyEntry(disk, from, to))
  /\ UNCHANGED <<source, orphaned>>

\* change_password writes a header of the current version over whatever the file
\* holds, under a fresh salt.
ChangePassword(h) ==
  /\ disk # Gone
  /\ Write(h, [disk EXCEPT !.version = Version, !.salt = saves + 1])
  /\ source' = [source EXCEPT ![h] = disk]
  /\ UNCHANGED orphaned

\* compact reads header and manifest, and closes the file.
CompactManifest(h) ==
  /\ CanStart(h)
  /\ saves < MaxSaves
  /\ saves' = saves + 1
  /\ source' = [source EXCEPT ![h] = disk]
  /\ Goto(h, "compacting")
  /\ UNCHANGED <<setting, file, bind, result, goal, output, history>>

\* It opens the path again for the data.
CompactData(h) ==
  /\ step[h] = "compacting"
  /\ disk # Gone
  /\ \A i \in DOMAIN source[h].entries : Readable(source[h].entries[i], disk.data)
  /\ result' = [result EXCEPT ![h] = Compacted(source[h], disk.data)]
  /\ source' = [source EXCEPT ![h] = Gone]
  /\ Goto(h, "written")
  /\ UNCHANGED <<setting, file, bind, goal, output, saves, history>>

\* On Windows the old file is removed first.
RemoveOld(h) ==
  /\ step[h] = "written" /\ setting.windows /\ disk # Gone
  /\ disk' = Gone
  /\ stable' \in {stable, Gone}
  /\ Goto(h, "removed")
  /\ UNCHANGED <<setting, bind, result, reading, saves, history>>

Rename(h) ==
  /\ \/ step[h] = "removed"
     \/ step[h] = "written" /\ (setting.windows => disk = Gone)
  /\ disk' = result[h]
  /\ stable' \in {stable, result[h]}
  /\ unsynced' = TRUE
  /\ Goto(h, "renamed")
  /\ UNCHANGED <<setting, bind, result, reading, saves, orphaned>>

\* Mutant: the directory is not synced.
SkipDirectory(h) ==
  /\ step[h] = "renamed"
  /\ unsynced' = FALSE
  /\ bind' = [bind EXCEPT ![h] = @ \/ source[h] # Gone]
  /\ Return(h)
  /\ UNCHANGED <<setting, file, saves, orphaned>>

\* fsync_parent_dir, which does nothing on Windows; the call returns Ok, and one
\* that has changed the password keeps the new header.
SyncDirectory(h) ==
  /\ step[h] = "renamed"
  /\ stable' = IF setting.windows THEN stable ELSE disk
  /\ unsynced' = FALSE
  /\ bind' = [bind EXCEPT ![h] = @ \/ source[h] # Gone]
  /\ Return(h)
  /\ UNCHANGED <<setting, disk, saves, orphaned>>

\* A system call fails, chunks that do not open end a compaction, or the process
\* dies: the temporary file goes, what has been removed or renamed stays so.
Fail(h) ==
  /\ step[h] # "idle"
  /\ Return(h)
  /\ UNCHANGED <<setting, file, bind, saves, history>>

\* extract names one entry; extract_all lists the entries there are, and
\* extracts them one by one, each time reading the manifest anew.
StartExtract(h, names) ==
  /\ CanStart(h)
  /\ names # <<>>
  /\ goal' = [goal EXCEPT ![h] = names]
  /\ Goto(h, "extracting")
  /\ UNCHANGED <<setting, file, bind, source, result, output, saves, history>>

Extract(h, p)  == disk # Gone /\ Named(disk.entries, p) /\ StartExtract(h, <<p>>)
ExtractAll(h) ==
  disk # Gone /\ StartExtract(h, [i \in DOMAIN disk.entries |-> disk.entries[i].name])

Wanted(h) == Head(goal[h])

\* A directory is made under its whole name.
ExtractDirectory(h) ==
  /\ step[h] = "extracting" /\ goal[h] # <<>> /\ disk # Gone
  /\ IsDirectory(disk.entries, Wanted(h))
  /\ CanHoldFolder(output[h], Wanted(h))
  /\ output' = [output EXCEPT ![h] = WithFolder(@, Wanted(h))]
  /\ goal' = [goal EXCEPT ![h] = Tail(@)]
  /\ UNCHANGED <<setting, file, step, bind, source, result, saves, history>>

\* read_manifest
ExtractManifest(h) ==
  /\ step[h] = "extracting" /\ goal[h] # <<>> /\ disk # Gone
  /\ Named(disk.entries, Wanted(h)) /\ ~IsDirectory(disk.entries, Wanted(h))
  /\ source' = [source EXCEPT ![h] = disk]
  /\ Goto(h, "reading")
  /\ UNCHANGED <<setting, file, bind, result, goal, output, saves, history>>

Found(h) == CHOOSE e \in Range(source[h].entries) : e.name = Wanted(h)

\* The path is opened again, the chunks before the entry's are skipped, and the file is made.
CreatesFile(h) ==
  /\ step[h] = "reading" /\ disk # Gone
  /\ Found(h).offset <= Len(disk.data)
  /\ Place(Wanted(h)) \notin DOMAIN output[h]

ExtractData(h) ==
  /\ CreatesFile(h)
  /\ Readable(Found(h), disk.data)
  /\ output' = [output EXCEPT ![h] =
                  WithFile(@, Wanted(h), Found(h), TRUE, Read(Found(h), disk.data))]
  /\ goal' = [goal EXCEPT ![h] = Tail(@)]
  /\ Goto(h, "extracting")
  /\ UNCHANGED <<setting, file, bind, source, result, saves, history>>

\* A chunk is not there or does not open.  The file stays, with those before it.
ExtractBreaks(h) ==
  /\ CreatesFile(h)
  /\ \E n \in 0..Found(h).count - 1 :
       /\ Leads(n, Found(h), disk.data) /\ ~Leads(n + 1, Found(h), disk.data)
       /\ output' = [output EXCEPT ![h] =
                       WithFile(@, Wanted(h), Found(h), FALSE, ReadTo(n, Found(h), disk.data))]
  /\ Goto(h, "failed")
  /\ UNCHANGED <<setting, file, bind, source, goal, result, saves, history>>

\* The call returns an error for what it finds, and leaves what it has written.
ExtractFails(h) ==
  /\ \/ /\ step[h] = "extracting" /\ goal[h] # <<>>
        /\ \/ disk = Gone
           \/ ~Named(disk.entries, Wanted(h))
           \/ /\ IsDirectory(disk.entries, Wanted(h))
              /\ ~CanHoldFolder(output[h], Wanted(h))
     \/ /\ step[h] = "reading"
        /\ \/ disk = Gone
           \/ Found(h).offset > Len(disk.data)
           \/ Place(Wanted(h)) \in DOMAIN output[h]
  /\ Goto(h, "failed")
  /\ UNCHANGED <<setting, file, bind, reading, result, saves, history>>

ExtractReturns(h) ==
  /\ step[h] = "failed" \/ (step[h] = "extracting" /\ goal[h] = <<>>)
  /\ Return(h)
  /\ UNCHANGED <<setting, file, bind, saves, history>>

\* Vault::open reads the header anew.
Open(h) ==
  /\ step[h] = "idle" /\ disk # Gone
  /\ bind' = [bind EXCEPT ![h] = disk.version >= Version]
  /\ UNCHANGED <<setting, file, step, result, reading, saves, history>>

PowerLoss ==
  /\ disk' = stable
  /\ step' = [h \in Handle |-> "idle"]
  /\ source' = [h \in Handle |-> Gone]
  /\ result' = [h \in Handle |-> Gone]
  /\ goal' = [h \in Handle |-> <<>>]
  /\ output' = [h \in Handle |-> EmptyDirectory]
  /\ unsynced' = FALSE
  /\ UNCHANGED <<setting, stable, bind, saves, orphaned>>

-----------------------------------------------------------------------------
(* What a container is, and the ones to begin with.                        *)

FileId == Seq(Nat \cup Name)

Entry == [name : Path, dir : BOOLEAN, offset : Nat, count : Nat,
          id : FileId, holds : Content \cup {Gone}]

Chunk == [id : FileId, total : Nat, index : Nat, holds : Content \cup {Gone}]

Vault == [version : {LegacyVersion, Version}, salt : 0..MaxSaves,
          entries : Seq(Entry), data : Seq(Chunk)]

IsEntry(e) == IF e.dir THEN e.count = 0 ELSE e.holds \in Content

IsVault(v) ==
  /\ v \in Vault
  /\ \A i \in DOMAIN v.entries : IsEntry(v.entries[i])
  /\ \A i \in DOMAIN v.data : v.data[i].index \in 1..v.data[i].total

ReadsRight(e, data) ==
  e.offset <= Len(data) /\ Readable(e, data) /\ Read(e, data) = Right(e)

\* Whatever is bound to a file_id.
BoundIn(v) == { b \in Range(v.entries) \cup Range(v.data) : b.id # Unbound }

ASSUME StartAssumption ==
  \A v \in Start :
    /\ IsVault(v)
    /\ Distinct(v.entries) /\ AllParented(v.entries)
    /\ \A e \in Range(v.entries) : ReadsRight(e, v.data)
    /\ \A b \in BoundIn(v) : b.id[1] = 0
    /\ \A b, c \in BoundIn(v) : b.id = c.id => b.holds = c.holds

\* Vault::create, with the same rename.
Empty(version) == [version |-> version, salt |-> 0, entries |-> <<>>, data |-> <<>>]

Init ==
  /\ setting \in Setting
  /\ disk \in Start
  /\ bind = [h \in Handle |-> disk.version >= Version]
  /\ stable = disk
  /\ step = [h \in Handle |-> "idle"]
  /\ source = [h \in Handle |-> Gone]
  /\ result = [h \in Handle |-> Gone]
  /\ goal = [h \in Handle |-> <<>>]
  /\ output = [h \in Handle |-> EmptyDirectory]
  /\ saves = 0
  /\ orphaned = FALSE
  /\ unsynced = FALSE

Root == <<>>

Call(h) ==
  \/ \E p \in Asked \cup {Root}, batch \in Batch : Len(p) < MaxDepth /\ Add(h, p, batch)
  \/ \E p \in Asked : MakeDirectory(h, p)
  \/ \E p, q \in Asked, recursive \in BOOLEAN : Delete(h, {p, q}, recursive)
  \/ \E p, q \in Asked : Move(h, p, q) \/ Copy(h, p, q)
  \/ ChangePassword(h)
  \/ CompactManifest(h)
  \/ \E p \in Asked : Extract(h, p)
  \/ ExtractAll(h)
  \/ Open(h)

Step(h) ==
  \/ CompactData(h) \/ RemoveOld(h) \/ Rename(h) \/ SyncDirectory(h)
  \/ ExtractDirectory(h) \/ ExtractManifest(h) \/ ExtractData(h)
  \/ ExtractBreaks(h) \/ ExtractFails(h) \/ ExtractReturns(h) \/ Fail(h)

Next == PowerLoss \/ \E h \in Handle : Call(h) \/ Step(h)

Spec == Init /\ [][Next]_vars

-----------------------------------------------------------------------------
Steps == {"idle", "compacting", "written", "removed", "renamed",
          "extracting", "reading", "failed"}


TypeOK ==
  /\ disk = Gone \/ IsVault(disk)
  /\ stable = Gone \/ IsVault(stable)
  /\ step \in [Handle -> Steps]
  /\ bind \in [Handle -> BOOLEAN]
  /\ \A h \in Handle : \A v \in {source[h], result[h]} : v = Gone \/ IsVault(v)
  /\ \A h \in Handle : Range(goal[h]) \subseteq Path /\ DOMAIN output[h] \subseteq Path
  /\ saves \in 0..MaxSaves

\* What is added can be read back.  An entry whose chunks are bound to a file_id
\* gives exactly what was added under it, whatever calls interleave, however often
\* it is moved, copied or compacted; one of a legacy container does so while the
\* calls are taken one at a time.
EntriesRead ==
  disk # Gone =>
    \A e \in Range(disk.entries) :
      e.id # Unbound \/ setting.alone
        => ReadsRight(e, disk.data)

\* What an extraction writes is what was added under the name it read, in spite of
\* the two openings of the path.  A file in which it breaks off is the beginning of that.
ExtractsRight ==
  \A h \in Handle : \A p \in DOMAIN output[h] :
    LET f == output[h][p]
    IN  f.bound \/ setting.alone =>
          IF f.whole THEN f.got = f.held
          ELSE \A k \in DOMAIN f.got : k \in DOMAIN f.held /\ f.got[k] = f.held[k]

\* Two entries that want the same place in the directory extracted into.
Clash(entries) ==
  \E i, j \in DOMAIN entries :
    /\ i # j /\ ~entries[i].dir
    /\ Last(entries[i].name) =
         IF entries[j].dir THEN Head(entries[j].name) ELSE Last(entries[j].name)

\* An extraction that nothing disturbs fails for no other reason.
ExtractsUnlessClash ==
  setting.alone /\ (\E h \in Handle : step[h] = "failed") => Clash(disk.entries)

\* Names stay unique, and every entry stays in a directory, under any interleaving,
\* but for two calls: a deletion that leaves the entries of a directory behind, and
\* the making of a directory below the name of a file.
ManifestSound ==
  disk # Gone =>
    /\ Distinct(disk.entries)
    /\ ~orphaned => AllParented(disk.entries)

\* A loss of power takes nothing back once the last call has returned Ok.
ReturnedIsStable == ~setting.windows /\ ~unsynced => stable = disk

\* There is a container at the path, whatever fails.
VaultThere == disk # Gone

\* A container whose calls run alone can be extracted as a whole.
ExtractsAll == setting.alone => \A h \in Handle : step[h] # "failed"
=============================================================================
