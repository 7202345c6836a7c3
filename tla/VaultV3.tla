------------------------------ MODULE VaultV3 ------------------------------
(***************************************************************************)
(* One open AEROVAULT3 container (aerovault/src/v3/vault.rs): the manifest *)
(* tree, the deduplicated chunk store and the data section it holds in     *)
(* memory, and the container file they were opened from and are sealed to. *)
(*                                                                         *)
(* Every mutator of VaultV3 runs in two parts: it changes the manifest and *)
(* the data section in memory, entry by entry and chunk by chunk, and then *)
(* save_open_vault replaces the file in one rename.  An error return in    *)
(* the first part abandons the operation where it stands: what it already  *)
(* did to the memory of the handle stays.  The loops of the code are       *)
(* modelled one iteration per step, so that an error may strike between    *)
(* any two of them, and the process may die at any step (Reopen).          *)
(*                                                                         *)
(* Several handles on the same file are the business of VaultSeal; damage  *)
(* to the stored bytes is left to the recovery model.                      *)
(***************************************************************************)
EXTENDS VaultPaths, FiniteSets, FiniteSetsExt

CONSTANTS
  Chunk,       \* chunk contents; the keyed hash makes id and content one
  AddJobs,     \* inputs of create_directory, add_files, add_files_to_dir, add_directory
  DeleteJobs,  \* inputs of delete_entry and delete_entries
  Oversized,   \* the chunks whose sealed block is longer than MAX_BLOCK_SIZE
  Unreadable,  \* what a read returns where the block is refused
  Dir,         \* what a reader sees at the path of a directory
  MaxOps       \* bound: operations started

(***************************************************************************)
(* The work of an operation is a sequence of items.                        *)
(*   dir    one create_directory_in_manifest call                          *)
(*   file   one source of at least PACK_SMALL_FILE_THRESHOLD bytes         *)
(*   pack   the small sources of one pack: its chunks, and for each member *)
(*          the chunks first..last that cover it and the offset of its     *)
(*          first byte in the first of them                                *)
(*   member one file of a pack that has been ingested (made by the model)  *)
(*   name   one name to delete                                             *)
(***************************************************************************)
Member   == [path : Path, first : Nat \ {0}, last : Nat, offset : Nat]
DirItem  == [kind : {"dir"}, path : Path]
FileItem == [kind : {"file"}, path : Path, chunks : Seq(Chunk)]
PackItem == [kind : {"pack"}, chunks : Seq(Chunk), members : Seq(Member)]
FileOfPack == [kind : {"member"}, path : Path, chunks : Seq(Chunk), offset : Nat]
NameItem == [kind : {"name"}, path : Path, recursive : BOOLEAN]
Item     == DirItem \cup FileItem \cup PackItem \cup FileOfPack \cup NameItem

ASSUME ChunkAssumption ==
  IsFiniteSet(Chunk) /\ Oversized \subseteq Chunk /\ Unreadable \notin Chunk

\* A reader can tell a directory from a file.
ASSUME DirAssumption ==
  Dir \notin [chunks : Seq(Chunk \cup {Unreadable}), offset : Nat]

ASSUME BoundAssumption == MaxOps \in Nat

\* A pack is cut into chunks that cover it, so every member lies inside them.
Covered(item) ==
  item.kind = "pack" =>
    \A m \in DOMAIN item.members : item.members[m].last <= Len(item.chunks)

ASSUME JobAssumption ==
  /\ AddJobs \subseteq Seq(DirItem \cup FileItem \cup PackItem)
  /\ \A job \in AddJobs : \A i \in DOMAIN job : Covered(job[i])
  /\ DeleteJobs \subseteq Seq(NameItem) \ {<<>>}
  /\ \A job \in DeleteJobs : \A i, j \in DOMAIN job : job[i].recursive = job[j].recursive

Entry  == [path : Path, is_dir : BOOLEAN, chunks : Seq(Chunk), pack_offset : Nat]
Record == [block_index : Nat, data_offset : Nat]
Block  == [id : Chunk, aad : Nat]

VARIABLES
  entries,  \* manifest.entries: a set of entries, two of which could share a path
  chunks,   \* manifest.chunks: chunk id -> record, a partial function
  data,     \* the data section: a sequence of blocks, sealed under (index, id)
  disk,     \* the container file: [entries, chunks, data]
  op,       \* what the handle is doing
  todo,     \* the items the running operation has left
  fed,      \* chunks of the first item already ingested
  ops       \* operations started so far (bounded by MaxOps)

memory == <<entries, chunks, data>>
vars   == <<entries, chunks, data, disk, op, todo, fed, ops>>

-----------------------------------------------------------------------------
(* The manifest tree.                                                      *)

DirEntry(p) == [path |-> p, is_dir |-> TRUE, chunks |-> <<>>, pack_offset |-> 0]

FileEntry(p, ids, offset) ==
  [path |-> p, is_dir |-> FALSE, chunks |-> ids, pack_offset |-> offset]

IsFile(E, p) == \E e \in E : e.path = p /\ ~e.is_dir

\* entry_kind is not None: an entry of its own, or one below (an implied directory).
Exists(E, p) == \E e \in E : InSubtree(e.path, p)

IsDirectory(E, p) == Exists(E, p) /\ ~IsFile(E, p)

HasChildren(E, p) == \E e \in E : IsDescendantOf(e.path, p)

HasFileAncestor(E, p) == \E e \in E : ~e.is_dir /\ IsDescendantOf(p, e.path)

\* Mutant: a recursion that does not stop at the top makes an entry for the root.
MissingAncestorsAndRoot(E, p) ==
  {<<>>} \cup { q \in Path : /\ IsDescendantOf(p, q)
                             /\ ~ \E e \in E : e.path = q }

\* The ancestors of p that the recursion reaches: it stops at the first that exists.
MissingAncestors(E, p) ==
  { q \in Path : /\ IsDescendantOf(p, q)
                 /\ ~ \E e \in E : InSubtree(e.path, q) /\ IsDescendantOf(p, e.path) }

WithParents(E, p) == E \cup { DirEntry(q) : q \in MissingAncestors(E, p) }

WithDirectory(E, p) ==
  IF \E e \in E : e.path = p THEN E ELSE WithParents(E, p) \cup {DirEntry(p)}

Without(E, p) == { e \in E : e.path # p }

Subtree(E, p) == { e \in E : InSubtree(e.path, p) }

Relocated(E, from, to) ==
  { [e EXCEPT !.path = RemapEntryPath(e.path, from, to)] : e \in Subtree(E, from) }

-----------------------------------------------------------------------------
(* The chunk store.                                                        *)

Live(E, c) == \E e \in E : \E i \in DOMAIN e.chunks : e.chunks[i] = c

\* Mutant: the number of records in place of the largest index.
CountedBlockIndex == Cardinality(DOMAIN chunks)

NextBlockIndex ==
  IF DOMAIN chunks = {} THEN 0 ELSE 1 + Max({ chunks[c].block_index : c \in DOMAIN chunks })

IngestChunk(c) ==
  IF c \in DOMAIN chunks
  THEN UNCHANGED <<chunks, data>>
  ELSE LET record == [block_index |-> NextBlockIndex, data_offset |-> Len(data)]
       IN /\ chunks' = [d \in DOMAIN chunks \cup {c} |->
                          IF d = c THEN record ELSE chunks[d]]
          /\ data' = Append(data, [id |-> c, aad |-> record.block_index])

\* Mutant: only the chunk an entry begins with counts as listed by it.
FirstChunks == { c \in DOMAIN chunks : \E e \in entries : Len(e.chunks) > 0 /\ e.chunks[1] = c }

\* Mutant: nothing is collected.
AllChunks == DOMAIN chunks

LiveChunks == { c \in DOMAIN chunks : Live(entries, c) }

\* The place of a live chunk once the live ones are laid out by block index.
Rank(c) ==
  Cardinality({ d \in LiveChunks : chunks[d].block_index < chunks[c].block_index })

\* Mutant: the blocks move, and the records keep their old offsets.
CompactWithoutRemap ==
  /\ chunks' = [c \in LiveChunks |-> chunks[c]]
  /\ data' = [k \in 1..Cardinality(LiveChunks) |->
                data[chunks[CHOOSE c \in LiveChunks : Rank(c) = k - 1].data_offset + 1]]

\* The loop refuses the first live block above the limit; its other refusals, of
\* a block outside the data section, meet no store that is StoreConsistent.
CanCompact == LiveChunks \cap Oversized = {}

CompactLiveChunks ==
  /\ chunks' = [c \in LiveChunks |-> [chunks[c] EXCEPT !.data_offset = Rank(c)]]
  /\ data' = [k \in 1..Cardinality(LiveChunks) |->
                data[chunks[CHOOSE c \in LiveChunks : Rank(c) = k - 1].data_offset + 1]]

-----------------------------------------------------------------------------
(* Operations that add: create_directory, add_files, add_files_to_dir and  *)
(* add_directory differ only in the items they begin with.                 *)

Begin(newOp, job) ==
  /\ op = "idle"
  /\ ops < MaxOps
  /\ op' = newOp
  /\ todo' = job
  /\ ops' = ops + 1
  /\ UNCHANGED <<memory, disk, fed>>

BeginAdd == \E job \in AddJobs : Begin("adding", job)

AtItem(kind) ==
  /\ op = "adding"
  /\ todo # <<>>
  /\ Head(todo).kind = kind

\* An error return: the operation ends here, its effects on memory stay.
Abandon ==
  /\ op' = "idle"
  /\ todo' = <<>>
  /\ fed' = 0
  /\ UNCHANGED <<disk, ops>>

CreateDirectory ==
  /\ AtItem("dir")
  /\ LET p == Head(todo).path
     IN \/ /\ HasFileAncestor(entries, p) \/ IsFile(entries, p)
           /\ Abandon
           /\ UNCHANGED memory
        \/ /\ ~HasFileAncestor(entries, p) /\ ~IsFile(entries, p)
           /\ entries' = WithDirectory(entries, p)
           /\ todo' = Tail(todo)
           /\ UNCHANGED <<chunks, data, disk, op, fed, ops>>

\* append_file_at up to the stream: an older file of that name is dropped
\* before the source has been opened.
BeginFile ==
  /\ AtItem("file")
  /\ LET p == Head(todo).path
     IN \/ /\ HasFileAncestor(entries, p)
           /\ Abandon
           /\ UNCHANGED memory
        \/ /\ ~HasFileAncestor(entries, p) /\ IsDirectory(entries, p)
           /\ entries' = WithParents(entries, p)
           /\ Abandon
           /\ UNCHANGED <<chunks, data>>
        \/ /\ ~HasFileAncestor(entries, p) /\ ~IsDirectory(entries, p)
           /\ entries' = Without(WithParents(entries, p), p)
           /\ op' = "streaming"
           /\ fed' = 0
           /\ UNCHANGED <<chunks, data, disk, todo, ops>>

\* flush_pack begins: the sources are in the pack buffer, the chunks come first.
BeginPack ==
  /\ AtItem("pack")
  /\ op' = "streaming"
  /\ fed' = 0
  /\ UNCHANGED <<memory, disk, todo, ops>>

Stream ==
  /\ op = "streaming"
  /\ fed < Len(Head(todo).chunks)
  /\ IngestChunk(Head(todo).chunks[fed + 1])
  /\ fed' = fed + 1
  /\ UNCHANGED <<entries, disk, op, todo, ops>>

Streamed(kind) ==
  /\ op = "streaming"
  /\ Head(todo).kind = kind
  /\ fed = Len(Head(todo).chunks)

FinishFile ==
  /\ Streamed("file")
  /\ entries' = entries \cup {FileEntry(Head(todo).path, Head(todo).chunks, 0)}
  /\ todo' = Tail(todo)
  /\ op' = "adding"
  /\ fed' = 0
  /\ UNCHANGED <<chunks, data, disk, ops>>

MemberItems(pack) ==
  [m \in DOMAIN pack.members |->
     [kind   |-> "member",
      path   |-> pack.members[m].path,
      chunks |-> SubSeq(pack.chunks, pack.members[m].first, pack.members[m].last),
      offset |-> pack.members[m].offset]]

FinishPack ==
  /\ Streamed("pack")
  /\ todo' = MemberItems(Head(todo)) \o Tail(todo)
  /\ op' = "adding"
  /\ fed' = 0
  /\ UNCHANGED <<memory, disk, ops>>

\* One round of the member loop of flush_pack.
AddMember ==
  /\ AtItem("member")
  /\ LET m == Head(todo)
     IN \/ /\ HasFileAncestor(entries, m.path)
           /\ Abandon
           /\ UNCHANGED memory
        \/ /\ ~HasFileAncestor(entries, m.path) /\ IsDirectory(entries, m.path)
           /\ entries' = WithParents(entries, m.path)
           /\ Abandon
           /\ UNCHANGED <<chunks, data>>
        \/ /\ ~HasFileAncestor(entries, m.path) /\ ~IsDirectory(entries, m.path)
           /\ entries' = Without(WithParents(entries, m.path), m.path)
                           \cup {FileEntry(m.path, m.chunks, m.offset)}
           /\ todo' = Tail(todo)
           /\ UNCHANGED <<chunks, data, disk, op, fed, ops>>

\* A source that is not a regular file, cannot be read, or stops being readable.
SourceError ==
  /\ \/ AtItem("file")
     \/ AtItem("pack")
     \/ op = "streaming"
  /\ Abandon
  /\ UNCHANGED memory

FinishAdd ==
  /\ op = "adding"
  /\ todo = <<>>
  /\ op' = "sealing"
  /\ UNCHANGED <<memory, disk, todo, fed, ops>>

-----------------------------------------------------------------------------
(* delete_entry and delete_entries.                                        *)

BeginDelete == \E job \in DeleteJobs : Begin("deleting", job)

DeleteName ==
  /\ op = "deleting"
  /\ todo # <<>>
  /\ LET p       == Head(todo).path
         refused == \/ ~Exists(entries, p)
                    \/ IsDirectory(entries, p) /\ HasChildren(entries, p)
                         /\ ~Head(todo).recursive
     IN \/ /\ refused
           /\ Abandon
           /\ UNCHANGED memory
        \/ /\ ~refused
           /\ entries' = IF IsFile(entries, p)
                         THEN Without(entries, p)
                         ELSE entries \ Subtree(entries, p)
           /\ todo' = Tail(todo)
           /\ UNCHANGED <<chunks, data, disk, op, fed, ops>>

FinishDelete ==
  /\ op = "deleting"
  /\ todo = <<>>
  /\ CanCompact
  /\ CompactLiveChunks
  /\ op' = "sealing"
  /\ UNCHANGED <<entries, disk, todo, fed, ops>>

\* What was taken out of the manifest stays out of it, with nothing collected.
CompactFails ==
  /\ op = "deleting"
  /\ todo = <<>>
  /\ ~CanCompact
  /\ Abandon
  /\ UNCHANGED memory

-----------------------------------------------------------------------------
(* move_entry, rename_entry and copy_entry: one step in memory.            *)

\* prepare_relocation; the last conjunct is the bound on the depth of paths.
CanRelocate(E, from, to) ==
  /\ Exists(E, from)
  /\ ~(IsDirectory(E, from) /\ IsDescendantOf(to, from))
  /\ ~Exists(E, to)
  /\ ~HasFileAncestor(E, to)
  /\ \A e \in Subtree(E, from) : RemapEntryPath(e.path, from, to) \in Path

\* from = to changes nothing and seals; a refused relocation changes nothing at all.
Relocate(from, to, next) ==
  /\ op = "idle"
  /\ ops < MaxOps
  /\ \/ from = to /\ Exists(entries, from) /\ UNCHANGED entries
     \/ from # to /\ CanRelocate(entries, from, to) /\ entries' = next
  /\ op' = "sealing"
  /\ ops' = ops + 1
  /\ UNCHANGED <<chunks, data, disk, todo, fed>>

\* Mutant: the directories above the destination are not made.
MoveAlone(from, to) ==
  Relocate(from, to, (entries \ Subtree(entries, from)) \cup Relocated(entries, from, to))

MoveEntry(from, to) ==
  LET E == WithParents(entries, to)
  IN Relocate(from, to, (E \ Subtree(E, from)) \cup Relocated(E, from, to))

RenameEntry(from, leaf) == MoveEntry(from, [from EXCEPT ![Len(from)] = leaf])

CopyEntry(from, to) ==
  LET E == WithParents(entries, to)
  IN Relocate(from, to, E \cup Relocated(E, from, to))

-----------------------------------------------------------------------------
(* save_open_vault, and the end of a handle.                               *)

Sealed == [entries |-> entries, chunks |-> chunks, data |-> data]

Seal ==
  /\ op = "sealing"
  /\ disk' = Sealed
  /\ op' = "idle"
  /\ UNCHANGED <<memory, todo, fed, ops>>

\* Refused by the generation check, or an I/O error before the rename.
SealFails ==
  /\ op = "sealing"
  /\ Abandon
  /\ UNCHANGED memory

\* The handle is dropped, or its process dies at any point; the file is opened anew.
Reopen ==
  /\ entries' = disk.entries
  /\ chunks' = disk.chunks
  /\ data' = disk.data
  /\ op' = "idle"
  /\ todo' = <<>>
  /\ fed' = 0
  /\ UNCHANGED <<disk, ops>>

\* create_empty_vault, then open_vault.
Init ==
  /\ entries = {}
  /\ chunks = <<>>
  /\ data = <<>>
  /\ disk = Sealed
  /\ op = "idle"
  /\ todo = <<>>
  /\ fed = 0
  /\ ops = 0

Add    == BeginAdd \/ CreateDirectory \/ BeginFile \/ BeginPack \/ Stream
            \/ FinishFile \/ FinishPack \/ AddMember \/ SourceError \/ FinishAdd
Delete == BeginDelete \/ DeleteName \/ FinishDelete \/ CompactFails

Next ==
  \/ Add
  \/ Delete
  \/ \E from, to \in Path : MoveEntry(from, to) \/ CopyEntry(from, to)
  \/ \E from \in Path, leaf \in Name : RenameEntry(from, leaf)
  \/ Seal
  \/ SealFails
  \/ Reopen

Spec == Init /\ [][Next]_vars

-----------------------------------------------------------------------------
(* Properties.  A store is the triple that a handle holds in memory and    *)
(* that the file keeps: [entries, chunks, data].                           *)

Stores == {Sealed, disk}

IsStore(s) ==
  /\ s.entries \subseteq Entry
  /\ s.chunks \in [DOMAIN s.chunks -> Record]
  /\ DOMAIN s.chunks \subseteq Chunk
  /\ s.data \in Seq(Block)

TypeOK ==
  /\ \A s \in Stores : IsStore(s)
  /\ disk = [entries |-> disk.entries, chunks |-> disk.chunks, data |-> disk.data]
  /\ op \in {"idle", "adding", "streaming", "deleting", "sealing"}
  /\ todo \in Seq(Item)
  /\ fed \in Nat
  /\ ops \in 0..MaxOps

\* What validate_manifest_paths asks of a manifest when the container is opened.
PathsUnique(E) == \A e, f \in E : e.path = f.path => e = f

ParentsAreDirectories(E) ==
  \A e \in E : \A q \in Path :
    IsDescendantOf(e.path, q) => \E d \in E : d.path = q /\ d.is_dir

WellFormedTree(E) == PathsUnique(E) /\ ParentsAreDirectories(E)

\* No sequence of operations, failed ones included, makes two entries of one
\* path, an entry below a file or below a directory that is not there.  The
\* file of a duplicate could never be opened again; an entry below a file
\* could not be extracted.
TreeWellFormed == \A s \in Stores : WellFormedTree(s.entries)

RecordsFindTheirBlocks(s) ==
  \A c \in DOMAIN s.chunks :
    /\ s.chunks[c].data_offset + 1 \in DOMAIN s.data
    /\ s.data[s.chunks[c].data_offset + 1] = [id |-> c, aad |-> s.chunks[c].block_index]

BlocksHaveRecords(s) ==
  \A k \in DOMAIN s.data :
    /\ s.data[k].id \in DOMAIN s.chunks
    /\ s.chunks[s.data[k].id].data_offset = k - 1

BlockIndicesAscend(s) ==
  \A j, k \in DOMAIN s.data : j < k => s.data[j].aad < s.data[k].aad

ConsistentStore(s) ==
  RecordsFindTheirBlocks(s) /\ BlocksHaveRecords(s) /\ BlockIndicesAscend(s)

\* Each record leads to the block it was made with, sealed under its own
\* (index, id); no block is without a record; and the data section stays in
\* block-index order although indices are handed out anew after a deletion.
\* Decryption, the shard grid of error correction and compaction rest on it.
StoreConsistent == \A s \in Stores : ConsistentStore(s)

\* Every chunk that an entry lists is in the store: deduplication, copies that
\* share chunks, shared packs and compaction never take one from under it.
ChunksPresent ==
  \A s \in Stores : \A c \in Chunk : Live(s.entries, c) => c \in DOMAIN s.chunks

\* A completed deletion leaves no block in the data section whose content no
\* remaining entry holds, blocks orphaned by earlier overwrites included.
DeleteErases ==
  [][op = "deleting" /\ op' = "sealing"
       => \A k \in DOMAIN data' : Live(entries', data'[k].id)]_vars

-----------------------------------------------------------------------------
(* The tree that a reader of a store extracts.                             *)

\* A block above the limit is stored and never read again.
Extracted(ids) ==
  [i \in DOMAIN ids |-> IF ids[i] \in Oversized THEN Unreadable ELSE ids[i]]

\* extract_file_entry on one chunk: find the record and the block, authenticate.
ReadChunk(s, c) ==
  IF /\ c \in DOMAIN s.chunks
     /\ c \notin Oversized
     /\ s.chunks[c].data_offset + 1 \in DOMAIN s.data
     /\ s.data[s.chunks[c].data_offset + 1] = [id |-> c, aad |-> s.chunks[c].block_index]
  THEN c
  ELSE Unreadable

ReadEntry(s, e) ==
  IF e.is_dir
  THEN Dir
  ELSE [chunks |-> [i \in DOMAIN e.chunks |-> ReadChunk(s, e.chunks[i])],
        offset |-> e.pack_offset]

TreeOf(s) ==
  [p \in { e.path : e \in s.entries } |->
     ReadEntry(s, CHOOSE e \in s.entries : e.path = p)]

\* The whole files that callers hand in, never a part of one, as they are read.
FilesOf(item) ==
  IF item.kind = "file" THEN { [chunks |-> Extracted(item.chunks), offset |-> 0] }
  ELSE IF item.kind = "pack"
       THEN { [chunks |-> Extracted(m.chunks), offset |-> m.offset] :
                m \in Range(MemberItems(item)) }
       ELSE {}

Content == UNION { FilesOf(item) : item \in UNION { Range(job) : job \in AddJobs } }

Promise == INSTANCE VaultTree WITH tree <- TreeOf(Sealed), saved <- TreeOf(disk)

\* Read through the chunk store, the container is a plain tree of directories
\* and whole files: every step of the code is one edit of that tree, or none.  Of
\* a file, nothing but the blocks above MAX_BLOCK_SIZE is lost to its readers.
ImplementsTree == Promise!Spec
=============================================================================
