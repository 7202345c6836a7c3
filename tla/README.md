# A TLA+ model of aerovault

aerovault keeps directory trees in a single encrypted container file, of which there are two
formats, and protects any file against rot with parity in a sidecar. This project models the parts of
it where a property is hard to get right and hard to test: the deduplicated chunk store behind the
manifest tree, and how bytes become its chunks; the save that replaces the container while other
handles, crashes and power loss are about; the older format, which has no such save; the recovery of a
container whose bytes have rotted; generation, scan and repair of any file, window by window, while it
changes; and the sidecar that must be found when it has rotted itself. TLC checks the models on small
instances; TLAPS proves theorems about most of them for every value of the constants.

## The system

Sources are under `src/`; `v3/` stands for `aerovault/src/v3/`.

| Part | State | Operations | Interacts with | Hard behaviour |
|---|---|---|---|---|
| AEROVAULT3 handle (`v3/vault.rs`, `v3/manifest.rs`) | `OpenVaultV3`: manifest entries, chunk records, data section, header | add, create directory, delete, move, rename, copy, change password, extract | chunking and packing feed it; the save seals it | errors between two steps of an operation stay in memory; chunks are shared between files, copies and packs; block indices are reused; compaction moves blocks |
| Save (`save_open_vault`, `assert_vault_generation_current`, `v3/block.rs`, `v3/format.rs`) | container file, temporary file, the baseline (length and header MAC) of each handle | check, write, sync, rename, sync directory, read back | every mutator ends in it | several handles; no lock in the code; crash or power loss at any point; stale baseline |
| Error correction of a container (`v3/ec.rs`) | embedded parity extension, detached sidecar, damage flags | placement, export, strip, scrub, repair, header and manifest recovery at open | reads and saves through the handle | stale or empty sidecars; parity recomputed over damage; repair behind the generation check |
| Extraction (`extract_file_entry`, `create_contained_dirs`) | output tree | extract one, extract all | reads the handle | failure halfway; existing files |
| Chunking, packing (`v3/chunking.rs`, `v3/packing.rs`) | none: pure, or a bounded buffer | cut, cover | the handle | boundaries, short reads, empty members |
| Reed-Solomon grid (`error_correction/mod.rs`) | none: pure | geometry, shards, reconstruct, scan | error correction, sidecars | erasures at the limit of the parity, short last stripe |
| Sidecar format (`error_correction/sidecar.rs`) | the `.aerocorrect` file | encode, locate, recover the directory, windows | standalone and sync parity, containers | three copies damaged in different places |
| Standalone and sync parity (`error_correction/mod.rs`, `sync.rs`) | a file and its sidecar | generate, verify, repair | grid, sidecar | window by window repair; overwriting a sidecar in place |
| AEROVAULT2 (`aerovault/src/vault.rs`) | manifest and chunks in a file, read again by each operation | the same operations, and compact | none | no lock and no generation check; orphans |
| Crypto, telemetry, command line | keys; nothing; nothing | library wrappers; observers; printing | all | none for this project |

What makes each part correct, the hazards it meets and the property that covers each hazard are
listed under `hazards` in `PROJECT.json`, at the line where the hazard bites. A hazard without a property is
one that the code has and no document denies, or for which the property that would say so fails (see "Known to
differ"); each has a note that says which. Among them are a refused change of password that arrives with a later
save, a header that cannot be saved after it was rebuilt, an error of one parity source that hides the next, and
a sidecar that shadows embedded parity.

## Modules

| Module | What it is | Source |
|---|---|---|
| `VaultPaths` | normalised paths as nonempty sequences of names, descent, relocation | `normalize_vault_relative_path`, `is_descendant_of`, `remap_entry_path` |
| `VaultTree` | abstract specification: a tree of directories and files, and its saved copy | what the public API promises |
| `VaultV3` | one handle, one step per iteration of the code's loops, and the file | `v3/vault.rs`, `v3/manifest.rs` |
| `VaultSeal` | several handles on one file, the save one system call at a time | `save_open_vault` and what it calls |
| `VaultRegister` | abstract specification: one container at a path, replaced as a whole by a handle that has seen it | what the documentation of saves promises |
| `VaultRecovery` | error correction: placement, export, strip, repair, recovery at open, decay | `v3/ec.rs`, `open_vault`, `write_container` |
| `VaultV2` | the older container: handles that share one file and never compare it | `aerovault/src/vault.rs` |
| `CorrectFile` | parity of any file: generate, scan, repair, by several processes | `error_correction/mod.rs`, `sync.rs` |
| `SidecarLocator` | the `.aerocorrect` format, its damage and its two readers | `error_correction/sidecar.rs` |
| `ContentChunks` | from the bytes of sources to chunks and packs, and back | `v3/chunking.rs`, `v3/packing.rs`, `v3/vault.rs` |
| `MCVaultV3`, `MCVaultSeal`, `MCVaultV2`, `MCCorrectFile`, `MCSidecarLocator`, `MCContentChunks` | the small instances | |
| `VaultPaths_proofs` | lemmas on paths | |
| `VaultV3_proofs` | the tree invariant, the store invariant, the refinement of `VaultTree` | |
| `VaultSeal_proofs` | whole files, passwords, stale handles, reported edits, the refinement of `VaultRegister` | |
| `VaultRecovery_proofs` | whole repairs, edits never lost, good blocks kept, recovery within capacity | |
| `CorrectFile_proofs` | nothing invented, anchors kept; true verdicts, scans that foretell repairs | |
| `VaultV2_proofs` | induction and recursion; entries that can be read, sound manifests, right extractions | |
| `ContentChunks_proofs` | bounded buffer; streams cut as a whole would be; everything read back | |
| `SidecarLocator_proofs` | what is read lies within the sidecar; readers agree; the locator heals and is not misread | |

`VaultV3` implements `VaultTree`, and `VaultSeal` implements `VaultRegister` where stale handles can be told. `ContentChunks` is what `VaultV3` takes as its inputs (the chunks of
a source, the coverage of a pack member); `VaultSeal` is what it takes as one step (the save);
`VaultRecovery` is the same container when its bytes rot; `CorrectFile` takes the sidecar as found or
not found, and `SidecarLocator` says when it is found.

### VaultV3

`entries`, `chunks` and `data` are `manifest.entries`, `manifest.chunks` and `OpenVaultV3.data`;
`disk` is what opening the file gives. `op`, `todo` and `fed` are the program counter: the operation
that runs, the items it has left, and how many chunks of the first item the stream has delivered.
A chunk is its content: the keyed BLAKE3 id is taken to be injective. A block of the data section is
the pair of the chunk and the index it was sealed with as associated data; reading a chunk through a
record that leads to another block, or has another index, gives `Unreadable`, as authenticated
decryption does. Offsets count blocks, not bytes.

An operation is a sequence of items. `create_directory`, `add_files`, `add_files_to_dir` and
`add_directory` differ only in their items: directories, then large files one by one, then packs
of small ones. Each round of a loop is an action (`CreateDirectory`, `BeginFile`, `Stream`,
`FinishFile`, `BeginPack`, `FinishPack`, `AddMember`, `DeleteName`), so that an error can come
between any two of them; `Abandon` is the error return, which rolls nothing back. Sorting and
time stamps after a change are part of its action; the entries are a set, so that sorting them has
no effect and two identical entries would be merged (`PathsUnique` is about different entries of one
path). Move, rename and copy read and change memory only and are one action each. `Seal` is a save
that went through, `SealFails` one that did not, `Reopen` the end of the handle (or of its process)
at any point. A relocation that the code refuses changes nothing and is no step.

A chunk of `Oversized` makes a block of more than `MAX_BLOCK_SIZE`, which is stored, since `ingest_chunk` does not
ask, but not read, and not compacted either: while one is live, a deletion ends in the error of
`compact_live_chunks` (`CompactFails`) with its entries gone from memory and nothing saved.

Left out: the hash checks of `compact_live_chunks` and `extract_file_entry`, and those of lengths but for
`MAX_BLOCK_SIZE`, which cannot fail in a store that is `StoreConsistent`; a list of names to delete that is empty (it saves
without a compaction); compression.

### VaultSeal

A container is the set of edits it holds and the salt of its password. `SectionLengths` gives the
lengths the header records for a set of edits; `Generation` is what the code compares: file length
and header MAC are functions of the salt (and the keys wrapped under it) and of those lengths.
`phase` is the place of each handle in a call. The save is `Check`, `WriteTemp`, `SyncTemp`,
`Persist`, `SyncDirectory`, `Refresh`, each a step of its own. `Fail` is any error before the
rename, `RefreshFails` an error after it, `Close` a drop or a crash, `PowerLoss` puts
`stable` in the place of `disk`. `Persist` leaves open when the rename reaches the disk;
`DirectorySyncs` says whether `fsync_parent_dir`, which ignores its errors and is empty on
other systems than Unix, does anything. `Locking` is the embedder's lock: none, one held for a call, or
one held from opening to closing. `opened`, `reported` and `unread` are history.

### VaultRecovery

A region of the container (header, manifest, data) is a sequence of shards. Its parity is a record:
the stream it was computed over, how many parity shards are intact, and whether the payload can be
parsed. `Reconstructed` is `reconstruct_from_error_correction`: checksums tell which shards differ
from `over`; up to `intact` of them are put back, otherwise the stream stays as it is; a payload that
cannot be parsed, or is over a stream of another length, is an error (`Rejects`). The model keeps what
this implies for parity that is out of date: it takes newer shards for erasures. The header is one
shard (1024 bytes, and `MIN_SHARD` is 4096), a manifest is `MetadataShards`, a block is one; every
region fits one group.

`file` is the container, with `parity` (data) and `meta` (manifest) embedded when `embeds`;
`sidecar` has the recovery file beside the container and possibly one elsewhere, which a repair
names. `edit` numbers the edits, and a block is named by the edit that added it; `seal` makes
the manifest of every save another ciphertext. The length of a manifest depends on the number of blocks
alone: names and times have equal lengths, which the code allows. Header bytes are equal when blocks
and embedding are: the MAC covers the header alone.

Commands are `Add`, `Remove`, `Rename`, `ExportParity`, `StripParity`, `Repair`; each opens the
container, acts and saves in one step (`VaultSeal` has the steps and the other handles), as the
command line does. `Opens` follows `open_vault`: a header that does not verify is rebuilt from the
sidecar, a manifest that does not decrypt from embedded parity, then from the sidecar.
`GenerationCurrent` is `assert_vault_generation_current`: rot of kind `mark` is in a byte it reads.
The rest is decay of any shard, at most `MaxRot` times. A command that fails before it writes is no
step, except for `Repair`, whose `result` is part of the properties.

Left out: a damaged extension directory or length prefix of a block (nothing recovers the first; the
second only adds edits that are refused), truncation, sidecars of other containers, changes of the
password between an export and a recovery, dry runs (they write nothing), several groups per region.

### VaultV2

Every call opens the file, reads the manifest, edits it, writes a new file and renames it over the
path; nothing is compared. A handle keeps the keys and whether its header says version 3 (`bind`).
A file that is open does not change under a rename, so what a call reads through one opening it reads
at one moment; `Add`, `MakeDirectory`, `Delete`, `Move`, `Copy`, `ChangePassword` are therefore a step
that reads and computes, then `RemoveOld` (Windows), `Rename`, `SyncDirectory`, with `Fail` at any of
them. `CompactManifest` and `CompactData`, and `ExtractManifest` and `ExtractData`, are the two openings
of those calls; `source` is what the first has found. `ExtractAll` extracts the names it
listed, one after the other, into a directory (`output`), and ends at the first that fails. A file is created
when its first chunk is to be read, so a chunk that is missing or does not open leaves one with the chunks before
it (`ExtractBreaks`); an offset beyond the data, or a place that is taken, leaves none. A sealed chunk
is what was sealed and its additional data: its place, and from version 3 on the file and the number
of its chunks. `orphaned` and `unsynced` are history. `setting` says whether the embedder takes the calls
one at a time, and whether the build is the one for Windows.

`MCSetting` leaves out two of the four settings: a build for Windows whose calls interleave, where
`RemoveOld` makes calls fail that hold nothing new, and one for Unix whose calls do not, which is part
of the interleaving one. Left out: lengths in bytes (see "Known to differ"), `list`, `peek`, `security_info`.

### CorrectFile

`files` has every file that the path has named, so that a call that has it open (`fd`) goes on reading
the one it opened. A file is a sequence of shards; a sum is the stream it was taken of. `call` has, for
each process, the place in its call and what it holds: the stream it wants, the anchor its caller gave it,
the directory of the sidecar it opened, the windows that have gone through it. Generation reads
the file window by window and then writes the sidecar in place, which is two steps. A repair opens the sidecar
for its sum, opens it again, hashes the file, rebuilds it window by window into a temporary file and renames
that over the path if it is the stream that was wanted. A sidecar that is overwritten in place while a call
has it open may have parity of other windows: what is then found where the directory says is `Garbage`, whose
checksums match no shard, and may be too short to be read; a sidecar whose writing was cut off has none. Other steps write to the file in place, grow it,
cut it, rot a shard of it, a shard of parity, a checksum or the directory, make a call fail, flush, or
lose power. `past` and `unowned` are history: what the file has held, and sums of sidecars that were not
read off it at one moment.

**Fairness.** `WF` of `Work(p)` for each process: what a call does after it has begun is the code
of one thread, which takes its next step without waiting for anybody. The steps that begin a call and those
from outside have none, and a call may fail at any step. `RepairHeals` is about calls
that nothing interferes with.

Left out: `verify_standalone_file_streamed`, which compares a hash; the variants on buffers in memory; the
limits on size and benefit below which a sync makes no sidecar; empty files.

### SidecarLocator

A sidecar is a sequence of cells, one for each field, with the hash of a copy of the directory being the
copy itself. `ToBytes` and `ToBytesV1` are what is written; `Parsed` is the reader in memory (`from_bytes`),
`Opened` the one from disk (`AeroCorrectSidecarReader`), each for both versions; `Accepted` is what their callers
check before they use a sidecar. Of version 1 the reader in memory asks first whether the last cell is the hash
of the rest (`ParsedV1`); the one from disk goes from record to record, whatever they say, and asks that last
(`OpenedV1`). The state is the sidecar by now, `data`; `Rot`
turns a field into one next to it (a number) or into something that is no field, `Truncate` takes off the
end. What either reader would make of it is the subject of the invariants. Votes are by field, where the code votes by byte: two copies that agree in a field agree in its bytes,
and where no two do, the code may put a field together out of several, which is then no
field of any copy; the model takes the first copy's, which is the more dangerous.

Left out: the contents of parity (in `CorrectFile`), the formula that foretells the size of a sidecar, rot
between the opening of a sidecar and the reading of its parity (whose header is then taken from the directory
that was read), the arithmetic of `checked_add` on lengths beyond `u64`.

### ContentChunks

One `add_files` with its sources: `SetAside` and `BeginFile` are the partition, `Fill`, `Fold` and `LastChunk` the
streaming chunker read by read and byte by byte, `EndFile` the entry, `BeginPacks`, `PackFile` and `EndAdd`
the packs. `RangesAfter` defines the cuts of a whole buffer from its end, each by the least place that is
cut after (`NextCut`), and `CutsLikeWhole` compares the two. `Extracted` is the loop of
`extract_file_entry`, a `ReadBlock` for each of its turns. The hash has `Width`
bits and wraps. `WriteSource` is another process; a read returns any number of bytes up to what is there.

**Fairness.** `WF` of `Add`: the thread that adds goes on. `AddEnds` also needs the bound on the writes:
a file that is appended to for ever is read for ever.

Left out: errors of reads (in `VaultV3`, where they end the operation), the probe that decides whether a chunk
is worth compressing: here a chunk of one repeated byte shrinks to one, and any other is stored as it is.

### VaultTree and the refinement

`TreeOf` reads a store the way extraction does: entry, chunk ids, records, blocks. `ImplementsTree`
says that through this reading every step of `VaultV3` is one edit of a plain tree or no step at
all: ingesting, deduplication, packs, shared copies and compaction do not show. `Prepare` in
`VaultTree` is the honest part of the promise: while a file is being replaced the tree has neither
the old nor the new one, and an error at that moment leaves it so.

### VaultRegister and the refinement

A register that holds a container is what those who share the path may take it for. `Replace` is all that changes
it, but for a loss of power: one step, by a handle that has last read or put there what it replaces, to a container that keeps
every edit, has no older password and no edit that was not asked for. `Report` is only of edits that are there and are there after a loss of
power. `ImplementsRegister` maps `disk`, `stable`, the handles that are not closed and `opened` to it: `Persist` is the `Replace`,
`SyncDirectory` the `Settle`, `Refresh` the `Report`, and everything between them, failures included, does not show.
Without `DirectorySyncs` it is false, as is `ReportedKept`; without a lock, or with one per call and lengths that do not
tell edits apart, a `Persist` is no `Replace` any more (`seal_same_length` has the step).

## Runs

| Run | Question | Instance |
|---|---|---|
| `vault_store` | do tree and store stay sound whatever fails; is the store invisible | 2 names, depth 2, 3 chunks, one of them oversized, 4 jobs that add, 3 that delete, 4 operations |
| `seal_session` | is anything reported lost under a session lock; does a handle refuse itself | 2 handles, 2 edits, 1 password change |
| `seal_call` | does the check stop a stale handle when lengths tell edits apart; can an old password come back; is the file always whole; is the path a register | the same, lock per call |
| `recovery` | does recovery keep what it has and repair what it can | default sidecar, manifest of 3 shards, 2 parity shards, 4 edits, 2 rotten shards |
| `vault_v2` | what is left of correctness when calls interleave and nothing is compared | 2 handles, 2 names, contents of 0, 1 and 2 chunks, 4 containers to start from, 2 calls that write |
| `correct` | can a repair write anything it should not; are verdicts and scans true; does a repair end | 2 processes, 3 to 4 shards in windows of 2, groups of 2 with 1 parity shard, 3 calls and events |
| `sidecar` | what damage to the locator is healed, and is it ever misread | streams of 0 and 3 shards (1 and 2 windows), both versions, 3 damages |
| `chunks` | are streamed chunks those of the whole; does every file come back | files of 3 to 5 bytes, up to 3 small ones, chunks of 2 to 3 bytes, 1 write by another process |
| `seal_same_length` | the comment on the generation check | lock per call, one edit that keeps all lengths: violated |
| `recovery_stale` | the comment on stale sidecars | manifest of 1 shard, 3 edits, 1 rotten shard: violated |
| `recovery_export` | what the specification says of opening with a sidecar | 1 rotten shard: violated |
| `chunks_large` | the comment on the largest block | chunks of up to 4 bytes, blocks of up to 4 with a tag of 1: violated |

**Bounds.** `MaxDepth`, `MaxOps`, `MaxSalt`, `MaxEdit`, `MaxRot`, `MaxSaves`, `MaxLength`, `MaxEvents`,
`MaxDamage` and `MaxWrites` are the only caps on counters (`Asked` limits the names that callers of the older format use).
Depth 2 with two names is the least that has a directory with a file in it, a file where a directory
is wanted and an ancestor that is missing. Three chunks are new, shared between a large file and a
pack, or repeated in one file. Four operations suffice for add, overwrite, delete, add again (which
reuses an index), and for copy, delete the original, add. In the seal model, two handles and two
edits give a stale handle and a lost edit; more handles only repeat the part of the other one. In
the recovery model four edits and two parity shards are the least with a damaged block beside a good
one that a stale sidecar would replace (add, add, export, remove, add); two rotten shards are what
the parity of a group can bear, and every parity shard or region can be among them. Two writing calls
of the older format, one of which may be a compaction, are the least that puts other data under the
offsets that a compaction or an extraction has read; the containers to start from stand for the calls
before, a deletion among them. For `correct`, two calls and an event let a sidecar be exchanged
between its two openings, or a file change between two windows; a short last window with a
short last group needs three shards. Three damages are one in each copy of the directory, or one in each slot of the
count. A file of five bytes has three chunks, and a read of at most two bytes ends before,
at and after a cut. Every mutant under `mutants` is found under these bounds.

**Fairness** is assumed of `CorrectFile` and `ContentChunks` only, as said there. In the other models no
liveness is claimed: every operation is called by the user of the library, may fail at any step, and no
part of the code waits for another. Deadlock is checked in every run but three: `recovery`, where a container
that no longer opens and has rotted as far as the bound allows is the end of a behaviour, and
`correct`, which ends when its calls and events are used up. `sidecar` ends with its last damage.

## Proofs

All theorems are about `Spec` for arbitrary constants. Those about `VaultV3` need the assumptions of
`VaultPaths` and `VaultV3`: there are finitely many chunks, the oversized among them, `Unreadable` is none of them, `Dir` is not what a
file reads as, jobs are sequences of items, pack members lie inside their pack, and one deletion has one `recursive` flag.

* `TreeAlwaysWellFormed`: `Spec => []TreeWellFormed`. The inductive invariant `TreeInv` adds to the
  property the types of the entries, what `todo` may hold, and that while a file is streamed its
  place is ready (no file above it, its parents present, nothing at the path itself): the entry is
  made at the end of the stream without looking again.
* `StoreAlwaysConsistent`, `ChunksAlwaysPresent`, `TypeCorrect`, `DeletionErases`: from `StoreInv`,
  which adds that the chunks streamed so far, and those of pack members still to be added, are in the
  store although no entry lists them yet. The arguments that needed care are that the next index is
  above all indices in the section (`NextIndexFresh`), and that ranks by block index number the live
  chunks without gaps (`RankOrder`, `RankOnto`), so that compaction gives each record its own block.
* `ImplementsPlainTree`: `Spec => ImplementsTree`. In a state that is `StoreInv`, reading through the store gives
  what the entries list (`StoreReads`), so that each edit of the entries can be compared with an edit of
  the plain tree on its own: `DirectoryListed`, `PlaceListed`, `FileListed`, `DeletedListed`, `CopyListed`,
  `MoveListed`; the two last need that remapping a path back undoes the remapping (`RemapBack`). Ingestion
  and compaction leave the entries alone and are stutters. `WorkHeld` is the third conjunct of the
  invariant (`RefInv`): what is left of an operation makes only files that its caller handed in. A refused
  append to a directory is a stutter because the directory's own parents exist (`DirectoryHasParents`), and the
  end of a stream is a `Write` because its place is still ready (`ReadyPlace`).

The theorems about `VaultSeal` are in `VaultSeal_proofs`, from its assumptions (a lock is of one of
three kinds, `Free` is no handle, `ChangePassword` is no edit). `FileAlwaysWhole` needs no lock,
although the run has one: the
file at the path and the one that power loss leaves have both been synced (`WholeInv`).
`OldPasswordNeverReturns` needs mutual exclusion only (`LockInv`): a handle's memory never has a
salt older than its baseline's, and the check has compared the baseline's salt with the file's
(`SaltInv`). `StaleHandlesRefused` and `ReportedAlwaysKept` assume `Guarded`: a session lock, or a call
lock and lengths that tell edits apart. `FreshInv` says that the containers at the path only grow
while a handle is open, and that its baseline is the generation of one no larger than the container it
opened; so when the check finds that generation in the file, it is that container (`CheckClears`).
The lower bound is needed because a failed read-back leaves a baseline older than the last save.
`ImplementsSharedRegister` takes the `Replace` from `FreshInv` (`PersistReplaces`), the `Report` from `KeptInv`, by which the
container of a call that has been synced holds its edit and is the one that power loss leaves (`RefreshReports`), and
that nothing comes from nowhere from `AskedInv`.
`StaleRefused` is stated for every rename, `ImplementsRegister` for every change of the container; the passing run
checks the latter, and `seal_same_length` the former.

The theorems about `VaultRecovery` are in `VaultRecovery_proofs`, for any number of shards, edits and
recovery files. `TypeInv` adds to `TypeOK` that the shards of a manifest, and of every manifest that
parity is over, have the length that their text gives: a manifest rebuilt from a sidecar of another
time lists as many blocks as the data section has only because both are of one length.
`RepairedAlwaysWhole` needs no invariant: a repair writes what it has verified, and every other
step resets `result`. `EditsNeverLost` and `RepairKeepsGood` assume
`Spare < MetadataShards`; `recovery_stale` shows that without it they are false. Their invariant
`CurrentInv` says that all shards of the manifest, and of any manifest that parity is over, are of one
seal, and that block *i* is what the manifest lists as *i*, rotten or not. Parity of another seal then
differs from the manifest in every shard, more than it can restore (`SameSealRestored`).
`OpensWhileWithin` needs neither, only that a manifest, before it rots, is what one seal wrote, and that
embedded parity is over that (`Written`): no error of embedded parity then hides a sidecar, and shards
that differ from parity over a stream are those that have rotted (`WithinRestored`). `RepairsWhileWithin` needs
`CurrentInv` again: where an earlier manifest can come back, the blocks may be none that it lists.

The theorems about `CorrectFile` are in `CorrectFile_proofs`, from its assumptions on the grid and on the
streams to begin with. The inductive invariant `Inv` adds to `NothingInvented` that the sum of every sidecar,
and the stream that every repair wants, is in `past` or `unowned`; that a repair with an anchor wants
that anchor; and that a generation which nothing has disturbed has read a beginning of the file as it is
(`ReadOK`), which is why its sidecar is owned. `NothingEverInvented` follows because only a
stream that is wanted is put in place, and `AnchorAlwaysKept` because `want` never changes in a call.

The second half of the module is about what callers are told. Its invariant `ScanInv` adds, of every
call, `Fit`: of a scan that is alone, the sidecar it opened is the one at the path (`Scanned`), what has gone
through is the beginning of the file (`CalmRead`), and its count of lost groups is zero exactly
if no window so far has one; of a hash that is alone, what it wants is what the sidecar is
bound to (`Hashed`). `VerdictsTrue` follows at the end of the file. `ScansForetell` needs in addition that the
decoder's condition and the scan's are the same for every group (`LostOrRebuilt`), and that each
window adds one place to the count (`OneStart`). That no parity is left over from another sidecar
(`SidecarWhole`) is invariant under all that rots.

All the invariants of `ContentChunks` are theorems of `ContentChunks_proofs`. That the buffer is bounded needs
`Inv`: less than a greatest chunk has gone through the hash at any time, since the byte that would complete it is
where it is cut, and a read is only asked for when all of the buffer has gone through. For `AlwaysCutsLikeWhole`
that is not enough, since a prefix of a stream may be cut otherwise at its end than the stream is there.
`StreamOK` therefore speaks of every way in which the stream may still go on: the chunks so far are
chunks of whatever begins with what has been read (`CutUpTo`, for every `D` with `Extends`), and the hash is that
of the bytes since. `HashesAlike` gives that a hash depends on the bytes before it only, and
`CutAfter` that a place where none of the bytes before is cut after is where the whole is cut next.

`AlwaysReadsBack` has four more parts. `WholeTiles`: the ranges follow one another without a gap (`Tiles`).
`CoverReads`: chunks that cover a part of the data give it back, by induction over the blocks
(`ReadOne`, `SliceIsPart`); `MemberIsCovered` and `WholeReads` make of it what it means for a member of a pack
and for a file cut alone. `PackOK`: what was read last for a path is the part of the pack of the last member of
that path. `CallOK`: every path that was asked for has an entry, a member or a source still to
come. It assumes `BlocksFit`, that a greatest chunk and its tag fit in a block, as they do with the presets of
the code; `chunks_large` shows that the bounds alone do not ensure it.

All the invariants of `VaultV2` are theorems of `VaultV2_proofs`. They need that the containers to start from were
made by calls run to their end (`StartAssumption`: each entry reads, names differ, directories are there, and
what is bound to one `file_id` is of one content) and the types of the other constants. What a call makes of a
container is a recursion over files or entries. To the provers a recursive function is a `CHOOSE`, and the
library's induction takes an operator; so `Induction` is derived, for sets, from the
well-foundedness of the natural numbers, and `Recursion` and `RecursionUnique` from that: whatever steps from
values of a set to values of that set has exactly one run of any length. On these rest `OnlySelects`,
`AddFilesGood`, `CompactedGood` and the like, one for each call.

The invariant `Safe` is about every container in play (`Vaults`: at the path, after a loss of power, read by a
call, about to be renamed). Each is good by itself (`GoodVault`). And whatever is bound to a `file_id` was
drawn by a call that has been counted, and means the same in all of them (`VaultsGood`). The latter is what an
extraction or compaction needs whose manifest and data come from two containers: a chunk that opens under an
entry of another container holds what that entry stands for (`BoundReadsRight`), which moves, copies and compactions
preserve because they keep the `file_id`. For containers of version 2 there is no such bond; there the
argument is `OneAtATime`: between two openings nothing happens. `ExtractsRight` is also about the file that a
failed extraction leaves, which has to be a beginning of what was added: the chunks before the one that does not open
have opened, so by `BoundHolds` each is the chunk that was added in that place; and where `OneAtATime` holds no chunk fails
to open (`NeverBreaks`). `Orderly` adds what an extraction of everything
has written so far, from which it follows that only a clash of names can stop it.

The theorems of `SidecarLocator_proofs` are for streams of any length, from the assumptions of the module
only; one of these, `HugeAssumption`, says that what is no number reads as a length that no sidecar has. The first three
are for damage of any amount. `TypeCorrect`, `ReadersAlwaysAgree` and `HealsAlways` need `Inv`: a cell that is left is as it was written or
has rotted to a number or to junk, so that no rot makes a hash. The bulk of the proofs says what
is where in a sidecar: `Ends` and `FlattenSeq` are recursions over the windows, so `EndsSums` and `FlattenLaid` give
what they satisfy, and `LayoutV2`, `LayoutV1` and `DirectoryType` the place of every field from that. For `TypeCorrect`, a directory
of version 2 is held by `Accounted` to end where the sidecar does (`DecodedInside`); in version 1 a last cell that is
the hash of the rest makes the sidecar the one that was written (`OpenedInsideV1`). `ReadersAlwaysAgree` is about two readers of each version. Of
version 2 they agree on all bytes, since the reader from disk gives up no count that the one in memory takes. Of
version 1 they do not: only where the last cell is the hash of the rest does each record lead to the next as it was written
(`ChecksummedIsWhole`, `ReadV1`), so that what the reader from disk has passed by is what the reader in memory finds. `HealsAlways` follows the reader:
an intact copy is the directory, as only the directory has that hash (`IntactIsRight`), else the vote is
(`DirectoryHeals`); so the segments are the windows, tile the stream, end with it and point to their parity
(`RightSegments`, `FoundTiles`, `FoundAccounted`, `FoundParity`). It is stated for streams with `DirectoryFits`:
a reader refuses a locator of more than `MAX_DIRECTORY_REGION` (64 MiB, some 24 TiB of stream with the
code's windows), and `to_bytes` does not check that it writes less. Both streams of `MCSidecarLocator` fit. `OneSlotAlways` has the same condition.

`OpensRightAlways` and `OneSlotAlways` are for three damages at most, since four are too many (see below). The
invariant `Wear` counts them: a cell that differs from what was written has been paid for, a piece that is missing with two; and
a number is at most one larger for each damage. From that it follows which counts a reader can get a directory for:
* One that is too high (`TooMany`), whatever the damage. One record more than the file's has its length, by the first
  copy, where an identity was written, and by the third, where parity was. Neither is a number or rots to one; so
  the vote reads it as `Huge`, and the lengths add up to more than the sidecar.
* One that is too low, nothing being cut off (`TooFewWhole`). Each record that is left out leaves 12 cells of directory and the parity of a
  window to be made up for by the ones that are read; no field was written larger than a full window's
  (`RecordsSayLittle`), and three damages make them three larger in all. So the last parity ends before the sidecar does.
* One that is too low, with a piece cut off. Only one damage is left and the slot has it, so the records are as they were
  written somewhere in the directory, and too few to tile the stream (`TooFewCut`).

At the right count (`AcceptedFound`), a field is wrong in the vote only if two copies are, so one field at most is
(`OneWrong`). If that is a length, `Tiles` or `Accounted` has a sum that does not come out (`SumsTell`, `SumsFind`); an offset is held by
`Tiles` to be right anyway. Version 1 is refused unless its last cell is the hash of the rest. `OneSlotAlways` takes from this that no
count but the right one gives anything in a sidecar of full length (`OnlyCount`), and that every slot is tried
(`EverySlotTried`). Which damage is where matters in each of these steps, so none goes through by `Inv` alone.

Only model-checked: what is out of the prover's reach, liveness (`RepairHeals`, `AddEnds`) and `ENABLED`.

## What the checks show

The chunk store is sound under everything the model does to it, and extraction through it is what
a plain tree would give. Under a lock held for a session no reported edit is lost. Under a lock that
is held for a call only, as the comment on `save_open_vault` describes, the generation check has to
tell a stale handle, and there is one difference between comment and code: the check compares file
length and header MAC, and the MAC covers the header alone. An edit that leaves all section lengths
as they were, such as a rename to a name of the same length, is not seen, and a handle opened before
it seals over it (`seal_same_length`). A change of password changes the salt in the header and is
always seen.

Recovery is all or nothing as documented, and damage within the parity of a group is recovered from
every fresh source, as long as a manifest has more shards than a group has parity: then parity of an
earlier seal cannot bring an earlier manifest back. Two runs show where the code departs from its
comments and documents:
* `recovery_stale`: a manifest of at most 4096 bytes is one shard, which one parity shard replaces
  as a whole. A stale sidecar then rebuilds the manifest of its export, and a repair
  puts the old block over the new one.
* `recovery_export`: an export from a container whose manifest was rebuilt at open computes parity over
  the rotten manifest, and replaces the sidecar that could rebuild it.

Two more things the model has and no document denies: an edit or an export of a damaged container
computes parity over the damage; and a sidecar, empty or stale, takes precedence over fresh embedded
parity.

In the older format, calls that interleave lose updates, but never mix data and manifest of two
containers: from version 3 on a chunk is bound to its file, and an extraction or a compaction that
finds other data under its offsets fails. Containers of the older version 2 have that only as long as calls are taken
one at a time.

A repair of a file, with other calls, edits, rot and failures going on, writes only what the
file or the stream of a sidecar was, and with an anchor only what the anchor names; a repair that can
be done is done. The locator of a sidecar is found by both readers while two slots of the count, and one
copy of the directory or two of each field, are there, and the reader from disk needs one slot
only. Four damages are too many: a wrong count or window length in a directory that only passes its vote, with
the sidecar cut to the length that goes with it, is taken for right by both readers. What is rebuilt
from it does not have the hash that is asked for, so the repair is refused.

Chunks do not depend on the sizes of the reads, and every file comes back out of them or out of its
pack, unless its chunks are longer than a stored block may be (`chunks_large`): bounds of
up to 256 MiB are accepted, and blocks of more than 64 MiB are written, but neither read nor compacted.

### Known to differ

These were met as well. Where a property is named, the module states it and no run has it: it is violated
by what the code does, which a run of the module's configuration with that property alone shows.

* `StripKeepsRecovery` (`VaultRecovery`): `strip_parity` looks at whether a sidecar exists
  (`v3/ec.rs:410`), not at what it protects; creation seeds an empty one. `v3/ec.rs:393`: "so a vault is
  never silently left with zero recovery". Needs `MaxEdit = 1`.
* `HealedHeaderPersists` (`VaultRecovery`): a header that was rebuilt at open cannot be saved when the rot is in
  bytes that the generation check reads (`v3/ec.rs:520`: "persist the healed region").
* `SidecarTriedNext` (`VaultRecovery`): an error in the embedded manifest parity hides the sidecar's
  (`v3/vault.rs:1972`: "then the detached sidecar's manifest parity").
* `GoodIsKept` (`CorrectFile`): a standalone repair without an anchor takes its hash from the sidecar; one that was made
  of another file of that length, and whose parity suffices, overwrites a file that has not rotted
  (`src/README.md:270`: "never overwrite good data").
* `NeverHalfWritten` (`CorrectFile`): the repaired file is renamed without having been synced
  (`error_correction/sync.rs:583`), so that a loss of power can leave a part of it
  (`src/README.md:270`: "never leaves a half-written original").
* `FallsBack` (`SidecarLocator`): the reader in memory returns the error of the first count that it can recover a directory
  for (`error_correction/sidecar.rs:231`), where `sidecar.rs:335` has the others "as fallbacks".
* `GarbledVoteRefused` (`SidecarLocator`): a vote is accepted by its identity alone; garbled lengths and
  geometry elsewhere in the directory pass (`error_correction/sidecar.rs:397`: "so a garbled vote is never trusted").
* `VaultThere` (`VaultV2`): on Windows the container is removed before the new one is renamed to its
  place (`aerovault/src/vault.rs:1647`), against `src/docs/AEROVAULT-V2-SPEC.md:386`.
* `ExtractsAll` (`VaultV2`): `extract_all` puts a file at its last name, so two files of one name in
  different directories, or a file and a directory, end it half done (`aerovault/src/vault.rs:674`).
* Not in a model, as it is about bytes: a chunk size between 4097 and 8191, which
  `CreateOptions::with_chunk_size` accepts (`aerovault/src/vault.rs:66`), makes the older format read a file
  of more than 8192 bytes through a buffer whose edge ends a read early; the chunk is short and the file is refused as
  changed (`vault.rs:445`).

## Plan

Done, in the order of the first plan: the sidecar, standalone and sync parity (with the grid of Reed-Solomon), packing and
chunking, the older format. Left:

1. `ExtractV3`: directories and files made by an extraction that fails halfway.
2. One model of a container and its parity that has both the handles of `VaultSeal` and the rot of
   `VaultRecovery`: an export or repair beside another handle's save.

## Not modelled

Cryptographic primitives are assumed to do what their libraries say. Byte layouts of header and
container are straight-line serialisation. Telemetry changes no state. The command line parses
arguments and prints. Path sanitising is string work: the model starts from normalised paths.
Memory limits, zstd levels and the incompressibility probe affect no property here.
