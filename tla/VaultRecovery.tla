--------------------------- MODULE VaultRecovery ---------------------------
(***************************************************************************)
(* Error correction of an AEROVAULT3 container (aerovault/src/v3/ec.rs,    *)
(* with open_vault and save_open_vault of v3/vault.rs): parity inside the  *)
(* container, parity in .aerocorrect sidecars, and what they recover when  *)
(* the stored bytes rot.                                                   *)
(*                                                                         *)
(* A region (header, manifest, data) is a sequence of shards, the unit of  *)
(* Reed-Solomon; its parity is the stream it was computed over and the     *)
(* number of its parity shards that are still intact.  A command opens the *)
(* container, acts and seals it in one step: VaultSeal takes the steps of  *)
(* a seal apart, and VaultV3 what an edit does to the manifest.            *)
(***************************************************************************)
EXTENDS Naturals, Sequences, FiniteSets

CONSTANTS
  MetadataShards,  \* shards of an encrypted manifest: 1 up to MIN_SHARD bytes
  Place,           \* paths of recovery files: "beside" is the default one
  Spare,           \* parity shards of a group: 1 below ten percent, else 2
  MaxEdit,         \* bound: edits of the container
  MaxRot           \* bound: shards that rot

ASSUME ShardAssumption == MetadataShards \in Nat \ {0} /\ Spare \in {1, 2}
ASSUME PlaceAssumption == "beside" \in Place
ASSUME BoundAssumption == MaxEdit \in Nat /\ MaxRot \in Nat

VARIABLES
  file,      \* the container on the disk
  sidecar,   \* the recovery file at each place
  edit,      \* the last edit that was sealed; it also names the block it added
  seal,      \* seals so far: each encrypts the manifest under a fresh nonce
  rotted,    \* shards that have rotted so far
  result     \* what the last command returned

vars == <<file, sidecar, edit, seal, rotted, result>>

\* A "mark" is a byte of the header that the generation check reads: magic,
\* version, length, reserved bytes or MAC.
Rot == {"none", "body", "mark"}

-----------------------------------------------------------------------------
(* Shards and parity.                                                      *)

\* What was written, and the bytes it took.
Shard(content, length) == [content |-> content, length |-> length, rot |-> "none"]

Restored(stream) == [i \in DOMAIN stream |-> [stream[i] EXCEPT !.rot = "none"]]

Rotten(stream) == {i \in DOMAIN stream : stream[i].rot # "none"}

\* An empty payload protects nothing.
Unprotected == [over |-> <<>>, intact |-> 0, readable |-> TRUE]

ParityOver(stream) ==
  IF stream = <<>> THEN Unprotected
  ELSE [over |-> stream, intact |-> Spare, readable |-> TRUE]

SameLength(s, t) ==
  /\ DOMAIN s = DOMAIN t
  /\ \A i \in DOMAIN s : s[i].length = t[i].length

\* reconstruct_from_error_correction returns Err.
Rejects(stream, parity) ==
  parity.over # <<>> /\ (~parity.readable \/ ~SameLength(stream, parity.over))

Erasures(stream, parity) == {i \in DOMAIN stream : stream[i] # parity.over[i]}

\* Mutant: as many erasures as intact parity shards are already too many.
OneShardShort(stream, parity) ==
  Cardinality(Erasures(stream, parity)) < parity.intact

\* Mutant: the parity is trusted however much of the stream differs from it.
AlwaysEnough(stream, parity) == TRUE

\* The checksum of every shard tells which are erased; all the regions here fit
\* in one group, and the virtual zero shards that fill it up are never erased.
Enough(stream, parity) == Cardinality(Erasures(stream, parity)) <= parity.intact

\* The stream is left alone when it cannot be reconstructed.
Reconstructed(stream, parity) ==
  IF /\ parity.over # <<>>
     /\ ~Rejects(stream, parity)
     /\ Enough(stream, parity)
  THEN parity.over
  ELSE stream

-----------------------------------------------------------------------------
(* The container.                                                          *)

\* Offsets and lengths of the sections: the blocks are of one length.
Layout(blocks, embeds) == [blocks |-> Len(blocks), embeds |-> embeds]

\* Every entry takes as many bytes, so the blocks give the manifest's length.
Blob(text) == [i \in 1..MetadataShards |-> Shard(text, Len(text.blocks))]

\* Mutant: the parity of the metadata is not recomputed.
NoMetadataParity(text, data, embeds) ==
  [header   |-> <<Shard(Layout(text.blocks, embeds), 1)>>,
   data     |-> data,
   manifest |-> Blob(text),
   embeds   |-> embeds,
   parity   |-> IF embeds THEN ParityOver(data) ELSE Unprotected,
   meta     |-> Unprotected]

\* write_container: parity is recomputed over whatever is in memory.
Container(text, data, embeds) ==
  [header   |-> <<Shard(Layout(text.blocks, embeds), 1)>>,
   data     |-> data,
   manifest |-> Blob(text),
   embeds   |-> embeds,
   parity   |-> IF embeds THEN ParityOver(data) ELSE Unprotected,
   meta     |-> IF embeds THEN ParityOver(Blob(text)) ELSE Unprotected]

Text(number, blocks) == [seal |-> seal + 1, edit |-> number, blocks |-> blocks]

Sidecar(header, manifest, data) ==
  [present |-> TRUE, header |-> header, manifest |-> manifest, data |-> data]

NoSidecar == [Sidecar(Unprotected, Unprotected, Unprotected) EXCEPT !.present = FALSE]

\* A manifest decrypts when every byte of it is what some seal wrote.
Decodes(blob) == \A i \in DOMAIN blob : blob[i] = Shard(blob[1].content, blob[1].length)

-----------------------------------------------------------------------------
(* open_vault.                                                             *)

HeaderHealed == Rotten(file.header) # {}

\* A header that does not verify is rebuilt from the sidecar; one of an older
\* layout unlocks too, but what its offsets point at then fails to parse.
HeaderOpens ==
  \/ ~HeaderHealed
  \/ Reconstructed(file.header, sidecar["beside"].header) = Restored(file.header)

ManifestHealed == ~Decodes(file.manifest)

\* Mutant: the sidecar is never tried.
EmbeddedManifest == Reconstructed(file.manifest, file.meta)

\* Embedded parity first, then the sidecar's.
RebuiltManifest ==
  LET embedded == Reconstructed(file.manifest, file.meta)
  IN  IF embedded # file.manifest THEN embedded
      ELSE Reconstructed(file.manifest, sidecar["beside"].manifest)

\* Embedded parity that cannot be used is an error, a sidecar's is passed over.
ManifestOpens ==
  \/ ~ManifestHealed
  \/ ~Rejects(file.manifest, file.meta) /\ Decodes(RebuiltManifest)

Opens == HeaderOpens /\ ManifestOpens

OpenedText ==
  (IF ManifestHealed THEN RebuiltManifest ELSE file.manifest)[1].content

\* scrub_vault: blocks that do not have the cipher_hash of the manifest.
Damaged(text, data) == {i \in DOMAIN data : data[i] # Shard(text.blocks[i], 1)}

\* assert_vault_generation_current parses the header on the disk, and compares
\* its MAC with the one of the header that was opened, rebuilt or not.
GenerationCurrent == \A i \in DOMAIN file.header : file.header[i].rot # "mark"

Save(text, data, embeds) ==
  /\ file' = Container(text, data, embeds)
  /\ seal' = seal + 1

-----------------------------------------------------------------------------
(* Commands.                                                               *)

\* create_empty_vault for each RecoveryPlacement, and without error correction.
Init ==
  \E embeds, detached \in BOOLEAN :
    /\ file = Container([seal |-> 0, edit |-> 0, blocks |-> <<>>], <<>>, embeds)
    /\ sidecar = [p \in Place |->
         [NoSidecar EXCEPT !.present = detached /\ p = "beside"]]
    /\ edit = 0
    /\ seal = 0
    /\ rotted = 0
    /\ result = "none"

\* An edit is sealed over the data as it was read, damaged or not.
Edit(blocks, data) ==
  /\ Opens
  /\ GenerationCurrent
  /\ edit < MaxEdit
  /\ edit' = edit + 1
  /\ Save(Text(edit + 1, blocks), data, file.embeds)
  /\ result' = "none"
  /\ UNCHANGED <<sidecar, rotted>>

\* A new block goes to the end of the data section.
Add ==
  Edit(Append(OpenedText.blocks, edit + 1), Append(file.data, Shard(edit + 1, 1)))

Without(s, i) == SubSeq(s, 1, i - 1) \o SubSeq(s, i + 1, Len(s))

\* Mutant: the block stays in the data section.
RemoveWithoutCompaction(i) == Edit(Without(OpenedText.blocks, i), file.data)

\* Compaction copies the other blocks without verifying them.
Remove(i) == Edit(Without(OpenedText.blocks, i), Without(file.data, i))

\* Any edit of the manifest that keeps its length.
Rename == Edit(OpenedText.blocks, file.data)

\* Parity over the header that was opened and the manifest as it is on the disk.
ExportParity(p) ==
  /\ Opens
  /\ sidecar' = [sidecar EXCEPT ![p] =
       Sidecar(ParityOver(Restored(file.header)),
               ParityOver(file.manifest),
               ParityOver(file.data))]
  /\ result' = "none"
  /\ UNCHANGED <<file, edit, seal, rotted>>

\* Refused when there is no sidecar, whatever a sidecar that is there contains.
StripParity(force) ==
  /\ Opens
  /\ file.embeds
  /\ sidecar["beside"].present \/ force
  /\ GenerationCurrent
  /\ Save(Text(OpenedText.edit, OpenedText.blocks), file.data, FALSE)
  /\ result' = IF force THEN "forced" ELSE "stripped"
  /\ UNCHANGED <<sidecar, edit, rotted>>

\* resolve_parity_source: the named file, else the sidecar, else the container.
DataParity(explicit, p) ==
  IF explicit \/ sidecar[p].present THEN sidecar[p].data ELSE file.parity

\* Mutant: only the blocks that scrub found damaged are verified.
DamagedVerified(text, data, before) ==
  \A i \in Damaged(text, before) : data[i] = Shard(text.blocks[i], 1)

\* Mutant: what has been reconstructed is not verified.
NotVerified(text, data, before) == data # before

\* Every block of the reconstructed stream has the cipher_hash of the manifest.
AllVerified(text, data, before) == Damaged(text, data) = {}

\* The healed container replaces the one on the disk, if the save allows it.
Heal(text, data) ==
  IF GenerationCurrent
  THEN Save(text, data, file.embeds) /\ result' = "repaired"
  ELSE result' = "failed" /\ UNCHANGED <<file, seal>>

Leave(outcome) == result' = outcome /\ UNCHANGED <<file, seal>>

\* repair_vault, after the open_vault of its caller, who names a recovery file or
\* leaves the choice to the default.
Repair(p) ==
  LET explicit == p # "beside"
      text    == Text(OpenedText.edit, OpenedText.blocks)
      damaged == Damaged(text, file.data) # {}
      healed  == HeaderHealed \/ ManifestHealed
      parity  == DataParity(explicit, p)
      refused == \/ explicit /\ ~sidecar[p].present
                 \/ Rejects(file.data, parity)
      data    == Reconstructed(file.data, parity)
  IN  /\ Opens
      /\ \/ ~damaged /\ ~healed /\ Leave("nothing")
         \/ ~damaged /\ healed /\ Heal(text, file.data)
         \/ damaged /\ refused /\ Leave("failed")
         \/ /\ damaged
            /\ ~refused
            /\ ~AllVerified(text, data, file.data)
            /\ Leave("nothing")
         \/ /\ damaged
            /\ ~refused
            /\ AllVerified(text, data, file.data)
            /\ Heal(text, data)
      /\ UNCHANGED <<sidecar, edit, rotted>>

-----------------------------------------------------------------------------
(* Decay of the media (environment).                                       *)

\* A parity loses one of its shards, or the header that describes it.
Decayed(parity) ==
  {d \in {[parity EXCEPT !.intact = @ - 1], [parity EXCEPT !.readable = FALSE]} :
     d # parity /\ d.intact \in 0..Spare /\ parity.over # <<>>}

Decay ==
  /\ rotted < MaxRot
  /\ rotted' = rotted + 1
  /\ result' = "none"
  /\ UNCHANGED <<edit, seal>>

RotHeader(kind) ==
  /\ Decay
  /\ Rotten(file.header) = {}
  /\ file' = [file EXCEPT !.header[1].rot = kind]
  /\ UNCHANGED sidecar

RotManifest(i) ==
  /\ Decay
  /\ i \notin Rotten(file.manifest)
  /\ file' = [file EXCEPT !.manifest[i].rot = "body"]
  /\ UNCHANGED sidecar

RotBlock(i) ==
  /\ Decay
  /\ i \notin Rotten(file.data)
  /\ file' = [file EXCEPT !.data[i].rot = "body"]
  /\ UNCHANGED sidecar

RotEmbeddedParity ==
  /\ Decay
  /\ \/ \E d \in Decayed(file.parity) : file' = [file EXCEPT !.parity = d]
     \/ \E d \in Decayed(file.meta)   : file' = [file EXCEPT !.meta = d]
  /\ UNCHANGED sidecar

RotSidecar(p) ==
  /\ Decay
  /\ \/ \E d \in Decayed(sidecar[p].header)   : sidecar' = [sidecar EXCEPT ![p].header = d]
     \/ \E d \in Decayed(sidecar[p].manifest) : sidecar' = [sidecar EXCEPT ![p].manifest = d]
     \/ \E d \in Decayed(sidecar[p].data)     : sidecar' = [sidecar EXCEPT ![p].data = d]
  /\ UNCHANGED file

Next ==
  \/ Add
  \/ \E i \in DOMAIN file.data : Remove(i)
  \/ Rename
  \/ \E p \in Place : ExportParity(p)
  \/ \E force \in BOOLEAN : StripParity(force)
  \/ \E p \in Place : Repair(p)
  \/ \E kind \in Rot \ {"none"} : RotHeader(kind)
  \/ \E i \in 1..MetadataShards : RotManifest(i)
  \/ \E i \in DOMAIN file.data : RotBlock(i)
  \/ RotEmbeddedParity
  \/ \E p \in Place : RotSidecar(p)

Spec == Init /\ [][Next]_vars

-----------------------------------------------------------------------------
(* What recovery promises.                                                 *)

Outcome == {"none", "repaired", "nothing", "failed", "stripped", "forced"}

TextType == [seal : Nat, edit : 0..MaxEdit, blocks : Seq(1..MaxEdit)]

LayoutType == [blocks : Nat, embeds : BOOLEAN]

StreamType(Content) == Seq([content : Content, length : Nat, rot : Rot])

ParityType(Content) ==
  [over : StreamType(Content), intact : 0..Spare, readable : BOOLEAN]

SidecarType ==
  [present : BOOLEAN, header : ParityType(LayoutType),
   manifest : ParityType(TextType), data : ParityType(1..MaxEdit)]

\* Regions, their parity and the sidecars of ec.rs have their types; the data
\* section has as many blocks as the manifest that was sealed with it lists.
TypeOK ==
  /\ file \in [header : StreamType(LayoutType), data : StreamType(1..MaxEdit),
               manifest : StreamType(TextType), embeds : BOOLEAN,
               parity : ParityType(1..MaxEdit), meta : ParityType(TextType)]
  /\ Len(file.header) = 1 /\ Len(file.manifest) = MetadataShards
  /\ \A i \in DOMAIN file.manifest :
       Len(file.manifest[i].content.blocks) = Len(file.data)
  /\ sidecar \in [Place -> SidecarType]
  /\ edit \in 0..MaxEdit /\ seal \in Nat /\ rotted \in 0..MaxRot
  /\ result \in Outcome

\* No byte of header, manifest or blocks is damaged.
Sound(f) ==
  /\ Rotten(f.header) = {}
  /\ Decodes(f.manifest)
  /\ Damaged(f.manifest[1].content, f.data) = {}

\* A repair that reports repaired blocks (repair_vault) has left a container
\* without any damage in header, manifest or blocks, whose embedded parity
\* protects it again in full.
RepairedIsWhole ==
  result = "repaired" =>
    /\ Sound(file)
    /\ file.embeds => /\ file.parity = ParityOver(file.data)
                      /\ file.meta = ParityOver(file.manifest)

\* A repair, from whatever parity, stale or rotten, never replaces a block whose
\* stored bytes are still those that were last sealed, and a repair that does not
\* report blocks as repaired leaves the container byte for byte as it was.
RepairNeverOverwritesGood ==
  [][ /\ result' \in {"repaired", "nothing", "failed"} =>
           \A i \in DOMAIN file.data \ Rotten(file.data) :
             i \in DOMAIN file'.data /\ file'.data[i] = file.data[i]
      /\ result' \in {"nothing", "failed"} => file' = file ]_vars

\* What is in the container is the last edit that was sealed: no open, repair or
\* strip brings back an older manifest, rebuilt from parity of an earlier time.
NoEditLost == \A i \in DOMAIN file.manifest : file.manifest[i].content.edit = edit

\* Shards of a stream and of its parity that are lost.
Lost(stream, parity) == Cardinality(Rotten(stream)) + Spare - parity.intact

\* The parity was computed over the region as it was written.
Covers(parity, stream) ==
  parity.over # <<>> /\ parity.readable /\ parity.over = Restored(stream)

\* Up to as many losses as there are parity shards in every region that a fresh
\* sidecar covers, of the header, the manifest, the blocks or the parity.
WithinSidecar ==
  /\ sidecar["beside"].present
  /\ Covers(sidecar["beside"].header, file.header)
  /\ Covers(sidecar["beside"].manifest, file.manifest)
  /\ Covers(sidecar["beside"].data, file.data)
  /\ Lost(file.header, sidecar["beside"].header) <= Spare
  /\ Lost(file.manifest, sidecar["beside"].manifest) <= Spare
  /\ Lost(file.data, sidecar["beside"].data) <= Spare
  /\ file.meta.readable

\* The same for embedded parity, which does not protect the header.
WithinEmbedded ==
  /\ ~sidecar["beside"].present
  /\ Rotten(file.header) = {}
  /\ Covers(file.parity, file.data)
  /\ Covers(file.meta, file.manifest)
  /\ Lost(file.data, file.parity) <= Spare
  /\ Lost(file.manifest, file.meta) <= Spare

\* While parity was computed over what was sealed, and no more shards are lost
\* than it has, open_vault rebuilds header and manifest.
OpensWithinCapacity == WithinSidecar \/ WithinEmbedded => Opens

\* "tolerating up to P erased shards (data or parity) per group": under the same
\* conditions a repair from the default source leaves no damage behind.
RepairsWithinCapacity ==
  [][ (WithinSidecar \/ WithinEmbedded) /\ GenerationCurrent /\ Repair("beside")
      => Sound(file') ]_vars

-----------------------------------------------------------------------------
(* What comments and documents say, and the code does not do.              *)

\* strip_parity "refuses unless a detached sidecar already exists or `force` is
\* set, so a vault is never silently left with zero recovery".
StripKeepsRecovery ==
  result = "stripped" /\ file.data # <<>> => sidecar["beside"].data.over # <<>>

\* "`repair` persists the healed region on the next seal": when the container
\* opens with a rebuilt header and no block is damaged, repair does not fail.
HealedHeaderPersists ==
  [][ HeaderHealed /\ Damaged(OpenedText, file.data) = {} /\ Repair("beside")
      => result' # "failed" ]_vars

\* open_vault: "Try the embedded metadata extension first, then the detached
\* sidecar's manifest parity": what the sidecar can rebuild opens.
SidecarTriedNext ==
  /\ HeaderOpens
  /\ Covers(sidecar["beside"].manifest, file.manifest)
  /\ Lost(file.manifest, sidecar["beside"].manifest) <= Spare
  => Opens

\* "Opening a vault rebuilds a corrupted header / manifest from the sidecar":
\* writing the sidecar of a container that opens leaves a container that opens.
ExportKeepsOpenable ==
  [][ \A p \in Place : ExportParity(p) => Opens' ]_vars
=============================================================================
