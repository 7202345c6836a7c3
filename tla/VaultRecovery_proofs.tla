------------------------ MODULE VaultRecovery_proofs ------------------------
(***************************************************************************)
(* Theorems about VaultRecovery: types, repairs that are whole, and that   *)
(* parity of an earlier seal brings nothing back when a manifest has more  *)
(* shards than a group has parity.                                         *)
(***************************************************************************)
EXTENDS VaultRecovery, FiniteSetTheorems, SequenceTheorems, TLAPS

Blocks == 1..MaxEdit

\* A shard of a manifest is as long as its text says.
LengthsFit(stream) == \A i \in DOMAIN stream : stream[i].length = Len(stream[i].content.blocks)

FileType ==
  [header : StreamType(LayoutType), data : StreamType(Blocks),
   manifest : StreamType(TextType), embeds : BOOLEAN,
   parity : ParityType(Blocks), meta : ParityType(TextType)]

FileInv(f) ==
  /\ f \in FileType
  /\ Len(f.header) = 1
  /\ Len(f.manifest) = MetadataShards
  /\ \A i \in DOMAIN f.manifest : Len(f.manifest[i].content.blocks) = Len(f.data)
  /\ LengthsFit(f.manifest)
  /\ LengthsFit(f.meta.over)

SidecarInv(s) == s \in SidecarType /\ LengthsFit(s.manifest.over)

TypeInv ==
  /\ FileInv(file)
  /\ sidecar \in [Place -> SidecarType]
  /\ \A p \in Place : SidecarInv(sidecar[p])
  /\ edit \in 0..MaxEdit /\ seal \in Nat /\ rotted \in 0..MaxRot
  /\ result \in Outcome

-----------------------------------------------------------------------------
(* Streams and parity.                                                     *)

\* Reconstruction keeps the type of a stream and the lengths of its shards.
LEMMA ReconstructedType ==
  ASSUME NEW Content, NEW stream \in StreamType(Content),
         NEW parity \in ParityType(Content)
  PROVE  /\ Reconstructed(stream, parity) \in StreamType(Content)
         /\ DOMAIN Reconstructed(stream, parity) = DOMAIN stream
         /\ Len(Reconstructed(stream, parity)) = Len(stream)
         /\ \A i \in DOMAIN stream :
              Reconstructed(stream, parity)[i].length = stream[i].length
         /\ Reconstructed(stream, parity) \in {stream, parity.over}
<1>1. parity.over \in StreamType(Content)
  BY DEF ParityType
<1>2. CASE Reconstructed(stream, parity) = stream
  BY <1>2
<1>3. CASE /\ Reconstructed(stream, parity) = parity.over
           /\ ~Rejects(stream, parity)
           /\ parity.over # <<>>
  <2>1. SameLength(stream, parity.over)
    BY <1>3 DEF Rejects
  <2>2. Len(parity.over) = Len(stream)
    BY <1>1, <2>1 DEF SameLength, StreamType
  <2> QED BY <1>1, <1>3, <2>1, <2>2 DEF SameLength
<1> QED BY <1>2, <1>3 DEF Reconstructed

\* Parity over a stream has the type of parity.
LEMMA ParityOverType ==
  ASSUME NEW Content, NEW stream \in StreamType(Content)
  PROVE  /\ ParityOver(stream) \in ParityType(Content)
         /\ ParityOver(stream).over \in {stream, <<>>}
<1>1. Spare \in Nat
  BY ShardAssumption
<1>2. <<>> \in StreamType(Content)
  BY DEF StreamType
<1> QED BY <1>1, <1>2 DEF ParityOver, ParityType, Unprotected

\* No parity has the type of parity.
LEMMA UnprotectedType ==
  ASSUME NEW Content
  PROVE  Unprotected \in ParityType(Content) /\ Unprotected.over = <<>>
<1>1. Spare \in Nat
  BY ShardAssumption
<1> QED BY <1>1 DEF ParityType, StreamType, Unprotected

\* A decayed parity has the type of parity, and is over the same stream.
LEMMA DecayedType ==
  ASSUME NEW Content, NEW parity \in ParityType(Content), NEW d \in Decayed(parity)
  PROVE  d \in ParityType(Content) /\ d.over = parity.over
BY DEF Decayed, ParityType

\* So has a stream of which a shard has rotted.
LEMMA RottenType ==
  ASSUME NEW Content, NEW stream \in StreamType(Content), NEW i \in DOMAIN stream,
         NEW kind \in Rot
  PROVE  LET worse == [stream EXCEPT ![i].rot = kind]
         IN  /\ worse \in StreamType(Content)
             /\ Len(worse) = Len(stream)
             /\ DOMAIN worse = DOMAIN stream
             /\ \A j \in DOMAIN stream : /\ worse[j].content = stream[j].content
                                         /\ worse[j].length = stream[j].length
<1> DEFINE R == [content : Content, length : Nat, rot : Rot]
           worse == [stream EXCEPT ![i].rot = kind]
<1>1. stream \in Seq(R)
  BY DEF StreamType
<1>2. \A j \in DOMAIN stream : stream[j] \in R
  <2> HIDE DEF R
  <2> QED BY <1>1
<1>3. \A j \in DOMAIN stream :
        worse[j] = IF j = i THEN [stream[j] EXCEPT !.rot = kind] ELSE stream[j]
  OBVIOUS
<1>4. \A j \in DOMAIN stream : /\ worse[j] \in R
                                /\ worse[j].content = stream[j].content
                                /\ worse[j].length = stream[j].length
  BY <1>2, <1>3
<1>5. DOMAIN worse = 1..Len(stream) /\ Len(stream) \in Nat
  BY <1>1
<1>6. worse \in Seq(R) /\ Len(worse) = Len(stream)
  <2> DEFINE shard == [stream[i] EXCEPT !.rot = kind]
  <2>1. shard \in R
    BY <1>3, <1>4
  <2>2. worse = [stream EXCEPT ![i] = shard]
    OBVIOUS
  <2>3. i \in 1..Len(stream)
    BY <1>5
  <2> HIDE DEF R, worse, shard
  <2> QED BY <1>1, <2>1, <2>2, <2>3, ExceptSeq
<1> QED BY <1>4, <1>5, <1>6, <1>1 DEF StreamType

\* A container that is sealed has its type.
LEMMA ContainerType ==
  ASSUME NEW text \in TextType, NEW data \in StreamType(Blocks), NEW embeds \in BOOLEAN,
         Len(text.blocks) = Len(data)
  PROVE  LET f == Container(text, data, embeds)
         IN  /\ FileInv(f)
             /\ f.data = data /\ f.manifest = Blob(text)
<1>1. MetadataShards \in Nat /\ Len(text.blocks) \in Nat
  BY ShardAssumption DEF TextType
<1>2. /\ Blob(text) \in StreamType(TextType)
      /\ Len(Blob(text)) = MetadataShards
      /\ DOMAIN Blob(text) = 1..MetadataShards
      /\ \A i \in DOMAIN Blob(text) : Blob(text)[i] = Shard(text, Len(text.blocks))
  BY <1>1 DEF Blob, StreamType, Shard, Rot
<1>3. LengthsFit(Blob(text))
  BY <1>2 DEF LengthsFit, Shard
<1>4. /\ <<Shard(Layout(text.blocks, embeds), 1)>> \in StreamType(LayoutType)
      /\ Len(<<Shard(Layout(text.blocks, embeds), 1)>>) = 1
  <2>1. Layout(text.blocks, embeds) \in LayoutType
    BY <1>1 DEF Layout, LayoutType
  <2> QED BY <2>1 DEF Shard, StreamType, Rot
<1>5. LengthsFit(<<>>)
  BY DEF LengthsFit
<1>6. /\ ParityOver(data) \in ParityType(Blocks)
      /\ ParityOver(Blob(text)) \in ParityType(TextType)
      /\ ParityOver(Blob(text)).over \in {Blob(text), <<>>}
      /\ Unprotected \in ParityType(Blocks)
      /\ Unprotected \in ParityType(TextType)
      /\ Unprotected.over = <<>>
  BY <1>2, ParityOverType, UnprotectedType
<1>7. Container(text, data, embeds) \in FileType
  BY <1>2, <1>4, <1>6 DEF Container, FileType
<1>8. LengthsFit(Container(text, data, embeds).meta.over)
  BY <1>3, <1>5, <1>6 DEF Container
<1> QED BY <1>2, <1>3, <1>4, <1>7, <1>8 DEF Container, Shard, FileInv

\* Taking an element out of a sequence.
LEMMA WithoutType ==
  ASSUME NEW S, NEW s \in Seq(S), NEW i \in DOMAIN s
  PROVE  /\ Without(s, i) \in Seq(S)
         /\ Len(Without(s, i)) = Len(s) - 1
         /\ \A j \in 1..(Len(s) - 1) :
              Without(s, i)[j] = s[IF j < i THEN j ELSE j + 1]
<1>1. /\ Len(s) \in Nat /\ i \in 1..Len(s)
      /\ \A j \in 1..Len(s) : s[j] \in S
  BY LenProperties, ElementOfSeq
<1> DEFINE front == SubSeq(s, 1, i - 1)
           back  == SubSeq(s, i + 1, Len(s))
<1>2. /\ front \in Seq(S) /\ Len(front) = i - 1
      /\ \A j \in 1..(i - 1) : front[j] = s[j]
  <2>1. 1 \in Int /\ i - 1 \in Int /\ \A j \in 1..(i - 1) : s[j] \in S
    BY <1>1
  <2> QED BY <1>1, <2>1, SubSeqProperties, Z3
<1>3. /\ back \in Seq(S) /\ Len(back) = Len(s) - i
      /\ \A j \in 1..(Len(s) - i) : back[j] = s[i + j]
  <2>1. i + 1 \in Int /\ Len(s) \in Int /\ \A j \in (i + 1)..Len(s) : s[j] \in S
    BY <1>1
  <2> QED BY <1>1, <2>1, SubSeqProperties, Z3
<1>4. Without(s, i) = front \o back
  BY DEF Without
<1>5. /\ front \o back \in Seq(S)
      /\ Len(front \o back) = Len(front) + Len(back)
      /\ \A j \in 1..(Len(front) + Len(back)) :
           (front \o back)[j] = IF j <= Len(front) THEN front[j] ELSE back[j - Len(front)]
  <2> HIDE DEF front, back
  <2> QED BY <1>2, <1>3, ConcatProperties
<1> HIDE DEF front, back
<1>6. Len(front) + Len(back) = Len(s) - 1
  BY <1>1, <1>2, <1>3
<1>7. ASSUME NEW j \in 1..(Len(s) - 1)
      PROVE  Without(s, i)[j] = s[IF j < i THEN j ELSE j + 1]
  <2>1. CASE j < i
    BY <1>1, <1>2, <1>4, <1>5, <1>6, <2>1
  <2>2. CASE ~(j < i)
    <3>1. j - Len(front) \in 1..(Len(s) - i) /\ i + (j - Len(front)) = j + 1
      BY <1>1, <1>2, <2>2
    <3>2. back[j - Len(front)] = s[j + 1]
      BY <1>3, <3>1
    <3>3. j \in 1..(Len(front) + Len(back)) /\ ~(j <= Len(front))
      BY <1>1, <1>2, <1>6, <2>2
    <3>4. (front \o back)[j] = back[j - Len(front)]
      BY <1>5, <3>3
    <3> QED BY <1>4, <2>2, <3>2, <3>4
  <2> QED BY <2>1, <2>2
<1> QED BY <1>4, <1>5, <1>6, <1>7

-----------------------------------------------------------------------------
(* The type invariant.                                                     *)

\* What open_vault finds is a text with as many blocks as the data section.
LEMMA OpenedTextType ==
  ASSUME TypeInv, Opens
  PROVE  OpenedText \in TextType /\ Len(OpenedText.blocks) = Len(file.data)
<1> DEFINE embedded == Reconstructed(file.manifest, file.meta)
           outside  == Reconstructed(file.manifest, sidecar["beside"].manifest)
<1>1. /\ file.manifest \in StreamType(TextType)
      /\ file.meta \in ParityType(TextType)
      /\ sidecar["beside"].manifest \in ParityType(TextType)
      /\ file.data \in StreamType(Blocks)
  BY PlaceAssumption DEF TypeInv, FileInv, FileType, SidecarInv, SidecarType
<1>2. /\ 1 \in DOMAIN file.manifest
      /\ \A i \in DOMAIN file.manifest :
           Len(file.manifest[i].content.blocks) = Len(file.data)
      /\ LengthsFit(file.manifest)
  BY <1>1, ShardAssumption DEF TypeInv, FileInv, StreamType
<1>3. LengthsFit(embedded) /\ LengthsFit(outside)
  <2>1. /\ LengthsFit(file.meta.over)
        /\ LengthsFit(sidecar["beside"].manifest.over)
    BY PlaceAssumption DEF TypeInv, FileInv, SidecarInv
  <2> QED BY <1>1, <1>2, <2>1, ReconstructedType, ZenonT(30)
<1>4. ASSUME NEW blob \in {file.manifest, embedded, outside}
      PROVE  blob[1].content \in TextType /\ Len(blob[1].content.blocks) = Len(file.data)
  <2>1. /\ blob \in StreamType(TextType)
        /\ DOMAIN blob = DOMAIN file.manifest
        /\ blob[1].length = file.manifest[1].length
        /\ LengthsFit(blob)
    <3>1. CASE blob = file.manifest
      BY <1>1, <1>2, <3>1
    <3>2. CASE blob = embedded
      BY <1>1, <1>2, <1>3, <3>2, ReconstructedType
    <3>3. CASE blob = outside
      BY <1>1, <1>2, <1>3, <3>3, ReconstructedType
    <3> QED BY <3>1, <3>2, <3>3
  <2>2. blob[1].content \in TextType
    <3>1. blob[1] \in [content : TextType, length : Nat, rot : Rot]
      BY <1>2, <2>1, LenProperties, ElementOfSeq DEF StreamType
    <3> QED BY <3>1
  <2> QED BY <1>2, <2>1, <2>2 DEF LengthsFit
<1> QED BY <1>4 DEF OpenedText, RebuiltManifest

\* The invariant says what TypeOK says.
LEMMA TypeInvImpliesTypeOK == TypeInv => TypeOK
BY DEF TypeInv, TypeOK, FileInv, FileType, Blocks, SidecarType

\* The initial containers.
LEMMA InitType == Init => TypeInv
<1> SUFFICES ASSUME Init PROVE TypeInv
  OBVIOUS
<1> DEFINE text == [seal |-> 0, edit |-> 0, blocks |-> <<>>]
<1>1. PICK embeds \in BOOLEAN, detached \in BOOLEAN :
        /\ file = Container(text, <<>>, embeds)
        /\ sidecar = [p \in Place |->
             [NoSidecar EXCEPT !.present = detached /\ p = "beside"]]
        /\ edit = 0 /\ seal = 0 /\ rotted = 0 /\ result = "none"
  BY DEF Init
<1>2. FileInv(file)
  <2>1. text \in TextType /\ <<>> \in StreamType(Blocks) /\ Len(text.blocks) = Len(<<>>)
    BY BoundAssumption DEF TextType, StreamType
  <2> HIDE DEF text
  <2> QED BY <1>1, <2>1, ContainerType
<1>3. ASSUME NEW p \in Place
      PROVE  sidecar[p] \in SidecarType /\ LengthsFit(sidecar[p].manifest.over)
  <2>1. sidecar[p] = [NoSidecar EXCEPT !.present = detached /\ p = "beside"]
    BY <1>1
  <2>2. (detached /\ p = "beside") \in BOOLEAN
    OBVIOUS
  <2>3. /\ sidecar[p].header = Unprotected /\ sidecar[p].manifest = Unprotected
        /\ sidecar[p].data = Unprotected
        /\ sidecar[p] \in SidecarType
    BY <2>1, <2>2, UnprotectedType DEF NoSidecar, Sidecar, SidecarType, Blocks
  <2> QED BY <2>3, UnprotectedType DEF LengthsFit
<1>4. sidecar \in [Place -> SidecarType]
  BY <1>1, <1>3
<1> QED BY <1>1, <1>2, <1>3, <1>4, BoundAssumption DEF TypeInv, SidecarInv, Outcome

\* Sealing a text over as many blocks.
LEMMA SaveType ==
  ASSUME TypeInv, NEW text \in TextType, NEW data \in StreamType(Blocks),
         NEW embeds \in BOOLEAN, Len(text.blocks) = Len(data), Save(text, data, embeds)
  PROVE  FileInv(file') /\ seal' \in Nat
BY ContainerType DEF Save, TypeInv

\* An edit of the blocks.
LEMMA EditType ==
  ASSUME TypeInv, NEW blocks \in Seq(Blocks), NEW data \in StreamType(Blocks),
         Len(blocks) = Len(data), Edit(blocks, data)
  PROVE  TypeInv'
<1>1. edit + 1 \in 0..MaxEdit
  BY BoundAssumption DEF TypeInv, Edit
<1>2. Text(edit + 1, blocks) \in TextType /\ Text(edit + 1, blocks).blocks = blocks
  BY <1>1 DEF Text, TextType, TypeInv, Blocks
<1>3. file.embeds \in BOOLEAN
  BY DEF TypeInv, FileInv, FileType
<1>4. FileInv(file') /\ seal' \in Nat
  BY <1>2, <1>3, SaveType DEF Edit
<1> QED BY <1>1, <1>4 DEF TypeInv, Edit, Outcome

\* Every command and every decay keeps the types.
LEMMA NextType == TypeInv /\ [Next]_vars => TypeInv'
<1> SUFFICES ASSUME TypeInv, [Next]_vars PROVE TypeInv'
  OBVIOUS
<1> USE DEF Outcome
<1>0. /\ file \in FileType
      /\ Len(file.header) = 1
      /\ file.data \in Seq([content : Blocks, length : Nat, rot : Rot])
      /\ Len(file.data) \in Nat
      /\ DOMAIN file.data = 1..Len(file.data)
      /\ DOMAIN file.manifest = 1..MetadataShards
      /\ 1 \in DOMAIN file.header
      /\ MetadataShards \in Nat
  BY ShardAssumption DEF TypeInv, FileInv, FileType, StreamType
<1>1. CASE Add
  <2>1. OpenedText \in TextType /\ Len(OpenedText.blocks) = Len(file.data)
    BY <1>1, OpenedTextType DEF Add, Edit
  <2>2. edit + 1 \in Blocks
    BY <1>1, BoundAssumption DEF Add, Edit, TypeInv, Blocks
  <2>3. /\ Append(OpenedText.blocks, edit + 1) \in Seq(Blocks)
        /\ Len(Append(OpenedText.blocks, edit + 1)) = Len(file.data) + 1
    BY <2>1, <2>2 DEF TextType, Blocks
  <2>4. Shard(edit + 1, 1) \in [content : Blocks, length : Nat, rot : Rot]
    BY <2>2 DEF Shard, Rot
  <2>5. /\ Append(file.data, Shard(edit + 1, 1)) \in StreamType(Blocks)
        /\ Len(Append(file.data, Shard(edit + 1, 1))) = Len(file.data) + 1
    BY <1>0, <2>4 DEF StreamType
  <2> QED BY <1>1, <2>3, <2>5, EditType DEF Add
<1>2. ASSUME NEW i \in DOMAIN file.data, Remove(i)
      PROVE  TypeInv'
  <2>1. OpenedText \in TextType /\ Len(OpenedText.blocks) = Len(file.data)
    BY <1>2, OpenedTextType DEF Remove, Edit
  <2>2. OpenedText.blocks \in Seq(Blocks) /\ i \in DOMAIN OpenedText.blocks
    BY <1>0, <2>1 DEF TextType, Blocks
  <2>3. /\ Without(OpenedText.blocks, i) \in Seq(Blocks)
        /\ Len(Without(OpenedText.blocks, i)) = Len(file.data) - 1
    BY <2>1, <2>2, WithoutType
  <2>4. /\ Without(file.data, i) \in StreamType(Blocks)
        /\ Len(Without(file.data, i)) = Len(file.data) - 1
    BY <1>0, WithoutType DEF StreamType
  <2> QED BY <1>2, <2>3, <2>4, EditType DEF Remove
<1>3. CASE Rename
  <2>1. OpenedText \in TextType /\ Len(OpenedText.blocks) = Len(file.data)
    BY <1>3, OpenedTextType DEF Rename, Edit
  <2>2. OpenedText.blocks \in Seq(Blocks) /\ file.data \in StreamType(Blocks)
    BY <1>0, <2>1 DEF TextType, Blocks, FileType
  <2> QED BY <1>3, <2>1, <2>2, EditType DEF Rename
<1>4. ASSUME NEW p \in Place, ExportParity(p)
      PROVE  TypeInv'
  <2> DEFINE s == Sidecar(ParityOver(Restored(file.header)), ParityOver(file.manifest),
                          ParityOver(file.data))
  <2>1. Restored(file.header) \in StreamType(LayoutType)
    <3> DEFINE R == [content : LayoutType, length : Nat, rot : Rot]
    <3>1. file.header \in Seq(R)
      BY <1>0 DEF FileType, StreamType
    <3>2. DOMAIN file.header = 1..1 /\ file.header[1] \in R
      <4> HIDE DEF R
      <4> QED BY <1>0, <3>1, LenProperties, ElementOfSeq
    <3>3. [file.header[1] EXCEPT !.rot = "none"] \in R
      BY <3>2 DEF Rot
    <3>4. Restored(file.header) = [i \in 1..1 |-> [file.header[i] EXCEPT !.rot = "none"]]
      BY <3>2 DEF Restored
    <3> HIDE DEF R
    <3>5. Restored(file.header) \in [1..1 -> R]
      BY <3>3, <3>4
    <3>6. Restored(file.header) \in Seq(R)
      BY <3>5, SeqDef
    <3> QED BY <3>6 DEF StreamType, R
  <2>2. /\ ParityOver(Restored(file.header)) \in ParityType(LayoutType)
        /\ ParityOver(file.manifest) \in ParityType(TextType)
        /\ ParityOver(file.data) \in ParityType(Blocks)
        /\ ParityOver(file.manifest).over \in {file.manifest, <<>>}
    BY <1>0, <2>1, ParityOverType DEF FileType
  <2>3. LengthsFit(ParityOver(file.manifest).over)
    BY <2>2 DEF TypeInv, FileInv, LengthsFit
  <2>4. SidecarInv(s)
    BY <2>2, <2>3 DEF SidecarInv, SidecarType, Sidecar, Blocks
  <2>5. sidecar' = [sidecar EXCEPT ![p] = s]
    BY <1>4 DEF ExportParity
  <2> HIDE DEF s
  <2> QED BY <1>4, <2>4, <2>5 DEF ExportParity, TypeInv, SidecarInv
<1>5. ASSUME NEW force \in BOOLEAN, StripParity(force)
      PROVE  TypeInv'
  <2>1. OpenedText \in TextType /\ Len(OpenedText.blocks) = Len(file.data)
    BY <1>5, OpenedTextType DEF StripParity
  <2>2. /\ Text(OpenedText.edit, OpenedText.blocks) \in TextType
        /\ Text(OpenedText.edit, OpenedText.blocks).blocks = OpenedText.blocks
    BY <2>1 DEF Text, TextType, TypeInv
  <2>3. file.data \in StreamType(Blocks)
    BY <1>0 DEF FileType
  <2>4. FileInv(file') /\ seal' \in Nat
    BY <1>5, <2>1, <2>2, <2>3, SaveType DEF StripParity
  <2> QED BY <1>5, <2>4 DEF StripParity, TypeInv
<1>6. ASSUME NEW p \in Place, Repair(p)
      PROVE  TypeInv'
  <2> DEFINE text == Text(OpenedText.edit, OpenedText.blocks)
             parity == DataParity(p # "beside", p)
             data == Reconstructed(file.data, parity)
  <2>1. OpenedText \in TextType /\ Len(OpenedText.blocks) = Len(file.data)
    BY <1>6, OpenedTextType DEF Repair
  <2>2. text \in TextType /\ text.blocks = OpenedText.blocks
    BY <2>1 DEF Text, TextType, TypeInv
  <2>3. parity \in ParityType(Blocks)
    BY <1>0 DEF DataParity, TypeInv, FileType, SidecarType, Blocks
  <2>4. file.data \in StreamType(Blocks) /\ file.embeds \in BOOLEAN
    BY <1>0 DEF FileType
  <2>5. data \in StreamType(Blocks) /\ Len(data) = Len(file.data)
    BY <2>3, <2>4, ReconstructedType
  <2>6. ASSUME NEW stream \in {file.data, data}, Heal(text, stream)
        PROVE  FileInv(file') /\ seal' \in Nat /\ result' \in Outcome
    <3>1. stream \in StreamType(Blocks) /\ Len(text.blocks) = Len(stream)
      BY <2>1, <2>2, <2>4, <2>5
    <3> HIDE DEF text, data
    <3> QED BY <2>2, <2>4, <2>6, <3>1, SaveType DEF Heal, TypeInv
  <2>7. ASSUME NEW outcome \in Outcome, Leave(outcome)
        PROVE  FileInv(file') /\ seal' \in Nat /\ result' \in Outcome
    BY <2>7 DEF Leave, TypeInv
  <2>8. \/ Leave("nothing") \/ Leave("failed")
        \/ Heal(text, file.data) \/ Heal(text, data)
    BY <1>6 DEF Repair
  <2>9. FileInv(file') /\ seal' \in Nat /\ result' \in Outcome
    BY <2>6, <2>7, <2>8
  <2> QED BY <1>6, <2>9 DEF Repair, TypeInv
<1>7. ASSUME Decay, UNCHANGED sidecar, FileInv(file')
      PROVE  TypeInv'
  BY <1>7, BoundAssumption DEF Decay, TypeInv
<1>8. ASSUME NEW kind \in Rot, RotHeader(kind)
      PROVE  TypeInv'
  <2> DEFINE worse == [file.header EXCEPT ![1].rot = kind]
  <2>1. worse \in StreamType(LayoutType) /\ Len(worse) = Len(file.header)
    BY <1>0, RottenType DEF FileType
  <2>2. file' = [file EXCEPT !.header = worse]
    BY <1>8 DEF RotHeader
  <2> HIDE DEF worse
  <2>3. FileInv(file')
    BY <1>0, <2>1, <2>2 DEF TypeInv, FileInv, FileType
  <2> QED BY <1>7, <1>8, <2>3 DEF RotHeader
<1>9. ASSUME NEW i \in 1..MetadataShards, RotManifest(i)
      PROVE  TypeInv'
  <2> DEFINE worse == [file.manifest EXCEPT ![i].rot = "body"]
  <2>1. /\ worse \in StreamType(TextType) /\ Len(worse) = Len(file.manifest)
        /\ DOMAIN worse = DOMAIN file.manifest
        /\ \A j \in DOMAIN file.manifest :
             /\ worse[j].content = file.manifest[j].content
             /\ worse[j].length = file.manifest[j].length
    <3>1. "body" \in Rot /\ file.manifest \in StreamType(TextType)
      BY <1>0 DEF FileType, Rot
    <3> QED BY <1>0, <3>1, RottenType
  <2>2. file' = [file EXCEPT !.manifest = worse]
    BY <1>9 DEF RotManifest
  <2> HIDE DEF worse
  <2>3. FileInv(file')
    BY <1>0, <2>1, <2>2, SMTT(30) DEF TypeInv, FileInv, FileType, LengthsFit
  <2> QED BY <1>7, <1>9, <2>3 DEF RotManifest
<1>10. ASSUME NEW i \in DOMAIN file.data, RotBlock(i)
       PROVE  TypeInv'
  <2> DEFINE worse == [file.data EXCEPT ![i].rot = "body"]
  <2>1. worse \in StreamType(Blocks) /\ Len(worse) = Len(file.data)
    <3>1. "body" \in Rot /\ file.data \in StreamType(Blocks)
      BY <1>0 DEF FileType, Rot
    <3> QED BY <1>10, <3>1, RottenType
  <2>2. file' = [file EXCEPT !.data = worse]
    BY <1>10 DEF RotBlock
  <2> HIDE DEF worse
  <2>3. FileInv(file')
    BY <1>0, <2>1, <2>2 DEF TypeInv, FileInv, FileType
  <2> QED BY <1>7, <1>10, <2>3 DEF RotBlock
<1>11. CASE RotEmbeddedParity
  <2>1. FileInv(file')
    <3>1. ASSUME NEW d \in Decayed(file.parity), file' = [file EXCEPT !.parity = d]
          PROVE  FileInv(file')
      <4>1. d \in ParityType(Blocks)
        BY <1>0, DecayedType DEF FileType
      <4> QED BY <1>0, <3>1, <4>1 DEF TypeInv, FileInv, FileType
    <3>2. ASSUME NEW d \in Decayed(file.meta), file' = [file EXCEPT !.meta = d]
          PROVE  FileInv(file')
      <4>1. d \in ParityType(TextType) /\ d.over = file.meta.over
        BY <1>0, DecayedType DEF FileType
      <4> QED BY <1>0, <3>2, <4>1 DEF TypeInv, FileInv, FileType
    <3> QED BY <1>11, <3>1, <3>2 DEF RotEmbeddedParity
  <2> QED BY <1>7, <1>11, <2>1 DEF RotEmbeddedParity
<1>12. ASSUME NEW p \in Place, RotSidecar(p)
       PROVE  TypeInv'
  <2>1. SidecarInv(sidecar[p])
    BY DEF TypeInv
  <2>2. PICK s : SidecarInv(s) /\ sidecar' = [sidecar EXCEPT ![p] = s]
    <3>1. ASSUME NEW d \in Decayed(sidecar[p].header),
                 sidecar' = [sidecar EXCEPT ![p].header = d]
          PROVE  \E s : SidecarInv(s) /\ sidecar' = [sidecar EXCEPT ![p] = s]
      <4>1. d \in ParityType(LayoutType)
        BY <2>1, DecayedType DEF SidecarInv, SidecarType
      <4>2. SidecarInv([sidecar[p] EXCEPT !.header = d])
        BY <2>1, <4>1 DEF SidecarInv, SidecarType
      <4> QED BY <3>1, <4>2, Zenon
    <3>2. ASSUME NEW d \in Decayed(sidecar[p].manifest),
                 sidecar' = [sidecar EXCEPT ![p].manifest = d]
          PROVE  \E s : SidecarInv(s) /\ sidecar' = [sidecar EXCEPT ![p] = s]
      <4>1. d \in ParityType(TextType) /\ d.over = sidecar[p].manifest.over
        BY <2>1, DecayedType DEF SidecarInv, SidecarType
      <4>2. SidecarInv([sidecar[p] EXCEPT !.manifest = d])
        BY <2>1, <4>1 DEF SidecarInv, SidecarType
      <4> QED BY <3>2, <4>2, Zenon
    <3>3. ASSUME NEW d \in Decayed(sidecar[p].data),
                 sidecar' = [sidecar EXCEPT ![p].data = d]
          PROVE  \E s : SidecarInv(s) /\ sidecar' = [sidecar EXCEPT ![p] = s]
      <4>1. d \in ParityType(Blocks)
        BY <2>1, DecayedType DEF SidecarInv, SidecarType, Blocks
      <4>2. SidecarInv([sidecar[p] EXCEPT !.data = d])
        BY <2>1, <4>1 DEF SidecarInv, SidecarType, Blocks
      <4> QED BY <3>3, <4>2, Zenon
    <3> QED BY <1>12, <3>1, <3>2, <3>3 DEF RotSidecar
  <2> QED BY <1>12, <2>2, BoundAssumption DEF RotSidecar, Decay, TypeInv, SidecarInv
<1>13. CASE UNCHANGED vars
  BY <1>13 DEF vars, TypeInv
<1> QED BY <1>1, <1>2, <1>3, <1>4, <1>5, <1>6, <1>8, <1>9, <1>10, <1>11, <1>12, <1>13
        DEF Next

\* Every variable of the recovery model keeps its type, and the data section has
\* as many blocks as the manifest that was sealed with it lists.
THEOREM TypeCorrect == Spec => []TypeOK
<1>1. Spec => []TypeInv
  BY InitType, NextType, PTL DEF Spec
<1> QED BY <1>1, TypeInvImpliesTypeOK, PTL

-----------------------------------------------------------------------------
(* Repairs that report blocks are whole.                                   *)

\* What a save puts on the disk is sound when the blocks are those of the text.
LEMMA ContainerSound ==
  ASSUME NEW text, NEW data, NEW embeds, Damaged(text, data) = {}
  PROVE  LET f == Container(text, data, embeds)
         IN  /\ Sound(f)
             /\ f.embeds => f.parity = ParityOver(f.data) /\ f.meta = ParityOver(f.manifest)
<1> DEFINE f == Container(text, data, embeds)
<1>1. /\ f.header = <<Shard(Layout(text.blocks, embeds), 1)>>
      /\ f.manifest = Blob(text) /\ f.data = data /\ f.embeds = embeds
      /\ f.parity = IF embeds THEN ParityOver(data) ELSE Unprotected
      /\ f.meta = IF embeds THEN ParityOver(Blob(text)) ELSE Unprotected
  BY DEF Container
<1>2. Rotten(f.header) = {}
  BY <1>1 DEF Rotten, Shard
<1>3. 1 \in DOMAIN Blob(text) /\ \A i \in DOMAIN Blob(text) : Blob(text)[i] = Shard(text, Len(text.blocks))
  BY ShardAssumption DEF Blob
<1>4. Decodes(f.manifest) /\ f.manifest[1].content = text
  BY <1>1, <1>3 DEF Decodes, Shard
<1> HIDE DEF f
<1>5. Sound(f)
  BY <1>1, <1>2, <1>4 DEF Sound
<1> QED BY <1>1, <1>5 DEF f

\* Only Repair reports "repaired", and then it has sealed what it had verified.
LEMMA NextRepaired == RepairedIsWhole /\ [Next]_vars => RepairedIsWhole'
<1> SUFFICES ASSUME RepairedIsWhole, [Next]_vars, result' = "repaired"
             PROVE  /\ Sound(file')
                    /\ file'.embeds => /\ file'.parity = ParityOver(file'.data)
                                       /\ file'.meta = ParityOver(file'.manifest)
  BY DEF RepairedIsWhole, Sound
<1>1. ASSUME NEW p \in Place, Repair(p)
      PROVE  \E text, data : Damaged(text, data) = {} /\ Save(text, data, file.embeds)
  <2> DEFINE text == Text(OpenedText.edit, OpenedText.blocks)
             data == Reconstructed(file.data, DataParity(p # "beside", p))
  <2>1. \/ Damaged(text, file.data) = {} /\ Heal(text, file.data)
        \/ AllVerified(text, data, file.data) /\ Heal(text, data)
    <3> HIDE DEF data
    <3> QED BY <1>1 DEF Repair, Leave, data
  <2>2. \/ Damaged(text, file.data) = {} /\ Save(text, file.data, file.embeds)
        \/ Damaged(text, data) = {} /\ Save(text, data, file.embeds)
    BY <2>1 DEF Heal, AllVerified
  <2> QED BY <2>2, Zenon
<1>2. ASSUME NEW p \in Place, Repair(p)
      PROVE  /\ Sound(file')
             /\ file'.embeds => /\ file'.parity = ParityOver(file'.data)
                                /\ file'.meta = ParityOver(file'.manifest)
  <2>1. PICK text, data : Damaged(text, data) = {} /\ Save(text, data, file.embeds)
    BY <1>1, <1>2
  <2> QED BY <2>1, ContainerSound DEF Save
<1>3. CASE UNCHANGED vars
  BY <1>3 DEF vars, RepairedIsWhole
<1>4. \/ \E p \in Place : Repair(p)
      \/ UNCHANGED vars
  BY DEF Next, Add, Remove, Rename, Edit, ExportParity, StripParity, RotHeader,
         RotManifest, RotBlock, RotEmbeddedParity, RotSidecar, Decay
<1> QED BY <1>2, <1>3, <1>4

\* Whatever parity a repair has used, stale or rotten, a container it reports as
\* repaired has no damage left and embedded parity over what it holds.
THEOREM RepairedAlwaysWhole == Spec => []RepairedIsWhole
<1>1. Init => RepairedIsWhole
  BY DEF Init, RepairedIsWhole
<1> QED BY <1>1, NextRepaired, PTL DEF Spec

-----------------------------------------------------------------------------
(* Parity of an earlier seal.                                              *)

\* All shards of a manifest are of one seal, rotten or not.
OneSeal(stream) == \A i \in DOMAIN stream : stream[i].content = stream[1].content

FileCurrent(f, n) ==
  /\ OneSeal(f.manifest)
  /\ OneSeal(f.meta.over)
  /\ f.manifest[1].content.edit = n
  /\ \A i \in DOMAIN f.data :
       /\ f.data[i].content = f.manifest[1].content.blocks[i]
       /\ f.data[i].length = 1

CurrentInv ==
  /\ FileCurrent(file, edit)
  /\ \A p \in Place : OneSeal(sidecar[p].manifest.over)

\* Parity of another seal differs from a manifest in every shard, which is more
\* than it can restore.
LEMMA SameSealRestored ==
  ASSUME Spare < MetadataShards, TypeInv, CurrentInv,
         NEW q \in ParityType(TextType), OneSeal(q.over)
  PROVE  Reconstructed(file.manifest, q)[1].content = file.manifest[1].content
<1>1. /\ DOMAIN file.manifest = 1..MetadataShards /\ MetadataShards \in Nat \ {0}
      /\ q.intact \in 0..Spare /\ Spare \in Nat
      /\ OneSeal(file.manifest)
  BY ShardAssumption DEF TypeInv, FileInv, FileType, StreamType, ParityType, CurrentInv, FileCurrent
<1>2. CASE Reconstructed(file.manifest, q) = file.manifest
  BY <1>2
<1>3. CASE /\ Reconstructed(file.manifest, q) = q.over
           /\ Enough(file.manifest, q)
           /\ SameLength(file.manifest, q.over)
  <2>1. PICK i \in 1..MetadataShards : file.manifest[i] = q.over[i]
    <3> SUFFICES ASSUME \A i \in 1..MetadataShards : file.manifest[i] # q.over[i]
                 PROVE  FALSE
      OBVIOUS
    <3>1. Erasures(file.manifest, q) = 1..MetadataShards
      BY <1>1 DEF Erasures
    <3>2. Cardinality(1..MetadataShards) = MetadataShards
      BY <1>1, FS_Interval
    <3> QED BY <1>1, <1>3, <3>1, <3>2 DEF Enough
  <2>2. i \in DOMAIN q.over
    BY <1>1, <1>3 DEF SameLength
  <2> QED BY <1>1, <1>3, <2>1, <2>2 DEF OneSeal
<1> QED BY <1>2, <1>3 DEF Reconstructed, Rejects

\* So a container opens with the manifest that was sealed last.
LEMMA OpensCurrent ==
  ASSUME Spare < MetadataShards, TypeInv, CurrentInv
  PROVE  OpenedText = file.manifest[1].content
<1>1. /\ file.meta \in ParityType(TextType) /\ OneSeal(file.meta.over)
      /\ sidecar["beside"].manifest \in ParityType(TextType)
      /\ OneSeal(sidecar["beside"].manifest.over)
  BY PlaceAssumption
  DEF TypeInv, FileInv, FileType, SidecarInv, SidecarType, CurrentInv, FileCurrent
<1> QED BY <1>1, SameSealRestored DEF OpenedText, RebuiltManifest

\* What a command finds in the container that it opens.
LEMMA OpenedFacts ==
  ASSUME Spare < MetadataShards, TypeInv, CurrentInv
  PROVE  LET last == file.manifest[1].content
         IN  /\ OpenedText = last
             /\ last.edit = edit
             /\ last.blocks \in Seq(Blocks)
             /\ Len(last.blocks) = Len(file.data)
             /\ file \in FileType
             /\ file.data \in Seq([content : Blocks, length : Nat, rot : Rot])
             /\ Len(file.data) \in Nat
             /\ DOMAIN file.data = 1..Len(file.data)
             /\ DOMAIN file.manifest = 1..MetadataShards
             /\ 1 \in DOMAIN file.manifest
             /\ file.embeds \in BOOLEAN
             /\ \A i \in DOMAIN file.data :
                  file.data[i].content = last.blocks[i] /\ file.data[i].length = 1
<1> DEFINE last == file.manifest[1].content
<1>1. /\ file \in FileType
      /\ file.manifest \in Seq([content : TextType, length : Nat, rot : Rot])
      /\ Len(file.manifest) = MetadataShards
      /\ file.data \in Seq([content : Blocks, length : Nat, rot : Rot])
      /\ file.embeds \in BOOLEAN
  BY DEF TypeInv, FileInv, FileType, StreamType
<1>2. /\ DOMAIN file.manifest = 1..MetadataShards /\ 1 \in DOMAIN file.manifest
      /\ file.manifest[1] \in [content : TextType, length : Nat, rot : Rot]
  <2>1. 1 \in 1..Len(file.manifest)
    BY <1>1, ShardAssumption
  <2> QED BY <1>1, <2>1, ElementOfSeq, LenProperties
<1>3. last \in TextType /\ Len(last.blocks) = Len(file.data)
  BY <1>2 DEF TypeInv, FileInv
<1> QED BY <1>1, <1>2, <1>3, OpensCurrent DEF CurrentInv, FileCurrent, TextType, Blocks

\* A repair leaves the container, seals it again with the blocks as they are, or
\* with blocks that are all those of the manifest.
LEMMA RepairOutcomes ==
  ASSUME Spare < MetadataShards, TypeInv, CurrentInv, NEW p \in Place, Repair(p)
  PROVE  LET last == file.manifest[1].content
             text == Text(last.edit, last.blocks)
             data == Reconstructed(file.data, DataParity(p # "beside", p))
         IN  /\ UNCHANGED <<edit, sidecar>>
             /\ text.edit = edit /\ text.blocks = last.blocks
             /\ DOMAIN data = DOMAIN file.data
             /\ \/ UNCHANGED file
                \/ /\ result' = "repaired"
                   /\ Save(text, file.data, file.embeds)
                \/ /\ result' = "repaired"
                   /\ \A i \in DOMAIN data : data[i] = Shard(last.blocks[i], 1)
                   /\ Save(text, data, file.embeds)
<1> DEFINE last == file.manifest[1].content
           text == Text(last.edit, last.blocks)
           data == Reconstructed(file.data, DataParity(p # "beside", p))
<1>1. text.edit = edit /\ text.blocks = last.blocks /\ OpenedText = last
  BY OpenedFacts DEF Text
<1>2. DOMAIN data = DOMAIN file.data
  <2>1. /\ file.data \in StreamType(Blocks)
        /\ file.parity \in ParityType(Blocks)
        /\ sidecar[p].data \in ParityType(Blocks)
    BY DEF TypeInv, FileInv, FileType, SidecarInv, SidecarType, Blocks
  <2> QED BY <2>1, ReconstructedType DEF DataParity
<1> HIDE DEF last
<1>3. /\ UNCHANGED <<edit, sidecar>>
      /\ \/ UNCHANGED file
         \/ result' = "repaired" /\ Save(text, file.data, file.embeds)
         \/ /\ result' = "repaired"
            /\ Damaged(text, data) = {}
            /\ Save(text, data, file.embeds)
  <2> HIDE DEF data
  <2> QED BY <1>1 DEF Repair, Leave, Heal, AllVerified, data
<1>4. Damaged(text, data) = {} => \A i \in DOMAIN data : data[i] = Shard(last.blocks[i], 1)
  <2> HIDE DEF data, text
  <2> QED BY <1>1 DEF Damaged
<1> QED BY <1>1, <1>2, <1>3, <1>4 DEF last

\* A save of blocks under a text that lists them.
LEMMA SaveCurrent ==
  ASSUME NEW text, NEW data, NEW embeds \in BOOLEAN,
         \A i \in DOMAIN data : data[i].content = text.blocks[i] /\ data[i].length = 1
  PROVE  FileCurrent(Container(text, data, embeds), text.edit)
<1>1. /\ 1 \in DOMAIN Blob(text)
      /\ \A i \in DOMAIN Blob(text) : Blob(text)[i].content = text
  BY ShardAssumption DEF Blob, Shard
<1>2. OneSeal(Blob(text))
  BY <1>1 DEF OneSeal
<1>3. OneSeal(ParityOver(Blob(text)).over) /\ OneSeal(Unprotected.over)
  BY <1>2 DEF OneSeal, ParityOver, Unprotected
<1> QED BY <1>1, <1>2, <1>3 DEF FileCurrent, Container

\* Every step keeps the manifest of the last edit, and parity of single seals.
LEMMA NextCurrent ==
  ASSUME Spare < MetadataShards
  PROVE  TypeInv /\ CurrentInv /\ [Next]_vars => CurrentInv'
<1> SUFFICES ASSUME TypeInv, CurrentInv, [Next]_vars PROVE CurrentInv'
  OBVIOUS
<1> DEFINE last == file.manifest[1].content
<1>0. /\ OpenedText = last
      /\ last.edit = edit
      /\ last.blocks \in Seq(Blocks)
      /\ Len(last.blocks) = Len(file.data)
      /\ file \in FileType
      /\ file.data \in Seq([content : Blocks, length : Nat, rot : Rot])
      /\ Len(file.data) \in Nat
      /\ DOMAIN file.data = 1..Len(file.data)
      /\ DOMAIN file.manifest = 1..MetadataShards
      /\ 1 \in DOMAIN file.manifest
      /\ file.embeds \in BOOLEAN
      /\ \A i \in DOMAIN file.data :
           file.data[i].content = last.blocks[i] /\ file.data[i].length = 1
  BY OpenedFacts
<1> HIDE DEF last
<1>1. ASSUME NEW blocks, NEW data, Edit(blocks, data),
             \A i \in DOMAIN data : data[i].content = blocks[i] /\ data[i].length = 1
      PROVE  CurrentInv'
  <2> DEFINE text == Text(edit + 1, blocks)
  <2>1. text.blocks = blocks /\ text.edit = edit + 1
    BY DEF Text
  <2>2. file' = Container(text, data, file.embeds) /\ edit' = edit + 1 /\ sidecar' = sidecar
    BY <1>1 DEF Edit, Save
  <2> HIDE DEF text
  <2>3. FileCurrent(file', edit')
    BY <1>0, <1>1, <2>1, <2>2, SaveCurrent
  <2> QED BY <2>2, <2>3 DEF CurrentInv
<1>2. CASE Add
  <2> DEFINE blocks == Append(last.blocks, edit + 1)
             data   == Append(file.data, Shard(edit + 1, 1))
  <2>1. Edit(blocks, data)
    BY <1>0, <1>2 DEF Add
  <2>2. /\ DOMAIN data = 1..(Len(file.data) + 1)
        /\ data[Len(file.data) + 1] = Shard(edit + 1, 1)
        /\ \A i \in 1..Len(file.data) : data[i] = file.data[i]
    BY <1>0
  <2>3. /\ blocks[Len(file.data) + 1] = edit + 1
        /\ \A i \in 1..Len(file.data) : blocks[i] = last.blocks[i]
    BY <1>0
  <2>4. Shard(edit + 1, 1).content = edit + 1 /\ Shard(edit + 1, 1).length = 1
    BY DEF Shard
  <2> HIDE DEF blocks, data
  <2>5. \A i \in 1..(Len(file.data) + 1) : i \in 1..Len(file.data) \/ i = Len(file.data) + 1
    BY <1>0
  <2>6. ASSUME NEW i \in DOMAIN data
        PROVE  data[i].content = blocks[i] /\ data[i].length = 1
    <3>1. CASE i = Len(file.data) + 1
      BY <2>2, <2>3, <2>4, <3>1
    <3>2. CASE i \in 1..Len(file.data)
      BY <1>0, <2>2, <2>3, <3>2
    <3> QED BY <2>2, <2>5, <3>1, <3>2
  <2> QED BY <1>1, <2>1, <2>6
<1>3. ASSUME NEW k \in DOMAIN file.data, Remove(k)
      PROVE  CurrentInv'
  <2> DEFINE blocks == Without(last.blocks, k)
             data   == Without(file.data, k)
  <2>1. Edit(blocks, data)
    BY <1>0, <1>3 DEF Remove
  <2>2. /\ data \in Seq([content : Blocks, length : Nat, rot : Rot])
        /\ Len(data) = Len(file.data) - 1
        /\ \A j \in 1..(Len(file.data) - 1) :
             data[j] = file.data[IF j < k THEN j ELSE j + 1]
    BY <1>0, WithoutType
  <2>3. \A j \in 1..(Len(file.data) - 1) :
          blocks[j] = last.blocks[IF j < k THEN j ELSE j + 1]
    <3>1. k \in DOMAIN last.blocks
      BY <1>0
    <3> QED BY <1>0, <3>1, WithoutType, ZenonT(30)
  <2>4. DOMAIN data = 1..(Len(file.data) - 1)
    BY <2>2
  <2> HIDE DEF blocks, data
  <2>5. ASSUME NEW i \in DOMAIN data
        PROVE  data[i].content = blocks[i] /\ data[i].length = 1
    <3>1. (IF i < k THEN i ELSE i + 1) \in DOMAIN file.data
      BY <1>0, <2>4, SMTT(30)
    <3> QED BY <1>0, <2>2, <2>3, <2>4, <3>1
  <2> QED BY <1>1, <2>1, <2>5
<1>4. CASE Rename
  <2>1. Edit(last.blocks, file.data)
    BY <1>0, <1>4 DEF Rename
  <2> QED BY <1>0, <1>1, <2>1
<1>5. ASSUME NEW p \in Place, ExportParity(p)
      PROVE  CurrentInv'
  <2>1. OneSeal(ParityOver(file.manifest).over)
    BY DEF CurrentInv, FileCurrent, OneSeal, ParityOver, Unprotected
  <2> QED BY <1>5, <2>1 DEF ExportParity, Sidecar, CurrentInv, TypeInv
<1>6. ASSUME NEW text, NEW data, NEW embeds \in BOOLEAN, Save(text, data, embeds),
             text.edit = edit, UNCHANGED <<edit, sidecar>>,
             \A i \in DOMAIN data : data[i].content = text.blocks[i] /\ data[i].length = 1
      PROVE  CurrentInv'
  BY <1>6, SaveCurrent DEF Save, CurrentInv
<1>7. Text(last.edit, last.blocks).blocks = last.blocks /\ Text(last.edit, last.blocks).edit = edit
  BY <1>0 DEF Text
<1>8. ASSUME NEW force \in BOOLEAN, StripParity(force)
      PROVE  CurrentInv'
  <2>1. Save(Text(last.edit, last.blocks), file.data, FALSE) /\ UNCHANGED <<edit, sidecar>>
    BY <1>0, <1>8 DEF StripParity
  <2> DEFINE text == Text(last.edit, last.blocks)
  <2>2. text.edit = edit /\ text.blocks = last.blocks
    BY <1>7
  <2> HIDE DEF text
  <2>3. PICK embeds \in BOOLEAN : Save(text, file.data, embeds)
    BY <2>1 DEF text
  <2> QED BY <1>0, <1>6, <2>1, <2>2, <2>3, SMTT(30)
<1>9. ASSUME NEW p \in Place, Repair(p)
      PROVE  CurrentInv'
  <2> DEFINE text == Text(last.edit, last.blocks)
             data == Reconstructed(file.data, DataParity(p # "beside", p))
  <2>1. /\ UNCHANGED <<edit, sidecar>>
        /\ text.edit = edit /\ text.blocks = last.blocks
        /\ \/ UNCHANGED file
           \/ Save(text, file.data, file.embeds)
           \/ /\ \A i \in DOMAIN data : data[i] = Shard(last.blocks[i], 1)
              /\ Save(text, data, file.embeds)
    BY <1>9, RepairOutcomes DEF last
  <2> HIDE DEF data, text
  <2>2. CASE UNCHANGED file
    BY <2>1, <2>2 DEF CurrentInv
  <2>3. CASE Save(text, file.data, file.embeds)
    BY <1>0, <1>6, <2>1, <2>3
  <2>4. CASE /\ \A i \in DOMAIN data : data[i] = Shard(last.blocks[i], 1)
             /\ Save(text, data, file.embeds)
    <3>1. \A i \in DOMAIN data : data[i].content = text.blocks[i] /\ data[i].length = 1
      BY <2>1, <2>4 DEF Shard
    <3> QED BY <1>0, <1>6, <2>1, <2>4, <3>1
  <2> QED BY <2>1, <2>2, <2>3, <2>4
<1>10. ASSUME NEW kind \in Rot, RotHeader(kind)
       PROVE  CurrentInv'
  <2>1. /\ file'.manifest = file.manifest /\ file'.meta = file.meta
        /\ file'.data = file.data
        /\ UNCHANGED <<edit, sidecar>>
    BY <1>0, <1>10 DEF RotHeader, Decay, FileType
  <2> QED BY <2>1 DEF CurrentInv, FileCurrent
<1>11. ASSUME NEW i \in 1..MetadataShards, RotManifest(i)
       PROVE  CurrentInv'
  <2> DEFINE worse == [file.manifest EXCEPT ![i].rot = "body"]
  <2>1. /\ DOMAIN worse = DOMAIN file.manifest
        /\ \A j \in DOMAIN file.manifest : worse[j].content = file.manifest[j].content
    <3>1. "body" \in Rot /\ file.manifest \in StreamType(TextType)
      BY <1>0 DEF FileType, Rot
    <3> QED BY <1>0, <3>1, RottenType
  <2>2. /\ file'.manifest = worse /\ file'.meta = file.meta
        /\ file'.data = file.data
        /\ UNCHANGED <<edit, sidecar>>
    BY <1>0, <1>11 DEF RotManifest, Decay, FileType
  <2> HIDE DEF worse
  <2> QED BY <1>0, <2>1, <2>2, SMTT(30) DEF CurrentInv, FileCurrent, OneSeal
<1>12. ASSUME NEW i \in DOMAIN file.data, RotBlock(i)
       PROVE  CurrentInv'
  <2> DEFINE worse == [file.data EXCEPT ![i].rot = "body"]
  <2>1. /\ DOMAIN worse = DOMAIN file.data
        /\ \A j \in DOMAIN file.data : /\ worse[j].content = file.data[j].content
                                       /\ worse[j].length = file.data[j].length
    <3>1. "body" \in Rot /\ file.data \in StreamType(Blocks)
      BY <1>0 DEF FileType, Rot
    <3> QED BY <1>12, <3>1, RottenType
  <2>2. /\ file'.manifest = file.manifest /\ file'.meta = file.meta
        /\ file'.data = worse
        /\ UNCHANGED <<edit, sidecar>>
    BY <1>0, <1>12 DEF RotBlock, Decay, FileType
  <2> HIDE DEF worse
  <2> QED BY <2>1, <2>2 DEF CurrentInv, FileCurrent
<1>13. CASE RotEmbeddedParity
  <2>1. /\ file'.manifest = file.manifest /\ file'.data = file.data
        /\ file'.meta.over = file.meta.over
        /\ UNCHANGED <<edit, sidecar>>
    <3>1. \A d \in Decayed(file.meta) : d.over = file.meta.over
      BY <1>0, DecayedType DEF FileType
    <3> QED BY <1>0, <1>13, <3>1 DEF RotEmbeddedParity, Decay, FileType
  <2> QED BY <2>1 DEF CurrentInv, FileCurrent
<1>14. ASSUME NEW p \in Place, RotSidecar(p)
       PROVE  CurrentInv'
  <2>1. /\ sidecar \in [Place -> SidecarType]
        /\ sidecar[p].manifest \in ParityType(TextType)
    BY DEF TypeInv, SidecarType
  <2>2. \A d \in Decayed(sidecar[p].manifest) : d.over = sidecar[p].manifest.over
    BY <2>1, DecayedType
  <2>3. UNCHANGED <<file, edit>>
    BY <1>14 DEF RotSidecar, Decay
  <2>4. \A r \in Place : sidecar'[r].manifest.over = sidecar[r].manifest.over
    <3>1. ASSUME NEW d, sidecar' = [sidecar EXCEPT ![p].header = d]
          PROVE  \A r \in Place : sidecar'[r].manifest.over = sidecar[r].manifest.over
      BY <2>1, <3>1 DEF SidecarType
    <3>2. ASSUME NEW d \in Decayed(sidecar[p].manifest),
                 sidecar' = [sidecar EXCEPT ![p].manifest = d]
          PROVE  \A r \in Place : sidecar'[r].manifest.over = sidecar[r].manifest.over
      BY <2>1, <2>2, <3>2 DEF SidecarType
    <3>3. ASSUME NEW d, sidecar' = [sidecar EXCEPT ![p].data = d]
          PROVE  \A r \in Place : sidecar'[r].manifest.over = sidecar[r].manifest.over
      BY <2>1, <3>3 DEF SidecarType
    <3> QED BY <1>14, <3>1, <3>2, <3>3 DEF RotSidecar
  <2> QED BY <2>3, <2>4 DEF CurrentInv
<1>15. CASE UNCHANGED vars
  BY <1>15 DEF vars, CurrentInv
<1> QED BY <1>2, <1>3, <1>4, <1>5, <1>8, <1>9, <1>10, <1>11, <1>12, <1>13, <1>14, <1>15
        DEF Next

\* A new container holds no edit, and no sidecar has a manifest.
LEMMA InitCurrent == Init => CurrentInv
<1> SUFFICES ASSUME Init PROVE CurrentInv
  OBVIOUS
<1> DEFINE text == [seal |-> 0, edit |-> 0, blocks |-> <<>>]
<1>1. PICK embeds \in BOOLEAN : file = Container(text, <<>>, embeds)
  BY DEF Init
<1>2. edit = text.edit
  BY DEF Init
<1>3. \A p \in Place : sidecar[p].manifest.over = <<>>
  <2>1. PICK detached \in BOOLEAN : sidecar = [p \in Place |->
          [NoSidecar EXCEPT !.present = detached /\ p = "beside"]]
    BY DEF Init
  <2> SUFFICES ASSUME NEW p \in Place PROVE sidecar[p].manifest.over = <<>>
    OBVIOUS
  <2>2. sidecar[p] = [NoSidecar EXCEPT !.present = detached /\ p = "beside"]
    BY <2>1
  <2>3. sidecar[p].manifest = Unprotected
    BY <2>2 DEF NoSidecar, Sidecar
  <2> QED BY <2>3 DEF Unprotected
<1> HIDE DEF text
<1>4. FileCurrent(file, edit)
  BY <1>1, <1>2, SaveCurrent
<1>5. OneSeal(<<>>)
  BY DEF OneSeal
<1> QED BY <1>3, <1>4, <1>5 DEF CurrentInv

\* With no more parity shards in a group than leave one shard of a manifest, no
\* open, repair or strip brings back the manifest of an earlier edit.
THEOREM EditsNeverLost ==
  ASSUME Spare < MetadataShards
  PROVE  Spec => []NoEditLost
<1>1. Init => TypeInv /\ CurrentInv
  BY InitType, InitCurrent
<1>2. (TypeInv /\ CurrentInv) /\ [Next]_vars => (TypeInv /\ CurrentInv)'
  BY NextType, NextCurrent
<1>3. TypeInv /\ CurrentInv => NoEditLost
  BY OpenedFacts DEF CurrentInv, FileCurrent, OneSeal, NoEditLost
<1> QED BY <1>1, <1>2, <1>3, PTL DEF Spec

-----------------------------------------------------------------------------
(* Blocks that have not rotted.                                            *)

\* A block that has not rotted is the one that the manifest lists.
LEMMA GoodBlock ==
  ASSUME Spare < MetadataShards, TypeInv, CurrentInv,
         NEW i \in DOMAIN file.data \ Rotten(file.data)
  PROVE  file.data[i] = Shard(file.manifest[1].content.blocks[i], 1)
<1>1. file.data \in Seq([content : Blocks, length : Nat, rot : Rot])
  BY OpenedFacts
<1>2. file.data[i] \in [content : Blocks, length : Nat, rot : Rot]
  BY <1>1, ElementOfSeq, LenProperties
<1>3. /\ file.data[i].rot = "none"
      /\ file.data[i].content = file.manifest[1].content.blocks[i]
      /\ file.data[i].length = 1
  BY OpenedFacts DEF Rotten
<1> QED BY <1>2, <1>3 DEF Shard

\* Under the same condition a repair keeps every block that has not rotted, and
\* leaves the container as it was unless it reports blocks as repaired.
THEOREM RepairKeepsGood ==
  ASSUME Spare < MetadataShards
  PROVE  Spec => RepairNeverOverwritesGood
<1> DEFINE Kept == \A i \in DOMAIN file.data \ Rotten(file.data) :
                     i \in DOMAIN file'.data /\ file'.data[i] = file.data[i]
           Careful == /\ result' \in {"repaired", "nothing", "failed"} => Kept
                      /\ result' \in {"nothing", "failed"} => file' = file
<1>1. Init => TypeInv /\ CurrentInv
  BY InitType, InitCurrent
<1>2. (TypeInv /\ CurrentInv) /\ [Next]_vars => (TypeInv /\ CurrentInv)'
  BY NextType, NextCurrent
<1>3. TypeInv /\ CurrentInv /\ [Next]_vars => [Careful]_vars
  <2> SUFFICES ASSUME TypeInv, CurrentInv, Next PROVE Careful
    OBVIOUS
  <2>1. ASSUME NEW p \in Place, Repair(p)
        PROVE  Careful
    <3> DEFINE text == Text(file.manifest[1].content.edit, file.manifest[1].content.blocks)
               data == Reconstructed(file.data, DataParity(p # "beside", p))
    <3>1. /\ DOMAIN data = DOMAIN file.data
          /\ \/ UNCHANGED file
             \/ result' = "repaired" /\ Save(text, file.data, file.embeds)
             \/ /\ result' = "repaired"
                /\ \A i \in DOMAIN data :
                     data[i] = Shard(file.manifest[1].content.blocks[i], 1)
                /\ Save(text, data, file.embeds)
      BY <2>1, RepairOutcomes
    <3> HIDE DEF text, data
    <3>2. CASE UNCHANGED file
      BY <3>2
    <3>3. CASE result' = "repaired" /\ Save(text, file.data, file.embeds)
      BY <3>3 DEF Save, Container
    <3>4. CASE /\ result' = "repaired"
               /\ \A i \in DOMAIN data :
                    data[i] = Shard(file.manifest[1].content.blocks[i], 1)
               /\ Save(text, data, file.embeds)
      <4>1. file'.data = data
        BY <3>4 DEF Save, Container
      <4> QED BY <3>1, <3>4, <4>1, GoodBlock
    <3> QED BY <3>1, <3>2, <3>3, <3>4
  <2>2. CASE \/ Add \/ Rename
             \/ \E i \in DOMAIN file.data : Remove(i)
             \/ \E p \in Place : ExportParity(p)
    BY <2>2 DEF Add, Rename, Remove, Edit, ExportParity
  <2>3. CASE \E force \in BOOLEAN : StripParity(force)
    BY <2>3 DEF StripParity
  <2>4. CASE \/ \E kind \in Rot \ {"none"} : RotHeader(kind)
             \/ \E i \in 1..MetadataShards : RotManifest(i)
             \/ \E i \in DOMAIN file.data : RotBlock(i)
             \/ RotEmbeddedParity
             \/ \E p \in Place : RotSidecar(p)
    BY <2>4 DEF RotHeader, RotManifest, RotBlock, RotEmbeddedParity, RotSidecar, Decay
  <2> QED BY <2>1, <2>2, <2>3, <2>4 DEF Next
<1> QED BY <1>1, <1>2, <1>3, PTL DEF Spec, RepairNeverOverwritesGood

-----------------------------------------------------------------------------
(* Damage within the capacity of the parity.                               *)

\* Where parity covers a stream, the shards that differ are those that have rotted,
\* and as many as are left of the parity can be put back.
LEMMA WithinRestored ==
  ASSUME NEW Content, NEW stream \in StreamType(Content),
         NEW parity \in ParityType(Content),
         Covers(parity, stream), Lost(stream, parity) <= Spare
  PROVE  /\ ~Rejects(stream, parity)
         /\ Reconstructed(stream, parity) = Restored(stream)
<1> DEFINE R == [content : Content, length : Nat, rot : Rot]
<1>1. /\ DOMAIN stream = 1..Len(stream) /\ Len(stream) \in Nat
      /\ \A i \in DOMAIN stream : stream[i] \in R
  <2>1. stream \in Seq(R)
    BY DEF StreamType
  <2> HIDE DEF R
  <2> QED BY <2>1, LenProperties, ElementOfSeq
<1>2. /\ DOMAIN Restored(stream) = DOMAIN stream
      /\ \A i \in DOMAIN stream : Restored(stream)[i] = [stream[i] EXCEPT !.rot = "none"]
  BY DEF Restored
<1>3. SameLength(stream, Restored(stream))
  BY <1>1, <1>2 DEF SameLength
<1>4. Erasures(stream, parity) = Rotten(stream)
  <2>1. ASSUME NEW i \in DOMAIN stream
        PROVE  stream[i] # Restored(stream)[i] <=> stream[i].rot # "none"
    BY <1>1, <1>2
  <2> QED BY <2>1 DEF Erasures, Rotten, Covers
<1>5. Cardinality(Rotten(stream)) \in Nat
  <2>1. IsFiniteSet(1..Len(stream)) /\ Rotten(stream) \subseteq 1..Len(stream)
    BY <1>1, FS_Interval DEF Rotten
  <2> QED BY <2>1, FS_Subset, FS_CardinalityType
<1>6. Cardinality(Rotten(stream)) <= parity.intact
  <2>1. parity.intact \in Nat /\ Spare \in Nat
    BY ShardAssumption DEF ParityType
  <2> QED BY <1>5, <2>1 DEF Lost
<1>7. ~Rejects(stream, parity)
  BY <1>3 DEF Covers, Rejects
<1> QED BY <1>4, <1>6, <1>7 DEF Covers, Enough, Reconstructed

\* Before it rots a manifest is what one seal wrote, and so is what its embedded
\* parity is over.
Written(f) ==
  \E text : Restored(f.manifest) = Blob(text) /\ f.meta.over \in {<<>>, Blob(text)}

LEMMA ContainerWritten ==
  ASSUME NEW text, NEW data, NEW embeds
  PROVE  Written(Container(text, data, embeds))
<1>1. Restored(Blob(text)) = Blob(text)
  BY DEF Restored, Blob, Shard
<1>2. ParityOver(Blob(text)).over \in {<<>>, Blob(text)} /\ Unprotected.over = <<>>
  BY DEF ParityOver, Unprotected
<1> QED BY <1>1, <1>2 DEF Written, Container

LEMMA InitWritten == Init => Written(file)
BY ContainerWritten DEF Init

LEMMA NextWritten == TypeInv /\ Written(file) /\ [Next]_vars => Written(file)'
<1> SUFFICES ASSUME TypeInv, Written(file), [Next]_vars PROVE Written(file')
  BY DEF Written
<1>1. CASE \E text, data, embeds : Save(text, data, embeds)
  BY <1>1, ContainerWritten DEF Save
<1>2. CASE UNCHANGED file
  BY <1>2 DEF Written
<1>3. /\ file \in FileType
      /\ DOMAIN file.manifest = 1..MetadataShards
      /\ \A i \in DOMAIN file.manifest :
           file.manifest[i] \in [content : TextType, length : Nat, rot : Rot]
  <2>1. /\ file \in FileType
        /\ file.manifest \in Seq([content : TextType, length : Nat, rot : Rot])
        /\ Len(file.manifest) = MetadataShards
    BY DEF TypeInv, FileInv, FileType, StreamType
  <2> QED BY <2>1, ElementOfSeq, LenProperties
<1>4. ASSUME NEW i \in 1..MetadataShards, RotManifest(i)
      PROVE  Written(file')
  <2>1. file' = [file EXCEPT !.manifest[i].rot = "body"]
    BY <1>4 DEF RotManifest
  <2>2. /\ file'.meta = file.meta
        /\ file'.manifest = [file.manifest EXCEPT ![i].rot = "body"]
    BY <1>3, <2>1 DEF FileType
  <2>3. Restored(file'.manifest) = Restored(file.manifest)
    BY <1>3, <2>2 DEF Restored
  <2> QED BY <2>2, <2>3 DEF Written
<1>5. ASSUME file'.manifest = file.manifest, file'.meta.over = file.meta.over
      PROVE  Written(file')
  BY <1>5 DEF Written
<1>6. CASE \/ \E kind \in Rot : RotHeader(kind)
           \/ \E i \in DOMAIN file.data : RotBlock(i)
  BY <1>3, <1>5, <1>6 DEF RotHeader, RotBlock, FileType
<1>7. CASE RotEmbeddedParity
  <2>1. \A d \in Decayed(file.meta) : d.over = file.meta.over
    BY <1>3, DecayedType DEF FileType
  <2> QED BY <1>3, <1>5, <1>7, <2>1 DEF RotEmbeddedParity, FileType
<1>8. CASE \E p \in Place : Repair(p)
  BY <1>1, <1>2, <1>8 DEF Repair, Heal, Leave
<1>9. CASE \/ \E p \in Place : ExportParity(p) \/ RotSidecar(p)
           \/ UNCHANGED vars
  BY <1>2, <1>9 DEF ExportParity, RotSidecar, vars
<1>10. CASE Add \/ Rename \/ \E i \in DOMAIN file.data : Remove(i)
  BY <1>1, <1>10 DEF Add, Rename, Remove, Edit
<1>11. CASE \E force \in BOOLEAN : StripParity(force)
  BY <1>1, <1>11 DEF StripParity
<1> QED BY <1>4, <1>6, <1>7, <1>8, <1>9, <1>10, <1>11 DEF Next

\* What rotting leaves of a manifest decodes again when it is restored, and opens
\* with the text that it had.
LEMMA RestoredDecodes ==
  ASSUME TypeInv, Written(file)
  PROVE  /\ Decodes(Restored(file.manifest))
         /\ Restored(file.manifest)[1].content = file.manifest[1].content
         /\ file.meta.over \in {<<>>, Restored(file.manifest)}
<1>1. PICK text : /\ Restored(file.manifest) = Blob(text)
                  /\ file.meta.over \in {<<>>, Blob(text)}
  BY DEF Written
<1>2. 1 \in DOMAIN Blob(text) /\ \A i \in DOMAIN Blob(text) : Blob(text)[i] = Shard(text, Len(text.blocks))
  BY ShardAssumption DEF Blob
<1>3. Decodes(Blob(text))
  BY <1>2 DEF Decodes, Shard
<1>4. Restored(file.manifest)[1].content = file.manifest[1].content
  <2>1. 1 \in DOMAIN file.manifest
    BY <1>1, <1>2 DEF Restored
  <2>2. file.manifest[1] \in [content : TextType, length : Nat, rot : Rot]
    <3>1. file.manifest \in Seq([content : TextType, length : Nat, rot : Rot])
      BY DEF TypeInv, FileInv, FileType, StreamType
    <3> QED BY <2>1, <3>1, ElementOfSeq, LenProperties
  <2> QED BY <2>1, <2>2 DEF Restored
<1> QED BY <1>1, <1>3, <1>4

\* The types of what a capacity is about.
LEMMA CapacityTypes ==
  ASSUME TypeInv
  PROVE  /\ file.header \in StreamType(LayoutType)
         /\ file.manifest \in StreamType(TextType)
         /\ file.data \in StreamType(Blocks)
         /\ file.meta \in ParityType(TextType)
         /\ file.parity \in ParityType(Blocks)
         /\ sidecar["beside"].header \in ParityType(LayoutType)
         /\ sidecar["beside"].manifest \in ParityType(TextType)
         /\ sidecar["beside"].data \in ParityType(Blocks)
BY PlaceAssumption DEF TypeInv, FileInv, FileType, SidecarInv, SidecarType, Blocks

\* Within capacity the header and the manifest are rebuilt, as they were written,
\* if they have rotted at all.
LEMMA WithinOpens ==
  ASSUME TypeInv, Written(file), WithinSidecar \/ WithinEmbedded
  PROVE  /\ Opens
         /\ ManifestHealed => RebuiltManifest = Restored(file.manifest)
<1> DEFINE embedded == Reconstructed(file.manifest, file.meta)
           outside  == Reconstructed(file.manifest, sidecar["beside"].manifest)
<1>1. HeaderOpens
  <2>1. CASE WithinSidecar
    BY <2>1, CapacityTypes, WithinRestored DEF WithinSidecar, HeaderOpens
  <2>2. CASE WithinEmbedded
    BY <2>2 DEF WithinEmbedded, HeaderOpens, HeaderHealed
  <2> QED BY <2>1, <2>2
<1>2. embedded \in {file.manifest, Restored(file.manifest)}
  BY RestoredDecodes DEF Reconstructed
<1>3. Decodes(Restored(file.manifest))
  BY RestoredDecodes
<1>4. ASSUME ManifestHealed
      PROVE  /\ ~Rejects(file.manifest, file.meta)
             /\ RebuiltManifest = Restored(file.manifest)
  <2>1. file.manifest # Restored(file.manifest)
    BY <1>3, <1>4 DEF ManifestHealed
  <2>2. CASE WithinSidecar
    <3>1. outside = Restored(file.manifest)
      BY <2>2, CapacityTypes, WithinRestored DEF WithinSidecar
    <3>2. RebuiltManifest = Restored(file.manifest)
      BY <1>2, <2>1, <3>1 DEF RebuiltManifest
    <3>3. file.meta.over # <<>> => SameLength(file.manifest, file.meta.over)
      <4>1. DOMAIN file.manifest = DOMAIN Restored(file.manifest)
        BY DEF Restored
      <4>2. \A i \in DOMAIN file.manifest :
              file.manifest[i].length = Restored(file.manifest)[i].length
        <5>1. file.manifest \in Seq([content : TextType, length : Nat, rot : Rot])
          BY CapacityTypes DEF StreamType
        <5>2. \A i \in DOMAIN file.manifest :
                file.manifest[i] \in [content : TextType, length : Nat, rot : Rot]
          BY <5>1, ElementOfSeq, LenProperties
        <5> QED BY <5>2 DEF Restored
      <4> QED BY <4>1, <4>2, RestoredDecodes DEF SameLength
    <3> QED BY <2>2, <3>2, <3>3 DEF WithinSidecar, Rejects
  <2>3. CASE WithinEmbedded
    BY <2>1, <2>3, CapacityTypes, WithinRestored DEF WithinEmbedded, RebuiltManifest
  <2> QED BY <2>2, <2>3
<1>5. ManifestOpens
  BY <1>3, <1>4 DEF ManifestOpens
<1> QED BY <1>1, <1>4, <1>5 DEF Opens

\* While no more shards are lost of any region, or of its parity, than the parity
\* had, and it was computed over what was sealed, the container opens.
THEOREM OpensWhileWithin == Spec => []OpensWithinCapacity
<1>1. Init => TypeInv /\ Written(file)
  BY InitType, InitWritten
<1>2. (TypeInv /\ Written(file)) /\ [Next]_vars => (TypeInv /\ Written(file))'
  BY NextType, NextWritten
<1>3. TypeInv /\ Written(file) => OpensWithinCapacity
  BY WithinOpens DEF OpensWithinCapacity
<1> QED BY <1>1, <1>2, <1>3, PTL DEF Spec

\* A repair that saves without damage in the blocks leaves a container that is sound.
LEMMA HealSound ==
  ASSUME NEW text, NEW data, Damaged(text, data) = {}, GenerationCurrent, Heal(text, data)
  PROVE  Sound(file')
<1>1. file' = Container(text, data, file.embeds)
  BY DEF Heal, Save
<1> QED BY <1>1, ContainerSound

\* Under the condition that keeps edits (EditsNeverLost), a repair within capacity
\* leaves no damage.  Without it the blocks may be others than the manifest lists.
THEOREM RepairsWhileWithin ==
  ASSUME Spare < MetadataShards
  PROVE  Spec => RepairsWithinCapacity
<1>1. Init => TypeInv /\ CurrentInv /\ Written(file)
  BY InitType, InitCurrent, InitWritten
<1>2. (TypeInv /\ CurrentInv /\ Written(file)) /\ [Next]_vars
        => (TypeInv /\ CurrentInv /\ Written(file))'
  BY NextType, NextCurrent, NextWritten
<1>3. TypeInv /\ CurrentInv /\ Written(file)
        => ((WithinSidecar \/ WithinEmbedded) /\ GenerationCurrent /\ Repair("beside")
              => Sound(file'))
  <2> SUFFICES ASSUME TypeInv, CurrentInv, Written(file),
                      WithinSidecar \/ WithinEmbedded, GenerationCurrent, Repair("beside")
               PROVE  Sound(file')
    OBVIOUS
  <2> DEFINE last   == file.manifest[1].content
             text   == Text(last.edit, last.blocks)
             parity == DataParity(FALSE, "beside")
             data   == Reconstructed(file.data, parity)
  <2>1. /\ OpenedText = last
        /\ \A i \in DOMAIN file.data :
             file.data[i].content = last.blocks[i] /\ file.data[i].length = 1
        /\ file.data \in Seq([content : Blocks, length : Nat, rot : Rot])
    BY OpenedFacts
  <2>2. ~Rejects(file.data, parity) /\ data = Restored(file.data)
    BY CapacityTypes, WithinRestored DEF WithinSidecar, WithinEmbedded, DataParity
  <2>3. text.blocks = last.blocks
    BY DEF Text
  <2>4. Damaged(text, Restored(file.data)) = {}
    <3>1. ASSUME NEW i \in DOMAIN file.data
          PROVE  [file.data[i] EXCEPT !.rot = "none"] = Shard(last.blocks[i], 1)
      <4>1. file.data[i] \in [content : Blocks, length : Nat, rot : Rot]
        BY <2>1, ElementOfSeq, LenProperties
      <4> QED BY <2>1, <4>1 DEF Shard
    <3> HIDE DEF text
    <3> QED BY <2>3, <3>1 DEF Damaged, Restored
  <2> HIDE DEF last, text, parity, data
  <2>5. AllVerified(text, data, file.data)
    BY <2>2, <2>4 DEF AllVerified
  <2>6. \/ Damaged(text, file.data) = {} /\ ~HeaderHealed /\ ~ManifestHealed /\ file' = file
        \/ Damaged(text, file.data) = {} /\ Heal(text, file.data)
        \/ Damaged(text, data) = {} /\ Heal(text, data)
    BY <2>1, <2>2, <2>5 DEF Repair, Leave, AllVerified, text, parity, data
  <2>7. CASE Damaged(text, file.data) = {} /\ ~HeaderHealed /\ ~ManifestHealed /\ file' = file
    <3>1. Damaged(last, file.data) = {}
      BY <2>3, <2>7 DEF Damaged
    <3> QED BY <2>7, <3>1 DEF Sound, HeaderHealed, ManifestHealed, last
  <2> QED BY <2>6, <2>7, HealSound
<1>4. Spec => [](TypeInv /\ CurrentInv /\ Written(file))
  BY <1>1, <1>2, PTL DEF Spec
<1> QED BY <1>3, <1>4, PTL DEF RepairsWithinCapacity
=============================================================================
