---------------------------- MODULE ContentChunks ---------------------------
(***************************************************************************)
(* How the bytes of files become chunks of a vault and come out again      *)
(* (aerovault/src/v3: chunking.rs, packing.rs, append_file_at,             *)
(* append_sources_batched and flush_pack of vault.rs, and its              *)
(* extract_file_entry): one add_files with its sources, the streaming      *)
(* chunker byte by byte over reads of any length, and the extraction of    *)
(* what was added.                                                         *)
(*                                                                         *)
(* Another process may write to a source before it is read and while it    *)
(* is.  VaultV3 models what surrounds this: the manifest tree, the store   *)
(* and the errors.  The id of a chunk is what is in it.                    *)
(***************************************************************************)
EXTENDS Integers, Sequences, SequencesExt, FiniteSets, FiniteSetsExt

CONSTANTS
  Requests,     \* lists of sources: each a path, as a number, and what is in the file
  Width,        \* bits of the rolling hash (64)
  Gear,         \* gear_table: a number of that width for each byte
  CdcMin,       \* CdcBounds of the vault
  CdcAvg,
  CdcMax,
  SmallFile,    \* PACK_SMALL_FILE_THRESHOLD
  PackTarget,   \* PACK_TARGET
  ReadChunk,    \* STREAM_READ_CHUNK
  MaxPlaintext, \* MAX_PLAINTEXT_BLOCK_SIZE
  MaxBlock,     \* MAX_BLOCK_SIZE
  Tag,          \* bytes that encryption adds to a block
  MaxWrites     \* bound: writes of others to the sources

Byte == DOMAIN Gear

\* What validate() asks of the bounds: least chunk 1, greatest MaxPlaintext.
ASSUME BoundsAssumption ==
  /\ {CdcMin, CdcAvg, CdcMax, MaxPlaintext} \subseteq Nat
  /\ 1 <= CdcMin /\ CdcMin <= CdcAvg /\ CdcAvg <= CdcMax /\ CdcMax <= MaxPlaintext
  /\ \E k \in 0..Width : CdcAvg = 2^k
ASSUME GearAssumption == Width \in Nat \ {0} /\ Gear \in [Byte -> 0..2^Width - 1]
ASSUME RequestAssumption ==
  Requests \subseteq Seq([path : Nat, content : Seq(Byte)])
ASSUME SizeAssumption ==
  {SmallFile, PackTarget, ReadChunk} \subseteq Nat \ {0} /\ {MaxBlock, Tag, MaxWrites} \subseteq Nat

VARIABLES
  sources, \* the files to add, as they are by now
  at,      \* where the call is
  next,    \* the source it has come to
  buf,     \* StreamingChunker: bytes of the chunk in progress and beyond
  scanned, \* how many of them have gone through the hash
  rolling, \* the hash
  eof,     \* a read gave nothing
  pos,     \* where in the file the next read begins
  cut,     \* the chunks of the file so far
  small,   \* the places of the sources that go into packs
  pack,    \* the pack in progress
  members, \* its files: path, start and length
  entries, \* the entries of files, under their paths
  writes,  \* writes so far
  taken    \* History: what was read, under the path it was read for

chunker == <<buf, scanned, rolling, eof, pos, cut>>
packer  == <<small, pack, members>>
vars    == <<sources, at, next, chunker, packer, entries, writes, taken>>

Smaller(m, n) == IF m < n THEN m ELSE n
Larger(m, n)  == IF m < n THEN n ELSE m

-----------------------------------------------------------------------------
(* Where to cut.                                                           *)

\* rotate_left(1), then wrapping_add of what the table has for the byte.
Roll(hash, byte) ==
  (((2 * hash) % 2^Width) + (hash \div 2^(Width - 1)) + Gear[byte]) % 2^Width

\* Mutant: the greatest length is exceeded by one.
CutsLate(hash, len) == len >= CdcMin /\ (hash % CdcAvg = 0 \/ len > CdcMax)

CutsAt(hash, len) == len >= CdcMin /\ (hash % CdcAvg = 0 \/ len >= CdcMax)

\* The hash after each of the bytes since the last cut,
Hashes(bytes) ==
  LET hash[n \in 0..Len(bytes)] == IF n = 0 THEN 0 ELSE Roll(hash[n - 1], bytes[n])
  IN  hash

\* and after how many of them comes the next cut; at the end there is always one.
NextCut(bytes) ==
  Min({Len(bytes)} \cup { n \in DOMAIN bytes : CutsAt(Hashes(bytes)[n], n) })

\* What chunk_ranges_with makes of the bytes after each place where it may come to
\* cut: chunks that go from start (exclusive) to stop.
RangesAfter(data) ==
  LET ranges[start \in 0..Len(data)] ==
        LET stop == start + NextCut(SubSeq(data, start + 1, Len(data)))
        IN  IF start = Len(data)
            THEN <<>>
            ELSE << [start |-> start, stop |-> stop] >> \o ranges[stop]
  IN  ranges

\* What is not longer than CdcMin stays whole.
WholeRanges(data) ==
  IF Len(data) \in 1..CdcMin
  THEN << [start |-> 0, stop |-> Len(data)] >>
  ELSE RangesAfter(data)[0]

Bytes(data, range) == SubSeq(data, range.start + 1, range.stop)

ChunksOf(data) ==
  LET ranges == WholeRanges(data)
  IN  [i \in DOMAIN ranges |-> Bytes(data, ranges[i])]

-----------------------------------------------------------------------------
(* What becomes of chunks and members.                                     *)

\* ingest_chunk: what does not get smaller is stored as it is.
Shrinks(chunk) == Len(chunk) > 1 /\ Cardinality(ToSet(chunk)) = 1

BlockLen(chunk) == (IF Shrinks(chunk) THEN 1 ELSE Len(chunk)) + Tag

Overlaps(range, member) ==
  range.start < member.start + member.len /\ member.start < range.stop

Entry(size, offset, chunks) == [size |-> size, offset |-> offset, chunks |-> chunks]

\* The chunks that cover a member of a pack, a stretch of those of the pack, and where
\* in the first it begins.
MemberEntry(data, member) ==
  LET ranges == WholeRanges(data)
      cover  == { i \in DOMAIN ranges : Overlaps(ranges[i], member) }
  IN  IF member.len = 0
      THEN Entry(0, 0, <<>>)
      ELSE Entry(member.len, member.start - ranges[Min(cover)].start,
                 SubSeq(ChunksOf(data), Min(cover), Max(cover)))

\* flush_pack: a later member of the same path takes the place of an earlier one.
WithPack(es, data, mems) ==
  [p \in DOMAIN es \cup { mems[i].path : i \in DOMAIN mems } |->
    IF \E i \in DOMAIN mems : mems[i].path = p
    THEN MemberEntry(data, mems[Max({ i \in DOMAIN mems : mems[i].path = p })])
    ELSE es[p]]

\* What is refused when a block is read.
BlockOpens(chunk) == BlockLen(chunk) <= MaxBlock /\ Len(chunk) <= Smaller(CdcMax, MaxPlaintext)

\* Mutant: what a block adds is counted from its own beginning.
SliceOfBlock(chunk, blockPos, offset, end) ==
  SubSeq(chunk, offset + 1, Smaller(end, blockPos + Len(chunk)) - blockPos)

\* What of a block falls between offset and end.
Slice(chunk, blockPos, offset, end) ==
  SubSeq(chunk, Larger(offset, blockPos) - blockPos + 1,
         Smaller(end, blockPos + Len(chunk)) - blockPos)

\* extract_file_entry: block by block, until the end of the slice.
ReadBlock(read, chunk, offset, end) ==
  IF read.failed \/ read.pos >= end
  THEN read
  ELSE IF ~BlockOpens(chunk)
       THEN [read EXCEPT !.failed = TRUE]
       ELSE [failed |-> FALSE, pos |-> read.pos + Len(chunk),
             out |-> read.out \o Slice(chunk, read.pos, offset, end)]

Extracted(entry) ==
  LET end == entry.offset + entry.size
      reads[n \in 0..Len(entry.chunks)] ==
        IF n = 0
        THEN [failed |-> FALSE, pos |-> 0, out |-> <<>>]
        ELSE ReadBlock(reads[n - 1], entry.chunks[n], entry.offset, end)
      last == reads[Len(entry.chunks)]
  IN  [failed |-> last.failed \/ last.pos < end, out |-> last.out]

-----------------------------------------------------------------------------
(* The call.                                                               *)

Init ==
  /\ sources \in Requests
  /\ at = "scanning" /\ next = 1
  /\ buf = <<>> /\ scanned = 0 /\ rolling = 0 /\ eof = FALSE /\ pos = 0 /\ cut = <<>>
  /\ small = {} /\ pack = <<>> /\ members = <<>>
  /\ entries = <<>> /\ writes = 0 /\ taken = <<>>

Without(f, p) == [q \in DOMAIN f \ {p} |-> f[q]]
With(f, p, v) == [q \in DOMAIN f \cup {p} |-> IF q = p THEN v ELSE f[q]]

Source == sources[next]

\* The partition of append_sources_batched: what is small waits,
SetAside ==
  /\ at = "scanning" /\ next <= Len(sources)
  /\ Len(Source.content) < SmallFile
  /\ small' = small \cup {next}
  /\ next' = next + 1
  /\ UNCHANGED <<sources, at, chunker, pack, members, entries, writes, taken>>

\* the rest goes to append_file_at, which drops an entry of that path first.
BeginFile ==
  /\ at = "scanning" /\ next <= Len(sources)
  /\ Len(Source.content) >= SmallFile
  /\ at' = "chunking"
  /\ buf' = <<>> /\ scanned' = 0 /\ rolling' = 0 /\ eof' = FALSE /\ pos' = 0 /\ cut' = <<>>
  /\ entries' = Without(entries, Source.path)
  /\ taken' = With(taken, Source.path, <<>>)
  /\ UNCHANGED <<sources, next, packer, writes>>

\* Mutant: the buffer is filled before it has been gone through.
FillsAhead == TRUE

NeedsMore == scanned = Len(buf)

\* Mutant: the end is only taken note of between two chunks.
EndBetweenChunks(n) == n = 0 /\ buf = <<>>

AtEnd(n) == n = 0

\* fill: a read may give less than there is, and nothing only at the end.
Fill ==
  LET left == Len(Source.content) - pos
  IN  /\ at = "chunking" /\ NeedsMore /\ ~eof
      /\ \E n \in IF left <= 0 THEN {0} ELSE 1..Smaller(left, ReadChunk) :
           LET bytes == SubSeq(Source.content, pos + 1, pos + n)
           IN  /\ buf' = buf \o bytes
               /\ pos' = pos + n
               /\ eof' = AtEnd(n)
               /\ taken' = [taken EXCEPT ![Source.path] = @ \o bytes]
      /\ UNCHANGED <<sources, at, next, scanned, rolling, cut, packer, entries, writes>>

\* Mutant: the hash goes on over a boundary.
HashAfterCut == Roll(rolling, buf[scanned + 1])

\* The hash begins anew with each chunk.
FreshHash == 0

\* One byte of next_chunk.
Fold ==
  LET hash == Roll(rolling, buf[scanned + 1])
      len  == scanned + 1
  IN  /\ at = "chunking" /\ scanned < Len(buf)
      /\ IF CutsAt(hash, len)
         THEN /\ cut' = Append(cut, SubSeq(buf, 1, len))
              /\ buf' = SubSeq(buf, len + 1, Len(buf))
              /\ rolling' = FreshHash /\ scanned' = 0
         ELSE /\ rolling' = hash /\ scanned' = len
              /\ UNCHANGED <<cut, buf>>
      /\ UNCHANGED <<sources, at, next, eof, pos, packer, entries, writes, taken>>

\* What is left at the end of the file is a chunk too.
LastChunk ==
  /\ at = "chunking" /\ scanned = Len(buf) /\ eof /\ buf # <<>>
  /\ cut' = Append(cut, buf)
  /\ buf' = <<>> /\ rolling' = 0 /\ scanned' = 0
  /\ UNCHANGED <<sources, at, next, eof, pos, packer, entries, writes, taken>>

LengthOf(chunks) ==
  LET sum[n \in 0..Len(chunks)] == IF n = 0 THEN 0 ELSE sum[n - 1] + Len(chunks[n])
  IN  sum[Len(chunks)]

EndFile ==
  /\ at = "chunking" /\ eof /\ buf = <<>>
  /\ entries' = With(entries, Source.path, Entry(LengthOf(cut), 0, cut))
  /\ at' = "scanning" /\ next' = next + 1
  /\ UNCHANGED <<sources, chunker, packer, writes, taken>>

BeginPacks ==
  /\ at = "scanning" /\ next > Len(sources)
  /\ at' = "packing"
  /\ UNCHANGED <<sources, next, chunker, packer, entries, writes, taken>>

\* The small files are taken in the order of their paths, and those of one path as
\* they came.
ComesFirst(i) ==
  \A j \in small :
    sources[i].path < sources[j].path \/ (sources[i].path = sources[j].path /\ i <= j)

\* A small file joins the pack, which is flushed when it has become large.
PackFile ==
  \E i \in small :
    LET data == pack \o sources[i].content
        mems == Append(members, [path |-> sources[i].path, start |-> Len(pack),
                                 len |-> Len(sources[i].content)])
        full == Len(data) >= PackTarget
    IN  /\ at = "packing" /\ ComesFirst(i)
        /\ small' = small \ {i}
        /\ pack' = IF full THEN <<>> ELSE data
        /\ members' = IF full THEN <<>> ELSE mems
        /\ entries' = IF full THEN WithPack(entries, data, mems) ELSE entries
        /\ taken' = With(taken, sources[i].path, sources[i].content)
        /\ UNCHANGED <<sources, at, next, chunker, writes>>

EndAdd ==
  /\ at = "packing" /\ small = {}
  /\ entries' = WithPack(entries, pack, members)
  /\ pack' = <<>> /\ members' = <<>>
  /\ at' = "done"
  /\ UNCHANGED <<sources, next, chunker, small, writes, taken>>

Add ==
  \/ SetAside \/ BeginFile \/ Fill \/ Fold \/ LastChunk \/ EndFile
  \/ BeginPacks \/ PackFile \/ EndAdd

\* Another process makes a source longer or shorter, or writes over a byte.
WriteSource ==
  /\ writes < MaxWrites /\ at # "done"
  /\ \E i \in DOMAIN sources :
       \/ \E b \in Byte : sources' = [sources EXCEPT ![i].content = Append(@, b)]
       \/ \E n \in 0..Len(sources[i].content) - 1 :
            sources' = [sources EXCEPT ![i].content = SubSeq(@, 1, n)]
       \/ \E k \in DOMAIN sources[i].content, b \in Byte :
            sources' = [sources EXCEPT ![i].content[k] = b]
  /\ writes' = writes + 1
  /\ UNCHANGED <<at, next, chunker, packer, entries, taken>>

Done == at = "done" /\ UNCHANGED vars

Next == Add \/ WriteSource \/ Done

\* The thread that adds runs on; others write only so often.
Spec == Init /\ [][Next]_vars /\ WF_vars(Add)

-----------------------------------------------------------------------------
(* Properties.                                                             *)

Paths == { sources[i].path : i \in DOMAIN sources }

IsChunk(c) == c \in Seq(Byte) /\ Len(c) \in 1..CdcMax

\* Chunks are neither empty nor longer than the vault's greatest, which is what
\* extraction holds them to; entries are of paths that were asked for.
TypeOK ==
  /\ at \in {"scanning", "chunking", "packing", "done"}
  /\ scanned \in 0..Len(buf) /\ rolling \in 0..2^Width - 1 /\ eof \in BOOLEAN
  /\ \A i \in DOMAIN cut : IsChunk(cut[i])
  /\ DOMAIN entries \subseteq Paths /\ DOMAIN taken \subseteq Paths
  /\ \A p \in DOMAIN entries : \A i \in DOMAIN entries[p].chunks : IsChunk(entries[p].chunks[i])

\* "Peak buffer memory is bounds.max + STREAM_READ_CHUNK": however long the file.
BufferBounded == Len(buf) <= CdcMax + ReadChunk

\* However the reads fall, the chunks of a stream are those that the whole of it
\* is cut into, so the same content has the same chunks, packed or not, and is
\* stored once.
CutsLikeWhole ==
  at = "chunking" => IsPrefix(cut, ChunksOf(taken[Source.path]))

\* When a call has ended every source has an entry, and its extraction gives what
\* was read for it, byte for byte: from its own chunks, or out of a pack that it
\* shares with others.
ReadsBack ==
  at = "done" =>
    /\ DOMAIN entries = Paths
    /\ \A p \in Paths : Extracted(entries[p]) = [failed |-> FALSE, out |-> taken[p]]

\* The call ends, whatever the sources are and whoever writes to them.
AddEnds == <>(at = "done")
=============================================================================
