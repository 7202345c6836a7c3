--------------------------- MODULE SidecarLocator --------------------------
(***************************************************************************)
(* The .aerocorrect format (aerovault/src/error_correction/sidecar.rs):    *)
(* where the parity of a file is, written three times over so that it is   *)
(* found when the sidecar itself rots, and the two readers of it, one that *)
(* holds the sidecar in memory and one that reads it from disk.            *)
(*                                                                         *)
(* The format is scaled down: a field, and a shard, is one cell.  What is  *)
(* counted in bytes there is counted in cells here, and the byte-wise vote *)
(* of the copies is one by cells.  Cells of different kinds differ, and    *)
(* what is no number is huge when it is read as one.  A hash is the        *)
(* sequence it was taken of.                                               *)
(***************************************************************************)
EXTENDS Integers, Sequences, SequencesExt, FiniteSets, FiniteSetsExt

CONSTANTS
  TotalLens,      \* lengths the protected stream may have, in shards
  WindowSize,     \* shards of a window, except the last
  DataShards,     \* shards of a group
  ParityShards,   \* parity shards of a group
  MaxParity,      \* most that any overhead level gives a group
  MaxDirectories, \* MAX_DIRECTORY_REGION: cells the three copies may take
  Huge,           \* what is read as a number and is none, beyond every length
  MaxDamage       \* bound: cells that rot; a piece cut off counts as two

ASSUME LengthAssumption == TotalLens \subseteq Nat
ASSUME GridAssumption ==
  {WindowSize, DataShards, ParityShards, MaxParity} \subseteq Nat \ {0} /\ ParityShards <= MaxParity
ASSUME BoundAssumption == {MaxDirectories, MaxDamage} \subseteq Nat

VARIABLES
  total,   \* the length of the stream that the sidecar was written for
  version, \* the format it was written in
  data,    \* the cells of the sidecar by now
  damage   \* cells that have rotted, and two for each piece that is gone

vars == <<total, version, data, damage>>

DirectoryCopies == 3

Number(n) == <<"number", n>>
Magic     == <<"magic", 0>>
Zeros     == <<"zeros", 0>>
Untold    == <<"untold", 0>>
Hash(seq) == <<"hash", seq>>

\* The number in a cell.
Read(cell) == IF cell[1] = "number" THEN cell[2] ELSE Huge

-----------------------------------------------------------------------------
(* What is written.                                                        *)

CeilDiv(m, n) == (m + n - 1) \div n

\* Where each of the things ends that have these lengths and follow one another.
Ends(lens) ==
  LET end[i \in 0..Len(lens)] == IF i = 0 THEN 0 ELSE end[i - 1] + lens[i]
  IN  end

\* avec_len_for: a header, a checksum for each shard, and the parity shards.
AvecLenFor(len, parityShards) ==
  LET parity == CeilDiv(len, DataShards) * parityShards
  IN  IF len = 0 THEN 0 ELSE 1 + (len + parity) + parity

\* aerocorrect_windows: an empty stream has one empty window.
Windows(length) ==
  IF length = 0
  THEN << [offset |-> 0, len |-> 0] >>
  ELSE [i \in 1..CeilDiv(length, WindowSize) |->
         [offset |-> (i - 1) * WindowSize, len |-> Min({WindowSize, length - (i - 1) * WindowSize})]]

Geometry(window) == IF window.len = 0 THEN Zeros ELSE <<"geometry", window.len>>

\* The parity of a window, of which only the header matters here.
Avec(window) ==
  [j \in 1..AvecLenFor(window.len, ParityShards) |->
    IF j = 1 THEN Geometry(window) ELSE <<"parity", window.offset>>]

\* The stream, by its SHA-256, and the identity that is derived from that.
Sha(length)     == <<"sha", length>>
Binding(sha)    == <<"binding", sha>>
Identity(length) == << Binding(Sha(length)), Sha(length) >>

Placement(window) ==
  << Number(window.offset), Number(window.len), Number(Len(Avec(window))) >>

Records(windows) ==
  FlattenSeq([i \in DOMAIN windows |-> Placement(windows[i]) \o << Geometry(windows[i]) >>])

EncodeDirectory(length) ==
  << Number(length) >> \o Identity(length) \o Records(Windows(length))

\* to_bytes.
ToBytes(length) ==
  LET windows == Windows(length)
      copy    == EncodeDirectory(length) \o << Hash(EncodeDirectory(length)) >>
  IN  << Magic, Number(2) >>
        \o [i \in 1..DirectoryCopies |-> Number(Len(windows))]
        \o copy \o copy \o copy
        \o FlattenSeq([i \in DOMAIN windows |-> Avec(windows[i])])

\* What version 1 wrote: one copy of everything, and a checksum of it all.
ToBytesV1(length) ==
  LET windows == Windows(length)
      body    == << Magic, Number(1) >> \o Identity(length)
                   \o << Number(length), Number(Len(windows)) >>
                   \o FlattenSeq([i \in DOMAIN windows |->
                                   Placement(windows[i]) \o Avec(windows[i])])
  IN  body \o << Hash(body) >>

\* No sidecar is as long as what is no number says.
ASSUME HugeAssumption ==
  Huge \in Nat /\ \A length \in TotalLens : Len(ToBytes(length)) < Huge

\* What is where in a sidecar.
DirFixedLen  == 3
DirPerSegLen == 4
PrefixLen    == 2 + DirectoryCopies

-----------------------------------------------------------------------------
(* What is read.                                                           *)

Refused == [is |-> "refused"]

Slots(bytes) == SubSeq(bytes, 3, PrefixLen)

\* candidate_counts: what two slots agree on, or else the first; then, as they come,
\* the slots that say something else.
CandidateCounts(bytes) ==
  LET slots  == Slots(bytes)
      likely == IF slots[2] = slots[3] THEN slots[2] ELSE slots[1]
      Other(i) == IF slots[i] = likely THEN <<>> ELSE << slots[i] >>
  IN  << likely >> \o Other(1) \o Other(2) \o Other(3)

\* V2Layout: what lies where if there are n windows.
DirLen(n)      == DirFixedLen + DirPerSegLen * n
ParityStart(n) == PrefixLen + DirectoryCopies * (DirLen(n) + 1)

\* for_count, of a candidate that is not zero.
Fits(n, length) ==
  /\ n # 0
  /\ DirectoryCopies * (DirLen(n) + 1) <= MaxDirectories
  /\ ParityStart(n) <= length

CopyBase(n, i) == PrefixLen + (i - 1) * (DirLen(n) + 1)

Copy(bytes, n, i) == SubSeq(bytes, CopyBase(n, i) + 1, CopyBase(n, i) + DirLen(n))

Intact(bytes, n, i) == bytes[CopyBase(n, i) + DirLen(n) + 1] = Hash(Copy(bytes, n, i))

\* What most copies say, and the first one where no two agree.
Vote(bytes, n) ==
  LET copies == [i \in 1..DirectoryCopies |-> Copy(bytes, n, i)]
  IN  [b \in 1..DirLen(n) |->
        IF copies[2][b] = copies[3][b] THEN copies[2][b] ELSE copies[1][b]]

\* directory_is_self_consistent: the identity is that of the SHA-256.
SelfConsistent(dir) == dir[2] = Binding(dir[3])

\* recover_directory.
Recovers(bytes, n) ==
  (\E i \in 1..DirectoryCopies : Intact(bytes, n, i)) \/ SelfConsistent(Vote(bytes, n))

\* Mutant: the copies are put to the vote even if one of them is intact.
AlwaysVotes(bytes, n) == Vote(bytes, n)

RecoveredDirectory(bytes, n) ==
  LET intact == { i \in 1..DirectoryCopies : Intact(bytes, n, i) }
  IN  IF intact # {} THEN Copy(bytes, n, Min(intact)) ELSE Vote(bytes, n)

\* The records of a directory, and where the parity of each begins.
Segments(dir, n) ==
  LET At(i, field) == dir[DirFixedLen + DirPerSegLen * (i - 1) + field]
      ends == Ends([i \in 1..n |-> Read(At(i, 3))])
  IN  [i \in 1..n |->
        [offset   |-> Read(At(i, 1)),
         len      |-> Read(At(i, 2)),
         avecLen  |-> Read(At(i, 3)),
         start    |-> ParityStart(n) + ends[i - 1],
         geometry |-> At(i, 4)]]

\* Mutant: the parity need not be all there.
StartsInside(segments, length) ==
  \A i \in DOMAIN segments : segments[i].start <= length

\* parse_v2_directory_fields: no parity is longer than the highest level makes
\* it, and the last one ends where the sidecar does.
Accounted(segments, length) ==
  /\ \A i \in DOMAIN segments :
       segments[i].avecLen <= AvecLenFor(segments[i].len, MaxParity)
  /\ Last(segments).start + Last(segments).avecLen = length

Decoded(bytes, n) ==
  LET dir      == RecoveredDirectory(bytes, n)
      segments == Segments(dir, n)
  IN  IF Accounted(segments, Len(bytes))
      THEN [is |-> "directory", total |-> Read(dir[1]), binding |-> dir[2], sha |-> dir[3],
            segments |-> segments]
      ELSE Refused

Usable(bytes, n) == Fits(n, Len(bytes)) /\ Recovers(bytes, n)

\* from_bytes_v2, in memory, reads what the first count that is usable gives.
ParsedV2(bytes) ==
  LET counts == CandidateCounts(bytes)
      first  == SelectInSeq(counts, LAMBDA c : Usable(bytes, Read(c)))
  IN  IF first = 0 THEN Refused ELSE Decoded(bytes, Read(counts[first]))

\* Mutant: like the other reader, it stops at the first that is usable.
GivesUpEarly(bytes) == ParsedV2(bytes)

\* Mutant: nor does it put the copies to the vote.
WithoutVote(bytes) ==
  LET n == Read(Slots(bytes)[1])
  IN  IF Fits(n, Len(bytes)) /\ \E i \in 1..DirectoryCopies : Intact(bytes, n, i)
      THEN Decoded(bytes, n)
      ELSE Refused

\* open_v2, from disk, goes on to the next count if that gives nothing.
OpenedV2(bytes) ==
  LET counts == CandidateCounts(bytes)
      given  == [i \in DOMAIN counts |->
                  IF Usable(bytes, Read(counts[i])) THEN Decoded(bytes, Read(counts[i])) ELSE Refused]
      first  == SelectInSeq(given, LAMBDA dir : dir # Refused)
  IN  IF first = 0 THEN Refused ELSE given[first]

\* Version 1 holds the record of a window right before its parity.
HeaderLenV1     == 6
SegmentLenV1    == 3
CountsV1(bytes) == 1..((Len(bytes) - 1 - HeaderLenV1) \div SegmentLenV1)

SegmentAtV1(bytes, at) ==
  [offset   |-> Read(bytes[at + 1]),
   len      |-> Read(bytes[at + 2]),
   avecLen  |-> Read(bytes[at + 3]),
   start    |-> at + SegmentLenV1,
   geometry |-> Untold]

DirectoryV1(bytes, segments) ==
  [is |-> "directory", total |-> Read(bytes[5]), binding |-> bytes[3], sha |-> bytes[4],
   segments |-> segments]

SegmentsV1(bytes) ==
  LET n == Read(bytes[HeaderLenV1])
      start[i \in 1..n] ==
        IF i = 1 THEN HeaderLenV1
        ELSE start[i - 1] + SegmentLenV1 + Read(bytes[start[i - 1] + SegmentLenV1])
  IN  [i \in 1..n |-> SegmentAtV1(bytes, start[i])]

\* from_bytes_v1, in memory, asks first whether all of it is as it was written.
ParsedV1(bytes) ==
  IF /\ Len(bytes) > HeaderLenV1
     /\ Last(bytes) = Hash(Front(bytes))
     /\ Read(bytes[HeaderLenV1]) \in CountsV1(bytes)
     /\ Accounted(SegmentsV1(bytes), Len(bytes) - 1)
  THEN DirectoryV1(bytes, SegmentsV1(bytes))
  ELSE Refused

\* The record at a place, if it and its parity end before the checksum begins.
FoundAt(bytes, at) ==
  LET segment == SegmentAtV1(bytes, at)
  IN  IF /\ at + SegmentLenV1 < Len(bytes)
         /\ segment.avecLen <= AvecLenFor(segment.len, MaxParity)
         /\ segment.start + segment.avecLen < Len(bytes)
      THEN segment
      ELSE Refused

\* open_v1, from disk, goes from record to record, whatever they say, and asks that last.
OpenedV1(bytes) ==
  LET n == Read(bytes[HeaderLenV1])
      found[i \in 1..n] ==
        IF i = 1 THEN FoundAt(bytes, HeaderLenV1)
        ELSE IF found[i - 1] = Refused THEN Refused
        ELSE FoundAt(bytes, found[i - 1].start + found[i - 1].avecLen)
  IN  IF /\ Len(bytes) > HeaderLenV1
         /\ n \in CountsV1(bytes)
         /\ found[n] # Refused
         /\ found[n].start + found[n].avecLen = Len(bytes) - 1
         /\ Last(bytes) = Hash(Front(bytes))
      THEN DirectoryV1(bytes, found)
      ELSE Refused

VersionOf(bytes) ==
  IF Len(bytes) >= 2 /\ bytes[1] = Magic THEN Read(bytes[2]) ELSE 0

\* from_bytes.
Parsed(bytes) ==
  CASE VersionOf(bytes) = 2 /\ Len(bytes) >= PrefixLen -> ParsedV2(bytes)
    [] VersionOf(bytes) = 1 -> ParsedV1(bytes)
    [] OTHER -> Refused

\* AeroCorrectSidecarReader::open.
Opened(bytes) ==
  CASE VersionOf(bytes) = 2 /\ Len(bytes) >= PrefixLen -> OpenedV2(bytes)
    [] VersionOf(bytes) = 1 -> OpenedV1(bytes)
    [] OTHER -> Refused

\* Mutant: the windows are not held to follow one another.
AnyTiling(segments, length) ==
  Ends([i \in DOMAIN segments |-> segments[i].len])[Len(segments)] = length

\* validate_window_tiling.
Tiles(segments, length) ==
  LET ends == Ends([i \in DOMAIN segments |-> segments[i].len])
  IN  /\ \A i \in DOMAIN segments : segments[i].offset = ends[i - 1]
      /\ ends[Len(segments)] = length

\* What the callers ask of a sidecar before they use it for a stream.
Accepted(dir, length) ==
  /\ dir # Refused
  /\ dir.sha = Sha(length) /\ dir.binding = Binding(Sha(length))
  /\ dir.total = length
  /\ Tiles(dir.segments, length)

-----------------------------------------------------------------------------
(* What happens.                                                           *)

Sidecars == [v \in {1, 2} |-> [length \in TotalLens |->
              IF v = 1 THEN ToBytesV1(length) ELSE ToBytes(length)]]

Written == Sidecars[version][total]

\* A number may rot to one next to it.  Whatever else comes of rot is none of the
\* things a sidecar is made of, and not the same in two places.
Rotted(i, cell) ==
  { <<"junk", i>> } \cup
    IF cell[1] = "number" THEN { Number(n) : n \in {cell[2] - 1, cell[2] + 1} \cap Nat } ELSE {}

\* Shards of parity have checksums of their own and are no part of the locator.
Rot ==
  /\ damage < MaxDamage
  /\ \E i \in { j \in DOMAIN data : data[j][1] # "parity" } : \E cell \in Rotted(i, data[i]) :
       data' = [data EXCEPT ![i] = cell]
  /\ damage' = damage + 1
  /\ UNCHANGED <<total, version>>

\* What a write that was cut short leaves.  It counts as two damages.
Truncate ==
  /\ damage + 2 <= MaxDamage
  /\ \E n \in 0..Len(data) - 1 : data' = SubSeq(data, 1, n)
  /\ damage' = damage + 2
  /\ UNCHANGED <<total, version>>

Init ==
  /\ total \in TotalLens
  /\ version \in {1, 2}
  /\ data = Written
  /\ damage = 0

Next == Rot \/ Truncate

Spec == Init /\ [][Next]_vars

-----------------------------------------------------------------------------
(* Properties.                                                             *)

Count == Len(Windows(total))

Kinds ==
  {"number", "magic", "zeros", "hash", "geometry", "parity", "sha", "binding", "junk"}

\* Whatever a reader makes of what is left, the parity it would read is all there,
\* one window's after the other's to the end.
TypeOK ==
  /\ total \in TotalLens /\ version \in {1, 2} /\ damage \in 0..MaxDamage
  /\ Len(data) <= Len(Written)
  /\ \A i \in DOMAIN data : data[i][1] \in Kinds
  /\ \A dir \in {Opened(data), Parsed(data)} \ {Refused} :
       /\ dir.segments # <<>>
       /\ \A i \in DOMAIN dir.segments :
            dir.segments[i].start + dir.segments[i].avecLen <= Len(data)

\* A window of the directory is one of the file's, and its parity is where the
\* directory says.
Placed(dir) ==
  /\ Len(dir.segments) = Count
  /\ \A i \in 1..Count :
       LET s == dir.segments[i]
           w == Windows(total)[i]
       IN  /\ s.offset = w.offset /\ s.len = w.len
           /\ SubSeq(Written, s.start + 1, s.start + s.avecLen) = Avec(w)

\* As it was written, to the header of each parity.
Exact(dir) ==
  /\ Placed(dir)
  /\ version = 2 =>
       \A i \in 1..Count : dir.segments[i].avecLen > 0 =>
         dir.segments[i].geometry = Geometry(Windows(total)[i])

\* Whatever rots or is cut off, a sidecar that the callers accept has the file's
\* own windows, each with its own parity: a wrong count, a wrong length or half
\* a sidecar is never mistaken for the right one.
OpensTheRightWindows ==
  \A dir \in {Opened(data), Parsed(data)} : Accepted(dir, total) => Placed(dir)

\* The locator can be found by what version 2 keeps for that.
SlotsRight == { i \in 1..DirectoryCopies : data[2 + i] = Number(Count) }

Unharmed(i, b) == data[CopyBase(Count, i) + b] = Written[CopyBase(Count, i) + b]

DirectoryThere ==
  \/ \E i \in 1..DirectoryCopies : \A b \in 1..DirLen(Count) + 1 : Unharmed(i, b)
  \/ \A b \in 1..DirLen(Count) :
       Cardinality({ i \in 1..DirectoryCopies : Unharmed(i, b) }) >= 2

FrameThere ==
  /\ version = 2 /\ Len(data) = Len(Written)
  /\ data[1] = Magic /\ data[2] = Number(2)
  /\ DirectoryThere

\* Two slots of the count, and one copy of the directory or two of each of its
\* fields, are enough for both readers to read everything as it was written.
HealsWithinBudget ==
  FrameThere /\ Cardinality(SlotsRight) >= 2 =>
    \A dir \in {Opened(data), Parsed(data)} : Accepted(dir, total) /\ Exact(dir)

\* The reader from disk needs one slot only, whatever the two others say.
OneSlotIsEnough ==
  FrameThere /\ SlotsRight # {} =>
    LET dir == Opened(data) IN Accepted(dir, total) /\ Exact(dir)

\* What the reader in memory gets out of a sidecar, the one from disk gets too.
ReadersAgree ==
  LET parsed == Parsed(data) IN parsed # Refused => Opened(data) = parsed

\* "in any remaining distinct values as fallbacks for the rare all-three-differ
\* case": what OneSlotIsEnough says, of the reader in memory.
FallsBack ==
  FrameThere /\ SlotsRight # {} =>
    LET dir == Parsed(data) IN Accepted(dir, total) /\ Exact(dir)

\* "so a garbled vote is never trusted": what the callers accept is as it was
\* written, to the header of each parity.
GarbledVoteRefused ==
  Accepted(Opened(data), total) => Exact(Opened(data))
=============================================================================
