----------------------------- MODULE CorrectFile ----------------------------
(***************************************************************************)
(* `aerovault correct` on any file (aerovault/src/error_correction: the    *)
(* correct_* functions of mod.rs and the streamed ones of sync.rs): write  *)
(* parity of a file into a .aerocorrect sidecar, check the file against    *)
(* it, rebuild the file from it.                                           *)
(*                                                                         *)
(* None of this takes a lock.  A call opens the file and the sidecar by    *)
(* their paths, some more than once, and works window by window, while the *)
(* file is edited in place, bytes rot and other calls run.                 *)
(*                                                                         *)
(* A file is a sequence of shards, the unit of Reed-Solomon.  A write, be  *)
(* it an edit or rot, puts a value into a shard that was never there       *)
(* before; two streams have the same SHA-256 if and only if they are equal.*)
(***************************************************************************)
EXTENDS Integers, Sequences, FiniteSets

CONSTANTS
  Proc,          \* calls that may run at the same time
  DataShards,    \* shards of a group
  ParityShards,  \* parity shards of a group
  WindowShards,  \* shards of a window, except the last
  Original,      \* the file to begin with
  Given,         \* streams, a sidecar of which may be there to begin with
  Missing, Torn, \* no sidecar; one that does not open
  MaxLength,     \* bound: shards of the file
  MaxEvents      \* bound: writes, rot, failures and losses of power

\* What is there to begin with, and what writes draw.
Value == 0..MaxEvents + 1

ASSUME ShardsAssumption ==
  DataShards \in Nat \ {0} /\ ParityShards \in Nat \ {0} /\ WindowShards \in Nat \ {0}
ASSUME StreamAssumption == Original \in Seq({0}) /\ Given \subseteq Seq({0, 1})
ASSUME BoundAssumption == MaxLength \in Nat /\ MaxEvents \in Nat

VARIABLES
  files,     \* what each file that the path named holds; the path names the last
  sidecar,   \* the sidecar at its path, or Missing, or Torn
  unflushed, \* what a loss of power can still undo: "file", "sidecar"
  call,      \* what each process is doing
  answer,    \* what its last call told its caller
  events,    \* calls begun and other events so far; also draws values
  \* History, which no guard reads:
  rotten,    \* values that are rot
  past,      \* what the file has held
  unowned    \* sums of sidecars that were not read off the file at one moment

history == <<rotten, past, unowned>>
vars    == <<files, sidecar, unflushed, call, answer, events, history>>

File == files[Len(files)]

Smaller(m, n) == IF m < n THEN m ELSE n

-----------------------------------------------------------------------------
(* Windows, and the parity of one.                                         *)

\* Where the window that follows the first k of n shards ends.
WindowEnd(k, n) == Smaller(k + WindowShards, n)

Window(stream, k, n) == SubSeq(stream, k + 1, WindowEnd(k, n))

\* The shards of a window fall into groups; the last one may have fewer.
Group(i) == (i - 1) \div DataShards

GroupsOf(window) == { Group(i) : i \in DOMAIN window }

\* The parity of a window: what it was computed over, the shards whose checksum
\* has rotted since, and the parity shards of each group that have not.
Parity(window) ==
  [over |-> window, doubted |-> {}, alive |-> [g \in GroupsOf(window) |-> ParityShards]]

\* The shards of a group that do not have the checksum they should.
Damaged(window, parity, g) ==
  { i \in DOMAIN window : Group(i) = g /\ (window[i] # parity.over[i] \/ i \in parity.doubted) }

\* What Reed-Solomon still has of a group, counting the zeros that fill it up.
Present(window, parity, g) ==
  DataShards - Cardinality(Damaged(window, parity, g)) + parity.alive[g]

\* Mutant: one shard more is asked for than the decoder needs.
OneTooMany(window, parity, g) == Present(window, parity, g) > DataShards

Enough(window, parity, g) == Present(window, parity, g) >= DataShards

\* reconstruct_from_error_correction leaves a group alone that it cannot rebuild.
Rebuilt(window, parity) ==
  [i \in DOMAIN window |->
    IF Enough(window, parity, Group(i)) THEN parity.over[i] ELSE window[i]]

\* Mutant: a group that uses up all its parity is reported too.
FullGroups(window, parity) ==
  { g \in GroupsOf(window) : Cardinality(Damaged(window, parity, g)) >= parity.alive[g] }

\* scan_error_correction_health: the groups it reports to be beyond recovery.
LostGroups(window, parity) ==
  { g \in GroupsOf(window) : Cardinality(Damaged(window, parity, g)) > parity.alive[g] }

\* A sidecar: the stream it is bound to, and the parity of each window, under
\* the number of shards before it.
Starts(n) == { k \in 0..n - 1 : k % WindowShards = 0 }

Sidecar(stream) ==
  [sum |-> stream,
   parity |-> [k \in Starts(Len(stream)) |-> Parity(Window(stream, k, Len(stream)))]]

Opens(s) == s \notin {Missing, Torn}

-----------------------------------------------------------------------------
(* Calls.                                                                  *)

\* at: where the call is.  want: the stream that a repair is to end with, or
\* <<>>.  anchor: that which its caller names (--expect-sha256), or <<>>.
\* opened: the directory of the sidecar it has open.  live: parity is read from
\* the path, not held in memory.  fd: the file it has open, or 0.  size: the
\* length of the file when it was looked up.  seen: the shards that have gone
\* through it, as read or as rebuilt.  lost: groups found to be beyond recovery.
\* History: alone, nothing else has touched file or sidecar since it began.
Idle ==
  [at |-> "idle", want |-> <<>>, anchor |-> <<>>, opened |-> Missing, live |-> TRUE, fd |-> 0,
   size |-> 0, seen |-> <<>>, lost |-> 0, alone |-> TRUE]

Places == {"idle", "reading", "writing", "scanning", "anchored", "hashing", "rebuilding"}
Answers == {"none", "generated", "intact", "damaged", "repaired", "refused", "failed"}

At(p, place) == call[p].at = place

\* The path is opened at the first read; the file then stays the one it was.
Opened(p) == IF call[p].fd = 0 THEN Len(files) ELSE call[p].fd

\* Mutant: a read takes what is there by now, up to a window.
WhateverIsThere(p, n) ==
  Window(files[Opened(p)], Len(call[p].seen), Len(files[Opened(p)]))

\* What the next window gives, when it can be read to its end.
NextWindow(p, n) == Window(files[Opened(p)], Len(call[p].seen), n)

\* Mutant: a window must not reach the end of the file.
ShortOfEnd(p, n) == WindowEnd(Len(call[p].seen), n) < Len(files[Opened(p)])

CanRead(p, n) == WindowEnd(Len(call[p].seen), n) <= Len(files[Opened(p)])

\* What p reads parity from: what is written over the sidecar is read like what
\* was there before.
ParitySource(p) == IF call[p].live THEN sidecar ELSE call[p].opened

HasParity(p) == Opens(ParitySource(p))

\* What is where the directory that p has read says is the parity of such a window.
InPlace(p) ==
  LET k == Len(call[p].seen)
      s == ParitySource(p)
  IN  /\ HasParity(p)
      /\ DOMAIN s.parity = DOMAIN call[p].opened.parity
      /\ k \in DOMAIN s.parity
      /\ Len(s.parity[k].over) = WindowEnd(k, call[p].size) - k

\* If it is not, no checksum there is that of a shard.
Garbage(window) ==
  [over |-> window, doubted |-> DOMAIN window, alive |-> [g \in GroupsOf(window) |-> 0]]

\* The parity of the window that p comes to.
NextParity(p, window) ==
  IF InPlace(p) THEN ParitySource(p).parity[Len(call[p].seen)] ELSE Garbage(window)

Event == events < MaxEvents /\ events' = events + 1

Begin(p, c) ==
  /\ At(p, "idle") /\ Event
  /\ call' = [call EXCEPT ![p] = c]
  /\ answer' = [answer EXCEPT ![p] = "none"]
  /\ UNCHANGED <<files, sidecar, unflushed, history>>

Goes(p, c) ==
  /\ call' = [call EXCEPT ![p] = c]
  /\ UNCHANGED <<files, sidecar, unflushed, answer, events, history>>

\* The calls that are not p's are no longer alone.
Disturb(p) ==
  [q \in Proc |-> IF q # p /\ ~At(q, "idle") THEN [call[q] EXCEPT !.alone = FALSE] ELSE call[q]]

Ends(p, a) ==
  /\ call' = [call EXCEPT ![p] = Idle]
  /\ answer' = [answer EXCEPT ![p] = a]
  /\ UNCHANGED <<files, sidecar, unflushed, events, history>>

-----------------------------------------------------------------------------
(* correct_generate.                                                       *)

\* The length is taken from the path before the file is opened.
Generate(p) == Begin(p, [Idle EXCEPT !.at = "reading", !.size = Len(File)])

GenerateWindow(p) ==
  /\ At(p, "reading") /\ Len(call[p].seen) < call[p].size /\ CanRead(p, call[p].size)
  /\ Goes(p, [call[p] EXCEPT !.fd = Opened(p), !.seen = @ \o NextWindow(p, call[p].size)])

\* std::fs::write empties the sidecar, and then fills it.
EmptySidecar(p) ==
  /\ At(p, "reading") /\ Len(call[p].seen) = call[p].size
  /\ sidecar' = Torn
  /\ unflushed' = unflushed \cup {"sidecar"}
  /\ call' = [Disturb(p) EXCEPT ![p].at = "writing"]
  /\ UNCHANGED <<files, answer, events, history>>

FillSidecar(p) ==
  /\ At(p, "writing")
  /\ sidecar' = Sidecar(call[p].seen)
  /\ unflushed' = unflushed \cup {"sidecar"}
  /\ unowned' = IF call[p].alone THEN unowned ELSE unowned \cup {call[p].seen}
  /\ call' = [Disturb(p) EXCEPT ![p] = Idle]
  /\ answer' = [answer EXCEPT ![p] = "generated"]
  /\ UNCHANGED <<files, events, rotten, past>>

-----------------------------------------------------------------------------
(* correct_verify.                                                         *)

Matches(s, stream) == Opens(s) /\ Len(s.sum) = Len(stream)

Verify(p) ==
  /\ Matches(sidecar, File)
  /\ Begin(p, [Idle EXCEPT !.at = "scanning", !.opened = sidecar, !.size = Len(File)])

ScanWindow(p) ==
  /\ At(p, "scanning") /\ Len(call[p].seen) < call[p].size
  /\ HasParity(p) /\ CanRead(p, call[p].size)
  /\ LET w == NextWindow(p, call[p].size)
     IN  Goes(p, [call[p] EXCEPT !.fd = Opened(p), !.seen = @ \o w,
                    !.lost = @ + Cardinality(LostGroups(w, NextParity(p, w)))])

\* Mutant: the verdict is that of the scan of the groups.
ScanByHealth(p) ==
  /\ At(p, "scanning") /\ Len(call[p].seen) = call[p].size
  /\ Ends(p, IF call[p].lost = 0 THEN "intact" ELSE "damaged")

ScanEnds(p) ==
  /\ At(p, "scanning") /\ Len(call[p].seen) = call[p].size
  /\ Ends(p, IF call[p].seen = call[p].opened.sum THEN "intact" ELSE "damaged")

-----------------------------------------------------------------------------
(* correct_repair, and the calls of the sync layer, which knows the stream *)
(* it wants.                                                               *)

\* The sidecar is opened for its sum, closed, and opened again by Check.
Repair(p, anchor) ==
  /\ Opens(sidecar)
  /\ anchor # <<>> => anchor = sidecar.sum
  /\ Begin(p, [Idle EXCEPT !.at = "anchored", !.want = sidecar.sum, !.anchor = anchor])

\* verify_repair_sync_file_streamed.
RepairExpected(p, stream) ==
  Begin(p, [Idle EXCEPT !.at = "anchored", !.want = stream, !.anchor = stream])

\* verify_repair_sync_file: the sidecar is in memory.
RepairFromBytes(p, stream) ==
  /\ Opens(sidecar)
  /\ Begin(p, [Idle EXCEPT !.at = "anchored", !.want = stream, !.anchor = stream,
                           !.live = FALSE, !.opened = sidecar])

BoundToWanted(p) == Matches(ParitySource(p), File) /\ ParitySource(p).sum = call[p].want

\* Mutant: the second opening takes the sum from the sidecar once more.
CheckAgain(p) ==
  /\ At(p, "anchored") /\ Matches(ParitySource(p), File)
  /\ Goes(p, [call[p] EXCEPT !.at = "hashing", !.opened = ParitySource(p), !.size = Len(File),
                             !.want = ParitySource(p).sum])

Check(p) ==
  /\ At(p, "anchored") /\ BoundToWanted(p)
  /\ Goes(p, [call[p] EXCEPT !.at = "hashing", !.opened = ParitySource(p), !.size = Len(File)])

\* The file is read to its end, wherever that is by then.
HashWindow(p) ==
  LET n == Len(files[Opened(p)])
  IN  /\ At(p, "hashing") /\ Len(call[p].seen) < n
      /\ Goes(p, [call[p] EXCEPT !.fd = Opened(p), !.seen = @ \o NextWindow(p, n)])

HashEnds(p) ==
  /\ At(p, "hashing") /\ Len(call[p].seen) >= Len(files[Opened(p)])
  /\ IF call[p].seen = call[p].want
     THEN Ends(p, "intact")
     ELSE Goes(p, [call[p] EXCEPT !.at = "rebuilding", !.fd = 0, !.seen = <<>>])

RebuildWindow(p) ==
  /\ At(p, "rebuilding") /\ Len(call[p].seen) < call[p].size
  /\ HasParity(p) /\ CanRead(p, call[p].size)
  /\ LET w == NextWindow(p, call[p].size)
     IN  Goes(p, [call[p] EXCEPT !.fd = Opened(p), !.seen = @ \o Rebuilt(w, NextParity(p, w))])

\* Mutant: what was rebuilt is compared with what the caller named, if anything.
AnchoredStream(p) == call[p].anchor # <<>> => call[p].seen = call[p].anchor

WantedStream(p) == call[p].seen = call[p].want

\* The temporary file is renamed over the path, and never synced.
Replace(p) ==
  /\ At(p, "rebuilding") /\ Len(call[p].seen) = call[p].size /\ WantedStream(p)
  /\ files' = Append(files, call[p].seen)
  /\ unflushed' = unflushed \cup {"file"}
  /\ call' = [Disturb(p) EXCEPT ![p] = Idle]
  /\ answer' = [answer EXCEPT ![p] = "repaired"]
  /\ UNCHANGED <<sidecar, events, history>>

\* A call that cannot go on returns an error; so does one that finds the
\* sidecar unfit at its start, and that one has done nothing at all.  Parity
\* that is out of place may also be too short to be read.
Refuse(p) ==
  /\ \/ At(p, "reading") /\ Len(call[p].seen) < call[p].size /\ ~CanRead(p, call[p].size)
     \/ At(p, "anchored") /\ ~BoundToWanted(p)
     \/ /\ call[p].at \in {"scanning", "rebuilding"} /\ Len(call[p].seen) < call[p].size
        /\ ~(InPlace(p) /\ CanRead(p, call[p].size))
     \/ At(p, "rebuilding") /\ Len(call[p].seen) = call[p].size /\ ~WantedStream(p)
  /\ Ends(p, "refused")

-----------------------------------------------------------------------------
(* What happens to the file and the sidecar, and to calls.                 *)

\* An event draws its value.
Fresh == events + 2

Touches == call' = [p \in Proc |-> IF At(p, "idle") THEN Idle ELSE [call[p] EXCEPT !.alone = FALSE]]

ChangeFile(stream) ==
  /\ Event /\ Touches
  /\ files' = [files EXCEPT ![Len(files)] = stream]
  /\ past' = past \cup {stream}
  /\ UNCHANGED <<sidecar, unflushed, answer, unowned>>

Write(i) == ChangeFile([File EXCEPT ![i] = Fresh]) /\ UNCHANGED rotten

Grow == Len(File) < MaxLength /\ ChangeFile(Append(File, Fresh)) /\ UNCHANGED rotten

Shrink == Len(File) > 1 /\ ChangeFile(SubSeq(File, 1, Len(File) - 1)) /\ UNCHANGED rotten

Rot(i) == ChangeFile([File EXCEPT ![i] = Fresh]) /\ rotten' = rotten \cup {Fresh}

ChangeSidecar(s) ==
  /\ Opens(sidecar) /\ Event /\ Touches
  /\ sidecar' = s
  /\ UNCHANGED <<files, unflushed, answer, history>>

\* A parity shard, the checksum of a shard, or more than the directory survives.
RotParity(k, g) ==
  /\ sidecar.parity[k].alive[g] > 0
  /\ ChangeSidecar([sidecar EXCEPT !.parity[k].alive[g] = @ - 1])

RotChecksum(k, i) == ChangeSidecar([sidecar EXCEPT !.parity[k].doubted = @ \cup {i}])

RotSidecar ==
  /\ Opens(sidecar)
  /\ \/ \E k \in DOMAIN sidecar.parity :
          \/ \E g \in DOMAIN sidecar.parity[k].alive : RotParity(k, g)
          \/ \E i \in DOMAIN sidecar.parity[k].over : RotChecksum(k, i)
     \/ ChangeSidecar(Torn)

\* A read or a write fails, or the process dies.
Fail(p) ==
  /\ ~At(p, "idle") /\ Event
  /\ call' = [call EXCEPT ![p] = Idle]
  /\ answer' = [answer EXCEPT ![p] = "failed"]
  /\ UNCHANGED <<files, sidecar, unflushed, history>>

Flush ==
  /\ unflushed # {}
  /\ unflushed' = {}
  /\ UNCHANGED <<files, sidecar, call, answer, events, history>>

\* What a rename or a write that was not synced may leave behind.
FilesLeft ==
  {File} \cup IF "file" \in unflushed
              THEN {files[Len(files) - 1]} \cup { SubSeq(File, 1, n) : n \in 1..Len(File) }
              ELSE {}

SidecarsLeft == {sidecar} \cup IF "sidecar" \in unflushed THEN {Torn} ELSE {}

LosePower ==
  /\ Event
  /\ \E stream \in FilesLeft : files' = <<stream>> /\ past' = past \cup {stream}
  /\ sidecar' \in SidecarsLeft
  /\ unflushed' = {}
  /\ call' = [p \in Proc |-> Idle]
  /\ answer' = [p \in Proc |-> IF At(p, "idle") THEN answer[p] ELSE "failed"]
  /\ UNCHANGED <<rotten, unowned>>

-----------------------------------------------------------------------------
Init ==
  /\ files = <<Original>>
  /\ sidecar \in {Missing} \cup { Sidecar(stream) : stream \in Given }
  /\ unflushed = {}
  /\ call = [p \in Proc |-> Idle]
  /\ answer = [p \in Proc |-> "none"]
  /\ events = 0
  /\ rotten = {}
  /\ past = {Original}
  /\ unowned = Given \ {Original}

Start(p) ==
  \/ Generate(p)
  \/ Verify(p)
  \/ Repair(p, <<>>)
  \/ \E stream \in past \cup unowned :
       Repair(p, stream) \/ RepairExpected(p, stream) \/ RepairFromBytes(p, stream)

\* What a call does once it has begun.
Work(p) ==
  \/ GenerateWindow(p) \/ EmptySidecar(p) \/ FillSidecar(p)
  \/ ScanWindow(p) \/ ScanEnds(p)
  \/ Check(p) \/ HashWindow(p) \/ HashEnds(p) \/ RebuildWindow(p) \/ Replace(p)
  \/ Refuse(p)

Outside ==
  \/ \E i \in DOMAIN File : Write(i) \/ Rot(i)
  \/ Grow \/ Shrink \/ RotSidecar \/ Flush \/ LosePower
  \/ \E p \in Proc : Fail(p)

Next == (\E p \in Proc : Start(p) \/ Work(p)) \/ Outside

\* A call that has begun goes on: nothing in it waits.
Fairness == \A p \in Proc : WF_vars(Work(p))

Spec == Init /\ [][Next]_vars /\ Fairness

-----------------------------------------------------------------------------
(* Properties.                                                             *)

Stream == Seq(Value)

\* A sidecar is that of one stream, whatever rots in it: no parity is left over
\* from the sidecar that was there before.
SidecarOK(s) ==
  \/ s \in {Missing, Torn}
  \/ /\ s.sum \in Stream
     /\ DOMAIN s.parity = Starts(Len(s.sum))
     /\ \A k \in DOMAIN s.parity :
          /\ s.parity[k].over = Window(s.sum, k, Len(s.sum))
          /\ s.parity[k].doubted \subseteq DOMAIN s.parity[k].over
          /\ s.parity[k].alive \in [GroupsOf(s.parity[k].over) -> 0..ParityShards]

\* Every state is of the kind the code works with; what a call has gone through
\* fits into the length it looked up.
TypeOK ==
  /\ files \in Seq(Stream) /\ files # <<>>
  /\ SidecarOK(sidecar)
  /\ unflushed \subseteq {"file", "sidecar"}
  /\ "file" \in unflushed => Len(files) > 1
  /\ \A p \in Proc :
       /\ call[p].at \in Places
       /\ call[p].fd \in 0..Len(files)
       /\ {call[p].want, call[p].anchor, call[p].seen} \subseteq Stream
       /\ SidecarOK(call[p].opened)
       /\ ~At(p, "hashing") => Len(call[p].seen) <= call[p].size
       /\ answer[p] \in Answers
  /\ events \in 0..MaxEvents
  /\ rotten \subseteq Value

\* Whatever the calls do to each other and is done to them, the file holds what
\* it once held, or a stream that a sidecar was given for which was not read off
\* the file at one moment.
NothingInvented == File \in past \cup unowned

\* A file is replaced by the stream that the caller named, if it named one, even
\* when the sidecar changes between the two times that it is opened.
AnchorKept ==
  [][\A p \in Proc : Replace(p) /\ call[p].anchor # <<>> => File' = call[p].anchor]_vars

Returns(p, a) == ~At(p, "idle") /\ At(p, "idle")' /\ answer'[p] = a

\* A call that nothing interfered with says "verified" of a file that is what
\* the sidecar is bound to, and of no other.
VerdictTrue ==
  [][\A p \in Proc : call[p].alone =>
       /\ Returns(p, "intact") => Opens(sidecar) /\ File = sidecar.sum
       /\ Returns(p, "damaged") => File # sidecar.sum]_vars

\* The file can be rebuilt from the sidecar.
Repairable ==
  /\ Matches(sidecar, File)
  /\ \A k \in DOMAIN sidecar.parity :
       LET window == Window(File, k, Len(File))
       IN  Rebuilt(window, sidecar.parity[k]) = sidecar.parity[k].over

ChecksumsHold == \A k \in DOMAIN sidecar.parity : sidecar.parity[k].doubted = {}

\* A scan that nothing interfered with counts a group as lost if a repair would
\* not rebuild the file, and, unless checksums have rotted, only then.
ScanForetells ==
  [][\A p \in Proc : ScanEnds(p) /\ call[p].alone =>
       /\ call[p].lost = 0 => Repairable
       /\ Repairable /\ ChecksumsHold => call[p].lost = 0]_vars

\* A repair that can be done and that nothing interferes with is done.
RepairHeals ==
  \A p \in Proc :
    ( /\ call[p].at \in {"anchored", "hashing", "rebuilding"} /\ call[p].alone
      /\ Repairable /\ call[p].want = sidecar.sum )
    ~> (~call[p].alone \/ answer[p] \in {"intact", "repaired", "failed"})

\* "A corrupt or foreign sidecar can therefore only make a repair *fail*, never
\* overwrite good data" (README.md:270).
GoodIsKept ==
  [][\A p \in Proc : Replace(p) => \E i \in DOMAIN File : File[i] \in rotten]_vars

\* "The atomic temp-and-rename write means a crash mid-repair never leaves a
\* half-written original" (README.md:270): what is there after a loss of power
\* was there before it, or was put there whole.
NeverHalfWritten ==
  [][LosePower => File' \in past \cup unowned]_vars
=============================================================================
