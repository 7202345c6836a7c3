------------------------- MODULE CorrectFile_proofs -------------------------
(***************************************************************************)
(* Proofs about CorrectFile.  A repair puts nothing into a file that was   *)
(* not there before or in a sidecar that was given for it, and nothing but *)
(* what its caller named, whatever runs at the same time.  What a scan or  *)
(* a hash that nothing interfered with tells its caller is true of the     *)
(* file, and the groups that a scan counts as lost are those that a repair *)
(* cannot rebuild.                                                         *)
(***************************************************************************)
EXTENDS CorrectFile, SequenceTheorems, FiniteSetTheorems, TLAPS

Known == past \cup unowned

Repairing == {"anchored", "hashing", "rebuilding"}

(***************************************************************************)
(* The inductive invariant.  A generation that is alone has read the       *)
(* beginning of the file as it is; a repair wants a stream that is known.  *)
(***************************************************************************)
FilesOK ==
  /\ files \in Seq(Stream) /\ Len(files) > 0
  /\ events \in 0..MaxEvents
  /\ past \subseteq Stream /\ unowned \subseteq Stream
  /\ "file" \in unflushed => Len(files) > 1

SumKnown ==
  Opens(sidecar) => DOMAIN sidecar = {"sum", "parity"} /\ sidecar.sum \in Known

ReadOK(p) ==
  /\ call[p].seen \in Stream /\ call[p].size \in Nat /\ call[p].fd \in 0..Len(files)
  /\ call[p].alone =>
       /\ call[p].fd \in {0, Len(files)}
       /\ call[p].size = Len(File) /\ Len(call[p].seen) <= call[p].size
       /\ call[p].seen = SubSeq(File, 1, Len(call[p].seen))

WriteOK(p) == call[p].seen \in Stream /\ (call[p].alone => call[p].seen = File)

WantOK(p) ==
  call[p].want \in Known /\ (call[p].anchor # <<>> => call[p].want = call[p].anchor)

CallOK(p) ==
  /\ DOMAIN call[p] = DOMAIN Idle
  /\ At(p, "reading") => ReadOK(p)
  /\ At(p, "writing") => WriteOK(p)
  /\ call[p].at \in Repairing => WantOK(p)

CallsOK == DOMAIN call = Proc /\ \A p \in Proc : CallOK(p)

Inv == FilesOK /\ SumKnown /\ NothingInvented /\ CallsOK

-----------------------------------------------------------------------------
(* Streams.                                                                *)

LEMMA FileType ==
  ASSUME FilesOK
  PROVE  File \in Stream /\ Len(files) \in Nat /\ Len(files) \in DOMAIN files
BY DEF FilesOK, File, Stream

LEMMA WindowType ==
  ASSUME NEW s \in Stream, NEW k \in Nat, NEW n \in Nat, WindowEnd(k, n) <= Len(s)
  PROVE  Window(s, k, n) \in Stream
<1>1. k + 1 \in 1..Len(s) + 1 \/ k + 1 > WindowEnd(k, n)
  BY ShardsAssumption DEF WindowEnd, Smaller, Stream
<1>2. WindowEnd(k, n) \in Int
  BY ShardsAssumption DEF WindowEnd, Smaller
<1>3. \A i \in k + 1..WindowEnd(k, n) : s[i] \in Value
  BY <1>2 DEF Stream
<1>4. QED
  BY <1>2, <1>3, SubSeqProperties DEF Window, Stream

\* A window follows what has been read, up to the end or a window further.
LEMMA WindowFollows ==
  ASSUME NEW s \in Stream, NEW k \in Nat, k < Len(s),
         NEW t, t = SubSeq(s, 1, k)
  PROVE  LET r == t \o Window(s, k, Len(s))
         IN  r \in Stream /\ Len(r) \in Nat /\ Len(r) <= Len(s) /\ r = SubSeq(s, 1, Len(r))
<1> DEFINE e == WindowEnd(k, Len(s))
<1>1. e \in Nat /\ k + 1 <= e /\ e <= Len(s) /\ Len(s) \in Nat
  BY ShardsAssumption DEF WindowEnd, Smaller, Stream
<1>2. t \o Window(s, k, Len(s)) = SubSeq(s, 1, e)
  <2>1. s \in Seq(Value) /\ 1 \in 1..Len(s) + 1 /\ k \in 1 - 1..Len(s) /\ e \in k..Len(s)
    BY <1>1 DEF Stream
  <2>2. SubSeq(s, 1, k) \o SubSeq(s, k + 1, e) = SubSeq(s, 1, e)
    BY <2>1, ConcatAdjacentSubSeq
  <2>3. QED
    BY <2>2 DEF Window
<1>3. SubSeq(s, 1, e) \in Stream /\ Len(SubSeq(s, 1, e)) = e
  BY <1>1, SubSeqProperties DEF Stream
<1>4. QED
  BY <1>1, <1>2, <1>3

-----------------------------------------------------------------------------
(* What a step does to the calls it does not belong to.                    *)

\* A call that the step leaves as it is, while the files stay.
LEMMA Untouched ==
  ASSUME NEW p, CallOK(p), call'[p] = call[p], files' = files, Known \subseteq Known'
  PROVE  CallOK(p)'
BY DEF CallOK, At, ReadOK, WriteOK, WantOK, File

\* A call that is idle, or no longer alone.
LEMMA Touched ==
  ASSUME NEW p, CallOK(p), FilesOK, FilesOK', Len(files) <= Len(files'), Known \subseteq Known',
         \/ call'[p] = Idle
         \/ At(p, "idle") /\ call'[p] = call[p]
         \/ call'[p] = [call[p] EXCEPT !.alone = FALSE]
  PROVE  CallOK(p)'
<1>1. CASE call'[p] = Idle
  BY <1>1 DEF CallOK, At, Idle, Repairing
<1>3. CASE At(p, "idle") /\ call'[p] = call[p]
  BY <1>3 DEF CallOK, At, Idle, Repairing
<1>2. CASE call'[p] = [call[p] EXCEPT !.alone = FALSE]
  <2>1. DOMAIN call'[p] = DOMAIN Idle
    BY <1>2 DEF CallOK
  <2>2. /\ call'[p].at = call[p].at /\ call'[p].seen = call[p].seen /\ call'[p].size = call[p].size
        /\ call'[p].fd = call[p].fd /\ call'[p].want = call[p].want
        /\ call'[p].anchor = call[p].anchor /\ call'[p].alone = FALSE
    BY <1>2 DEF CallOK, Idle
  <2>3. call[p].fd \in 0..Len(files) => call[p].fd \in 0..Len(files')
    BY DEF FilesOK
  <2>4. QED
    BY <2>1, <2>2, <2>3 DEF CallOK, At, ReadOK, WriteOK, WantOK
<1>4. QED
  BY <1>1, <1>2, <1>3

-----------------------------------------------------------------------------
(* A step of one call that leaves the disk as it is.                       *)

LEMMA OwnStep ==
  ASSUME NEW p \in Proc, NEW c, Inv, CallOK(p)',
         call' = [call EXCEPT ![p] = c], UNCHANGED <<files, sidecar, unflushed, past, unowned>>,
         events' \in 0..MaxEvents
  PROVE  Inv'
<1>1. FilesOK'
  BY DEF Inv, FilesOK
<1>2. SumKnown' /\ NothingInvented'
  BY DEF Inv, SumKnown, NothingInvented, Known, File
<1>3. DOMAIN call' = Proc
  BY DEF Inv, CallsOK
<1>4. ASSUME NEW q \in Proc PROVE CallOK(q)'
  <2>1. CASE q = p
    BY <2>1
  <2>2. CASE q # p
    BY <2>2, Untouched DEF Inv, CallsOK, Known
  <2>3. QED
    BY <2>1, <2>2
<1>5. QED
  BY <1>1, <1>2, <1>3, <1>4 DEF Inv, CallsOK

LEMMA EventStep ==
  ASSUME FilesOK, Event PROVE events' \in 0..MaxEvents
BY BoundAssumption DEF FilesOK, Event

LEMMA IdleOK ==
  ASSUME NEW p, call'[p] = Idle PROVE CallOK(p)'
BY DEF CallOK, At, Idle, Repairing

\* A call that returns.
LEMMA EndsStep ==
  ASSUME NEW p \in Proc, NEW a, Inv, Ends(p, a) PROVE Inv'
<1>1. call'[p] = Idle
  BY DEF Ends, Inv, CallsOK
<1>2. QED
  BY <1>1, IdleOK, OwnStep DEF Ends, history, Inv, FilesOK

\* A call that begins.
LEMMA BeginStep ==
  ASSUME NEW p \in Proc, NEW c, Inv, Begin(p, c), DOMAIN c = DOMAIN Idle,
         c.at = "reading" => /\ c.seen = <<>> /\ c.fd = 0 /\ c.size = Len(File),
         c.at # "writing",
         c.at \in Repairing =>
           /\ c.want \in Known /\ (c.anchor # <<>> => c.want = c.anchor)
  PROVE  Inv'
<1>1. call'[p] = c
  BY DEF Begin, Inv, CallsOK
<1>2. UNCHANGED <<files, sidecar, unflushed, past, unowned>>
  BY DEF Begin, history
<1>3. c.at = "reading" => ReadOK(p)'
  <2> SUFFICES ASSUME c.at = "reading" PROVE ReadOK(p)'
    OBVIOUS
  <2>1. File \in Seq(Value) /\ File' = File
    BY <1>2, FileType DEF Inv, Stream, File
  <2>2. <<>> = SubSeq(File, 1, 0)
    BY <2>1, SubSeqEmpty
  <2>3. <<>> \in Stream /\ Len(<<>>) = 0 /\ Len(File) \in Nat
    BY <2>1 DEF Stream
  <2>4. Len(files') \in Nat
    BY <1>2 DEF Inv, FilesOK
  <2>5. call'[p].seen = <<>> /\ call'[p].fd = 0 /\ call'[p].size = Len(File')
    BY <1>1, <2>1
  <2>6. call'[p].seen = SubSeq(File', 1, Len(call'[p].seen))
    BY <2>1, <2>2, <2>3, <2>5
  <2>7. Len(call'[p].seen) <= call'[p].size /\ call'[p].size \in Nat
    BY <2>1, <2>3, <2>5
  <2>8. QED
    BY <2>3, <2>4, <2>5, <2>6, <2>7 DEF ReadOK
<1>4. c.at \in Repairing => WantOK(p)'
  BY <1>1, <1>2 DEF WantOK, Known
<1>5. CallOK(p)'
  BY <1>1, <1>3, <1>4 DEF CallOK, At
<1>6. QED
  BY <1>2, <1>5, OwnStep, EventStep DEF Begin, Inv

\* A call that goes on within a scan or a repair.
LEMMA GoesStep ==
  ASSUME NEW p \in Proc, NEW c, Inv, Goes(p, c), DOMAIN c = DOMAIN Idle,
         c.at \in Repairing \cup {"scanning"},
         c.at \in Repairing => call[p].at \in Repairing,
         c.want = call[p].want, c.anchor = call[p].anchor
  PROVE  Inv'
<1>1. call'[p] = c
  BY DEF Goes, Inv, CallsOK
<1>2. UNCHANGED <<files, sidecar, unflushed, past, unowned>> /\ events' \in 0..MaxEvents
  BY DEF Goes, history, Inv, FilesOK
<1>3. CallOK(p)'
  BY <1>1, <1>2 DEF Inv, CallsOK, CallOK, At, WantOK, Known, Repairing
<1>4. QED
  BY <1>2, <1>3, OwnStep DEF Goes

-----------------------------------------------------------------------------
(* Generations.                                                            *)

LEMMA GenerateWindowStep ==
  ASSUME NEW p \in Proc, Inv, GenerateWindow(p) PROVE Inv'
<1> DEFINE w == NextWindow(p, call[p].size)
           c == [call[p] EXCEPT !.fd = Opened(p), !.seen = @ \o w]
<1>1. ReadOK(p) /\ DOMAIN call[p] = DOMAIN Idle /\ call[p].at = "reading"
  BY DEF GenerateWindow, Inv, CallsOK, CallOK, At
<1>2. Opened(p) \in 1..Len(files) /\ Len(files) \in Nat /\ files \in Seq(Stream)
  BY <1>1, FileType DEF Opened, ReadOK, Inv, FilesOK
<1>3. /\ c.fd = Opened(p) /\ c.seen = call[p].seen \o w /\ c.at = "reading"
      /\ c.size = call[p].size /\ c.alone = call[p].alone /\ DOMAIN c = DOMAIN Idle
  BY <1>1 DEF Idle
<1>7. call'[p] = c /\ call' = [call EXCEPT ![p] = c]
  BY DEF GenerateWindow, Goes, Inv, CallsOK
<1> HIDE DEF c
<1>4. w \in Stream
  <2>1. files[Opened(p)] \in Stream /\ Len(call[p].seen) \in Nat /\ call[p].size \in Nat
    BY <1>1, <1>2 DEF ReadOK, Stream
  <2>2. WindowEnd(Len(call[p].seen), call[p].size) <= Len(files[Opened(p)])
    BY DEF GenerateWindow, CanRead
  <2>3. QED
    BY <2>1, <2>2, WindowType DEF NextWindow
<1>5. c.seen \in Stream
  BY <1>1, <1>3, <1>4 DEF ReadOK, Stream
<1>6. call[p].alone =>
        /\ c.fd = Len(files) /\ c.size = Len(File) /\ Len(c.seen) <= c.size
        /\ c.seen = SubSeq(File, 1, Len(c.seen))
  <2> SUFFICES ASSUME call[p].alone PROVE /\ c.fd = Len(files) /\ c.size = Len(File)
                                          /\ Len(c.seen) <= c.size
                                          /\ c.seen = SubSeq(File, 1, Len(c.seen))
    OBVIOUS
  <2>1. c.fd = Len(files) /\ c.size = Len(File)
    BY <1>1, <1>3 DEF ReadOK, Opened
  <2>2. w = Window(File, Len(call[p].seen), Len(File))
    BY <2>1, <1>3 DEF NextWindow, File
  <2>3. File \in Stream /\ Len(call[p].seen) \in Nat /\ Len(call[p].seen) < Len(File)
    BY <1>1, <2>1, <1>3, FileType DEF Inv, GenerateWindow, ReadOK, Stream
  <2>4. call[p].seen = SubSeq(File, 1, Len(call[p].seen))
    BY <1>1 DEF ReadOK
  <2>5. LET r == call[p].seen \o Window(File, Len(call[p].seen), Len(File))
        IN  Len(r) <= Len(File) /\ r = SubSeq(File, 1, Len(r))
    BY <2>3, <2>4, WindowFollows
  <2>6. c.seen = call[p].seen \o Window(File, Len(call[p].seen), Len(File))
    BY <1>3, <2>2
  <2>7. Len(c.seen) <= Len(File) /\ c.seen = SubSeq(File, 1, Len(c.seen))
    BY <2>5, <2>6
  <2>8. QED
    BY <2>1, <2>7
<1>8. UNCHANGED <<files, sidecar, unflushed, past, unowned>> /\ events' \in 0..MaxEvents
  BY DEF GenerateWindow, Goes, history, Inv, FilesOK
<1>9. ReadOK(p)'
  <2>1. File' = File /\ files' = files
    BY <1>8 DEF File
  <2>2. c.size \in Nat /\ c.fd \in 0..Len(files)
    BY <1>1, <1>2, <1>3 DEF ReadOK
  <2>3. QED
    BY <2>1, <2>2, <1>3, <1>5, <1>6, <1>7 DEF ReadOK
<1>10. CallOK(p)'
  BY <1>3, <1>7, <1>9 DEF CallOK, At, Repairing
<1>11. QED
  BY <1>7, <1>8, <1>10, OwnStep

\* A step that disturbs the other calls.
LEMMA DisturbStep ==
  ASSUME NEW p \in Proc, Inv, FilesOK', SumKnown', NothingInvented', CallOK(p)',
         Known \subseteq Known', Len(files) <= Len(files'), DOMAIN call' = Proc,
         \A q \in Proc \ {p} : call'[q] = Disturb(p)[q]
  PROVE  Inv'
<1>1. ASSUME NEW q \in Proc \ {p} PROVE CallOK(q)'
  <2>1. \/ At(q, "idle") /\ call'[q] = call[q]
        \/ call'[q] = [call[q] EXCEPT !.alone = FALSE]
    BY DEF Disturb
  <2>2. QED
    BY <2>1, Touched DEF Inv, CallsOK
<1>2. \A q \in Proc : CallOK(q)'
  BY <1>1
<1>3. QED
  BY <1>2 DEF Inv, CallsOK

LEMMA EmptySidecarStep ==
  ASSUME NEW p \in Proc, Inv, EmptySidecar(p) PROVE Inv'
<1>1. ReadOK(p) /\ DOMAIN call[p] = DOMAIN Idle /\ DOMAIN call = Proc /\ Len(call[p].seen) = call[p].size
  BY DEF EmptySidecar, Inv, CallsOK, CallOK, At
<1>2. UNCHANGED <<files, past, unowned, events>> /\ sidecar' = Torn
  BY DEF EmptySidecar, history
<1>3. call'[p] = [call[p] EXCEPT !.at = "writing"] /\ DOMAIN call' = Proc
  BY <1>1 DEF EmptySidecar, Disturb
<1>4. \A q \in Proc \ {p} : call'[q] = Disturb(p)[q]
  BY DEF EmptySidecar, Disturb
<1>5. call[p].alone => call[p].seen = File
  <2>1. File \in Seq(Value)
    BY FileType DEF Inv, Stream
  <2>2. call[p].alone => call[p].seen = SubSeq(File, 1, Len(File))
    BY <1>1 DEF ReadOK
  <2>3. QED
    BY <2>1, <2>2, SubSeqFull
<1>6. call'[p].at = "writing" /\ call'[p].seen = call[p].seen /\ call'[p].alone = call[p].alone
      /\ DOMAIN call'[p] = DOMAIN Idle
  BY <1>1, <1>3 DEF Idle
<1>7. CallOK(p)'
  BY <1>1, <1>2, <1>5, <1>6 DEF CallOK, At, WriteOK, ReadOK, Repairing, File
<1>8. FilesOK' /\ Len(files) <= Len(files')
  BY <1>2 DEF EmptySidecar, Inv, FilesOK
<1>9. SumKnown' /\ NothingInvented' /\ Known \subseteq Known'
  BY <1>2 DEF Inv, SumKnown, Opens, NothingInvented, Known, File
<1>10. QED
  BY <1>3, <1>4, <1>7, <1>8, <1>9, DisturbStep

LEMMA FillSidecarStep ==
  ASSUME NEW p \in Proc, Inv, FillSidecar(p) PROVE Inv'
<1>1. WriteOK(p) /\ DOMAIN call = Proc
  BY DEF FillSidecar, Inv, CallsOK, CallOK, At
<1>2. UNCHANGED <<files, past, events>> /\ unowned \subseteq unowned' /\ unowned' \subseteq Stream
  BY <1>1 DEF FillSidecar, WriteOK, Inv, FilesOK
<1>3. call'[p] = Idle /\ DOMAIN call' = Proc
  BY <1>1 DEF FillSidecar, Disturb
<1>4. \A q \in Proc \ {p} : call'[q] = Disturb(p)[q]
  BY DEF FillSidecar, Disturb
<1>5. call[p].seen \in Known'
  BY <1>1, <1>2 DEF FillSidecar, WriteOK, Inv, NothingInvented, Known
<1>6. SumKnown'
  <2>1. sidecar'.sum = call[p].seen /\ DOMAIN sidecar' = {"sum", "parity"}
    BY DEF FillSidecar, Sidecar
  <2>2. QED
    BY <1>5, <2>1 DEF SumKnown
<1>7. FilesOK' /\ Len(files) <= Len(files')
  BY <1>2 DEF FillSidecar, Inv, FilesOK
<1>8. NothingInvented' /\ Known \subseteq Known'
  BY <1>2 DEF Inv, NothingInvented, Known, File
<1>9. QED
  BY <1>3, <1>4, <1>6, <1>7, <1>8, IdleOK, DisturbStep

-----------------------------------------------------------------------------
(* Repairs.                                                                *)

LEMMA CheckStep ==
  ASSUME NEW p \in Proc, Inv, Check(p) PROVE Inv'
<1>1. DOMAIN call[p] = DOMAIN Idle /\ call[p].at = "anchored"
  BY DEF Check, Inv, CallsOK, CallOK, At
<1>2. PICK c : /\ Goes(p, c)
               /\ c = [call[p] EXCEPT !.at = "hashing", !.opened = ParitySource(p), !.size = Len(File)]
  BY DEF Check
<1>3. c.at = "hashing" /\ c.want = call[p].want /\ c.anchor = call[p].anchor
      /\ DOMAIN c = DOMAIN Idle
  BY <1>1, <1>2 DEF Idle
<1>4. QED
  BY <1>1, <1>2, <1>3, GoesStep DEF Repairing

LEMMA ReadsStep ==
  ASSUME NEW p \in Proc, Inv, ScanWindow(p) \/ HashWindow(p) \/ RebuildWindow(p) PROVE Inv'
<1>1. DOMAIN call[p] = DOMAIN Idle /\ call[p].at \in Repairing \cup {"scanning"}
  BY DEF ScanWindow, HashWindow, RebuildWindow, Inv, CallsOK, CallOK, At, Repairing
<1>2. \E c : /\ Goes(p, c) /\ DOMAIN c = DOMAIN Idle /\ c.at = call[p].at
             /\ c.want = call[p].want /\ c.anchor = call[p].anchor
  <2>1. CASE ScanWindow(p)
    <3>1. PICK c, s, n : Goes(p, c) /\ c = [call[p] EXCEPT !.fd = Opened(p), !.seen = s, !.lost = n]
      BY <2>1 DEF ScanWindow
    <3>2. c.at = call[p].at /\ c.want = call[p].want /\ c.anchor = call[p].anchor
          /\ DOMAIN c = DOMAIN Idle
      BY <1>1, <3>1 DEF Idle
    <3>3. QED
      BY <3>1, <3>2
  <2>2. CASE HashWindow(p) \/ RebuildWindow(p)
    <3>1. PICK c, s : Goes(p, c) /\ c = [call[p] EXCEPT !.fd = Opened(p), !.seen = s]
      BY <2>2 DEF HashWindow, RebuildWindow
    <3>2. c.at = call[p].at /\ c.want = call[p].want /\ c.anchor = call[p].anchor
          /\ DOMAIN c = DOMAIN Idle
      BY <1>1, <3>1 DEF Idle
    <3>3. QED
      BY <3>1, <3>2
  <2>3. QED
    BY <2>1, <2>2
<1>3. QED
  BY <1>1, <1>2, GoesStep

LEMMA HashEndsStep ==
  ASSUME NEW p \in Proc, Inv, HashEnds(p) PROVE Inv'
<1>1. CASE call[p].seen = call[p].want
  BY <1>1, EndsStep DEF HashEnds
<1>2. CASE call[p].seen # call[p].want
  <2>1. DOMAIN call[p] = DOMAIN Idle /\ call[p].at = "hashing"
    BY DEF HashEnds, Inv, CallsOK, CallOK, At
  <2>2. PICK c : Goes(p, c) /\ c = [call[p] EXCEPT !.at = "rebuilding", !.fd = 0, !.seen = <<>>]
    BY <1>2 DEF HashEnds
  <2>3. c.at = "rebuilding" /\ c.want = call[p].want /\ c.anchor = call[p].anchor
        /\ DOMAIN c = DOMAIN Idle
    BY <2>1, <2>2 DEF Idle
  <2>4. QED
    BY <2>1, <2>2, <2>3, GoesStep DEF Repairing
<1>3. QED
  BY <1>1, <1>2

LEMMA Replaced ==
  ASSUME NEW p \in Proc, Inv, Replace(p)
  PROVE  /\ files' = Append(files, call[p].want) /\ File' = call[p].want
         /\ FilesOK' /\ Len(files) <= Len(files') /\ WantOK(p)
<1>1. WantOK(p) /\ call[p].want \in Stream /\ files \in Seq(Stream)
  BY DEF Replace, Inv, CallsOK, CallOK, At, Repairing, WantOK, FilesOK, Known
<1>2. files' = Append(files, call[p].want)
  BY DEF Replace, WantedStream
<1>3. files' \in Seq(Stream) /\ Len(files') = Len(files) + 1 /\ files'[Len(files')] = call[p].want
  BY <1>1, <1>2
<1>4. UNCHANGED <<past, unowned, events>>
  BY DEF Replace, history
<1>5. QED
  BY <1>1, <1>2, <1>3, <1>4 DEF File, Inv, FilesOK

LEMMA ReplaceStep ==
  ASSUME NEW p \in Proc, Inv, Replace(p) PROVE Inv'
<1>1. UNCHANGED <<past, unowned, sidecar>>
  BY DEF Replace, history
<1>2. call'[p] = Idle /\ DOMAIN call' = Proc /\ \A q \in Proc \ {p} : call'[q] = Disturb(p)[q]
  BY DEF Replace, Inv, CallsOK, Disturb
<1>3. SumKnown' /\ Known \subseteq Known'
  BY <1>1 DEF Inv, SumKnown, Known
<1>4. NothingInvented'
  BY <1>1, Replaced DEF NothingInvented, WantOK, Known
<1>5. QED
  BY <1>2, <1>3, <1>4, Replaced, IdleOK, DisturbStep

-----------------------------------------------------------------------------
(* What happens from outside.                                              *)

\* All calls are idle, or no longer alone.
LEMMA TouchesStep ==
  ASSUME Inv, FilesOK', SumKnown', NothingInvented', Known \subseteq Known',
         Len(files) <= Len(files'), Touches
  PROVE  Inv'
<1>1. DOMAIN call' = Proc
  BY DEF Touches
<1>2. ASSUME NEW q \in Proc PROVE CallOK(q)'
  <2>1. call'[q] = Idle \/ call'[q] = [call[q] EXCEPT !.alone = FALSE]
    BY DEF Touches
  <2>2. QED
    BY <2>1, Touched DEF Inv, CallsOK
<1>3. QED
  BY <1>1, <1>2 DEF Inv, CallsOK

LEMMA ChangeFileStep ==
  ASSUME NEW stream \in Stream, Inv, ChangeFile(stream) PROVE Inv'
<1>1. FilesOK' /\ Len(files') = Len(files) /\ File' = stream
  <2>1. files \in Seq(Stream) /\ Len(files) \in DOMAIN files
    BY FileType DEF Inv, FilesOK
  <2>2. files' \in Seq(Stream) /\ Len(files') = Len(files) /\ files'[Len(files)] = stream
    BY <2>1 DEF ChangeFile
  <2>3. events' \in 0..MaxEvents /\ UNCHANGED <<unflushed, unowned>> /\ past' \subseteq Stream
    BY EventStep DEF ChangeFile, Inv, FilesOK
  <2>4. QED
    BY <2>2, <2>3 DEF Inv, FilesOK, File
<1>2. SumKnown' /\ Known \subseteq Known'
  BY DEF ChangeFile, Inv, SumKnown, Known
<1>3. NothingInvented'
  BY <1>1 DEF ChangeFile, NothingInvented
<1>4. QED
  BY <1>1, <1>2, <1>3, TouchesStep DEF ChangeFile, Inv, FilesOK

\* Writes and rot draw a value.
LEMMA WritesStep ==
  ASSUME Inv, (\E i \in DOMAIN File : Write(i) \/ Rot(i)) \/ Grow \/ Shrink
  PROVE  Inv'
<1>1. File \in Seq(Value) /\ Stream = Seq(Value)
  BY FileType DEF Inv, Stream
<1>2. ASSUME Event PROVE Fresh \in Value
  BY <1>2, BoundAssumption DEF Event, Fresh, Value, Inv, FilesOK
<1>3. CASE \E i \in DOMAIN File : Write(i) \/ Rot(i)
  <2>1. PICK i \in DOMAIN File : ChangeFile([File EXCEPT ![i] = Fresh])
    BY <1>3 DEF Write, Rot
  <2>2. [File EXCEPT ![i] = Fresh] \in Stream
    BY <1>1, <1>2, <2>1 DEF ChangeFile
  <2>3. QED
    BY <2>1, <2>2, ChangeFileStep
<1>4. CASE Grow
  <2>1. Append(File, Fresh) \in Stream
    BY <1>1, <1>2, <1>4 DEF Grow, ChangeFile
  <2>2. QED
    BY <1>4, <2>1, ChangeFileStep DEF Grow
<1>5. CASE Shrink
  <2>1. SubSeq(File, 1, Len(File) - 1) \in Stream
    BY <1>1, <1>5 DEF Shrink
  <2>2. QED
    BY <1>5, <2>1, ChangeFileStep DEF Shrink
<1>6. QED
  BY <1>3, <1>4, <1>5

LEMMA ChangeSidecarStep ==
  ASSUME NEW s, Inv, ChangeSidecar(s),
         s = Torn \/ (DOMAIN s = DOMAIN sidecar /\ s.sum = sidecar.sum)
  PROVE  Inv'
<1>1. UNCHANGED <<files, unflushed, past, unowned>> /\ sidecar' = s /\ Opens(sidecar)
  BY DEF ChangeSidecar, history
<1>2. FilesOK' /\ Len(files) <= Len(files')
  BY <1>1, EventStep DEF ChangeSidecar, Inv, FilesOK
<1>3. SumKnown' /\ NothingInvented' /\ Known \subseteq Known'
  BY <1>1 DEF Inv, SumKnown, Opens, NothingInvented, Known, File
<1>4. QED
  BY <1>2, <1>3, TouchesStep DEF ChangeSidecar

LEMMA RotSidecarStep ==
  ASSUME Inv, RotSidecar PROVE Inv'
<1>1. DOMAIN sidecar = {"sum", "parity"}
  BY DEF RotSidecar, Inv, SumKnown
<1>2. \E s : ChangeSidecar(s) /\ (s = Torn \/ (DOMAIN s = DOMAIN sidecar /\ s.sum = sidecar.sum))
  <2>1. CASE ChangeSidecar(Torn)
    BY <2>1
  <2>2. ASSUME NEW k, NEW g, RotParity(k, g)
        PROVE  \E s : ChangeSidecar(s) /\ (DOMAIN s = DOMAIN sidecar /\ s.sum = sidecar.sum)
    <3>1. PICK s, t : ChangeSidecar(s) /\ s = [sidecar EXCEPT !.parity = t]
      BY <2>2 DEF RotParity
    <3>2. QED
      BY <1>1, <3>1
  <2>3. ASSUME NEW k, NEW i, RotChecksum(k, i)
        PROVE  \E s : ChangeSidecar(s) /\ (DOMAIN s = DOMAIN sidecar /\ s.sum = sidecar.sum)
    <3>1. PICK s, t : ChangeSidecar(s) /\ s = [sidecar EXCEPT !.parity = t]
      BY <2>3 DEF RotChecksum
    <3>2. QED
      BY <1>1, <3>1
  <2>4. QED
    BY <2>1, <2>2, <2>3 DEF RotSidecar
<1>3. QED
  BY <1>2, ChangeSidecarStep

LEMMA FailStep ==
  ASSUME NEW p \in Proc, Inv, Fail(p) PROVE Inv'
<1>1. call'[p] = Idle
  BY DEF Fail, Inv, CallsOK
<1>2. QED
  BY <1>1, IdleOK, OwnStep, EventStep DEF Fail, history, Inv

LEMMA FlushStep ==
  ASSUME Inv, Flush PROVE Inv'
<1>1. UNCHANGED <<files, sidecar, call, events, past, unowned>> /\ unflushed' = {}
  BY DEF Flush, history
<1>2. FilesOK' /\ SumKnown' /\ NothingInvented'
  BY <1>1 DEF Inv, FilesOK, SumKnown, NothingInvented, Known, File
<1>3. ASSUME NEW q \in Proc PROVE CallOK(q)'
  BY <1>1, Untouched DEF Inv, CallsOK, Known
<1>4. QED
  BY <1>1, <1>2, <1>3 DEF Inv, CallsOK

LEMMA LosePowerStep ==
  ASSUME Inv, LosePower PROVE Inv'
<1>1. FilesLeft \subseteq Stream
  <2>1. File \in Seq(Value) /\ Stream = Seq(Value)
    BY FileType DEF Inv, Stream
  <2>2. "file" \in unflushed => files[Len(files) - 1] \in Stream
    BY DEF Inv, FilesOK
  <2>3. \A n \in 1..Len(File) : SubSeq(File, 1, n) \in Seq(Value)
    BY <2>1
  <2>4. QED
    BY <2>1, <2>2, <2>3 DEF FilesLeft
<1>2. PICK stream \in FilesLeft : files' = <<stream>> /\ past' = past \cup {stream}
  BY DEF LosePower
<1>3. files' \in Seq(Stream) /\ Len(files') = 1 /\ File' = stream
  BY <1>1, <1>2 DEF File
<1>4. unowned' = unowned /\ unflushed' = {} /\ events' \in 0..MaxEvents /\ sidecar' \in {sidecar, Torn}
  BY EventStep DEF LosePower, Inv, SidecarsLeft
<1>5. FilesOK'
  BY <1>1, <1>2, <1>3, <1>4 DEF Inv, FilesOK
<1>6. SumKnown' /\ NothingInvented'
  BY <1>2, <1>3, <1>4 DEF Inv, SumKnown, Opens, NothingInvented, Known
<1>7. CallsOK'
  BY IdleOK DEF LosePower, CallsOK
<1>8. QED
  BY <1>5, <1>6, <1>7 DEF Inv

-----------------------------------------------------------------------------
(* All together.                                                           *)

LEMMA StartStep ==
  ASSUME NEW p \in Proc, Inv, Start(p) PROVE Inv'
<1>1. CASE Generate(p)
  <2>1. PICK c : Begin(p, c) /\ c = [Idle EXCEPT !.at = "reading", !.size = Len(File)]
    BY <1>1 DEF Generate
  <2>2. /\ DOMAIN c = DOMAIN Idle /\ c.at = "reading" /\ c.seen = <<>>
        /\ c.fd = 0 /\ c.size = Len(File)
    BY <2>1 DEF Idle
  <2>3. QED
    BY <2>1, <2>2, BeginStep DEF Repairing
<1>2. CASE Verify(p)
  <2>1. PICK c : Begin(p, c) /\ c = [Idle EXCEPT !.at = "scanning", !.opened = sidecar, !.size = Len(File)]
    BY <1>2 DEF Verify
  <2>2. DOMAIN c = DOMAIN Idle /\ c.at = "scanning"
    BY <2>1 DEF Idle
  <2>3. QED
    BY <2>1, <2>2, BeginStep DEF Repairing
<1>3. ASSUME NEW a, Repair(p, a) PROVE Inv'
  <2>1. PICK c : Begin(p, c) /\ c = [Idle EXCEPT !.at = "anchored", !.want = sidecar.sum, !.anchor = a]
    BY <1>3 DEF Repair
  <2>2. sidecar.sum \in Known /\ (a # <<>> => a = sidecar.sum)
    BY <1>3 DEF Repair, Inv, SumKnown
  <2>3. DOMAIN c = DOMAIN Idle /\ c.at = "anchored" /\ c.want = sidecar.sum /\ c.anchor = a
    BY <2>1 DEF Idle
  <2>4. QED
    BY <2>1, <2>2, <2>3, BeginStep
<1>4. ASSUME NEW stream \in Known, RepairExpected(p, stream) \/ RepairFromBytes(p, stream)
      PROVE  Inv'
  <2>1. CASE RepairExpected(p, stream)
    <3>1. PICK c : /\ Begin(p, c)
                   /\ c = [Idle EXCEPT !.at = "anchored", !.want = stream, !.anchor = stream]
      BY <2>1 DEF RepairExpected
    <3>2. DOMAIN c = DOMAIN Idle /\ c.at = "anchored" /\ c.want = stream /\ c.anchor = stream
      BY <3>1 DEF Idle
    <3>3. QED
      BY <3>1, <3>2, BeginStep
  <2>2. CASE RepairFromBytes(p, stream)
    <3>1. PICK c : /\ Begin(p, c)
                   /\ c = [Idle EXCEPT !.at = "anchored", !.want = stream, !.anchor = stream,
                                       !.live = FALSE, !.opened = sidecar]
      BY <2>2 DEF RepairFromBytes
    <3>2. DOMAIN c = DOMAIN Idle /\ c.at = "anchored" /\ c.want = stream /\ c.anchor = stream
      BY <3>1 DEF Idle
    <3>3. QED
      BY <3>1, <3>2, BeginStep
  <2>3. QED
    BY <1>4, <2>1, <2>2
<1>5. QED
  BY <1>1, <1>2, <1>3, <1>4 DEF Start, Known

LEMMA WorkStep ==
  ASSUME NEW p \in Proc, Inv, Work(p) PROVE Inv'
<1>1. CASE GenerateWindow(p) \/ EmptySidecar(p) \/ FillSidecar(p)
  BY <1>1, GenerateWindowStep, EmptySidecarStep, FillSidecarStep
<1>2. CASE ScanEnds(p) \/ Refuse(p)
  BY <1>2, EndsStep DEF ScanEnds, Refuse
<1>3. CASE ScanWindow(p) \/ HashWindow(p) \/ RebuildWindow(p)
  BY <1>3, ReadsStep
<1>4. CASE Check(p) \/ HashEnds(p) \/ Replace(p)
  BY <1>4, CheckStep, HashEndsStep, ReplaceStep
<1>5. QED
  BY <1>1, <1>2, <1>3, <1>4 DEF Work

LEMMA InvInit == Init => Inv
<1> SUFFICES ASSUME Init PROVE Inv
  OBVIOUS
<1>1. Original \in Stream /\ Given \subseteq Stream
  <2>1. \A s \in Seq({0, 1}) : s \in Seq(Value)
    BY BoundAssumption DEF Value
  <2>2. \A s \in Seq({0}) : s \in Seq(Value)
    BY BoundAssumption DEF Value
  <2>3. QED
    BY <2>1, <2>2, StreamAssumption DEF Stream
<1>2. files \in Seq(Stream) /\ Len(files) = 1 /\ File = Original
  BY <1>1 DEF Init, File
<1>3. FilesOK
  BY <1>1, <1>2, BoundAssumption DEF Init, FilesOK
<1>4. SumKnown
  <2>1. CASE sidecar = Missing
    BY <2>1 DEF SumKnown, Opens
  <2>2. CASE \E s \in Given : sidecar = Sidecar(s)
    <3>1. PICK s \in Given : sidecar = Sidecar(s)
      BY <2>2
    <3>2. DOMAIN sidecar = {"sum", "parity"} /\ sidecar.sum = s
      BY <3>1 DEF Sidecar
    <3>3. QED
      BY <3>2 DEF SumKnown, Known, Init
  <2>3. QED
    BY <2>1, <2>2 DEF Init
<1>5. NothingInvented
  BY <1>2 DEF Init, NothingInvented
<1>6. CallsOK
  BY DEF Init, CallsOK, CallOK, At, Idle, Repairing
<1>7. QED
  BY <1>3, <1>4, <1>5, <1>6 DEF Inv

LEMMA InvStep == Inv /\ [Next]_vars => Inv'
<1> SUFFICES ASSUME Inv, [Next]_vars PROVE Inv'
  OBVIOUS
<1>1. ASSUME NEW p \in Proc, Start(p) \/ Work(p) PROVE Inv'
  BY <1>1, StartStep, WorkStep
<1>2. CASE Outside
  BY <1>2, WritesStep, RotSidecarStep, FlushStep, LosePowerStep, FailStep DEF Outside
<1>3. CASE UNCHANGED vars
  <2>1. UNCHANGED <<files, sidecar, unflushed, call, events, past, unowned>>
    BY <1>3 DEF vars, history
  <2>2. FilesOK' /\ SumKnown' /\ NothingInvented'
    BY <2>1 DEF Inv, FilesOK, SumKnown, NothingInvented, Known, File
  <2>3. ASSUME NEW q \in Proc PROVE CallOK(q)'
    BY <2>1, Untouched DEF Inv, CallsOK, Known
  <2>4. QED
    BY <2>1, <2>2, <2>3 DEF Inv, CallsOK
<1>4. QED
  BY <1>1, <1>2, <1>3 DEF Next

\* Whatever generations, scans and repairs run at the same time, and whatever
\* is written, rots, fails or loses power meanwhile: the file holds what it once
\* held, or a stream that a sidecar was given for which was not read off it at
\* one moment.
THEOREM NothingEverInvented == Spec => []NothingInvented
<1>1. Inv => NothingInvented
  BY DEF Inv
<1>2. QED
  BY <1>1, InvInit, InvStep, PTL DEF Spec

\* A repair with an anchor (--expect-sha256, or the sum that a sync index keeps)
\* puts in place what the anchor names, although the sidecar is opened twice and
\* can be written in between.
THEOREM AnchorAlwaysKept == Spec => AnchorKept
<1>1. ASSUME NEW p \in Proc, Inv, Replace(p), call[p].anchor # <<>>
      PROVE  File' = call[p].anchor
  BY <1>1, Replaced DEF WantOK
<1>2. Inv => \A p \in Proc : Replace(p) /\ call[p].anchor # <<>> => File' = call[p].anchor
  BY <1>1
<1>3. QED
  BY <1>2, InvInit, InvStep, PTL DEF Spec, AnchorKept

-----------------------------------------------------------------------------
(* The inductive invariant, of a call c, the files fs and the sidecar s.   *)

Newest(fs) == fs[Len(fs)]

\* What has gone through the call is the beginning of the file as it is.
CalmRead(c, fs) ==
  /\ c.fd \in {0, Len(fs)} /\ Len(c.seen) <= Len(Newest(fs))
  /\ c.seen = SubSeq(Newest(fs), 1, Len(c.seen))

NoneLost(k, file, s) == LostGroups(Window(file, k, Len(file)), s.parity[k]) = {}

Scanned(c, fs, s) ==
  /\ Matches(s, Newest(fs)) /\ c.live /\ c.opened = s /\ c.size = Len(Newest(fs))
  /\ CalmRead(c, fs)
  /\ Len(c.seen) < c.size => Len(c.seen) \in Starts(c.size)
  /\ c.lost \in Nat
  /\ c.lost = 0 <=> \A k \in Starts(c.size) : k < Len(c.seen) => NoneLost(k, Newest(fs), s)

Hashed(c, fs, s) ==
  Opens(s) /\ c.opened = s /\ c.want = s.sum /\ CalmRead(c, fs)

Shape(c, fs) ==
  /\ DOMAIN c = DOMAIN Idle /\ c.at \in Places /\ c.fd \in 0..Len(fs) /\ c.size \in Nat
  /\ {c.want, c.anchor, c.seen} \subseteq Stream /\ SidecarOK(c.opened)
  /\ c.at # "hashing" => Len(c.seen) <= c.size
  /\ c.at = "anchored" => c.fd = 0 /\ c.seen = <<>>

Fit(c, fs, s) ==
  /\ Shape(c, fs)
  /\ c.alone /\ c.at = "scanning" => Scanned(c, fs, s)
  /\ c.alone /\ c.at = "hashing" => Hashed(c, fs, s)
  /\ c.alone /\ c.at = "anchored" /\ ~c.live => c.opened = s

\* A sidecar and the fields that its parities have.
SidecarWhole(s) ==
  /\ SidecarOK(s)
  /\ Opens(s) => /\ DOMAIN s = {"sum", "parity"}
                 /\ \A k \in DOMAIN s.parity : DOMAIN s.parity[k] = {"over", "doubted", "alive"}

Told == answer \in [Proc -> Answers] /\ rotten \subseteq Value /\ unflushed \subseteq {"file", "sidecar"}

AllFit == \A p \in Proc : Fit(call[p], files, sidecar)

ScanInv == Inv /\ SidecarWhole(sidecar) /\ Told /\ AllFit

-----------------------------------------------------------------------------
(* Windows and groups.                                                     *)

LEMMA WindowLength ==
  ASSUME NEW s \in Stream, NEW k \in Nat, NEW n \in Nat, k < n, WindowEnd(k, n) <= Len(s)
  PROVE  /\ WindowEnd(k, n) \in k + 1..n
         /\ Window(s, k, n) \in Stream /\ Len(Window(s, k, n)) = WindowEnd(k, n) - k
<1>1. WindowEnd(k, n) \in k + 1..n
  BY ShardsAssumption DEF WindowEnd, Smaller
<1>2. Window(s, k, n) \in Stream
  BY WindowType
<1>3. Len(Window(s, k, n)) = WindowEnd(k, n) - k
  <2>1. s \in Seq(Value) /\ k + 1 \in 1..Len(s) + 1 /\ WindowEnd(k, n) \in (k + 1) - 1..Len(s)
    BY <1>1 DEF Stream
  <2>2. QED
    BY <2>1, <1>1, SubSeqProperties DEF Window
<1>4. QED
  BY <1>1, <1>2, <1>3

\* Of the places where windows begin, the one at k is the only one in its window.
LEMMA OneStart ==
  ASSUME NEW n \in Nat, NEW k \in Starts(n), NEW j \in Starts(n), k <= j, j < k + WindowShards
  PROVE  j = k
<1> DEFINE w == WindowShards
<1>1. w \in Nat \ {0} /\ k \in Nat /\ j \in Nat /\ k % w = 0 /\ j % w = 0
  BY ShardsAssumption DEF Starts
<1> HIDE DEF w
<1>2. ASSUME NEW m \in Nat, m % w = 0 PROVE m \div w \in Int /\ m = w * (m \div w)
  BY <1>1, <1>2
<1>3. PICK a \in Int : k = w * a
  BY <1>1, <1>2
<1>4. PICK b \in Int : j = w * b
  BY <1>1, <1>2
<1>5. ~(b > a)
  <2> SUFFICES ASSUME b >= a + 1 PROVE FALSE
    BY <1>3, <1>4
  <2>1. w * b >= w * (a + 1)
    BY <1>1
  <2>2. w * (a + 1) = w * a + w
    BY <1>1
  <2>3. j < w * a + w
    BY <1>3 DEF w
  <2>4. QED
    BY <1>1, <1>4, <2>1, <2>2, <2>3
<1>6. ~(b < a)
  <2> SUFFICES ASSUME a >= b + 1 PROVE FALSE
    BY <1>3, <1>4
  <2>1. w * a >= w * (b + 1)
    BY <1>1
  <2>2. w * (b + 1) = w * b + w
    BY <1>1
  <2>3. QED
    BY <1>1, <1>3, <1>4, <2>1, <2>2
<1>7. QED
  BY <1>3, <1>4, <1>5, <1>6

\* Where a window that is full ends, the next one begins.
LEMMA NextStart ==
  ASSUME NEW n \in Nat, NEW k \in Starts(n), WindowEnd(k, n) < n
  PROVE  WindowEnd(k, n) \in Starts(n)
<1> DEFINE w == WindowShards
<1>1. w \in Nat \ {0} /\ k \in Nat /\ k % w = 0
  BY ShardsAssumption DEF Starts
<1>2. WindowEnd(k, n) = k + w /\ k + w \in 0..n - 1
  BY <1>1 DEF WindowEnd, Smaller
<1> HIDE DEF w
<1>3. PICK a \in Int : k = w * a
  <2>1. k \div w \in Int /\ k = w * (k \div w)
    BY <1>1
  <2> QED
    BY <2>1
<1>4. (k + w) % w = 0
  <2>1. w * (a + 1) = w * a + w /\ a + 1 \in Int
    BY <1>1
  <2>2. PICK q \in Int, r \in Int : q = (k + w) \div w /\ r = (k + w) % w /\ k + w = w * q + r /\ 0 <= r /\ r < w
    BY <1>1
  <2>3. w * (a + 1) = w * q + r
    BY <1>3, <2>1, <2>2
  <2>4. ~(q > a + 1)
    <3> SUFFICES ASSUME q >= (a + 1) + 1 PROVE FALSE
      BY <2>2
    <3>1. w * q >= w * ((a + 1) + 1)
      BY <1>1, <2>2
    <3>2. w * ((a + 1) + 1) = w * (a + 1) + w
      BY <1>1
    <3> QED
      BY <1>1, <2>2, <2>3, <3>1, <3>2
  <2>5. ~(q < a + 1)
    <3> SUFFICES ASSUME a + 1 >= q + 1 PROVE FALSE
      BY <2>2
    <3>1. w * (a + 1) >= w * (q + 1)
      BY <1>1, <2>2
    <3>2. w * (q + 1) = w * q + w
      BY <1>1, <2>2
    <3> QED
      BY <1>1, <2>2, <2>3, <3>1, <3>2
  <2>6. q = a + 1
    BY <2>2, <2>4, <2>5
  <2> QED
    BY <1>1, <2>2, <2>3, <2>6
<1> QED
  BY <1>2, <1>4 DEF Starts, w

\* What is damaged in a group can be counted, and so can the lost groups.
LEMMA DamageFinite ==
  ASSUME NEW window \in Stream, NEW parity, NEW g
  PROVE  /\ IsFiniteSet(Damaged(window, parity, g))
         /\ Cardinality(Damaged(window, parity, g)) \in Nat
         /\ Cardinality(Damaged(window, parity, g)) = 0 <=> Damaged(window, parity, g) = {}
         /\ IsFiniteSet(LostGroups(window, parity))
<1>1. IsFiniteSet(1..Len(window)) /\ DOMAIN window = 1..Len(window) /\ Len(window) \in Nat
  BY FS_Interval DEF Stream
<1>2. IsFiniteSet(Damaged(window, parity, g))
  <2>1. Damaged(window, parity, g) \in SUBSET (1..Len(window))
    BY <1>1 DEF Damaged
  <2>2. QED
    BY <1>1, <2>1, FS_Subset
<1>3. IsFiniteSet(LostGroups(window, parity))
  <2>1. GroupsOf(window) = { Group(i) : i \in 1..Len(window) }
    BY <1>1 DEF GroupsOf
  <2>2. IsFiniteSet(GroupsOf(window))
    <3> DEFINE f == [i \in 1..Len(window) |-> Group(i)]
    <3>1. f \in Surjection(1..Len(window), GroupsOf(window))
      BY <2>1 DEF Surjection
    <3>2. QED
      BY <1>1, <3>1, FS_Surjection
  <2>3. LostGroups(window, parity) \in SUBSET GroupsOf(window)
    BY DEF LostGroups
  <2>4. QED
    BY <2>2, <2>3, FS_Subset
<1>4. QED
  BY <1>2, <1>3, FS_CardinalityType, FS_EmptySet

-----------------------------------------------------------------------------
(* Sidecars.                                                               *)

\* The parity that a sidecar has for a window, and what it was computed over.
LEMMA ParityType ==
  ASSUME NEW s, SidecarOK(s), Opens(s), NEW k \in DOMAIN s.parity
  PROVE  /\ s.sum \in Stream /\ k \in Starts(Len(s.sum)) /\ k \in Nat /\ k < Len(s.sum)
         /\ s.parity[k].over = Window(s.sum, k, Len(s.sum)) /\ s.parity[k].over \in Stream
         /\ s.parity[k].alive \in [GroupsOf(s.parity[k].over) -> 0..ParityShards]
<1>1. /\ s.sum \in Stream /\ k \in Starts(Len(s.sum))
      /\ s.parity[k].over = Window(s.sum, k, Len(s.sum))
      /\ s.parity[k].alive \in [GroupsOf(s.parity[k].over) -> 0..ParityShards]
  BY DEF SidecarOK, Opens
<1>2. Len(s.sum) \in Nat /\ k \in Nat /\ k < Len(s.sum)
  BY <1>1 DEF Starts, Stream
<1>3. WindowEnd(k, Len(s.sum)) <= Len(s.sum)
  BY <1>2, ShardsAssumption DEF WindowEnd, Smaller
<1>4. QED
  BY <1>1, <1>2, <1>3, WindowLength

LEMMA NewParity ==
  ASSUME NEW w
  PROVE  /\ DOMAIN Parity(w) = {"over", "doubted", "alive"}
         /\ Parity(w).over = w /\ Parity(w).doubted = {}
         /\ Parity(w).alive \in [GroupsOf(w) -> 0..ParityShards]
<1>1. DOMAIN Parity(w) = {"over", "doubted", "alive"} /\ Parity(w).over = w
      /\ Parity(w).doubted = {} /\ Parity(w).alive = [g \in GroupsOf(w) |-> ParityShards]
  BY DEF Parity
<1>2. ParityShards \in 0..ParityShards
  BY ShardsAssumption
<1>3. QED
  BY <1>1, <1>2

LEMMA NewSidecar ==
  ASSUME NEW stream \in Stream
  PROVE  SidecarWhole(Sidecar(stream))
<1> DEFINE s == Sidecar(stream)
<1>1. /\ s.sum = stream /\ DOMAIN s = {"sum", "parity"} /\ DOMAIN s.parity = Starts(Len(stream))
      /\ \A k \in Starts(Len(stream)) : s.parity[k] = Parity(Window(stream, k, Len(stream)))
  BY DEF Sidecar
<1> HIDE DEF s
<1>2. ASSUME NEW k \in Starts(Len(stream))
      PROVE  /\ DOMAIN s.parity[k] = {"over", "doubted", "alive"}
             /\ s.parity[k].over = Window(stream, k, Len(stream))
             /\ s.parity[k].doubted = {}
             /\ s.parity[k].alive \in [GroupsOf(s.parity[k].over) -> 0..ParityShards]
  BY <1>1, NewParity
<1>3. SidecarOK(s)
  BY <1>1, <1>2 DEF SidecarOK
<1>4. QED
  BY <1>1, <1>2, <1>3 DEF SidecarWhole, s

\* A parity shard that rots leaves the sidecar what it was, with one fewer.
LEMMA RottenParity ==
  ASSUME NEW s, SidecarWhole(s), Opens(s), NEW k \in DOMAIN s.parity,
         NEW g \in DOMAIN s.parity[k].alive, s.parity[k].alive[g] > 0
  PROVE  SidecarWhole([s EXCEPT !.parity[k].alive[g] = @ - 1])
<1> DEFINE t == [s EXCEPT !.parity[k].alive[g] = @ - 1]
<1>1. SidecarOK(s) /\ DOMAIN s = {"sum", "parity"}
      /\ \A j \in DOMAIN s.parity : DOMAIN s.parity[j] = {"over", "doubted", "alive"}
  BY DEF SidecarWhole
<1>2. t.sum = s.sum /\ DOMAIN t = {"sum", "parity"} /\ DOMAIN t.parity = DOMAIN s.parity
      /\ \A j \in DOMAIN s.parity : j # k => t.parity[j] = s.parity[j]
  BY <1>1
<1>3. t.parity[k] = [s.parity[k] EXCEPT !.alive[g] = @ - 1]
  BY <1>1
<1> HIDE DEF t
<1>4. /\ DOMAIN t.parity[k] = {"over", "doubted", "alive"} /\ t.parity[k].over = s.parity[k].over
      /\ t.parity[k].doubted = s.parity[k].doubted
      /\ t.parity[k].alive = [s.parity[k].alive EXCEPT ![g] = @ - 1]
  BY <1>1, <1>3
<1>5. t.parity[k].alive \in [GroupsOf(t.parity[k].over) -> 0..ParityShards]
  BY <1>1, <1>4, ParityType, ShardsAssumption
<1>6. SidecarOK(t)
  BY <1>1, <1>2, <1>4, <1>5 DEF SidecarOK, Opens
<1>7. QED
  BY <1>1, <1>2, <1>4, <1>6 DEF SidecarWhole, t

LEMMA RottenChecksum ==
  ASSUME NEW s, SidecarWhole(s), Opens(s), NEW k \in DOMAIN s.parity,
         NEW i \in DOMAIN s.parity[k].over
  PROVE  SidecarWhole([s EXCEPT !.parity[k].doubted = @ \cup {i}])
<1> DEFINE t == [s EXCEPT !.parity[k].doubted = @ \cup {i}]
<1>1. SidecarOK(s) /\ DOMAIN s = {"sum", "parity"}
      /\ \A j \in DOMAIN s.parity : DOMAIN s.parity[j] = {"over", "doubted", "alive"}
  BY DEF SidecarWhole
<1>2. t.sum = s.sum /\ DOMAIN t = {"sum", "parity"} /\ DOMAIN t.parity = DOMAIN s.parity
      /\ \A j \in DOMAIN s.parity : j # k => t.parity[j] = s.parity[j]
  BY <1>1
<1>3. t.parity[k] = [s.parity[k] EXCEPT !.doubted = @ \cup {i}]
  BY <1>1
<1> HIDE DEF t
<1>4. /\ DOMAIN t.parity[k] = {"over", "doubted", "alive"} /\ t.parity[k].over = s.parity[k].over
      /\ t.parity[k].doubted = s.parity[k].doubted \cup {i}
      /\ t.parity[k].alive = s.parity[k].alive
  BY <1>1, <1>3
<1>5. SidecarOK(t)
  BY <1>1, <1>2, <1>4 DEF SidecarOK, Opens
<1>6. QED
  BY <1>1, <1>2, <1>4, <1>5 DEF SidecarWhole, t

-----------------------------------------------------------------------------
(* What can be rebuilt.                                                    *)

\* When a sidecar has parity for as long a window as this, rebuilding gives one
\* that is as long.
LEMMA RebuiltType ==
  ASSUME NEW window \in Stream, NEW parity, parity.over \in Stream,
         Len(parity.over) = Len(window)
  PROVE  Rebuilt(window, parity) \in Stream /\ Len(Rebuilt(window, parity)) = Len(window)
<1>1. DOMAIN window = 1..Len(window) /\ DOMAIN parity.over = 1..Len(window) /\ Len(window) \in Nat
  BY DEF Stream
<1>2. \A i \in 1..Len(window) : window[i] \in Value /\ parity.over[i] \in Value
  BY <1>1 DEF Stream
<1>3. Rebuilt(window, parity) \in [1..Len(window) -> Value]
  BY <1>1, <1>2 DEF Rebuilt
<1>4. QED
  BY <1>1, <1>3 DEF Stream

\* No group of a window is lost: then it is rebuilt; and if it is rebuilt, and
\* no checksum has rotted, no group of it is lost.
LEMMA LostOrRebuilt ==
  ASSUME NEW window \in Stream, NEW parity, parity.over \in Stream,
         Len(parity.over) = Len(window),
         parity.alive \in [GroupsOf(parity.over) -> 0..ParityShards]
  PROVE  /\ LostGroups(window, parity) = {} => Rebuilt(window, parity) = parity.over
         /\ parity.doubted = {} /\ Rebuilt(window, parity) = parity.over
              => LostGroups(window, parity) = {}
<1>1. DOMAIN window = DOMAIN parity.over /\ GroupsOf(window) = GroupsOf(parity.over)
  BY DEF Stream, GroupsOf
<1>2. ASSUME NEW g \in GroupsOf(window)
      PROVE  Enough(window, parity, g) <=> g \notin LostGroups(window, parity)
  <2>1. parity.alive[g] \in Nat /\ Cardinality(Damaged(window, parity, g)) \in Nat
    BY <1>1, DamageFinite, ShardsAssumption
  <2>2. QED
    BY <2>1, ShardsAssumption DEF Enough, Present, LostGroups
<1>3. ASSUME LostGroups(window, parity) = {} PROVE Rebuilt(window, parity) = parity.over
  <2>1. \A i \in DOMAIN window : Enough(window, parity, Group(i))
    BY <1>2, <1>3 DEF GroupsOf
  <2>2. Rebuilt(window, parity) = [i \in DOMAIN window |-> parity.over[i]]
    BY <2>1 DEF Rebuilt
  <2>3. QED
    BY <1>1, <2>2 DEF Stream
<1>4. ASSUME parity.doubted = {}, Rebuilt(window, parity) = parity.over,
             NEW g \in LostGroups(window, parity)
      PROVE  FALSE
  <2>1. g \in GroupsOf(window) /\ ~Enough(window, parity, g)
        /\ Cardinality(Damaged(window, parity, g)) > parity.alive[g]
    BY <1>2, <1>4 DEF LostGroups
  <2>2. Damaged(window, parity, g) # {}
    BY <1>1, <2>1, DamageFinite, ShardsAssumption
  <2>3. PICK i \in DOMAIN window : Group(i) = g /\ window[i] # parity.over[i]
    BY <1>4, <2>2 DEF Damaged
  <2>4. Rebuilt(window, parity)[i] = window[i]
    BY <2>1, <2>3 DEF Rebuilt
  <2>5. QED
    BY <1>4, <2>3, <2>4
<1>5. QED
  BY <1>3, <1>4

-----------------------------------------------------------------------------
(* Calls: what a step does to those that it does not belong to, and to its *)
(* own when that ends or begins.                                           *)

LEMMA EmptyStream == <<>> \in Stream /\ Len(<<>>) = 0
BY DEF Stream

LEMMA IdleFits ==
  ASSUME NEW fs, Len(fs) \in Nat, NEW s
  PROVE  Fit(Idle, fs, s)
BY EmptyStream DEF Fit, Shape, Idle, Places, SidecarOK

\* A call that is idle, or no longer alone.
LEMMA TouchedFits ==
  ASSUME NEW c, NEW fs, NEW s, NEW ft, NEW t, NEW d, Fit(c, fs, s),
         Len(fs) \in Nat, Len(ft) \in Nat, Len(fs) <= Len(ft),
         d = Idle \/ (c.at = "idle" /\ d = c) \/ d = [c EXCEPT !.alone = FALSE]
  PROVE  Fit(d, ft, t)
<1>1. CASE d = Idle
  BY <1>1, IdleFits
<1>2. CASE c.at = "idle" /\ d = c
  BY <1>2 DEF Fit, Shape
<1>3. CASE d = [c EXCEPT !.alone = FALSE]
  <2>1. DOMAIN c = DOMAIN Idle
    BY DEF Fit, Shape
  <2>2. /\ d.at = c.at /\ d.want = c.want /\ d.anchor = c.anchor /\ d.opened = c.opened
        /\ d.fd = c.fd /\ d.size = c.size /\ d.seen = c.seen /\ d.alone = FALSE
        /\ DOMAIN d = DOMAIN c
    BY <1>3, <2>1 DEF Idle
  <2>3. QED
    BY <2>2 DEF Fit, Shape
<1>4. QED
  BY <1>1, <1>2, <1>3

LEMMA OwnFits ==
  ASSUME NEW p \in Proc, NEW c, ScanInv, Fit(c, files, sidecar),
         call' = [call EXCEPT ![p] = c], files' = files, sidecar' = sidecar
  PROVE  AllFit'
<1> SUFFICES ASSUME NEW q \in Proc PROVE Fit(call'[q], files', sidecar')
  BY DEF AllFit
<1>1. call'[q] = IF q = p THEN c ELSE call[q]
  BY DEF ScanInv, Inv, CallsOK
<1>2. QED
  BY <1>1 DEF ScanInv, AllFit

LEMMA EndsFits ==
  ASSUME NEW p \in Proc, NEW a, ScanInv, Ends(p, a) PROVE AllFit'
<1>1. Len(files) \in Nat
  BY FileType DEF ScanInv, Inv
<1>2. QED
  BY <1>1, IdleFits, OwnFits DEF Ends

LEMMA DisturbFits ==
  ASSUME NEW p \in Proc, ScanInv, Fit(call'[p], files', sidecar'), FilesOK', Len(files) <= Len(files'),
         \A q \in Proc \ {p} : call'[q] = Disturb(p)[q]
  PROVE  AllFit'
<1>1. Len(files) \in Nat /\ Len(files') \in Nat
  BY FileType DEF ScanInv, Inv, FilesOK
<1>2. ASSUME NEW q \in Proc \ {p} PROVE Fit(call'[q], files', sidecar')
  <2>1. (call[q].at = "idle" /\ call'[q] = call[q]) \/ call'[q] = [call[q] EXCEPT !.alone = FALSE]
    BY DEF Disturb, At
  <2>2. QED
    BY <1>1, <2>1, TouchedFits DEF ScanInv, AllFit
<1>3. QED
  BY <1>2 DEF AllFit

LEMMA TouchesFits ==
  ASSUME ScanInv, FilesOK', Len(files) <= Len(files'), Touches
  PROVE  AllFit'
<1>1. Len(files) \in Nat /\ Len(files') \in Nat
  BY FileType DEF ScanInv, Inv, FilesOK
<1>2. ASSUME NEW q \in Proc PROVE Fit(call'[q], files', sidecar')
  <2>1. call'[q] = Idle \/ call'[q] = [call[q] EXCEPT !.alone = FALSE]
    BY DEF Touches
  <2>2. QED
    BY <1>1, <2>1, TouchedFits DEF ScanInv, AllFit
<1>3. QED
  BY <1>2 DEF AllFit

\* A repair that has yet to compare the file with what it wants.
LEMMA AnchoredFits ==
  ASSUME NEW c, NEW fs, Len(fs) \in Nat, NEW s, DOMAIN c = DOMAIN Idle, c.at = "anchored",
         c.want \in Stream, c.anchor \in Stream, SidecarOK(c.opened), c.live \/ c.opened = s,
         c.fd = 0, c.size = 0, c.seen = <<>>
  PROVE  Fit(c, fs, s)
BY EmptyStream DEF Fit, Shape, Places

-----------------------------------------------------------------------------
(* Windows that a call reads.                                              *)

LEMMA NewestIsFile ==
  ASSUME ScanInv
  PROVE  Newest(files) = File /\ File \in Stream /\ Len(files) \in Nat \ {0} /\ files \in Seq(Stream)
BY FileType DEF ScanInv, Inv, FilesOK, Newest, File

LEMMA OpenedFile ==
  ASSUME NEW p \in Proc, ScanInv
  PROVE  /\ Opened(p) \in 1..Len(files) /\ files[Opened(p)] \in Stream
         /\ call[p].fd \in {0, Len(files)} => Opened(p) = Len(files) /\ files[Opened(p)] = File
<1>1. call[p].fd \in 0..Len(files)
  BY DEF ScanInv, AllFit, Fit, Shape
<1>2. Opened(p) \in 1..Len(files)
  BY <1>1, NewestIsFile DEF Opened
<1>3. QED
  BY <1>2, NewestIsFile DEF Opened, File

LEMMA WindowRead ==
  ASSUME NEW p \in Proc, ScanInv, ~At(p, "hashing"), Len(call[p].seen) < call[p].size,
         CanRead(p, call[p].size)
  PROVE  LET w == NextWindow(p, call[p].size)
             k == Len(call[p].seen)
             e == WindowEnd(k, call[p].size)
         IN  /\ call[p].seen \in Stream /\ k \in Nat /\ call[p].size \in Nat
             /\ e \in k + 1..call[p].size /\ w \in Stream /\ Len(w) = e - k
<1>1. call[p].seen \in Stream /\ Len(call[p].seen) \in Nat /\ call[p].size \in Nat
  BY DEF ScanInv, AllFit, Fit, Shape, Stream
<1>2. QED
  BY <1>1, OpenedFile, WindowLength DEF CanRead, NextWindow

\* A window has gone through a call, as it was read or as it was rebuilt.
LEMMA ReadShape ==
  ASSUME NEW p \in Proc, ScanInv, ~At(p, "hashing"), ~At(p, "anchored"),
         Len(call[p].seen) < call[p].size, CanRead(p, call[p].size),
         NEW w \in Stream, Len(w) = Len(NextWindow(p, call[p].size)),
         NEW c, DOMAIN c = DOMAIN Idle, c.at = call[p].at, c.size = call[p].size,
         c.want = call[p].want, c.anchor = call[p].anchor, c.opened = call[p].opened,
         c.fd = Opened(p), c.seen = call[p].seen \o w
  PROVE  Shape(c, files) /\ Len(c.seen) = WindowEnd(Len(call[p].seen), call[p].size)
<1>1. Shape(call[p], files)
  BY DEF ScanInv, AllFit, Fit
<1>2. c.seen \in Stream /\ Len(c.seen) = WindowEnd(Len(call[p].seen), call[p].size)
      /\ Len(c.seen) <= c.size
  <2> DEFINE k == Len(call[p].seen)
             e == WindowEnd(k, call[p].size)
  <2>1. call[p].seen \in Stream /\ k \in Nat /\ e \in k + 1..call[p].size /\ Len(w) = e - k
    BY WindowRead
  <2> HIDE DEF e
  <2>2. call[p].seen \o w \in Stream /\ Len(call[p].seen \o w) = k + Len(w)
    BY <2>1 DEF Stream
  <2>3. QED
    BY <2>1, <2>2 DEF e
<1>3. Opened(p) \in 0..Len(files)
  BY OpenedFile, NewestIsFile
<1>4. QED
  BY <1>1, <1>2, <1>3 DEF Shape, At

\* What a call that is not disturbed reads stays the beginning of the file.
LEMMA CalmReadOn ==
  ASSUME NEW c, NEW fs, NEW d, CalmRead(c, fs), Newest(fs) \in Stream, c.seen \in Stream,
         Len(c.seen) < Len(Newest(fs)), d.fd = Len(fs),
         d.seen = c.seen \o Window(Newest(fs), Len(c.seen), Len(Newest(fs)))
  PROVE  CalmRead(d, fs)
<1>1. Len(c.seen) \in Nat /\ c.seen = SubSeq(Newest(fs), 1, Len(c.seen))
  BY DEF CalmRead, Stream
<1>2. QED
  BY <1>1, WindowFollows DEF CalmRead

-----------------------------------------------------------------------------
(* The steps of a call.                                                    *)

LEMMA CallDomain ==
  ASSUME NEW p \in Proc, ScanInv PROVE DOMAIN call[p] = DOMAIN Idle
BY DEF ScanInv, AllFit, Fit, Shape

LEMMA GenerateWindowFits ==
  ASSUME NEW p \in Proc, ScanInv, GenerateWindow(p) PROVE AllFit'
<1> DEFINE w == NextWindow(p, call[p].size)
           c == [call[p] EXCEPT !.fd = Opened(p), !.seen = @ \o w]
<1>1. Goes(p, c) /\ call[p].at = "reading" /\ ~At(p, "hashing") /\ ~At(p, "anchored")
      /\ Len(call[p].seen) < call[p].size /\ CanRead(p, call[p].size)
  BY DEF GenerateWindow, At
<1>2. w \in Stream
  BY <1>1, WindowRead
<1>3. /\ DOMAIN c = DOMAIN Idle /\ c.at = call[p].at /\ c.size = call[p].size
      /\ c.want = call[p].want /\ c.anchor = call[p].anchor /\ c.opened = call[p].opened
      /\ c.fd = Opened(p) /\ c.seen = call[p].seen \o w
  BY CallDomain DEF Idle
<1> HIDE DEF c
<1>4. Shape(c, files)
  BY <1>1, <1>2, <1>3, ReadShape
<1>5. Fit(c, files, sidecar)
  BY <1>1, <1>3, <1>4 DEF Fit
<1>6. QED
  BY <1>1, <1>5, OwnFits DEF Goes

LEMMA ScanWindowFits ==
  ASSUME NEW p \in Proc, ScanInv, ScanWindow(p) PROVE AllFit'
<1> DEFINE k == Len(call[p].seen)
           w == NextWindow(p, call[p].size)
           more == Cardinality(LostGroups(w, NextParity(p, w)))
           c == [call[p] EXCEPT !.fd = Opened(p), !.seen = @ \o w, !.lost = @ + more]
<1>1. Goes(p, c) /\ call[p].at = "scanning" /\ ~At(p, "hashing") /\ ~At(p, "anchored")
      /\ k < call[p].size /\ HasParity(p) /\ CanRead(p, call[p].size)
  BY DEF ScanWindow, At
<1>2. w \in Stream
  BY <1>1, WindowRead
<1>3. /\ DOMAIN c = DOMAIN Idle /\ c.at = call[p].at /\ c.size = call[p].size
      /\ c.want = call[p].want /\ c.anchor = call[p].anchor /\ c.opened = call[p].opened
      /\ c.fd = Opened(p) /\ c.seen = call[p].seen \o w /\ c.alone = call[p].alone
      /\ c.live = call[p].live /\ c.lost = call[p].lost + more
  BY CallDomain DEF Idle
<1> HIDE DEF c
<1>4. Shape(c, files) /\ Len(c.seen) = WindowEnd(k, call[p].size)
  BY <1>1, <1>2, <1>3, ReadShape
<1>5. ASSUME c.alone PROVE Scanned(c, files, sidecar)
  <2>1. Scanned(call[p], files, sidecar) /\ call[p].seen \in Stream
    BY <1>1, <1>3, <1>5 DEF ScanInv, AllFit, Fit, Shape
  <2>2. Matches(sidecar, File) /\ call[p].size = Len(File) /\ Opened(p) = Len(files)
        /\ w = Window(File, k, Len(File))
    BY <2>1, NewestIsFile, OpenedFile DEF Scanned, CalmRead, NextWindow
  <2>3. CalmRead(c, files)
    <3>1. /\ CalmRead(call[p], files) /\ Newest(files) \in Stream
          /\ Len(call[p].seen) < Len(Newest(files)) /\ c.fd = Len(files)
          /\ c.seen = call[p].seen \o Window(Newest(files), Len(call[p].seen), Len(Newest(files)))
      BY <1>1, <1>3, <2>1, <2>2, NewestIsFile DEF Scanned
    <3>2. QED
      BY <2>1, <3>1, CalmReadOn
  <2>4. k \in Starts(Len(File)) /\ NextParity(p, w) = sidecar.parity[k]
    <3>1. ParitySource(p) = sidecar /\ call[p].opened = sidecar /\ Opens(sidecar)
      BY <2>1, <2>2 DEF Scanned, ParitySource, Matches
    <3>2. k \in Starts(Len(File))
      BY <1>1, <2>1, <2>2 DEF Scanned
    <3>3. /\ SidecarOK(sidecar) /\ sidecar.sum \in Stream /\ Len(sidecar.sum) = Len(File)
          /\ DOMAIN sidecar.parity = Starts(Len(File))
      BY <2>2, <3>1 DEF ScanInv, SidecarWhole, SidecarOK, Matches, Opens
    <3>4. sidecar.parity[k].over = Window(sidecar.sum, k, Len(File))
      BY <3>1, <3>2, <3>3, ParityType
    <3>5. Len(sidecar.parity[k].over) = WindowEnd(k, Len(File)) - k
      <4>1. k \in Nat /\ Len(File) \in Nat /\ k < Len(File) /\ WindowEnd(k, Len(File)) <= Len(File)
        BY <1>1, <2>2, <3>2, NewestIsFile, ShardsAssumption DEF Starts, Stream, WindowEnd, Smaller
      <4> QED
        BY <3>3, <3>4, <4>1, WindowLength
    <3>6. InPlace(p)
      BY <2>2, <3>1, <3>2, <3>3, <3>5 DEF InPlace, HasParity
    <3>7. QED
      BY <3>1, <3>2, <3>6 DEF NextParity
  <2>5. more \in Nat /\ (more = 0 <=> NoneLost(k, File, sidecar))
    BY <1>2, <2>2, <2>4, DamageFinite, FS_CardinalityType, FS_EmptySet DEF NoneLost
  <2>6. \A j \in Starts(Len(File)) : j < Len(c.seen) <=> j < k \/ j = k
    <3> TAKE j \in Starts(Len(File))
    <3>1. Len(File) \in Nat /\ j \in Nat /\ k \in Nat /\ j < Len(File)
      BY <2>4, NewestIsFile DEF Starts, Stream
    <3>2. Len(c.seen) = IF k + WindowShards < Len(File) THEN k + WindowShards ELSE Len(File)
      BY <1>4, <2>2 DEF WindowEnd, Smaller
    <3>3. k <= j /\ j < k + WindowShards => j = k
      BY <2>4, <3>1, OneStart
    <3>4. k < Len(c.seen)
      BY <1>1, <2>2, <3>1, <3>2, ShardsAssumption
    <3>5. QED
      BY <3>1, <3>2, <3>3, <3>4, ShardsAssumption
  <2>7. /\ c.lost \in Nat
        /\ c.lost = 0 <=> \A j \in Starts(c.size) : j < Len(c.seen) => NoneLost(j, File, sidecar)
    <3>1. call[p].lost \in Nat
          /\ (call[p].lost = 0
               <=> \A j \in Starts(Len(File)) : j < k => NoneLost(j, File, sidecar))
      BY <2>1, <2>2, NewestIsFile DEF Scanned
    <3>2. c.lost \in Nat /\ (c.lost = 0 <=> call[p].lost = 0 /\ more = 0)
      BY <1>3, <2>5, <3>1
    <3>3. (\A j \in Starts(Len(File)) : j < Len(c.seen) => NoneLost(j, File, sidecar))
          <=> /\ \A j \in Starts(Len(File)) : j < k => NoneLost(j, File, sidecar)
              /\ NoneLost(k, File, sidecar)
      BY <2>4, <2>6
    <3>4. QED
      BY <1>3, <2>2, <2>5, <3>1, <3>2, <3>3
  <2>8. Len(c.seen) < c.size => Len(c.seen) \in Starts(c.size)
    BY <1>3, <1>4, <2>2, <2>4, NextStart, NewestIsFile DEF Stream
  <2>9. QED
    BY <1>3, <2>1, <2>2, <2>3, <2>7, <2>8, NewestIsFile DEF Scanned
<1>6. Fit(c, files, sidecar)
  BY <1>1, <1>3, <1>4, <1>5 DEF Fit
<1>7. QED
  BY <1>1, <1>6, OwnFits DEF Goes

LEMMA CheckFits ==
  ASSUME NEW p \in Proc, ScanInv, Check(p) PROVE AllFit'
<1>1. PICK c : /\ Goes(p, c)
               /\ c = [call[p] EXCEPT !.at = "hashing", !.opened = ParitySource(p), !.size = Len(File)]
  BY DEF Check
<1>2. Fit(call[p], files, sidecar) /\ call[p].at = "anchored"
  BY DEF Check, At, ScanInv, AllFit
<1>3. /\ DOMAIN c = DOMAIN Idle /\ c.at = "hashing" /\ c.opened = ParitySource(p)
      /\ c.size = Len(File) /\ c.want = call[p].want /\ c.anchor = call[p].anchor
      /\ c.fd = call[p].fd /\ c.seen = call[p].seen /\ c.alone = call[p].alone
  BY <1>1, <1>2 DEF Fit, Shape, Idle
<1>4. SidecarOK(ParitySource(p)) /\ Opens(ParitySource(p)) /\ ParitySource(p).sum = call[p].want
  BY <1>2 DEF Check, BoundToWanted, Matches, ParitySource, ScanInv, SidecarWhole, Fit, Shape
<1>5. call[p].alone => ParitySource(p) = sidecar
  BY <1>2 DEF Fit, ParitySource
<1>6. call[p].alone => CalmRead(c, files)
  <2>1. c.fd = 0 /\ c.seen = <<>>
    BY <1>2, <1>3 DEF Fit, Shape
  <2>2. <<>> = SubSeq(File, 1, 0) /\ Len(File) \in Nat
    BY NewestIsFile, SubSeqEmpty DEF Stream
  <2>3. QED
    BY <2>1, <2>2, EmptyStream, NewestIsFile DEF CalmRead
<1>7. Len(File) \in Nat
  BY NewestIsFile DEF Stream
<1>8. Fit(c, files, sidecar)
  BY <1>2, <1>3, <1>4, <1>5, <1>6, <1>7 DEF Fit, Shape, Hashed, Places
<1>9. QED
  BY <1>1, <1>8, OwnFits DEF Goes

LEMMA HashWindowFits ==
  ASSUME NEW p \in Proc, ScanInv, HashWindow(p) PROVE AllFit'
<1> DEFINE k == Len(call[p].seen)
           file == files[Opened(p)]
           w == NextWindow(p, Len(file))
           c == [call[p] EXCEPT !.fd = Opened(p), !.seen = @ \o w]
<1>1. Goes(p, c) /\ call[p].at = "hashing" /\ k < Len(file)
  BY DEF HashWindow, At
<1>2. Fit(call[p], files, sidecar)
  BY DEF ScanInv, AllFit
<1>3. /\ DOMAIN c = DOMAIN Idle /\ c.at = "hashing" /\ c.opened = call[p].opened
      /\ c.size = call[p].size /\ c.want = call[p].want /\ c.anchor = call[p].anchor
      /\ c.fd = Opened(p) /\ c.seen = call[p].seen \o w /\ c.alone = call[p].alone
  BY <1>1, <1>2 DEF Fit, Shape, Idle
<1> HIDE DEF c
<1>4. file \in Stream /\ k \in Nat /\ Opened(p) \in 0..Len(files) /\ call[p].seen \in Stream
  BY <1>2, OpenedFile, NewestIsFile DEF Fit, Shape, Stream
<1>5. c.seen \in Stream
  <2>1. Len(file) \in Nat /\ WindowEnd(k, Len(file)) <= Len(file)
    BY <1>1, <1>4, ShardsAssumption, SMTT(30) DEF WindowEnd, Smaller, Stream
  <2>2. w \in Stream
    BY <1>4, <2>1, WindowType DEF NextWindow
  <2>3. QED
    BY <1>3, <1>4, <2>2 DEF Stream
<1>6. ASSUME c.alone PROVE Hashed(c, files, sidecar)
  <2>1. Hashed(call[p], files, sidecar)
    BY <1>1, <1>2, <1>3, <1>6 DEF Fit
  <2>2. file = File /\ Opened(p) = Len(files)
    BY <2>1, OpenedFile DEF Hashed, CalmRead
  <2>3. w = Window(File, k, Len(File))
    BY <2>2 DEF NextWindow
  <2>4. CalmRead(c, files)
    BY <1>1, <1>3, <1>4, <2>1, <2>2, <2>3, NewestIsFile, CalmReadOn DEF Hashed
  <2>5. QED
    BY <1>3, <2>1, <2>4 DEF Hashed
<1>7. Fit(c, files, sidecar)
  BY <1>2, <1>3, <1>4, <1>5, <1>6 DEF Fit, Shape, Places
<1>8. QED
  BY <1>1, <1>7, OwnFits DEF Goes

LEMMA HashEndsFits ==
  ASSUME NEW p \in Proc, ScanInv, HashEnds(p) PROVE AllFit'
<1>1. CASE call[p].seen = call[p].want
  BY <1>1, EndsFits DEF HashEnds
<1>2. CASE call[p].seen # call[p].want
  <2>1. PICK c : Goes(p, c) /\ c = [call[p] EXCEPT !.at = "rebuilding", !.fd = 0, !.seen = <<>>]
    BY <1>2 DEF HashEnds
  <2>2. Fit(call[p], files, sidecar)
    BY DEF ScanInv, AllFit
  <2>3. /\ DOMAIN c = DOMAIN Idle /\ c.at = "rebuilding" /\ c.opened = call[p].opened
        /\ c.size = call[p].size /\ c.want = call[p].want /\ c.anchor = call[p].anchor
        /\ c.fd = 0 /\ c.seen = <<>>
    BY <2>1, <2>2 DEF Fit, Shape, Idle
  <2>4. Fit(c, files, sidecar)
    BY <2>2, <2>3, EmptyStream, NewestIsFile DEF Fit, Shape, Places
  <2>5. QED
    BY <2>1, <2>4, OwnFits DEF Goes
<1>3. QED
  BY <1>1, <1>2

LEMMA RebuildWindowFits ==
  ASSUME NEW p \in Proc, ScanInv, RebuildWindow(p) PROVE AllFit'
<1> DEFINE k == Len(call[p].seen)
           read == NextWindow(p, call[p].size)
           w == Rebuilt(read, NextParity(p, read))
           c == [call[p] EXCEPT !.fd = Opened(p), !.seen = @ \o w]
<1>1. Goes(p, c) /\ call[p].at = "rebuilding" /\ k < call[p].size /\ HasParity(p)
      /\ CanRead(p, call[p].size) /\ ~At(p, "hashing") /\ ~At(p, "anchored")
  BY DEF RebuildWindow, At
<1>2. read \in Stream /\ Len(read) = WindowEnd(k, call[p].size) - k
  BY <1>1, WindowRead DEF At
<1>3. NextParity(p, read).over \in Stream /\ Len(NextParity(p, read).over) = Len(read)
  <2>1. SidecarOK(ParitySource(p))
    BY DEF ParitySource, ScanInv, SidecarWhole, AllFit, Fit, Shape
  <2>2. CASE InPlace(p)
    BY <1>2, <2>1, <2>2, ParityType DEF InPlace, HasParity, NextParity
  <2>3. CASE ~InPlace(p)
    BY <1>2, <2>3 DEF NextParity, Garbage
  <2>4. QED
    BY <2>2, <2>3
<1>4. w \in Stream /\ Len(w) = Len(read)
  BY <1>2, <1>3, RebuiltType
<1>5. /\ DOMAIN c = DOMAIN Idle /\ c.at = call[p].at /\ c.size = call[p].size
      /\ c.want = call[p].want /\ c.anchor = call[p].anchor /\ c.opened = call[p].opened
      /\ c.fd = Opened(p) /\ c.seen = call[p].seen \o w
  BY CallDomain DEF Idle
<1> HIDE DEF c, w
<1>6. Shape(c, files)
  BY <1>1, <1>4, <1>5, ReadShape
<1>7. Fit(c, files, sidecar)
  BY <1>1, <1>5, <1>6 DEF Fit
<1>8. QED
  BY <1>1, <1>7, OwnFits DEF Goes

LEMMA BeginFits ==
  ASSUME NEW p \in Proc, NEW c, ScanInv, Begin(p, c), Fit(c, files, sidecar) PROVE AllFit'
BY OwnFits DEF Begin

LEMMA StartFits ==
  ASSUME NEW p \in Proc, ScanInv, Start(p) PROVE AllFit'
<1>1. SidecarOK(sidecar) /\ SidecarOK(Missing) /\ (Opens(sidecar) => sidecar.sum \in Stream)
  BY DEF ScanInv, SidecarWhole, SidecarOK, Opens
<1>2. Len(File) \in Nat /\ Len(files) \in Nat /\ Newest(files) = File
  BY NewestIsFile DEF Stream
<1>3. CASE Generate(p)
  <2>1. PICK c : Begin(p, c) /\ c = [Idle EXCEPT !.at = "reading", !.size = Len(File)]
    BY <1>3 DEF Generate
  <2>2. /\ DOMAIN c = DOMAIN Idle /\ c.at = "reading" /\ c.size = Len(File) /\ c.want = <<>>
        /\ c.anchor = <<>> /\ c.seen = <<>> /\ c.opened = Missing /\ c.fd = 0
    BY <2>1 DEF Idle
  <2>3. Fit(c, files, sidecar)
    BY <1>1, <1>2, <2>2, EmptyStream DEF Fit, Shape, Places
  <2>4. QED
    BY <2>1, <2>3, BeginFits
<1>4. CASE Verify(p)
  <2>1. PICK c : /\ Begin(p, c) /\ Matches(sidecar, File)
                 /\ c = [Idle EXCEPT !.at = "scanning", !.opened = sidecar, !.size = Len(File)]
    BY <1>4 DEF Verify
  <2>2. /\ DOMAIN c = DOMAIN Idle /\ c.at = "scanning" /\ c.size = Len(File) /\ c.want = <<>>
        /\ c.anchor = <<>> /\ c.seen = <<>> /\ c.opened = sidecar /\ c.fd = 0
        /\ c.live = TRUE /\ c.lost = 0
    BY <2>1 DEF Idle
  <2>3. Shape(c, files)
    BY <1>1, <1>2, <2>2, EmptyStream DEF Shape, Places
  <2>4. CalmRead(c, files)
    BY <1>2, <2>2, EmptyStream, NewestIsFile, SubSeqEmpty DEF CalmRead, Stream
  <2>5. \A k \in Starts(c.size) : ~(k < Len(c.seen))
    BY <1>2, <2>2, EmptyStream DEF Starts
  <2>6. Len(c.seen) < c.size => Len(c.seen) \in Starts(c.size)
    <3>1. ASSUME 0 < c.size PROVE 0 \in Starts(c.size)
      BY <1>2, <2>2, <3>1, ShardsAssumption DEF Starts
    <3> QED
      BY <2>2, <3>1, EmptyStream
  <2>7. Scanned(c, files, sidecar)
    BY <1>2, <2>1, <2>2, <2>4, <2>5, <2>6 DEF Scanned
  <2>8. Fit(c, files, sidecar)
    BY <2>2, <2>3, <2>7 DEF Fit
  <2>9. QED
    BY <2>1, <2>8, BeginFits
<1>5. ASSUME NEW a \in Stream, Repair(p, a) PROVE AllFit'
  <2>1. PICK c : /\ Begin(p, c) /\ Opens(sidecar)
                 /\ c = [Idle EXCEPT !.at = "anchored", !.want = sidecar.sum, !.anchor = a]
    BY <1>5 DEF Repair
  <2>2. /\ DOMAIN c = DOMAIN Idle /\ c.at = "anchored" /\ c.want = sidecar.sum /\ c.anchor = a
        /\ c.opened = Missing /\ c.live = TRUE /\ c.fd = 0 /\ c.size = 0 /\ c.seen = <<>>
    BY <2>1 DEF Idle
  <2>3. QED
    BY <1>1, <1>2, <1>5, <2>1, <2>2, AnchoredFits, BeginFits
<1>6. ASSUME NEW a \in Stream, RepairExpected(p, a) PROVE AllFit'
  <2>1. PICK c : Begin(p, c) /\ c = [Idle EXCEPT !.at = "anchored", !.want = a, !.anchor = a]
    BY <1>6 DEF RepairExpected
  <2>2. /\ DOMAIN c = DOMAIN Idle /\ c.at = "anchored" /\ c.want = a /\ c.anchor = a
        /\ c.opened = Missing /\ c.live = TRUE /\ c.fd = 0 /\ c.size = 0 /\ c.seen = <<>>
    BY <2>1 DEF Idle
  <2>3. QED
    BY <1>1, <1>2, <1>6, <2>1, <2>2, AnchoredFits, BeginFits
<1>7. ASSUME NEW a \in Stream, RepairFromBytes(p, a) PROVE AllFit'
  <2>1. PICK c : /\ Begin(p, c)
                 /\ c = [Idle EXCEPT !.at = "anchored", !.want = a, !.anchor = a,
                                     !.live = FALSE, !.opened = sidecar]
    BY <1>7 DEF RepairFromBytes
  <2>2. /\ DOMAIN c = DOMAIN Idle /\ c.at = "anchored" /\ c.want = a /\ c.anchor = a
        /\ c.opened = sidecar /\ c.fd = 0 /\ c.size = 0 /\ c.seen = <<>>
    BY <2>1 DEF Idle
  <2>3. QED
    BY <1>1, <1>2, <1>7, <2>1, <2>2, AnchoredFits, BeginFits
<1>8. past \cup unowned \subseteq Stream /\ <<>> \in Stream
  BY EmptyStream DEF ScanInv, Inv, FilesOK
<1>9. QED
  BY <1>3, <1>4, <1>5, <1>6, <1>7, <1>8 DEF Start

LEMMA WritesSidecarFits ==
  ASSUME NEW p \in Proc, ScanInv, EmptySidecar(p) \/ FillSidecar(p) PROVE AllFit'
<1>1. files' = files /\ FilesOK'
  BY InvStep DEF EmptySidecar, FillSidecar, ScanInv, Inv, Next, Work
<1>2. \A q \in Proc \ {p} : call'[q] = Disturb(p)[q]
  BY DEF EmptySidecar, FillSidecar, Disturb
<1>3. DOMAIN call = Proc /\ Len(files) \in Nat
  BY NewestIsFile DEF ScanInv, Inv, CallsOK
<1>4. CASE EmptySidecar(p)
  <2>1. call'[p] = [call[p] EXCEPT !.at = "writing"]
    BY <1>3, <1>4 DEF EmptySidecar, Disturb
  <2>2. Shape(call[p], files) /\ call[p].at = "reading"
    BY <1>4 DEF EmptySidecar, At, ScanInv, AllFit, Fit
  <2>3. /\ DOMAIN call'[p] = DOMAIN Idle /\ call'[p].at = "writing" /\ call'[p].size = call[p].size
        /\ call'[p].want = call[p].want /\ call'[p].anchor = call[p].anchor
        /\ call'[p].opened = call[p].opened /\ call'[p].fd = call[p].fd
        /\ call'[p].seen = call[p].seen
    BY <2>1, CallDomain DEF Idle
  <2>4. Fit(call'[p], files', sidecar')
    BY <1>1, <2>2, <2>3 DEF Fit, Shape, Places
  <2>5. QED
    BY <1>1, <1>2, <1>3, <2>4, DisturbFits
<1>5. CASE FillSidecar(p)
  <2>1. call'[p] = Idle
    BY <1>3, <1>5 DEF FillSidecar, Disturb
  <2>2. QED
    BY <1>1, <1>2, <1>3, <2>1, IdleFits, DisturbFits
<1>6. QED
  BY <1>4, <1>5

LEMMA ReplaceFits ==
  ASSUME NEW p \in Proc, ScanInv, Replace(p) PROVE AllFit'
<1>1. FilesOK' /\ Len(files) <= Len(files') /\ Len(files') \in Nat
  BY Replaced DEF ScanInv, FilesOK
<1>2. call'[p] = Idle /\ \A q \in Proc \ {p} : call'[q] = Disturb(p)[q]
  BY DEF Replace, ScanInv, Inv, CallsOK, Disturb
<1>3. QED
  BY <1>1, <1>2, IdleFits, DisturbFits

LEMMA WorkFits ==
  ASSUME NEW p \in Proc, ScanInv, Work(p) PROVE AllFit'
<1>1. CASE GenerateWindow(p) \/ EmptySidecar(p) \/ FillSidecar(p)
  BY <1>1, GenerateWindowFits, WritesSidecarFits
<1>2. CASE ScanEnds(p) \/ Refuse(p)
  BY <1>2, EndsFits DEF ScanEnds, Refuse
<1>3. CASE ScanWindow(p) \/ HashWindow(p) \/ RebuildWindow(p)
  BY <1>3, ScanWindowFits, HashWindowFits, RebuildWindowFits
<1>4. CASE Check(p) \/ HashEnds(p) \/ Replace(p)
  BY <1>4, CheckFits, HashEndsFits, ReplaceFits
<1>5. QED
  BY <1>1, <1>2, <1>3, <1>4 DEF Work

LEMMA OutsideFits ==
  ASSUME ScanInv, Outside PROVE AllFit'
<1>1. FilesOK'
  BY InvStep DEF ScanInv, Inv, Next
<1>2. Len(files) \in Nat /\ Len(files') \in Nat /\ DOMAIN call = Proc
  BY <1>1, NewestIsFile DEF ScanInv, Inv, CallsOK, FilesOK
<1>3. ASSUME NEW stream, ChangeFile(stream) PROVE AllFit'
  <2>1. Len(files') = Len(files) /\ Touches
    BY <1>3, NewestIsFile DEF ChangeFile
  <2>2. QED
    BY <1>1, <1>2, <2>1, TouchesFits
<1>4. ASSUME NEW s, ChangeSidecar(s) PROVE AllFit'
  BY <1>1, <1>2, <1>4, TouchesFits DEF ChangeSidecar
<1>5. ASSUME NEW p \in Proc, Fail(p) PROVE AllFit'
  BY <1>2, <1>5, IdleFits, OwnFits DEF Fail
<1>6. CASE Flush
  BY <1>6 DEF Flush, ScanInv, AllFit
<1>7. CASE LosePower
  BY <1>2, <1>7, IdleFits DEF LosePower, AllFit
<1>8. QED
  BY <1>3, <1>4, <1>5, <1>6, <1>7
  DEF Outside, Write, Rot, Grow, Shrink, RotSidecar, RotParity, RotChecksum

-----------------------------------------------------------------------------
(* The sidecar at its path, and what callers were told.                    *)

LEMMA SidecarStays ==
  ASSUME ScanInv, Next PROVE SidecarWhole(sidecar')
<1>1. SidecarWhole(sidecar) /\ SidecarWhole(Torn)
  BY DEF ScanInv, SidecarWhole, SidecarOK, Opens
<1>2. ASSUME NEW p \in Proc, Start(p) \/ Work(p) PROVE SidecarWhole(sidecar')
  <2>1. CASE FillSidecar(p)
    <3>1. call[p].seen \in Stream
      BY DEF ScanInv, AllFit, Fit, Shape
    <3>2. QED
      BY <2>1, <3>1, NewSidecar DEF FillSidecar
  <2>2. CASE ~FillSidecar(p)
    <3>1. sidecar' = sidecar \/ sidecar' = Torn
      BY <1>2, <2>2
      DEF Start, Work, Generate, Verify, Repair, RepairExpected, RepairFromBytes, Begin,
          GenerateWindow, EmptySidecar, ScanWindow, ScanEnds, Check, HashWindow, HashEnds,
          RebuildWindow, Replace, Refuse, Goes, Ends
    <3>2. QED
      BY <1>1, <3>1
  <2>3. QED
    BY <2>1, <2>2
<1>3. CASE RotSidecar
  <2>1. ASSUME NEW k \in DOMAIN sidecar.parity, NEW g \in DOMAIN sidecar.parity[k].alive,
               RotParity(k, g)
        PROVE  SidecarWhole(sidecar')
    BY <1>1, <2>1, RottenParity DEF RotParity, ChangeSidecar
  <2>2. ASSUME NEW k \in DOMAIN sidecar.parity, NEW i \in DOMAIN sidecar.parity[k].over,
               RotChecksum(k, i)
        PROVE  SidecarWhole(sidecar')
    BY <1>1, <2>2, RottenChecksum DEF RotChecksum, ChangeSidecar
  <2>3. CASE ChangeSidecar(Torn)
    BY <1>1, <2>3 DEF ChangeSidecar
  <2>4. QED
    BY <1>3, <2>1, <2>2, <2>3 DEF RotSidecar
<1>4. CASE Outside /\ ~RotSidecar
  <2>1. sidecar' = sidecar \/ sidecar' = Torn
    BY <1>4 DEF Outside, Write, Rot, Grow, Shrink, ChangeFile, Fail, Flush, LosePower, SidecarsLeft
  <2>2. QED
    BY <1>1, <2>1
<1>5. QED
  BY <1>2, <1>3, <1>4 DEF Next

LEMMA ToldStays ==
  ASSUME ScanInv, Next PROVE Told'
<1>1. Told /\ (Event => Fresh \in Value)
  BY BoundAssumption DEF ScanInv, Inv, FilesOK, Event, Fresh, Value
<1>2. ASSUME NEW p \in Proc, Start(p) \/ Work(p) PROVE Told'
  <2>1. /\ rotten' = rotten
        /\ unflushed' \in {unflushed, unflushed \cup {"file"}, unflushed \cup {"sidecar"}}
    BY <1>2
    DEF Start, Work, Generate, Verify, Repair, RepairExpected, RepairFromBytes, Begin,
        GenerateWindow, EmptySidecar, FillSidecar, ScanWindow, ScanEnds, Check, HashWindow, HashEnds,
        RebuildWindow, Replace, Refuse, Goes, Ends, history
  <2>2. answer' = answer \/ \E a \in Answers : answer' = [answer EXCEPT ![p] = a]
    BY <1>2
    DEF Start, Work, Generate, Verify, Repair, RepairExpected, RepairFromBytes, Begin,
        GenerateWindow, EmptySidecar, FillSidecar, ScanWindow, ScanEnds, Check, HashWindow, HashEnds,
        RebuildWindow, Replace, Refuse, Goes, Ends, Answers
  <2>3. QED
    BY <1>1, <2>1, <2>2 DEF Told
<1>3. CASE Outside
  <2>1. rotten' = rotten \/ (rotten' = rotten \cup {Fresh} /\ Event)
    BY <1>3 DEF Outside, Write, Rot, Grow, Shrink, ChangeFile, RotSidecar, RotParity, RotChecksum,
                ChangeSidecar, Fail, Flush, LosePower, history
  <2>2. unflushed' = unflushed \/ unflushed' = {}
    BY <1>3 DEF Outside, Write, Rot, Grow, Shrink, ChangeFile, RotSidecar, RotParity, RotChecksum,
                ChangeSidecar, Fail, Flush, LosePower
  <2>3. \/ answer' = answer
        \/ \E p \in Proc : answer' = [answer EXCEPT ![p] = "failed"]
        \/ answer' = [p \in Proc |-> IF At(p, "idle") THEN answer[p] ELSE "failed"]
    BY <1>3 DEF Outside, Write, Rot, Grow, Shrink, ChangeFile, RotSidecar, RotParity, RotChecksum,
                ChangeSidecar, Fail, Flush, LosePower
  <2>4. QED
    BY <1>1, <2>1, <2>2, <2>3 DEF Told, Answers
<1>4. QED
  BY <1>2, <1>3 DEF Next

-----------------------------------------------------------------------------
(* All together.                                                           *)

LEMMA ScanInvInit == Init => ScanInv
<1> SUFFICES ASSUME Init PROVE ScanInv
  OBVIOUS
<1>1. Inv /\ Given \subseteq Stream
  <2>1. \A s \in Seq({0, 1}) : s \in Seq(Value)
    BY BoundAssumption DEF Value
  <2>2. QED
    BY <2>1, InvInit, StreamAssumption DEF Stream
<1>2. SidecarWhole(sidecar)
  <2>1. SidecarWhole(Missing)
    BY DEF SidecarWhole, SidecarOK, Opens
  <2>2. QED
    BY <1>1, <2>1, NewSidecar DEF Init
<1>3. Told
  BY DEF Init, Told, Answers
<1>4. AllFit
  BY IdleFits DEF Init, AllFit
<1>5. QED
  BY <1>1, <1>2, <1>3, <1>4 DEF ScanInv

LEMMA ScanInvStep == ScanInv /\ [Next]_vars => ScanInv'
<1> SUFFICES ASSUME ScanInv, [Next]_vars PROVE ScanInv'
  OBVIOUS
<1>1. Inv'
  BY InvStep DEF ScanInv
<1>2. CASE Next
  <2>1. AllFit'
    BY <1>2, StartFits, WorkFits, OutsideFits DEF Next
  <2>2. QED
    BY <1>1, <1>2, <2>1, SidecarStays, ToldStays DEF ScanInv
<1>3. CASE UNCHANGED vars
  <2>1. UNCHANGED <<files, sidecar, unflushed, call, answer, rotten>>
    BY <1>3 DEF vars, history
  <2>2. SidecarWhole(sidecar)' /\ Told' /\ AllFit'
    BY <2>1 DEF ScanInv, Told, AllFit
  <2>3. QED
    BY <1>1, <2>2 DEF ScanInv
<1>4. QED
  BY <1>2, <1>3

\* Every state is of the kind the code works with: no parity is ever left over
\* from another sidecar, and no call goes through more than the length that it
\* looked up, however the file grows and shrinks.
THEOREM TypeCorrect == Spec => []TypeOK
<1>1. ScanInv => TypeOK
  <2> SUFFICES ASSUME ScanInv PROVE TypeOK
    OBVIOUS
  <2>1. files \in Seq(Stream) /\ files # <<>> /\ ("file" \in unflushed => Len(files) > 1)
        /\ events \in 0..MaxEvents
    BY DEF ScanInv, Inv, FilesOK
  <2>2. SidecarOK(sidecar) /\ unflushed \subseteq {"file", "sidecar"} /\ rotten \subseteq Value
    BY DEF ScanInv, SidecarWhole, Told
  <2>3. ASSUME NEW p \in Proc
        PROVE  /\ call[p].at \in Places /\ call[p].fd \in 0..Len(files)
               /\ {call[p].want, call[p].anchor, call[p].seen} \subseteq Stream
               /\ SidecarOK(call[p].opened)
               /\ (~At(p, "hashing") => Len(call[p].seen) <= call[p].size)
               /\ answer[p] \in Answers
    BY DEF ScanInv, Told, AllFit, Fit, Shape, At
  <2>4. QED
    BY <2>1, <2>2, <2>3 DEF TypeOK
<1>2. QED
  BY <1>1, ScanInvInit, ScanInvStep, PTL DEF Spec

-----------------------------------------------------------------------------
(* Verdicts.                                                               *)

\* What has gone through to its end is the file.
LEMMA CalmReadAll ==
  ASSUME ScanInv, NEW c, CalmRead(c, files), Len(c.seen) = Len(File)
  PROVE  c.seen = File
<1>1. c.seen = SubSeq(File, 1, Len(File)) /\ File \in Seq(Value)
  BY NewestIsFile DEF CalmRead, Stream
<1>2. QED
  BY <1>1, SubSeqFull

\* A verdict is given by the end of a scan or of a hash.
LEMMA WhoReturns ==
  ASSUME NEW p \in Proc, ScanInv, [Next]_vars, NEW a \in {"intact", "damaged"}, Returns(p, a)
  PROVE  \/ ScanEnds(p)
         \/ HashEnds(p) /\ call[p].seen = call[p].want /\ a = "intact"
<1>1. DOMAIN call = Proc /\ DOMAIN answer = Proc /\ DOMAIN call[p] = DOMAIN Idle
  BY CallDomain DEF ScanInv, Inv, CallsOK, Told
<1>2. call[p].at # "idle" /\ call'[p].at = "idle" /\ answer'[p] = a
  BY DEF Returns, At
<1>3. ASSUME NEW q \in Proc, NEW c, call' = [call EXCEPT ![q] = c], c.at # "idle" PROVE FALSE
  BY <1>1, <1>2, <1>3
<1>4. ASSUME NEW q \in Proc, NEW b, answer'[q] = b, \A r \in Proc \ {q} : call'[r] = call[r]
      PROVE  p = q /\ b = a
  BY <1>1, <1>2, <1>4
<1>5. ASSUME NEW q \in Proc, NEW c, NEW b, call' = [Disturb(q) EXCEPT ![q] = c],
             answer' = [answer EXCEPT ![q] = b] \/ c.at # "idle"
      PROVE  p = q /\ b = a
  <2>1. q # p => call'[p].at = call[p].at
    BY <1>1, <1>5 DEF Disturb, Idle
  <2>2. q = p => call'[p] = c
    BY <1>5 DEF Disturb
  <2>3. QED
    BY <1>1, <1>2, <1>5, <2>1, <2>2
<1>6. ASSUME NEW q \in Proc, Start(q) PROVE FALSE
  <2>1. answer'[q] = "none" /\ \A r \in Proc \ {q} : call'[r] = call[r]
    BY <1>1, <1>6 DEF Start, Generate, Verify, Repair, RepairExpected, RepairFromBytes, Begin
  <2>2. QED
    BY <1>4, <2>1
<1>7. ASSUME NEW q \in Proc, Work(q)
      PROVE  \/ ScanEnds(p)
             \/ HashEnds(p) /\ call[p].seen = call[p].want /\ a = "intact"
  <2>1. DOMAIN call[q] = DOMAIN Idle
    BY CallDomain
  <2>2. ASSUME NEW c, Goes(q, c), c.at # "idle" PROVE FALSE
    BY <1>3, <2>2 DEF Goes
  <2>3. ASSUME NEW b, Ends(q, b) PROVE p = q /\ b = a
    <3>1. answer'[q] = b /\ \A r \in Proc \ {q} : call'[r] = call[r]
      BY <1>1, <2>3 DEF Ends
    <3>2. QED
      BY <1>4, <3>1
  <2>4. ASSUME GenerateWindow(q) \/ HashWindow(q) \/ RebuildWindow(q) PROVE FALSE
    <3>1. PICK c, s : Goes(q, c) /\ c = [call[q] EXCEPT !.fd = Opened(q), !.seen = s]
      BY <2>4 DEF GenerateWindow, HashWindow, RebuildWindow
    <3>2. c.at = call[q].at /\ call[q].at # "idle"
      BY <2>1, <2>4, <3>1 DEF Idle, GenerateWindow, HashWindow, RebuildWindow, At
    <3>3. QED
      BY <2>2, <3>1, <3>2
  <2>5. ASSUME ScanWindow(q) PROVE FALSE
    <3>1. PICK c, s, n : Goes(q, c) /\ c = [call[q] EXCEPT !.fd = Opened(q), !.seen = s, !.lost = n]
      BY <2>5 DEF ScanWindow
    <3>2. c.at = call[q].at /\ call[q].at # "idle"
      BY <2>1, <2>5, <3>1 DEF Idle, ScanWindow, At
    <3>3. QED
      BY <2>2, <3>1, <3>2
  <2>6. ASSUME Check(q) PROVE FALSE
    <3>1. PICK c, o, n : Goes(q, c) /\ c = [call[q] EXCEPT !.at = "hashing", !.opened = o, !.size = n]
      BY <2>6 DEF Check
    <3>2. c.at = "hashing"
      BY <2>1, <3>1 DEF Idle
    <3>3. QED
      BY <2>2, <3>1, <3>2
  <2>7. ASSUME EmptySidecar(q) PROVE FALSE
    <3>1. call' = [Disturb(q) EXCEPT ![q].at = "writing"]
      BY <2>7 DEF EmptySidecar
    <3>2. call'[p].at \in {call[p].at, "writing"}
      BY <1>1, <3>1 DEF Disturb, Idle
    <3>3. QED
      BY <1>2, <3>2
  <2>8. ASSUME FillSidecar(q) \/ Replace(q) PROVE FALSE
    <3>1. PICK b \in {"generated", "repaired"} :
            call' = [Disturb(q) EXCEPT ![q] = Idle] /\ answer' = [answer EXCEPT ![q] = b]
      BY <2>8 DEF FillSidecar, Replace
    <3>2. QED
      BY <1>5, <3>1
  <2>9. ASSUME Refuse(q) PROVE FALSE
    BY <2>3, <2>9 DEF Refuse
  <2>10. ASSUME ScanEnds(q) PROVE ScanEnds(p)
    <3>1. PICK b : Ends(q, b)
      BY <2>10 DEF ScanEnds
    <3>2. QED
      BY <2>3, <2>10, <3>1
  <2>11. ASSUME HashEnds(q) PROVE HashEnds(p) /\ call[p].seen = call[p].want /\ a = "intact"
    <3>1. CASE call[q].seen = call[q].want
      BY <2>3, <2>11, <3>1 DEF HashEnds
    <3>2. CASE call[q].seen # call[q].want
      <4>1. PICK c : Goes(q, c) /\ c = [call[q] EXCEPT !.at = "rebuilding", !.fd = 0, !.seen = <<>>]
        BY <2>11, <3>2 DEF HashEnds
      <4>2. c.at = "rebuilding"
        BY <2>1, <4>1 DEF Idle
      <4>3. QED
        BY <2>2, <4>1, <4>2
    <3>3. QED
      BY <3>1, <3>2
  <2>12. QED
    BY <1>7, <2>4, <2>5, <2>6, <2>7, <2>8, <2>9, <2>10, <2>11 DEF Work
<1>8. ASSUME Outside PROVE FALSE
  <2>1. ASSUME Touches PROVE FALSE
    BY <1>1, <1>2, <2>1 DEF Touches, At, Idle
  <2>2. ASSUME NEW q \in Proc, Fail(q) PROVE FALSE
    <3>1. answer'[q] = "failed" /\ \A r \in Proc \ {q} : call'[r] = call[r]
      BY <1>1, <2>2 DEF Fail
    <3>2. QED
      BY <1>4, <3>1
  <2>3. ASSUME LosePower PROVE FALSE
    BY <1>2, <2>3 DEF LosePower, At
  <2>4. ASSUME Flush PROVE FALSE
    BY <1>2, <2>4 DEF Flush
  <2>5. QED
    BY <1>8, <2>1, <2>2, <2>3, <2>4
    DEF Outside, Write, Rot, Grow, Shrink, ChangeFile, RotSidecar, RotParity, RotChecksum, ChangeSidecar
<1>9. CASE UNCHANGED vars
  BY <1>2, <1>9 DEF vars
<1>10. QED
  BY <1>6, <1>7, <1>8, <1>9 DEF Next

\* A call that nothing interfered with calls a file verified that is what the
\* sidecar is bound to, and no other.
THEOREM VerdictsTrue == Spec => VerdictTrue
<1>1. ASSUME ScanInv, [Next]_vars, NEW p \in Proc, call[p].alone
      PROVE  /\ Returns(p, "intact") => Opens(sidecar) /\ File = sidecar.sum
             /\ Returns(p, "damaged") => File # sidecar.sum
  <2>1. DOMAIN answer = Proc /\ Fit(call[p], files, sidecar)
    BY <1>1 DEF ScanInv, Told, AllFit
  <2>2. ASSUME ScanEnds(p)
        PROVE  /\ Opens(sidecar)
               /\ answer'[p] = IF File = sidecar.sum THEN "intact" ELSE "damaged"
    <3>1. Scanned(call[p], files, sidecar) /\ Len(call[p].seen) = call[p].size
      BY <1>1, <2>1, <2>2 DEF ScanEnds, At, Fit
    <3>2. call[p].seen = File /\ call[p].opened = sidecar /\ Opens(sidecar)
      BY <1>1, <3>1, NewestIsFile, CalmReadAll DEF Scanned, Matches
    <3>3. QED
      BY <2>1, <2>2, <3>2 DEF ScanEnds, Ends
  <2>3. ASSUME HashEnds(p), call[p].seen = call[p].want
        PROVE  Opens(sidecar) /\ File = sidecar.sum
    <3>1. Hashed(call[p], files, sidecar) /\ Len(call[p].seen) >= Len(files[Opened(p)])
      BY <1>1, <2>1, <2>3 DEF HashEnds, At, Fit
    <3>2. files[Opened(p)] = File /\ Len(call[p].seen) <= Len(File) /\ Len(File) \in Nat
          /\ Len(call[p].seen) \in Nat
      BY <1>1, <2>1, <3>1, NewestIsFile, OpenedFile DEF Hashed, CalmRead, Fit, Shape, Stream
    <3>3. call[p].seen = File
      BY <1>1, <3>1, <3>2, CalmReadAll DEF Hashed
    <3>4. QED
      BY <2>3, <3>1, <3>3 DEF Hashed
  <2>4. ASSUME Returns(p, "intact") PROVE Opens(sidecar) /\ File = sidecar.sum
    <3>1. answer'[p] = "intact"
      BY <2>4 DEF Returns
    <3>2. ScanEnds(p) \/ (HashEnds(p) /\ call[p].seen = call[p].want)
      BY <1>1, <2>4, WhoReturns
    <3>3. QED
      BY <2>2, <2>3, <3>1, <3>2
  <2>5. ASSUME Returns(p, "damaged") PROVE File # sidecar.sum
    <3>1. answer'[p] = "damaged"
      BY <2>5 DEF Returns
    <3>2. ScanEnds(p)
      BY <1>1, <2>5, WhoReturns
    <3>3. QED
      BY <2>2, <3>1, <3>2
  <2>6. QED
    BY <2>4, <2>5
<1>2. ScanInv /\ [Next]_vars =>
        \A p \in Proc : call[p].alone =>
          /\ Returns(p, "intact") => Opens(sidecar) /\ File = sidecar.sum
          /\ Returns(p, "damaged") => File # sidecar.sum
  BY <1>1
<1>3. QED
  BY <1>2, ScanInvInit, ScanInvStep, PTL DEF Spec, VerdictTrue

\* A scan that nothing interfered with counts no group as lost only if a repair
\* would rebuild the file and, unless checksums have rotted, whenever it would.
THEOREM ScansForetell == Spec => ScanForetells
<1>1. ASSUME ScanInv, NEW p \in Proc, ScanEnds(p), call[p].alone
      PROVE  /\ call[p].lost = 0 => Repairable
             /\ Repairable /\ ChecksumsHold => call[p].lost = 0
  <2> DEFINE window(k) == Window(File, k, Len(File))
  <2>1. Scanned(call[p], files, sidecar) /\ Len(call[p].seen) = call[p].size
    BY <1>1 DEF ScanEnds, At, ScanInv, AllFit, Fit
  <2>2. Matches(sidecar, File) /\ SidecarOK(sidecar) /\ Opens(sidecar)
        /\ Len(sidecar.sum) = Len(File) /\ File \in Stream
    BY <1>1, <2>1, NewestIsFile DEF Scanned, Matches, ScanInv, SidecarWhole
  <2>3. DOMAIN sidecar.parity = Starts(Len(File))
    BY <2>2 DEF SidecarOK, Opens
  <2>4. call[p].lost = 0 <=> \A k \in DOMAIN sidecar.parity : NoneLost(k, File, sidecar)
    <3>1. call[p].size = Len(File) /\ Len(call[p].seen) = Len(File) /\ Len(File) \in Nat
      BY <1>1, <2>1, NewestIsFile DEF Scanned, Stream
    <3>2. \A k \in Starts(Len(File)) : k < Len(File)
      BY <3>1 DEF Starts
    <3>3. QED
      BY <1>1, <2>1, <2>3, <3>1, <3>2, NewestIsFile DEF Scanned
  <2>5. ASSUME NEW k \in DOMAIN sidecar.parity
        PROVE  /\ NoneLost(k, File, sidecar)
                    => Rebuilt(window(k), sidecar.parity[k]) = sidecar.parity[k].over
               /\ sidecar.parity[k].doubted = {}
                  /\ Rebuilt(window(k), sidecar.parity[k]) = sidecar.parity[k].over
                    => NoneLost(k, File, sidecar)
    <3>1. /\ k \in Nat /\ k < Len(File) /\ Len(File) \in Nat
          /\ sidecar.parity[k].over = Window(sidecar.sum, k, Len(File))
          /\ sidecar.parity[k].over \in Stream /\ sidecar.sum \in Stream
          /\ sidecar.parity[k].alive \in [GroupsOf(sidecar.parity[k].over) -> 0..ParityShards]
      BY <2>2, <2>5, ParityType DEF Stream
    <3>2. WindowEnd(k, Len(File)) <= Len(File)
      BY <3>1, ShardsAssumption DEF WindowEnd, Smaller
    <3>3. window(k) \in Stream /\ Len(sidecar.parity[k].over) = Len(window(k))
      BY <2>2, <3>1, <3>2, WindowLength
    <3> HIDE DEF window
    <3>4. QED
      BY <3>1, <3>3, LostOrRebuilt DEF NoneLost, window
  <2> HIDE DEF window
  <2>6. Repairable <=>
          \A k \in DOMAIN sidecar.parity :
            Rebuilt(window(k), sidecar.parity[k]) = sidecar.parity[k].over
    BY <2>2 DEF Repairable, window
  <2>7. QED
    BY <2>4, <2>5, <2>6 DEF ChecksumsHold
<1>2. ScanInv => \A p \in Proc : ScanEnds(p) /\ call[p].alone =>
                    /\ call[p].lost = 0 => Repairable
                    /\ Repairable /\ ChecksumsHold => call[p].lost = 0
  BY <1>1
<1>3. QED
  BY <1>2, ScanInvInit, ScanInvStep, PTL DEF Spec, ScanForetells
=============================================================================
