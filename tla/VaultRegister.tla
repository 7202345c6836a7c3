--------------------------- MODULE VaultRegister ---------------------------
(***************************************************************************)
(* What a vault file is to those who share it: one container at a path,    *)
(* which is only ever replaced as a whole, by somebody who has seen what   *)
(* is replaced and keeps all of it.  There are no calls here, no temporary *)
(* files, no generations and no lock: that none of these show is what a    *)
(* refinement of this module says.                                         *)
(***************************************************************************)
EXTENDS Naturals

CONSTANTS Handle, Edit

VARIABLES
  current,  \* the container that opening the path gives
  lasting,  \* the one that it gives after a loss of power
  users,    \* handles that are open
  seen,     \* the container each of them has last read or put there
  asked,    \* edits that somebody has asked for
  reported  \* edits that somebody has been told are kept

vars == <<current, lasting, users, seen, asked, reported>>

Container == [salt : Nat, edits : SUBSET Edit]

Empty == [salt |-> 0, edits |-> {}]

Read(h) ==
  /\ h \notin users
  /\ users' = users \cup {h}
  /\ seen' = [seen EXCEPT ![h] = current]
  /\ UNCHANGED <<current, lasting, asked, reported>>

Ask(e) ==
  /\ e \notin asked
  /\ asked' = asked \cup {e}
  /\ UNCHANGED <<current, lasting, users, seen, reported>>

\* Nobody replaces what he has not seen, drops an edit or a newer password of it, or
\* puts an edit there that was not asked for.
Replace(h) ==
  /\ h \in users /\ seen[h] = current
  /\ current' \in Container
  /\ current.salt <= current'.salt
  /\ current.edits \subseteq current'.edits /\ current'.edits \subseteq asked
  /\ lasting' \in {lasting, current'}
  /\ seen' = [seen EXCEPT ![h] = current']
  /\ UNCHANGED <<users, asked, reported>>

Settle ==
  /\ lasting' = current
  /\ UNCHANGED <<current, users, seen, asked, reported>>

\* Only what no loss of power can undo is reported.
Report(e) ==
  /\ e \in current.edits \cap lasting.edits
  /\ reported' = reported \cup {e}
  /\ UNCHANGED <<current, lasting, users, seen, asked>>

Leave(h) ==
  /\ h \in users
  /\ users' = users \ {h}
  /\ UNCHANGED <<current, lasting, seen, asked, reported>>

LosePower ==
  /\ current' = lasting
  /\ users' = {}
  /\ UNCHANGED <<lasting, seen, asked, reported>>

Init ==
  /\ current = Empty /\ lasting = Empty
  /\ users = {} /\ seen = [h \in Handle |-> Empty]
  /\ asked = {} /\ reported = {}

Next ==
  \/ \E h \in Handle : Read(h) \/ Replace(h) \/ Leave(h)
  \/ \E e \in Edit : Ask(e) \/ Report(e)
  \/ Settle
  \/ LosePower

Spec == Init /\ [][Next]_vars
=============================================================================
