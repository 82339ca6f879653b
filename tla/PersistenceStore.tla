-------------------------- MODULE PersistenceStore --------------------------
(***************************************************************************)
(* The debounced write of a project's files                                *)
(* (src/persistence/persistence-store.js).  Every call is synchronous; the *)
(* debounce timer is the only continuation.  A call is a function from a   *)
(* state of the store to the states it may leave, because one call may try *)
(* the pending write several times and each try may fail.                  *)
(***************************************************************************)
EXTENDS WorkingTree

CONSTANTS
  NoWrite,    \* nothing is pending
  Unasked,    \* no call speaks for the file any more
  Blended     \* a full write left the file out, and was merged with a partial one

VARIABLES
  pending,    \* the pending write: its entries, its kind, whether it is timed
  asked       \* auxiliary: what the calls accepted so far want each file to be

Pending == [entries : Tree, prune : BOOLEAN, timer : BOOLEAN]

ASSUME NothingAssumption ==
  NoWrite \notin Pending /\ {Unasked, Blended} \cap (Content \cup {Absent}) = {}

Store == [pending |-> pending, disk |-> disk]

(***************************************************************************)
(* writeTree: every entry is written to a temporary file and renamed, one  *)
(* after the other; the prune of everything else comes last.  A failure    *)
(* leaves the entries that were renamed.                                   *)
(***************************************************************************)
Pruned(s) == IF s.pending.prune THEN EmptyTree ELSE s.disk

Laid(s, S) == Overlay(s.disk, s.pending.entries, S)

Wrote(s) ==
  [pending |-> NoWrite,
   disk |-> Overlay(Pruned(s), s.pending.entries, Named(s.pending.entries))]

Unfinished(s) ==
  LET named == Named(s.pending.entries)
  IN {S \in SUBSET named : S = {} \/ S # named}

\* A write that failed stays pending, without a timer.
Retained(s) == [s.pending EXCEPT !.timer = FALSE]

Failed(s) ==
  {[pending |-> Retained(s), disk |-> Laid(s, S)] : S \in Unfinished(s)}

PersistNow(s) ==
  IF s.pending = NoWrite THEN {s} ELSE {Wrote(s)} \cup Failed(s)

(***************************************************************************)
(* schedule: a pending write of the other kind is tried first; a full tree *)
(* replaces what is pending, a partial one merges onto it.                 *)
(***************************************************************************)
\* (Mutant: a write of the other kind is not tried first.)
NotFlushed(s, prune) == {s}

FlushOtherKind(s, prune) ==
  IF s.pending # NoWrite /\ s.pending.prune # prune THEN PersistNow(s) ELSE {s}

Coalesced(s, t, prune) ==
  IF prune \/ s.pending = NoWrite THEN t
  ELSE Overlay(s.pending.entries, t, Named(t))

Scheduled(s, t, prune) ==
  [s EXCEPT !.pending = [entries |-> Coalesced(s, t, prune),
                         prune |-> prune, timer |-> TRUE]]

AfterPersist(s, t) == {Scheduled(a, t, TRUE) : a \in FlushOtherKind(s, TRUE)}

\* persistPartial tries a full write itself before schedule tries it again.
BeforePartial(s) == UNION {FlushOtherKind(a, FALSE) : a \in FlushOtherKind(s, FALSE)}

(***************************************************************************)
(* When both tries failed the full write is still there, without a timer:  *)
(* schedule() merges the partial one onto it and takes its prune away.     *)
(***************************************************************************)
Blends(s) == s.pending # NoWrite /\ s.pending.prune /\ ~s.pending.timer

AskedPartly(s, w, t) ==
  [f \in File |-> IF f \in Named(t) THEN t[f]
                  ELSE IF Blends(s) /\ w[f] = Absent THEN Blended ELSE w[f]]

Becomes(s) ==
  /\ pending' = s.pending
  /\ disk' = s.disk

-----------------------------------------------------------------------------

Persist(t) ==
  /\ \E s \in AfterPersist(Store, t) : Becomes(s)
  /\ asked' = t

PersistPartial(t) ==
  /\ \E s \in BeforePartial(Store) :
       /\ Becomes(Scheduled(s, t, FALSE))
       /\ asked' = AskedPartly(s, asked, t)

\* flush(), persistNow() and a debounce of zero.
Flush ==
  /\ pending # NoWrite
  /\ \E s \in PersistNow(Store) : Becomes(s)
  /\ UNCHANGED asked

TimerFires ==
  /\ pending # NoWrite
  /\ pending.timer
  /\ \E s \in PersistNow(Store) : Becomes(s)
  /\ UNCHANGED asked

PersistenceInit ==
  /\ pending = NoWrite
  /\ asked = [f \in File |-> Unasked]

\* (Mutant: the pending write outlives the deletion.)
KeepWrite == pending' = pending

\* deleteProjectTree, and what a crash leaves of the store: no pending write.
ForgetWrite == pending' = NoWrite

NobodyAsks(S) == asked' = [f \in File |-> IF f \in S THEN Unasked ELSE asked[f]]
=============================================================================
