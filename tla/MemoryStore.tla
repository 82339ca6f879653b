----------------------------- MODULE MemoryStore ------------------------------
(***************************************************************************)
(* One store of memory/store.js.  An entry is the set of facts its text    *)
(* tells; it weighs one for itself and one for each fact.  The entries are *)
(* in the order of their createdAt, which is how eviction looks at them: a *)
(* summary is written first in the file and dated last, and on a tie of    *)
(* the clock it comes before the entry that caused it.  Every write is     *)
(* atomic; one that fails changes nothing and is left out.                 *)
(***************************************************************************)
EXTENDS Naturals, Sequences, FiniteSets, SequencesExt

CONSTANTS
  Fact,
  CapEntries, \* meta.capEntries
  CapBytes,   \* meta.capBytes, in the weights above
  KeepRecent, \* the requested keepRecent
  MaxEntries  \* bound: entries, which a user may add beyond the cap

ASSUME MemoryAssumption ==
  /\ {CapEntries, CapBytes, MaxEntries} \subseteq Nat \ {0} /\ KeepRecent \in Nat
  /\ CapEntries <= MaxEntries /\ IsFiniteSet(Fact)

VARIABLES
  entries,    \* the document, oldest first: sets of facts
  memoryMode, \* meta.mode
  told,       \* auxiliary: facts some call reported as stored
  dropped,    \* auxiliary: facts the user deleted, pruned or rewrote
  overdrawn   \* auxiliary: the user has put the document above its caps

memoryVars == <<entries, memoryMode, told, dropped, overdrawn>>

MemoryInit ==
  /\ entries = <<>> /\ memoryMode = "auto"
  /\ told = {} /\ dropped = {} /\ overdrawn = FALSE

MemoryTypeOK ==
  /\ entries \in Seq(SUBSET Fact) /\ Len(entries) <= MaxEntries
  /\ memoryMode \in {"auto", "manual", "off"} /\ told \cup dropped \subseteq Fact
  /\ overdrawn \in BOOLEAN

-----------------------------------------------------------------------------
Weight(doc) == Len(doc) + Cardinality({w \in (1..Len(doc)) \X Fact : w[2] \in doc[w[1]]})
WithinCaps(doc) == Len(doc) <= CapEntries /\ Weight(doc) <= CapBytes

\* resolveCaps(): room is kept for the summary.
Least(a, b) == IF a < b THEN a ELSE b
KeptVerbatim == Least(KeepRecent, CapEntries - 1)

\* The gist of the k entries that overflow: every text, under its heading.
\* (Mutant: the last of them is neither summarised nor kept.)
GistOfButLast(all, k) == UNION {all[i] : i \in 1..k - 1}
Gist(all, k) == UNION {all[i] : i \in 1..k}

\* The document with the last n entries kept and the others summarised.
Summarized(all, n) ==
  LET k == Len(all) - n
  IN IF k = 0 THEN all ELSE <<Gist(all, k)>> \o SubSeq(all, k + 1, Len(all))

\* summarizeAndEvict(): keep as many of the newest as the caps allow.
Fitting(all) == {n \in 0..Least(KeptVerbatim, Len(all)) : WithinCaps(Summarized(all, n))}

\* Where the summary stands among the dates: last, or before the newest entry.
Dated(doc) ==
  LET n == Len(doc)
  IN {Append(Tail(doc), doc[1])} \cup
     (IF n > 1 THEN {Append(Append(SubSeq(doc, 2, n - 1), doc[1]), doc[n])} ELSE {})

AddAuto(f) ==
  LET all == Append(entries, {f})
  IN /\ f \notin told /\ memoryMode # "off" /\ told' = told \cup {f}
     /\ \/ WithinCaps(all) /\ entries' = all
        \/ /\ ~WithinCaps(all) /\ memoryMode = "auto" /\ WithinCaps(<<{f}>>)
           /\ \E n \in Fitting(all) : /\ \A m \in Fitting(all) : m <= n
                                    /\ entries' \in Dated(Summarized(all, n))
     /\ overdrawn' = FALSE /\ UNCHANGED <<memoryMode, dropped>>

AddUser(f) ==
  /\ f \notin told /\ Len(entries) < MaxEntries
  /\ entries' = Append(entries, {f}) /\ told' = told \cup {f}
  /\ overdrawn' = ~WithinCaps(entries') /\ UNCHANGED <<memoryMode, dropped>>

\* edit() does not look at the caps; the new text keeps some facts, adds some.
EditEntry(i, fs) ==
  /\ i \in 1..Len(entries) /\ fs # {} /\ fs \cap told \subseteq entries[i]
  /\ entries' = [entries EXCEPT ![i] = fs]
  /\ dropped' = dropped \cup (entries[i] \ fs) /\ told' = told \cup fs
  /\ overdrawn' = ~WithinCaps(entries') /\ UNCHANGED memoryMode

\* The positions of a set, in order.
InOrder(kept) ==
  {at \in [1..Cardinality(kept) -> kept] : \A i, j \in DOMAIN at : i < j => at[i] < at[j]}

\* delete() of one entry, prune() of several.
DeleteEntries(gone) ==
  /\ gone # {} /\ gone \subseteq 1..Len(entries)
  /\ \E at \in InOrder((1..Len(entries)) \ gone) :
       entries' = [i \in DOMAIN at |-> entries[at[i]]]
  /\ dropped' = dropped \cup UNION {entries[i] : i \in gone}
  /\ overdrawn' = (overdrawn /\ ~WithinCaps(entries')) /\ UNCHANGED <<memoryMode, told>>

SetMode(m) == memoryMode' = m /\ UNCHANGED <<entries, told, dropped, overdrawn>>

DeleteMemory ==
  /\ entries' = <<>> /\ memoryMode' = "auto" /\ dropped' = told /\ overdrawn' = FALSE
  /\ UNCHANGED told

MemoryNext ==
  \/ \E f \in Fact : AddAuto(f) \/ AddUser(f)
  \/ \E i \in 1..MaxEntries, fs \in SUBSET Fact : EditEntry(i, fs)
  \/ \E gone \in SUBSET (1..MaxEntries) : DeleteEntries(gone)
  \/ \E m \in {"auto", "manual", "off"} : SetMode(m)
  \/ DeleteMemory

-----------------------------------------------------------------------------
\* However often summaries are summarised again, a fact that was reported as
\* stored is told by some entry until the user takes it out; and only a user's
\* own addition or edit puts the document above its caps.
MemoryKeepsFacts ==
  /\ told \ dropped \subseteq UNION ToSet(entries)
  /\ WithinCaps(entries) \/ overdrawn
=============================================================================
