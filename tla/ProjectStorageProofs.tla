------------------------ MODULE ProjectStorageProofs ------------------------
(***************************************************************************)
(* Proofs about ProjectStorage, for any files, contents, ignored paths and *)
(* commits.                                                                *)
(***************************************************************************)
EXTENDS ProjectStorage, TLAPS

USE AbsentAssumption, IgnoredAssumption, NothingAssumption, NoSnapshotAssumption,
    SavesAssumption

(***************************************************************************)
(* What a state of the store owes to the calls that want the contents w: a *)
(* file is on disk as wanted and nothing is about to change it, or it is   *)
(* pending as wanted.  A file that is not named by the pending write is    *)
(* removed by a full one and safe from a partial one.                      *)
(***************************************************************************)
Stores == [pending : Pending \cup {NoWrite}, disk : Tree]

Due(s, w) ==
  \A f \in File : w[f] \in Content \cup {Absent} =>
    \/ s.pending = NoWrite /\ s.disk[f] = w[f]
    \/ /\ s.pending # NoWrite /\ s.pending.entries[f] = w[f]
       /\ w[f] = Absent => s.pending.prune
    \/ /\ s.pending # NoWrite /\ ~s.pending.prune
       /\ s.pending.entries[f] = Absent /\ s.disk[f] = w[f]

WritesAreDue == Due(Store, asked)

(***************************************************************************)
(* HEAD names a commit that exists, also while a deletion is half done.    *)
(***************************************************************************)
HeadExists == head # NoCommit => commits[head] # NoTree

IInv ==
  /\ TypeOK
  /\ WritesAreDue
  /\ HeadExists
  /\ DeletedStaysDeleted
  /\ RecordedIsReadable
  /\ HeadIsRecorded

-----------------------------------------------------------------------------

(***************************************************************************)
(* Trees.                                                                  *)
(***************************************************************************)
LEMMA OverlayIsTree ==
  ASSUME NEW base \in Tree, NEW t \in Tree, NEW S
  PROVE  /\ Overlay(base, t, S) \in Tree
         /\ \A f \in File : Overlay(base, t, S)[f] = IF f \in S THEN t[f] ELSE base[f]
  BY DEF Overlay, Tree

LEMMA EmptyIsTree == EmptyTree \in Tree /\ \A f \in File : EmptyTree[f] = Absent
  BY DEF EmptyTree, Tree

LEMMA TrackedIsTree ==
  ASSUME NEW t \in Tree
  PROVE  Tracked(t) \in Tree
  BY OverlayIsTree, EmptyIsTree DEF Tracked

(***************************************************************************)
(* A try of the pending write, and the tries before another is scheduled,  *)
(* keep what is due: a write that failed stays pending as a whole.         *)
(***************************************************************************)
LEMMA WroteKeeps ==
  ASSUME NEW s \in Stores, s.pending # NoWrite, NEW w, Due(s, w)
  PROVE  Wrote(s) \in Stores /\ Due(Wrote(s), w)
  <1> DEFINE named == Named(s.pending.entries)
  <1>1. s.pending \in Pending /\ s.pending.entries \in Tree /\ s.disk \in Tree
    BY DEF Stores, Pending
  <1>2. Pruned(s) \in Tree /\ (~s.pending.prune => Pruned(s) = s.disk)
    BY <1>1, EmptyIsTree DEF Pruned
  <1>3. PICK d \in Tree : /\ d = Overlay(Pruned(s), s.pending.entries, named)
                          /\ \A f \in File : d[f] = IF f \in named THEN s.pending.entries[f]
                                                                   ELSE Pruned(s)[f]
    BY <1>1, <1>2, OverlayIsTree
  <1>4. Wrote(s) = [pending |-> NoWrite, disk |-> d]
    BY <1>3 DEF Wrote
  <1>5. Wrote(s) \in Stores
    BY <1>4 DEF Stores
  <1>6. \A f \in File : w[f] \in Content \cup {Absent} => d[f] = w[f]
    <2> SUFFICES ASSUME NEW f \in File, w[f] \in Content \cup {Absent} PROVE d[f] = w[f]
      OBVIOUS
    <2>1. CASE s.pending.entries[f] = w[f] /\ w[f] # Absent
      BY <1>1, <1>3, <2>1 DEF Named
    <2>2. CASE s.pending.entries[f] = w[f] /\ w[f] = Absent /\ s.pending.prune
      BY <1>1, <1>3, <2>2, EmptyIsTree DEF Named, Pruned
    <2>3. CASE ~s.pending.prune /\ s.pending.entries[f] = Absent /\ s.disk[f] = w[f]
      BY <1>1, <1>2, <1>3, <2>3 DEF Named
    <2>4. QED BY <2>1, <2>2, <2>3 DEF Due
  <1>7. QED BY <1>4, <1>5, <1>6 DEF Due

LEMMA FailedKeeps ==
  ASSUME NEW s \in Stores, s.pending # NoWrite, NEW w, Due(s, w), NEW x \in Failed(s)
  PROVE  /\ x \in Stores /\ Due(x, w)
         /\ x.pending # NoWrite /\ x.pending.prune = s.pending.prune /\ ~x.pending.timer
  <1>1. s.pending \in Pending /\ s.pending.entries \in Tree /\ s.disk \in Tree
    BY DEF Stores, Pending
  <1>2. PICK S \in SUBSET Named(s.pending.entries) :
          x = [pending |-> Retained(s), disk |-> Laid(s, S)]
    BY DEF Failed, Unfinished
  <1>3. Retained(s) \in Pending
        /\ Retained(s).entries = s.pending.entries /\ Retained(s).prune = s.pending.prune
        /\ ~Retained(s).timer
    BY <1>1 DEF Retained, Pending
  <1>4. PICK d \in Tree : /\ d = Laid(s, S)
                          /\ \A f \in File : d[f] = IF f \in S THEN s.pending.entries[f]
                                                               ELSE s.disk[f]
    BY <1>1, OverlayIsTree DEF Laid
  <1>5. x = [pending |-> Retained(s), disk |-> d] /\ Retained(s) # NoWrite
    BY <1>2, <1>3, <1>4
  <1>6. x \in Stores
    BY <1>3, <1>5 DEF Stores
  <1>7. \A f \in File : s.pending.entries[f] = Absent => d[f] = s.disk[f]
    BY <1>2, <1>4 DEF Named
  <1>8. Due(x, w)
    BY <1>3, <1>5, <1>7 DEF Due
  <1>9. QED BY <1>3, <1>5, <1>6, <1>8

LEMMA PersistNowKeeps ==
  ASSUME NEW s \in Stores, NEW w, Due(s, w), NEW x \in PersistNow(s)
  PROVE  x \in Stores /\ Due(x, w)
  BY WroteKeeps, FailedKeeps DEF PersistNow

LEMMA FlushKeeps ==
  ASSUME NEW s \in Stores, NEW w, Due(s, w), NEW prune \in BOOLEAN,
         NEW x \in FlushOtherKind(s, prune)
  PROVE  x \in Stores /\ Due(x, w)
  BY PersistNowKeeps DEF FlushOtherKind

(***************************************************************************)
(* What persist() and persistPartial() leave is a store that owes what the *)
(* caller asked for, and for the rest what it owed before.                 *)
(***************************************************************************)
LEMMA PersistKeeps ==
  ASSUME NEW s \in Stores, NEW t \in Tree, NEW x \in AfterPersist(s, t),
         NEW w, Due(s, w)
  PROVE  x \in Stores /\ Due(x, t)
  <1>1. PICK a \in FlushOtherKind(s, TRUE) : x = Scheduled(a, t, TRUE)
    BY DEF AfterPersist
  <1>2. a \in Stores
    BY FlushKeeps
  <1>3. PICK n : n = [entries |-> t, prune |-> TRUE, timer |-> TRUE]
    OBVIOUS
  <1>4. n \in Pending /\ n # NoWrite /\ n.entries = t /\ n.prune
    <2>1. n \in Pending
      BY <1>3 DEF Pending
    <2>2. QED BY <1>3, <2>1
  <1>5. x = [a EXCEPT !.pending = n]
    BY <1>1, <1>3 DEF Scheduled, Coalesced
  <1>6. x \in Stores /\ x.pending = n
    BY <1>2, <1>4, <1>5 DEF Stores
  <1>7. QED BY <1>4, <1>6 DEF Due

LEMMA PersistPartialKeeps ==
  ASSUME NEW s \in Stores, NEW t \in Tree, NEW b \in BeforePartial(s),
         NEW w, Due(s, w)
  PROVE  /\ Scheduled(b, t, FALSE) \in Stores
         /\ Due(Scheduled(b, t, FALSE), AskedPartly(b, w, t))
  <1>0. PICK x : x = Scheduled(b, t, FALSE)
    OBVIOUS
  <1>1. PICK a \in FlushOtherKind(s, FALSE) : b \in FlushOtherKind(a, FALSE)
    BY DEF BeforePartial
  <1>2. a \in Stores /\ Due(a, w)
    BY FlushKeeps
  <1>3. b \in Stores /\ Due(b, w)
    BY <1>1, <1>2, FlushKeeps
  <1>3a. b.pending # NoWrite /\ b.pending.prune => ~b.pending.timer
    <2> SUFFICES ASSUME b.pending # NoWrite, b.pending.prune PROVE ~b.pending.timer
      OBVIOUS
    <2>1. CASE a.pending # NoWrite /\ a.pending.prune # FALSE
      <3>1. b \in {Wrote(a)} \cup Failed(a)
        BY <1>1, <2>1 DEF FlushOtherKind, PersistNow
      <3>2. Wrote(a).pending = NoWrite
        BY DEF Wrote
      <3>3. QED BY <1>2, <2>1, <3>1, <3>2, FailedKeeps
    <2>2. CASE a.pending = NoWrite \/ a.pending.prune = FALSE
      BY <1>1, <2>2 DEF FlushOtherKind
    <2>3. QED BY <2>1, <2>2
  <1>4. b.pending # NoWrite => b.pending.entries \in Tree
    BY <1>3 DEF Stores, Pending
  <1>5. PICK e \in Tree : e = Coalesced(b, t, FALSE)
    BY <1>4, OverlayIsTree DEF Coalesced
  <1>6. \A f \in File : e[f] = IF f \in Named(t) \/ b.pending = NoWrite
                               THEN t[f] ELSE b.pending.entries[f]
    BY <1>4, <1>5, OverlayIsTree DEF Coalesced
  <1>7. PICK n : n = [entries |-> e, prune |-> FALSE, timer |-> TRUE]
    OBVIOUS
  <1>8. n \in Pending /\ n # NoWrite /\ n.entries = e /\ ~n.prune
    <2>1. n \in Pending
      BY <1>7 DEF Pending
    <2>2. QED BY <1>7, <2>1
  <1>9. x = [b EXCEPT !.pending = n]
    BY <1>0, <1>5, <1>7 DEF Scheduled
  <1>10. x \in Stores /\ x.pending = n /\ x.disk = b.disk
    BY <1>3, <1>8, <1>9 DEF Stores
  <1>11. Due(x, AskedPartly(b, w, t))
    <2> DEFINE v == AskedPartly(b, w, t)
    <2> SUFFICES ASSUME NEW f \in File, v[f] \in Content \cup {Absent}
                 PROVE  \/ e[f] = v[f] /\ v[f] # Absent
                        \/ e[f] = Absent /\ b.disk[f] = v[f]
      BY <1>8, <1>10 DEF Due
    <2>1. CASE f \in Named(t)
      BY <1>6, <2>1 DEF AskedPartly, Named
    <2>2. CASE f \notin Named(t)
      <3>1. v[f] = w[f] /\ ~(Blends(b) /\ w[f] = Absent)
        BY <2>2, NothingAssumption DEF AskedPartly
      <3>2. CASE b.pending = NoWrite
        <4>1. b.disk[f] = w[f]
          BY <1>3, <3>1, <3>2 DEF Due
        <4>2. e[f] = Absent
          BY <1>6, <2>2, <3>2 DEF Named
        <4>3. QED BY <3>1, <4>1, <4>2
      <3>3. CASE b.pending # NoWrite
        <4>1. e[f] = b.pending.entries[f]
          BY <1>6, <2>2, <3>3
        <4>2. w[f] = Absent => ~b.pending.prune
          BY <1>3a, <3>1, <3>3 DEF Blends
        <4>3. QED BY <1>3, <3>1, <3>3, <4>1, <4>2 DEF Due
      <3>4. QED BY <3>2, <3>3
    <2>3. QED BY <2>1, <2>2
  <1>12. QED BY <1>0, <1>10, <1>11

-----------------------------------------------------------------------------

(***************************************************************************)
(* The invariant by the variables it speaks of.                            *)
(***************************************************************************)
FilesOK ==
  /\ disk \in Tree
  /\ pending \in Pending \cup {NoWrite}
  /\ asked \in [File -> Content \cup {Absent, Unasked, Blended}]
  /\ WritesAreDue

SnapshotsOK ==
  /\ repo \in BOOLEAN
  /\ head \in Commit \cup {NoCommit}
  /\ commits \in [Commit -> Tree \cup {NoTree}]
  /\ registry \in Seq(Commit)
  /\ torn \subseteq Commit
  /\ HeadExists /\ RecordedIsReadable /\ HeadIsRecorded

LifeOK == life \in Lives /\ forked \in BOOLEAN /\ DeletedStaysDeleted

LEMMA Parts == IInv <=> FilesOK /\ SnapshotsOK /\ LifeOK
  BY DEF IInv, FilesOK, SnapshotsOK, LifeOK, TypeOK

LEMMA PartsNext == FilesOK' /\ SnapshotsOK' /\ LifeOK' => IInv'
  BY DEF IInv, FilesOK, SnapshotsOK, LifeOK, TypeOK

LEMMA StoreIsStore == disk \in Tree /\ pending \in Pending \cup {NoWrite} => Store \in Stores
  BY DEF Store, Stores

LEMMA NobodyIsOwed ==
  ASSUME NobodyAsks(File)
  PROVE  asked' \in [File -> Content \cup {Absent, Unasked, Blended}] /\ WritesAreDue'
  BY DEF NobodyAsks, WritesAreDue, Due

(***************************************************************************)
(* The registry is a sequence of commits.                                  *)
(***************************************************************************)
LEMMA RecordedCommits ==
  ASSUME registry \in Seq(Commit)
  PROVE  /\ Recorded \subseteq Commit
         /\ registry # <<>> => Latest \in Recorded
         /\ registry = <<>> => Recorded = {}
  BY DEF Recorded, Latest

LEMMA AppendRecords ==
  ASSUME registry \in Seq(Commit), NEW c \in Commit, registry' = Append(registry, c)
  PROVE  /\ registry' \in Seq(Commit)
         /\ Recorded' = Recorded \cup {c}
  <1>1. registry' \in Seq(Commit) /\ Len(registry') = Len(registry) + 1
        /\ Len(registry) \in Nat
    OBVIOUS
  <1>2. \A i \in 1..Len(registry) : registry'[i] = registry[i]
    OBVIOUS
  <1>3. registry'[Len(registry) + 1] = c
    OBVIOUS
  <1>4. 1..Len(registry') = 1..Len(registry) \cup {Len(registry) + 1}
    BY <1>1
  <1>5. Recorded' = {registry'[i] : i \in 1..Len(registry) \cup {Len(registry) + 1}}
    BY <1>4 DEF Recorded
  <1>6. QED BY <1>1, <1>2, <1>3, <1>5 DEF Recorded

(***************************************************************************)
(* What the steps of a save and of a restore make of the tree.             *)
(***************************************************************************)
LEMMA ResetIsTree ==
  ASSUME NEW base \in Tree, NEW c, commits[c] \in Tree, NEW index
  PROVE  HardReset(base, c, index) \in Tree /\ CheckedOut(base, c) \in Tree
  <1>1. HardReset(base, c, index) \in Tree
    BY DEF HardReset, Tree
  <1>2. QED BY <1>1, OverlayIsTree DEF CheckedOut

LEMMA StagesAreTrees ==
  ASSUME disk \in Tree, repo \in BOOLEAN, NEW t \in Tree, NEW stage \in Stages(t)
  PROVE  stage.tree \in Tree /\ stage.repo \in BOOLEAN /\ (repo => stage.repo)
  <1>1. CASE \E r \in {repo, TRUE} : stage = [tree |-> disk, repo |-> r, index |-> Index]
    <2>1. PICK r \in {repo, TRUE} : stage = [tree |-> disk, repo |-> r, index |-> Index]
      BY <1>1
    <2>2. stage.tree = disk /\ stage.repo = r
      BY <2>1
    <2>3. r \in BOOLEAN /\ (repo => r)
      OBVIOUS
    <2>4. QED BY <2>2, <2>3, Zenon
  <1>2. CASE \E R \in SUBSET Named(disk) :
          stage = [tree |-> Overlay(disk, EmptyTree, R), repo |-> TRUE, index |-> Index]
    <2>1. PICK R : stage = [tree |-> Overlay(disk, EmptyTree, R), repo |-> TRUE, index |-> Index]
      BY <1>2
    <2>2. Overlay(disk, EmptyTree, R) \in Tree
      BY OverlayIsTree, EmptyIsTree
    <2>3. QED BY <2>1, <2>2
  <1>3. CASE \E S \in SUBSET Named(t) :
          stage = [tree |-> Overlay(EmptyTree, t, S), repo |-> TRUE, index |-> Index]
    <2>1. PICK S : stage = [tree |-> Overlay(EmptyTree, t, S), repo |-> TRUE, index |-> Index]
      BY <1>3
    <2>2. Overlay(EmptyTree, t, S) \in Tree
      BY OverlayIsTree, EmptyIsTree
    <2>3. QED BY <2>1, <2>2
  <1>4. CASE stage = [tree |-> t, repo |-> TRUE, index |-> Named(Tracked(t))]
    BY <1>4
  <1>5. QED BY <1>1, <1>2, <1>3, <1>4 DEF Stages

(***************************************************************************)
(* A commit that is made is recorded, or cut off; one that is not leaves   *)
(* the repository and its commits as they were.                            *)
(***************************************************************************)
LEMMA MadeKeeps ==
  ASSUME SnapshotsOK, NEW t \in Tree, NEW c \in Fresh, NewCommit(c, t),
         \/ registry' = Append(registry, c) /\ torn' = torn
         \/ registry' = registry /\ torn' = torn \cup {c},
         life' = "cut" <=> life = "cut"
  PROVE  SnapshotsOK'
  <1>1. /\ repo' = TRUE /\ head' = c /\ commits' = [commits EXCEPT ![c] = Tracked(t)]
        /\ c \in Commit /\ commits[c] = NoTree /\ c \notin Recorded
    BY DEF NewCommit, Fresh
  <1>2. Tracked(t) \in Tree /\ Tracked(t) # NoTree /\ c # NoCommit
    BY <1>1, TrackedIsTree
  <1>3. /\ registry' \in Seq(Commit) /\ torn' \subseteq Commit
        /\ Recorded' \cup torn' = Recorded \cup torn \cup {c}
        /\ Recorded \subseteq Recorded' /\ Recorded' \subseteq Recorded \cup {c}
        /\ Recorded \subseteq Commit
    <2>1. Recorded \subseteq Commit
      BY RecordedCommits DEF SnapshotsOK
    <2>2. CASE registry' = Append(registry, c) /\ torn' = torn
      BY <1>1, <2>1, <2>2, AppendRecords DEF SnapshotsOK
    <2>3. CASE registry' = registry /\ torn' = torn \cup {c}
      BY <1>1, <2>1, <2>3 DEF SnapshotsOK, Recorded
    <2>4. QED BY <2>2, <2>3
  <1>4. commits' \in [Commit -> Tree \cup {NoTree}]
        /\ \A d \in Commit : commits'[d] = IF d = c THEN Tracked(t) ELSE commits[d]
    BY <1>1, <1>2 DEF SnapshotsOK
  <1>5. HeadExists'
    BY <1>1, <1>2, <1>4 DEF HeadExists
  <1>6. RecordedIsReadable'
    BY <1>1, <1>2, <1>3, <1>4 DEF SnapshotsOK, RecordedIsReadable, Readable
  <1>7. HeadIsRecorded'
    BY <1>1, <1>3 DEF HeadIsRecorded
  <1>8. QED BY <1>1, <1>3, <1>4, <1>5, <1>6, <1>7 DEF SnapshotsOK

LEMMA UnmadeKeeps ==
  ASSUME SnapshotsOK, repo' \in BOOLEAN, repo => repo',
         UNCHANGED <<commits, registry, torn>>,
         head' = head \/ head' \in {c \in Recorded : Readable(c)},
         life' = "cut" <=> life = "cut"
  PROVE  SnapshotsOK'
  <1>1. Recorded' = Recorded /\ Recorded \subseteq Commit
    BY RecordedCommits DEF SnapshotsOK, Recorded
  <1>2. HeadExists' /\ head' \in Commit \cup {NoCommit}
    BY <1>1 DEF SnapshotsOK, HeadExists, Readable
  <1>3. RecordedIsReadable'
    BY <1>1 DEF SnapshotsOK, RecordedIsReadable, Readable
  <1>4. HeadIsRecorded'
    BY <1>1 DEF SnapshotsOK, HeadIsRecorded
  <1>5. QED BY <1>2, <1>3, <1>4 DEF SnapshotsOK

-----------------------------------------------------------------------------

(***************************************************************************)
(* The steps.  What revives a project leaves it live or cut as it was.     *)
(***************************************************************************)
LEMMA RevivedKeeps ==
  ASSUME LifeOK, Revived, forked' = forked
  PROVE  LifeOK' /\ (life' = "cut" <=> life = "cut")
  BY DEF LifeOK, Revived, Lives, DeletedStaysDeleted

LEMMA InitIInv == Init => IInv
  <1> SUFFICES ASSUME Init PROVE IInv
    OBVIOUS
  <1>1. FilesOK
    BY EmptyIsTree DEF Init, PersistenceInit, FilesOK, WritesAreDue, Due
  <1>2. registry \in Seq(Commit) /\ Recorded = {}
    BY DEF Init, SnapshotInit, Recorded
  <1>3. SnapshotsOK
    BY <1>2 DEF Init, SnapshotInit, SnapshotsOK, HeadExists, RecordedIsReadable, HeadIsRecorded
  <1>4. LifeOK
    BY DEF Init, LifeOK, Lives, DeletedStaysDeleted
  <1>5. QED BY <1>1, <1>3, <1>4, Parts

LEMMA EditIInv == IInv /\ Edit => IInv'
  <1> SUFFICES ASSUME IInv, Edit PROVE IInv'
    OBVIOUS
  <1>1. PICK f \in File, c \in Content \cup {Absent} : EditFile(f, c) /\ NobodyAsks({f})
    BY DEF Edit
  <1>2. disk' \in Tree /\ (\A g \in File : g # f => disk'[g] = disk[g])
    BY <1>1, Parts DEF EditFile, FilesOK, Tree
  <1>3. asked' \in [File -> Content \cup {Absent, Unasked, Blended}]
        /\ asked'[f] = Unasked /\ (\A g \in File : g # f => asked'[g] = asked[g])
    BY <1>1, Parts DEF NobodyAsks, FilesOK
  <1>4. pending' = pending /\ Revived /\ forked' = forked
        /\ UNCHANGED <<repo, head, commits, registry, torn>>
    BY DEF Edit, snapshotVars
  <1>5. Due(Store, asked)'
    BY <1>2, <1>3, <1>4, Parts DEF Due, Store, FilesOK, WritesAreDue
  <1>6. FilesOK'
    BY <1>2, <1>3, <1>4, <1>5, Parts DEF FilesOK, WritesAreDue
  <1>7. LifeOK' /\ (life' = "cut" <=> life = "cut")
    BY <1>4, Parts, RevivedKeeps
  <1>8. SnapshotsOK'
    BY <1>4, <1>7, Parts, UnmadeKeeps DEF SnapshotsOK
  <1>9. QED BY <1>6, <1>7, <1>8, PartsNext

LEMMA StoreStepKeeps ==
  ASSUME NEW s \in Stores, Becomes(s), Due(s, asked'),
         asked' \in [File -> Content \cup {Absent, Unasked, Blended}]
  PROVE  FilesOK'
  <1>1. Store' = s
    BY DEF Stores, Becomes, Store
  <1>2. QED BY <1>1 DEF FilesOK, WritesAreDue, Stores, Becomes

LEMMA AskIInv == IInv /\ Ask => IInv'
  <1> SUFFICES ASSUME IInv, Ask PROVE IInv'
    OBVIOUS
  <1>1. Store \in Stores /\ Due(Store, asked)
        /\ asked \in [File -> Content \cup {Absent, Unasked, Blended}]
    BY Parts, StoreIsStore DEF FilesOK, WritesAreDue
  <1>2. PICK t \in Tree : Persist(t) \/ PersistPartial(t)
    BY DEF Ask
  <1>3. FilesOK'
    <2>1. CASE Persist(t)
      <3>1. PICK s \in AfterPersist(Store, t) : Becomes(s)
        BY <2>1 DEF Persist
      <3>2. asked' = t /\ asked' \in [File -> Content \cup {Absent, Unasked, Blended}]
        BY <2>1 DEF Persist, Tree
      <3>3. s \in Stores /\ Due(s, asked')
        BY <1>1, <3>2, PersistKeeps
      <3>4. QED BY <3>1, <3>2, <3>3, StoreStepKeeps
    <2>2. CASE PersistPartial(t)
      <3>1. PICK b \in BeforePartial(Store) :
              Becomes(Scheduled(b, t, FALSE)) /\ asked' = AskedPartly(b, asked, t)
        BY <2>2 DEF PersistPartial
      <3>2. PICK s : s = Scheduled(b, t, FALSE)
        OBVIOUS
      <3>3. asked' \in [File -> Content \cup {Absent, Unasked, Blended}]
        BY <1>1, <3>1 DEF AskedPartly, Tree
      <3>4. s \in Stores /\ Due(s, asked')
        BY <1>1, <3>1, <3>2, PersistPartialKeeps
      <3>5. QED BY <3>1, <3>2, <3>3, <3>4, StoreStepKeeps
    <2>3. QED BY <1>2, <2>1, <2>2
  <1>4. Revived /\ forked' = forked /\ UNCHANGED <<repo, head, commits, registry, torn>>
    BY DEF Ask, snapshotVars
  <1>5. LifeOK' /\ (life' = "cut" <=> life = "cut")
    BY <1>4, Parts, RevivedKeeps
  <1>6. SnapshotsOK'
    BY <1>4, <1>5, Parts, UnmadeKeeps DEF SnapshotsOK
  <1>7. QED BY <1>3, <1>5, <1>6, PartsNext

LEMMA WritePendingIInv == IInv /\ WritePending => IInv'
  <1> SUFFICES ASSUME IInv, WritePending PROVE IInv'
    OBVIOUS
  <1>1. Store \in Stores /\ Due(Store, asked)
    BY Parts, StoreIsStore DEF FilesOK, WritesAreDue
  <1>2. /\ pending # NoWrite /\ asked' = asked /\ life' = life /\ forked' = forked
        /\ UNCHANGED <<repo, head, commits, registry, torn>>
    BY DEF WritePending, Flush, TimerFires, snapshotVars
  <1>3. PICK s \in PersistNow(Store) : Becomes(s)
    BY DEF WritePending, Flush, TimerFires
  <1>4. FilesOK'
    <2>1. s \in Stores /\ Due(s, asked')
      BY <1>1, <1>2, PersistNowKeeps
    <2>2. asked' \in [File -> Content \cup {Absent, Unasked, Blended}]
      BY <1>2, Parts DEF FilesOK
    <2>3. QED BY <1>3, <2>1, <2>2, StoreStepKeeps
  <1>5. LifeOK'
    BY <1>2, Parts DEF LifeOK, DeletedStaysDeleted
  <1>6. SnapshotsOK'
    BY <1>2, Parts, UnmadeKeeps DEF SnapshotsOK
  <1>7. QED BY <1>4, <1>5, <1>6, PartsNext

(***************************************************************************)
(* A save: the commit is made or not, the tree is one in either case.      *)
(***************************************************************************)
LEMMA HeadIsTree ==
  ASSUME SnapshotsOK, head # NoCommit
  PROVE  commits[head] \in Tree
  BY DEF SnapshotsOK, HeadExists

LEMMA StepOfSave ==
  ASSUME SnapshotsOK, disk \in Tree, life' = "cut" <=> life = "cut", NEW t \in Tree,
         \/ CommitSnapshot(t) \/ CommitFails(t) \/ CommitRollsBack(t) \/ RollbackFails(t)
         \/ CrashBeforeCommit(t) \/ CrashBeforeRecord(t)
  PROVE  SnapshotsOK' /\ disk' \in Tree
  <1>0. repo \in BOOLEAN
    BY DEF SnapshotsOK
  <1>1. CASE CommitSnapshot(t)
    <2>1. PICK c \in Fresh : /\ NewCommit(c, t) /\ registry' = Append(registry, c)
                             /\ disk' = t /\ torn' = torn
      BY <1>1 DEF CommitSnapshot
    <2>2. QED BY <2>1, MadeKeeps
  <1>2. CASE CommitFails(t) \/ CrashBeforeCommit(t)
    <2>1. PICK stage \in Stages(t) :
            /\ StoppedAt(stage)
            /\ \/ disk' = stage.tree
               \/ head # NoCommit /\ disk' = HardReset(stage.tree, head, stage.index)
      BY <1>2 DEF CommitFails, CrashBeforeCommit
    <2>2. stage.tree \in Tree /\ stage.repo \in BOOLEAN /\ (repo => stage.repo)
      BY <1>0, StagesAreTrees
    <2>3. disk' \in Tree
      BY <2>1, <2>2, HeadIsTree, ResetIsTree
    <2>4. repo' = stage.repo /\ UNCHANGED <<head, commits, registry, torn>>
      BY <2>1 DEF StoppedAt
    <2>5. repo' \in BOOLEAN /\ (repo => repo')
      BY <2>2, <2>4, Zenon
    <2>6. QED BY <2>3, <2>4, <2>5, UnmadeKeeps
  <1>3. CASE CommitRollsBack(t)
    <2>1. repo' = TRUE /\ disk' = RolledBack(t) /\ UNCHANGED <<head, commits, registry, torn>>
      BY <1>3 DEF CommitRollsBack
    <2>2. RolledBack(t) \in Tree
      BY HeadIsTree, ResetIsTree, EmptyIsTree DEF RolledBack
    <2>3. QED BY <2>1, <2>2, UnmadeKeeps
  <1>4. CASE RollbackFails(t) \/ CrashBeforeRecord(t)
    <2>1. PICK c \in Fresh : /\ NewCommit(c, t) /\ registry' = registry
                             /\ torn' = torn \cup {c} /\ disk' \in {EmptyTree, t}
      BY <1>4 DEF RollbackFails, CrashBeforeRecord
    <2>2. QED BY <2>1, MadeKeeps, EmptyIsTree
  <1>5. QED BY <1>1, <1>2, <1>3, <1>4

LEMMA SaveIInv == IInv /\ Save => IInv'
  <1> SUFFICES ASSUME IInv, Save PROVE IInv'
    OBVIOUS
  <1>1. PICK t \in Saves :
          CommitSnapshot(t) \/ CommitFails(t) \/ CommitRollsBack(t) \/ RollbackFails(t)
    BY DEF Save
  <1>2. NobodyAsks(File) /\ Revived /\ pending' = pending /\ forked' = forked
    BY DEF Save
  <1>3. LifeOK' /\ (life' = "cut" <=> life = "cut")
    BY <1>2, Parts, RevivedKeeps
  <1>4. SnapshotsOK' /\ disk' \in Tree
    <2>1. t \in Tree /\ SnapshotsOK /\ disk \in Tree
      BY Parts DEF FilesOK
    <2>2. QED BY <1>1, <1>3, <2>1, StepOfSave
  <1>5. FilesOK'
    BY <1>2, <1>4, Parts, NobodyIsOwed DEF FilesOK
  <1>6. QED BY <1>3, <1>4, <1>5, PartsNext

(***************************************************************************)
(* A restore, also the one a fork makes in its origin: there is none where *)
(* nothing is recorded, so a deleted project has none.                     *)
(***************************************************************************)
LEMMA RestoreKeeps ==
  ASSUME IInv, NEW c \in Recorded, Restore(c) \/ RestoreCut(c), NobodyAsks(File),
         pending' = pending, life' = life, forked' \in BOOLEAN
  PROVE  IInv'
  <1>1. /\ Readable(c) /\ head' = c /\ UNCHANGED <<repo, commits, registry, torn>>
        /\ disk' \in {CheckedOut(disk, c), HardReset(disk, c, Index)}
    BY DEF Restore, RestoreCut
  <1>2. SnapshotsOK'
    BY <1>1, Parts, UnmadeKeeps DEF SnapshotsOK
  <1>3. disk' \in Tree
    <2>1. commits[c] \in Tree /\ disk \in Tree
      BY <1>1, Parts, RecordedCommits DEF SnapshotsOK, FilesOK, Readable
    <2>2. QED BY <1>1, <2>1, ResetIsTree
  <1>4. FilesOK'
    BY <1>3, Parts, NobodyIsOwed DEF FilesOK
  <1>5. LifeOK'
    BY Parts, RecordedCommits DEF LifeOK, DeletedStaysDeleted, SnapshotsOK
  <1>6. QED BY <1>2, <1>4, <1>5, PartsNext

LEMMA ForkIInv == IInv /\ Fork => IInv'
  <1> SUFFICES ASSUME IInv, Fork PROVE IInv'
    OBVIOUS
  <1>1. forked' = TRUE /\ pending' = pending /\ life' = life
    BY DEF Fork
  <1>2. CASE registry # <<>>
    <2>1. Latest \in Recorded
      BY <1>2, Parts, RecordedCommits DEF SnapshotsOK
    <2>2. Restore(Latest) /\ NobodyAsks(File)
      BY <1>2 DEF Fork
    <2>3. QED BY <1>1, <2>1, <2>2, RestoreKeeps
  <1>3. CASE registry = <<>>
    <2>1. disk' = disk /\ asked' = asked /\ UNCHANGED <<repo, head, commits, registry, torn>>
      BY <1>3 DEF Fork, snapshotVars
    <2>2. SnapshotsOK'
      BY <1>1, <2>1, Parts, UnmadeKeeps DEF SnapshotsOK
    <2>3. FilesOK'
      BY <1>1, <2>1, Parts DEF FilesOK, WritesAreDue, Due, Store
    <2>4. LifeOK'
      BY <1>1, <2>1, Parts DEF LifeOK, DeletedStaysDeleted
    <2>5. QED BY <2>2, <2>3, <2>4, PartsNext
  <1>4. QED BY <1>2, <1>3

(***************************************************************************)
(* A deletion, whole or cut.                                               *)
(***************************************************************************)
LEMMA GoneKeeps ==
  ASSUME RepoGone
  PROVE  /\ repo' = FALSE /\ head' = NoCommit /\ torn' = {}
         /\ commits' \in [Commit -> Tree \cup {NoTree}]
         /\ HeadExists'
  BY DEF RepoGone, HeadExists

LEMMA DeleteIInv == IInv /\ (Delete \/ DeleteCut) => IInv'
  <1> SUFFICES ASSUME IInv, Delete \/ DeleteCut PROVE IInv'
    OBVIOUS
  <1>1. CASE Delete
    <2>1. /\ pending' = NoWrite /\ disk' = EmptyTree /\ RepoGone /\ registry' = <<>>
          /\ NobodyAsks(File) /\ life' = "deleted" /\ forked' = forked
      BY <1>1 DEF Delete, ForgetWrite
    <2>2. FilesOK'
      BY <2>1, NobodyIsOwed, EmptyIsTree DEF FilesOK
    <2>3. registry' \in Seq(Commit) /\ Recorded' = {}
      BY <2>1 DEF Recorded
    <2>4. SnapshotsOK'
      BY <2>1, <2>3, GoneKeeps DEF SnapshotsOK, RecordedIsReadable, HeadIsRecorded
    <2>5. LifeOK'
      BY <2>1, Parts, GoneKeeps DEF LifeOK, Lives, DeletedStaysDeleted
    <2>6. QED BY <2>2, <2>4, <2>5, PartsNext
  <1>2. CASE DeleteCut
    <2>1. /\ pending' = NoWrite /\ NobodyAsks(File) /\ life' = "cut" /\ forked' = forked
          /\ registry' = registry
          /\ RepoGone \/ UNCHANGED <<repo, head, commits, torn>>
      BY <1>2 DEF DeleteCut, ForgetWrite
    <2>2. disk' \in Tree
      <3>1. PICK R \in SUBSET File : disk' = Overlay(disk, EmptyTree, R)
        BY <1>2 DEF DeleteCut
      <3>2. QED BY <3>1, Parts, OverlayIsTree, EmptyIsTree DEF FilesOK
    <2>3. FilesOK'
      BY <2>1, <2>2, NobodyIsOwed DEF FilesOK
    <2>4. RecordedIsReadable' /\ HeadIsRecorded'
      BY <2>1 DEF RecordedIsReadable, HeadIsRecorded
    <2>5. SnapshotsOK'
      <3>1. CASE RepoGone
        BY <2>1, <2>4, <3>1, Parts, GoneKeeps DEF SnapshotsOK
      <3>2. CASE UNCHANGED <<repo, head, commits, torn>>
        BY <2>1, <2>4, <3>2, Parts DEF SnapshotsOK, HeadExists
      <3>3. QED BY <2>1, <3>1, <3>2
    <2>6. LifeOK'
      BY <2>1, Parts DEF LifeOK, Lives, DeletedStaysDeleted
    <2>7. QED BY <2>3, <2>5, <2>6, PartsNext
  <1>3. QED BY <1>1, <1>2

(***************************************************************************)
(* Crashes.                                                                *)
(***************************************************************************)
LEMMA CrashIInv == IInv /\ (Crash \/ CrashInWrite \/ CrashInSave) => IInv'
  <1> SUFFICES ASSUME IInv, Crash \/ CrashInWrite \/ CrashInSave PROVE IInv'
    OBVIOUS
  <1>1. pending' = NoWrite /\ NobodyAsks(File) /\ forked' = forked
    BY DEF Crash, CrashInWrite, CrashInSave, Lost, ForgetWrite
  <1>2. disk' \in Tree => FilesOK'
    BY <1>1, NobodyIsOwed DEF FilesOK
  <1>3. CASE Crash
    <2>1. disk' = disk /\ life' = life /\ UNCHANGED <<repo, head, commits, registry, torn>>
      BY <1>3 DEF Crash, snapshotVars
    <2>2. SnapshotsOK'
      BY <2>1, Parts, UnmadeKeeps DEF SnapshotsOK
    <2>3. LifeOK'
      BY <1>1, <2>1, Parts DEF LifeOK, DeletedStaysDeleted
    <2>4. QED BY <1>2, <2>1, <2>2, <2>3, Parts, PartsNext DEF FilesOK
  <1>4. CASE CrashInWrite
    <2>1. /\ pending # NoWrite /\ life' = life
          /\ UNCHANGED <<repo, head, commits, registry, torn>>
      BY <1>4 DEF CrashInWrite, snapshotVars
    <2>2. Store \in Stores /\ Store.pending = pending /\ Due(Store, asked)
      BY Parts, StoreIsStore DEF FilesOK, Store, WritesAreDue
    <2>3. disk' \in Tree
      <3>1. CASE \E s \in Failed(Store) : disk' = s.disk
        BY <2>1, <2>2, <3>1, FailedKeeps DEF Stores
      <3>2. CASE \E R \in SUBSET (File \ Named(pending.entries)) :
                   disk' = Overlay(Laid(Store, Named(pending.entries)), EmptyTree, R)
        <4>1. PICK d : d = Laid(Store, Named(pending.entries))
          OBVIOUS
        <4>2. d \in Tree
          BY <2>1, <2>2, <4>1, OverlayIsTree DEF Laid, Stores, Pending
        <4>3. PICK R : disk' = Overlay(d, EmptyTree, R)
          BY <3>2, <4>1
        <4>4. QED BY <4>2, <4>3, OverlayIsTree, EmptyIsTree
      <3>3. QED BY <1>4, <3>1, <3>2 DEF CrashInWrite
    <2>4. SnapshotsOK'
      BY <2>1, Parts, UnmadeKeeps DEF SnapshotsOK
    <2>5. LifeOK'
      BY <1>1, <2>1, Parts DEF LifeOK, DeletedStaysDeleted
    <2>6. QED BY <1>2, <2>3, <2>4, <2>5, PartsNext
  <1>5. CASE CrashInSave
    <2>1. PICK t \in Saves : CrashBeforeCommit(t) \/ CrashBeforeRecord(t)
      BY <1>5 DEF CrashInSave
    <2>2. LifeOK' /\ (life' = "cut" <=> life = "cut")
      BY <1>1, <1>5, Parts, RevivedKeeps DEF CrashInSave
    <2>3. SnapshotsOK' /\ disk' \in Tree
      <3>1. t \in Tree /\ SnapshotsOK /\ disk \in Tree
        BY Parts DEF FilesOK
      <3>2. QED BY <2>1, <2>2, <3>1, StepOfSave
    <2>4. QED BY <1>2, <2>2, <2>3, PartsNext
  <1>6. QED BY <1>3, <1>4, <1>5

LEMMA NextIInv == IInv /\ [Next]_vars => IInv'
  <1> SUFFICES ASSUME IInv, [Next]_vars PROVE IInv'
    OBVIOUS
  <1>1. CASE RestoreSnapshot
    <2>1. PICK c \in Recorded : Restore(c) \/ RestoreCut(c)
      BY <1>1 DEF RestoreSnapshot
    <2>2. NobodyAsks(File) /\ pending' = pending /\ life' = life /\ forked' \in BOOLEAN
      BY <1>1, Parts DEF RestoreSnapshot, LifeOK
    <2>3. QED BY <2>1, <2>2, RestoreKeeps
  <1>2. CASE UNCHANGED vars
    BY <1>2 DEF vars, snapshotVars, IInv, TypeOK, WritesAreDue, Due, Store, HeadExists,
                DeletedStaysDeleted, RecordedIsReadable, HeadIsRecorded, Recorded, Readable
  <1>3. QED BY <1>1, <1>2, EditIInv, AskIInv, WritePendingIInv, SaveIInv, ForkIInv,
               DeleteIInv, CrashIInv DEF Next

LEMMA SpecIInv == Spec => []IInv
  BY InitIInv, NextIInv, PTL DEF Spec

-----------------------------------------------------------------------------

(***************************************************************************)
(* Whatever the calls of both stores and a crash leave is a tree, a write, *)
(* a repository and a registry.                                            *)
(***************************************************************************)
THEOREM StorageTypeOK == Spec => []TypeOK
  <1>1. IInv => TypeOK
    BY DEF IInv
  <1>2. QED BY <1>1, SpecIInv, PTL

(***************************************************************************)
(* The persistence store loses no write: what schedule(), writeTree() and  *)
(* the timer do, try after try, leaves every file as its last caller wants *)
(* it, on disk or pending.                                                 *)
(***************************************************************************)
THEOREM WritesAreKept == Spec => []NoWriteIsLost
  <1>1. IInv => NoWriteIsLost
    BY DEF IInv, WritesAreDue, Due, Store, NoWriteIsLost
  <1>2. QED BY <1>1, SpecIInv, PTL

(***************************************************************************)
(* deleteProject is final until somebody writes: no debounced write, no    *)
(* restore and no crash brings a file of the project back.                 *)
(***************************************************************************)
THEOREM DeletionLasts == Spec => []DeletedStaysDeleted
  <1>1. IInv => DeletedStaysDeleted
    BY DEF IInv
  <1>2. QED BY <1>1, SpecIInv, PTL

(***************************************************************************)
(* Whatever step of commitSnapshot, of its rollback or of a restore fails, *)
(* what the registry lists can be restored.                                *)
(***************************************************************************)
THEOREM RecordsAreReadable == Spec => []RecordedIsReadable
  <1>1. IInv => RecordedIsReadable
    BY DEF IInv
  <1>2. QED BY <1>1, SpecIInv, PTL

(***************************************************************************)
(* A save that fails leaves no commit behind: HEAD is a recorded snapshot  *)
(* unless a crash or a failing rollback cut its record off.                *)
(***************************************************************************)
THEOREM HeadsAreRecorded == Spec => []HeadIsRecorded
  <1>1. IInv => HeadIsRecorded
    BY DEF IInv
  <1>2. QED BY <1>1, SpecIInv, PTL

(***************************************************************************)
(* No step but a deletion makes a snapshot unreadable: a new commit takes  *)
(* an identity no other has, and nothing but deleteSnapshots unmakes one.  *)
(***************************************************************************)
LEMMA SaveSpares ==
  ASSUME registry \in Seq(Commit), commits \in [Commit -> Tree \cup {NoTree}], NEW t \in Tree,
         \/ CommitSnapshot(t) \/ CommitFails(t) \/ CommitRollsBack(t) \/ RollbackFails(t)
         \/ CrashBeforeCommit(t) \/ CrashBeforeRecord(t),
         NEW c \in Recorded, Readable(c)
  PROVE  Readable(c)'
  <1>1. c \in Commit
    BY RecordedCommits
  <1>2. CASE \E d \in Fresh : NewCommit(d, t) /\ registry' = Append(registry, d)
    <2>1. PICK d \in Fresh : NewCommit(d, t) /\ registry' = Append(registry, d)
      BY <1>2
    <2>2. d # c /\ d \in Commit
      BY DEF Fresh
    <2>3. c \in Recorded'
      BY <2>1, <2>2, AppendRecords
    <2>4. QED BY <1>1, <2>1, <2>2, <2>3 DEF Readable, NewCommit
  <1>3. CASE \E d \in Fresh : NewCommit(d, t) /\ registry' = registry
    <2>1. PICK d \in Fresh : NewCommit(d, t) /\ registry' = registry
      BY <1>3
    <2>2. d # c /\ d \in Commit
      BY DEF Fresh
    <2>3. QED BY <1>1, <2>1, <2>2 DEF Readable, NewCommit, Recorded
  <1>4. CASE UNCHANGED <<commits, registry>> /\ (repo => repo')
    BY <1>4 DEF Readable, Recorded
  <1>5. CommitFails(t) \/ CrashBeforeCommit(t) => UNCHANGED <<commits, registry>> /\ (repo => repo')
    <2>1. ASSUME NEW stage \in Stages(t), StoppedAt(stage)
          PROVE  UNCHANGED <<commits, registry>> /\ (repo => repo')
      BY <2>1 DEF StoppedAt, Stages
    <2>2. QED BY <2>1 DEF CommitFails, CrashBeforeCommit
  <1>6. QED BY <1>2, <1>3, <1>4, <1>5
            DEF CommitSnapshot, CommitRollsBack, RollbackFails, CrashBeforeRecord

THEOREM SnapshotsAreKept == Spec => SnapshotsSurvive
  <1>1. IInv /\ [Next]_vars =>
          [life' \notin {"deleted", "cut"} =>
             \A c \in Recorded : Readable(c) => Readable(c)']_vars
    <2> SUFFICES ASSUME IInv, Next, life' \notin {"deleted", "cut"},
                        NEW c \in Recorded, Readable(c)
                 PROVE  Readable(c)'
      OBVIOUS
    <2>1. registry \in Seq(Commit) /\ commits \in [Commit -> Tree \cup {NoTree}]
      BY DEF IInv, TypeOK
    <2>2. CASE UNCHANGED <<repo, commits, registry>>
      BY <2>2 DEF Readable, Recorded
    <2>3. CASE Edit \/ Ask \/ WritePending \/ RestoreSnapshot \/ Fork \/ Crash \/ CrashInWrite
      <3>1. UNCHANGED <<repo, commits, registry>>
        BY <2>3 DEF Edit, Ask, WritePending, RestoreSnapshot, Restore, RestoreCut, Fork,
                    Crash, CrashInWrite, snapshotVars
      <3>2. QED BY <2>2, <3>1
    <2>4. CASE Save
      <3>1. PICK t \in Saves :
              CommitSnapshot(t) \/ CommitFails(t) \/ CommitRollsBack(t) \/ RollbackFails(t)
        BY <2>4 DEF Save
      <3>2. QED BY <2>1, <3>1, SaveSpares
    <2>5. CASE CrashInSave
      <3>1. PICK t \in Saves : CrashBeforeCommit(t) \/ CrashBeforeRecord(t)
        BY <2>5 DEF CrashInSave
      <3>2. QED BY <2>1, <3>1, SaveSpares
    <2>6. ~Delete /\ ~DeleteCut
      BY DEF Delete, DeleteCut
    <2>7. QED BY <2>3, <2>4, <2>5, <2>6 DEF Next
  <1>2. QED BY <1>1, SpecIInv, PTL DEF Spec, SnapshotsSurvive
=============================================================================
