---------------------------- MODULE RegistryLock ----------------------------
(***************************************************************************)
(* withLock of src/project/project-registry.js: an advisory lock between   *)
(* processes, held by whoever created its directory.  Every call of the    *)
(* file system is a step, and other processes run between two of them.  A  *)
(* directory is known by its inode and mtime, here an identity.            *)
(***************************************************************************)
EXTENDS Naturals, FiniteSets

CONSTANTS
  Proc,     \* processes that share the control root
  Lock,     \* the paths of the locks
  Id,       \* identities of directories
  NoId, NoLock

ASSUME LockAssumption == NoId \notin Id /\ NoLock \notin Lock
ASSUME ProcAssumption == IsFiniteSet(Proc) /\ Proc # {}

VARIABLES
  dir,      \* lock -> the identity of its directory
  old,      \* identities older than LOCK_STALE_MS
  lk,       \* process -> its call of withLock; seen is the identity that it
            \* last looked at or, inside, that it created
  clash     \* auxiliary: a stealer removed another directory than the one
            \* it had looked at twice

lockVars == <<dir, old, lk, clash>>

LockPc == {"out", "mkdir", "restat", "rm", "in", "failed"}

NoCall == [pc |-> "out", lock |-> NoLock, seen |-> NoId]

LockCall == [pc : LockPc, lock : Lock \cup {NoLock}, seen : Id \cup {NoId}]

Dir(p) == dir[lk[p].lock]

Seen == {lk[p].seen : p \in Proc}

Unused == Id \ (Seen \cup {dir[l] : l \in Lock})

Inside(p, l) == lk[p].pc = "in" /\ lk[p].lock = l

-----------------------------------------------------------------------------

Wants(p, l) ==
  /\ lk[p].pc = "out"
  /\ lk' = [lk EXCEPT ![p] = [pc |-> "mkdir", lock |-> l, seen |-> NoId]]
  /\ UNCHANGED <<dir, old, clash>>

Makes(p) ==
  /\ lk[p].pc = "mkdir"
  /\ Dir(p) = NoId
  /\ \E i \in Unused :
       /\ dir' = [dir EXCEPT ![lk[p].lock] = i]
       /\ old' = old \ {i}
       /\ lk' = [lk EXCEPT ![p] = [pc |-> "in", lock |-> lk[p].lock, seen |-> i]]
  /\ UNCHANGED clash

\* Another attempt, or the last one (LOCK_RETRY_MAX) has been made.
Retries(p) ==
  \E pc \in {"mkdir", "failed"} :
    lk' = [lk EXCEPT ![p] = [pc |-> pc, lock |-> lk[p].lock, seen |-> NoId]]

\* mkdirSync fails and statSync looks at what is there.  What others do between
\* the two makes no difference: a lock that vanishes is as one found later.
FindsBusy(p) ==
  /\ lk[p].pc = "mkdir"
  /\ Dir(p) # NoId
  /\ \/ /\ Dir(p) \in old
        /\ lk' = [lk EXCEPT ![p] = [pc |-> "restat", lock |-> lk[p].lock, seen |-> Dir(p)]]
     \/ Dir(p) \notin old /\ Retries(p)
  /\ UNCHANGED <<dir, old, clash>>

\* (Mutant: whatever directory is there will do.)
AnyDirectory(p) == Dir(p) # NoId

SameDirectory(p) == Dir(p) = lk[p].seen

LooksAgain(p) ==
  /\ lk[p].pc = "restat"
  /\ \/ /\ SameDirectory(p)
        /\ lk' = [lk EXCEPT ![p] = [pc |-> "rm", lock |-> lk[p].lock, seen |-> Dir(p)]]
     \/ ~SameDirectory(p) /\ Retries(p)
  /\ UNCHANGED <<dir, old, clash>>

\* rmSync removes what has this path now.
Steals(p) ==
  /\ lk[p].pc = "rm"
  /\ dir' = [dir EXCEPT ![lk[p].lock] = NoId]
  /\ clash' = (clash \/ Dir(p) \notin {NoId, lk[p].seen})
  /\ Retries(p)
  /\ UNCHANGED old

Leaves(p) ==
  /\ lk[p].pc = "in"
  /\ dir' = [dir EXCEPT ![lk[p].lock] = NoId]
  /\ lk' = [lk EXCEPT ![p] = NoCall]
  /\ UNCHANGED <<old, clash>>

GivesUp(p) ==
  /\ lk[p].pc = "failed"
  /\ lk' = [lk EXCEPT ![p] = NoCall]
  /\ UNCHANGED <<dir, old, clash>>

\* The process dies; its directory stays.
Dies(p) ==
  /\ lk' = [lk EXCEPT ![p] = NoCall]
  /\ UNCHANGED <<dir, old, clash>>

\* Time passes.  Nobody who lives stays inside for LOCK_STALE_MS: the body is
\* one read and one write of a small file.
Ages(l) ==
  /\ dir[l] \in Id \ old
  /\ \A p \in Proc : lk[p].pc = "in" => lk[p].seen # dir[l]
  /\ old' = old \cup {dir[l]}
  /\ UNCHANGED <<dir, lk, clash>>

LockInit ==
  /\ dir = [l \in Lock |-> NoId]
  /\ old = {}
  /\ lk = [p \in Proc |-> NoCall]
  /\ clash = FALSE

Attempts(p) == Makes(p) \/ FindsBusy(p) \/ LooksAgain(p) \/ Steals(p)

LockNext ==
  \/ \E p \in Proc, l \in Lock : Wants(p, l)
  \/ \E p \in Proc : Attempts(p) \/ Leaves(p) \/ GivesUp(p) \/ Dies(p)
  \/ \E l \in Lock : Ages(l)

LockSpec == LockInit /\ [][LockNext]_lockVars

-----------------------------------------------------------------------------

LockTypeOK ==
  /\ dir \in [Lock -> Id \cup {NoId}]
  /\ old \subseteq Id
  /\ lk \in [Proc -> LockCall]
  /\ clash \in BOOLEAN
  /\ \A p \in Proc : lk[p].pc # "out" => lk[p].lock \in Lock

(***************************************************************************)
(* At most one process is inside a lock, through stale locks, steals and   *)
(* the deaths of holders, as long as no stealer removes a directory that   *)
(* was made between its second look and its rmSync.                        *)
(***************************************************************************)
Exclusive ==
  ~clash => \A p, q \in Proc : \A l \in Lock : Inside(p, l) /\ Inside(q, l) => p = q

(***************************************************************************)
(* project-registry.js:161: "only the writer whose mkdir wins actually     *)
(* holds the lock, so two concurrent stealers can never both proceed".     *)
(***************************************************************************)
StealersNeverBothProceed ==
  \A p, q \in Proc : \A l \in Lock : Inside(p, l) /\ Inside(q, l) => p = q
=============================================================================
