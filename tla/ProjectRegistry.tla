-------------------------- MODULE ProjectRegistry --------------------------
(***************************************************************************)
(* The registry of projects (src/project/project-registry.js), shared by   *)
(* processes: a file of records per owner and one index, each under its    *)
(* lock; with createProject (src/project/project-manager.js) and the       *)
(* unregister of a deletion, which are its writers, and get, its reader.   *)
(* An id is minted once and belongs to one owner, so that a record is an   *)
(* id here and the index, a map to owners, is the set of its ids.          *)
(***************************************************************************)
EXTENDS RegistryLock

CONSTANTS
  Project, Owner,
  OwnerOf,        \* project -> owner
  IndexLock,      \* the lock of the index; an owner's lock is the owner
  MaxProjects,    \* maxTotalProjects
  MaxCrashes,     \* bound: how many processes die
  NoProject

ASSUME RegistryAssumption ==
  /\ Lock = Owner \cup {IndexLock}
  /\ IndexLock \notin Owner
  /\ OwnerOf \in [Project -> Owner]
  /\ MaxProjects \in Nat /\ MaxCrashes \in Nat
  /\ NoProject \notin Project

VARIABLES
  files,          \* owner -> the projects in projects.json
  index,          \* the projects in index.json
  op,             \* process -> the call it is in
  crashes,        \* auxiliary: deaths so far
  minted,         \* auxiliary: the ids that were given out
  kept,           \* auxiliary: projects whose record was written, and not
                  \* taken out again
  created         \* auxiliary: the kept projects whose creation was reported
                  \* done

fileVars == <<files, index>>
ghostVars == <<crashes, minted, kept, created>>
vars == <<lockVars, fileVars, op, ghostVars>>

(***************************************************************************)
(* The stages of a call.  In the four that hold a lock, a step of its own  *)
(* asks for the lock, then reads the file, writes it and leaves.           *)
(***************************************************************************)
Locked == {"record", "index", "unrecord", "unindex"}

Stage == {"idle", "count", "acquire", "lookup", "read", "scan"} \cup Locked

Step == {"ask", "load", "save", "leave"}

Idle == [kind |-> "none", proj |-> NoProject, at |-> "idle", step |-> "ask",
         read |-> {}, sure |-> FALSE]

Call == [kind : {"none", "create", "delete", "get"}, proj : Project \cup {NoProject},
         at : Stage, step : Step, read : SUBSET Project, sure : BOOLEAN]

\* (Mutant: records are locked one by one.)
LockPerProject(p) ==
  IF op[p].at \in {"record", "unrecord"} THEN op[p].proj ELSE IndexLock

LockOf(p) ==
  IF op[p].at \in {"record", "unrecord"} THEN OwnerOf[op[p].proj] ELSE IndexLock

Records(p) == files[OwnerOf[op[p].proj]]

Moves(p, stage) == op' = [op EXCEPT ![p].at = stage, ![p].step = "ask", ![p].read = {}]

Ends(p) == op' = [op EXCEPT ![p] = Idle]

Steps(p, step) == op' = [op EXCEPT ![p].step = step]

-----------------------------------------------------------------------------
(***************************************************************************)
(* Creating: the quota is checked on a plain read, the record is written,  *)
(* then the index, then a sandbox is acquired or all is undone.            *)
(***************************************************************************)
BeginCreate(p, proj) ==
  /\ op[p] = Idle
  /\ proj \notin minted
  /\ op' = [op EXCEPT ![p] = [Idle EXCEPT !.kind = "create", !.proj = proj, !.at = "count"]]
  /\ minted' = minted \cup {proj}
  /\ UNCHANGED <<lockVars, fileVars, crashes, kept, created>>

\* (Mutant: the limit is off by one.)
OneMoreAllowed(p) == Cardinality(Records(p)) <= MaxProjects

WithinQuota(p) == Cardinality(Records(p)) < MaxProjects

CheckQuota(p) ==
  /\ op[p].at = "count"
  /\ \/ WithinQuota(p) /\ Moves(p, "record")
     \/ ~WithinQuota(p) /\ Ends(p)
  /\ UNCHANGED <<lockVars, fileVars, ghostVars>>

Acquired(p) ==
  /\ op[p].at = "acquire"
  /\ Ends(p)
  /\ created' = (created \cup {op[p].proj}) \cap kept
  /\ UNCHANGED <<lockVars, fileVars, crashes, minted, kept>>

AcquireThrows(p) ==
  /\ op[p].at = "acquire"
  /\ Moves(p, "unrecord")
  /\ UNCHANGED <<lockVars, fileVars, ghostVars>>

BeginDelete(p, proj) ==
  /\ op[p] = Idle
  /\ proj \in kept
  /\ op' = [op EXCEPT ![p] = [Idle EXCEPT !.kind = "delete", !.proj = proj, !.at = "unrecord"]]
  /\ UNCHANGED <<lockVars, fileVars, ghostVars>>

-----------------------------------------------------------------------------
(***************************************************************************)
(* register and unregister, each under one lock and then the other.        *)
(***************************************************************************)
AsksForLock(p) ==
  /\ op[p].at \in Locked
  /\ op[p].step = "ask"
  /\ Wants(p, LockOf(p))
  /\ Steps(p, "load")
  /\ UNCHANGED <<fileVars, ghostVars>>

AttemptsLock(p) == Attempts(p) /\ UNCHANGED <<fileVars, op, ghostVars>>

OnFile(p) == IF op[p].at \in {"record", "unrecord"} THEN Records(p) ELSE index

Loads(p) ==
  /\ lk[p].pc = "in"
  /\ op[p].step = "load"
  /\ op' = [op EXCEPT ![p].step = "save", ![p].read = OnFile(p)]
  /\ UNCHANGED <<lockVars, fileVars, ghostVars>>

Changed(p) ==
  IF op[p].at \in {"record", "index"} THEN op[p].read \cup {op[p].proj}
                                      ELSE op[p].read \ {op[p].proj}

\* (Mutant: the file is written anew.)
WrittenAlone(p) ==
  IF op[p].at \in {"record", "index"} THEN {op[p].proj} ELSE op[p].read \ {op[p].proj}

Written(p) == Changed(p)

SavesRecords(p) ==
  /\ op[p].at \in {"record", "unrecord"}
  /\ files' = IF Written(p) = op[p].read THEN files
              ELSE [files EXCEPT ![OwnerOf[op[p].proj]] = Written(p)]
  /\ kept' = IF op[p].at = "record" THEN kept \cup {op[p].proj} ELSE kept \ {op[p].proj}
  /\ created' = created \cap kept'
  /\ UNCHANGED index

SavesIndex(p) ==
  /\ op[p].at \in {"index", "unindex"}
  /\ index' = IF Written(p) = op[p].read THEN index ELSE Written(p)
  /\ UNCHANGED <<files, kept, created>>

Saves(p) ==
  /\ op[p].step = "save"
  /\ SavesRecords(p) \/ SavesIndex(p)
  /\ Steps(p, "leave")
  /\ UNCHANGED <<lockVars, crashes, minted>>

LeavesLock(p) ==
  /\ op[p].step = "leave"
  /\ Leaves(p)
  /\ \/ op[p].at = "record" /\ Moves(p, "index")
     \/ op[p].at = "unrecord" /\ Moves(p, "unindex")
     \/ op[p].at = "index" /\ op[p].kind = "create" /\ Moves(p, "acquire")
     \/ op[p].at = "index" /\ op[p].kind = "get" /\ Ends(p)
     \/ op[p].at = "unindex" /\ Ends(p)
  /\ UNCHANGED <<fileVars, ghostVars>>

\* The lock was not to be had and the call throws.  A get swallows it, and so
\* does the rollback of a creation.
LockRefused(p) ==
  /\ GivesUp(p)
  /\ Ends(p)
  /\ UNCHANGED <<fileVars, ghostVars>>

-----------------------------------------------------------------------------
(***************************************************************************)
(* get and resolver: the index, the owner's file, and when either fails    *)
(* the files of all owners, of which only the owner's can have the id.     *)
(* `sure` says that the project was registered all the time.               *)
(***************************************************************************)
BeginGet(p, proj) ==
  /\ op[p] = Idle
  /\ proj \in minted
  /\ op' = [op EXCEPT ![p] = [Idle EXCEPT !.kind = "get", !.proj = proj, !.at = "lookup",
                                          !.sure = proj \in kept]]
  /\ UNCHANGED <<lockVars, fileVars, ghostVars>>

StillSure(p) == op[p].sure /\ op[p].proj \in kept

\* (Mutant: a miss of the index is believed.)
BelievesIndex(p) == IF op[p].proj \in index THEN "read" ELSE "idle"

AfterLookup(p) == IF op[p].proj \in index THEN "read" ELSE "scan"

LooksUp(p) ==
  /\ op[p].at = "lookup"
  /\ op' = [op EXCEPT ![p].at = AfterLookup(p), ![p].sure = StillSure(p)]
  /\ UNCHANGED <<lockVars, fileVars, ghostVars>>

ReadsRecord(p) ==
  /\ op[p].at = "read"
  /\ IF op[p].proj \in Records(p)
       THEN Ends(p)
       ELSE op' = [op EXCEPT ![p].at = "scan", ![p].sure = StillSure(p)]
  /\ UNCHANGED <<lockVars, fileVars, ghostVars>>

Scans(p) ==
  /\ op[p].at = "scan"
  /\ IF op[p].proj \in Records(p)
       THEN Moves(p, "index")
       ELSE op' = [op EXCEPT ![p].at = "idle", ![p].sure = StillSure(p)]
  /\ UNCHANGED <<lockVars, fileVars, ghostVars>>

\* null is returned.
ReturnsNothing(p) ==
  /\ op[p].kind = "get"
  /\ op[p].at = "idle"
  /\ Ends(p)
  /\ UNCHANGED <<lockVars, fileVars, ghostVars>>

-----------------------------------------------------------------------------

Crash(p) ==
  /\ crashes < MaxCrashes
  /\ crashes' = crashes + 1
  /\ Dies(p)
  /\ Ends(p)
  /\ UNCHANGED <<fileVars, minted, kept, created>>

TimePasses(l) == Ages(l) /\ UNCHANGED <<fileVars, op, ghostVars>>

Init ==
  /\ LockInit
  /\ files = [o \in Owner |-> {}]
  /\ index = {}
  /\ op = [p \in Proc |-> Idle]
  /\ crashes = 0
  /\ minted = {} /\ kept = {} /\ created = {}

ProcStep(p) ==
  \/ CheckQuota(p) \/ Acquired(p) \/ AcquireThrows(p)
  \/ AsksForLock(p) \/ AttemptsLock(p) \/ LockRefused(p)
  \/ Loads(p) \/ Saves(p) \/ LeavesLock(p)
  \/ LooksUp(p) \/ ReadsRecord(p) \/ Scans(p) \/ ReturnsNothing(p)

Next ==
  \/ \E p \in Proc, proj \in Project :
       BeginCreate(p, proj) \/ BeginDelete(p, proj) \/ BeginGet(p, proj)
  \/ \E p \in Proc : ProcStep(p) \/ Crash(p)
  \/ \E l \in Lock : TimePasses(l)

Spec == Init /\ [][Next]_vars

-----------------------------------------------------------------------------

TypeOK ==
  /\ LockTypeOK
  /\ files \in [Owner -> SUBSET Project]
  /\ index \subseteq Project
  /\ op \in [Proc -> Call]
  /\ crashes \in 0..MaxCrashes
  /\ minted \subseteq Project
  /\ kept \subseteq minted /\ created \subseteq kept

(***************************************************************************)
(* No entry is lost and none comes back (review finding 2): the files hold *)
(* the records that were written and not taken out, whichever processes    *)
(* read and wrote them at the same time or died in between.                *)
(***************************************************************************)
NoEntryIsLost == ~clash => kept = UNION {files[o] : o \in Owner}

(***************************************************************************)
(* The index knows every created project that was not deleted, so a lookup *)
(* reads two files: only a project whose creation was cut short may need   *)
(* the scan.                                                               *)
(***************************************************************************)
IndexKnowsCreated ==
  ~clash => created \subseteq index

(***************************************************************************)
(* A get finds what was registered all the time it ran, even if a crash    *)
(* kept the index from knowing it (H3).                                    *)
(***************************************************************************)
GetFindsRegistered ==
  \A p \in Proc :
    op[p].kind = "get" /\ op[p].at = "idle" /\ ~clash => ~op[p].sure

(***************************************************************************)
(* The quota of an account is checked outside the lock: it is exceeded by  *)
(* at most the other creations that are under way at the same time, never  *)
(* by one process alone.                                                   *)
(***************************************************************************)
QuotaNearlyHolds ==
  ~clash => \A o \in Owner :
    Cardinality(files[o]) <= MaxProjects + Cardinality(Proc) - 1

-----------------------------------------------------------------------------

(***************************************************************************)
(* project-manager.js:295: "a failed create leaves NO partial Project".    *)
(***************************************************************************)
FailedCreateLeavesNothing ==
  [][\A p \in Proc :
       op[p].kind = "create" /\ op'[p] = Idle /\ crashes' = crashes
         => op[p].proj \in created' \/ op[p].proj \notin kept']_vars
=============================================================================
