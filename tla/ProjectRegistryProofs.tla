------------------------ MODULE ProjectRegistryProofs ------------------------
(***************************************************************************)
(* Proofs about ProjectRegistry, for any number of processes, owners,      *)
(* projects and identities: the lock is exclusive as long as no steal hits *)
(* a lock that was made after the stealer's second look.                   *)
(***************************************************************************)
EXTENDS ProjectRegistry, FiniteSetTheorems, TLAPS

USE LockAssumption

(***************************************************************************)
(* What a stealer saw was stale; what a process inside holds is what it    *)
(* made, still there and not stale.                                        *)
(***************************************************************************)
SawStale == \A p \in Proc : lk[p].pc \in {"restat", "rm"} => lk[p].seen \in old

HoldsOwn ==
  ~clash => \A p \in Proc :
    lk[p].pc = "in" => Dir(p) = lk[p].seen /\ lk[p].seen \in Id \ old

LockInv == LockTypeOK /\ SawStale /\ HoldsOwn /\ Exclusive

(***************************************************************************)
(* A process's new call, when a step changes one.                          *)
(***************************************************************************)
LEMMA CallTyped ==
  ASSUME NEW p \in Proc, NEW c \in LockCall, lk \in [Proc -> LockCall]
  PROVE  /\ [lk EXCEPT ![p] = c] \in [Proc -> LockCall]
         /\ \A q \in Proc : [lk EXCEPT ![p] = c][q] = IF q = p THEN c ELSE lk[q]
OBVIOUS

LEMMA NoCallTyped == NoCall \in LockCall
BY DEF NoCall, LockCall, LockPc

LEMMA NewCallTyped ==
  ASSUME NEW pc \in LockPc, NEW l \in Lock, NEW i \in Id \cup {NoId}
  PROVE  [pc |-> pc, lock |-> l, seen |-> i] \in LockCall
BY DEF LockCall

(***************************************************************************)
(* The shape of a step of one process: its call becomes c, the directories *)
(* become d, and what is old stays old but for a new directory's identity. *)
(***************************************************************************)
LEMMA RetryShape ==
  ASSUME NEW p \in Proc, LockTypeOK, lk[p].pc # "out", Retries(p)
  PROVE  \E c \in LockCall :
           /\ lk' = [lk EXCEPT ![p] = c]
           /\ c.pc \in {"mkdir", "failed"}
           /\ c.lock = lk[p].lock /\ c.lock \in Lock
<1>1. PICK pc \in {"mkdir", "failed"} :
        lk' = [lk EXCEPT ![p] = [pc |-> pc, lock |-> lk[p].lock, seen |-> NoId]]
  BY DEF Retries
<1>2. lk[p].lock \in Lock
  BY DEF LockTypeOK
<1>3. [pc |-> pc, lock |-> lk[p].lock, seen |-> NoId] \in LockCall
  BY <1>2, NewCallTyped DEF LockPc
<1> QED
  BY <1>1, <1>2, <1>3

(***************************************************************************)
(* A step that changes no directory and nothing that is old, and takes     *)
(* nobody inside, preserves the invariant: only what the process says it   *)
(* saw must be stale.                                                      *)
(***************************************************************************)
LEMMA QuietStep ==
  ASSUME LockInv, NEW p \in Proc, NEW c \in LockCall,
         lk' = [lk EXCEPT ![p] = c],
         c.pc # "in", c.pc # "out" => c.lock \in Lock,
         c.pc \in {"restat", "rm"} => c.seen \in old,
         UNCHANGED <<dir, old, clash>>
  PROVE  LockInv'
<1>1. /\ lk' \in [Proc -> LockCall]
      /\ \A q \in Proc : lk'[q] = IF q = p THEN c ELSE lk[q]
  BY CallTyped DEF LockInv, LockTypeOK
<1>2. LockTypeOK'
  BY <1>1 DEF LockInv, LockTypeOK
<1>3. SawStale'
  BY <1>1 DEF LockInv, SawStale
<1>4. HoldsOwn'
  BY <1>1 DEF LockInv, HoldsOwn, Dir
<1>5. Exclusive'
  BY <1>1 DEF LockInv, Exclusive, Inside
<1> QED
  BY <1>2, <1>3, <1>4, <1>5 DEF LockInv

LEMMA MakesInv ==
  ASSUME LockInv, NEW p \in Proc, Makes(p)
  PROVE  LockInv'
<1> DEFINE l == lk[p].lock
<1>1. l \in Lock /\ dir[l] = NoId /\ UNCHANGED clash
  BY DEF Makes, Dir, LockInv, LockTypeOK
<1>2. PICK i \in Unused :
        /\ dir' = [dir EXCEPT ![l] = i]
        /\ old' = old \ {i}
        /\ lk' = [lk EXCEPT ![p] = [pc |-> "in", lock |-> l, seen |-> i]]
  BY DEF Makes
<1>3. i \in Id /\ (\A q \in Proc : lk[q].seen # i)
  BY DEF Unused, Seen
<1> DEFINE c == [pc |-> "in", lock |-> l, seen |-> i]
<1>4. c \in LockCall
  BY <1>1, <1>3, NewCallTyped DEF LockPc
<1>5. /\ lk' \in [Proc -> LockCall]
      /\ \A q \in Proc : lk'[q] = IF q = p THEN c ELSE lk[q]
  BY <1>2, <1>4, CallTyped DEF LockInv, LockTypeOK
<1>6. /\ dir' \in [Lock -> Id \cup {NoId}]
      /\ \A k \in Lock : dir'[k] = IF k = l THEN i ELSE dir[k]
  BY <1>1, <1>2, <1>3 DEF LockInv, LockTypeOK
<1>7. LockTypeOK'
  BY <1>1, <1>2, <1>5, <1>6 DEF LockInv, LockTypeOK
<1>8. SawStale'
  BY <1>2, <1>3, <1>5 DEF LockInv, SawStale
<1>9. ~clash => \A q \in Proc : ~Inside(q, l)
  BY <1>1 DEF LockInv, HoldsOwn, Inside, Dir
<1>10. HoldsOwn'
  <2> SUFFICES ASSUME ~clash', NEW q \in Proc, lk'[q].pc = "in"
               PROVE  Dir(q)' = lk'[q].seen /\ lk'[q].seen \in (Id \ old)'
    BY DEF HoldsOwn
  <2>1. CASE q = p
    BY <2>1, <1>1, <1>2, <1>3, <1>5, <1>6 DEF Dir
  <2>2. CASE q # p
    <3>1. lk'[q] = lk[q] /\ lk[q].pc = "in" /\ lk[q].lock \in Lock
      BY <2>2, <1>5 DEF LockInv, LockTypeOK
    <3>2. lk[q].lock # l
      BY <3>1, <1>1, <1>9 DEF Inside
    <3> QED
      BY <3>1, <3>2, <1>1, <1>2, <1>6 DEF LockInv, HoldsOwn, Dir
  <2> QED
    BY <2>1, <2>2
<1>11. Exclusive'
  BY <1>1, <1>5, <1>9 DEF LockInv, Exclusive, Inside
<1> QED
  BY <1>7, <1>8, <1>10, <1>11 DEF LockInv

(***************************************************************************)
(* A directory is removed: nobody else may be inside.                      *)
(***************************************************************************)
LEMMA RemovalInv ==
  ASSUME LockInv, NEW p \in Proc, NEW c \in LockCall, NEW l \in Lock,
         lk' = [lk EXCEPT ![p] = c], dir' = [dir EXCEPT ![l] = NoId],
         c.pc \in {"out", "mkdir", "failed"}, c.pc # "out" => c.lock \in Lock,
         old' = old, clash' \in BOOLEAN, clash => clash',
         ~clash' => \A q \in Proc \ {p} : ~Inside(q, l)
  PROVE  LockInv'
<1>1. /\ lk' \in [Proc -> LockCall]
      /\ \A q \in Proc : lk'[q] = IF q = p THEN c ELSE lk[q]
  BY CallTyped DEF LockInv, LockTypeOK
<1>2. /\ dir' \in [Lock -> Id \cup {NoId}]
      /\ \A k \in Lock : dir'[k] = IF k = l THEN NoId ELSE dir[k]
  BY DEF LockInv, LockTypeOK
<1>3. LockTypeOK'
  BY <1>1, <1>2 DEF LockInv, LockTypeOK
<1>4. SawStale'
  BY <1>1 DEF LockInv, SawStale
<1>5. HoldsOwn'
  <2> SUFFICES ASSUME ~clash', NEW q \in Proc, lk'[q].pc = "in"
               PROVE  Dir(q)' = lk'[q].seen /\ lk'[q].seen \in (Id \ old)'
    BY DEF HoldsOwn
  <2>1. q # p /\ lk'[q] = lk[q] /\ lk[q].pc = "in" /\ lk[q].lock \in Lock
    BY <1>1 DEF LockInv, LockTypeOK
  <2>2. lk[q].lock # l
    BY <2>1 DEF Inside
  <2> QED
    BY <2>1, <2>2, <1>2 DEF LockInv, HoldsOwn, Dir
<1>6. Exclusive'
  BY <1>1 DEF LockInv, Exclusive, Inside
<1> QED
  BY <1>3, <1>4, <1>5, <1>6 DEF LockInv

LEMMA StealsInv ==
  ASSUME LockInv, NEW p \in Proc, Steals(p)
  PROVE  LockInv'
<1> DEFINE l == lk[p].lock
<1>1. /\ lk[p].pc = "rm" /\ old' = old
      /\ dir' = [dir EXCEPT ![l] = NoId]
      /\ clash' = (clash \/ Dir(p) \notin {NoId, lk[p].seen})
      /\ Retries(p)
  BY DEF Steals
<1>2. l \in Lock /\ lk[p].seen \in old
  BY <1>1 DEF LockInv, LockTypeOK, SawStale
<1>3. PICK c \in LockCall : /\ lk' = [lk EXCEPT ![p] = c]
                            /\ c.pc \in {"mkdir", "failed"}
                            /\ c.lock \in Lock
  BY <1>1, RetryShape DEF LockInv
<1>4. clash' \in BOOLEAN /\ (clash => clash')
  BY <1>1 DEF LockInv, LockTypeOK
<1>5. ASSUME ~clash', NEW q \in Proc \ {p}
      PROVE  ~Inside(q, l)
  <2> SUFFICES ASSUME Inside(q, l) PROVE FALSE
    OBVIOUS
  <2>1. lk[q].pc = "in" /\ lk[q].lock = l
    BY DEF Inside
  <2>2. Dir(q) = lk[q].seen /\ lk[q].seen \in Id \ old
    BY <1>4, <1>5, <2>1 DEF LockInv, HoldsOwn
  <2>3. Dir(p) \in {NoId, lk[p].seen}
    BY <1>1, <1>5
  <2>4. Dir(q) = Dir(p)
    BY <2>1 DEF Dir
  <2> QED
    BY <1>2, <2>2, <2>3, <2>4
<1> QED
  BY <1>1, <1>2, <1>3, <1>4, <1>5, RemovalInv

LEMMA LeavesInv ==
  ASSUME LockInv, NEW p \in Proc, Leaves(p)
  PROVE  LockInv'
<1> DEFINE l == lk[p].lock
<1>1. /\ lk[p].pc = "in" /\ old' = old /\ clash' = clash
      /\ dir' = [dir EXCEPT ![l] = NoId]
      /\ lk' = [lk EXCEPT ![p] = NoCall]
  BY DEF Leaves
<1>2. l \in Lock /\ clash \in BOOLEAN
  BY <1>1 DEF LockInv, LockTypeOK
<1>3. ~clash' => \A q \in Proc \ {p} : ~Inside(q, l)
  BY <1>1, <1>2 DEF LockInv, Exclusive, Inside
<1>4. NoCall.pc = "out"
  BY DEF NoCall
<1> QED
  BY <1>1, <1>2, <1>3, <1>4, NoCallTyped, RemovalInv

LEMMA AgesInv ==
  ASSUME LockInv, NEW l \in Lock, Ages(l)
  PROVE  LockInv'
<1>1. /\ dir[l] \in Id /\ old' = old \cup {dir[l]}
      /\ \A p \in Proc : lk[p].pc = "in" => lk[p].seen # dir[l]
      /\ dir' = dir /\ lk' = lk /\ clash' = clash
  BY DEF Ages
<1>2. LockTypeOK'
  BY <1>1 DEF LockInv, LockTypeOK
<1>3. SawStale'
  BY <1>1 DEF LockInv, SawStale
<1>4. HoldsOwn'
  BY <1>1 DEF LockInv, HoldsOwn, Dir
<1>5. Exclusive'
  BY <1>1 DEF LockInv, Exclusive, Inside
<1> QED
  BY <1>2, <1>3, <1>4, <1>5 DEF LockInv

(***************************************************************************)
(* The steps that only change what a process knows.                        *)
(***************************************************************************)
LEMMA WantsInv ==
  ASSUME LockInv, NEW p \in Proc, NEW l \in Lock, Wants(p, l)
  PROVE  LockInv'
<1> DEFINE c == [pc |-> "mkdir", lock |-> l, seen |-> NoId]
<1>1. c \in LockCall
  BY NewCallTyped DEF LockPc
<1>2. lk' = [lk EXCEPT ![p] = c] /\ UNCHANGED <<dir, old, clash>>
  BY DEF Wants
<1> QED
  BY <1>1, <1>2, QuietStep

LEMMA LooksInv ==
  ASSUME LockInv, NEW p \in Proc, FindsBusy(p) \/ LooksAgain(p)
  PROVE  LockInv'
<1>1. lk[p].pc \in {"mkdir", "restat"} /\ UNCHANGED <<dir, old, clash>>
  BY DEF FindsBusy, LooksAgain
<1>2. lk[p].lock \in Lock /\ old \subseteq Id
  BY <1>1 DEF LockInv, LockTypeOK
<1>3. CASE Retries(p)
  <2>1. PICK c \in LockCall : /\ lk' = [lk EXCEPT ![p] = c]
                              /\ c.pc \in {"mkdir", "failed"}
                              /\ c.lock \in Lock
    BY <1>1, <1>3, RetryShape DEF LockInv
  <2> QED
    BY <1>1, <2>1, QuietStep
<1>4. CASE ~Retries(p)
  <2>1. PICK pc \in {"restat", "rm"} :
          /\ Dir(p) \in old
          /\ lk' = [lk EXCEPT ![p] = [pc |-> pc, lock |-> lk[p].lock, seen |-> Dir(p)]]
    BY <1>4 DEF FindsBusy, LooksAgain, SameDirectory, LockInv, SawStale
  <2>2. [pc |-> pc, lock |-> lk[p].lock, seen |-> Dir(p)] \in LockCall
    BY <1>2, <2>1, NewCallTyped DEF LockPc
  <2> QED
    BY <1>1, <1>2, <2>1, <2>2, QuietStep
<1> QED
  BY <1>3, <1>4

LEMMA EndsInv ==
  ASSUME LockInv, NEW p \in Proc, GivesUp(p) \/ Dies(p)
  PROVE  LockInv'
<1>1. lk' = [lk EXCEPT ![p] = NoCall] /\ UNCHANGED <<dir, old, clash>>
  BY DEF GivesUp, Dies
<1>2. NoCall.pc = "out"
  BY DEF NoCall
<1> QED
  BY <1>1, <1>2, NoCallTyped, QuietStep

-----------------------------------------------------------------------------

LEMMA LockInitInv == LockInit => LockInv
<1> SUFFICES ASSUME LockInit PROVE LockInv
  OBVIOUS
<1>1. /\ dir = [l \in Lock |-> NoId] /\ old = {} /\ clash = FALSE
      /\ lk \in [Proc -> LockCall] /\ \A p \in Proc : lk[p] = NoCall
  BY NoCallTyped DEF LockInit
<1>2. \A p \in Proc : lk[p].pc = "out"
  BY <1>1 DEF NoCall
<1>3. LockTypeOK
  BY <1>1, <1>2 DEF LockTypeOK
<1>4. SawStale /\ HoldsOwn /\ Exclusive
  BY <1>2 DEF SawStale, HoldsOwn, Exclusive, Inside
<1> QED
  BY <1>3, <1>4 DEF LockInv

LEMMA LockNextInv ==
  ASSUME LockInv, [LockNext]_lockVars
  PROVE  LockInv'
<1>1. CASE UNCHANGED lockVars
  BY <1>1 DEF lockVars, LockInv, LockTypeOK, SawStale, HoldsOwn, Exclusive, Inside, Dir
<1>2. CASE \E p \in Proc, l \in Lock : Wants(p, l)
  BY <1>2, WantsInv
<1>3. CASE \E p \in Proc : Attempts(p) \/ Leaves(p) \/ GivesUp(p) \/ Dies(p)
  <2>1. PICK p \in Proc : Attempts(p) \/ Leaves(p) \/ GivesUp(p) \/ Dies(p)
    BY <1>3
  <2> QED
    BY <2>1, MakesInv, LooksInv, StealsInv, LeavesInv, EndsInv DEF Attempts
<1>4. CASE \E l \in Lock : Ages(l)
  BY <1>4, AgesInv
<1> QED
  BY <1>1, <1>2, <1>3, <1>4 DEF LockNext

(***************************************************************************)
(* withLock excludes: for any number of processes and locks, in every      *)
(* behaviour in which no rmSync of a stealer hits another lock than the    *)
(* stale one, at most one process is inside a lock.                        *)
(***************************************************************************)
THEOREM LockExcludes == LockSpec => [](LockTypeOK /\ Exclusive)
<1>1. LockInv => LockTypeOK /\ Exclusive
  BY DEF LockInv
<1> QED
  BY <1>1, LockInitInv, LockNextInv, PTL DEF LockSpec

-----------------------------------------------------------------------------
(***************************************************************************)
(* The inductive invariant of the registry.  A creation has not saved its  *)
(* record, has put the project in the index; a removal has taken out the   *)
(* record.                                                                 *)
(***************************************************************************)
Unsaved(p) ==
  /\ op[p].kind = "create"
  /\ op[p].at = "count" \/ (op[p].at = "record" /\ op[p].step # "leave")

Indexed(p) ==
  /\ op[p].kind = "create"
  /\ op[p].at = "acquire" \/ (op[p].at = "index" /\ op[p].step = "leave")

Removed(p) == op[p].at = "unindex" \/ (op[p].at = "unrecord" /\ op[p].step = "leave")

\* The call of a process is about a project, at a stage of its kind.
Engaged(p) ==
  /\ op[p].kind = "none" => op[p] = Idle
  /\ op[p].kind # "none" => op[p].proj \in minted
  /\ op[p].at \in {"count", "record", "acquire"} => op[p].kind = "create"
  /\ op[p].at \in {"unrecord", "unindex"} => op[p].kind \in {"create", "delete"}
  /\ op[p].at = "index" => op[p].kind \in {"create", "get"}
  /\ op[p].at \in {"lookup", "read", "scan"} => op[p].kind = "get"

\* Whoever reads or writes a file is inside the lock of that file.
Linked(p) ==
  /\ lk[p].pc # "out" <=> op[p].step # "ask"
  /\ op[p].step # "ask" => op[p].at \in Locked /\ lk[p].lock = LockOf(p)
  /\ op[p].step \in {"save", "leave"} => lk[p].pc = "in"

\* What is about to be written back is what the file holds.
ReadIsFresh(p) == op[p].step = "save" => op[p].read = OnFile(p)

\* How far the call is says whether its project is registered.
Placed(p) ==
  /\ Unsaved(p) \/ Removed(p) => op[p].proj \notin kept
  /\ Indexed(p) => op[p].proj \in index \/ op[p].proj \notin kept
  /\ op[p].kind = "get" /\ op[p].at = "idle" => ~op[p].sure

\* A project is created once, and not deleted before it is saved.
Apart(p, q) ==
  Unsaved(p) /\ op[q].kind \in {"create", "delete"} /\ op[q].proj = op[p].proj => p = q

ProcInv(p) == Engaged(p) /\ Linked(p) /\ (~clash => ReadIsFresh(p) /\ Placed(p))

Owned == ~clash => \A o \in Owner : \A x \in files[o] : OwnerOf[x] = o

FilesInv == Owned /\ NoEntryIsLost /\ IndexKnowsCreated

Typed ==
  /\ files \in [Owner -> SUBSET Project]
  /\ index \subseteq Project
  /\ op \in [Proc -> Call]
  /\ crashes \in 0..MaxCrashes
  /\ minted \subseteq Project
  /\ kept \subseteq minted /\ created \subseteq kept

IInv ==
  /\ LockInv /\ Typed /\ FilesInv
  /\ \A p \in Proc : ProcInv(p)
  /\ ~clash => \A p, q \in Proc : Apart(p, q)

-----------------------------------------------------------------------------
(***************************************************************************)
(* How a step changes the call of its process.                             *)
(***************************************************************************)
LEMMA OpTyped ==
  ASSUME Typed, NEW p \in Proc, NEW c \in Call, op' = [op EXCEPT ![p] = c]
  PROVE  op' \in [Proc -> Call] /\ op'[p] = c /\ \A q \in Proc \ {p} : op'[q] = op[q]
BY DEF Typed

LEMMA IdleTyped == Idle \in Call
BY DEF Idle, Call, Stage, Step

LEMMA EndsShape ==
  ASSUME Typed, NEW p \in Proc, Ends(p)
  PROVE  op' \in [Proc -> Call] /\ op'[p] = Idle /\ \A q \in Proc \ {p} : op'[q] = op[q]
BY OpTyped, IdleTyped DEF Ends

LEMMA CallParts ==
  ASSUME NEW c \in Call
  PROVE  /\ c.kind \in {"none", "create", "delete", "get"}
         /\ c.proj \in Project \cup {NoProject}
         /\ c.at \in Stage /\ c.step \in Step
         /\ c.read \in SUBSET Project /\ c.sure \in BOOLEAN
BY DEF Call

LEMMA MovedCall ==
  ASSUME NEW f \in [Proc -> Call], NEW p \in Proc, NEW a \in Stage
  PROVE  [f EXCEPT ![p].at = a, ![p].step = "ask", ![p].read = {}] \in [Proc -> Call]
<1>1. ASSUME NEW c \in Call
      PROVE  [c EXCEPT !.at = a, !.step = "ask", !.read = {}] \in Call
  BY DEF Call, Step
<1>2. [f EXCEPT ![p].at = a, ![p].step = "ask", ![p].read = {}]
        = [f EXCEPT ![p] = [f[p] EXCEPT !.at = a, !.step = "ask", !.read = {}]]
  OBVIOUS
<1> QED
  BY <1>1, <1>2

LEMMA SteppedCall ==
  ASSUME NEW f \in [Proc -> Call], NEW p \in Proc, NEW s \in Step
  PROVE  [f EXCEPT ![p].step = s] \in [Proc -> Call]
<1>1. ASSUME NEW c \in Call
      PROVE  [c EXCEPT !.step = s] \in Call
  BY DEF Call
<1>2. [f EXCEPT ![p].step = s] = [f EXCEPT ![p] = [f[p] EXCEPT !.step = s]]
  OBVIOUS
<1> QED
  BY <1>1, <1>2

LEMMA LookedCall ==
  ASSUME NEW f \in [Proc -> Call], NEW p \in Proc, NEW a \in Stage, NEW b \in BOOLEAN
  PROVE  [f EXCEPT ![p].at = a, ![p].sure = b] \in [Proc -> Call]
<1>1. ASSUME NEW c \in Call
      PROVE  [c EXCEPT !.at = a, !.sure = b] \in Call
  BY DEF Call
<1>2. [f EXCEPT ![p].at = a, ![p].sure = b]
        = [f EXCEPT ![p] = [f[p] EXCEPT !.at = a, !.sure = b]]
  OBVIOUS
<1> QED
  BY <1>1, <1>2

LEMMA LoadedCall ==
  ASSUME NEW f \in [Proc -> Call], NEW p \in Proc, NEW r \in SUBSET Project
  PROVE  [f EXCEPT ![p].step = "save", ![p].read = r] \in [Proc -> Call]
<1>1. ASSUME NEW c \in Call
      PROVE  [c EXCEPT !.step = "save", !.read = r] \in Call
  BY DEF Call, Step
<1>2. [f EXCEPT ![p].step = "save", ![p].read = r]
        = [f EXCEPT ![p] = [f[p] EXCEPT !.step = "save", !.read = r]]
  OBVIOUS
<1> QED
  BY <1>1, <1>2

LEMMA MovesShape ==
  ASSUME Typed, NEW p \in Proc, NEW a \in Stage, Moves(p, a)
  PROVE  /\ op' \in [Proc -> Call]
         /\ op'[p].kind = op[p].kind /\ op'[p].proj = op[p].proj
         /\ op'[p].at = a /\ op'[p].step = "ask"
         /\ \A q \in Proc \ {p} : op'[q] = op[q]
<1>1. op[p] \in Call /\ op' \in [Proc -> Call]
  BY MovedCall DEF Typed, Moves
<1>2. op'[p] = [op[p] EXCEPT !.at = a, !.step = "ask", !.read = {}]
  BY DEF Typed, Moves
<1>3. \A q \in Proc \ {p} : op'[q] = op[q]
  BY DEF Typed, Moves
<1> QED
  BY <1>1, <1>2, <1>3 DEF Call

LEMMA StepsShape ==
  ASSUME Typed, NEW p \in Proc, NEW s \in Step, Steps(p, s)
  PROVE  /\ op' \in [Proc -> Call]
         /\ op'[p].kind = op[p].kind /\ op'[p].proj = op[p].proj
         /\ op'[p].at = op[p].at /\ op'[p].step = s
         /\ \A q \in Proc \ {p} : op'[q] = op[q]
<1>1. op[p] \in Call /\ op' \in [Proc -> Call]
  BY SteppedCall DEF Typed, Steps
<1>2. op'[p] = [op[p] EXCEPT !.step = s]
  BY DEF Typed, Steps
<1>3. \A q \in Proc \ {p} : op'[q] = op[q]
  BY DEF Typed, Steps
<1> QED
  BY <1>1, <1>2, <1>3 DEF Call

\* A step of a lookup: to a stage, perhaps no longer sure.
LEMMA LookShape ==
  ASSUME Typed, NEW p \in Proc, NEW a \in Stage,
         op' = [op EXCEPT ![p].at = a, ![p].sure = StillSure(p)]
  PROVE  /\ op' \in [Proc -> Call]
         /\ op'[p].kind = op[p].kind /\ op'[p].proj = op[p].proj
         /\ op'[p].at = a /\ op'[p].step = op[p].step
         /\ op'[p].sure = StillSure(p)
         /\ \A q \in Proc \ {p} : op'[q] = op[q]
<1>1. op[p] \in Call /\ StillSure(p) \in BOOLEAN
  BY CallParts DEF Typed, StillSure
<1>2. op' \in [Proc -> Call]
  BY <1>1, LookedCall DEF Typed
<1> QED
  BY <1>1, <1>2 DEF Typed, Call

\* The read of a file.
LEMMA LoadShape ==
  ASSUME Typed, NEW p \in Proc, NEW r \in SUBSET Project,
         op' = [op EXCEPT ![p].step = "save", ![p].read = r]
  PROVE  /\ op' \in [Proc -> Call]
         /\ op'[p].kind = op[p].kind /\ op'[p].proj = op[p].proj
         /\ op'[p].at = op[p].at /\ op'[p].step = "save"
         /\ op'[p].read = r
         /\ \A q \in Proc \ {p} : op'[q] = op[q]
<1>1. op[p] \in Call /\ op' \in [Proc -> Call]
  BY LoadedCall DEF Typed
<1>2. op'[p] = [op[p] EXCEPT !.step = "save", !.read = r]
  BY DEF Typed
<1>3. \A q \in Proc \ {p} : op'[q] = op[q]
  BY DEF Typed
<1> QED
  BY <1>1, <1>2, <1>3 DEF Call

-----------------------------------------------------------------------------
(***************************************************************************)
(* How a step of the lock changes what the lock knows of its process.      *)
(***************************************************************************)
LEMMA CallChanges ==
  ASSUME LockTypeOK, NEW p \in Proc, NEW c, lk' = [lk EXCEPT ![p] = c]
  PROVE  lk'[p] = c /\ \A q \in Proc \ {p} : lk'[q] = lk[q]
BY DEF LockTypeOK

LEMMA AttemptsShape ==
  ASSUME LockInv, NEW p \in Proc, Attempts(p)
  PROVE  /\ lk[p].pc \notin {"out", "in"}
         /\ lk'[p].pc # "out" /\ lk'[p].lock = lk[p].lock
         /\ \A q \in Proc \ {p} : lk'[q] = lk[q]
         /\ clash => clash'
<1>1. lk[p].pc \notin {"out", "in"} /\ (clash => clash')
  <2>1. CASE Makes(p) \/ FindsBusy(p) \/ LooksAgain(p)
    BY <2>1 DEF Makes, FindsBusy, LooksAgain
  <2>2. CASE Steals(p)
    <3>1. clash' = (clash \/ Dir(p) \notin {NoId, lk[p].seen}) /\ lk[p].pc = "rm"
      BY <2>2 DEF Steals
    <3> QED
      BY <3>1
  <2> QED
    BY <2>1, <2>2 DEF Attempts
<1>2. \E c : /\ lk' = [lk EXCEPT ![p] = c]
             /\ c.pc # "out" /\ c.lock = lk[p].lock
  <2>1. CASE Retries(p)
    BY <1>1, <2>1, RetryShape DEF LockInv
  <2>2. CASE ~Retries(p) /\ ~Makes(p)
    <3>1. PICK pc \in {"restat", "rm"} :
            lk' = [lk EXCEPT ![p] = [pc |-> pc, lock |-> lk[p].lock, seen |-> Dir(p)]]
      BY <2>2 DEF Attempts, FindsBusy, LooksAgain, Steals
    <3> DEFINE c == [pc |-> pc, lock |-> lk[p].lock, seen |-> Dir(p)]
    <3>2. lk' = [lk EXCEPT ![p] = c] /\ c.pc # "out" /\ c.lock = lk[p].lock
      BY <3>1
    <3> QED
      BY <3>2
  <2>3. CASE Makes(p)
    <3>1. PICK i \in Unused :
            lk' = [lk EXCEPT ![p] = [pc |-> "in", lock |-> lk[p].lock, seen |-> i]]
      BY <2>3 DEF Makes
    <3> DEFINE c == [pc |-> "in", lock |-> lk[p].lock, seen |-> i]
    <3>2. lk' = [lk EXCEPT ![p] = c] /\ c.pc # "out" /\ c.lock = lk[p].lock
      BY <3>1
    <3> QED
      BY <3>2
  <2> QED
    BY <2>1, <2>2, <2>3
<1> QED
  BY <1>1, <1>2, CallChanges DEF LockInv

LEMMA OutShape ==
  ASSUME LockInv, NEW p \in Proc, Leaves(p) \/ GivesUp(p) \/ Dies(p)
  PROVE  /\ lk'[p].pc = "out" /\ clash' = clash
         /\ \A q \in Proc \ {p} : lk'[q] = lk[q]
<1>1. lk' = [lk EXCEPT ![p] = NoCall] /\ clash' = clash
  BY DEF Leaves, GivesUp, Dies
<1>2. lk'[p] = NoCall /\ \A q \in Proc \ {p} : lk'[q] = lk[q]
  BY <1>1, CallChanges DEF LockInv
<1> QED
  BY <1>1, <1>2 DEF NoCall

-----------------------------------------------------------------------------
(***************************************************************************)
(* A step of p that leaves the files and what is kept alone.               *)
(***************************************************************************)
LEMMA OtherStays ==
  ASSUME NEW q \in Proc, ProcInv(q), op'[q] = op[q], lk'[q] = lk[q], clash => clash',
         UNCHANGED <<files, index, kept>>, minted \subseteq minted'
  PROVE  ProcInv(q)'
<1>1. Engaged(q)'
  BY DEF ProcInv, Engaged
<1>2. Linked(q)'
  BY DEF ProcInv, Linked, LockOf
<1>3. ~clash' => ReadIsFresh(q)'
  BY DEF ProcInv, ReadIsFresh, OnFile, Records
<1>4. ~clash' => Placed(q)'
  BY DEF ProcInv, Placed, Unsaved, Removed, Indexed
<1> QED
  BY <1>1, <1>2, <1>3, <1>4 DEF ProcInv

LEMMA QuietOp ==
  ASSUME IInv, NEW p \in Proc,
         LockInv', clash => clash', \A q \in Proc \ {p} : lk'[q] = lk[q],
         op' \in [Proc -> Call], \A q \in Proc \ {p} : op'[q] = op[q],
         UNCHANGED <<files, index, kept, minted>>, crashes' \in 0..MaxCrashes,
         created' \subseteq kept, ~clash => created' \subseteq index,
         ProcInv(p)',
         op'[p].kind \in {"create", "delete"}
           => op'[p].kind = op[p].kind /\ op'[p].proj = op[p].proj,
         Unsaved(p)' => Unsaved(p)
  PROVE  IInv'
<1>1. Typed'
  BY DEF IInv, Typed
<1>2. FilesInv'
  BY DEF IInv, FilesInv, Owned, NoEntryIsLost, IndexKnowsCreated
<1>3. \A q \in Proc : ProcInv(q)'
  <2> TAKE q \in Proc
  <2>1. CASE q = p
    BY <2>1
  <2>2. CASE q # p
    BY <2>2, OtherStays DEF IInv
  <2> QED
    BY <2>1, <2>2
<1>4. ~clash' => \A q, r \in Proc : Apart(q, r)'
  <2> SUFFICES ASSUME ~clash', NEW q \in Proc, NEW r \in Proc
               PROVE  Apart(q, r)'
    OBVIOUS
  <2>1. Apart(q, r)
    BY DEF IInv
  <2>2. Unsaved(q)' => Unsaved(q) /\ op'[q].proj = op[q].proj
    <3>1. CASE q = p
      BY <3>1 DEF Unsaved
    <3>2. CASE q # p
      BY <3>2 DEF Unsaved
    <3> QED
      BY <3>1, <3>2
  <2>3. op'[r].kind \in {"create", "delete"}
          => op[r].kind = op'[r].kind /\ op'[r].proj = op[r].proj
    BY DEF IInv
  <2> QED
    BY <2>1, <2>2, <2>3 DEF Apart
<1> QED
  BY <1>1, <1>2, <1>3, <1>4 DEF IInv

\* The step of p is one of the registry only, and p is outside the locks.
LEMMA QuietUnlocked ==
  ASSUME IInv, NEW p \in Proc, UNCHANGED lockVars,
         op' \in [Proc -> Call], \A q \in Proc \ {p} : op'[q] = op[q],
         op[p].step = "ask", op'[p].step = "ask",
         UNCHANGED <<files, index, kept, minted, crashes>>,
         created' \subseteq kept, ~clash => created' \subseteq index,
         Engaged(p)', ~clash => Placed(p)',
         op'[p].kind \in {"create", "delete"}
           => op'[p].kind = op[p].kind /\ op'[p].proj = op[p].proj,
         Unsaved(p)' => Unsaved(p)
  PROVE  IInv'
<1>1. LockInv' /\ lk' = lk /\ clash' = clash
  BY LockNextInv DEF IInv, lockVars
<1>2. Linked(p)' /\ ReadIsFresh(p)'
  BY <1>1 DEF IInv, ProcInv, Linked, ReadIsFresh
<1>3. ProcInv(p)'
  BY <1>1, <1>2 DEF ProcInv
<1>4. crashes' \in 0..MaxCrashes
  BY DEF IInv, Typed
<1> QED
  BY <1>1, <1>3, <1>4, QuietOp

\* Outside the stages that hold a lock nobody has asked for one.
LEMMA AsksFirst ==
  ASSUME IInv, NEW p \in Proc, op[p].at \notin Locked
  PROVE  op[p].step = "ask"
BY CallParts DEF IInv, ProcInv, Linked, Typed

LEMMA IdleInv ==
  ASSUME NEW p \in Proc, op[p] = Idle
  PROVE  Engaged(p) /\ Placed(p) /\ ~Unsaved(p) /\ op[p].kind = "none" /\ op[p].step = "ask"
BY DEF Idle, Engaged, Placed, Unsaved, Removed, Indexed

LEMMA IdleInvPrimed ==
  ASSUME NEW p \in Proc, op'[p] = Idle
  PROVE  /\ Engaged(p)' /\ Placed(p)' /\ ~Unsaved(p)'
         /\ op'[p].kind = "none" /\ op'[p].step = "ask"
BY DEF Idle, Engaged, Placed, Unsaved, Removed, Indexed

-----------------------------------------------------------------------------
(***************************************************************************)
(* Creations outside the locks.                                            *)
(***************************************************************************)
LEMMA ProjectOf ==
  ASSUME IInv, NEW p \in Proc, op[p].kind # "none", RegistryAssumption
  PROVE  op[p].proj \in Project /\ OwnerOf[op[p].proj] \in Owner
BY DEF IInv, ProcInv, Engaged, Typed, RegistryAssumption

\* With no clash a project is kept exactly if its owner's file has it.
LEMMA KeptIsFiled ==
  ASSUME FilesInv, Typed, ~clash, NEW x \in Project, RegistryAssumption
  PROVE  x \in kept <=> x \in files[OwnerOf[x]]
BY DEF FilesInv, Typed, Owned, NoEntryIsLost, RegistryAssumption

LEMMA EndsInv2 ==
  ASSUME IInv, NEW p \in Proc, op[p].step = "ask", Ends(p), UNCHANGED lockVars,
         UNCHANGED <<files, index, kept, minted, crashes>>,
         created' \subseteq kept, ~clash => created' \subseteq index
  PROVE  IInv'
<1>1. op' \in [Proc -> Call] /\ op'[p] = Idle /\ \A q \in Proc \ {p} : op'[q] = op[q]
  BY EndsShape DEF IInv
<1>2. /\ Engaged(p)' /\ Placed(p)' /\ ~Unsaved(p)'
      /\ op'[p].kind = "none" /\ op'[p].step = "ask"
  BY <1>1, IdleInvPrimed
<1> QED
  BY <1>1, <1>2, QuietUnlocked

LEMMA CreatedInIndex ==
  ASSUME IInv
  PROVE  created \subseteq kept /\ (~clash => created \subseteq index)
BY DEF IInv, Typed, FilesInv, IndexKnowsCreated

LEMMA CheckQuotaInv ==
  ASSUME IInv, NEW p \in Proc, CheckQuota(p)
  PROVE  IInv'
<1>1. /\ op[p].at = "count" /\ op[p].step = "ask"
      /\ UNCHANGED <<lockVars, fileVars, ghostVars>>
  BY AsksFirst DEF CheckQuota, Locked
<1>2. CASE Ends(p)
  BY <1>1, <1>2, CreatedInIndex, EndsInv2 DEF fileVars, ghostVars
<1>3. CASE Moves(p, "record")
  <2>1. /\ op' \in [Proc -> Call]
        /\ op'[p].kind = op[p].kind /\ op'[p].proj = op[p].proj
        /\ op'[p].at = "record" /\ op'[p].step = "ask"
        /\ \A q \in Proc \ {p} : op'[q] = op[q]
    BY <1>3, MovesShape DEF IInv, Stage, Locked
  <2>2. op[p].kind = "create" /\ op[p].proj \in minted /\ Unsaved(p)
    BY <1>1 DEF IInv, ProcInv, Engaged, Unsaved
  <2>3. Engaged(p)'
    BY <1>1, <2>1, <2>2 DEF Engaged, ghostVars
  <2>4. ~clash => Placed(p)'
    BY <1>1, <2>1, <2>2 DEF IInv, ProcInv, Placed, Unsaved, Removed, Indexed, ghostVars
  <2> QED
    BY <1>1, <2>1, <2>2, <2>3, <2>4, CreatedInIndex, QuietUnlocked DEF fileVars, ghostVars
<1> QED
  BY <1>2, <1>3 DEF CheckQuota

LEMMA AcquiredInv ==
  ASSUME IInv, NEW p \in Proc, Acquired(p)
  PROVE  IInv'
<1>1. /\ op[p].at = "acquire" /\ op[p].step = "ask" /\ Ends(p)
      /\ created' = (created \cup {op[p].proj}) \cap kept
      /\ UNCHANGED <<lockVars, fileVars, crashes, minted, kept>>
  BY AsksFirst DEF Acquired, Locked
<1>2. ~clash => op[p].proj \in index \/ op[p].proj \notin kept
  BY <1>1 DEF IInv, ProcInv, Placed, Indexed, Engaged
<1>3. ~clash => created' \subseteq index
  BY <1>1, <1>2, CreatedInIndex
<1> QED
  BY <1>1, <1>3, EndsInv2 DEF fileVars

LEMMA AcquireThrowsInv ==
  ASSUME IInv, NEW p \in Proc, AcquireThrows(p)
  PROVE  IInv'
<1>1. /\ op[p].at = "acquire" /\ op[p].step = "ask" /\ Moves(p, "unrecord")
      /\ UNCHANGED <<lockVars, fileVars, ghostVars>>
  BY AsksFirst DEF AcquireThrows, Locked
<1>2. /\ op' \in [Proc -> Call]
      /\ op'[p].kind = op[p].kind /\ op'[p].proj = op[p].proj
      /\ op'[p].at = "unrecord" /\ op'[p].step = "ask"
      /\ \A q \in Proc \ {p} : op'[q] = op[q]
  BY <1>1, MovesShape DEF IInv, Stage, Locked
<1>3. op[p].kind = "create" /\ op[p].proj \in minted
  BY <1>1 DEF IInv, ProcInv, Engaged
<1>4. Engaged(p)' /\ Placed(p)' /\ ~Unsaved(p)'
  BY <1>1, <1>2, <1>3 DEF Engaged, Placed, Unsaved, Removed, Indexed, ghostVars
<1> QED
  BY <1>1, <1>2, <1>4, CreatedInIndex, QuietUnlocked DEF fileVars, ghostVars

-----------------------------------------------------------------------------
(***************************************************************************)
(* Lookups.                                                                *)
(***************************************************************************)
\* A lookup that goes on to another stage outside the locks.
LEMMA GoesOn ==
  ASSUME IInv, NEW p \in Proc, op[p].at \in {"lookup", "read", "scan"},
         NEW a \in {"read", "scan", "idle"},
         op' = [op EXCEPT ![p].at = a, ![p].sure = StillSure(p)],
         ~clash /\ a = "idle" => op[p].proj \notin kept,
         UNCHANGED <<lockVars, fileVars, ghostVars>>
  PROVE  IInv'
<1>1. /\ op' \in [Proc -> Call]
      /\ op'[p].kind = op[p].kind /\ op'[p].proj = op[p].proj
      /\ op'[p].at = a /\ op'[p].step = op[p].step
      /\ op'[p].sure = StillSure(p)
      /\ \A q \in Proc \ {p} : op'[q] = op[q]
  BY LookShape DEF IInv, Stage
<1>2. op[p].kind = "get" /\ op[p].proj \in minted /\ op[p].step = "ask"
  BY AsksFirst DEF IInv, ProcInv, Engaged, Locked
<1>3. Engaged(p)' /\ ~Unsaved(p)'
  BY <1>1, <1>2 DEF Engaged, Unsaved, ghostVars
<1>4. ~clash => Placed(p)'
  BY <1>1, <1>2 DEF Placed, Unsaved, Removed, Indexed, StillSure
<1> QED
  BY <1>1, <1>2, <1>3, <1>4, CreatedInIndex, QuietUnlocked DEF fileVars, ghostVars

LEMMA LooksUpInv ==
  ASSUME IInv, NEW p \in Proc, LooksUp(p)
  PROVE  IInv'
<1>1. AfterLookup(p) \in {"read", "scan"}
  BY DEF AfterLookup
<1> QED
  BY <1>1, GoesOn DEF LooksUp

LEMMA ReadsRecordInv ==
  ASSUME IInv, NEW p \in Proc, ReadsRecord(p)
  PROVE  IInv'
<1>1. /\ op[p].at = "read" /\ op[p].step = "ask"
      /\ UNCHANGED <<lockVars, fileVars, ghostVars>>
      /\ Ends(p) \/ op' = [op EXCEPT ![p].at = "scan", ![p].sure = StillSure(p)]
  BY AsksFirst DEF ReadsRecord, Locked
<1>2. CASE Ends(p)
  BY <1>1, <1>2, CreatedInIndex, EndsInv2 DEF fileVars, ghostVars
<1>3. CASE op' = [op EXCEPT ![p].at = "scan", ![p].sure = StillSure(p)]
  BY <1>1, <1>3, GoesOn
<1> QED
  BY <1>1, <1>2, <1>3

LEMMA ScansInv ==
  ASSUME IInv, NEW p \in Proc, Scans(p), RegistryAssumption
  PROVE  IInv'
<1>1. /\ op[p].at = "scan" /\ op[p].step = "ask"
      /\ UNCHANGED <<lockVars, fileVars, ghostVars>>
  BY AsksFirst DEF Scans, Locked
<1>2. op[p].kind = "get" /\ op[p].proj \in minted /\ op[p].proj \in Project
  BY <1>1, ProjectOf DEF IInv, ProcInv, Engaged
<1>3. CASE op[p].proj \in Records(p)
  <2>1. /\ op' \in [Proc -> Call]
        /\ op'[p].kind = op[p].kind /\ op'[p].proj = op[p].proj
        /\ op'[p].at = "index" /\ op'[p].step = "ask"
        /\ \A q \in Proc \ {p} : op'[q] = op[q]
    BY <1>3, MovesShape DEF Scans, IInv, Stage, Locked
  <2>2. Engaged(p)' /\ Placed(p)' /\ ~Unsaved(p)'
    BY <1>1, <1>2, <2>1 DEF Engaged, Placed, Unsaved, Removed, Indexed, ghostVars
  <2> QED
    BY <1>1, <2>1, <2>2, CreatedInIndex, QuietUnlocked DEF fileVars, ghostVars
<1>4. CASE op[p].proj \notin Records(p)
  <2>1. op' = [op EXCEPT ![p].at = "idle", ![p].sure = StillSure(p)]
    BY <1>4 DEF Scans
  <2>2. ~clash => op[p].proj \notin kept
    BY <1>2, <1>4, KeptIsFiled DEF IInv, Records
  <2> QED
    BY <1>1, <2>1, <2>2, GoesOn
<1> QED
  BY <1>3, <1>4

LEMMA ReturnsNothingInv ==
  ASSUME IInv, NEW p \in Proc, ReturnsNothing(p)
  PROVE  IInv'
<1>1. /\ op[p].step = "ask" /\ Ends(p) /\ UNCHANGED <<lockVars, fileVars, ghostVars>>
  BY AsksFirst DEF ReturnsNothing, Locked
<1> QED
  BY <1>1, CreatedInIndex, EndsInv2 DEF fileVars, ghostVars

-----------------------------------------------------------------------------
(***************************************************************************)
(* Calls that begin.                                                       *)
(***************************************************************************)
LEMMA BeginGetInv ==
  ASSUME IInv, NEW p \in Proc, NEW x \in Project, BeginGet(p, x)
  PROVE  IInv'
<1> DEFINE b == x \in kept
           c == [Idle EXCEPT !.kind = "get", !.proj = x, !.at = "lookup", !.sure = b]
<1>1. /\ op[p] = Idle /\ x \in minted /\ op' = [op EXCEPT ![p] = c]
      /\ UNCHANGED <<lockVars, fileVars, ghostVars>>
  BY DEF BeginGet
<1>b. b \in BOOLEAN
  OBVIOUS
<1> HIDE DEF b
<1>2. c \in Call /\ c.kind = "get" /\ c.proj = x /\ c.at = "lookup" /\ c.step = "ask"
  BY <1>b DEF Idle, Call, Step, Stage
<1> HIDE DEF c
<1>3. op' \in [Proc -> Call] /\ op'[p] = c /\ \A q \in Proc \ {p} : op'[q] = op[q]
  BY <1>1, <1>2, OpTyped DEF IInv
<1>4. op[p].step = "ask"
  BY <1>1, IdleInv
<1>5. Engaged(p)' /\ Placed(p)' /\ ~Unsaved(p)'
  BY <1>1, <1>2, <1>3 DEF Engaged, Placed, Unsaved, Removed, Indexed, ghostVars
<1> QED
  BY <1>1, <1>2, <1>3, <1>4, <1>5, CreatedInIndex, QuietUnlocked DEF fileVars, ghostVars

\* A call that creates or deletes: the others stay as they are.
LEMMA BeginInv ==
  ASSUME IInv, NEW p \in Proc, NEW x \in Project, NEW c \in Call,
         op[p] = Idle, op' = [op EXCEPT ![p] = c],
         c.proj = x, c.step = "ask",
         UNCHANGED <<lockVars, fileVars, crashes, kept, created>>,
         \/ c.kind = "create" /\ c.at = "count" /\ x \notin minted /\ minted' = minted \cup {x}
         \/ c.kind = "delete" /\ c.at = "unrecord" /\ x \in kept /\ minted' = minted
  PROVE  IInv'
<1>1. op' \in [Proc -> Call] /\ op'[p] = c /\ \A q \in Proc \ {p} : op'[q] = op[q]
  BY OpTyped DEF IInv
<1>2. LockInv' /\ lk' = lk /\ clash' = clash /\ op[p].step = "ask" /\ ~Unsaved(p)
  BY IdleInv, LockNextInv DEF IInv, lockVars
<1>3. Typed' /\ minted \subseteq minted' /\ x \in minted' /\ (x \in kept => x \in minted)
  BY <1>1 DEF IInv, Typed, fileVars
<1>4. FilesInv'
  BY <1>2 DEF IInv, FilesInv, Owned, NoEntryIsLost, IndexKnowsCreated, fileVars
<1>5. ProcInv(p)'
  <2>1. Engaged(p)'
    BY <1>1, <1>3 DEF Engaged
  <2>2. Linked(p)' /\ ReadIsFresh(p)'
    BY <1>1, <1>2 DEF IInv, ProcInv, Linked, ReadIsFresh
  <2>3. Placed(p)'
    BY <1>1, <1>3 DEF Placed, Unsaved, Removed, Indexed
  <2> QED
    BY <2>1, <2>2, <2>3 DEF ProcInv
<1>6. \A q \in Proc : ProcInv(q)'
  <2> TAKE q \in Proc
  <2>1. CASE q # p
    BY <1>1, <1>2, <1>3, <2>1, OtherStays DEF IInv, fileVars
  <2> QED
    BY <1>5, <2>1
<1>7. ASSUME ~clash', NEW q \in Proc, NEW r \in Proc
      PROVE  Apart(q, r)'
  <2> SUFFICES ASSUME Unsaved(q)', op'[r].kind \in {"create", "delete"},
                      op'[r].proj = op'[q].proj, q # r
               PROVE  FALSE
    BY DEF Apart
  <2>1. CASE q # p /\ r # p
    BY <1>1, <1>2, <1>7, <2>1 DEF IInv, Apart, Unsaved
  <2>2. CASE q = p
    <3>1. c.kind = "create" /\ x \notin minted
      BY <1>1, <2>2 DEF Unsaved
    <3>2. op[r].kind # "none" /\ op[r].proj = x
      BY <1>1, <2>2
    <3> QED
      BY <3>1, <3>2 DEF IInv, ProcInv, Engaged
  <2>3. CASE q # p /\ r = p
    <3>1. Unsaved(q) /\ op[q].proj = x
      BY <1>1, <2>3 DEF Unsaved
    <3>2. x \notin kept /\ x \in minted
      BY <1>2, <1>7, <3>1 DEF IInv, ProcInv, Placed, Engaged, Unsaved
    <3> QED
      BY <3>2
  <2> QED
    BY <2>1, <2>2, <2>3
<1> QED
  BY <1>2, <1>3, <1>4, <1>6, <1>7 DEF IInv

LEMMA BeginsInv ==
  ASSUME IInv, NEW p \in Proc, NEW x \in Project, BeginCreate(p, x) \/ BeginDelete(p, x)
  PROVE  IInv'
<1>1. CASE BeginCreate(p, x)
  <2> DEFINE c == [Idle EXCEPT !.kind = "create", !.proj = x, !.at = "count"]
  <2>1. c \in Call /\ c.kind = "create" /\ c.proj = x /\ c.at = "count" /\ c.step = "ask"
    BY DEF Idle, Call, Step, Stage
  <2>2. /\ op[p] = Idle /\ x \notin minted /\ op' = [op EXCEPT ![p] = c]
        /\ minted' = minted \cup {x}
        /\ UNCHANGED <<lockVars, fileVars, crashes, kept, created>>
    BY <1>1 DEF BeginCreate
  <2> HIDE DEF c
  <2> QED
    BY <2>1, <2>2, BeginInv
<1>2. CASE BeginDelete(p, x)
  <2> DEFINE c == [Idle EXCEPT !.kind = "delete", !.proj = x, !.at = "unrecord"]
  <2>1. c \in Call /\ c.kind = "delete" /\ c.proj = x /\ c.at = "unrecord" /\ c.step = "ask"
    BY DEF Idle, Call, Step, Stage, Locked
  <2>2. /\ op[p] = Idle /\ x \in kept /\ op' = [op EXCEPT ![p] = c]
        /\ UNCHANGED <<lockVars, fileVars, ghostVars>>
    BY <1>2 DEF BeginDelete
  <2> HIDE DEF c
  <2> QED
    BY <2>1, <2>2, BeginInv DEF ghostVars
<1> QED
  BY <1>1, <1>2

-----------------------------------------------------------------------------
(***************************************************************************)
(* Taking and leaving locks.                                               *)
(***************************************************************************)
LEMMA LockOfTyped ==
  ASSUME IInv, NEW p \in Proc, op[p].at \in Locked, RegistryAssumption
  PROVE  LockOf(p) \in Lock /\ op[p].proj \in Project /\ op[p].kind # "none"
<1>1. op[p].kind # "none"
  BY DEF IInv, ProcInv, Engaged, Idle, Locked
<1> QED
  BY <1>1, ProjectOf DEF LockOf, RegistryAssumption

LEMMA AsksForLockInv ==
  ASSUME IInv, NEW p \in Proc, AsksForLock(p), RegistryAssumption
  PROVE  IInv'
<1>1. /\ op[p].at \in Locked /\ op[p].step = "ask" /\ Wants(p, LockOf(p))
      /\ Steps(p, "load") /\ UNCHANGED <<fileVars, ghostVars>>
  BY DEF AsksForLock
<1>2. LockInv'
  BY <1>1, LockOfTyped, WantsInv DEF IInv
<1>3. /\ op' \in [Proc -> Call]
      /\ op'[p].kind = op[p].kind /\ op'[p].proj = op[p].proj
      /\ op'[p].at = op[p].at /\ op'[p].step = "load"
      /\ \A q \in Proc \ {p} : op'[q] = op[q]
  BY <1>1, StepsShape DEF IInv, Step
<1> DEFINE c == [pc |-> "mkdir", lock |-> LockOf(p), seen |-> NoId]
<1>4. lk'[p] = c /\ (\A q \in Proc \ {p} : lk'[q] = lk[q]) /\ clash' = clash
  BY <1>1, CallChanges DEF Wants, IInv, LockInv
<1>5. Linked(p)' /\ ReadIsFresh(p)'
  BY <1>1, <1>3, <1>4 DEF Linked, ReadIsFresh, LockOf
<1>6. Engaged(p)'
  <2>1. op[p].kind # "none"
    BY <1>1, LockOfTyped
  <2> QED
    BY <1>1, <1>3, <2>1 DEF IInv, ProcInv, Engaged, ghostVars
<1>7. (Unsaved(p)' => Unsaved(p)) /\ (~clash => Placed(p)')
  BY <1>1, <1>3 DEF IInv, ProcInv, Placed, Unsaved, Removed, Indexed, Locked,
     ghostVars, fileVars
<1>8. ProcInv(p)' /\ crashes' \in 0..MaxCrashes
  BY <1>1, <1>4, <1>5, <1>6, <1>7 DEF ProcInv, IInv, Typed, ghostVars
<1> QED
  BY <1>1, <1>2, <1>3, <1>4, <1>7, <1>8, CreatedInIndex, QuietOp DEF fileVars, ghostVars

LEMMA AttemptsLockInv ==
  ASSUME IInv, NEW p \in Proc, AttemptsLock(p)
  PROVE  IInv'
<1>1. Attempts(p) /\ op' = op /\ UNCHANGED <<fileVars, ghostVars>>
  BY DEF AttemptsLock
<1>2. LockInv'
  BY <1>1, MakesInv, LooksInv, StealsInv DEF Attempts, IInv
<1>3. /\ lk[p].pc \notin {"out", "in"}
      /\ lk'[p].pc # "out" /\ lk'[p].lock = lk[p].lock
      /\ (\A q \in Proc \ {p} : lk'[q] = lk[q])
      /\ clash => clash'
  BY <1>1, AttemptsShape DEF IInv
<1>4. op' \in [Proc -> Call] /\ op'[p] = op[p] /\ (\A q \in Proc \ {p} : op'[q] = op[q])
  BY <1>1 DEF IInv, Typed
<1>5. Engaged(p)' /\ Linked(p)' /\ ReadIsFresh(p)'
  BY <1>1, <1>3 DEF IInv, ProcInv, Engaged, Linked, ReadIsFresh, LockOf, ghostVars
<1>6. (Unsaved(p)' => Unsaved(p)) /\ (~clash => Placed(p)')
  BY <1>1 DEF IInv, ProcInv, Placed, Unsaved, Removed, Indexed, ghostVars, fileVars
<1>7. ProcInv(p)' /\ crashes' \in 0..MaxCrashes
  BY <1>1, <1>3, <1>5, <1>6 DEF ProcInv, IInv, Typed, ghostVars
<1> QED
  BY <1>1, <1>2, <1>3, <1>4, <1>6, <1>7, CreatedInIndex, QuietOp DEF fileVars, ghostVars

\* A call that ends with its claim on the lock.
LEMMA EndsOutside ==
  ASSUME IInv, NEW p \in Proc, Leaves(p) \/ GivesUp(p) \/ Dies(p), Ends(p),
         UNCHANGED <<fileVars, minted, kept, created>>, crashes' \in 0..MaxCrashes
  PROVE  IInv'
<1>1. LockInv'
  BY LeavesInv, EndsInv DEF IInv
<1>2. lk'[p].pc = "out" /\ clash' = clash /\ \A q \in Proc \ {p} : lk'[q] = lk[q]
  BY OutShape DEF IInv
<1>3. op' \in [Proc -> Call] /\ op'[p] = Idle /\ \A q \in Proc \ {p} : op'[q] = op[q]
  BY EndsShape DEF IInv
<1>4. /\ Engaged(p)' /\ Placed(p)' /\ ~Unsaved(p)'
      /\ op'[p].kind = "none" /\ op'[p].step = "ask"
  BY <1>3, IdleInvPrimed
<1>5. ProcInv(p)'
  BY <1>2, <1>4 DEF ProcInv, Linked, ReadIsFresh
<1> QED
  BY <1>1, <1>2, <1>3, <1>4, <1>5, CreatedInIndex, QuietOp DEF fileVars

LEMMA LockRefusedInv ==
  ASSUME IInv, NEW p \in Proc, LockRefused(p)
  PROVE  IInv'
BY EndsOutside DEF LockRefused, ghostVars, IInv, Typed

LEMMA CrashInv ==
  ASSUME IInv, NEW p \in Proc, Crash(p), RegistryAssumption
  PROVE  IInv'
<1>1. crashes' \in 0..MaxCrashes
  BY DEF Crash, IInv, Typed, RegistryAssumption
<1> QED
  BY <1>1, EndsOutside DEF Crash

\* A call that leaves its lock and moves to its next stage.
LEMMA MovesOutside ==
  ASSUME IInv, NEW p \in Proc, Leaves(p), UNCHANGED <<fileVars, ghostVars>>,
         NEW a \in {"index", "unindex", "acquire"}, Moves(p, a), op[p].kind # "none",
         a = "index" => op[p].kind = "create",
         a = "unindex" => Removed(p) /\ op[p].kind \in {"create", "delete"},
         a = "acquire" => Indexed(p)
  PROVE  IInv'
<1>1. LockInv'
  BY LeavesInv DEF IInv
<1>2. lk'[p].pc = "out" /\ clash' = clash /\ \A q \in Proc \ {p} : lk'[q] = lk[q]
  BY OutShape DEF IInv
<1>3. /\ op' \in [Proc -> Call]
      /\ op'[p].kind = op[p].kind /\ op'[p].proj = op[p].proj
      /\ op'[p].at = a /\ op'[p].step = "ask"
      /\ \A q \in Proc \ {p} : op'[q] = op[q]
  BY MovesShape DEF IInv, Stage, Locked
<1>4. Engaged(p)'
  BY <1>3 DEF IInv, ProcInv, Engaged, Indexed, ghostVars
<1>5. ~Unsaved(p)'
  BY <1>3 DEF Unsaved
<1>6. ~clash => Placed(p)'
  BY <1>3, <1>5 DEF IInv, ProcInv, Placed, Removed, Indexed, ghostVars, fileVars
<1>7. ProcInv(p)'
  BY <1>2, <1>3, <1>4, <1>6 DEF ProcInv, Linked, ReadIsFresh
<1>8. crashes' \in 0..MaxCrashes
  BY DEF IInv, Typed, ghostVars
<1> QED
  BY <1>1, <1>2, <1>3, <1>5, <1>7, <1>8, CreatedInIndex, QuietOp DEF fileVars, ghostVars

LEMMA LeavesLockInv ==
  ASSUME IInv, NEW p \in Proc, LeavesLock(p)
  PROVE  IInv'
<1>1. /\ op[p].step = "leave" /\ Leaves(p) /\ UNCHANGED <<fileVars, ghostVars>>
      /\ crashes' \in 0..MaxCrashes
  BY DEF LeavesLock, IInv, Typed, ghostVars
<1>2. CASE Ends(p)
  BY <1>1, <1>2, EndsOutside DEF ghostVars
<1>3. CASE op[p].at = "record" /\ Moves(p, "index")
  BY <1>1, <1>3, MovesOutside DEF IInv, ProcInv, Engaged
<1>4. CASE op[p].at = "unrecord" /\ Moves(p, "unindex")
  BY <1>1, <1>4, MovesOutside DEF IInv, ProcInv, Engaged, Removed
<1>5. CASE op[p].at = "index" /\ op[p].kind = "create" /\ Moves(p, "acquire")
  BY <1>1, <1>5, MovesOutside DEF Indexed
<1> QED
  BY <1>2, <1>3, <1>4, <1>5 DEF LeavesLock

LEMMA TimePassesInv ==
  ASSUME IInv, NEW l \in Lock, TimePasses(l)
  PROVE  IInv'
<1>1. LockInv' /\ lk' = lk /\ clash' = clash /\ UNCHANGED <<fileVars, op, ghostVars>>
  BY AgesInv DEF TimePasses, Ages, IInv
<1>2. Typed' /\ FilesInv'
  BY <1>1 DEF IInv, Typed, FilesInv, Owned, NoEntryIsLost, IndexKnowsCreated,
     fileVars, ghostVars
<1>3. \A q \in Proc : ProcInv(q)'
  BY <1>1, OtherStays DEF IInv, fileVars, ghostVars
<1>4. ~clash' => \A q, r \in Proc : Apart(q, r)'
  BY <1>1 DEF IInv, Apart, Unsaved
<1> QED
  BY <1>1, <1>2, <1>3, <1>4 DEF IInv

-----------------------------------------------------------------------------
(***************************************************************************)
(* Saves: with no clash the file changes by the project alone, and nobody  *)
(* else has read it.                                                       *)
(***************************************************************************)
LEMMA AloneWithFile ==
  ASSUME IInv, RegistryAssumption, ~clash, NEW p \in Proc, NEW q \in Proc,
         op[p].step \in {"save", "leave"}, op[q].step \in {"save", "leave"},
         LockOf(p) = LockOf(q)
  PROVE  p = q
<1>1. /\ lk[p].pc = "in" /\ lk[p].lock = LockOf(p) /\ op[p].at \in Locked
      /\ lk[q].pc = "in" /\ lk[q].lock = LockOf(q)
  BY DEF IInv, ProcInv, Linked
<1>2. LockOf(p) \in Lock
  BY <1>1, LockOfTyped
<1> QED
  BY <1>1, <1>2 DEF IInv, LockInv, Exclusive, Inside

\* What a save does to its own call and to the lock.
LEMMA SavesShape ==
  ASSUME IInv, NEW p \in Proc, Saves(p), RegistryAssumption
  PROVE  /\ op[p].step = "save" /\ op[p].at \in Locked /\ op[p].kind # "none"
         /\ op[p].proj \in Project /\ op[p].proj \in minted
         /\ Written(p) \in SUBSET Project
         /\ op' \in [Proc -> Call]
         /\ op'[p].kind = op[p].kind /\ op'[p].proj = op[p].proj
         /\ op'[p].at = op[p].at /\ op'[p].step = "leave"
         /\ \A q \in Proc \ {p} : op'[q] = op[q]
         /\ LockInv' /\ lk' = lk /\ clash' = clash /\ UNCHANGED <<crashes, minted>>
         /\ Engaged(p)' /\ Linked(p)' /\ ReadIsFresh(p)'
         /\ \A q \in Proc \ {p} : Engaged(q)' /\ Linked(q)'
<1>1. /\ op[p].step = "save" /\ Steps(p, "leave") /\ UNCHANGED <<lockVars, crashes, minted>>
  BY DEF Saves
<1>2. op[p].at \in Locked /\ lk[p].pc = "in" /\ lk[p].lock = LockOf(p)
  BY <1>1 DEF IInv, ProcInv, Linked
<1>3. op[p].kind # "none" /\ op[p].proj \in Project /\ op[p].proj \in minted
  BY <1>2, LockOfTyped DEF IInv, ProcInv, Engaged
<1>4. Written(p) \in SUBSET Project
  BY <1>3, CallParts DEF IInv, Typed, Written, Changed
<1>5. /\ op' \in [Proc -> Call]
      /\ op'[p].kind = op[p].kind /\ op'[p].proj = op[p].proj
      /\ op'[p].at = op[p].at /\ op'[p].step = "leave"
      /\ \A q \in Proc \ {p} : op'[q] = op[q]
  BY <1>1, StepsShape DEF IInv, Step
<1>6. LockInv' /\ lk' = lk /\ clash' = clash
  BY <1>1, LockNextInv DEF IInv, lockVars
<1>7. Engaged(p)' /\ Linked(p)' /\ ReadIsFresh(p)'
  BY <1>1, <1>2, <1>3, <1>5, <1>6 DEF IInv, ProcInv, Engaged, Linked, ReadIsFresh, LockOf
<1>8. \A q \in Proc \ {p} : Engaged(q)' /\ Linked(q)'
  BY <1>1, <1>5, <1>6 DEF IInv, ProcInv, Engaged, Linked, LockOf
<1> QED
  BY <1>1, <1>2, <1>3, <1>4, <1>5, <1>6, <1>7, <1>8

\* Nobody's distance to a creation changes.
LEMMA SavesApart ==
  ASSUME IInv, NEW p \in Proc, Saves(p), RegistryAssumption
  PROVE  ~clash' => \A q, r \in Proc : Apart(q, r)'
<1> SUFFICES ASSUME ~clash', NEW q \in Proc, NEW r \in Proc PROVE Apart(q, r)'
  OBVIOUS
<1>1. /\ op[p].step = "save" /\ op'[p].step = "leave" /\ op'[p].at = op[p].at
      /\ op'[p].kind = op[p].kind /\ op'[p].proj = op[p].proj
      /\ clash' = clash /\ \A s \in Proc \ {p} : op'[s] = op[s]
  BY SavesShape
<1>2. op'[r].kind = op[r].kind /\ op'[r].proj = op[r].proj /\ op'[q].proj = op[q].proj
  BY <1>1
<1>3. Unsaved(q)' => Unsaved(q)
  <2>1. CASE q = p
    BY <1>1, <2>1 DEF Unsaved
  <2>2. CASE q # p
    BY <1>1, <2>2 DEF Unsaved
  <2> QED
    BY <2>1, <2>2
<1> QED
  BY <1>1, <1>2, <1>3 DEF IInv, Apart

LEMMA SavesRecordsInv ==
  ASSUME IInv, NEW p \in Proc, Saves(p), SavesRecords(p), RegistryAssumption
  PROVE  IInv'
<1> DEFINE x == op[p].proj
           o == OwnerOf[x]
<1>1. /\ op[p].step = "save" /\ op[p].kind # "none" /\ x \in Project /\ x \in minted
      /\ Written(p) \in SUBSET Project
      /\ op' \in [Proc -> Call]
      /\ op'[p].kind = op[p].kind /\ op'[p].proj = x
      /\ op'[p].at = op[p].at /\ op'[p].step = "leave"
      /\ \A q \in Proc \ {p} : op'[q] = op[q]
      /\ LockInv' /\ lk' = lk /\ clash' = clash /\ UNCHANGED <<crashes, minted>>
      /\ Engaged(p)' /\ ReadIsFresh(p)' /\ Linked(p)'
      /\ \A q \in Proc \ {p} : Engaged(q)' /\ Linked(q)'
  BY SavesShape
<1>2. /\ op[p].at \in {"record", "unrecord"}
      /\ files' = IF Written(p) = op[p].read THEN files ELSE [files EXCEPT ![o] = Written(p)]
      /\ kept' = IF op[p].at = "record" THEN kept \cup {x} ELSE kept \ {x}
      /\ created' = created \cap kept'
      /\ index' = index
  BY DEF SavesRecords
<1>3. o \in Owner /\ files \in [Owner -> SUBSET Project]
  BY <1>1 DEF RegistryAssumption, IInv, Typed
<1>4. Typed'
  BY <1>1, <1>2, <1>3 DEF IInv, Typed
<1>5. ~clash => op[p].read = files[o]
  BY <1>1, <1>2 DEF IInv, ProcInv, ReadIsFresh, OnFile, Records
<1>6. ASSUME ~clash
      PROVE  files' = [files EXCEPT ![o] = IF op[p].at = "record" THEN files[o] \cup {x}
                                                                 ELSE files[o] \ {x}]
  <2>1. Written(p) = IF op[p].at = "record" THEN files[o] \cup {x} ELSE files[o] \ {x}
    BY <1>2, <1>5, <1>6 DEF Written, Changed
  <2>2. CASE Written(p) = op[p].read
    BY <1>2, <1>3, <1>5, <1>6, <2>1, <2>2
  <2>3. CASE Written(p) # op[p].read
    BY <1>2, <2>1, <2>3
  <2> QED
    BY <2>2, <2>3
<1>7. FilesInv'
  <2> SUFFICES ASSUME ~clash PROVE FilesInv'
    BY <1>1 DEF FilesInv, Owned, NoEntryIsLost, IndexKnowsCreated
  <2>1. \A q \in Owner : files'[q] = IF q = o
                           THEN (IF op[p].at = "record" THEN files[o] \cup {x} ELSE files[o] \ {x})
                           ELSE files[q]
    BY <1>3, <1>6
  <2>2. \A q \in Owner : \A y \in files[q] : OwnerOf[y] = q
    BY <1>1 DEF IInv, FilesInv, Owned
  <2>3. kept = UNION {files[q] : q \in Owner}
    BY DEF IInv, FilesInv, NoEntryIsLost
  <2>4. Owned'
    BY <1>1, <2>1, <2>2 DEF Owned
  <2>5. ASSUME NEW y
        PROVE  y \in kept' <=> \E q \in Owner : y \in files'[q]
    <3>1. y \in kept <=> \E q \in Owner : y \in files[q]
      BY <2>3
    <3>2. CASE op[p].at = "record"
      BY <1>2, <1>3, <2>1, <3>1, <3>2
    <3>3. CASE op[p].at = "unrecord"
      <4>1. y \in kept' <=> y \in kept /\ y # x
        BY <1>2, <3>3
      <4>2. \A q \in Owner : y \in files'[q] <=> y \in files[q] /\ ~(q = o /\ y = x)
        BY <1>3, <2>1, <3>3
      <4>3. \A q \in Owner : x \in files[q] => q = o
        BY <2>2
      <4> QED
        BY <3>1, <4>1, <4>2, <4>3
    <3> QED
      BY <1>2, <3>2, <3>3
  <2>6. NoEntryIsLost'
    BY <2>5 DEF NoEntryIsLost
  <2>7. IndexKnowsCreated'
    BY <1>2 DEF IInv, FilesInv, IndexKnowsCreated
  <2> QED
    BY <2>4, <2>6, <2>7 DEF FilesInv
<1>8. Placed(p)'
  <2>1. op[p].at = "unrecord" => x \notin kept'
    BY <1>2
  <2>2. op[p].kind # "get"
    BY <1>2 DEF IInv, ProcInv, Engaged
  <2> QED
    BY <1>1, <1>2, <2>1, <2>2 DEF Placed, Unsaved, Removed, Indexed
<1>9. ASSUME ~clash, NEW q \in Proc, q # p
      PROVE  ReadIsFresh(q)' /\ Placed(q)'
  <2>1. op'[q] = op[q] /\ ReadIsFresh(q) /\ Placed(q) /\ Apart(p, q)
        /\ Engaged(q) /\ Linked(q)
    BY <1>1, <1>9 DEF IInv, ProcInv
  <2>2. ReadIsFresh(q)'
    <3> SUFFICES ASSUME op[q].step = "save" PROVE op[q].read = OnFile(q)'
      BY <2>1 DEF ReadIsFresh
    <3>1. op[q].read = OnFile(q) /\ op[q].at \in Locked
      BY <2>1 DEF ReadIsFresh, Linked
    <3>2. CASE op[q].at \in {"record", "unrecord"}
      <4>1. OwnerOf[op[q].proj] # o
        BY <1>1, <1>2, <1>9, <3>2, AloneWithFile DEF LockOf
      <4>2. OwnerOf[op[q].proj] \in Owner
        BY <3>1, LockOfTyped DEF RegistryAssumption
      <4> QED
        BY <1>3, <1>6, <1>9, <2>1, <3>1, <3>2, <4>1, <4>2 DEF OnFile, Records
    <3>3. CASE op[q].at \notin {"record", "unrecord"}
      BY <1>2, <2>1, <3>1, <3>3 DEF OnFile
    <3> QED
      BY <3>2, <3>3
  <2>3. Placed(q)'
    <3>1. CASE op[p].at = "record"
      <4>1. Unsaved(p)
        BY <1>1, <3>1 DEF IInv, ProcInv, Engaged, Unsaved
      <4>2. op[q].kind \in {"create", "delete"} => op[q].proj # x
        BY <1>9, <2>1, <4>1 DEF Apart
      <4>3. Unsaved(q) \/ Removed(q) \/ Indexed(q) => op[q].kind \in {"create", "delete"}
        BY <2>1 DEF Unsaved, Removed, Indexed, Engaged
      <4> QED
        BY <1>2, <2>1, <3>1, <4>2, <4>3 DEF Placed, Unsaved, Removed, Indexed
    <3>2. CASE op[p].at = "unrecord"
      BY <1>2, <2>1, <3>2 DEF Placed, Unsaved, Removed, Indexed
    <3> QED
      BY <1>2, <3>1, <3>2
  <2> QED
    BY <2>2, <2>3
<1>10. \A q \in Proc : ProcInv(q)'
  BY <1>1, <1>8, <1>9 DEF ProcInv
<1> QED
  BY <1>1, <1>4, <1>7, <1>10, SavesApart DEF IInv

LEMMA SavesIndexInv ==
  ASSUME IInv, NEW p \in Proc, Saves(p), SavesIndex(p), RegistryAssumption
  PROVE  IInv'
<1> DEFINE x == op[p].proj
<1>1. /\ op[p].step = "save" /\ op[p].kind # "none" /\ x \in Project /\ x \in minted
      /\ Written(p) \in SUBSET Project
      /\ op' \in [Proc -> Call]
      /\ op'[p].kind = op[p].kind /\ op'[p].proj = x
      /\ op'[p].at = op[p].at /\ op'[p].step = "leave"
      /\ \A q \in Proc \ {p} : op'[q] = op[q]
      /\ LockInv' /\ lk' = lk /\ clash' = clash /\ UNCHANGED <<crashes, minted>>
      /\ Engaged(p)' /\ ReadIsFresh(p)' /\ Linked(p)'
      /\ \A q \in Proc \ {p} : Engaged(q)' /\ Linked(q)'
  BY SavesShape
<1>2. /\ op[p].at \in {"index", "unindex"}
      /\ index' = IF Written(p) = op[p].read THEN index ELSE Written(p)
      /\ UNCHANGED <<files, kept, created>>
  BY DEF SavesIndex
<1>3. Typed'
  BY <1>1, <1>2 DEF IInv, Typed
<1>4. ASSUME ~clash
      PROVE  index' = IF op[p].at = "index" THEN index \cup {x} ELSE index \ {x}
  <2>1. op[p].read = index
    BY <1>1, <1>2, <1>4 DEF IInv, ProcInv, ReadIsFresh, OnFile
  <2> QED
    BY <1>2, <2>1 DEF Written, Changed
<1>5. ~clash /\ op[p].at = "unindex" => x \notin kept
  BY <1>1 DEF IInv, ProcInv, Placed, Removed
<1>6. FilesInv'
  <2>1. ~clash => created \subseteq index'
    BY <1>2, <1>4, <1>5, CreatedInIndex
  <2> QED
    BY <1>1, <1>2, <2>1 DEF IInv, FilesInv, Owned, NoEntryIsLost, IndexKnowsCreated
<1>7. ASSUME ~clash
      PROVE  Placed(p)'
  <2>1. op[p].at = "index" => x \in index'
    BY <1>4, <1>7
  <2> QED
    BY <1>1, <1>2, <1>5, <1>7, <2>1 DEF Placed, Unsaved, Removed, Indexed
<1>8. ASSUME ~clash, NEW q \in Proc, q # p
      PROVE  ReadIsFresh(q)' /\ Placed(q)'
  <2>1. op'[q] = op[q] /\ ReadIsFresh(q) /\ Placed(q) /\ Linked(q)
    BY <1>1, <1>8 DEF IInv, ProcInv
  <2>2. ReadIsFresh(q)'
    <3> SUFFICES ASSUME op[q].step = "save" PROVE op[q].read = OnFile(q)'
      BY <2>1 DEF ReadIsFresh
    <3>1. op[q].read = OnFile(q) /\ op[q].at \in {"record", "unrecord"}
      <4>1. op[q].at \notin {"record", "unrecord"} => LockOf(p) = LockOf(q)
        BY <1>2 DEF LockOf
      <4> QED
        BY <1>1, <1>8, <2>1, <4>1, AloneWithFile DEF ReadIsFresh
    <3> QED
      BY <1>2, <2>1, <3>1 DEF OnFile, Records
  <2>3. Placed(q)'
    BY <1>2, <1>4, <1>5, <1>8, <2>1 DEF Placed, Unsaved, Removed, Indexed
  <2> QED
    BY <2>2, <2>3
<1>9. \A q \in Proc : ProcInv(q)'
  BY <1>1, <1>7, <1>8 DEF ProcInv
<1> QED
  BY <1>1, <1>3, <1>6, <1>9, SavesApart DEF IInv

\* The read of a file.
LEMMA LoadsInv ==
  ASSUME IInv, NEW p \in Proc, Loads(p), RegistryAssumption
  PROVE  IInv'
<1>1. /\ lk[p].pc = "in" /\ op[p].step = "load"
      /\ op' = [op EXCEPT ![p].step = "save", ![p].read = OnFile(p)]
      /\ UNCHANGED <<lockVars, fileVars, ghostVars>>
  BY DEF Loads
<1>2. /\ op[p].at \in Locked /\ lk[p].lock = LockOf(p) /\ op[p].kind # "none"
      /\ op[p].proj \in minted
  BY <1>1, LockOfTyped DEF IInv, ProcInv, Linked, Engaged
<1>3. OnFile(p) \in SUBSET Project
  BY <1>2, ProjectOf DEF OnFile, Records, IInv, Typed
<1>4. /\ op' \in [Proc -> Call]
      /\ op'[p].kind = op[p].kind /\ op'[p].proj = op[p].proj
      /\ op'[p].at = op[p].at /\ op'[p].step = "save"
      /\ op'[p].read = OnFile(p)
      /\ \A q \in Proc \ {p} : op'[q] = op[q]
  BY <1>1, <1>3, LoadShape DEF IInv
<1>5. LockInv' /\ lk' = lk /\ clash' = clash
  BY <1>1, LockNextInv DEF IInv, lockVars
<1>6. Engaged(p)' /\ Linked(p)'
  BY <1>1, <1>2, <1>4, <1>5 DEF IInv, ProcInv, Engaged, Linked, LockOf, ghostVars
<1>7. ReadIsFresh(p)'
  BY <1>1, <1>4 DEF ReadIsFresh, OnFile, Records, fileVars
<1>8. (Unsaved(p)' => Unsaved(p)) /\ (~clash => Placed(p)')
  BY <1>1, <1>2, <1>4 DEF IInv, ProcInv, Placed, Unsaved, Removed, Indexed, Locked,
     ghostVars, fileVars
<1>9. ProcInv(p)' /\ crashes' \in 0..MaxCrashes
  BY <1>1, <1>5, <1>6, <1>7, <1>8 DEF ProcInv, IInv, Typed, ghostVars
<1> QED
  BY <1>1, <1>4, <1>5, <1>8, <1>9, CreatedInIndex, QuietOp DEF fileVars, ghostVars

-----------------------------------------------------------------------------

LEMMA InitIInv ==
  ASSUME Init, RegistryAssumption
  PROVE  IInv
<1>1. LockInv
  BY LockInitInv DEF Init
<1>2. /\ op \in [Proc -> Call] /\ \A p \in Proc : op[p] = Idle
      /\ \A p \in Proc : lk[p].pc = "out"
  BY IdleTyped DEF Init, LockInit, NoCall
<1>3. /\ files \in [Owner -> SUBSET Project] /\ \A o \in Owner : files[o] = {}
      /\ index = {} /\ crashes = 0 /\ minted = {} /\ kept = {} /\ created = {}
  BY DEF Init
<1>4. Typed /\ FilesInv
  BY <1>2, <1>3 DEF Typed, FilesInv, Owned, NoEntryIsLost, IndexKnowsCreated,
     RegistryAssumption
<1>5. ASSUME NEW p \in Proc
      PROVE  ProcInv(p) /\ ~Unsaved(p)
  BY <1>2, IdleInv DEF ProcInv, Linked, ReadIsFresh
<1> QED
  BY <1>1, <1>4, <1>5 DEF IInv, Apart

LEMMA NextIInv ==
  ASSUME IInv, [Next]_vars, RegistryAssumption
  PROVE  IInv'
<1>1. CASE UNCHANGED vars
  <2>1. LockInv' /\ lk' = lk /\ clash' = clash
    BY <1>1, LockNextInv DEF IInv, vars, lockVars
  <2>2. Typed' /\ FilesInv'
    BY <1>1, <2>1 DEF IInv, Typed, FilesInv, Owned, NoEntryIsLost, IndexKnowsCreated,
       vars, fileVars, ghostVars
  <2>3. \A q \in Proc : ProcInv(q)'
    BY <1>1, <2>1, OtherStays DEF IInv, vars, fileVars, ghostVars
  <2>4. ~clash' => \A q, r \in Proc : Apart(q, r)'
    BY <1>1, <2>1 DEF IInv, Apart, Unsaved, vars
  <2> QED
    BY <2>1, <2>2, <2>3, <2>4 DEF IInv
<1>2. ASSUME NEW p \in Proc, NEW x \in Project,
             BeginCreate(p, x) \/ BeginDelete(p, x) \/ BeginGet(p, x)
      PROVE  IInv'
  BY <1>2, BeginsInv, BeginGetInv
<1>3. ASSUME NEW p \in Proc, ProcStep(p) \/ Crash(p)
      PROVE  IInv'
  <2>1. CASE CheckQuota(p) \/ Acquired(p) \/ AcquireThrows(p)
    BY <2>1, CheckQuotaInv, AcquiredInv, AcquireThrowsInv
  <2>2. CASE LooksUp(p) \/ ReadsRecord(p) \/ Scans(p) \/ ReturnsNothing(p)
    BY <2>2, LooksUpInv, ReadsRecordInv, ScansInv, ReturnsNothingInv
  <2>3. CASE AsksForLock(p) \/ AttemptsLock(p) \/ LockRefused(p) \/ LeavesLock(p)
    BY <2>3, AsksForLockInv, AttemptsLockInv, LockRefusedInv, LeavesLockInv
  <2>4. CASE Loads(p)
    BY <2>4, LoadsInv
  <2>5. CASE Saves(p)
    <3>1. SavesRecords(p) \/ SavesIndex(p)
      BY <2>5 DEF Saves
    <3> QED
      BY <2>5, <3>1, SavesRecordsInv, SavesIndexInv
  <2>6. CASE Crash(p)
    BY <2>6, CrashInv
  <2> QED
    BY <1>3, <2>1, <2>2, <2>3, <2>4, <2>5, <2>6 DEF ProcStep
<1>4. ASSUME NEW l \in Lock, TimePasses(l)
      PROVE  IInv'
  BY <1>4, TimePassesInv
<1> QED
  BY <1>1, <1>2, <1>3, <1>4 DEF Next

LEMMA Invariance == Spec => []IInv
BY InitIInv, NextIInv, RegistryAssumption, PTL DEF Spec

(***************************************************************************)
(* The registry is well typed in every reachable state.                    *)
(***************************************************************************)
THEOREM RegistryTyped == Spec => []TypeOK
<1>1. IInv => TypeOK
  BY DEF IInv, LockInv, Typed, TypeOK
<1> QED
  BY <1>1, Invariance, PTL

(***************************************************************************)
(* One process at most is inside a lock of the registry.                   *)
(***************************************************************************)
THEOREM RegistryExcludes == Spec => []Exclusive
<1>1. IInv => Exclusive
  BY DEF IInv, LockInv
<1> QED
  BY <1>1, Invariance, PTL

(***************************************************************************)
(* The files hold the records that were written and not taken out: no      *)
(* read-modify-write of another process loses one or brings one back.      *)
(***************************************************************************)
THEOREM EntriesSurvive == Spec => []NoEntryIsLost
<1>1. IInv => NoEntryIsLost
  BY DEF IInv, FilesInv
<1> QED
  BY <1>1, Invariance, PTL

(***************************************************************************)
(* The index knows every project whose creation was reported done.         *)
(***************************************************************************)
THEOREM IndexComplete == Spec => []IndexKnowsCreated
<1>1. IInv => IndexKnowsCreated
  BY DEF IInv, FilesInv
<1> QED
  BY <1>1, Invariance, PTL

(***************************************************************************)
(* A lookup never misses a project that was registered all along.          *)
(***************************************************************************)
THEOREM LookupsFind == Spec => []GetFindsRegistered
<1>1. IInv => GetFindsRegistered
  BY DEF IInv, ProcInv, Placed, GetFindsRegistered
<1> QED
  BY <1>1, Invariance, PTL

-----------------------------------------------------------------------------
(***************************************************************************)
(* The quota.  A creation that has passed its check and has not saved its  *)
(* record is a place taken: the records and the places of an owner are     *)
(* together at most one process' place short of the bound.                 *)
(***************************************************************************)
Approved(p) == op[p].at = "record" /\ op[p].step # "leave"

Places(o) == {p \in Proc : Approved(p) /\ OwnerOf[op[p].proj] = o}

QuotaInv ==
  ~clash => \A o \in Owner :
    /\ IsFiniteSet(files[o])
    /\ Cardinality(files[o]) + Cardinality(Places(o)) <= MaxProjects + Cardinality(Proc) - 1

LEMMA PlacesAreFinite ==
  ASSUME NEW o
  PROVE  /\ IsFiniteSet(Places(o)) /\ Cardinality(Places(o)) \in Nat
         /\ Cardinality(Places(o)) <= Cardinality(Proc)
<1>1. Places(o) \in SUBSET Proc
  BY DEF Places
<1> QED
  BY <1>1, ProcAssumption, FS_Subset, FS_CardinalityType

\* The next step's places are finite as well.
LEMMA NextPlacesAreFinite ==
  ASSUME NEW o
  PROVE  /\ IsFiniteSet(Places(o)') /\ Cardinality(Places(o)') \in Nat
         /\ Cardinality(Places(o)') <= Cardinality(Proc)
<1>1. Places(o)' \in SUBSET Proc
  BY DEF Places
<1> QED
  BY <1>1, ProcAssumption, FS_Subset, FS_CardinalityType

\* A step that approves nothing and grows no file.
LEMMA NothingApproved ==
  ASSUME QuotaInv, RegistryAssumption, clash => clash',
         ~clash' => \A o \in Owner : files'[o] \subseteq files[o],
         NEW p \in Proc, \A q \in Proc \ {p} : op'[q] = op[q],
         Approved(p)' => Approved(p) /\ op'[p].proj = op[p].proj
  PROVE  QuotaInv'
<1> SUFFICES ASSUME ~clash', NEW o \in Owner
             PROVE  /\ IsFiniteSet(files'[o])
                    /\ Cardinality(files'[o]) + Cardinality(Places(o)')
                         <= MaxProjects + Cardinality(Proc) - 1
  BY DEF QuotaInv
<1>1. /\ IsFiniteSet(files[o])
      /\ Cardinality(files[o]) + Cardinality(Places(o)) <= MaxProjects + Cardinality(Proc) - 1
  BY DEF QuotaInv
<1>2. files'[o] \in SUBSET files[o]
  OBVIOUS
<1>3. IsFiniteSet(files'[o]) /\ Cardinality(files'[o]) <= Cardinality(files[o])
  BY <1>1, <1>2, FS_Subset
<1>4. Places(o)' \in SUBSET Places(o)
  <2> SUFFICES ASSUME NEW q \in Proc, Approved(q)', OwnerOf[op'[q].proj] = o
               PROVE  Approved(q) /\ OwnerOf[op[q].proj] = o
    BY DEF Places
  <2>1. CASE q = p
    BY <2>1
  <2>2. CASE q # p
    BY <2>2 DEF Approved
  <2> QED
    BY <2>1, <2>2
<1>5. Cardinality(Places(o)') <= Cardinality(Places(o))
  BY <1>4, PlacesAreFinite, FS_Subset
<1>6. /\ Cardinality(files[o]) \in Nat /\ Cardinality(files'[o]) \in Nat
      /\ Cardinality(Places(o)) \in Nat /\ Cardinality(Places(o)') \in Nat
      /\ Cardinality(Proc) \in Nat /\ MaxProjects \in Nat
  BY <1>1, <1>3, PlacesAreFinite, NextPlacesAreFinite, ProcAssumption, FS_CardinalityType
     DEF RegistryAssumption
<1> QED
  BY <1>1, <1>3, <1>5, <1>6

\* The check finds fewer records than the limit, and everybody else may be on
\* the way to save one.
LEMMA CheckQuotaQuota ==
  ASSUME IInv, QuotaInv, RegistryAssumption, NEW p \in Proc, CheckQuota(p)
  PROVE  QuotaInv'
<1>1. op[p].at = "count" /\ UNCHANGED <<lockVars, fileVars>>
  BY DEF CheckQuota
<1>2. CASE Ends(p)
  <2>1. op'[p] = Idle /\ \A q \in Proc \ {p} : op'[q] = op[q]
    BY <1>2, EndsShape DEF IInv
  <2>2. ~Approved(p)'
    BY <2>1 DEF Approved, Idle
  <2> QED
    BY <1>1, <2>1, <2>2, NothingApproved DEF lockVars, fileVars
<1>3. CASE WithinQuota(p) /\ Moves(p, "record")
  <2>1. op[p].proj \in Project /\ OwnerOf[op[p].proj] \in Owner
    <3>1. op[p].kind # "none"
      BY <1>1 DEF IInv, ProcInv, Engaged
    <3> QED
      BY <3>1, ProjectOf
  <2>2. PICK u \in Owner : u = OwnerOf[op[p].proj]
    BY <2>1
  <2>3. op'[p].proj = op[p].proj /\ \A q \in Proc \ {p} : op'[q] = op[q]
    BY <1>3, MovesShape DEF IInv, Stage, Locked
  <2>4. Cardinality(files[u]) < MaxProjects
    BY <1>3, <2>2 DEF WithinQuota, Records
  <2> SUFFICES ASSUME ~clash', NEW o \in Owner
               PROVE  /\ IsFiniteSet(files'[o])
                      /\ Cardinality(files'[o]) + Cardinality(Places(o)')
                           <= MaxProjects + Cardinality(Proc) - 1
    BY DEF QuotaInv
  <2>5. /\ IsFiniteSet(files[o]) /\ files' = files
        /\ Cardinality(files[o]) + Cardinality(Places(o)) <= MaxProjects + Cardinality(Proc) - 1
    BY <1>1 DEF QuotaInv, lockVars, fileVars
  <2>6. CASE o = u
    <3>1. Cardinality(Places(o)') <= Cardinality(Proc) /\ Cardinality(Places(o)') \in Nat
      BY NextPlacesAreFinite
    <3>2. Cardinality(files[o]) \in Nat /\ Cardinality(Proc) \in Nat /\ MaxProjects \in Nat
      BY <2>5, ProcAssumption, FS_CardinalityType DEF RegistryAssumption
    <3> QED
      BY <2>4, <2>5, <2>6, <3>1, <3>2
  <2>7. CASE o # u
    <3>1. Places(o)' = Places(o)
      <4>1. ~(OwnerOf[op[p].proj] = o) /\ ~(OwnerOf[op'[p].proj] = o)
        BY <2>2, <2>3, <2>7
      <4> QED
        BY <2>3, <4>1 DEF Places, Approved
    <3> QED
      BY <2>5, <3>1
  <2> QED
    BY <2>6, <2>7
<1> QED
  BY <1>2, <1>3 DEF CheckQuota

\* A save of a record uses the place of its process.
LEMMA SavesQuota ==
  ASSUME IInv, QuotaInv, RegistryAssumption, NEW p \in Proc, Saves(p)
  PROVE  QuotaInv'
<1>1. /\ op[p].step = "save" /\ op[p].at \in Locked /\ op[p].proj \in Project
      /\ op'[p].proj = op[p].proj /\ op'[p].at = op[p].at /\ op'[p].step = "leave"
      /\ clash' = clash /\ \A q \in Proc \ {p} : op'[q] = op[q]
  BY SavesShape
<1>2. PICK x \in Project : x = op[p].proj
  BY <1>1
<1>3. PICK u \in Owner : u = OwnerOf[x]
  BY <1>2 DEF RegistryAssumption
<1>4. ~Approved(p)'
  BY <1>1 DEF Approved
<1>5. files \in [Owner -> SUBSET Project]
  BY DEF IInv, Typed
<1>6. CASE op[p].at \in {"index", "unindex"}
  <2>1. files' = files
    BY <1>6 DEF Saves, SavesRecords, SavesIndex
  <2> QED
    BY <1>1, <1>4, <2>1, NothingApproved
<1>7. ASSUME op[p].at \in {"record", "unrecord"}, ~clash
      PROVE  /\ op[p].read = files[u]
             /\ files' = IF Written(p) = files[u] THEN files ELSE [files EXCEPT ![u] = Written(p)]
  <2>1. op[p].read = files[u]
    BY <1>1, <1>2, <1>3, <1>7 DEF IInv, ProcInv, ReadIsFresh, OnFile, Records
  <2> QED
    BY <1>2, <1>3, <1>7, <2>1 DEF Saves, SavesRecords, SavesIndex
<1>8. CASE op[p].at = "unrecord"
  <2>1. ASSUME ~clash PROVE \A o \in Owner : files'[o] \subseteq files[o]
    <3>1. Written(p) \subseteq files[u]
      BY <1>7, <1>8, <2>1 DEF Written, Changed
    <3> QED
      BY <1>5, <1>7, <1>8, <2>1, <3>1
  <2> QED
    BY <1>1, <1>4, <2>1, NothingApproved
<1>9. CASE op[p].at = "record"
  <2> SUFFICES ASSUME ~clash, NEW o \in Owner
               PROVE  /\ IsFiniteSet(files'[o])
                      /\ Cardinality(files'[o]) + Cardinality(Places(o)')
                           <= MaxProjects + Cardinality(Proc) - 1
    BY <1>1 DEF QuotaInv
  <2>1. /\ IsFiniteSet(files[o])
        /\ Cardinality(files[o]) + Cardinality(Places(o)) <= MaxProjects + Cardinality(Proc) - 1
    BY DEF QuotaInv
  <2>2. Written(p) = files[u] \cup {x}
    BY <1>2, <1>7, <1>9 DEF Written, Changed
  <2>3. files'[u] = files[u] \cup {x} /\ \A v \in Owner \ {u} : files'[v] = files[v]
    BY <1>5, <1>7, <1>9, <2>2
  <2>4. Places(o)' = Places(o) \ {p}
    BY <1>1, <1>4 DEF Places, Approved
  <2>5. CASE o = u
    <3>1. p \in Places(o)
      BY <1>1, <1>2, <1>3, <1>9, <2>5 DEF Places, Approved
    <3>2. Cardinality(Places(o)') = Cardinality(Places(o)) - 1
      BY <2>4, <3>1, PlacesAreFinite, FS_RemoveElement
    <3>3. /\ IsFiniteSet(files'[o])
          /\ Cardinality(files'[o]) \in {Cardinality(files[o]), Cardinality(files[o]) + 1}
      <4>1. files'[o] = files[o] \cup {x}
        BY <2>3, <2>5
      <4>2. IsFiniteSet(files'[o])
        BY <2>1, <4>1, FS_AddElement
      <4>3. Cardinality(files'[o]) =
              IF x \in files[o] THEN Cardinality(files[o]) ELSE Cardinality(files[o]) + 1
        BY <2>1, <4>1, FS_AddElement
      <4> QED
        BY <4>2, <4>3
    <3>4. Cardinality(files[o]) \in Nat /\ Cardinality(Places(o)) \in Nat
          /\ Cardinality(Proc) \in Nat /\ MaxProjects \in Nat
      BY <2>1, PlacesAreFinite, ProcAssumption, FS_CardinalityType DEF RegistryAssumption
    <3> QED
      BY <2>1, <3>2, <3>3, <3>4
  <2>6. CASE o # u
    <3>1. p \notin Places(o)
      BY <1>2, <1>3, <2>6 DEF Places
    <3>2. Places(o)' = Places(o) /\ files'[o] = files[o]
      BY <2>3, <2>4, <2>6, <3>1
    <3> QED
      BY <2>1, <3>2
  <2> QED
    BY <2>5, <2>6
<1> QED
  BY <1>1, <1>6, <1>8, <1>9 DEF Locked

LEMMA NextQuota ==
  ASSUME IInv, QuotaInv, RegistryAssumption, [Next]_vars
  PROVE  QuotaInv'
<1>1. ASSUME NEW p \in Proc, NEW x \in Project,
             BeginCreate(p, x) \/ BeginDelete(p, x) \/ BeginGet(p, x)
      PROVE  QuotaInv'
  <2>1. files' = files /\ clash' = clash
    BY <1>1 DEF BeginCreate, BeginDelete, BeginGet, fileVars, lockVars
  <2>2. \A q \in Proc \ {p} : op'[q] = op[q]
    BY <1>1 DEF BeginCreate, BeginDelete, BeginGet, IInv, Typed
  <2>3. op'[p].at \in {"count", "unrecord", "lookup"}
    <3>1. op \in [Proc -> Call]
      BY DEF IInv, Typed
    <3>2. CASE BeginCreate(p, x)
      BY <3>1, <3>2 DEF BeginCreate, Idle
    <3>3. CASE BeginDelete(p, x)
      BY <3>1, <3>3 DEF BeginDelete, Idle
    <3>4. CASE BeginGet(p, x)
      BY <3>1, <3>4 DEF BeginGet, Idle
    <3> QED
      BY <1>1, <3>2, <3>3, <3>4
  <2> QED
    BY <2>1, <2>2, <2>3, NothingApproved DEF Approved
<1>2. ASSUME NEW p \in Proc, Ends(p), UNCHANGED files, clash => clash'
      PROVE  QuotaInv'
  <2>1. op'[p] = Idle /\ \A q \in Proc \ {p} : op'[q] = op[q]
    BY <1>2, EndsShape DEF IInv
  <2>2. ~Approved(p)'
    BY <2>1 DEF Approved, Idle
  <2> QED
    BY <1>2, <2>1, <2>2, NothingApproved
<1>3. ASSUME NEW p \in Proc, NEW a \in Stage \ {"record"}, Moves(p, a),
             UNCHANGED files, clash => clash'
      PROVE  QuotaInv'
  <2>1. op'[p].at = a /\ \A q \in Proc \ {p} : op'[q] = op[q]
    BY <1>3, MovesShape DEF IInv
  <2> QED
    BY <1>3, <2>1, NothingApproved DEF Approved
<1>4. ASSUME NEW p \in Proc, NEW a \in Stage \ {"record"},
             op' = [op EXCEPT ![p].at = a, ![p].sure = StillSure(p)],
             UNCHANGED files, clash => clash'
      PROVE  QuotaInv'
  <2>1. op'[p].at = a /\ \A q \in Proc \ {p} : op'[q] = op[q]
    BY <1>4, LookShape DEF IInv
  <2> QED
    BY <1>4, <2>1, NothingApproved DEF Approved
<1>5. ASSUME NEW p \in Proc, Acquired(p) \/ AcquireThrows(p) PROVE QuotaInv'
  BY <1>2, <1>3, <1>5 DEF Acquired, AcquireThrows, fileVars, lockVars, Stage, Locked
<1>6. ASSUME NEW p \in Proc, LooksUp(p) \/ ReadsRecord(p) \/ Scans(p) \/ ReturnsNothing(p)
      PROVE  QuotaInv'
  <2>1. UNCHANGED files /\ clash' = clash
    BY <1>6 DEF LooksUp, ReadsRecord, Scans, ReturnsNothing, fileVars, lockVars
  <2>2. \/ Ends(p)
        \/ Moves(p, "index")
        \/ \E a \in {"read", "scan", "idle"} :
             op' = [op EXCEPT ![p].at = a, ![p].sure = StillSure(p)]
    BY <1>6 DEF LooksUp, ReadsRecord, Scans, ReturnsNothing, AfterLookup
  <2> QED
    BY <1>2, <1>3, <1>4, <2>1, <2>2 DEF Stage, Locked
<1>7. ASSUME NEW p \in Proc, AsksForLock(p) PROVE QuotaInv'
  <2>1. /\ op[p].step = "ask" /\ files' = files /\ clash' = clash
        /\ op'[p].proj = op[p].proj /\ op'[p].at = op[p].at
        /\ \A q \in Proc \ {p} : op'[q] = op[q]
    BY <1>7, StepsShape DEF AsksForLock, Wants, fileVars, IInv, Step
  <2> QED
    BY <2>1, NothingApproved DEF Approved
<1>8. ASSUME NEW p \in Proc, AttemptsLock(p) PROVE QuotaInv'
  <2>1. files' = files /\ op' = op /\ (clash => clash')
    BY <1>8, AttemptsShape DEF AttemptsLock, fileVars, IInv
  <2> QED
    BY <2>1, NothingApproved DEF Approved
<1>9. ASSUME NEW p \in Proc, LockRefused(p) \/ Crash(p) PROVE QuotaInv'
  BY <1>2, <1>9 DEF LockRefused, Crash, GivesUp, Dies, fileVars
<1>10. ASSUME NEW p \in Proc, LeavesLock(p) PROVE QuotaInv'
  <2>1. UNCHANGED files /\ clash' = clash
    BY <1>10 DEF LeavesLock, Leaves, fileVars
  <2>2. Ends(p) \/ \E a \in {"index", "unindex", "acquire"} : Moves(p, a)
    BY <1>10 DEF LeavesLock
  <2> QED
    BY <1>2, <1>3, <2>1, <2>2 DEF Stage, Locked
<1>11. ASSUME NEW p \in Proc, Loads(p) PROVE QuotaInv'
  <2>1. /\ files' = files /\ clash' = clash
        /\ op[p].step = "load" /\ op' = [op EXCEPT ![p].step = "save", ![p].read = OnFile(p)]
    BY <1>11 DEF Loads, fileVars, lockVars
  <2>2. /\ op'[p].at = op[p].at /\ op'[p].proj = op[p].proj
        /\ \A q \in Proc \ {p} : op'[q] = op[q]
    BY <2>1 DEF IInv, Typed, Call
  <2> QED
    BY <2>1, <2>2, NothingApproved DEF Approved
<1>12. CASE UNCHANGED vars \/ \E l \in Lock : TimePasses(l)
  <2>1. files' = files /\ op' = op /\ clash' = clash
    BY <1>12 DEF vars, lockVars, fileVars, TimePasses, Ages
  <2>2. PICK p \in Proc : TRUE
    BY ProcAssumption
  <2> QED
    BY <2>1, <2>2, NothingApproved DEF Approved
<1> QED
  BY <1>1, <1>5, <1>6, <1>7, <1>8, <1>9, <1>10, <1>11, <1>12, CheckQuotaQuota, SavesQuota
     DEF Next, ProcStep

(***************************************************************************)
(* The quota of an owner, checked outside the lock, is exceeded by fewer   *)
(* projects than there are processes: one process alone never exceeds it.  *)
(***************************************************************************)
THEOREM QuotaIsNearlyKept == Spec => []QuotaNearlyHolds
<1>1. Init => QuotaInv
  <2> SUFFICES ASSUME Init, NEW o \in Owner
               PROVE  /\ IsFiniteSet(files[o])
                      /\ Cardinality(files[o]) + Cardinality(Places(o))
                           <= MaxProjects + Cardinality(Proc) - 1
    BY DEF QuotaInv
  <2>1. files[o] = {} /\ Places(o) = {}
    BY DEF Init, Places, Approved, Idle
  <2>2. Cardinality(Proc) \in Nat /\ Cardinality(Proc) # 0 /\ MaxProjects \in Nat
    BY ProcAssumption, RegistryAssumption, FS_CardinalityType, FS_EmptySet
       DEF RegistryAssumption
  <2>3. Cardinality({}) = 0 /\ IsFiniteSet({})
    BY FS_EmptySet
  <2> QED
    BY <2>1, <2>2, <2>3
<1>2. IInv /\ QuotaInv /\ [Next]_vars => QuotaInv'
  BY NextQuota, RegistryAssumption
<1>3. QuotaInv => QuotaNearlyHolds
  <2> SUFFICES ASSUME QuotaInv, ~clash, NEW o \in Owner
               PROVE  Cardinality(files[o]) <= MaxProjects + Cardinality(Proc) - 1
    BY DEF QuotaNearlyHolds
  <2>1. /\ IsFiniteSet(files[o])
        /\ Cardinality(files[o]) + Cardinality(Places(o)) <= MaxProjects + Cardinality(Proc) - 1
    BY DEF QuotaInv
  <2>2. Cardinality(files[o]) \in Nat /\ Cardinality(Places(o)) \in Nat
        /\ Cardinality(Proc) \in Nat /\ MaxProjects \in Nat
    BY <2>1, PlacesAreFinite, ProcAssumption, RegistryAssumption, FS_CardinalityType
       DEF RegistryAssumption
  <2> QED
    BY <2>1, <2>2
<1> QED
  BY <1>1, <1>2, <1>3, Invariance, PTL DEF Spec
=============================================================================
