---------------------------- MODULE AccountDeletion ----------------------------
(***************************************************************************)
(* deleteAccount of ops/retention.js: the projects that were registered    *)
(* when it began are deleted one after another, each with an await on its  *)
(* sandbox, then the stores of the account.  A removal may throw, which    *)
(* ends the deletion where it is; what a store returns is not looked at,   *)
(* and one that a deployment does not inject is skipped.  The user may     *)
(* call again, and may create projects and store things meanwhile.         *)
(***************************************************************************)
EXTENDS Sequences, SequencesExt, FiniteSets

CONSTANTS
  Owned,      \* projects of the account
  Deployments \* the stores of the account they inject, and requireAllCategories

ASSUME DeletionAssumption ==
  Deployments \subseteq [wired : SUBSET {"skills", "memory", "connectors"}, strict : BOOLEAN]

VARIABLES
  onRecord,  \* registered projects
  holdings,  \* project -> what is stored of it
  running,   \* its sandbox
  belongings, \* what the stores of the account hold
  toDelete,  \* projects still to delete, as listed
  deletion,  \* rest, sandbox (the await), stores, confirmed or thrown
  wired,     \* stores that are injected
  strict,    \* every store has to be injected
  newcomers, \* auxiliary: projects created during the deletion
  failing    \* auxiliary: stores that a confirmed deletion has left as they were

accountDeletionVars ==
  <<onRecord, holdings, running, belongings, toDelete, deletion, wired, strict, newcomers,
    failing>>
deploymentVars == <<wired, strict>>

ProjectStore == {"files", "snapshots", "secrets"}
AccountStore == {"skills", "memory", "connectors"}

DeletionInit ==
  /\ onRecord = {} /\ holdings = [p \in Owned |-> {}] /\ running = {} /\ belongings = {}
  /\ toDelete = <<>> /\ deletion = "rest" /\ newcomers = {}
  /\ \E d \in Deployments : wired = d.wired /\ strict = d.strict
  /\ failing = {}

DeletionTypeOK ==
  /\ onRecord \cup running \cup newcomers \subseteq Owned
  /\ holdings \in [Owned -> SUBSET ProjectStore] /\ belongings \subseteq AccountStore
  /\ wired \cup failing \subseteq AccountStore /\ strict \in BOOLEAN
  /\ toDelete \in Seq(Owned) /\ deletion \in {"rest", "sandbox", "stores", "confirmed", "thrown"}

UnderWay == deletion \in {"sandbox", "stores"}

-----------------------------------------------------------------------------
RegisterOwned(p) ==
  /\ p \notin onRecord /\ holdings[p] = {} /\ onRecord' = onRecord \cup {p}
  /\ newcomers' = newcomers \cup (IF UnderWay THEN {p} ELSE {})
  /\ running' = running \cup {p}
  /\ deletion' = (IF UnderWay THEN deletion ELSE "rest") /\ failing' = {}
  /\ UNCHANGED <<holdings, belongings, toDelete, deploymentVars>>

\* put() of a secret, a snapshot or a persisted tree: of a registered project.
Put(p, k) ==
  /\ p \in onRecord /\ holdings' = [holdings EXCEPT ![p] = @ \cup {k}]
  /\ UNCHANGED <<onRecord, running, belongings, toDelete, deletion, newcomers, failing,
                 deploymentVars>>

PutOwn(k) ==
  /\ belongings' = belongings \cup {k}
  /\ deletion' = (IF UnderWay THEN deletion ELSE "rest") /\ failing' = {}
  /\ UNCHANGED <<onRecord, holdings, running, toDelete, newcomers, deploymentVars>>

DeleteAccount ==
  /\ ~UnderWay /\ toDelete' \in SetToSeqs(onRecord) /\ newcomers' = {}
  /\ deletion' = (IF onRecord = {} THEN "stores" ELSE "sandbox") /\ failing' = {}
  /\ UNCHANGED <<onRecord, holdings, running, belongings, deploymentVars>>

\* The order in which deleteProject() removes what there is.
\* (Mutant: the registry comes first.)
RegistryFirst == <<"registry", "files", "snapshots", "secrets">>
Removals == <<"files", "snapshots", "secrets", "registry">>

\* The sandbox is released, then the first n removals are done; when one
\* throws, so does the deletion.
DeleteOwned(n) ==
  /\ deletion = "sandbox"
  /\ LET p == Head(toDelete)
         done == {Removals[i] : i \in 1..n}
     IN /\ running' = running \ {p}
        /\ holdings' = [holdings EXCEPT ![p] = @ \ done]
        /\ onRecord' = IF "registry" \in done THEN onRecord \ {p} ELSE onRecord
  /\ IF n = Len(Removals)
     THEN /\ toDelete' = Tail(toDelete)
          /\ deletion' = IF Tail(toDelete) = <<>> THEN "stores" ELSE "sandbox"
     ELSE toDelete' = <<>> /\ deletion' = "thrown"
  /\ UNCHANGED <<belongings, newcomers, failing, deploymentVars>>

\* deleteCategory() of each store and then the root of all secrets, in one step
\* after the last await.  The first n of them return, and those in keep return
\* that they failed, which is recorded as deleted; the next one throws, as the
\* skills and the memory never do.
StoreOrder == <<"skills", "memory", "connectors", "secrets">>
Throws == {"connectors", "secrets"}

DeleteStores(n, keep) ==
  LET asked == {StoreOrder[i] : i \in 1..n} \cap wired
  IN /\ deletion = "stores" /\ keep \subseteq asked
     /\ belongings' = belongings \ (asked \ keep)
     /\ IF n = Len(StoreOrder)
        THEN /\ holdings' = [p \in Owned |-> holdings[p] \ {"secrets"}]
             /\ deletion' = IF strict /\ wired # AccountStore THEN "thrown" ELSE "confirmed"
        ELSE /\ StoreOrder[n + 1] \in (wired \cup {"secrets"}) \cap Throws
             /\ deletion' = "thrown" /\ UNCHANGED holdings
     /\ failing' = IF deletion' = "confirmed" THEN keep ELSE {}
     /\ UNCHANGED <<onRecord, running, toDelete, newcomers, deploymentVars>>

DeletionNext ==
  \/ DeleteAccount
  \/ \E p \in Owned : RegisterOwned(p) \/ \E k \in ProjectStore : Put(p, k)
  \/ \E k \in AccountStore : PutOwn(k)
  \/ \E n \in 0..Len(Removals) : DeleteOwned(n)
  \/ \E n \in 0..Len(StoreOrder), keep \in SUBSET AccountStore : DeleteStores(n, keep)

-----------------------------------------------------------------------------
\* What is stored of a project, or runs for it, is stored of a registered one,
\* so that a deletion that threw can be called again and finds it.  A confirmed
\* deletion has left nothing of the account, but for the projects created while
\* it ran and for the stores that are not injected or returned {ok: false}; a
\* strict one has asked every store.  The answer and the audit record call a
\* store of the second kind deleted (retention.js:301-302), although the record
\* is said never to overstate completeness (lines 201, 266), and lines 27-28
\* say that "no owned data is left behind".
DeletionCanBeRetried ==
  /\ \A p \in Owned : holdings[p] # {} \/ p \in running => p \in onRecord
  /\ deletion = "confirmed" =>
       /\ onRecord \subseteq newcomers
       /\ belongings \subseteq failing \cup (AccountStore \ wired)
       /\ strict => wired = AccountStore
=============================================================================
