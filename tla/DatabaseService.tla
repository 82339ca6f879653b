--------------------------- MODULE DatabaseService ---------------------------
(***************************************************************************)
(* The database of one project, sandbox/database-service.js: the backend's *)
(* endpoint is probed, the service brought up or torn down again, and its  *)
(* schema migrated.  A command that is killed for its time may have done   *)
(* its work all the same.                                                  *)
(***************************************************************************)
EXTENDS Naturals, FiniteSets

CONSTANTS
  Database,  \* a database per call of provision()
  MaxSchema  \* bound: versions of the schema

ASSUME DatabaseAssumption == MaxSchema \in Nat

VARIABLES
  server,  \* what runs in the sandbox
  record,  \* the record the call has made of it
  tornDown,\* the result's tornDown
  ignored, \* auxiliary: its teardown failed, and nobody was told
  schema,  \* version that the server has
  version, \* schemaVersion of the record
  behind   \* auxiliary: a migration was reported failed that may have worked

databaseVars == <<server, record, tornDown, ignored, schema, version, behind>>

DatabaseInit ==
  /\ server = [d \in Database |-> "none"] /\ record = [d \in Database |-> "none"]
  /\ tornDown = {} /\ ignored = {} /\ behind = {}
  /\ schema = [d \in Database |-> 0] /\ version = [d \in Database |-> 0]

DatabaseTypeOK ==
  /\ server \in [Database -> {"none", "up", "down"}]
  /\ record \in [Database -> {"none", "provisioning", "failing", "ready", "migrating",
                              "torn-down"}]
  /\ {schema, version} \subseteq [Database -> 0..MaxSchema]
  /\ tornDown \cup ignored \cup behind \subseteq Database

\* The endpoint answered (or was not asked), and the bring-up command starts.
StartProvision(d) ==
  /\ record[d] = "none" /\ record' = [record EXCEPT ![d] = "provisioning"]
  /\ UNCHANGED <<server, tornDown, ignored, schema, version, behind>>

ProvisionReady(d) ==
  /\ record[d] = "provisioning" /\ record' = [record EXCEPT ![d] = "ready"]
  /\ server' = [server EXCEPT ![d] = "up"]
  /\ UNCHANGED <<tornDown, ignored, schema, version, behind>>

\* It failed, was refused, or took too long, and may be up all the same.
\* (Mutant: a bring-up that took too long is reported without a teardown.)
FailWithoutTeardown(d) == record' = [record EXCEPT ![d] = "torn-down"]
FailProvision(d) == record' = [record EXCEPT ![d] = "failing"]
ProvisionFails(d) ==
  /\ record[d] = "provisioning" /\ FailProvision(d)
  /\ \E s \in {"none", "up"} : server' = [server EXCEPT ![d] = s]
  /\ UNCHANGED <<tornDown, ignored, schema, version, behind>>

\* failResult(): the boundary's own teardown passes over its failure.
Teardown(d) ==
  /\ record[d] = "failing" /\ record' = [record EXCEPT ![d] = "torn-down"]
  /\ tornDown' = tornDown \cup {d}
  /\ \/ server' = [server EXCEPT ![d] = "down"] /\ UNCHANGED ignored
     \/ ignored' = ignored \cup {d} /\ UNCHANGED server
  /\ UNCHANGED <<schema, version, behind>>

-----------------------------------------------------------------------------
\* migrate(): the guard is asked about the command for the next version.
StartMigration(d) ==
  /\ record[d] = "ready" /\ schema[d] < MaxSchema
  /\ record' = [record EXCEPT ![d] = "migrating"]
  /\ UNCHANGED <<server, tornDown, ignored, schema, version, behind>>

MigrationApplied(d) ==
  /\ record[d] = "migrating" /\ record' = [record EXCEPT ![d] = "ready"]
  /\ schema' = [schema EXCEPT ![d] = @ + 1] /\ version' = [version EXCEPT ![d] = schema[d] + 1]
  /\ behind' = behind \ {d}
  /\ UNCHANGED <<server, tornDown, ignored>>

\* Refused, denied, failed: the record from before.  After a run that took
\* too long the same record is returned, whatever the run has done.
MigrationFails(d) ==
  /\ record[d] = "migrating" /\ record' = [record EXCEPT ![d] = "ready"]
  /\ \/ UNCHANGED <<schema, behind>>
     \/ schema' = [schema EXCEPT ![d] = @ + 1] /\ behind' = behind \cup {d}
  /\ UNCHANGED <<server, tornDown, ignored, version>>

DatabaseNext ==
  \E d \in Database :
    \/ StartProvision(d) \/ ProvisionReady(d) \/ ProvisionFails(d) \/ Teardown(d)
    \/ StartMigration(d) \/ MigrationApplied(d) \/ MigrationFails(d)

-----------------------------------------------------------------------------
\* No database runs that its record calls torn down, unless the teardown
\* failed; and a record is behind its schema only after a migration that was
\* given up for its time.
DatabaseIsKnown ==
  \A d \in Database :
    /\ record[d] = "torn-down" /\ d \notin ignored => server[d] # "up"
    /\ record[d] \in {"ready", "migrating"} => server[d] = "up"
    /\ d \in behind \/ version[d] = schema[d]
=============================================================================
