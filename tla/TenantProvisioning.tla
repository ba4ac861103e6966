-------------------------- MODULE TenantProvisioning --------------------------
(***************************************************************************)
(* How a tenant comes to exist.  POST /platform/tenants runs a saga over   *)
(* the registry (public.tenants), a PostgreSQL schema, an Alembic          *)
(* subprocess and the identity provider; when a step fails it drops the    *)
(* schema and soft-deletes the row.  A Request is one such call, in a      *)
(* session of its own.  Meanwhile platform administrators suspend and      *)
(* reactivate tenants, deploys migrate the schemas of all tenants, and API *)
(* processes may die.                                                      *)
(***************************************************************************)
EXTENDS Naturals, FiniteSets

CONSTANTS
  Slug,       \* subdomains; slug, schema_name and tenant_id name the same row
  NoSlug,
  Request,
  Deploy,     \* runs of `alembic upgrade head` without ALEMBIC_TARGET_SCHEMA
  MaxCrash    \* bound: requests that die with their process

ASSUME SlugAssumption == NoSlug \notin Slug

ASSUME BoundAssumption == MaxCrash \in Nat

VARIABLES
  row,        \* tenants.status, "none" without a row; slug is UNIQUE
  deleted,    \* slugs whose row has deleted_at
  schema,     \* what the tenant's schema holds
  admins,     \* slugs whose administrator exists in the identity provider
  at, for,    \* the step and the slug of each request
  listed,     \* slugs a deploy has read and not reached yet
  finished,   \* history: slugs whose provisioning returned
  crashes

vars == <<row, deleted, schema, admins, at, for, listed, finished, crashes>>

RowStatus == {"none", "PROVISIONING", "ACTIVE", "SUSPENDED"}
\* "deployed": made by a deploy that found no schema
Contents  == {"none", "empty", "migrated", "seeded", "deployed"}

\* Inside the try block: a failure is compensated.
Guarded      == {"schema", "migrate", "hung", "seed", "idp", "activate"}
Compensating == {"drop", "retire"}
Owning       == Guarded \union Compensating
\* "unsure": answered with an error, although its row was committed
Ended == {"refused", "created", "failed", "error", "unsure", "broken", "lost"}
Steps == {"idle", "insert"} \union Owning \union Ended

Init ==
  /\ row = [s \in Slug |-> "none"]
  /\ deleted = {}
  /\ schema = [s \in Slug |-> "none"]
  /\ admins = {}
  /\ at = [r \in Request |-> "idle"]
  /\ for = [r \in Request |-> NoSlug]
  /\ listed = [d \in Deploy |-> {}]
  /\ finished = {}
  /\ crashes = 0

Go(r, step) == at' = [at EXCEPT ![r] = step]

-----------------------------------------------------------------------------
(* One request: create_tenant and provision_tenant.                        *)

\* is_slug_available: any row blocks the slug, a deleted one too.
Ask(r, s) ==
  /\ at[r] = "idle"
  /\ for' = [for EXCEPT ![r] = s]
  /\ Go(r, IF row[s] = "none" THEN "insert" ELSE "refused")
  /\ UNCHANGED <<row, deleted, schema, admins, listed, finished, crashes>>

\* (faulty variant: the INSERT is inside the try block)
Insert_InTry(r) ==
  /\ at[r] = "insert"
  /\ \/ /\ row[for[r]] = "none"
        /\ row' = [row EXCEPT ![for[r]] = "PROVISIONING"]
        /\ Go(r, "schema")
     \/ /\ row[for[r]] # "none"
        /\ Go(r, "drop")
        /\ UNCHANGED row
  /\ UNCHANGED <<deleted, schema, admins, for, listed, finished, crashes>>

\* Step 1, before the try block: nothing compensates a second row of the slug,
\* which is an IntegrityError, nor a commit that is answered with an error.
Insert(r) ==
  /\ at[r] = "insert"
  /\ \/ /\ row[for[r]] = "none"
        /\ row' = [row EXCEPT ![for[r]] = "PROVISIONING"]
        /\ Go(r, "schema") \/ Go(r, "unsure")
     \/ /\ Go(r, "error")
        /\ UNCHANGED row
  /\ UNCHANGED <<deleted, schema, admins, for, listed, finished, crashes>>

Fill(r, contents) == schema' = [schema EXCEPT ![for[r]] = contents]

\* Step 2, CREATE SCHEMA IF NOT EXISTS on an autocommit connection
CreateSchema(r) ==
  /\ at[r] = "schema"
  /\ Fill(r, IF schema[for[r]] = "none" THEN "empty" ELSE schema[for[r]])
  /\ Go(r, "migrate")
  /\ UNCHANGED <<row, deleted, admins, for, listed, finished, crashes>>

\* Step 3, the Alembic subprocess; it may also hang
Migrate(r) ==
  /\ at[r] = "migrate"
  /\ Fill(r, "migrated")
  /\ Go(r, "seed")
  /\ UNCHANGED <<row, deleted, admins, for, listed, finished, crashes>>

Hang(r) ==
  /\ at[r] = "migrate"
  /\ Go(r, "hung")
  /\ UNCHANGED <<row, deleted, schema, admins, for, listed, finished, crashes>>

\* (faulty variant: communicate() without wait_for)
TimeOut_WaitsForExit(r) ==
  /\ at[r] = "hung"
  /\ UNCHANGED vars

\* _ALEMBIC_TIMEOUT_SECONDS: the subprocess is killed
TimeOut(r) ==
  /\ at[r] = "hung"
  /\ Go(r, "drop")
  /\ UNCHANGED <<row, deleted, schema, admins, for, listed, finished, crashes>>

\* Step 4 is best effort: the tenant may go on without its defaults.
Seed(r) ==
  /\ at[r] = "seed"
  /\ \E c \in {"migrated", "seeded"} : Fill(r, c)
  /\ Go(r, "idp")
  /\ UNCHANGED <<row, deleted, admins, for, listed, finished, crashes>>

\* Step 5, the user in the identity provider; 5b never fails
CreateAdmin(r) ==
  /\ at[r] = "idp"
  /\ admins' = admins \union {for[r]}
  /\ Go(r, "activate")
  /\ UNCHANGED <<row, deleted, schema, for, listed, finished, crashes>>

\* Step 6; the commit may also happen and be answered with an error
Activate(r) ==
  /\ at[r] = "activate"
  /\ row' = [row EXCEPT ![for[r]] = "ACTIVE"]
  /\ \/ Go(r, "created") /\ finished' = finished \union {for[r]}
     \/ Go(r, "drop") /\ UNCHANGED finished
  /\ UNCHANGED <<deleted, schema, admins, for, listed, crashes>>

\* (faulty variant: CREATE SCHEMA is outside the try block as well)
Fails_SchemaUnguarded(r) ==
  /\ at[r] \in Guarded \ {"hung"}
  /\ Go(r, IF at[r] = "schema" THEN "error" ELSE "drop")
  /\ UNCHANGED <<row, deleted, schema, admins, for, listed, finished, crashes>>

\* A step of the try block raises.
Fails(r) ==
  /\ at[r] \in Guarded \ {"hung"}
  /\ Go(r, "drop")
  /\ UNCHANGED <<row, deleted, schema, admins, for, listed, finished, crashes>>

Retire(s) ==
  /\ row' = [row EXCEPT ![s] = "PROVISIONING"]
  /\ deleted' = deleted \union {s}

\* (faulty variant: the row is retired before the schema is dropped)
Rollback_RowFirst(r) ==
  /\ \/ /\ at[r] = "drop"
        /\ Retire(for[r])
        /\ Go(r, "retire")
        /\ UNCHANGED schema
     \/ /\ at[r] = "retire"
        /\ Fill(r, "none")
        /\ Go(r, "failed")
        /\ UNCHANGED <<row, deleted>>
  /\ UNCHANGED <<admins, for, listed, finished, crashes>>

\* _rollback_provisioning: DROP SCHEMA CASCADE on a connection of its own, then
\* the row is soft-deleted.  The user in the identity provider stays.
Rollback(r) ==
  /\ \/ /\ at[r] = "drop"
        /\ Fill(r, "none")
        /\ Go(r, "retire")
        /\ UNCHANGED <<row, deleted>>
     \/ /\ at[r] = "retire"
        /\ Retire(for[r])
        /\ Go(r, "failed")
        /\ UNCHANGED schema
  /\ UNCHANGED <<admins, for, listed, finished, crashes>>

\* An exception in the rollback replaces the one it was handling; its last
\* commit may have been made.
RollbackBreaks(r) ==
  /\ at[r] \in Compensating
  /\ Go(r, "broken")
  /\ \/ at[r] = "retire" /\ Retire(for[r])
     \/ UNCHANGED <<row, deleted>>
  /\ UNCHANGED <<schema, admins, for, listed, finished, crashes>>

\* The API process dies; nothing resumes or cleans up the saga.
Crash(r) ==
  /\ at[r] \in {"insert"} \union Owning
  /\ crashes < MaxCrash
  /\ crashes' = crashes + 1
  /\ Go(r, "lost")
  /\ UNCHANGED <<row, deleted, schema, admins, for, listed, finished>>

Advance(r) ==
  \/ Insert(r) \/ CreateSchema(r) \/ Migrate(r) \/ TimeOut(r) \/ Seed(r)
  \/ CreateAdmin(r) \/ Activate(r) \/ Fails(r) \/ Rollback(r)
  \/ RollbackBreaks(r)

-----------------------------------------------------------------------------
(* Platform administrators: both endpoints write the status, whatever it   *)
(* was, by tenant_id.                                                      *)

Write(s, status) ==
  /\ row[s] # "none"
  /\ row' = [row EXCEPT ![s] = status]
  /\ UNCHANGED <<deleted, schema, admins, at, for, listed, finished, crashes>>

\* (faulty variant: a status outside the documented set)
Suspend_Inactive(s) == Write(s, "INACTIVE")

Suspend(s) == Write(s, "SUSPENDED")
Reactivate(s) == Write(s, "ACTIVE")

-----------------------------------------------------------------------------
(* Deploys: alembic/env.py in the mode that migrates every tenant.         *)

Migratable(s) == row[s] \in {"ACTIVE", "PROVISIONING"}

\* (faulty variant: the query without deleted_at IS NULL)
List_Deleted(d) ==
  /\ listed[d] = {}
  /\ listed' = [listed EXCEPT ![d] = {s \in Slug : Migratable(s)}]
  /\ UNCHANGED <<row, deleted, schema, admins, at, for, finished, crashes>>

\* _list_active_tenant_schemas, on a connection of its own
List(d) ==
  /\ listed[d] = {}
  /\ listed' = [listed EXCEPT ![d] = {s \in Slug : Migratable(s) /\ s \notin deleted}]
  /\ UNCHANGED <<row, deleted, schema, admins, at, for, finished, crashes>>

\* What CREATE SCHEMA IF NOT EXISTS and the missing migrations make of a schema
Upgraded(contents) ==
  CASE contents = "none"  -> "deployed"
    [] contents = "empty" -> "migrated"
    [] OTHER              -> contents

\* do_run_migrations: one commit for each schema, in any order of the names;
\* nothing looks at the row again.
Upgrade(d, s) ==
  /\ s \in listed[d]
  /\ schema' = [schema EXCEPT ![s] = Upgraded(@)]
  /\ listed' = [listed EXCEPT ![d] = @ \ {s}]
  /\ UNCHANGED <<row, deleted, admins, at, for, finished, crashes>>

\* A migration that raises ends the deploy, and so does whoever kills it.
StopDeploy(d) ==
  /\ listed[d] # {}
  /\ listed' = [listed EXCEPT ![d] = {}]
  /\ UNCHANGED <<row, deleted, schema, admins, at, for, finished, crashes>>

-----------------------------------------------------------------------------
Next ==
  \/ \E r \in Request : Advance(r) \/ Hang(r) \/ Crash(r)
  \/ \E r \in Request, s \in Slug : Ask(r, s)
  \/ \E s \in Slug : Suspend(s) \/ Reactivate(s)
  \/ \E d \in Deploy : List(d) \/ StopDeploy(d)
  \/ \E d \in Deploy, s \in Slug : Upgrade(d, s)

Spec == Init /\ [][Next]_vars

\* Every call a request awaits ends: the identity provider answers (httpx has a
\* timeout of 10 s), and so does the database, DROP SCHEMA included.  That is an
\* assumption, since no statement or lock timeout is set: a deploy, or the
\* backend of an Alembic that was killed, must not keep its locks for ever.
\* Only Alembic may hang; deploys need not go on.
FairSpec == Spec /\ \A r \in Request : WF_vars(Advance(r))

-----------------------------------------------------------------------------
TypeOK ==
  /\ row \in [Slug -> RowStatus]
  /\ deleted \subseteq Slug
  /\ schema \in [Slug -> Contents]
  /\ admins \subseteq Slug
  /\ at \in [Request -> Steps]
  /\ for \in [Request -> Slug \union {NoSlug}]
  /\ listed \in [Deploy -> SUBSET Slug]
  /\ finished \subseteq Slug
  /\ crashes \in 0..MaxCrash

\* A tenant whose provisioning returned keeps its row, its schema and its
\* administrator, whatever other requests for the slug do: only the request
\* that inserted the row may compensate.
FinishedKeepsSchema ==
  \A s \in finished : /\ row[s] \in {"ACTIVE", "SUSPENDED"}
                      /\ s \notin deleted
                      /\ schema[s] \in {"migrated", "seeded"}
                      /\ s \in admins

\* A soft-deleted tenant has no schema, not even when the process dies in the
\* middle of the rollback (test_provisioning_rollback.py), or it has one that a
\* deploy created anew after the rollback had dropped it.
DeletedLeavesNoSchema == \A s \in deleted : schema[s] \in {"none", "deployed"}

WorkedOn(s) == \E r \in Request : for[r] = s /\ at[r] \in Owning

\* A crash, an exception of the rollback or a lost answer to the INSERT's commit
Interrupted(s) ==
  \E r \in Request : for[r] = s /\ at[r] \in {"unsure", "broken", "lost"}

\* An unfinished tenant that no request works on any more is soft-deleted, or
\* its saga was interrupted: no failure of a step inside the try block leaves
\* one behind.
AbandonedOnlyByMishap ==
  \A s \in Slug \ (finished \union deleted) :
     row[s] # "none" /\ ~WorkedOn(s) => Interrupted(s)

\* Where a subdomain is in its life.  The status does not tell: suspend and
\* reactivate write it in every stage.
LifeStage(s) ==
  IF s \in finished THEN "serving"
  ELSE IF s \in deleted THEN "removed"
  ELSE IF row[s] = "none" THEN "free"
  ELSE IF WorkedOn(s) THEN "building"
  ELSE "abandoned"

LifeBuilt(s) ==
  CASE schema[s] = "none"     -> "nothing"
    [] schema[s] = "empty"    -> "part"
    [] schema[s] = "deployed" -> "deployed"
    [] OTHER                  -> "ready"

LifeDue == UNION {listed[d] : d \in Deploy}

Life == INSTANCE TenantLife WITH
  Subdomain <- Slug,
  stage     <- [s \in Slug |-> LifeStage(s)],
  built     <- [s \in Slug |-> LifeBuilt(s)],
  admin     <- admins,
  due       <- LifeDue

\* The saga and the deploys implement TenantLife: a subdomain is claimed once
\* and built and torn down by that request alone; after it nobody tears
\* anything down or adds an administrator, and deploys complete what they
\* listed, never a subdomain that was already removed when they listed it.
KeepsLife == Life!Spec

\* Every call of the endpoint ends, also when Alembic hangs.
SagaEnds == \A r \in Request : at[r] # "idle" ~> at[r] \in Ended
===============================================================================
