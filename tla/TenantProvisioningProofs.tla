---------------------- MODULE TenantProvisioningProofs ----------------------
(* The invariants of TenantProvisioning, for any slugs and any number of    *)
(* concurrent requests and deploys.                                         *)
EXTENDS TenantProvisioning, TLAPS

\* What a request knows of its slug: from the INSERT to the end of the saga or
\* of its rollback the row is its own, neither finished nor deleted.
RequestInv(r) ==
  /\ at[r] = "insert" \/ at[r] \in Owning => for[r] \in Slug
  /\ at[r] \in Owning => /\ row[for[r]] # "none"
                         /\ for[r] \notin deleted
                         /\ for[r] \notin finished
  /\ at[r] \in {"seed", "idp", "activate"} =>
       schema[for[r]] \in {"migrated", "seeded"}
  /\ at[r] = "activate" => for[r] \in admins
  /\ at[r] = "retire" => schema[for[r]] \in {"none", "deployed"}

\* UNIQUE(slug): a row is inserted once, so a slug has one owner.
OneOwner == \A r, q \in Request :
              at[r] \in Owning /\ at[q] \in Owning /\ for[r] = for[q] => r = q

SlugInv(s) ==
  /\ s \in finished => /\ row[s] # "none"
                       /\ s \notin deleted
                       /\ schema[s] \in {"migrated", "seeded"}
                       /\ s \in admins
                       /\ row[s] # "PROVISIONING"
  /\ s \in deleted => row[s] # "none" /\ schema[s] \in {"none", "deployed"}

\* AbandonedOnlyByMishap, a slug at a time
Left(s) == \/ s \in finished \/ s \in deleted \/ row[s] = "none"
           \/ WorkedOn(s) \/ Interrupted(s)

\* A deploy lists inserted rows.
ListedInv == \A d \in Deploy : \A s \in listed[d] : row[s] # "none"

SagaInv ==
  /\ TypeOK
  /\ \A r \in Request : RequestInv(r)
  /\ OneOwner
  /\ \A s \in Slug : SlugInv(s)
  /\ \A s \in Slug : Left(s)
  /\ ListedInv

-----------------------------------------------------------------------------
(* Requests.                                                                *)

LEMMA StepType == ASSUME SagaInv, [Next]_vars PROVE TypeOK'
<1> USE DEF TypeOK, RowStatus, Contents, Steps, Owning, Guarded, Compensating, Ended
<1>0. TypeOK
  BY DEF SagaInv
<1>1. CASE UNCHANGED vars
  BY <1>0, <1>1 DEF vars
<1>2. ASSUME NEW r \in Request, Advance(r) \/ Hang(r) \/ Crash(r)
      PROVE  TypeOK'
  <2>0. at[r] = "insert" \/ at[r] \in Owning => for[r] \in Slug
    BY DEF SagaInv, RequestInv
  <2>1. CASE Insert(r)
    BY <1>0, <2>0, <2>1 DEF Insert, Go
  <2>2. CASE CreateSchema(r)
    BY <1>0, <2>0, <2>2 DEF CreateSchema, Go, Fill
  <2>3. CASE Migrate(r)
    BY <1>0, <2>0, <2>3 DEF Migrate, Go, Fill
  <2>4. CASE TimeOut(r) \/ Hang(r) \/ Fails(r)
    BY <1>0, <2>4 DEF TimeOut, Hang, Fails, Go
  <2>5. CASE Seed(r)
    BY <1>0, <2>0, <2>5 DEF Seed, Go, Fill
  <2>6. CASE CreateAdmin(r)
    BY <1>0, <2>0, <2>6 DEF CreateAdmin, Go
  <2>7. CASE Activate(r)
    BY <1>0, <2>0, <2>7 DEF Activate, Go
  <2>8. CASE Rollback(r) \/ RollbackBreaks(r)
    BY <1>0, <2>0, <2>8 DEF Rollback, RollbackBreaks, Retire, Go, Fill
  <2>9. CASE Crash(r)
    BY <1>0, <2>9, BoundAssumption DEF Crash, Go
  <2>10. QED
    BY <1>2, <2>1, <2>2, <2>3, <2>4, <2>5, <2>6, <2>7, <2>8, <2>9 DEF Advance
<1>3. ASSUME NEW r \in Request, NEW s \in Slug, Ask(r, s) PROVE TypeOK'
  BY <1>0, <1>3 DEF Ask, Go
<1>4. ASSUME NEW s \in Slug, Suspend(s) \/ Reactivate(s) PROVE TypeOK'
  BY <1>0, <1>4 DEF Suspend, Reactivate, Write
<1>5. ASSUME NEW d \in Deploy, List(d) \/ StopDeploy(d) PROVE TypeOK'
  BY <1>0, <1>5 DEF List, StopDeploy
<1>6. ASSUME NEW d \in Deploy, NEW s \in Slug, Upgrade(d, s) PROVE TypeOK'
  <2>1. Upgraded(schema[s]) \in Contents
    BY <1>0 DEF Upgraded
  <2>2. QED
    BY <1>0, <1>6, <2>1 DEF Upgrade
<1>7. QED
  BY <1>1, <1>2, <1>3, <1>4, <1>5, <1>6 DEF Next

\* What every step of a request leaves alone.
LEMMA RequestFrame ==
  ASSUME SagaInv, NEW r \in Request, Advance(r) \/ Hang(r) \/ Crash(r)
  PROVE  /\ for' = for /\ listed' = listed
         /\ \A q \in Request \ {r} : at'[q] = at[q]
         /\ \A s \in Slug \ {for[r]} :
              /\ row'[s] = row[s] /\ schema'[s] = schema[s]
              /\ s \in deleted' <=> s \in deleted
              /\ s \in finished' <=> s \in finished
              /\ s \in admins' <=> s \in admins
         /\ for[r] \in Slug
<1>1. TypeOK /\ RequestInv(r)
  BY DEF SagaInv
<1>2. for[r] \in Slug
  BY <1>1 DEF RequestInv, Owning, Guarded, Compensating, Advance, Insert,
    CreateSchema, Migrate, TimeOut, Seed, CreateAdmin, Activate, Fails,
    Rollback, RollbackBreaks, Hang, Crash
<1>3. CASE Insert(r)
  BY <1>1, <1>2, <1>3 DEF Insert, Go, TypeOK
<1>4. CASE CreateSchema(r) \/ Migrate(r) \/ Seed(r) \/ Rollback(r) \/ RollbackBreaks(r)
  BY <1>1, <1>2, <1>4 DEF CreateSchema, Migrate, Seed, Rollback, RollbackBreaks, Retire,
    Go, Fill, TypeOK
<1>5. CASE CreateAdmin(r) \/ Activate(r)
  BY <1>1, <1>2, <1>5 DEF CreateAdmin, Activate, Go, TypeOK
<1>6. CASE TimeOut(r) \/ Fails(r) \/ Hang(r) \/ Crash(r)
  BY <1>1, <1>2, <1>6 DEF TimeOut, Fails, Hang, Crash, Go, TypeOK
<1>7. QED
  BY <1>3, <1>4, <1>5, <1>6 DEF Advance

\* A step of a request keeps what it knows, and leaves its row inserted.
LEMMA OwnStep ==
  ASSUME SagaInv, NEW r \in Request, Advance(r) \/ Hang(r) \/ Crash(r)
  PROVE  /\ RequestInv(r)'
         /\ SlugInv(for[r])'
         /\ at'[r] \in Owning => \/ at[r] \in Owning
                                 \/ at[r] = "insert" /\ row[for[r]] = "none"
         /\ row[for[r]] # "none" => row'[for[r]] # "none"
         /\ schema'[for[r]] = "deployed" => schema[for[r]] = "deployed"
         /\ at[r] \in Owning \/ \/ deleted' = deleted /\ finished' = finished
                                   /\ schema' = schema /\ admins' = admins
<1> DEFINE s == for[r]
<1> USE DEF TypeOK, Steps, Owning, Guarded, Compensating, Ended
<1>1. TypeOK /\ RequestInv(r) /\ s \in Slug /\ SlugInv(s) /\ for' = for
  BY RequestFrame DEF SagaInv
<1>2. CASE Insert(r)
  BY <1>1, <1>2 DEF Insert, Go, RequestInv, SlugInv
<1>3. CASE CreateSchema(r)
  BY <1>1, <1>3 DEF CreateSchema, Go, Fill, RequestInv, SlugInv
<1>4. CASE Migrate(r)
  BY <1>1, <1>4 DEF Migrate, Go, Fill, RequestInv, SlugInv
<1>5. CASE TimeOut(r) \/ Hang(r) \/ Fails(r)
  BY <1>1, <1>5 DEF TimeOut, Hang, Fails, Go, RequestInv, SlugInv
<1>6. CASE Seed(r)
  BY <1>1, <1>6 DEF Seed, Go, Fill, RequestInv, SlugInv
<1>7. CASE CreateAdmin(r)
  BY <1>1, <1>7 DEF CreateAdmin, Go, RequestInv, SlugInv
<1>8. CASE Activate(r)
  BY <1>1, <1>8 DEF Activate, Go, RequestInv, SlugInv
<1>9. CASE Rollback(r) \/ RollbackBreaks(r)
  BY <1>1, <1>9 DEF Rollback, RollbackBreaks, Retire, Go, Fill, RequestInv, SlugInv
<1>10. CASE Crash(r)
  BY <1>1, <1>10 DEF Crash, Go, RequestInv, SlugInv
<1>11. QED
  BY <1>2, <1>3, <1>4, <1>5, <1>6, <1>7, <1>8, <1>9, <1>10 DEF Advance

\* ... and when it gives the row up, that is to a finished or a deleted tenant,
\* or it was interrupted.
LEMMA GivesUp ==
  ASSUME SagaInv, NEW r \in Request, Advance(r) \/ Hang(r) \/ Crash(r)
  PROVE  \/ for[r] \in finished' \/ for[r] \in deleted'
         \/ at'[r] \in Owning \/ at'[r] \in {"unsure", "broken", "lost"}
         \/ at[r] = "insert" /\ row' = row /\ at'[r] \notin Owning
<1> USE DEF TypeOK, Steps, Owning, Guarded, Compensating, Ended
<1>1. TypeOK
  BY DEF SagaInv
<1>2. CASE Insert(r)
  BY <1>1, <1>2 DEF Insert, Go
<1>3. CASE CreateSchema(r) \/ Migrate(r) \/ Seed(r)
  BY <1>1, <1>3 DEF CreateSchema, Migrate, Seed, Go
<1>4. CASE TimeOut(r) \/ Hang(r) \/ Fails(r) \/ RollbackBreaks(r) \/ Crash(r)
  BY <1>1, <1>4 DEF TimeOut, Hang, Fails, RollbackBreaks, Crash, Go
<1>5. CASE CreateAdmin(r) \/ Activate(r) \/ Rollback(r)
  BY <1>1, <1>5 DEF CreateAdmin, Activate, Rollback, Retire, Go
<1>6. QED
  BY <1>2, <1>3, <1>4, <1>5 DEF Advance

LEMMA StepRequest ==
  ASSUME SagaInv, NEW r \in Request, Advance(r) \/ Hang(r) \/ Crash(r)
  PROVE  SagaInv'
<1>0. /\ TypeOK /\ OneOwner /\ for' = for /\ for[r] \in Slug
      /\ \A q \in Request : RequestInv(q)
      /\ \A q \in Request \ {r} : at'[q] = at[q]
  BY RequestFrame DEF SagaInv
<1>1. TypeOK'
  BY StepType DEF Next
<1>2. \A q \in Request : RequestInv(q)'
  <2> SUFFICES ASSUME NEW q \in Request, q # r PROVE RequestInv(q)'
    BY OwnStep
  <2>1. at'[q] = at[q] /\ for'[q] = for[q] /\ RequestInv(q)
    BY <1>0
  <2>2. CASE for[q] # for[r]
    <3>1. CASE for[q] \in Slug
      BY <2>1, <2>2, <3>1, RequestFrame DEF RequestInv
    <3>2. CASE for[q] \notin Slug
      BY <2>1, <3>2 DEF RequestInv, Owning, Guarded, Compensating
    <3>3. QED
      BY <3>1, <3>2
  <2>3. CASE for[q] = for[r] /\ at[q] \in Owning
    <3>1. at[r] \notin Owning
      BY <1>0, <2>3 DEF OneOwner
    <3>2. QED
      BY <2>1, <2>3, <3>1, OwnStep DEF RequestInv
  <2>4. CASE at[q] \notin Owning
    BY <1>0, <2>1, <2>4 DEF RequestInv, Owning, Guarded, Compensating
  <2>5. QED
    BY <2>2, <2>3, <2>4
<1>3. OneOwner'
  <2> SUFFICES ASSUME NEW q \in Request, q # r, at'[q] \in Owning,
                      at'[r] \in Owning, for'[q] = for'[r]
               PROVE  FALSE
    BY <1>0 DEF OneOwner
  <2>1. at[q] \in Owning /\ for[q] = for[r] /\ row[for[q]] # "none"
    BY <1>0 DEF RequestInv
  <2>2. QED
    BY <1>0, <2>1, OwnStep DEF OneOwner
<1>4. \A s \in Slug : SlugInv(s)'
  <2>1. ASSUME NEW s \in Slug, s # for[r] PROVE SlugInv(s)'
    <3>1. SlugInv(s)
      BY DEF SagaInv
    <3>2. QED
      BY <2>1, <3>1, RequestFrame DEF SlugInv
  <2>2. SlugInv(for[r])'
    BY OwnStep
  <2>3. ASSUME NEW s \in Slug, s = for[r] PROVE SlugInv(s)'
    BY <1>0, <2>2, <2>3 DEF SlugInv
  <2>4. QED
    BY <2>1, <2>3
<1>5. \A s \in Slug : Left(s)'
  <2> SUFFICES ASSUME NEW s \in Slug PROVE Left(s)'
    OBVIOUS
  <2>0. Left(s)
    BY DEF SagaInv
  <2>1. CASE s # for[r]
    <3>1. WorkedOn(s) => WorkedOn(s)'
      BY <1>0, <2>1 DEF WorkedOn
    <3>2. Interrupted(s) => Interrupted(s)'
      BY <1>0, <2>1 DEF Interrupted
    <3>3. QED
      BY <2>0, <2>1, <3>1, <3>2, RequestFrame DEF Left
  <2>2. CASE s = for[r]
    <3>1. CASE at'[r] \in Owning \/ at'[r] \in {"unsure", "broken", "lost"}
      BY <1>0, <2>2, <3>1 DEF Left, WorkedOn, Interrupted
    <3>2. CASE s \in finished' \/ s \in deleted'
      BY <3>2 DEF Left
    <3>3. CASE at[r] = "insert" /\ row' = row /\ at'[r] \notin Owning
      <4>1. /\ at[r] \notin Owning /\ at[r] \notin {"unsure", "broken", "lost"}
        BY <3>3 DEF Owning, Guarded, Compensating
      <4>2. deleted' = deleted /\ finished' = finished
        BY <4>1, OwnStep
      <4>3. WorkedOn(s) => WorkedOn(s)'
        BY <1>0, <4>1 DEF WorkedOn
      <4>4. Interrupted(s) => Interrupted(s)'
        BY <1>0, <4>1 DEF Interrupted
      <4>5. QED
        BY <2>0, <3>3, <4>2, <4>3, <4>4 DEF Left
    <3>4. QED
      BY <2>2, <3>1, <3>2, <3>3, GivesUp
  <2>3. QED
    BY <2>1, <2>2
<1>6. ListedInv'
  BY RequestFrame, OwnStep DEF SagaInv, ListedInv, TypeOK
<1>7. QED
  BY <1>1, <1>2, <1>3, <1>4, <1>5, <1>6 DEF SagaInv

-----------------------------------------------------------------------------
(* The other steps.                                                         *)

LEMMA StepAsk ==
  ASSUME SagaInv, NEW r \in Request, NEW s \in Slug, Ask(r, s)
  PROVE  SagaInv'
<1>0. /\ TypeOK /\ OneOwner /\ at[r] = "idle"
      /\ \A q \in Request : RequestInv(q)
      /\ at'[r] \in {"insert", "refused"} /\ for'[r] = s
      /\ \A q \in Request \ {r} : at'[q] = at[q] /\ for'[q] = for[q]
      /\ UNCHANGED <<row, deleted, schema, admins, listed, finished>>
  BY DEF SagaInv, Ask, Go, TypeOK
<1>1. TypeOK'
  BY StepType DEF Next
<1>2. \A q \in Request : RequestInv(q)'
  <2>1. RequestInv(r)'
    BY <1>0 DEF RequestInv, Owning, Guarded, Compensating
  <2>2. ASSUME NEW q \in Request, q # r PROVE RequestInv(q)'
    <3>1. RequestInv(q) /\ at'[q] = at[q] /\ for'[q] = for[q]
      BY <1>0, <2>2
    <3>2. QED
      BY <1>0, <3>1 DEF RequestInv
  <2>3. QED
    BY <2>1, <2>2
<1>3. OneOwner'
  BY <1>0 DEF OneOwner, Owning, Guarded, Compensating
<1>4. \A x \in Slug : SlugInv(x)'
  BY <1>0 DEF SagaInv, SlugInv
<1>5. ASSUME NEW x \in Slug PROVE Left(x)'
  <2>1. Left(x) /\ at[r] \notin Owning /\ at[r] \notin {"unsure", "broken", "lost"}
    BY <1>0 DEF SagaInv, Owning, Guarded, Compensating
  <2>2. WorkedOn(x) => WorkedOn(x)'
    BY <1>0, <2>1 DEF WorkedOn
  <2>3. Interrupted(x) => Interrupted(x)'
    BY <1>0, <2>1 DEF Interrupted
  <2>4. QED
    BY <1>0, <2>1, <2>2, <2>3 DEF Left
<1>6. ListedInv'
  BY <1>0 DEF SagaInv, ListedInv
<1>7. QED
  BY <1>1, <1>2, <1>3, <1>4, <1>5, <1>6 DEF SagaInv

LEMMA StepWrite ==
  ASSUME SagaInv, NEW s \in Slug, Suspend(s) \/ Reactivate(s)
  PROVE  SagaInv'
<1>0. /\ TypeOK /\ OneOwner
      /\ \A q \in Request : RequestInv(q)
      /\ UNCHANGED <<at, for, deleted, schema, admins, listed, finished>>
      /\ row[s] # "none" /\ row'[s] \in {"ACTIVE", "SUSPENDED"}
      /\ \A x \in Slug \ {s} : row'[x] = row[x]
  BY DEF SagaInv, Suspend, Reactivate, Write, TypeOK
<1>1. TypeOK'
  BY StepType DEF Next
<1>2. ASSUME NEW q \in Request PROVE RequestInv(q)'
  <2>1. RequestInv(q)
    BY <1>0
  <2>2. at[q] \in Owning => row'[for[q]] # "none"
    BY <1>0, <2>1 DEF RequestInv
  <2>3. QED
    BY <1>0, <2>1, <2>2 DEF RequestInv
<1>3. OneOwner'
  BY <1>0 DEF OneOwner
<1>4. \A x \in Slug : SlugInv(x)'
  BY <1>0 DEF SagaInv, SlugInv
<1>5. ASSUME NEW x \in Slug PROVE Left(x)'
  <2>1. Left(x)
    BY DEF SagaInv
  <2>2. WorkedOn(x)' <=> WorkedOn(x)
    BY <1>0 DEF WorkedOn
  <2>3. Interrupted(x)' <=> Interrupted(x)
    BY <1>0 DEF Interrupted
  <2>4. row[x] = "none" => row'[x] = "none"
    BY <1>0
  <2>5. QED
    BY <1>0, <2>1, <2>2, <2>3, <2>4 DEF Left
<1>6. ListedInv'
  BY <1>0 DEF SagaInv, ListedInv, TypeOK
<1>7. QED
  BY <1>1, <1>2, <1>3, <1>4, <1>5, <1>6 DEF SagaInv

\* A deploy touches nothing but its list and, with Upgrade, one schema, which it
\* neither drops nor empties.
LEMMA DeployFrame ==
  ASSUME SagaInv, NEW d \in Deploy,
         List(d) \/ StopDeploy(d) \/ \E s \in Slug : Upgrade(d, s)
  PROVE  /\ UNCHANGED <<row, deleted, admins, at, for, finished>>
         /\ \A s \in Slug : schema'[s] \in {schema[s], Upgraded(schema[s])}
         /\ \A s \in listed'[d] : s \in listed[d] \/ row[s] # "none"
         /\ \A c \in Deploy \ {d} : listed'[c] = listed[c]
<1>0. TypeOK
  BY DEF SagaInv
<1>1. CASE List(d) \/ StopDeploy(d)
  BY <1>0, <1>1 DEF List, StopDeploy, Migratable, TypeOK
<1>2. ASSUME NEW s \in Slug, Upgrade(d, s)
      PROVE  /\ UNCHANGED <<row, deleted, admins, at, for, finished>>
             /\ \A x \in Slug : schema'[x] \in {schema[x], Upgraded(schema[x])}
             /\ \A x \in listed'[d] : x \in listed[d]
             /\ \A c \in Deploy \ {d} : listed'[c] = listed[c]
  BY <1>0, <1>2 DEF Upgrade, TypeOK
<1>3. QED
  BY <1>1, <1>2

LEMMA StepDeploy ==
  ASSUME SagaInv, NEW d \in Deploy,
         List(d) \/ StopDeploy(d) \/ \E s \in Slug : Upgrade(d, s)
  PROVE  SagaInv'
<1>1. TypeOK'
  BY StepType DEF Next
<1>2. UNCHANGED <<row, deleted, admins, at, for, finished>>
  BY DeployFrame
<1>3. \A s \in Slug :
        /\ schema[s] \in {"migrated", "seeded"} => schema'[s] = schema[s]
        /\ schema[s] \in {"none", "deployed"} => schema'[s] \in {"none", "deployed"}
  BY DeployFrame DEF Upgraded
<1>4. ASSUME NEW r \in Request PROVE RequestInv(r)'
  <2>1. RequestInv(r)
    BY DEF SagaInv
  <2>2. CASE for[r] \in Slug
    BY <1>2, <1>3, <2>1, <2>2 DEF RequestInv
  <2>3. CASE for[r] \notin Slug
    BY <1>2, <2>1, <2>3 DEF RequestInv, Owning, Guarded, Compensating
  <2>4. QED
    BY <2>2, <2>3
<1>5. OneOwner'
  BY <1>2 DEF SagaInv, OneOwner
<1>6. \A s \in Slug : SlugInv(s)'
  BY <1>2, <1>3 DEF SagaInv, SlugInv
<1>7. \A s \in Slug : Left(s)'
  BY <1>2 DEF SagaInv, Left, WorkedOn, Interrupted
<1>8. ListedInv'
  BY <1>2, DeployFrame DEF SagaInv, ListedInv
<1>9. QED
  BY <1>1, <1>4, <1>5, <1>6, <1>7, <1>8 DEF SagaInv

LEMMA Invariance == Spec => []SagaInv
<1>1. Init => SagaInv
  <2> SUFFICES ASSUME Init PROVE SagaInv
    OBVIOUS
  <2>1. TypeOK
    BY BoundAssumption DEF Init, TypeOK, RowStatus, Contents, Steps
  <2>2. \A r \in Request : RequestInv(r) /\ at[r] \notin Owning
    BY DEF Init, RequestInv, Owning, Guarded, Compensating
  <2>3. \A s \in Slug : SlugInv(s) /\ Left(s)
    BY DEF Init, SlugInv, Left
  <2>4. ListedInv
    BY DEF Init, ListedInv
  <2>5. QED
    BY <2>1, <2>2, <2>3, <2>4 DEF SagaInv, OneOwner
<1>2. SagaInv /\ [Next]_vars => SagaInv'
  <2> SUFFICES ASSUME SagaInv, [Next]_vars PROVE SagaInv'
    OBVIOUS
  <2>1. CASE UNCHANGED vars
    BY <2>1 DEF vars, SagaInv, TypeOK, RequestInv, OneOwner, SlugInv, Left,
      WorkedOn, Interrupted, ListedInv
  <2>2. QED
    BY <2>1, StepRequest, StepAsk, StepWrite, StepDeploy DEF Next
<1>3. QED
  BY <1>1, <1>2, PTL DEF Spec

-----------------------------------------------------------------------------
(* The theorems.                                                            *)

\* Every variable keeps its type.
THEOREM TenantTypeCorrect == Spec => []TypeOK
<1>1. SagaInv => TypeOK
  BY DEF SagaInv
<1>2. QED
  BY <1>1, Invariance, PTL

\* However many requests ask for the same slug, a finished tenant keeps its
\* row, schema and administrator.
THEOREM FinishedIsKept == Spec => []FinishedKeepsSchema
<1>1. SagaInv => FinishedKeepsSchema
  <2> SUFFICES ASSUME SagaInv, NEW s \in finished
               PROVE  /\ row[s] \in {"ACTIVE", "SUSPENDED"}
                      /\ s \notin deleted
                      /\ schema[s] \in {"migrated", "seeded"}
                      /\ s \in admins
    BY DEF FinishedKeepsSchema
  <2>1. s \in Slug /\ row[s] \in RowStatus /\ SlugInv(s)
    BY DEF SagaInv, TypeOK
  <2>2. QED
    BY <2>1 DEF SlugInv, RowStatus
<1>2. QED
  BY <1>1, Invariance, PTL

\* A soft-deleted tenant has no schema, wherever processes die, or one that a
\* deploy created after the rollback had dropped it.
THEOREM DeletedIsGone == Spec => []DeletedLeavesNoSchema
<1>1. SagaInv => DeletedLeavesNoSchema
  BY DEF SagaInv, TypeOK, SlugInv, DeletedLeavesNoSchema
<1>2. QED
  BY <1>1, Invariance, PTL

\* Nothing but a crash, a failed rollback or a lost answer to the INSERT's commit
\* leaves an unfinished tenant behind.
THEOREM AbandonedByMishap == Spec => []AbandonedOnlyByMishap
<1>1. SagaInv => AbandonedOnlyByMishap
  <2> SUFFICES ASSUME SagaInv,
                      NEW s \in Slug \ (finished \union deleted),
                      row[s] # "none", ~WorkedOn(s)
               PROVE  Interrupted(s)
    BY DEF AbandonedOnlyByMishap
  <2>1. Left(s)
    BY DEF SagaInv
  <2>2. QED
    BY <2>1 DEF Left
<1>2. QED
  BY <1>1, Invariance, PTL

-----------------------------------------------------------------------------
(* The refinement of TenantLife.                                            *)

LifeState ==
  <<[s \in Slug |-> LifeStage(s)], [s \in Slug |-> LifeBuilt(s)], admins, LifeDue>>

\* A step that leaves a slug's row, its history and its workers as they are leaves
\* its stage.
LEMMA SameStage ==
  ASSUME NEW s \in Slug, row'[s] = "none" <=> row[s] = "none",
         s \in finished' <=> s \in finished, s \in deleted' <=> s \in deleted,
         WorkedOn(s)' <=> WorkedOn(s)
  PROVE  LifeStage(s)' = LifeStage(s)
BY DEF LifeStage

\* A request is at work on its own slug only.
LEMMA OthersStage ==
  ASSUME SagaInv, NEW r \in Request, Advance(r) \/ Hang(r) \/ Crash(r),
         NEW s \in Slug, s # for[r]
  PROVE  LifeStage(s)' = LifeStage(s) /\ LifeBuilt(s)' = LifeBuilt(s)
<1>1. WorkedOn(s)' <=> WorkedOn(s)
  BY RequestFrame DEF WorkedOn
<1>2. LifeStage(s)' = LifeStage(s)
  BY <1>1, RequestFrame, SameStage
<1>3. QED
  BY <1>2, RequestFrame DEF LifeBuilt

\* The mapped variables, when a step of r changed nothing but its own slug.
LEMMA OneSlug ==
  ASSUME SagaInv, NEW r \in Request, Advance(r) \/ Hang(r) \/ Crash(r)
  PROVE  /\ for[r] \in Slug /\ LifeDue' = LifeDue
         /\ [s \in Slug |-> LifeStage(s)]'
              = [[s \in Slug |-> LifeStage(s)] EXCEPT ![for[r]] = LifeStage(for[r])']
         /\ [s \in Slug |-> LifeBuilt(s)]'
              = [[s \in Slug |-> LifeBuilt(s)] EXCEPT ![for[r]] = LifeBuilt(for[r])']
<1>1. for[r] \in Slug /\ for' = for
  BY RequestFrame
<1>2. \A s \in Slug \ {for[r]} :
        LifeStage(s)' = LifeStage(s) /\ LifeBuilt(s)' = LifeBuilt(s)
  BY OthersStage
<1>3. LifeDue' = LifeDue
  BY RequestFrame DEF LifeDue
<1>4. QED
  BY <1>1, <1>2, <1>3

\* Nobody but the owner of a slug works on it.
LEMMA Building ==
  ASSUME SagaInv, NEW r \in Request, at[r] \in Owning
  PROVE  LifeStage(for[r]) = "building"
BY DEF SagaInv, RequestInv, LifeStage, WorkedOn

\* A request that still has its slug builds it.
LEMMA BuildStep ==
  ASSUME SagaInv, NEW r \in Request, Advance(r) \/ Hang(r) \/ Crash(r),
         at[r] \in Owning, at'[r] \in Owning, SagaInv',
         admins' \in {admins, admins \union {for[r]}}
  PROVE  Life!Build(for[r])
<1>1. LifeStage(for[r]) = "building"
  BY Building
<1>2. for' = for /\ for[r] \in Slug
  BY RequestFrame
<1>3. LifeStage(for[r])' = "building"
  <2>1. RequestInv(r)'
    BY DEF SagaInv
  <2>2. QED
    BY <1>2, <2>1 DEF RequestInv, LifeStage, WorkedOn
<1>4. LifeBuilt(for[r])' \in (Life!Built \ {"deployed"}) \union {LifeBuilt(for[r])}
  <2>1. schema'[for[r]] = "deployed" => schema[for[r]] = "deployed"
    BY OwnStep
  <2>2. QED
    BY <1>2, <2>1 DEF LifeBuilt, Life!Built
<1>5. [s \in Slug |-> LifeStage(s)]' = [s \in Slug |-> LifeStage(s)]
  BY <1>1, <1>3, OneSlug
<1>6. QED
  BY <1>1, <1>2, <1>4, <1>5, OneSlug DEF Life!Build

\* A step of r that takes its slug from one stage to another
LEMMA EnterStep ==
  ASSUME SagaInv, NEW r \in Request, Advance(r) \/ Hang(r) \/ Crash(r),
         UNCHANGED <<schema, admins>>, NEW from, NEW to,
         LifeStage(for[r]) = from, LifeStage(for[r])' = to
  PROVE  Life!Enter(for[r], from, to)
<1>1. for[r] \in Slug
  BY RequestFrame
<1>2. [s \in Slug |-> LifeBuilt(s)]' = [s \in Slug |-> LifeBuilt(s)]
  BY DEF LifeBuilt
<1>3. QED
  BY <1>1, <1>2, OneSlug DEF Life!Enter

\* When its only worker leaves it, nobody works on a slug.
LEMMA Deserted ==
  ASSUME SagaInv, NEW r \in Request, Advance(r) \/ Hang(r) \/ Crash(r),
         at[r] \in Owning, at'[r] \notin Owning
  PROVE  ~WorkedOn(for[r])'
<1>1. OneOwner /\ for' = for /\ \A q \in Request \ {r} : at'[q] = at[q]
  BY RequestFrame DEF SagaInv
<1>2. QED
  BY <1>1 DEF OneOwner, WorkedOn

\* Every step of a request is a step of the life of its slug, or none.
LEMMA LifeRequest ==
  ASSUME SagaInv, SagaInv', NEW r \in Request, Advance(r) \/ Hang(r) \/ Crash(r)
  PROVE  Life!Next \/ UNCHANGED LifeState
<1> DEFINE s == for[r]
<1>0. /\ TypeOK /\ RequestInv(r) /\ s \in Slug /\ SlugInv(s) /\ for' = for
      /\ \A q \in Request \ {r} : at'[q] = at[q]
  BY RequestFrame DEF SagaInv
<1> USE DEF Owning, Guarded, Compensating
<1>1. CASE at[r] = "insert" /\ at'[r] = "schema"
  <2>1. Insert(r) /\ row[s] = "none" /\ row'[s] = "PROVISIONING"
        /\ UNCHANGED <<deleted, schema, admins, finished>>
    BY <1>0, <1>1 DEF Advance, Insert, CreateSchema, Migrate, TimeOut, Seed, CreateAdmin,
      Activate, Fails, Rollback, RollbackBreaks, Hang, Crash, Go, TypeOK
  <2>2. LifeStage(s) = "free"
    BY <1>0, <2>1 DEF LifeStage, SlugInv
  <2>3. LifeStage(s)' = "building"
    BY <1>0, <1>1, <2>1 DEF LifeStage, SlugInv, WorkedOn
  <2>4. QED
    BY <1>0, <2>1, <2>2, <2>3, EnterStep DEF Life!Next, Life!Claim
<1>2. CASE at[r] = "insert" /\ at'[r] = "unsure"
  <2>1. Insert(r) /\ row[s] = "none" /\ row'[s] = "PROVISIONING"
        /\ UNCHANGED <<deleted, schema, admins, finished>>
    BY <1>0, <1>2 DEF Advance, Insert, CreateSchema, Migrate, TimeOut, Seed, CreateAdmin,
      Activate, Fails, Rollback, RollbackBreaks, Hang, Crash, Go, TypeOK
  <2>2. LifeStage(s) = "free"
    BY <1>0, <2>1 DEF LifeStage, SlugInv
  <2>3. ~WorkedOn(s)'
    <3>1. \A q \in Request : for[q] = s => at[q] \notin Owning
      BY <2>1 DEF SagaInv, RequestInv
    <3>2. QED
      BY <1>0, <1>2, <3>1 DEF WorkedOn
  <2>4. LifeStage(s)' = "abandoned"
    BY <1>0, <2>1, <2>3 DEF LifeStage, SlugInv
  <2>5. QED
    BY <1>0, <2>1, <2>2, <2>4, EnterStep DEF Life!Next, Life!Abandon
<1>3. CASE at[r] = "insert" /\ at'[r] \notin {"schema", "unsure"}
  <2>1. at'[r] \notin Owning /\ UNCHANGED <<row, deleted, schema, admins, finished>>
    BY <1>0, <1>3 DEF Advance, Insert, CreateSchema, Migrate, TimeOut, Seed, CreateAdmin,
      Activate, Fails, Rollback, RollbackBreaks, Hang, Crash, Go, TypeOK
  <2>2. \A x \in Slug : WorkedOn(x)' <=> WorkedOn(x)
    BY <1>0, <1>3, <2>1 DEF WorkedOn
  <2>3. \A x \in Slug : LifeStage(x)' = LifeStage(x) /\ LifeBuilt(x)' = LifeBuilt(x)
    BY <2>1, <2>2 DEF LifeStage, LifeBuilt
  <2>4. QED
    BY <2>1, <2>3, OneSlug DEF LifeState
<1>4. CASE at[r] \in Owning /\ at'[r] \in Owning
  <2>1. admins' \in {admins, admins \union {s}}
    BY <1>4 DEF Advance, Insert, CreateSchema, Migrate, TimeOut, Seed, CreateAdmin,
      Activate, Fails, Rollback, RollbackBreaks, Hang, Crash
  <2>2. QED
    BY <1>0, <1>4, <2>1, BuildStep DEF Life!Next
<1>5. CASE at[r] \in Owning /\ at'[r] \notin Owning
  <2>0. LifeStage(s) = "building" /\ ~WorkedOn(s)'
    BY <1>0, <1>5, Building, Deserted
  <2>1. CASE Activate(r)
    <3>1. /\ at[r] = "activate" /\ s \in finished' /\ UNCHANGED <<schema, admins>>
      BY <1>0, <1>5, <2>1 DEF Activate, Go, TypeOK
    <3>2. LifeStage(s)' = "serving"
      BY <1>0, <3>1 DEF LifeStage
    <3>3. LifeBuilt(s) = "ready" /\ s \in admins
      BY <1>0, <3>1 DEF RequestInv, LifeBuilt
    <3>4. Life!Enter(s, "building", "serving")
      BY <2>0, <2>1, <3>1, <3>2, EnterStep DEF Advance
    <3>5. QED
      BY <1>0, <3>3, <3>4 DEF Life!Next, Life!Serve
  <2>2. CASE (Rollback(r) \/ RollbackBreaks(r)) /\ s \in deleted'
    <3>1. /\ at[r] = "retire" /\ UNCHANGED <<schema, admins, finished>>
      BY <1>0, <1>5, <2>2 DEF Rollback, RollbackBreaks, RequestInv, Go, TypeOK
    <3>2. s \notin finished' /\ LifeBuilt(s) \in {"nothing", "deployed"}
      BY <1>0, <3>1 DEF RequestInv, LifeBuilt
    <3>3. LifeStage(s)' = "removed"
      BY <1>0, <2>2, <3>2 DEF LifeStage
    <3>4. Life!Enter(s, "building", "removed")
      BY <2>0, <2>2, <3>1, <3>3, EnterStep DEF Advance
    <3>5. QED
      BY <1>0, <3>2, <3>4 DEF Life!Next, Life!Remove
  <2>3. CASE (RollbackBreaks(r) \/ Crash(r)) /\ s \notin deleted'
    <3>1. UNCHANGED <<row, deleted, schema, admins, finished>>
      BY <2>3 DEF RollbackBreaks, Retire, Crash
    <3>2. LifeStage(s)' = "abandoned"
      BY <1>0, <1>5, <2>0, <3>1 DEF LifeStage, RequestInv
    <3>3. Life!Enter(s, "building", "abandoned")
      BY <2>0, <2>3, <3>1, <3>2, EnterStep DEF Advance
    <3>4. QED
      BY <1>0, <3>3 DEF Life!Next, Life!Abandon
  <2>4. QED
    BY <1>0, <1>5, <2>1, <2>2, <2>3 DEF Advance, Insert, CreateSchema, Migrate, TimeOut,
      Seed, CreateAdmin, Fails, Hang, Rollback, Retire, RequestInv, Crash, Go, TypeOK
<1>6. QED
  BY <1>0, <1>1, <1>2, <1>3, <1>4, <1>5 DEF Advance, Insert, CreateSchema, Migrate, TimeOut,
    Seed, CreateAdmin, Activate, Fails, Rollback, RollbackBreaks, Hang, Crash

LEMMA LifeAsk ==
  ASSUME SagaInv, NEW r \in Request, NEW q \in Slug, Ask(r, q)
  PROVE  UNCHANGED LifeState
<1>1. /\ at[r] \notin Owning /\ at'[r] \notin Owning
      /\ \A p \in Request \ {r} : at'[p] = at[p] /\ for'[p] = for[p]
      /\ UNCHANGED <<row, deleted, schema, admins, listed, finished>>
  BY DEF SagaInv, TypeOK, Ask, Go, Owning, Guarded, Compensating
<1>2. \A s \in Slug : WorkedOn(s)' <=> WorkedOn(s)
  BY <1>1 DEF WorkedOn
<1>3. \A s \in Slug : LifeStage(s)' = LifeStage(s) /\ LifeBuilt(s)' = LifeBuilt(s)
  BY <1>1, <1>2 DEF LifeStage, LifeBuilt
<1>4. QED
  BY <1>1, <1>3 DEF LifeState, LifeDue

LEMMA LifeWrite ==
  ASSUME SagaInv, NEW q \in Slug, Suspend(q) \/ Reactivate(q)
  PROVE  UNCHANGED LifeState
<1>1. /\ row[q] # "none" /\ row'[q] # "none" /\ \A s \in Slug \ {q} : row'[s] = row[s]
      /\ UNCHANGED <<deleted, schema, admins, at, for, listed, finished>>
  BY DEF SagaInv, TypeOK, Suspend, Reactivate, Write
<1>2. \A s \in Slug : LifeStage(s)' = LifeStage(s) /\ LifeBuilt(s)' = LifeBuilt(s)
  BY <1>1 DEF LifeStage, LifeBuilt, WorkedOn
<1>3. QED
  BY <1>1, <1>2 DEF LifeState, LifeDue

\* Every step of a deploy is one of the abstract deploys.
LEMMA LifeDeploy ==
  ASSUME SagaInv, NEW d \in Deploy,
         List(d) \/ StopDeploy(d) \/ \E s \in Slug : Upgrade(d, s)
  PROVE  Life!Next
<1>0. TypeOK
  BY DEF SagaInv
<1>1. /\ UNCHANGED <<row, deleted, admins, at, for, finished>>
      /\ [s \in Slug |-> LifeStage(s)]' = [s \in Slug |-> LifeStage(s)]
  BY DeployFrame DEF LifeStage, WorkedOn
<1>2. CASE List(d)
  <2> DEFINE more == {s \in Slug : Migratable(s) /\ s \notin deleted}
  <2>1. /\ listed[d] = {} /\ schema' = schema
        /\ listed' = [listed EXCEPT ![d] = more]
    BY <1>2 DEF List
  <2>2. LifeDue' = LifeDue \union more
    BY <1>0, <2>1 DEF LifeDue, TypeOK
  <2>3. \A s \in more : LifeStage(s) \notin {"free", "removed"}
    BY DEF Migratable, LifeStage
  <2>4. more \in SUBSET {s \in Slug : [x \in Slug |-> LifeStage(x)][s] \notin {"free", "removed"}}
    BY <2>3
  <2>5. [s \in Slug |-> LifeBuilt(s)]' = [s \in Slug |-> LifeBuilt(s)]
    BY <2>1 DEF LifeBuilt
  <2>6. QED
    BY <1>1, <2>2, <2>4, <2>5 DEF Life!Next, Life!Plan
<1>3. CASE StopDeploy(d)
  <2>1. LifeDue' \in SUBSET LifeDue
    BY <1>0, <1>3 DEF StopDeploy, LifeDue, TypeOK
  <2>2. [s \in Slug |-> LifeBuilt(s)]' = [s \in Slug |-> LifeBuilt(s)]
    BY <1>3 DEF StopDeploy, LifeBuilt
  <2>3. QED
    BY <1>1, <2>1, <2>2 DEF Life!Next, Life!GiveUp
<1>4. ASSUME NEW s \in Slug, Upgrade(d, s) PROVE Life!Next
  <2>1. /\ s \in listed[d] /\ listed' = [listed EXCEPT ![d] = @ \ {s}]
        /\ schema' = [schema EXCEPT ![s] = Upgraded(schema[s])]
    BY <1>4 DEF Upgrade
  <2>2. s \in LifeDue
    BY <2>1 DEF LifeDue
  <2>3. LifeDue' \in {LifeDue, LifeDue \ {s}}
    BY <1>0, <2>1 DEF LifeDue, TypeOK
  <2>4. LifeBuilt(s)' = CASE LifeBuilt(s) = "nothing" -> "deployed"
                          [] LifeBuilt(s) = "part"    -> "ready"
                          [] OTHER                    -> LifeBuilt(s)
    BY <1>0, <2>1 DEF LifeBuilt, Upgraded, TypeOK
  <2>5. \A x \in Slug \ {s} : LifeBuilt(x)' = LifeBuilt(x)
    BY <1>0, <2>1 DEF LifeBuilt, TypeOK
  <2>6. [x \in Slug |-> LifeBuilt(x)]'
          = [[x \in Slug |-> LifeBuilt(x)] EXCEPT ![s] = LifeBuilt(s)']
    BY <2>5
  <2>7. Life!Upgrade(s)
    BY <1>1, <2>2, <2>3, <2>4, <2>6 DEF Life!Upgrade
  <2>8. QED
    BY <2>7 DEF Life!Next
<1>5. QED
  BY <1>2, <1>3, <1>4

LEMMA LifeStep == SagaInv /\ SagaInv' /\ [Next]_vars => [Life!Next]_(Life!vars)
<1> SUFFICES ASSUME SagaInv, SagaInv', [Next]_vars
             PROVE  Life!Next \/ UNCHANGED LifeState
  BY DEF LifeState, Life!vars
<1>1. CASE UNCHANGED vars
  BY <1>1 DEF vars, LifeState, LifeStage, LifeBuilt, LifeDue, WorkedOn
<1>2. QED
  BY <1>1, LifeRequest, LifeAsk, LifeWrite, LifeDeploy DEF Next

\* The saga and the deploys implement TenantLife, for any slugs, any number of requests
\* that race for them, fail, hang or die, and any number of deploys: a subdomain is claimed
\* by one request, is built and torn down by that one alone, and afterwards only deploys
\* add to its schema, none of which listed it after it was removed.
THEOREM LifeKept == Spec => KeepsLife
<1>1. Init => Life!Init
  BY DEF Init, Life!Init, LifeStage, LifeBuilt, LifeDue
<1>2. QED
  BY <1>1, LifeStep, Invariance, PTL DEF Spec, KeepsLife, Life!Spec
=============================================================================
